---------------------------- MODULE AgentChannel ----------------------------
(***************************************************************************)
(* The sub-agent WebSocket of services/api/main.py with SubAgent.send of   *)
(* services/evaluator/agents/sub_agent.py, for one session and one agent:  *)
(* any number of connections, opened under any spelling of the agent's     *)
(* name, share the SubAgent of that spelling and with it one conversation  *)
(* history.  Every await of the handler ends an action.                    *)
(***************************************************************************)
EXTENDS Naturals, Sequences, FiniteSets

CONSTANTS
  Connections,
  Paths,         \* spellings of the agent's name in the URL ("DELTA", "delta")
  MaxMessages,   \* bound on the messages all clients send
  MaxRestarts

ASSUME ChannelAssumption == MaxMessages \in Nat /\ MaxRestarts \in Nat

Messages == 1..MaxMessages

VARIABLES
  session,     \* the registry's record: ACTIVE, COMPLETED or ABSENT
  producer,    \* is state.producer set?
  agents,      \* keys of agent_sessions[session_id]
  history,     \* [Paths -> the SubAgent's _history]
  conn,        \* [Connections -> progress of agent_websocket]
  path,        \* [Connections -> the agent_name of its URL]
  message,     \* [Connections -> the message in hand, 0 if none]
  sent,        \* number of messages the clients have sent
  prompted,    \* messages whose PROMPT_SENT is queued
  responded,   \* messages whose AGENT_RESPONSE is queued
  answered,    \* messages whose response the client received
  refused,     \* messages answered with {"error": "agent error"}
  failedCalls, \* history: messages whose LLM call raised
  dropped,     \* history: messages in hand when their handler was cut off
  restarts

vars == <<session, producer, agents, history, conn, path, message, sent, prompted,
          responded, answered, refused, failedCalls, dropped, restarts>>

subAgent  == <<agents, history>>
kafka     == <<prompted, responded>>
client    == <<answered, refused>>
process   == <<session, producer, restarts>>

User(m)      == [role |-> "user", of |-> m]
Assistant(m) == [role |-> "assistant", of |-> m]
Entry        == [role : {"user", "assistant"}, of : Messages]

ConnPc == {"closed", "accepting", "receiving", "emitting_prompt", "thinking", "emitting_response",
           "answering", "reporting_error"}

TypeOK ==
  /\ session \in {"ACTIVE", "COMPLETED", "ABSENT"}
  /\ producer \in BOOLEAN
  /\ agents \subseteq Paths /\ history \in [Paths -> Seq(Entry)]
  /\ conn \in [Connections -> ConnPc] /\ path \in [Connections -> Paths]
  /\ message \in [Connections -> 0..MaxMessages] /\ sent \in 0..MaxMessages
  /\ prompted \subseteq 1..sent /\ responded \subseteq 1..sent
  /\ answered \subseteq 1..sent /\ refused \subseteq 1..sent
  /\ failedCalls \subseteq 1..sent /\ dropped \subseteq 1..sent
  /\ restarts \in 0..MaxRestarts

Init ==
  /\ session = "ACTIVE" /\ producer \in BOOLEAN
  /\ agents = {} /\ history = [p \in Paths |-> <<>>]
  /\ conn = [c \in Connections |-> "closed"] /\ path \in [Connections -> Paths]
  /\ message = [c \in Connections |-> 0] /\ sent = 0
  /\ prompted = {} /\ responded = {} /\ answered = {} /\ refused = {}
  /\ failedCalls = {} /\ dropped = {} /\ restarts = 0

-----------------------------------------------------------------------------
(* The checks before accept(): an unknown or an ended session is refused.  *)
Connect(c, p) ==
  /\ conn[c] = "closed"
  /\ session = "ACTIVE"
  /\ conn' = [conn EXCEPT ![c] = "accepting"]
  /\ path' = [path EXCEPT ![c] = p]
  /\ UNCHANGED <<process, subAgent, message, sent, kafka, client, failedCalls, dropped>>

(* Variant: every connection gets a SubAgent of its own making.            *)
AttachFresh(c) ==
  /\ conn[c] = "accepting"
  /\ conn' = [conn EXCEPT ![c] = "receiving"]
  /\ agents' = agents \cup {path[c]}
  /\ history' = [history EXCEPT ![path[c]] = <<>>]
  /\ UNCHANGED <<process, path, message, sent, kafka, client, failedCalls, dropped>>

(* Get or create the SubAgent, keyed by the name as it is spelled: an      *)
(* existing one keeps its history, a new one has none.                     *)
Attach(c) ==
  /\ conn[c] = "accepting"
  /\ conn' = [conn EXCEPT ![c] = "receiving"]
  /\ agents' = agents \cup {path[c]}
  /\ history' = [history EXCEPT ![path[c]] = IF path[c] \in agents THEN @ ELSE <<>>]
  /\ UNCHANGED <<process, path, message, sent, kafka, client, failedCalls, dropped>>

(* SubAgent.send up to its await: the user's message is appended before    *)
(* the model is asked.                                                     *)
BeginSend(c, m) ==
  /\ conn' = [conn EXCEPT ![c] = "thinking"]
  /\ history' = [history EXCEPT ![path[c]] = Append(@, User(m))]

(* A text message with content.  Text that is not JSON is answered with an *)
(* error and blank content is skipped, both without a change; JSON that is *)
(* not an object with a text ends the handler (see Hang up).  The session  *)
(* is not looked at again.                                                 *)
Receive(c) ==
  /\ conn[c] = "receiving" /\ sent < MaxMessages
  /\ sent' = sent + 1
  /\ message' = [message EXCEPT ![c] = sent + 1]
  /\ IF producer THEN /\ conn' = [conn EXCEPT ![c] = "emitting_prompt"]
                      /\ UNCHANGED history
                 ELSE BeginSend(c, sent + 1)
  /\ UNCHANGED <<process, agents, path, kafka, client, failedCalls, dropped>>

(* PROMPT_SENT is best-effort: a failing emit is logged.                   *)
EmitPrompt(c) ==
  /\ conn[c] = "emitting_prompt"
  /\ prompted' \in {prompted, prompted \cup {message[c]}}
  /\ BeginSend(c, message[c])
  /\ UNCHANGED <<process, agents, path, message, sent, responded, client, failedCalls, dropped>>

(* Variant: the whole exchange is put where the user's message was last.   *)
ReplyOverwrites(c) ==
  /\ conn[c] = "thinking"
  /\ history' = [history EXCEPT ![path[c]] =
                   Append(SubSeq(@, 1, Len(@) - 1), Assistant(message[c]))]
  /\ conn' = [conn EXCEPT ![c] = IF producer THEN "emitting_response" ELSE "answering"]
  /\ UNCHANGED <<process, agents, path, message, sent, kafka, client, failedCalls, dropped>>

(* The model answers: the reply goes to the end of the history as it is    *)
(* now.                                                                    *)
Reply(c) ==
  /\ conn[c] = "thinking"
  /\ history' = [history EXCEPT ![path[c]] = Append(@, Assistant(message[c]))]
  /\ conn' = [conn EXCEPT ![c] = IF producer THEN "emitting_response" ELSE "answering"]
  /\ UNCHANGED <<process, agents, path, message, sent, kafka, client, failedCalls, dropped>>

(* Variants: the error is sent on as if it were the response; the handler  *)
(* waits for the next message without an error.                            *)
CallFailsAsResponse(c) ==
  /\ conn[c] = "thinking"
  /\ failedCalls' = failedCalls \cup {message[c]}
  /\ conn' = [conn EXCEPT ![c] = "emitting_response"]
  /\ UNCHANGED <<process, subAgent, path, message, sent, kafka, client, dropped>>

CallFailsSilently(c) ==
  /\ conn[c] = "thinking"
  /\ failedCalls' = failedCalls \cup {message[c]}
  /\ conn' = [conn EXCEPT ![c] = "receiving"]
  /\ message' = [message EXCEPT ![c] = 0]
  /\ UNCHANGED <<process, subAgent, path, sent, kafka, client, dropped>>

(* The model's client raises: the user's message stays in the history.     *)
CallFails(c) ==
  /\ conn[c] = "thinking"
  /\ failedCalls' = failedCalls \cup {message[c]}
  /\ conn' = [conn EXCEPT ![c] = "reporting_error"]
  /\ UNCHANGED <<process, subAgent, path, message, sent, kafka, client, dropped>>

EmitResponse(c) ==
  /\ conn[c] = "emitting_response"
  /\ responded' \in {responded, responded \cup {message[c]}}
  /\ conn' = [conn EXCEPT ![c] = "answering"]
  /\ UNCHANGED <<process, subAgent, path, message, sent, prompted, client, failedCalls, dropped>>

(* The response, or the error, reaches the client.                         *)
Answer(c) ==
  /\ conn[c] \in {"answering", "reporting_error"}
  /\ IF conn[c] = "answering"
       THEN answered' = answered \cup {message[c]} /\ UNCHANGED refused
       ELSE refused' = refused \cup {message[c]} /\ UNCHANGED answered
  /\ conn' = [conn EXCEPT ![c] = "receiving"]
  /\ message' = [message EXCEPT ![c] = 0]
  /\ UNCHANGED <<process, subAgent, path, sent, kafka, failedCalls, dropped>>

InHand(cs) == {message[c] : c \in cs} \ {0}

(* Hang up: the client has left, which the handler learns only when it     *)
(* receives or sends, or it sent JSON that is not an object with a text.   *)
(* The SubAgent stays for the next connection.                             *)
HangUp(c) ==
  /\ conn[c] \in {"accepting", "receiving", "answering", "reporting_error"}
  /\ conn' = [conn EXCEPT ![c] = "closed"]
  /\ dropped' = dropped \cup InHand({c})
  /\ message' = [message EXCEPT ![c] = 0]
  /\ UNCHANGED <<process, subAgent, path, sent, kafka, client, failedCalls>>

-----------------------------------------------------------------------------
(* The rest of the process: the session ends, by DELETE or by its          *)
(* watchdog, without a word to the connections.                            *)
SessionEnds ==
  /\ session = "ACTIVE"
  /\ session' = "COMPLETED"
  /\ UNCHANGED <<producer, restarts, subAgent, conn, path, message, sent, kafka, client,
                 failedCalls, dropped>>

(* A restart forgets the session, the SubAgents and the connections.       *)
Restart ==
  /\ restarts < MaxRestarts
  /\ restarts' = restarts + 1
  /\ session' = "ABSENT" /\ producer' \in BOOLEAN
  /\ agents' = {} /\ history' = [p \in Paths |-> <<>>]
  /\ conn' = [c \in Connections |-> "closed"]
  /\ dropped' = dropped \cup InHand(Connections)
  /\ message' = [c \in Connections |-> 0]
  /\ UNCHANGED <<path, sent, kafka, client, failedCalls>>

Handling(c) ==
  Attach(c) \/ EmitPrompt(c) \/ Reply(c) \/ CallFails(c) \/ EmitResponse(c) \/ Answer(c)

Next ==
  \/ \E c \in Connections :
       Receive(c) \/ HangUp(c) \/ Handling(c) \/ \E p \in Paths : Connect(c, p)
  \/ SessionEnds \/ Restart

Spec == Init /\ [][Next]_vars

(* The event loop and the producer thread go on, and every call of the     *)
(* model returns or raises (its HTTP client's default timeout; the code    *)
(* sets none).  The web client owes nothing.                               *)
FairSpec == Spec /\ \A c \in Connections : WF_vars(Handling(c))

-----------------------------------------------------------------------------
Position(p, entry) == {i \in DOMAIN history[p] : history[p][i] = entry}

(* Connections that share a history never garble it: no message and no     *)
(* reply is in it twice, and a reply comes after the message it answers.   *)
RepliesFollowPrompts ==
  \A p \in Paths, m \in Messages :
    /\ Cardinality(Position(p, User(m))) <= 1
    /\ Cardinality(Position(p, Assistant(m))) <= 1
    /\ \A i \in Position(p, Assistant(m)) : \E j \in Position(p, User(m)) : j < i

(* An unanswered message in the history is being answered right now by one *)
(* of the connections, or its call failed: there is no third way, and a    *)
(* client that hung up does not make one.                                  *)
HistoryBalances ==
  \A p \in Paths, m \in Messages :
    Position(p, User(m)) # {} /\ Position(p, Assistant(m)) = {} =>
      \/ m \in failedCalls
      \/ \E c \in Connections : conn[c] = "thinking" /\ path[c] = p /\ message[c] = m

(* Several connections write one history, and it stays a conversation.     *)
SharedHistoryIsSound == RepliesFollowPrompts /\ HistoryBalances

(* What the candidate was shown is what the agent remembers and what a     *)
(* later prompt builds on, until a restart forgets it all.                 *)
AnsweredIsRemembered ==
  restarts = 0 =>
    \A m \in answered \cup responded : \E p \in Paths : Position(p, Assistant(m)) # {}

(* One outcome per message, and telemetry agrees with it: no message is    *)
(* both answered and refused, and a failed call has no AGENT_RESPONSE.     *)
OneOutcome == answered \cap (refused \cup failedCalls) = {} /\ responded \cap failedCalls = {}

(* Every message that was received is answered or refused, unless its      *)
(* connection or the process went away.                                    *)
MessagesSettle == \A m \in Messages : sent >= m ~> m \in answered \cup refused \cup dropped

(* Every message comes to exactly one end.                                 *)
MessagesSettleOnce == []OneOutcome /\ MessagesSettle
=============================================================================
