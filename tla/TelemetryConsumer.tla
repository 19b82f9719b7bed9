------------------------- MODULE TelemetryConsumer -------------------------
(***************************************************************************)
(* services/telemetry/consumer.py: one TelemetryConsumer reading one       *)
(* partition with manual commits, its handler, its dead-letter producer,   *)
(* stop(), crashes and restarts.  The partition is an immutable log read   *)
(* through two offsets: where the consumer is, and where a new consumer of *)
(* the group would begin.                                                  *)
(***************************************************************************)
EXTENDS Naturals, Sequences

CONSTANTS
  Kinds,         \* kinds of message that are produced
  MaxMessages,   \* bound on the log
  MaxRestarts    \* bound on new consumers of the group

(* An event is valid; a malformed message fails json.loads or validation;  *)
(* an undecodable one is not text at all, so that json.loads raises        *)
(* something other than JSONDecodeError.                                   *)
AllKinds == {"event", "malformed", "undecodable"}

ASSUME ConsumerAssumption ==
  Kinds \subseteq AllKinds /\ MaxMessages \in Nat /\ MaxRestarts \in Nat

VARIABLES
  log,           \* the partition
  position,      \* messages this consumer has taken from poll()
  committed,     \* messages the group's committed offset covers
  pc,            \* where run() is
  stopping,      \* _stopping
  handled,       \* offsets whose handle_event returned
  failed,        \* offsets whose handle_event raised
  dlqQueue,      \* offsets in the dead-letter producer's queue
  deadLettered,  \* offsets that arrived on the dead-letter topic
  dlqLost,       \* offsets whose dead letter never will
  restarts

vars == <<log, position, committed, pc, stopping, handled, failed, dlqQueue,
          deadLettered, dlqLost, restarts>>

offsets  == <<position, committed>>
letters  == <<dlqQueue, deadLettered, dlqLost>>
outcomes == <<handled, failed>>

Pc == {"polling", "dispatching", "committing_event", "committing_malformed",
       "closing", "stopped", "crashed"}
Running == {"polling", "dispatching", "committing_event", "committing_malformed", "closing"}

TypeOK ==
  /\ log \in Seq(Kinds)
  /\ position \in Nat /\ committed \in Nat
  /\ pc \in Pc /\ stopping \in BOOLEAN
  /\ handled \subseteq 1..Len(log) /\ failed \subseteq 1..Len(log)
  /\ dlqQueue \subseteq 1..Len(log)
  /\ deadLettered \subseteq 1..Len(log)
  /\ dlqLost \subseteq 1..Len(log)
  /\ restarts \in 0..MaxRestarts

Init ==
  /\ log = <<>> /\ position = 0 /\ committed = 0
  /\ pc = "polling" /\ stopping = FALSE
  /\ handled = {} /\ failed = {}
  /\ dlqQueue = {} /\ deadLettered = {} /\ dlqLost = {}
  /\ restarts = 0

-----------------------------------------------------------------------------
Produce(kind) ==
  /\ Len(log) < MaxMessages
  /\ log' = Append(log, kind)
  /\ UNCHANGED <<offsets, pc, stopping, outcomes, letters, restarts>>

(* stop() only sets the flag; the message in hand is finished first.       *)
Stop ==
  /\ pc \in Running /\ ~stopping
  /\ stopping' = TRUE
  /\ UNCHANGED <<log, offsets, pc, outcomes, letters, restarts>>

(* Variant: a message is fetched only when the one before is committed.    *)
PollAfterCommit ==
  /\ pc = "polling" /\ ~stopping
  /\ position < Len(log) /\ position = committed
  /\ position' = position + 1
  /\ pc' = "dispatching"
  /\ UNCHANGED <<log, committed, stopping, outcomes, letters, restarts>>

(* poll() runs in a thread and moves the position past the message; empty  *)
(* polls and broker errors only go round the loop.                         *)
Poll ==
  /\ pc = "polling" /\ ~stopping
  /\ position < Len(log)
  /\ position' = position + 1
  /\ pc' = "dispatching"
  /\ UNCHANGED <<log, committed, stopping, outcomes, letters, restarts>>

(* The while loop is left when the flag is seen.                           *)
LeaveLoop ==
  /\ pc = "polling" /\ stopping
  /\ pc' = "closing"
  /\ UNCHANGED <<log, offsets, stopping, outcomes, letters, restarts>>

-----------------------------------------------------------------------------
(* _dispatch of the message at the position.                               *)
Current(kind) == pc = "dispatching" /\ log[position] = kind

HandleEvent ==
  /\ Current("event")
  /\ handled' = handled \cup {position}
  /\ pc' = "committing_event"
  /\ UNCHANGED <<log, offsets, stopping, failed, letters, restarts>>

(* The exception is logged, nothing is committed, the loop goes on.        *)
HandlerRaises ==
  /\ Current("event")
  /\ failed' = failed \cup {position}
  /\ pc' = "polling"
  /\ UNCHANGED <<log, offsets, stopping, handled, letters, restarts>>

(* Variant: a malformed message is committed before it is dead-lettered.   *)
CommitFirst ==
  /\ Current("malformed")
  /\ committed' = position
  /\ pc' = "polling"
  /\ dlqQueue' \in {dlqQueue, dlqQueue \cup {position}}
  /\ UNCHANGED <<log, position, stopping, outcomes, deadLettered, dlqLost, restarts>>

(* _deserialize sends the message to the dead-letter producer.  A          *)
(* KafkaException is swallowed there; a BufferError (queue full) ends run. *)
DeadLetter ==
  /\ Current("malformed")
  /\ \/ /\ dlqQueue' = dlqQueue \cup {position}
        /\ pc' = "committing_malformed"
        /\ UNCHANGED dlqLost
     \/ /\ dlqLost' = dlqLost \cup {position}
        /\ pc' = "committing_malformed"
        /\ UNCHANGED dlqQueue
     \/ /\ pc' = "closing"
        /\ UNCHANGED <<dlqQueue, dlqLost>>
  /\ UNCHANGED <<log, offsets, stopping, outcomes, deadLettered, restarts>>

(* Variant: the error is caught like a handler's, and the loop goes on.    *)
UndecodableSkipped ==
  /\ Current("undecodable")
  /\ pc' = "polling"
  /\ UNCHANGED <<log, offsets, stopping, outcomes, letters, restarts>>

(* json.loads raises UnicodeDecodeError, which neither except catches.     *)
Undecodable ==
  /\ Current("undecodable")
  /\ pc' = "closing"
  /\ UNCHANGED <<log, offsets, stopping, outcomes, letters, restarts>>

(* The synchronous commit of the message in hand, which covers it and all  *)
(* before it.  If it raises, that counts as a handler error after          *)
(* handle_event, but ends run after a dead letter.                         *)
Commit ==
  /\ pc \in {"committing_event", "committing_malformed"}
  /\ \/ committed' = position /\ pc' = "polling"
     \/ /\ UNCHANGED committed
        /\ pc' = IF pc = "committing_event" THEN "polling" ELSE "closing"
  /\ UNCHANGED <<log, position, stopping, outcomes, letters, restarts>>

-----------------------------------------------------------------------------
(* The dead-letter producer's thread: delivery, or a failure no callback   *)
(* reports.                                                                *)
LetterSettles(offset) ==
  /\ offset \in dlqQueue
  /\ dlqQueue' = dlqQueue \ {offset}
  /\ \/ deadLettered' = deadLettered \cup {offset} /\ UNCHANGED dlqLost
     \/ dlqLost' = dlqLost \cup {offset} /\ UNCHANGED deadLettered
  /\ UNCHANGED <<log, offsets, pc, stopping, outcomes, restarts>>

(* finally: close the consumer, flush for five seconds, forget the rest.   *)
Close ==
  /\ pc = "closing"
  /\ pc' = "stopped"
  /\ \E flushed \in SUBSET dlqQueue :
       /\ deadLettered' = deadLettered \cup flushed
       /\ dlqLost' = dlqLost \cup (dlqQueue \ flushed)
  /\ dlqQueue' = {}
  /\ UNCHANGED <<log, offsets, stopping, outcomes, restarts>>

(* The process dies with its queue.                                        *)
Crash ==
  /\ pc \in Running
  /\ restarts < MaxRestarts
  /\ pc' = "crashed"
  /\ dlqLost' = dlqLost \cup dlqQueue
  /\ dlqQueue' = {}
  /\ UNCHANGED <<log, offsets, stopping, outcomes, deadLettered, restarts>>

(* Variant: begin with the first message of all.                          *)
RestartFromEarliest ==
  /\ pc \in {"stopped", "crashed"} /\ restarts < MaxRestarts
  /\ restarts' = restarts + 1
  /\ position' = 0
  /\ pc' = "polling" /\ stopping' = FALSE
  /\ UNCHANGED <<log, committed, outcomes, letters>>

(* A new consumer begins at the committed offset ("earliest" if none).     *)
Restart ==
  /\ pc \in {"stopped", "crashed"}
  /\ restarts < MaxRestarts
  /\ restarts' = restarts + 1
  /\ position' = committed
  /\ pc' = "polling" /\ stopping' = FALSE
  /\ UNCHANGED <<log, committed, outcomes, letters>>

Run ==
  \/ Poll \/ LeaveLoop \/ HandleEvent \/ HandlerRaises
  \/ DeadLetter \/ Undecodable \/ Commit \/ Close

Next ==
  \/ \E kind \in Kinds : Produce(kind)
  \/ \E offset \in dlqQueue : LetterSettles(offset)
  \/ Run \/ Stop \/ Crash \/ Restart

Spec == Init /\ [][Next]_vars

(* run() goes on as long as the process lives: poll returns within its     *)
(* second, handlers return or raise, and the producer's thread gives each  *)
(* dead letter its five minutes.  Nothing restarts the process.            *)
FairSpec == /\ Spec
            /\ WF_vars(Run)
            /\ \A i \in 1..MaxMessages : WF_vars(LetterSettles(i))

-----------------------------------------------------------------------------
(* What became of a message, whichever consumer of the group had it.       *)
Routed(i)    == i \in dlqQueue \cup deadLettered \cup dlqLost
Done(i)      == IF log[i] = "event" THEN i \in handled ELSE Routed(i)
Attempted(i) == Done(i) \/ i \in failed

(* At-least-once: everything below the committed offset has been given to  *)
(* the handler or to the dead-letter producer, and a commit is made for a  *)
(* message that was done with, never for one whose handler raised: through *)
(* crashes, failing commits and replays the group steps over no message    *)
(* that nobody tried.  That what failed is tried again is more than this,  *)
(* and not so: RaisedAwaitsReprocessing.                                   *)
CommittedWasAttempted ==
  /\ \A i \in 1..committed : Attempted(i)
  /\ committed > 0 => Done(committed)

(* What the handler path says when handle_event raised: "Do NOT commit -   *)
(* allow re-processing on restart".  The message stays above the committed *)
(* offset, where the next consumer begins, until a handler has done it.    *)
(* The code does not keep this: the next message's commit covers it too.   *)
RaisedAwaitsReprocessing == \A i \in failed \ handled : committed < i

(* What run() says of itself: "Returns only after stop() is called."  The  *)
(* code does not keep this: bytes that are not text raise an exception     *)
(* that neither except of _deserialize names, and it ends run().           *)
OnlyStopEndsRun == pc \in {"closing", "stopped"} => stopping

(* No rework after a commit: the message in hand is never below the        *)
(* committed offset, so only uncommitted messages are handled again.       *)
WorkIsUncommitted ==
  pc \in {"dispatching", "committing_event", "committing_malformed"} => position > committed

(* The group's offset never moves back, although a restarted consumer      *)
(* replays old messages and commits them one by one.                       *)
OffsetNeverRegresses == [][committed' >= committed]_vars

(* Every message is settled as long as the consumer is up, whatever the    *)
(* handler, the commits and the dead letters of earlier ones came to: the  *)
(* handler returned or raised, or the dead letter arrived or was lost.     *)
Settled(i) == i \in handled \cup failed \cup deadLettered \cup dlqLost

EveryMessageSettles ==
  \A i \in 1..MaxMessages :
    Len(log) >= i ~> Settled(i) \/ pc \in {"stopped", "crashed"}

-----------------------------------------------------------------------------
(* The inductive invariant behind the safety properties.                   *)
OffsetsInOrder == committed <= position /\ position <= Len(log)

(* What the consumer has taken was attempted, except the message it has in *)
(* hand or ended on.                                                       *)
TakenIsAttempted ==
  \A i \in 1..position :
    i < position \/ pc \in {"polling", "committing_event", "committing_malformed"}
      => Attempted(i)

(* A commit is under way for a message that was done with.                 *)
CommitsWhatIsDone ==
  pc \in {"committing_event", "committing_malformed"} => Done(position)

ConsumerInv ==
  /\ TypeOK
  /\ OffsetsInOrder
  /\ WorkIsUncommitted
  /\ TakenIsAttempted
  /\ CommitsWhatIsDone
  /\ CommittedWasAttempted

(* What anybody has done something about.                                  *)
Reached == handled \cup failed \cup dlqQueue \cup deadLettered \cup dlqLost

(* No consumer of the group has gone past an undecodable message.          *)
NobodyPassesUndecodable ==
  \A i \in 1..Len(log) : log[i] = "undecodable" =>
    position <= i /\ \A j \in Reached : j < i
=============================================================================
