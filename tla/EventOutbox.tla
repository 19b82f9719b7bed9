----------------------------- MODULE EventOutbox -----------------------------
(***************************************************************************)
(* What a caller of TelemetryProducer.emit may rely on, with threads,      *)
(* attempts, polls and shutdown left out: an event is accepted at most     *)
(* once; the caller hears "ok" of an accepted event and "raised" of one    *)
(* that never will be; a topic gets some of its accepted events, each at   *)
(* most once, in the order in which they were accepted.  "Topic" is short  *)
(* for the partition of a topic that the event's session belongs to.       *)
(***************************************************************************)
EXTENDS Naturals

CONSTANTS Events, TopicOf

VARIABLES
  answer,   \* [Events -> {"none", "ok", "raised"}], what the caller heard
  place,    \* [Events -> Nat], order of acceptance; 0 if not accepted
  offset    \* [Events -> Nat], order of writing; 0 if not on its topic

outboxVars == <<answer, place, offset>>

Init ==
  /\ answer = [e \in Events |-> "none"]
  /\ place = [e \in Events |-> 0] /\ offset = [e \in Events |-> 0]

Accept(e) ==
  /\ place[e] = 0 /\ answer[e] = "none"
  /\ place' = [place EXCEPT ![e] = place'[e]]
  /\ \A f \in Events : place[f] < place'[e]
  /\ UNCHANGED <<answer, offset>>

Answer(e) ==
  /\ answer[e] = "none"
  /\ answer' = [answer EXCEPT ![e] = IF place[e] = 0 THEN "raised" ELSE "ok"]
  /\ UNCHANGED <<place, offset>>

Write(e) ==
  /\ place[e] # 0 /\ offset[e] = 0
  /\ \A f \in Events : TopicOf[f] = TopicOf[e] /\ offset[f] # 0 => place[f] < place[e]
  /\ offset' = [offset EXCEPT ![e] = offset'[e]]
  /\ \A f \in Events : offset[f] < offset'[e]
  /\ UNCHANGED <<answer, place>>

Next == \E e \in Events : Accept(e) \/ Answer(e) \/ Write(e)

Spec == Init /\ [][Next]_outboxVars
=============================================================================
