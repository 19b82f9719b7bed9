--------------------------- MODULE SessionPromise ---------------------------
(***************************************************************************)
(* What the session API promises about a session, with every await, task   *)
(* and message left out: a session is opened once, is closed at most once, *)
(* its end is announced to telemetry at most once and only after it was    *)
(* closed, and a process restart may lose it but never brings it back.     *)
(***************************************************************************)
EXTENDS Naturals

CONSTANT Sessions

VARIABLES
  phase,    \* [Sessions -> Phase]
  notices   \* [Sessions -> Nat], SCENARIO_ENDED events handed to Kafka

promiseVars == <<phase, notices>>

Phase == {"unborn", "live", "over", "lost"}

Init ==
  /\ phase = [s \in Sessions |-> "unborn"]
  /\ notices = [s \in Sessions |-> 0]

Open(s) ==
  /\ phase[s] = "unborn"
  /\ phase' = [phase EXCEPT ![s] = "live"]
  /\ UNCHANGED notices

Close(s) ==
  /\ phase[s] = "live"
  /\ phase' = [phase EXCEPT ![s] = "over"]
  /\ UNCHANGED notices

Announce(s) ==
  /\ phase[s] = "over"
  /\ notices[s] = 0
  /\ notices' = [notices EXCEPT ![s] = 1]
  /\ UNCHANGED phase

(* The registry lives in process memory: a restart loses every session     *)
(* opened so far, all of them at once.                                     *)
Lose ==
  /\ phase' = [s \in Sessions |-> IF phase[s] = "unborn" THEN "unborn" ELSE "lost"]
  /\ UNCHANGED notices

Next == Lose \/ \E s \in Sessions : Open(s) \/ Close(s) \/ Announce(s)

Spec == Init /\ [][Next]_promiseVars
=============================================================================
