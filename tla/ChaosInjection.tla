--------------------------- MODULE ChaosInjection ---------------------------
(***************************************************************************)
(* The orchid_chaos_inject DAG with ChaosEngine.execute of                 *)
(* services/orchestrator/chaos_engine.py, for one session: DAG runs wait   *)
(* for the trigger time, emit CHAOS_INJECTED and inject the fault, while   *)
(* the candidate works and telemetry is queued, delayed, reordered and     *)
(* lost; chaos_resilience scores what has arrived.                         *)
(***************************************************************************)
EXTENDS Sequences, Scoring

CONSTANTS
  Injections,  \* DAG runs for the session (an operator may trigger it again)
  Producers,   \* may the engine have a telemetry producer?
  Trigger,     \* chaos_config.trigger_at_sec; the session starts at 0
  MaxTime,     \* bound on the clock
  ActionTypes, \* event types of what the candidate does
  MaxActions   \* bound on what the candidate does

ASSUME ChaosAssumption ==
  /\ Producers \subseteq BOOLEAN /\ Marker \notin ActionTypes
  /\ Trigger \in Nat /\ MaxTime \in Nat /\ MaxActions \in Nat

NotYet == -1

Clock == 0..MaxTime

VARIABLES
  now,
  producer,     \* was the ChaosEngine built with a telemetry producer?
  pc,           \* [Injections -> progress of wait_and_inject]
  wakeAt,       \* [Injections -> when the sleep ends]
  markedAt,     \* [Injections -> kafka_emitted_at, the marker's injected_at]
  faultAt,      \* [Injections -> when the fault landed in the sandbox]
  acted,        \* number of things the candidate has done
  transit,      \* events queued by a producer and not yet arrived
  telemetry,    \* the session's events in the order they arrived
  marked        \* history: runs whose CHAOS_INJECTED was queued

chaosVars == <<now, producer, pc, wakeAt, markedAt, faultAt, acted, transit,
          telemetry, marked>>

times == <<wakeAt, markedAt, faultAt>>

RunPc == {"idle", "sleeping", "emitting", "dispatching", "done"}

Event == [type : ActionTypes, at : Clock, from : 1..MaxActions]
           \cup [type : {Marker}, at : Clock, from : Injections]

ChaosTypeOK ==
  /\ now \in Clock /\ producer \in BOOLEAN
  /\ pc \in [Injections -> RunPc]
  /\ wakeAt \in [Injections -> Clock \cup {Trigger, NotYet}]
  /\ \A at \in {markedAt, faultAt} : at \in [Injections -> Clock \cup {NotYet}]
  /\ acted \in 0..MaxActions
  /\ transit \subseteq Event /\ telemetry \in Seq(Event)
  /\ marked \subseteq Injections

ChaosInit ==
  /\ now = 0 /\ producer \in Producers
  /\ pc = [r \in Injections |-> "idle"]
  /\ wakeAt = [r \in Injections |-> NotYet] /\ markedAt = [r \in Injections |-> NotYet]
  /\ faultAt = [r \in Injections |-> NotYet]
  /\ acted = 0 /\ transit = {} /\ telemetry = <<>> /\ marked = {}

Tick ==
  /\ now < MaxTime
  /\ now' = now + 1
  /\ UNCHANGED <<producer, pc, times, acted, transit, telemetry, marked>>

-----------------------------------------------------------------------------
(* wait_and_inject and ChaosEngine.execute.                                *)

(* Variant: the elapsed time is rounded up.                                *)
WaitSecRoundedUp(elapsed) == Max({0, Trigger - (elapsed + 1)})

(* _compute_wait_sec.                                                      *)
WaitSec(elapsed) == Max({0, Trigger - elapsed})

TriggerDag(r) ==
  /\ pc[r] = "idle"
  /\ pc' = [pc EXCEPT ![r] = "sleeping"]
  /\ wakeAt' = [wakeAt EXCEPT ![r] = now + WaitSec(now)]
  /\ UNCHANGED <<now, producer, markedAt, faultAt, acted, transit, telemetry, marked>>

(* Variant: the fault first; the marker when it is known to have landed.   *)
WakeAndStrike(r) ==
  /\ pc[r] = "sleeping" /\ now >= wakeAt[r]
  /\ markedAt' = [markedAt EXCEPT ![r] = now]
  /\ pc' = [pc EXCEPT ![r] = IF producer THEN "emitting" ELSE "dispatching"]
  /\ faultAt' = [faultAt EXCEPT ![r] = now]
  /\ UNCHANGED <<now, producer, wakeAt, acted, transit, telemetry, marked>>

(* The marker's time is taken before anything is emitted.  Without a       *)
(* producer nothing is emitted and nothing is said about it.               *)
Wake(r) ==
  /\ pc[r] = "sleeping" /\ now >= wakeAt[r]
  /\ markedAt' = [markedAt EXCEPT ![r] = now]
  /\ pc' = [pc EXCEPT ![r] = IF producer THEN "emitting" ELSE "dispatching"]
  /\ UNCHANGED <<now, producer, wakeAt, faultAt, acted, transit, telemetry, marked>>

(* The emit returns, or its exception is logged and swallowed.             *)
EmitChaosEvent(r) ==
  /\ pc[r] = "emitting"
  /\ \/ /\ transit' = transit \cup {[type |-> Marker, at |-> markedAt[r], from |-> r]}
        /\ marked' = marked \cup {r}
     \/ UNCHANGED <<transit, marked>>
  /\ pc' = [pc EXCEPT ![r] = "dispatching"]
  /\ UNCHANGED <<now, producer, wakeAt, markedAt, faultAt, acted, telemetry>>

(* _dispatch and its executors: the fault lands or it does not, and        *)
(* neither the outcome nor the state of the session makes a difference.    *)
Dispatch(r) ==
  /\ pc[r] = "dispatching"
  /\ pc' = [pc EXCEPT ![r] = "done"]
  /\ \/ faultAt' = [faultAt EXCEPT ![r] = now]
     \/ UNCHANGED faultAt
  /\ UNCHANGED <<now, producer, wakeAt, markedAt, acted, transit, telemetry, marked>>

-----------------------------------------------------------------------------
(* The candidate prompts an agent, runs code or looks elsewhere: an event  *)
(* with this time.                                                         *)
Act(type) ==
  /\ acted < MaxActions
  /\ acted' = acted + 1
  /\ transit' = transit \cup {[type |-> type, at |-> now, from |-> acted + 1]}
  /\ UNCHANGED <<now, producer, pc, times, telemetry, marked>>

(* Topics and producer threads differ, so events arrive in any order; a    *)
(* queued event whose delivery fails (which is only logged) never arrives. *)
Arrive(e) ==
  /\ transit' = transit \ {e}
  /\ telemetry' = Append(telemetry, e)
  /\ UNCHANGED <<now, producer, pc, times, acted, marked>>

ChaosNext ==
  \/ Tick
  \/ \E r \in Injections :
       TriggerDag(r) \/ Wake(r) \/ EmitChaosEvent(r) \/ Dispatch(r)
  \/ \E type \in ActionTypes : Act(type)
  \/ \E e \in transit : Arrive(e)

ChaosSpec == ChaosInit /\ [][ChaosNext]_chaosVars

-----------------------------------------------------------------------------
(* The marker that is queued is queued before its fault lands, and carries *)
(* a time not after it, however long the emit takes; a run never announces *)
(* a fault afterwards.                                                     *)
MarkerPrecedesFault ==
  [][\A r \in Injections :
       /\ r \in marked' \ marked => faultAt[r] = NotYet /\ faultAt'[r] = NotYet
       /\ faultAt'[r] # faultAt[r] => markedAt[r] \in 0..now]_chaosVars

(* The candidate gets the time the scenario gives: no fault lands before   *)
(* the trigger time of the session, whenever the DAG was triggered and     *)
(* however often.                                                          *)
NoFaultBeforeTrigger == \A r \in Injections : faultAt[r] # NotYet => faultAt[r] >= Trigger

(* Doing something never costs anything: once the marker has arrived, one  *)
(* more prompt or command, early, late or out of order, does not lower     *)
(* chaos_resilience.                                                       *)
ActingNeverLowersScore ==
  [][telemetry' # telemetry /\ MarkersOf(telemetry') = MarkersOf(telemetry)
       => ChaosResilience(telemetry') >= ChaosResilience(telemetry)]_chaosVars

Swapped(events, i) == [events EXCEPT ![i] = events[i + 1], ![i + 1] = events[i]]

(* The score is a function of what happened, not of the order in which     *)
(* Kafka brought it, as long as there is one marker.                       *)
ScoreIgnoresArrivalOrder ==
  Cardinality(MarkersOf(telemetry)) <= 1 =>
    \A i \in 1..(Len(telemetry) - 1) :
      ChaosResilience(Swapped(telemetry, i)) = ChaosResilience(telemetry)

(* chaos_engine.py: "the CHAOS_INJECTED Kafka event is always emitted      *)
(* BEFORE the fault executes".                                             *)
FaultIsMarked == \A r \in Injections : faultAt[r] # NotYet => r \in marked
=============================================================================
