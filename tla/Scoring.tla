------------------------------ MODULE Scoring ------------------------------
(***************************************************************************)
(* services/evaluator/scoring.py: chaos_resilience, over the events of a   *)
(* session in the order they are stored.  An event has a type and a        *)
(* timestamp.  A score is kept as its numerator over ScoreUnit, so that    *)
(* the float 0.5 is ScoreUnit / 2; rounding to four digits is left out.    *)
(***************************************************************************)
EXTENDS Integers, FiniteSetsExt

CONSTANT MedianRecovery   \* _MEDIAN_RECOVERY_SEC, in clock ticks

ASSUME RecoveryAssumption == MedianRecovery \in Nat \ {0}

ScoreUnit == 6 * MedianRecovery

Marker == "CHAOS_INJECTED"

RecoveryTypes == {"PROMPT_SENT", "CODE_EXECUTED"}

MarkersOf(events) == {i \in DOMAIN events : events[i].type = Marker}

(* _chaos_injection_ts: the first marker in the list, whatever its time.   *)
ChaosInjectionTs(events) == events[Min(MarkersOf(events))].at

(* Variant: a response is what the list has after the marker.              *)
PostChaosByPosition(events) ==
  {i \in DOMAIN events : events[i].type \in RecoveryTypes /\ i > Min(MarkersOf(events))}

(* Variant: what was done before the marker is a response too.             *)
PostChaosAnyTime(events) == {i \in DOMAIN events : events[i].type \in RecoveryTypes}

(* Prompts and commands with a timestamp strictly later than the marker's. *)
PostChaos(events) ==
  {i \in DOMAIN events :
     events[i].type \in RecoveryTypes /\ events[i].at > ChaosInjectionTs(events)}

Latencies(events) == {events[i].at - ChaosInjectionTs(events) : i \in PostChaos(events)}

InTime(events) ==
  {i \in PostChaos(events) : events[i].at - ChaosInjectionTs(events) <= MedianRecovery}

(* Variant: what is measured is the last response.                         *)
LastResponseSpeed(events) == Max({0, MedianRecovery - Max(Latencies(events))})

(* 1 - first_latency / median_recovery_sec, not below 0.                   *)
FirstResponseSpeed(events) == Max({0, MedianRecovery - Min(Latencies(events))})

(* Three actions in time are enough.                                       *)
RecoveryActions(events) == Min({3, Cardinality(InTime(events))})

(* The mean of the two; neutral without a marker, nothing for inaction.    *)
ChaosResilience(events) ==
  IF MarkersOf(events) = {} THEN ScoreUnit \div 2
  ELSE IF PostChaos(events) = {} THEN 0
  ELSE 3 * FirstResponseSpeed(events) + MedianRecovery * RecoveryActions(events)
=============================================================================
