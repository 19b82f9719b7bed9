--------------------------- MODULE SessionManager ---------------------------
(***************************************************************************)
(* The in-memory session state machine of services/api/session_manager.py: *)
(* the states, the table of allowed transitions and the effect a           *)
(* transition has on a record.  Pure definitions; SessionApi owns the      *)
(* registry (one record per session) as state.                             *)
(***************************************************************************)

(* StrEnum SessionState. *)
SessionState == {"CREATED", "ACTIVE", "CHAOS", "RESOLVING", "COMPLETED"}

(* A session id the registry does not know: get() returns None. *)
Absent == "ABSENT"

(* _VALID_TRANSITIONS. *)
ValidTransitions ==
  [state \in SessionState |->
     CASE state = "CREATED"   -> {"ACTIVE"}
       [] state = "ACTIVE"    -> {"CHAOS", "COMPLETED"}
       [] state = "CHAOS"     -> {"RESOLVING", "COMPLETED"}
       [] state = "RESOLVING" -> {"COMPLETED"}
       [] OTHER               -> {}]

(* Variant: transition() checks that the session exists, but no table.     *)
CanTransitionAnywhere(from, to) == from \in SessionState /\ to \in SessionState

(* transition() raises KeyError for an unknown id and                      *)
(* InvalidTransitionError for a pair outside the table.                    *)
CanTransition(from, to) == from \in SessionState /\ to \in ValidTransitions[from]

(* ended_at is stamped by the transition to COMPLETED and by no other.     *)
StampsEnd(to) == to = "COMPLETED"
=============================================================================
