------------------------- MODULE OrchestratorProofs -------------------------
(***************************************************************************)
(* Proofs about services/orchestrator.  ScenarioEngine, for any number of  *)
(* provision and teardown runs: what they report is true, and the archive  *)
(* of a session is written by the run that closed it.  ChaosInjection, for *)
(* any number of DAG runs, any trigger time and any clock: no fault lands  *)
(* before the trigger, and no marker is queued after its fault.            *)
(***************************************************************************)
EXTENDS ScenarioEngine, ChaosInjection, FiniteSetTheorems, TLAPS

(* A run that has not reached the API has no session; sessions of provision*)
(* runs are opened, apart from each other, and watched after a 201.        *)
ProvisionsAt(p) ==
  /\ client[p] = "idle" => request[p] = "unsent"
  /\ request[p] \in {"unsent", "sent"} => target[p] = NoSession
  /\ request[p] \in {"working", "done"} => target[p] \in Sessions
  /\ target[p] \in Sessions => phase[target[p]] # "unborn"
  /\ (request[p] = "done" /\ phase[target[p]] = "live") => target[p] \in watched
  /\ client[p] = "succeeded" => request[p] = "done"
  /\ \A q \in Provisions : target[p] \in Sessions /\ target[q] = target[p] => q = p

(* A DELETE that is worked on or answered 200 closed its session.          *)
TeardownsAt(t) ==
  /\ client[t] = "idle" => request[t] = "unsent"
  /\ request[t] # "unsent" => target[t] \in Sessions /\ phase[target[t]] # "unborn"
  /\ request[t] \in {"working", "done"} => closedBy[target[t]] = t
  /\ client[t] = "succeeded" => request[t] = "done"

(* A closed session stays closed, and nobody has written a log before the  *)
(* run that closed it succeeded.                                           *)
SessionAt(s) ==
  /\ phase[s] \in {"unborn", "live"} => closedBy[s] = NoRun
  /\ archive[s] # NoRun => archive[s] = closedBy[s] /\ client[closedBy[s]] = "succeeded"
  /\ s \in watched => phase[s] # "unborn"

EngineInv ==
  /\ TypeOK
  /\ \A p \in Provisions : ProvisionsAt(p)
  /\ \A t \in Teardowns : TeardownsAt(t)
  /\ \A s \in Sessions : SessionAt(s)

(* Nothing has been sent at first.                                         *)
LEMMA InitInv == EngineInit => EngineInv
  BY RunsAssumption, NoSessionAssumption
     DEF EngineInit, Init, EngineInv, TypeOK, Phase, ClientState, RequestState, Runs,
         ProvisionsAt, TeardownsAt, SessionAt

(* Steps of a provision run and of its request.                            *)
LEMMA ProvisionInv ==
  ASSUME EngineInv, NEW p \in Provisions,
         \/ LoadConfigFails(p) \/ Provision(p) \/ PostDone(p) \/ PostFails(p)
         \/ Provisioned(p) \/ Refused(p) \/ GiveUp(p)
         \/ \E s \in Sessions : PostArrives(p, s)
  PROVE  EngineInv'
<1> USE RunsAssumption, NoSessionAssumption
    DEF EngineInv, TypeOK, Phase, ClientState, RequestState, Runs,
        ProvisionsAt, TeardownsAt, SessionAt, ClientTo, RequestTo, promiseVars
<1>1. CASE LoadConfigFails(p)
  BY <1>1 DEF LoadConfigFails
<1>2. CASE Provision(p)
  BY <1>2 DEF Provision
<1>3. CASE PostDone(p)
  <2>1. target[p] \in Sessions /\ phase[target[p]] # "unborn"
    BY <1>3 DEF PostDone
  <2>2. TypeOK'
    BY <1>3, <2>1 DEF PostDone
  <2>3. \A q \in Provisions : ProvisionsAt(q)'
    BY <1>3, <2>1 DEF PostDone
  <2>4. \A t \in Teardowns : TeardownsAt(t)'
    BY <1>3 DEF PostDone
  <2>5. \A s \in Sessions : SessionAt(s)'
    BY <1>3, <2>1 DEF PostDone
  <2> QED
    BY <2>2, <2>3, <2>4, <2>5
<1>4. CASE PostFails(p)
  BY <1>4 DEF PostFails
<1>5. CASE Provisioned(p)
  BY <1>5 DEF Provisioned
<1>6. CASE Refused(p)
  BY <1>6 DEF Refused
<1>7. CASE GiveUp(p)
  BY <1>7 DEF GiveUp
<1>8. ASSUME NEW s \in Sessions, PostArrives(p, s) PROVE EngineInv'
  BY <1>8 DEF PostArrives, Open
<1> QED
  BY <1>1, <1>2, <1>3, <1>4, <1>5, <1>6, <1>7, <1>8

(* Steps of a teardown run and of its request.                             *)
LEMMA TeardownInv ==
  ASSUME EngineInv, NEW t \in Teardowns,
         \/ DeleteArrives(t) \/ DeleteRefused(t) \/ DeleteEnds(t)
         \/ TornDown(t) \/ ArchiveFails(t) \/ Refused(t) \/ GiveUp(t)
         \/ \E s \in Sessions : Teardown(t, s)
  PROVE  EngineInv'
<1> USE RunsAssumption, NoSessionAssumption
    DEF EngineInv, TypeOK, Phase, ClientState, RequestState, Runs,
        ProvisionsAt, TeardownsAt, SessionAt, ClientTo, RequestTo, promiseVars
<1>1. CASE DeleteArrives(t)
  BY <1>1 DEF DeleteArrives, Close
<1>2. CASE DeleteRefused(t)
  BY <1>2 DEF DeleteRefused
<1>3. CASE DeleteEnds(t)
  BY <1>3 DEF DeleteEnds
<1>4. CASE TornDown(t)
  BY <1>4 DEF TornDown
<1>5. CASE ArchiveFails(t)
  BY <1>5 DEF ArchiveFails
<1>6. CASE Refused(t)
  BY <1>6 DEF Refused
<1>7. CASE GiveUp(t)
  BY <1>7 DEF GiveUp
<1>8. ASSUME NEW s \in Sessions, Teardown(t, s) PROVE EngineInv'
  BY <1>8 DEF Teardown
<1> QED
  BY <1>1, <1>2, <1>3, <1>4, <1>5, <1>6, <1>7, <1>8

(* A watchdog or a restart.                                                *)
LEMMA ApiInv ==
  ASSUME EngineInv, (\E s \in Sessions : WatchdogFires(s)) \/ Restart
  PROVE  EngineInv'
<1> USE RunsAssumption, NoSessionAssumption
    DEF EngineInv, TypeOK, Phase, ClientState, RequestState, Runs,
        ProvisionsAt, TeardownsAt, SessionAt
<1>1. ASSUME NEW s \in Sessions, WatchdogFires(s) PROVE EngineInv'
  BY <1>1 DEF WatchdogFires, Close
<1>2. CASE Restart
  BY <1>2 DEF Restart, Lose
<1> QED
  BY <1>1, <1>2

(* The invariant is inductive.                                             *)
LEMMA NextInv == EngineInv /\ [EngineNext]_vars => EngineInv'
<1> SUFFICES ASSUME EngineInv, [EngineNext]_vars PROVE EngineInv'
  OBVIOUS
<1>1. CASE UNCHANGED vars
  BY <1>1 DEF EngineInv, TypeOK, ProvisionsAt, TeardownsAt, SessionAt, vars, promiseVars,
              engineVars
<1>2. CASE EngineNext
  BY <1>2, ProvisionInv, TeardownInv, ApiInv DEF EngineNext, ClientStep, HandlerStep, Runs
<1> QED
  BY <1>1, <1>2

(* Every reachable state of the engine satisfies the invariant.            *)
LEMMA AlwaysInv == EngineSpec => []EngineInv
  BY InitInv, NextInv, PTL DEF EngineSpec

(* Every variable keeps its type: no watchdog without a session.           *)
THEOREM EngineTyped == EngineSpec => []TypeOK
  BY AlwaysInv, PTL DEF EngineInv

(* A run that succeeds tells the truth about its session.                  *)
THEOREM ReportsAreTrue == EngineSpec => []SuccessIsTrue
<1>1. EngineInv => SuccessIsTrue
  BY RunsAssumption
     DEF EngineInv, TypeOK, Phase, Runs, ProvisionsAt, TeardownsAt, SessionAt, SuccessIsTrue
<1> QED
  BY <1>1, AlwaysInv, PTL

(* Only the run that closed a session archives it, once.                   *)
THEOREM OneArchivist == EngineSpec => ArchivedByItsCloser
<1> DEFINE Archived == \A s \in Sessions : archive'[s] # archive[s] =>
                         /\ archive[s] = NoRun
                         /\ archive'[s] = closedBy[s]
                         /\ client[closedBy[s]] = "waiting"
                         /\ phase[s] \in {"over", "lost"}
<1>1. ASSUME EngineInv, NEW t \in Teardowns, TornDown(t) PROVE Archived
  BY <1>1, RunsAssumption
     DEF EngineInv, TypeOK, Phase, Runs, TeardownsAt, SessionAt, TornDown
<1>2. EngineInv /\ [EngineNext]_vars => [Archived]_vars
  BY <1>1 DEF EngineNext, ClientStep, HandlerStep, LoadConfigFails, Provision, PostArrives,
     PostDone, PostFails, Provisioned, Teardown, DeleteArrives, DeleteRefused, DeleteEnds,
     ArchiveFails, Refused, GiveUp, WatchdogFires, Restart
<1>3. EngineSpec => [][Archived]_vars
  BY <1>2, AlwaysInv, PTL DEF EngineSpec
<1> QED
  BY <1>3 DEF ArchivedByItsCloser, Archived

-----------------------------------------------------------------------------
(* _compute_wait_sec never ends the sleep before the trigger time, and a   *)
(* trigger that has passed does not mean to wait for the past.             *)
LEMMA SleepEndsAfterTrigger ==
  ASSUME NEW t \in Nat
  PROVE  t + WaitSec(t) \in Nat /\ t + WaitSec(t) >= Trigger
<1>1. Trigger \in Nat
  BY ChaosAssumption
<1>2. PICK w \in {0, Trigger - t} : \A x \in {0, Trigger - t} : w >= x
  <2>1. CASE Trigger - t >= 0
    BY <1>1, <2>1
  <2>2. CASE ~(Trigger - t >= 0)
    BY <1>1, <2>2
  <2>. QED
    BY <2>1, <2>2
<1>3. /\ WaitSec(t) \in {0, Trigger - t}
      /\ \A x \in {0, Trigger - t} : WaitSec(t) >= x
  BY <1>2 DEF WaitSec, Max
<1>. QED
  BY <1>1, <1>3

(* What a run has reached tells what is true of its times.                 *)
RunInv(r) ==
  /\ pc[r] \in RunPc
  /\ wakeAt[r] \in Nat \cup {NotYet}
  /\ faultAt[r] \in Nat \cup {NotYet}
  /\ pc[r] = "sleeping" => wakeAt[r] # NotYet /\ wakeAt[r] >= Trigger
  /\ pc[r] \in {"emitting", "dispatching"} => now >= Trigger /\ markedAt[r] \in 0..now
  /\ pc[r] # "done" => faultAt[r] = NotYet
  /\ faultAt[r] # NotYet => faultAt[r] >= Trigger

ChaosInv ==
  /\ now \in Nat
  /\ pc \in [Injections -> RunPc]
  /\ wakeAt \in [Injections -> Nat \cup {NotYet}]
  /\ markedAt \in [Injections -> Nat \cup {NotYet}]
  /\ faultAt \in [Injections -> Nat \cup {NotYet}]
  /\ \A r \in Injections : RunInv(r)

(* At the start nothing has happened in any run.                           *)
LEMMA InitEstablishesInv == ChaosInit => ChaosInv
<1>. SUFFICES ASSUME ChaosInit PROVE ChaosInv
  OBVIOUS
<1>1. Trigger \in Nat
  BY ChaosAssumption
<1>. QED
  BY <1>1 DEF ChaosInit, ChaosInv, RunInv, RunPc, NotYet

(* Every action keeps the invariant: a step of one run leaves the others   *)
(* alone, and a tick only moves the clock on.                              *)
LEMMA StepKeepsInv == ChaosInv /\ [ChaosNext]_chaosVars => ChaosInv'
<1>. SUFFICES ASSUME ChaosInv, [ChaosNext]_chaosVars PROVE ChaosInv'
  OBVIOUS
<1>. USE DEF ChaosInv, RunInv, RunPc, NotYet, times
<1>0. Trigger \in Nat /\ now \in Nat
  BY ChaosAssumption
<1>1. CASE Tick
  BY <1>0, <1>1 DEF Tick
<1>2. ASSUME NEW r \in Injections, TriggerDag(r) PROVE ChaosInv'
  <2>1. now + WaitSec(now) \in Nat /\ now + WaitSec(now) >= Trigger
    BY <1>0, SleepEndsAfterTrigger
  <2>. DEFINE wake == now + WaitSec(now)
  <2>2. wake \in Nat /\ wake >= Trigger /\ wakeAt' = [wakeAt EXCEPT ![r] = wake]
    BY <1>2, <2>1 DEF TriggerDag
  <2>. HIDE DEF wake
  <2>. QED
    BY <1>0, <1>2, <2>2 DEF TriggerDag
<1>3. ASSUME NEW r \in Injections, Wake(r) PROVE ChaosInv'
  <2>1. now >= Trigger
    BY <1>0, <1>3 DEF Wake
  <2>2. CASE pc' = [pc EXCEPT ![r] = "emitting"]
    BY <1>0, <1>3, <2>1, <2>2 DEF Wake
  <2>3. CASE pc' = [pc EXCEPT ![r] = "dispatching"]
    BY <1>0, <1>3, <2>1, <2>3 DEF Wake
  <2>. QED
    BY <1>3, <2>2, <2>3 DEF Wake
<1>4. ASSUME NEW r \in Injections, EmitChaosEvent(r) PROVE ChaosInv'
  BY <1>0, <1>4 DEF EmitChaosEvent
<1>5. ASSUME NEW r \in Injections, Dispatch(r) PROVE ChaosInv'
  BY <1>0, <1>5 DEF Dispatch
<1>6. ASSUME NEW type \in ActionTypes, Act(type) PROVE ChaosInv'
  BY <1>6 DEF Act
<1>7. ASSUME NEW e \in transit, Arrive(e) PROVE ChaosInv'
  BY <1>7 DEF Arrive
<1>8. CASE UNCHANGED chaosVars
  BY <1>8 DEF chaosVars
<1>. QED
  BY <1>1, <1>2, <1>3, <1>4, <1>5, <1>6, <1>7, <1>8 DEF ChaosNext

(* The invariant holds throughout.                                         *)
LEMMA ChaosInvHolds == ChaosSpec => []ChaosInv
  BY InitEstablishesInv, StepKeepsInv, PTL DEF ChaosSpec

(* No DAG run, triggered whenever and however often, lets a fault land     *)
(* before the scenario's trigger time.                                     *)
THEOREM FaultWaitsForTrigger == ChaosSpec => []NoFaultBeforeTrigger
<1>1. ChaosInv => NoFaultBeforeTrigger
  BY DEF ChaosInv, RunInv, NoFaultBeforeTrigger
<1>. QED
  BY <1>1, ChaosInvHolds, PTL

(* A marker that is queued is queued before its fault, with a time not     *)
(* after it.                                                               *)
THEOREM MarkerComesFirst == ChaosSpec => MarkerPrecedesFault
<1>1. ASSUME ChaosInv, [ChaosNext]_chaosVars, NEW r \in Injections
      PROVE  /\ r \in marked' \ marked => faultAt[r] = NotYet /\ faultAt'[r] = NotYet
             /\ faultAt'[r] # faultAt[r] => markedAt[r] \in 0..now
  <2>. USE <1>1 DEF ChaosInv, RunInv, times
  <2>1. ASSUME NEW q \in Injections, EmitChaosEvent(q)
        PROVE  UNCHANGED faultAt /\ (r \in marked' \ marked => faultAt[r] = NotYet)
    BY <2>1 DEF EmitChaosEvent
  <2>2. ASSUME NEW q \in Injections, Dispatch(q)
        PROVE  UNCHANGED marked /\ (faultAt'[r] # faultAt[r] => markedAt[r] \in 0..now)
    BY <2>2 DEF Dispatch
  <2>3. CASE Tick
    BY <2>3 DEF Tick
  <2>4. ASSUME NEW q \in Injections, TriggerDag(q) \/ Wake(q) PROVE UNCHANGED <<marked, faultAt>>
    BY <2>4 DEF TriggerDag, Wake
  <2>5. ASSUME NEW type \in ActionTypes, Act(type) PROVE UNCHANGED <<marked, faultAt>>
    BY <2>5 DEF Act
  <2>6. ASSUME NEW e \in transit, Arrive(e) PROVE UNCHANGED <<marked, faultAt>>
    BY <2>6 DEF Arrive
  <2>7. CASE UNCHANGED chaosVars
    BY <2>7 DEF chaosVars
  <2>. QED
    BY <2>1, <2>2, <2>3, <2>4, <2>5, <2>6, <2>7 DEF ChaosNext
<1>2. ChaosInv /\ [ChaosNext]_chaosVars =>
        \A r \in Injections :
          /\ r \in marked' \ marked => faultAt[r] = NotYet /\ faultAt'[r] = NotYet
          /\ faultAt'[r] # faultAt[r] => markedAt[r] \in 0..now
  BY <1>1
<1>. QED
  BY <1>2, ChaosInvHolds, PTL DEF ChaosSpec, MarkerPrecedesFault

(* A wait that starts within the clock ends at once or at the trigger.     *)
LEMMA SleepEndsAtTrigger ==
  ASSUME NEW t \in Clock
  PROVE  t + WaitSec(t) \in Clock \cup {Trigger}
<1>1. Trigger \in Nat /\ t \in Nat
  BY ChaosAssumption DEF Clock
<1>2. PICK w \in {0, Trigger - t} : \A x \in {0, Trigger - t} : w >= x
  <2>1. CASE Trigger - t >= 0
    BY <1>1, <2>1
  <2>2. CASE ~(Trigger - t >= 0)
    BY <1>1, <2>2
  <2>. QED
    BY <2>1, <2>2
<1>3. WaitSec(t) \in {0, Trigger - t}
  BY <1>2 DEF WaitSec, Max
<1>. QED
  BY <1>1, <1>3

(* Every step keeps the types.                                             *)
LEMMA StepKeepsTypes == ChaosTypeOK /\ ChaosInv /\ [ChaosNext]_chaosVars => ChaosTypeOK'
<1>. SUFFICES ASSUME ChaosTypeOK, ChaosInv, [ChaosNext]_chaosVars PROVE ChaosTypeOK'
  OBVIOUS
<1>. USE DEF ChaosTypeOK, RunPc, NotYet, times
<1>0. MaxTime \in Nat /\ MaxActions \in Nat /\ now \in Clock
  BY ChaosAssumption
<1>1. CASE Tick
  <2>1. now' \in Clock
    BY <1>0, <1>1 DEF Tick, Clock
  <2>. QED
    BY <1>1, <2>1 DEF Tick
<1>2. ASSUME NEW r \in Injections, TriggerDag(r) PROVE ChaosTypeOK'
  <2>. DEFINE wake == now + WaitSec(now)
  <2>1. wake \in Clock \cup {Trigger}
    BY <1>0, SleepEndsAtTrigger
  <2>2. wakeAt' = [wakeAt EXCEPT ![r] = wake]
    BY <1>2 DEF TriggerDag
  <2>. HIDE DEF wake
  <2>. QED
    BY <1>2, <2>1, <2>2 DEF TriggerDag
<1>3. ASSUME NEW r \in Injections, Wake(r) PROVE ChaosTypeOK'
  BY <1>0, <1>3 DEF Wake
<1>4. ASSUME NEW r \in Injections, EmitChaosEvent(r) PROVE ChaosTypeOK'
  <2>1. markedAt[r] \in Clock
    BY <1>0, <1>4 DEF EmitChaosEvent, ChaosInv, RunInv, Clock
  <2>2. [type |-> Marker, at |-> markedAt[r], from |-> r] \in Event
    BY <2>1 DEF Event
  <2>. QED
    BY <1>4, <2>2 DEF EmitChaosEvent
<1>5. ASSUME NEW r \in Injections, Dispatch(r) PROVE ChaosTypeOK'
  BY <1>0, <1>5 DEF Dispatch
<1>6. ASSUME NEW type \in ActionTypes, Act(type) PROVE ChaosTypeOK'
  <2>1. acted + 1 \in 1..MaxActions
    BY <1>0, <1>6 DEF Act
  <2>2. [type |-> type, at |-> now, from |-> acted + 1] \in Event
    BY <1>0, <2>1 DEF Event
  <2>. QED
    BY <1>0, <1>6, <2>1, <2>2 DEF Act
<1>7. ASSUME NEW e \in transit, Arrive(e) PROVE ChaosTypeOK'
  <2>1. e \in Event
    OBVIOUS
  <2>2. Append(telemetry, e) \in Seq(Event)
    BY <2>1
  <2>. QED
    BY <1>7, <2>2 DEF Arrive
<1>8. CASE UNCHANGED chaosVars
  BY <1>8 DEF chaosVars
<1>. QED
  BY <1>1, <1>2, <1>3, <1>4, <1>5, <1>6, <1>7, <1>8 DEF ChaosNext

(* Runs, times and events keep their types: whatever arrives, in whatever  *)
(* order, is an event the session really had.                              *)
THEOREM ChaosTyped == ChaosSpec => []ChaosTypeOK
<1>1. ChaosInit => ChaosTypeOK
  BY ChaosAssumption DEF ChaosInit, ChaosTypeOK, RunPc, Clock
<1>. QED
  BY <1>1, StepKeepsTypes, ChaosInvHolds, PTL DEF ChaosSpec

(* A set of natural numbers has a least one.                               *)
LEMMA LeastNatural ==
  ASSUME NEW S \in SUBSET Nat, S # {}
  PROVE  Min(S) \in S /\ \A x \in S : Min(S) <= x
<1>. DEFINE Less == {xy \in Nat \X Nat : xy[1] < xy[2]}
<1>1. \A x, y \in Nat : x < y => <<x, y>> \in Less
  OBVIOUS
<1>2. IsWellFoundedOn(Less, Nat)
  BY NatLessThanWellFounded DEF OpToRel
<1>. HIDE DEF Less
<1>3. PICK x \in S : \A y \in S : <<y, x>> \notin Less
  BY <1>2, WFMin
<1>4. ASSUME NEW y \in S PROVE x <= y
  <2>1. x \in Nat /\ y \in Nat
    OBVIOUS
  <2>2. ~(y < x)
    BY <1>1, <1>3, <2>1
  <2>. QED
    BY <2>1, <2>2
<1>. QED
  BY <1>4 DEF Min

(* A list of events in another order has the same score, when it has one   *)
(* marker at most: the order given by a permutation that is its inverse.   *)
LEMMA OrderIsIrrelevant ==
  ASSUME NEW n \in Nat, NEW e, NEW g, NEW perm \in [1..n -> 1..n],
         DOMAIN e = 1..n, DOMAIN g = 1..n,
         \A k \in 1..n : perm[perm[k]] = k /\ g[k] = e[perm[k]],
         Cardinality(MarkersOf(e)) <= 1
  PROVE  ChaosResilience(g) = ChaosResilience(e)
<1>1. IsFiniteSet(1..n)
  BY FS_Interval
<1>2. \A k \in 1..n : g[perm[k]] = e[k]
  OBVIOUS
<1>3. \A k \in 1..n : k \in MarkersOf(g) <=> perm[k] \in MarkersOf(e)
  BY DEF MarkersOf
<1>4. CASE MarkersOf(e) = {}
  <2>1. MarkersOf(g) = {}
    BY <1>3, <1>4 DEF MarkersOf
  <2>. QED
    BY <1>4, <2>1 DEF ChaosResilience
<1>5. CASE MarkersOf(e) # {}
  <2>1. PICK m \in 1..n : MarkersOf(e) = {m}
    <3>1. MarkersOf(e) \subseteq 1..n /\ IsFiniteSet(MarkersOf(e))
      BY <1>1, FS_Subset DEF MarkersOf
    <3>2. Cardinality(MarkersOf(e)) \in Nat /\ Cardinality(MarkersOf(e)) # 0
      BY <1>5, <3>1, FS_CardinalityType, FS_EmptySet
    <3>3. Cardinality(MarkersOf(e)) = 1
      BY <3>2
    <3>. QED
      BY <3>1, <3>3, FS_Singleton
  <2>2. MarkersOf(g) = {perm[m]}
    BY <1>3, <2>1 DEF MarkersOf
  <2>3. Min({m}) = m /\ Min({perm[m]}) = perm[m]
    BY DEF Min
  <2>4. ChaosInjectionTs(g) = ChaosInjectionTs(e)
    BY <1>2, <2>1, <2>2, <2>3 DEF ChaosInjectionTs
  <2>5. /\ \A k \in PostChaos(g) : perm[k] \in PostChaos(e)
        /\ \A k \in PostChaos(e) : perm[k] \in PostChaos(g) /\ g[perm[k]] = e[k]
    BY <1>2, <2>4 DEF PostChaos
  <2>6. PostChaos(e) \subseteq 1..n /\ PostChaos(g) \subseteq 1..n
    BY DEF PostChaos
  <2>7. (PostChaos(g) = {}) <=> (PostChaos(e) = {})
    BY <2>5
  <2>8. Latencies(g) = Latencies(e)
    BY <2>4, <2>5, <2>6 DEF Latencies
  <2>9. Cardinality(InTime(g)) = Cardinality(InTime(e))
    <3>. DEFINE f == [k \in InTime(e) |-> perm[k]]
    <3>1. InTime(e) \subseteq 1..n /\ InTime(g) \subseteq 1..n
      BY <2>6 DEF InTime
    <3>2. /\ \A k \in InTime(e) : perm[k] \in InTime(g)
          /\ \A k \in InTime(g) : perm[k] \in InTime(e)
      BY <2>4, <2>5, <2>6 DEF InTime
    <3>3. f \in Bijection(InTime(e), InTime(g))
      BY <3>1, <3>2 DEF Bijection, Injection, Surjection, IsInjective
    <3>4. ExistsBijection(InTime(e), InTime(g))
      BY <3>3 DEF ExistsBijection
    <3>. QED
      BY <1>1, <3>1, <3>4, FS_Subset, FS_Bijection
  <2>10. /\ FirstResponseSpeed(g) = FirstResponseSpeed(e)
         /\ RecoveryActions(g) = RecoveryActions(e)
    BY <2>8, <2>9 DEF FirstResponseSpeed, RecoveryActions
  <2>. QED
    BY <2>1, <2>2, <2>7, <2>10 DEF ChaosResilience
<1>. QED
  BY <1>4, <1>5

(* chaos_resilience does not depend on the order in which Kafka brought    *)
(* the events, as long as the session has one marker at most.              *)
THEOREM ScoreIsOfEvents == ChaosSpec => []ScoreIgnoresArrivalOrder
<1>1. ASSUME ChaosTypeOK PROVE ScoreIgnoresArrivalOrder
  <2>. DEFINE n == Len(telemetry)
  <2>1. n \in Nat /\ DOMAIN telemetry = 1..n
    BY <1>1 DEF ChaosTypeOK
  <2>. HIDE DEF n
  <2>2. ASSUME Cardinality(MarkersOf(telemetry)) <= 1, NEW i \in 1..(n - 1)
        PROVE  ChaosResilience(Swapped(telemetry, i)) = ChaosResilience(telemetry)
    <3>. DEFINE perm == [k \in 1..n |-> IF k = i THEN i + 1 ELSE IF k = i + 1 THEN i ELSE k]
                g == Swapped(telemetry, i)
    <3>1. i \in 1..n /\ i + 1 \in 1..n /\ i # i + 1
      BY <2>1
    <3>2. perm \in [1..n -> 1..n] /\ \A k \in 1..n : perm[perm[k]] = k
      BY <3>1
    <3>3. DOMAIN g = 1..n /\ \A k \in 1..n : g[k] = telemetry[perm[k]]
      BY <2>1, <3>1 DEF Swapped
    <3>. HIDE DEF perm, g
    <3>4. ChaosResilience(g) = ChaosResilience(telemetry)
      BY <2>1, <2>2, <3>2, <3>3, OrderIsIrrelevant
    <3>. QED
      BY <3>4 DEF g
  <2>. QED
    BY <2>2 DEF ScoreIgnoresArrivalOrder, n
<1>. QED
  BY <1>1, ChaosTyped, PTL

(* The greater and the lesser of two numbers.                              *)
LEMMA OfTwo ==
  ASSUME NEW a \in Int, NEW b \in Int
  PROVE  /\ Max({a, b}) = IF a >= b THEN a ELSE b
         /\ Min({a, b}) = IF a <= b THEN a ELSE b
<1>1. CASE a >= b
  BY <1>1 DEF Max, Min
<1>2. CASE ~(a >= b)
  BY <1>2 DEF Max, Min
<1>. QED
  BY <1>1, <1>2

(* What the score is made of.                                              *)
LEMMA ScoreParts ==
  ASSUME NEW events \in Seq(Event), MarkersOf(events) # {}
  PROVE  /\ Min(MarkersOf(events)) \in DOMAIN events
         /\ ChaosInjectionTs(events) \in Nat
         /\ Latencies(events) \in SUBSET Nat
         /\ IsFiniteSet(InTime(events)) /\ Cardinality(InTime(events)) \in Nat
         /\ RecoveryActions(events) \in 0..3
         /\ PostChaos(events) # {} => FirstResponseSpeed(events) \in Nat
<1>1. /\ Len(events) \in Nat /\ DOMAIN events = 1..Len(events)
      /\ \A i \in DOMAIN events : events[i].at \in Nat
  BY ChaosAssumption DEF Event, Clock
<1>2. Min(MarkersOf(events)) \in DOMAIN events
  <2>1. MarkersOf(events) \in SUBSET Nat /\ MarkersOf(events) \subseteq DOMAIN events
    BY <1>1 DEF MarkersOf
  <2>. QED
    BY <2>1, LeastNatural
<1>3. ChaosInjectionTs(events) \in Nat
  BY <1>1, <1>2 DEF ChaosInjectionTs
<1>4. /\ \A i \in PostChaos(events) : events[i].at - ChaosInjectionTs(events) \in Nat
      /\ PostChaos(events) \subseteq DOMAIN events
  BY <1>1, <1>3 DEF PostChaos
<1>5. Latencies(events) \in SUBSET Nat
  BY <1>4 DEF Latencies
<1>6. IsFiniteSet(InTime(events)) /\ Cardinality(InTime(events)) \in Nat
  <2>1. InTime(events) \in SUBSET (1..Len(events))
    BY <1>1, <1>4 DEF InTime
  <2>2. IsFiniteSet(1..Len(events))
    <3>1. 1 \in Int /\ Len(events) \in Int
      BY <1>1
    <3>. QED
      BY <3>1, FS_Interval
  <2>3. IsFiniteSet(InTime(events))
    BY <2>1, <2>2, FS_Subset
  <2>. QED
    BY <2>3, FS_CardinalityType
<1>7. RecoveryActions(events) \in 0..3
  <2>1. RecoveryActions(events) = IF 3 <= Cardinality(InTime(events)) THEN 3
                                  ELSE Cardinality(InTime(events))
    <3>1. 3 \in Int /\ Cardinality(InTime(events)) \in Int
      BY <1>6
    <3>. QED
      BY <3>1, OfTwo DEF RecoveryActions
  <2>. QED
    BY <1>6, <2>1
<1>8. ASSUME PostChaos(events) # {} PROVE FirstResponseSpeed(events) \in Nat
  <2>0. Latencies(events) # {}
    BY <1>8 DEF Latencies
  <2>1. Min(Latencies(events)) \in Nat
    BY <1>5, <2>0, LeastNatural
  <2>2. MedianRecovery - Min(Latencies(events)) \in Int
    BY <2>1, RecoveryAssumption
  <2>. QED
    BY <2>2, OfTwo DEF FirstResponseSpeed
<1>. QED
  BY <1>2, <1>3, <1>5, <1>6, <1>7, <1>8

(* One event more, not a marker, does not lower the score.                 *)
LEMMA OneMore ==
  ASSUME NEW events \in Seq(Event), NEW e \in Event,
         MarkersOf(Append(events, e)) = MarkersOf(events)
  PROVE  ChaosResilience(Append(events, e)) >= ChaosResilience(events)
<1>. DEFINE more == Append(events, e)
<1>1. /\ more \in Seq(Event) /\ MarkersOf(more) = MarkersOf(events)
      /\ DOMAIN events \subseteq DOMAIN more
      /\ \A i \in DOMAIN events : more[i] = events[i]
  OBVIOUS
<1>2. MedianRecovery \in Nat
  BY RecoveryAssumption
<1>. HIDE DEF more
<1>3. CASE MarkersOf(events) = {}
  <2>1. /\ ChaosResilience(more) = ScoreUnit \div 2
        /\ ChaosResilience(events) = ScoreUnit \div 2
    BY <1>1, <1>3 DEF ChaosResilience
  <2>2. ScoreUnit \div 2 \in Int
    BY <1>2 DEF ScoreUnit
  <2>. QED
    BY <2>1, <2>2 DEF more
<1>4. CASE MarkersOf(events) # {}
  <2>1. ChaosInjectionTs(more) = ChaosInjectionTs(events)
    BY <1>1, <1>4, ScoreParts DEF ChaosInjectionTs
  <2>2. /\ PostChaos(events) \subseteq PostChaos(more)
        /\ PostChaos(events) \subseteq DOMAIN events
    BY <1>1, <2>1 DEF PostChaos
  <2>3. Latencies(events) \subseteq Latencies(more) /\ InTime(events) \subseteq InTime(more)
    BY <1>1, <2>1, <2>2 DEF Latencies, InTime
  <2>4. RecoveryActions(more) >= RecoveryActions(events)
    <3>1. /\ Cardinality(InTime(more)) >= Cardinality(InTime(events))
          /\ Cardinality(InTime(more)) \in Nat /\ Cardinality(InTime(events)) \in Nat
      BY <1>1, <1>4, <2>3, ScoreParts, FS_Subset
    <3>2. /\ RecoveryActions(more) = IF 3 <= Cardinality(InTime(more)) THEN 3
                                     ELSE Cardinality(InTime(more))
          /\ RecoveryActions(events) = IF 3 <= Cardinality(InTime(events)) THEN 3
                                       ELSE Cardinality(InTime(events))
      <4>1. /\ 3 \in Int /\ Cardinality(InTime(more)) \in Int
            /\ Cardinality(InTime(events)) \in Int
        BY <3>1
      <4>. QED
        BY <4>1, OfTwo DEF RecoveryActions
    <3>. QED
      BY <3>1, <3>2
  <2>5. RecoveryActions(more) \in 0..3 /\ RecoveryActions(events) \in 0..3
    BY <1>1, <1>4, ScoreParts
  <2>6. MedianRecovery * RecoveryActions(more) >= MedianRecovery * RecoveryActions(events)
    <3>1. \A a, b \in 0..3 : a >= b => MedianRecovery * a >= MedianRecovery * b
      BY <1>2
    <3>. QED
      BY <2>4, <2>5, <3>1
  <2>7. CASE PostChaos(events) = {}
    <3>1. ChaosResilience(events) = 0
      BY <1>4, <2>7 DEF ChaosResilience
    <3>2. CASE PostChaos(more) = {}
      BY <1>1, <1>4, <3>1, <3>2 DEF ChaosResilience, more
    <3>3. CASE PostChaos(more) # {}
      <4>1. FirstResponseSpeed(more) \in Nat
        BY <1>1, <1>4, <3>3, ScoreParts
      <4>2. MedianRecovery * RecoveryActions(more) \in Nat
        BY <1>2, <2>5
      <4>3. ChaosResilience(more) =
              3 * FirstResponseSpeed(more) + MedianRecovery * RecoveryActions(more)
        BY <1>1, <1>4, <3>3 DEF ChaosResilience
      <4>. QED
        BY <3>1, <4>1, <4>2, <4>3 DEF more
    <3>. QED
      BY <3>2, <3>3
  <2>8. CASE PostChaos(events) # {}
    <3>1. PostChaos(more) # {}
      BY <2>2, <2>8
    <3>2. FirstResponseSpeed(more) \in Nat /\ FirstResponseSpeed(events) \in Nat
      BY <1>1, <1>4, <2>8, <3>1, ScoreParts
    <3>3. FirstResponseSpeed(more) >= FirstResponseSpeed(events)
      <4>1. Latencies(more) \in SUBSET Nat /\ Latencies(events) \in SUBSET Nat
        BY <1>1, <1>4, ScoreParts
      <4>2. Latencies(events) # {}
        BY <2>8 DEF Latencies
      <4>3. /\ Min(Latencies(more)) \in Nat /\ Min(Latencies(events)) \in Nat
            /\ Min(Latencies(more)) <= Min(Latencies(events))
        BY <2>3, <4>1, <4>2, LeastNatural
      <4>. QED
        BY <1>2, <4>3, OfTwo DEF FirstResponseSpeed
    <3>4. /\ ChaosResilience(more) =
               3 * FirstResponseSpeed(more) + MedianRecovery * RecoveryActions(more)
          /\ ChaosResilience(events) =
               3 * FirstResponseSpeed(events) + MedianRecovery * RecoveryActions(events)
      BY <1>1, <1>4, <2>8, <3>1 DEF ChaosResilience
    <3>5. /\ MedianRecovery * RecoveryActions(more) \in Nat
          /\ MedianRecovery * RecoveryActions(events) \in Nat
      BY <1>2, <2>5
    <3>. QED
      BY <2>6, <3>2, <3>3, <3>4, <3>5 DEF more
  <2>. QED
    BY <2>7, <2>8
<1>. QED
  BY <1>3, <1>4

(* Once the marker has arrived, an event more, early, late or out of       *)
(* order, does not lower chaos_resilience.                                 *)
THEOREM ActingPays == ChaosSpec => ActingNeverLowersScore
<1>. DEFINE Pays == telemetry' # telemetry /\ MarkersOf(telemetry') = MarkersOf(telemetry)
                      => ChaosResilience(telemetry') >= ChaosResilience(telemetry)
<1>1. ASSUME ChaosTypeOK, ChaosNext PROVE Pays
  <2>1. telemetry' = telemetry \/ \E e \in transit : Arrive(e)
    BY <1>1 DEF ChaosNext, Tick, TriggerDag, Wake, EmitChaosEvent, Dispatch, Act
  <2>2. ASSUME NEW e \in transit, Arrive(e) PROVE Pays
    <3>1. telemetry' = Append(telemetry, e)
      BY <2>2 DEF Arrive
    <3>2. telemetry \in Seq(Event) /\ e \in Event
      BY <1>1 DEF ChaosTypeOK
    <3>. QED
      BY <3>1, <3>2, OneMore
  <2>. QED
    BY <2>1, <2>2
<1>2. ChaosTypeOK /\ [ChaosNext]_chaosVars => [Pays]_chaosVars
  BY <1>1
<1>3. ChaosSpec => [][Pays]_chaosVars
  BY <1>2, ChaosTyped, PTL DEF ChaosSpec
<1>. QED
  BY <1>3 DEF ActingNeverLowersScore, Pays
=============================================================================
