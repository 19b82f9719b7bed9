-------------------------- MODULE SessionApiProofs --------------------------
(***************************************************************************)
(* Proofs about SessionApi for any set of sessions and any number of       *)
(* restarts: type correctness, the inductive invariant SessionInv and with *)
(* it the safety properties, the finality of COMPLETED, and that the       *)
(* endpoints implement SessionPromise.                                     *)
(***************************************************************************)
EXTENDS SessionApi, TLAPS

(* What the transition table allows, spelled out. *)
LEMMA TransitionFacts ==
  /\ "ACTIVE" \in SessionState /\ "COMPLETED" \in SessionState
  /\ Absent \notin SessionState
  /\ \A from : CanTransition(from, "COMPLETED") => from \in SessionState \ {"COMPLETED"}
  /\ CanTransition("ACTIVE", "COMPLETED")
  /\ StampsEnd("COMPLETED") = TRUE /\ StampsEnd("ACTIVE") = FALSE
  BY DEF CanTransition, ValidTransitions, SessionState, Absent, StampsEnd

(* Type correctness of every variable in every reachable state. *)
THEOREM TypeCorrect == Spec => []TypeOK
<1>. USE RestartAssumption
<1>. DEFINE Inv == TypeOK /\ \A s \in Sessions : HandlerHasRecord(s)
<1>1. Init => Inv
  BY DEF Init, TypeOK, HandlerPc, WatchdogPc, HandlerHasRecord, InFlight
<1>2. Inv /\ [Next]_vars => Inv'
  <2>. SUFFICES ASSUME Inv, [Next]_vars PROVE Inv'
    OBVIOUS
  <2>. USE TransitionFacts DEF TypeOK, HandlerPc, WatchdogPc, memory, creating, ending,
                timer, kafka, process, HandlerHasRecord, InFlight
  <2>1. ASSUME NEW s \in Sessions, CreateSession(s) PROVE Inv'
    <3>1. /\ record' = [record EXCEPT ![s] = "ACTIVE"]
          /\ endedAt' = [endedAt EXCEPT ![s] = FALSE]
          /\ UNCHANGED <<ending, timer, row, kafka, process>>
      BY <2>1 DEF CreateSession
    <3>2. /\ create' \in [Sessions -> HandlerPc]
          /\ \A t \in Sessions : t # s => create'[t] = create[t]
      BY <2>1 DEF CreateSession
    <3>3. createRow' \in [Sessions -> SessionState \cup {NoRow}]
      BY <2>1 DEF CreateSession
    <3>. QED
      BY <3>1, <3>2, <3>3
  <2>2. ASSUME NEW s \in Sessions, CreateEmit(s) PROVE Inv'
    BY <2>2 DEF CreateEmit
  <2>3. ASSUME NEW s \in Sessions, CreatePersist(s) PROVE Inv'
    BY <2>3 DEF CreatePersist
  <2>4. ASSUME NEW s \in Sessions, CreateUpsert(s) PROVE Inv'
    BY <2>4 DEF CreateUpsert
  <2>5. ASSUME NEW s \in Sessions, CreateReturn(s) PROVE Inv'
    BY <2>5 DEF CreateReturn
  <2>6. ASSUME NEW s \in Sessions, EndSession(s) PROVE Inv'
    <3>1. /\ record' = [record EXCEPT ![s] = "COMPLETED"]
          /\ endedAt' = [endedAt EXCEPT ![s] = TRUE]
          /\ timeoutTasks' = timeoutTasks \ {s}
          /\ UNCHANGED <<creating, row, kafka, process>>
      BY <2>6 DEF EndSession
    <3>2. watchdog' \in [Sessions -> WatchdogPc]
      BY <2>6 DEF EndSession
    <3>3. /\ finish' \in [Sessions -> HandlerPc]
          /\ \A t \in Sessions : t # s => finish'[t] = finish[t]
      BY <2>6 DEF EndSession
    <3>4. finishRow' \in [Sessions -> SessionState \cup {NoRow}]
      BY <2>6 DEF EndSession
    <3>. QED
      BY <3>1, <3>2, <3>3, <3>4
  <2>7. ASSUME NEW s \in Sessions, EndEmit(s) PROVE Inv'
    BY <2>7 DEF EndEmit
  <2>8. ASSUME NEW s \in Sessions, EndPersist(s) PROVE Inv'
    BY <2>8 DEF EndPersist
  <2>9. ASSUME NEW s \in Sessions, EndUpsert(s) PROVE Inv'
    BY <2>9 DEF EndUpsert
  <2>10. ASSUME NEW s \in Sessions, TimeoutFires(s) PROVE Inv'
    <3>1. CASE CanTransition(record[s], "COMPLETED")
      <4>1. /\ record' = [record EXCEPT ![s] = "COMPLETED"]
            /\ endedAt' = [endedAt EXCEPT ![s] = TRUE]
            /\ UNCHANGED <<creating, ending, timeoutTasks, row, kafka, process>>
        BY <2>10, <3>1 DEF TimeoutFires
      <4>2. watchdog' \in [Sessions -> WatchdogPc]
        BY <2>10, <3>1 DEF TimeoutFires
      <4>. QED
        BY <4>1, <4>2
    <3>2. CASE ~CanTransition(record[s], "COMPLETED")
      BY <2>10, <3>2 DEF TimeoutFires
    <3>. QED
      BY <3>1, <3>2
  <2>11. ASSUME NEW s \in Sessions, TimeoutEmit(s) PROVE Inv'
    BY <2>11 DEF TimeoutEmit
  <2>12. CASE Restart
    BY <2>12 DEF Restart, Interrupted
  <2>13. CASE UNCHANGED vars
    BY <2>13 DEF vars
  <2>. QED
    BY <2>1, <2>2, <2>3, <2>4, <2>5, <2>6, <2>7, <2>8, <2>9, <2>10, <2>11, <2>12, <2>13
    DEF Next, Handlers
<1>. QED
  BY <1>1, <1>2, PTL DEF Spec

(* A step leaves session t alone when it changes none of its entries. *)
Untouched(t) ==
  /\ record'[t] = record[t] /\ endedAt'[t] = endedAt[t]
  /\ create'[t] = create[t] /\ createRow'[t] = createRow[t]
  /\ finish'[t] = finish[t] /\ watchdog'[t] = watchdog[t]
  /\ (t \in timeoutTasks') = (t \in timeoutTasks)
  /\ row'[t] = row[t]
  /\ endNotices'[t] = endNotices[t] /\ timeoutNotices'[t] = timeoutNotices[t]

(* The invariant of a session the step leaves alone is kept. *)
LEMMA UntouchedKeepsInv ==
  ASSUME NEW t \in Sessions, InvAt(t), Untouched(t) PROVE InvAt(t)'
  BY DEF Untouched, InvAt, UnbornIsBlank, HandlerHasRecord, RunningIsUnannounced,
         OneAnnouncer, EarlyEndIsDelete, SafeAt, Silent, AnnouncedBy, Over

(* A step of the handlers or the watchdog of s leaves every other session  *)
(* alone.                                                                  *)
LEMMA OthersUntouched ==
  ASSUME TypeOK, NEW s \in Sessions, NEW t \in Sessions, t # s,
         \/ CreateSession(s) \/ EndSession(s) \/ TimeoutFires(s) \/ Handlers(s)
  PROVE  Untouched(t)
<1>. USE DEF TypeOK, Untouched, memory, creating, ending, timer, kafka, process
<1>1. CASE CreateSession(s)
  BY <1>1 DEF CreateSession
<1>2. CASE EndSession(s)
  BY <1>2 DEF EndSession
<1>3. CASE TimeoutFires(s)
  BY <1>3 DEF TimeoutFires
<1>4. CASE CreateEmit(s) \/ CreatePersist(s) \/ CreateUpsert(s) \/ CreateReturn(s)
  BY <1>4 DEF CreateEmit, CreatePersist, CreateUpsert, CreateReturn
<1>5. CASE EndEmit(s)
  BY <1>5 DEF EndEmit
<1>6. CASE EndPersist(s) \/ EndUpsert(s)
  BY <1>6 DEF EndPersist, EndUpsert
<1>7. CASE TimeoutEmit(s)
  BY <1>7 DEF TimeoutEmit
<1>. QED
  BY <1>1, <1>2, <1>3, <1>4, <1>5, <1>6, <1>7 DEF Handlers

(* A counter that was zero and has gone up by one is one. *)
LEMMA FirstNotice == ASSUME NEW m, NEW n, m = 0, n = m + 1 PROVE n = 1
  OBVIOUS

(* Each action keeps the invariant of the session it works on. *)
LEMMA OwnStep ==
  ASSUME TypeOK, NEW s \in Sessions, InvAt(s),
         \/ CreateSession(s) \/ EndSession(s) \/ TimeoutFires(s) \/ Handlers(s)
  PROVE  InvAt(s)'
<1>. USE TransitionFacts
     DEF TypeOK, InvAt, UnbornIsBlank, HandlerHasRecord, RunningIsUnannounced,
         OneAnnouncer, EarlyEndIsDelete, SafeAt, Silent, AnnouncedBy, Over, InFlight,
         NoRow, memory, creating, ending, timer, kafka, process
<1>1. CASE CreateSession(s)
  <2>1. CASE producer
    BY <1>1, <2>1 DEF CreateSession
  <2>2. CASE ~producer
    BY <1>1, <2>2 DEF CreateSession
  <2>. QED
    BY <2>1, <2>2
<1>2. CASE CreateEmit(s)
  BY <1>2 DEF CreateEmit
<1>3. CASE CreatePersist(s)
  BY <1>3 DEF CreatePersist
<1>4. CASE CreateUpsert(s)
  BY <1>4 DEF CreateUpsert
<1>5. CASE CreateReturn(s)
  BY <1>5 DEF CreateReturn
<1>6. CASE EndSession(s)
  <2>1. ~Over(s)
    BY <1>6 DEF EndSession
  <2>2. /\ record'[s] = "COMPLETED" /\ endedAt'[s]
        /\ create'[s] = create[s] /\ createRow'[s] = createRow[s] /\ row'[s] = row[s]
        /\ endNotices'[s] = endNotices[s] /\ timeoutNotices'[s] = timeoutNotices[s]
    BY <1>6 DEF EndSession
  <2>3. finish'[s] \in {"emitting", "persisting"}
    BY <1>6 DEF EndSession
  <2>4. watchdog'[s] \in {watchdog[s], "cancelled"} /\ (watchdog[s] = "none" => watchdog'[s] = "none")
    BY <1>6 DEF EndSession
  <2>5. /\ record[s] = "ACTIVE" /\ create[s] # "idle"
        /\ watchdog[s] \in {"none", "sleeping"}
        /\ Silent(s)
    BY <2>1
  <2>. QED
    BY <2>2, <2>3, <2>4, <2>5
<1>7. CASE EndEmit(s)
  <2>1. CASE finish' = [finish EXCEPT ![s] = "emitted"] /\ endNotices' = [endNotices EXCEPT ![s] = @ + 1]
    <3>1. /\ finish[s] = "emitting" /\ record[s] = "COMPLETED" /\ watchdog[s] # "emitting"
          /\ endNotices[s] = 0 /\ timeoutNotices[s] = 0
      BY <1>7 DEF EndEmit
    <3>2. endNotices'[s] = endNotices[s] + 1
      BY <2>1
    <3>3. endNotices'[s] = 1
      BY <3>1, <3>2, FirstNotice
    <3>4. /\ finish'[s] = "emitted" /\ timeoutNotices'[s] = 0
          /\ UNCHANGED <<memory, creating, timer, row>>
      BY <1>7, <2>1, <3>1 DEF EndEmit
    <3>. QED
      BY <3>1, <3>3, <3>4
  <2>2. CASE finish' = [finish EXCEPT ![s] = "failed"] /\ UNCHANGED endNotices
    BY <1>7, <2>2 DEF EndEmit
  <2>. QED
    BY <1>7, <2>1, <2>2 DEF EndEmit
<1>8. CASE EndPersist(s)
  BY <1>8 DEF EndPersist
<1>9. CASE EndUpsert(s)
  BY <1>9 DEF EndUpsert
<1>10. CASE TimeoutFires(s)
  <2>1. CASE CanTransition(record[s], "COMPLETED")
    <3>1. CASE producer
      BY <1>10, <2>1, <3>1 DEF TimeoutFires
    <3>2. CASE ~producer
      BY <1>10, <2>1, <3>2 DEF TimeoutFires
    <3>. QED
      BY <3>1, <3>2
  <2>2. CASE ~CanTransition(record[s], "COMPLETED")
    BY <1>10, <2>2 DEF TimeoutFires
  <2>. QED
    BY <2>1, <2>2
<1>11. CASE TimeoutEmit(s)
  <2>1. CASE /\ watchdog' = [watchdog EXCEPT ![s] = "done"]
             /\ timeoutNotices' = [timeoutNotices EXCEPT ![s] = @ + 1]
    <3>1. /\ watchdog[s] = "emitting" /\ record[s] = "COMPLETED" /\ finish[s] = "idle"
          /\ endNotices[s] = 0 /\ timeoutNotices[s] = 0
      BY <1>11 DEF TimeoutEmit
    <3>2. timeoutNotices'[s] = timeoutNotices[s] + 1
      BY <2>1
    <3>3. timeoutNotices'[s] = 1
      BY <3>1, <3>2, FirstNotice
    <3>4. /\ watchdog'[s] = "done" /\ endNotices'[s] = 0
          /\ UNCHANGED <<memory, creating, ending, row>>
      BY <1>11, <2>1, <3>1 DEF TimeoutEmit
    <3>. QED
      BY <3>1, <3>3, <3>4
  <2>2. CASE watchdog' = [watchdog EXCEPT ![s] = "failed"] /\ UNCHANGED timeoutNotices
    BY <1>11, <2>2 DEF TimeoutEmit
  <2>. QED
    BY <1>11, <2>1, <2>2 DEF TimeoutEmit
<1>. QED
  BY <1>1, <1>2, <1>3, <1>4, <1>5, <1>6, <1>7, <1>8, <1>9, <1>10, <1>11 DEF Handlers

(* The type invariant and the inductive invariant of the session endpoints *)
(* hold in every reachable state.                                          *)
THEOREM InvariantHolds == Spec => [](TypeOK /\ SessionInv)
<1>1. Init => SessionInv
  <2>. SUFFICES ASSUME Init, NEW t \in Sessions PROVE InvAt(t)
    BY DEF SessionInv
  <2>1. /\ record[t] = Absent /\ create[t] = "idle" /\ createRow[t] = NoRow
        /\ finish[t] = "idle" /\ watchdog[t] = "none" /\ row[t] = NoRow
        /\ endNotices[t] = 0 /\ timeoutNotices[t] = 0
    BY DEF Init
  <2>. QED
    BY <2>1 DEF Absent, NoRow, InvAt, UnbornIsBlank, HandlerHasRecord, SafeAt, Silent,
                RunningIsUnannounced, OneAnnouncer, EarlyEndIsDelete, Over, InFlight
<1>2. TypeOK /\ SessionInv /\ [Next]_vars => SessionInv'
  <2>. SUFFICES ASSUME TypeOK, SessionInv, [Next]_vars, NEW t \in Sessions PROVE InvAt(t)'
    BY DEF SessionInv
  <2>. InvAt(t)
    BY DEF SessionInv
  <2>1. ASSUME NEW s \in Sessions,
               CreateSession(s) \/ EndSession(s) \/ TimeoutFires(s) \/ Handlers(s)
        PROVE  InvAt(t)'
    <3>1. CASE s = t
      BY <2>1, <3>1, OwnStep
    <3>2. CASE s # t
      BY <2>1, <3>2, OthersUntouched, UntouchedKeepsInv
    <3>. QED
      BY <3>1, <3>2
  <2>2. CASE Restart
    BY <2>2, TransitionFacts
    DEF Restart, Interrupted, TypeOK, InvAt, UnbornIsBlank, HandlerHasRecord,
        RunningIsUnannounced, OneAnnouncer, EarlyEndIsDelete, SafeAt, Silent,
        AnnouncedBy, Over, InFlight, kafka
  <2>3. CASE UNCHANGED vars
    <3>1. Untouched(t)
      BY <2>3 DEF vars, Untouched
    <3>. QED
      BY <3>1, UntouchedKeepsInv
  <2>. QED
    BY <2>1, <2>2, <2>3 DEF Next
<1>. QED
  BY <1>1, <1>2, TypeCorrect, PTL DEF Spec

(* Of the two counters at most one is 1, so their sum is at most 1. *)
LEMMA OneNoticeAtMost ==
  ASSUME NEW m, NEW n, (m = 0 /\ n = 0) \/ (m = 1 /\ n = 0) \/ (n = 1 /\ m = 0)
  PROVE  m + n <= 1 /\ (m + n > 0 => m = 1 \/ n = 1)
  OBVIOUS

(* SCENARIO_ENDED is queued at most once per session, never while it runs, *)
(* never as a timeout after a DELETE; every running session a client was   *)
(* given has its watchdog; a COMPLETED row was ended by a DELETE.  For any *)
(* number of sessions and restarts.                                        *)
THEOREM SessionSafety ==
  Spec => [](EndNoticeIsTrue /\ RunningIsGuarded /\ CompletedRowWasDeleted)
<1>1. SessionInv => EndAnnouncedOnce
  BY OneNoticeAtMost
  DEF SessionInv, InvAt, SafeAt, Silent, AnnouncedBy, EndAnnouncedOnce, Announcements
<1>2. SessionInv => AnnouncedOnlyWhenOver
  <2>. SUFFICES ASSUME SessionInv, NEW s \in Sessions, ~Over(s) PROVE ~(Announcements(s) > 0)
    BY DEF AnnouncedOnlyWhenOver
  <2>1. endNotices[s] = 0 /\ timeoutNotices[s] = 0
    BY DEF SessionInv, InvAt, RunningIsUnannounced, Silent
  <2>. QED
    BY <2>1, OneNoticeAtMost DEF Announcements
<1>3. SessionInv => DeleteSilencesWatchdog /\ RunningIsGuarded /\ CompletedRowWasDeleted
  BY DEF SessionInv, InvAt, SafeAt, DeleteSilencesWatchdog, RunningIsGuarded,
         CompletedRowWasDeleted
<1>4. SessionInv => EndNoticeIsTrue /\ RunningIsGuarded /\ CompletedRowWasDeleted
  BY <1>1, <1>2, <1>3 DEF EndNoticeIsTrue
<1>. QED
  BY <1>4, InvariantHolds, PTL

(* Every running session a client was given has a watchdog that will end   *)
(* it.                                                                     *)
THEOREM RunningHasWatchdog == Spec => []RunningIsGuarded
  BY SessionSafety, PTL

(* Upserts write what the record was after the transition of their handler. *)
LEMMA UpsertsAreCurrent == Spec => [](\A s \in Sessions : CapturedAt(s))
<1>1. Init => \A s \in Sessions : CapturedAt(s)
  BY DEF Init, CapturedAt
<1>2. ASSUME TypeOK, SessionInv, \A s \in Sessions : CapturedAt(s), [Next]_vars,
             NEW t \in Sessions
      PROVE  CapturedAt(t)'
  <2>1. CapturedAt(t) /\ InvAt(t)
    BY <1>2 DEF SessionInv
  <2>. USE DEF CapturedAt, TypeOK, creating, ending, memory, timer, kafka, process
  <2>2. CASE UNCHANGED vars
    BY <2>1, <2>2 DEF vars
  <2>3. CASE Restart
    BY <1>2, <2>1, <2>3 DEF Restart, Interrupted, InFlight
  <2>4. ASSUME NEW s \in Sessions, CreateSession(s) PROVE CapturedAt(t)'
    BY <1>2, <2>1, <2>4 DEF CreateSession
  <2>5. ASSUME NEW s \in Sessions, EndSession(s) PROVE CapturedAt(t)'
    BY <1>2, <2>1, <2>5 DEF EndSession
  <2>6. ASSUME NEW s \in Sessions, TimeoutFires(s) \/ TimeoutEmit(s) PROVE CapturedAt(t)'
    BY <1>2, <2>1, <2>6 DEF TimeoutFires, TimeoutEmit
  <2>7. ASSUME NEW s \in Sessions, CreateEmit(s) \/ CreateUpsert(s) \/ CreateReturn(s)
        PROVE  CapturedAt(t)'
    BY <1>2, <2>1, <2>7 DEF CreateEmit, CreateUpsert, CreateReturn
  <2>8. ASSUME NEW s \in Sessions, EndEmit(s) \/ EndUpsert(s) PROVE CapturedAt(t)'
    BY <1>2, <2>1, <2>8 DEF EndEmit, EndUpsert
  <2>9. ASSUME NEW s \in Sessions, CreatePersist(s) PROVE CapturedAt(t)'
    <3>1. create[s] = "emitted" => record[s] \in {"ACTIVE", "COMPLETED"}
      BY <1>2 DEF SessionInv, InvAt, HandlerHasRecord, RunningIsUnannounced, Over, InFlight
    <3> QED BY <1>2, <2>1, <2>9, <3>1 DEF CreatePersist
  <2>10. ASSUME NEW s \in Sessions, EndPersist(s) PROVE CapturedAt(t)'
    <3>1. finish[s] = "emitted" => record[s] = "COMPLETED"
      BY <1>2 DEF SessionInv, InvAt, OneAnnouncer, InFlight
    <3> QED BY <1>2, <2>1, <2>10, <3>1 DEF EndPersist
  <2> QED
    BY <1>2, <2>2, <2>3, <2>4, <2>5, <2>6, <2>7, <2>8, <2>9, <2>10 DEF Next, Handlers
<1>3. TypeOK /\ SessionInv /\ (\A s \in Sessions : CapturedAt(s)) /\ [Next]_vars
        => (\A s \in Sessions : CapturedAt(s))'
  BY <1>2
<1>. QED
  BY <1>1, <1>3, InvariantHolds, PTL DEF Spec

(* The row: COMPLETED by a DELETE, and no longer so only by the late upsert *)
(* of create_session itself.                                                *)
THEOREM RowTellsTheStory == Spec => RowFollowsRecord
<1>1. ASSUME TypeOK, \A s \in Sessions : CapturedAt(s), Next,
             NEW s \in Sessions, row[s] = "COMPLETED", row'[s] # "COMPLETED"
      PROVE  create[s] = "persisting" /\ createRow[s] = "ACTIVE"
  <2>1. \E t \in Sessions : CreateUpsert(t) \/ EndUpsert(t)
    BY <1>1 DEF Next, Handlers, CreateSession, CreateEmit, CreatePersist, CreateReturn,
       EndSession, EndEmit, EndPersist, TimeoutFires, TimeoutEmit, Restart
  <2>2. PICK t \in Sessions : CreateUpsert(t) \/ EndUpsert(t)
    BY <2>1
  <2>3. row'[s] # row[s] => t = s
    BY <1>1, <2>2 DEF CreateUpsert, EndUpsert, TypeOK
  <2>4. t = s
    BY <1>1, <2>3
  <2>5. ~EndUpsert(s)
    BY <1>1 DEF EndUpsert, CapturedAt, TypeOK
  <2>6. create[s] = "persisting" /\ row'[s] = createRow[s]
    BY <1>1, <2>2, <2>4, <2>5 DEF CreateUpsert, TypeOK
  <2> QED
    BY <1>1, <2>6 DEF CapturedAt
<1>2. TypeOK /\ (\A s \in Sessions : CapturedAt(s)) /\ [Next]_vars
        => [\A s \in Sessions : row[s] = "COMPLETED" /\ row'[s] # "COMPLETED" =>
              create[s] = "persisting" /\ createRow[s] = "ACTIVE"]_vars
  BY <1>1
<1>3. Spec => RowRegressesOnlyByLateCreate
  BY <1>2, InvariantHolds, UpsertsAreCurrent, PTL DEF Spec, RowRegressesOnlyByLateCreate
<1>. QED
  BY <1>3, SessionSafety, PTL DEF RowFollowsRecord

(* Once COMPLETED, always COMPLETED with its end time, until a restart. *)
THEOREM CompletedStays == Spec => CompletedIsFinal
<1>1. ASSUME TypeOK, SessionInv, [Next]_vars, NEW s \in Sessions, record[s] = "COMPLETED"
      PROVE  \/ record'[s] = "COMPLETED" /\ endedAt[s] /\ endedAt'[s]
             \/ record'[s] = Absent /\ restarts' > restarts
  <2>1. InvAt(s) /\ endedAt[s]
    BY <1>1 DEF SessionInv, InvAt, SafeAt
  <2>2. ~CanTransition(record[s], "COMPLETED")
    BY <1>1, TransitionFacts
  <2>3. create[s] # "idle"
    BY <1>1, <2>1 DEF InvAt, UnbornIsBlank, Absent
  <2>4. ASSUME NEW t \in Sessions,
               CreateSession(t) \/ EndSession(t) \/ TimeoutFires(t) \/ Handlers(t)
        PROVE  record'[s] = record[s] /\ endedAt'[s] = endedAt[s]
    <3>1. CASE t # s
      BY <1>1, <2>4, <3>1, OthersUntouched DEF Untouched
    <3>2. CASE t = s
      BY <2>2, <2>3, <2>4, <3>2
      DEF CreateSession, EndSession, TimeoutFires, Handlers, CreateEmit, CreatePersist,
          CreateUpsert, CreateReturn, EndEmit, EndPersist, EndUpsert, TimeoutEmit, memory
    <3>. QED
      BY <3>1, <3>2
  <2>5. CASE Restart
    <3>1. restarts \in Nat /\ restarts' = restarts + 1 /\ record'[s] = Absent
      BY <1>1, <2>5, RestartAssumption DEF TypeOK, Restart
    <3>. QED
      BY <3>1
  <2>6. CASE UNCHANGED vars
    BY <1>1, <2>1, <2>6 DEF vars
  <2>. QED
    BY <1>1, <2>1, <2>4, <2>5, <2>6 DEF Next
<1>. DEFINE A == \A s \in Sessions :
                   record[s] = "COMPLETED" =>
                     \/ record'[s] = "COMPLETED" /\ endedAt[s] /\ endedAt'[s]
                     \/ record'[s] = Absent /\ restarts' > restarts
<1>2. TypeOK /\ SessionInv /\ [Next]_vars => [A]_vars
  BY <1>1
<1>. QED
  BY <1>2, InvariantHolds, PTL DEF Spec, CompletedIsFinal
-----------------------------------------------------------------------------
(* The refinement of SessionPromise.                                       *)

(* The abstract phase of a session that a step leaves alone is unchanged. *)
LEMMA UntouchedIsStutter ==
  ASSUME NEW t, Untouched(t)
  PROVE  PhaseOf(t)' = PhaseOf(t) /\ Announcements(t)' = Announcements(t)
  BY DEF Untouched, PhaseOf, Announcements

(* The steps the promise knows, as seen at one session. *)
Opened(s)    == PhaseOf(s) = "unborn" /\ PhaseOf(s)' = "live"
Closed(s)    == PhaseOf(s) = "live" /\ PhaseOf(s)' = "over"
SamePhase(s) == PhaseOf(s)' = PhaseOf(s)
SameCount(s) == Announcements(s)' = Announcements(s)
Announced(s) == /\ PhaseOf(s) = "over" /\ PhaseOf(s)' = "over"
                /\ Announcements(s) = 0 /\ Announcements(s)' = 1

(* The sums of notices that occur. *)
LEMMA ZeroAndOne == 0 + 0 = 0 /\ 0 + 1 = 1 /\ 1 + 0 = 1
  OBVIOUS

(* The step of a handler or the watchdog, seen at its own session. *)
LEMMA OwnStepIsPromised ==
  ASSUME TypeOK, NEW s \in Sessions, InvAt(s),
         \/ CreateSession(s) \/ EndSession(s) \/ TimeoutFires(s) \/ Handlers(s)
  PROVE  \/ SameCount(s) /\ (Opened(s) \/ Closed(s) \/ SamePhase(s))
         \/ Announced(s)
<1>. USE TransitionFacts
     DEF TypeOK, PhaseOf, Opened, Closed, SamePhase, SameCount, Announced,
         memory, creating, ending, timer, kafka, process, InFlight
<1>1. CASE CreateSession(s)
  BY <1>1 DEF CreateSession, InvAt, UnbornIsBlank, Announcements, Absent
<1>2. CASE CreateEmit(s) \/ CreatePersist(s) \/ CreateUpsert(s) \/ CreateReturn(s)
  <2>1. create[s] # "idle" /\ create'[s] # "idle" /\ UNCHANGED <<record, endNotices, timeoutNotices>>
    BY <1>2 DEF CreateEmit, CreatePersist, CreateUpsert, CreateReturn
  <2>. QED
    BY <2>1 DEF Announcements
<1>3. CASE EndSession(s)
  <2>1. /\ ~Over(s) /\ record'[s] = "COMPLETED"
        /\ UNCHANGED <<create, endNotices, timeoutNotices>>
    BY <1>3 DEF EndSession, Over
  <2>2. create[s] # "idle"
    BY <2>1 DEF InvAt, UnbornIsBlank, Over
  <2>. QED
    BY <2>1, <2>2 DEF Announcements, Over, Absent
<1>4. CASE TimeoutFires(s)
  <2>1. CASE CanTransition(record[s], "COMPLETED")
    <3>1. /\ ~Over(s) /\ record'[s] = "COMPLETED"
          /\ UNCHANGED <<create, endNotices, timeoutNotices>>
      BY <1>4, <2>1 DEF TimeoutFires, Over
    <3>2. create[s] # "idle"
      BY <3>1 DEF InvAt, UnbornIsBlank, Over
    <3>. QED
      BY <3>1, <3>2 DEF Announcements, Over, Absent
  <2>2. CASE ~CanTransition(record[s], "COMPLETED")
    BY <1>4, <2>2 DEF TimeoutFires, Announcements
  <2>. QED
    BY <2>1, <2>2
<1>5. CASE EndPersist(s) \/ EndUpsert(s)
  BY <1>5 DEF EndPersist, EndUpsert, Announcements
<1>6. CASE EndEmit(s)
  <2>1. /\ record[s] = "COMPLETED" /\ create[s] # "idle" /\ UNCHANGED <<create, record>>
        /\ endNotices[s] = 0 /\ timeoutNotices[s] = 0 /\ UNCHANGED timeoutNotices
    BY <1>6 DEF EndEmit, InvAt, OneAnnouncer, UnbornIsBlank, Silent, Absent
  <2>2. CASE UNCHANGED endNotices
    BY <2>1, <2>2 DEF Announcements
  <2>3. CASE endNotices' = [endNotices EXCEPT ![s] = @ + 1]
    <3>1. endNotices'[s] = 1
      BY <2>1, <2>3, FirstNotice
    <3>2. Announcements(s) = 0 /\ Announcements(s)' = 1
      BY <2>1, <3>1, ZeroAndOne DEF Announcements
    <3>. QED
      BY <2>1, <3>2 DEF Absent
  <2>. QED
    BY <1>6, <2>2, <2>3 DEF EndEmit
<1>7. CASE TimeoutEmit(s)
  <2>1. /\ record[s] = "COMPLETED" /\ create[s] # "idle" /\ UNCHANGED <<create, record>>
        /\ endNotices[s] = 0 /\ timeoutNotices[s] = 0 /\ UNCHANGED endNotices
    BY <1>7 DEF TimeoutEmit, InvAt, OneAnnouncer, UnbornIsBlank, Silent, Absent
  <2>2. CASE UNCHANGED timeoutNotices
    BY <2>1, <2>2 DEF Announcements
  <2>3. CASE timeoutNotices' = [timeoutNotices EXCEPT ![s] = @ + 1]
    <3>1. timeoutNotices'[s] = 1
      BY <2>1, <2>3, FirstNotice
    <3>2. Announcements(s) = 0 /\ Announcements(s)' = 1
      BY <2>1, <3>1, ZeroAndOne DEF Announcements
    <3>. QED
      BY <2>1, <3>2 DEF Absent
  <2>. QED
    BY <1>7, <2>2, <2>3 DEF TimeoutEmit
<1>. QED
  BY <1>1, <1>2, <1>3, <1>4, <1>5, <1>6, <1>7 DEF Handlers

(* Every step of the endpoints is a step of the promise or a stutter. *)
LEMMA StepSimulation ==
  TypeOK /\ SessionInv /\ [Next]_vars => [Promise!Next]_(Promise!promiseVars)
<1>. SUFFICES ASSUME TypeOK, SessionInv, [Next]_vars
              PROVE  [Promise!Next]_(Promise!promiseVars)
  OBVIOUS
<1>. DEFINE ph == [s \in Sessions |-> PhaseOf(s)]
            no == [s \in Sessions |-> Announcements(s)]
<1>1. ASSUME NEW s \in Sessions,
             CreateSession(s) \/ EndSession(s) \/ TimeoutFires(s) \/ Handlers(s)
      PROVE  [Promise!Next]_(Promise!promiseVars)
  <2>1. \A t \in Sessions \ {s} : SamePhase(t) /\ SameCount(t)
    BY <1>1, OthersUntouched, UntouchedIsStutter DEF SamePhase, SameCount
  <2>2. SamePhase(s) => ph' = ph
    BY <2>1 DEF SamePhase
  <2>3. SameCount(s) => no' = no
    BY <2>1 DEF SameCount
  <2>4. CASE SameCount(s) /\ Opened(s)
    <3>1. ph' = [ph EXCEPT ![s] = "live"]
      BY <2>1, <2>4 DEF SamePhase, Opened
    <3>. QED
      BY <2>3, <2>4, <3>1 DEF Promise!Next, Promise!Open, Opened
  <2>5. CASE SameCount(s) /\ Closed(s)
    <3>1. ph' = [ph EXCEPT ![s] = "over"]
      BY <2>1, <2>5 DEF SamePhase, Closed
    <3>. QED
      BY <2>3, <2>5, <3>1 DEF Promise!Next, Promise!Close, Closed
  <2>6. CASE Announced(s)
    <3>1. no' = [no EXCEPT ![s] = 1]
      BY <2>1, <2>6 DEF SameCount, Announced
    <3>2. ph' = ph
      BY <2>2, <2>6 DEF SamePhase, Announced
    <3>. QED
      BY <2>6, <3>1, <3>2 DEF Promise!Next, Promise!Announce, Announced
  <2>7. CASE SameCount(s) /\ SamePhase(s)
    BY <2>2, <2>3, <2>7 DEF Promise!promiseVars
  <2>. QED
    BY <1>1, <2>4, <2>5, <2>6, <2>7, OwnStepIsPromised DEF SessionInv
<1>2. CASE Restart
  <2>1. \A s \in Sessions :
          /\ PhaseOf(s)' = IF PhaseOf(s) = "unborn" THEN "unborn" ELSE "lost"
          /\ SameCount(s)
    BY <1>2 DEF Restart, Interrupted, TypeOK, PhaseOf, SameCount, Announcements, kafka, InFlight
  <2>2. ph' = [s \in Sessions |-> IF ph[s] = "unborn" THEN "unborn" ELSE "lost"]
    BY <2>1
  <2>3. no' = no
    BY <2>1 DEF SameCount
  <2>. QED
    BY <2>2, <2>3 DEF Promise!Next, Promise!Lose
<1>3. CASE UNCHANGED vars
  <2>1. \A s \in Sessions : PhaseOf(s)' = PhaseOf(s) /\ Announcements(s)' = Announcements(s)
    BY <1>3 DEF vars, PhaseOf, Announcements
  <2>. QED
    BY <2>1 DEF Promise!promiseVars
<1>. QED
  BY <1>1, <1>2, <1>3 DEF Next

(* The endpoints, with their awaits, races and restarts, implement the     *)
(* abstract SessionPromise.                                                *)
THEOREM EndpointsImplementPromise == Spec => ImplementsPromise
<1>1. Init => Promise!Init
  BY ZeroAndOne DEF Init, Promise!Init, PhaseOf, Announcements
<1>. QED
  BY <1>1, StepSimulation, InvariantHolds, PTL DEF Spec, ImplementsPromise, Promise!Spec
=============================================================================
