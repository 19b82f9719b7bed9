----------------------------- MODULE SessionApi -----------------------------
(***************************************************************************)
(* The session endpoints of services/api/sessions.py with their await      *)
(* points: create_session, end_session and the _run_timeout watchdog, over *)
(* the in-memory registry, the Kafka producer thread and the sessions      *)
(* table.  Handlers run on one event loop, so what lies between two awaits *)
(* is one atomic action; a handler that awaits the producer thread or the  *)
(* database gives way to every other handler.                              *)
(***************************************************************************)
EXTENDS Naturals, SessionManager

CONSTANTS
  Sessions,      \* session ids; uuid4 makes every created id a fresh one
  MaxRestarts    \* bound on process restarts

ASSUME RestartAssumption == MaxRestarts \in Nat

VARIABLES
  producer,      \* is state.producer set (Kafka reachable at start-up)?
  record,        \* [Sessions -> registry entry: a SessionState, or Absent]
  endedAt,       \* [Sessions -> is record.ended_at set?]
  create,        \* [Sessions -> progress of create_session]
  createRow,     \* [Sessions -> state captured by its upsert parameters]
  finish,        \* [Sessions -> progress of the end_session that got through]
  finishRow,     \* [Sessions -> state captured by its upsert parameters]
  watchdog,      \* [Sessions -> progress of the _run_timeout task]
  timeoutTasks,  \* keys of state.timeout_tasks
  row,           \* [Sessions -> state column of the sessions row, or NoRow]
  started,       \* sessions whose SCENARIO_STARTED reached the Kafka queue
  endNotices,    \* [Sessions -> SCENARIO_ENDED queued, reason "completed"]
  timeoutNotices,\* [Sessions -> SCENARIO_ENDED queued, reason "timeout"]
  restarts

vars == <<producer, record, endedAt, create, createRow, finish, finishRow,
          watchdog, timeoutTasks, row, started, endNotices, timeoutNotices,
          restarts>>

memory   == <<record, endedAt>>
creating == <<create, createRow>>
ending   == <<finish, finishRow>>
timer    == <<watchdog, timeoutTasks>>
kafka    == <<started, endNotices, timeoutNotices>>
process  == <<producer, restarts>>

NoRow == "NO_ROW"

(* A handler is idle, runs in the producer thread (emitting), is back from *)
(* it (emitted), waits for the database (persisting), is back from it      *)
(* (persisted), has answered 2xx (returned), has answered 500 (failed), or *)
(* was cut off by a restart (dropped).                                     *)
HandlerPc  == {"idle", "emitting", "emitted", "persisting", "persisted",
               "returned", "failed", "dropped"}
InFlight   == {"emitting", "emitted", "persisting", "persisted"}
WatchdogPc == {"none", "sleeping", "emitting", "done", "failed", "cancelled"}

TypeOK ==
  /\ producer \in BOOLEAN
  /\ record \in [Sessions -> SessionState \cup {Absent}]
  /\ endedAt \in [Sessions -> BOOLEAN]
  /\ create \in [Sessions -> HandlerPc]
  /\ createRow \in [Sessions -> SessionState \cup {NoRow}]
  /\ finish \in [Sessions -> HandlerPc]
  /\ finishRow \in [Sessions -> SessionState \cup {NoRow}]
  /\ watchdog \in [Sessions -> WatchdogPc]
  /\ timeoutTasks \subseteq Sessions
  /\ row \in [Sessions -> SessionState \cup {NoRow}]
  /\ started \subseteq Sessions
  /\ endNotices \in [Sessions -> Nat]
  /\ timeoutNotices \in [Sessions -> Nat]
  /\ restarts \in 0..MaxRestarts

Init ==
  /\ producer \in BOOLEAN
  /\ record = [s \in Sessions |-> Absent]
  /\ endedAt = [s \in Sessions |-> FALSE]
  /\ create = [s \in Sessions |-> "idle"]
  /\ createRow = [s \in Sessions |-> NoRow]
  /\ finish = [s \in Sessions |-> "idle"]
  /\ finishRow = [s \in Sessions |-> NoRow]
  /\ watchdog = [s \in Sessions |-> "none"]
  /\ timeoutTasks = {}
  /\ row = [s \in Sessions |-> NoRow]
  /\ started = {}
  /\ endNotices = [s \in Sessions |-> 0]
  /\ timeoutNotices = [s \in Sessions |-> 0]
  /\ restarts = 0

-----------------------------------------------------------------------------
(* POST /sessions.                                                         *)

(* Variant: the watchdog is started before the first await.                *)
CreateSessionTimerFirst(s) ==
  /\ create[s] = "idle"
  /\ record' = [record EXCEPT ![s] = "ACTIVE"]
  /\ create' = [create EXCEPT ![s] = IF producer THEN "emitting" ELSE "persisting"]
  /\ createRow' = IF producer THEN createRow ELSE [createRow EXCEPT ![s] = "ACTIVE"]
  /\ watchdog' = [watchdog EXCEPT ![s] = "sleeping"]
  /\ timeoutTasks' = timeoutTasks \cup {s}
  /\ UNCHANGED <<endedAt, ending, row, kafka, process>>

(* create() and transition(ACTIVE) run before the first await, so CREATED  *)
(* is never seen.  Without a producer the handler goes straight to         *)
(* _persist, whose parameters are read from the record there and then.     *)
CreateSession(s) ==
  /\ create[s] = "idle"
  /\ CanTransition("CREATED", "ACTIVE")
  /\ record' = [record EXCEPT ![s] = "ACTIVE"]
  /\ endedAt' = [endedAt EXCEPT ![s] = StampsEnd("ACTIVE")]
  /\ IF producer
       THEN /\ create' = [create EXCEPT ![s] = "emitting"]
            /\ UNCHANGED createRow
       ELSE /\ create' = [create EXCEPT ![s] = "persisting"]
            /\ createRow' = [createRow EXCEPT ![s] = "ACTIVE"]
  /\ UNCHANGED <<ending, timer, row, kafka, process>>

(* The producer thread queues SCENARIO_STARTED, or gives up after three    *)
(* BufferErrors: create_session has no try around this emit, so the        *)
(* exception ends it with a 500.                                           *)
CreateEmit(s) ==
  /\ create[s] = "emitting"
  /\ \/ /\ create' = [create EXCEPT ![s] = "emitted"]
        /\ started' = started \cup {s}
     \/ /\ create' = [create EXCEPT ![s] = "failed"]
        /\ UNCHANGED started
  /\ UNCHANGED <<memory, createRow, ending, timer, row, endNotices, timeoutNotices,
                 process>>

(* Back on the event loop: the upsert reads the record as it is NOW.       *)
CreatePersist(s) ==
  /\ create[s] = "emitted"
  /\ create' = [create EXCEPT ![s] = "persisting"]
  /\ createRow' = [createRow EXCEPT ![s] = record[s]]
  /\ UNCHANGED <<memory, ending, timer, row, kafka, process>>

(* The upsert takes effect, or fails and _persist swallows the exception.  *)
CreateUpsert(s) ==
  /\ create[s] = "persisting"
  /\ create' = [create EXCEPT ![s] = "persisted"]
  /\ \/ row' = [row EXCEPT ![s] = createRow[s]]
     \/ UNCHANGED row
  /\ UNCHANGED <<memory, createRow, ending, timer, kafka, process>>

(* Variants: the task is not kept in timeout_tasks; there is no task; the  *)
(* session is activated here, when everything is ready, rather than first. *)
CreateReturnUnregistered(s) ==
  /\ create[s] = "persisted"
  /\ create' = [create EXCEPT ![s] = "returned"]
  /\ watchdog' = [watchdog EXCEPT ![s] = "sleeping"]
  /\ UNCHANGED <<memory, createRow, ending, timeoutTasks, row, kafka, process>>

CreateReturnUnwatched(s) ==
  /\ create[s] = "persisted"
  /\ create' = [create EXCEPT ![s] = "returned"]
  /\ UNCHANGED <<memory, createRow, ending, timer, row, kafka, process>>

CreateReturnActivates(s) ==
  /\ create[s] = "persisted"
  /\ create' = [create EXCEPT ![s] = "returned"]
  /\ record' = [record EXCEPT ![s] = "ACTIVE"]
  /\ watchdog' = [watchdog EXCEPT ![s] = "sleeping"]
  /\ timeoutTasks' = timeoutTasks \cup {s}
  /\ UNCHANGED <<endedAt, createRow, ending, row, kafka, process>>

(* Whatever happened meanwhile, the watchdog is started and registered.    *)
CreateReturn(s) ==
  /\ create[s] = "persisted"
  /\ create' = [create EXCEPT ![s] = "returned"]
  /\ watchdog' = [watchdog EXCEPT ![s] = "sleeping"]
  /\ timeoutTasks' = timeoutTasks \cup {s}
  /\ UNCHANGED <<memory, createRow, ending, row, kafka, process>>

-----------------------------------------------------------------------------
(* DELETE /sessions/{session_id}.                                          *)

(* A client can name a session once its id has left the handler: in the    *)
(* response, in GET /sessions (which reads the table) or in Kafka.         *)
Known(s) == create[s] = "returned" \/ row[s] # NoRow \/ s \in started

(* The DELETE that gets through: 404 and 409 leave without a change, so    *)
(* they are not steps.  A cancelled task never resumes, whether it was     *)
(* asleep or waiting for the producer thread.                              *)
EndSession(s) ==
  /\ Known(s)
  /\ finish[s] \notin InFlight
  /\ CanTransition(record[s], "COMPLETED")
  /\ record' = [record EXCEPT ![s] = "COMPLETED"]
  /\ endedAt' = [endedAt EXCEPT ![s] = StampsEnd("COMPLETED")]
  /\ timeoutTasks' = timeoutTasks \ {s}
  /\ watchdog' = IF s \in timeoutTasks /\ watchdog[s] \in {"sleeping", "emitting"}
                   THEN [watchdog EXCEPT ![s] = "cancelled"]
                   ELSE watchdog
  /\ IF producer
       THEN /\ finish' = [finish EXCEPT ![s] = "emitting"]
            /\ UNCHANGED finishRow
       ELSE /\ finish' = [finish EXCEPT ![s] = "persisting"]
            /\ finishRow' = [finishRow EXCEPT ![s] = "COMPLETED"]
  /\ UNCHANGED <<creating, row, kafka, process>>

EndEmit(s) ==
  /\ finish[s] = "emitting"
  /\ \/ /\ finish' = [finish EXCEPT ![s] = "emitted"]
        /\ endNotices' = [endNotices EXCEPT ![s] = @ + 1]
     \/ /\ finish' = [finish EXCEPT ![s] = "failed"]
        /\ UNCHANGED endNotices
  /\ UNCHANGED <<memory, creating, finishRow, timer, row, started,
                 timeoutNotices, process>>

(* Variant: the upsert parameters were read before the transition.         *)
EndPersistStale(s) ==
  /\ finish[s] = "emitted"
  /\ finish' = [finish EXCEPT ![s] = "persisting"]
  /\ finishRow' = [finishRow EXCEPT ![s] = "ACTIVE"]
  /\ UNCHANGED <<memory, creating, timer, row, kafka, process>>

EndPersist(s) ==
  /\ finish[s] = "emitted"
  /\ finish' = [finish EXCEPT ![s] = "persisting"]
  /\ finishRow' = [finishRow EXCEPT ![s] = record[s]]
  /\ UNCHANGED <<memory, creating, timer, row, kafka, process>>

(* The upsert takes effect or its failure is swallowed; nothing but the    *)
(* response follows.                                                       *)
EndUpsert(s) ==
  /\ finish[s] = "persisting"
  /\ finish' = [finish EXCEPT ![s] = "returned"]
  /\ \/ row' = [row EXCEPT ![s] = finishRow[s]]
     \/ UNCHANGED row
  /\ UNCHANGED <<memory, creating, finishRow, timer, kafka, process>>

-----------------------------------------------------------------------------
(* _run_timeout.                                                           *)

(* Variant: announce the timeout first, complete the session afterwards.   *)
TimeoutFiresEarly(s) ==
  /\ watchdog[s] = "sleeping"
  /\ watchdog' = [watchdog EXCEPT ![s] = "emitting"]
  /\ UNCHANGED <<memory, creating, ending, timeoutTasks, row, kafka, process>>

(* The sleep is over.  The task's entry stays in timeout_tasks, and the    *)
(* row is not written: this path has no database session.                  *)
TimeoutFires(s) ==
  /\ watchdog[s] = "sleeping"
  /\ IF CanTransition(record[s], "COMPLETED")
       THEN /\ record' = [record EXCEPT ![s] = "COMPLETED"]
            /\ endedAt' = [endedAt EXCEPT ![s] = StampsEnd("COMPLETED")]
            /\ watchdog' = IF producer THEN [watchdog EXCEPT ![s] = "emitting"]
                                       ELSE [watchdog EXCEPT ![s] = "done"]
       ELSE /\ watchdog' = [watchdog EXCEPT ![s] = "done"]
            /\ UNCHANGED memory
  /\ UNCHANGED <<creating, ending, timeoutTasks, row, kafka, process>>

TimeoutEmit(s) ==
  /\ watchdog[s] = "emitting"
  /\ \/ /\ watchdog' = [watchdog EXCEPT ![s] = "done"]
        /\ timeoutNotices' = [timeoutNotices EXCEPT ![s] = @ + 1]
     \/ /\ watchdog' = [watchdog EXCEPT ![s] = "failed"]
        /\ UNCHANGED timeoutNotices
  /\ UNCHANGED <<memory, creating, ending, timeoutTasks, row, started,
                 endNotices, process>>

-----------------------------------------------------------------------------
(* The process stops (shutdown or crash) and starts again: registry, tasks *)
(* and handlers are gone, the table and Kafka stay, and the new lifespan   *)
(* may or may not find Kafka.                                              *)
Interrupted(pc) == [s \in Sessions |-> IF pc[s] \in InFlight THEN "dropped" ELSE pc[s]]

Restart ==
  /\ restarts < MaxRestarts
  /\ restarts' = restarts + 1
  /\ producer' \in BOOLEAN
  /\ record' = [s \in Sessions |-> Absent]
  /\ endedAt' = [s \in Sessions |-> FALSE]
  /\ create' = Interrupted(create)
  /\ finish' = Interrupted(finish)
  /\ watchdog' = [s \in Sessions |-> "none"]
  /\ timeoutTasks' = {}
  /\ UNCHANGED <<createRow, finishRow, row, kafka>>

Handlers(s) ==
  \/ CreateEmit(s) \/ CreatePersist(s) \/ CreateUpsert(s) \/ CreateReturn(s)
  \/ EndEmit(s) \/ EndPersist(s) \/ EndUpsert(s)
  \/ TimeoutEmit(s)

Next ==
  \/ \E s \in Sessions :
       CreateSession(s) \/ EndSession(s) \/ TimeoutFires(s) \/ Handlers(s)
  \/ Restart

Spec == Init /\ [][Next]_vars

(* The event loop, the producer thread and the database driver finish what *)
(* they started (tenacity stops after three attempts, the driver answers   *)
(* or raises), and a sleep ends.  Clients owe nothing.                     *)
Fairness == \A s \in Sessions : WF_vars(Handlers(s)) /\ WF_vars(TimeoutFires(s))

FairSpec == Spec /\ Fairness

-----------------------------------------------------------------------------
Announcements(s) == endNotices[s] + timeoutNotices[s]

(* The session has ended as far as this process knows, or the process that *)
(* knew it is gone.                                                        *)
Over(s) == record[s] \in {"COMPLETED", Absent}

(* A DELETE racing the watchdog, a second DELETE and a restart in the      *)
(* middle of either never produce a second SCENARIO_ENDED for one session: *)
(* consumers may take the event as the one end of the scenario.            *)
EndAnnouncedOnce == \A s \in Sessions : Announcements(s) <= 1

(* No SCENARIO_ENDED is queued, with either reason, while the session is   *)
(* still running.                                                          *)
AnnouncedOnlyWhenOver == \A s \in Sessions : Announcements(s) > 0 => Over(s)

(* The reason tells the truth: after a DELETE got through, the watchdog    *)
(* (cancelled, or not yet started when the DELETE came) does not report a  *)
(* timeout.                                                                *)
DeleteSilencesWatchdog ==
  \A s \in Sessions : finish[s] # "idle" => timeoutNotices[s] = 0

(* The one SCENARIO_ENDED of a session tells the truth: that it is over,   *)
(* once, and why.                                                          *)
EndNoticeIsTrue == EndAnnouncedOnce /\ AnnouncedOnlyWhenOver /\ DeleteSilencesWatchdog

(* Every running session that create_session has answered 201 for has a    *)
(* watchdog asleep that will end it, and end_session can find that task in *)
(* timeout_tasks to cancel it.                                             *)
RunningIsGuarded ==
  \A s \in Sessions :
    create[s] = "returned" /\ ~Over(s) => watchdog[s] = "sleeping" /\ s \in timeoutTasks

(* The row lags behind the record but never runs ahead of it: a COMPLETED  *)
(* row belongs to a session whose DELETE got through.                      *)
CompletedRowWasDeleted ==
  \A s \in Sessions : row[s] = "COMPLETED" => finish[s] # "idle" /\ Over(s)

(* COMPLETED is final: no late handler or watchdog step reopens a session  *)
(* or clears its end time; only the death of the process forgets it.       *)
CompletedIsFinal ==
  [][\A s \in Sessions :
       record[s] = "COMPLETED" =>
         \/ record'[s] = "COMPLETED" /\ endedAt[s] /\ endedAt'[s]
         \/ record'[s] = Absent /\ restarts' > restarts]_vars

(* The one way a COMPLETED row can turn ACTIVE again is create_session's   *)
(* own upsert arriving after end_session's: the upsert is unconditional.   *)
RowRegressesOnlyByLateCreate ==
  [][\A s \in Sessions :
       row[s] = "COMPLETED" /\ row'[s] # "COMPLETED" =>
         create[s] = "persisting" /\ createRow[s] = "ACTIVE"]_vars

(* What the table tells of a session, over its whole life: the two above.  *)
RowFollowsRecord == []CompletedRowWasDeleted /\ RowRegressesOnlyByLateCreate

(* Every session a client was given ends, by DELETE or by the watchdog.    *)
AnsweredSessionsEnd == \A s \in Sessions : create[s] = "returned" ~> Over(s)

-----------------------------------------------------------------------------
(* The inductive invariant behind the safety properties, per session.      *)

Silent(s) == endNotices[s] = 0 /\ timeoutNotices[s] = 0

AnnouncedBy(s, one, other) == one[s] = 1 /\ other[s] = 0

(* Before the first step of create_session nothing exists.                 *)
UnbornIsBlank(s) ==
  create[s] = "idle" => record[s] = Absent /\ finish[s] = "idle" /\ Silent(s)

(* A handler in flight holds a record the registry knows: only a restart   *)
(* removes records, and it takes the handlers with it.                     *)
HandlerHasRecord(s) ==
  create[s] \in InFlight \/ finish[s] \in InFlight => record[s] # Absent

(* While it runs, nobody has ended it and nobody is announcing its end.    *)
RunningIsUnannounced(s) ==
  ~Over(s) => /\ record[s] = "ACTIVE"
              /\ finish[s] = "idle"
              /\ watchdog[s] \in {"none", "sleeping"}
              /\ Silent(s)

(* A path that is to announce the end has completed the record itself, has *)
(* not announced yet, and is the only such path.                           *)
OneAnnouncer(s) ==
  /\ finish[s] \in InFlight => record[s] = "COMPLETED"
  /\ finish[s] = "emitting" => Silent(s)
  /\ watchdog[s] = "emitting" =>
       record[s] = "COMPLETED" /\ finish[s] = "idle" /\ Silent(s)

(* The watchdog is born after create_session's upsert, so a record that    *)
(* was completed before was completed by a DELETE, and so was the state    *)
(* that upsert captured.                                                   *)
EarlyEndIsDelete(s) ==
  /\ create[s] # "returned" => watchdog[s] = "none"
  /\ record[s] = "COMPLETED" /\ watchdog[s] = "none" => finish[s] # "idle"
  /\ createRow[s] = "COMPLETED" => finish[s] # "idle"

(* The safety properties above, for one session.                           *)
SafeAt(s) ==
  /\ Silent(s) \/ AnnouncedBy(s, endNotices, timeoutNotices)
             \/ AnnouncedBy(s, timeoutNotices, endNotices)
  /\ finish[s] # "idle" => timeoutNotices[s] = 0 /\ Over(s)
  /\ create[s] = "returned" /\ ~Over(s) => watchdog[s] = "sleeping" /\ s \in timeoutTasks
  /\ row[s] = "COMPLETED" => finish[s] # "idle"
  /\ record[s] = "COMPLETED" => endedAt[s]

InvAt(s) ==
  /\ UnbornIsBlank(s)
  /\ HandlerHasRecord(s)
  /\ RunningIsUnannounced(s)
  /\ OneAnnouncer(s)
  /\ EarlyEndIsDelete(s)
  /\ SafeAt(s)

SessionInv == \A s \in Sessions : InvAt(s)

(* What an upsert is about to write was captured after the transition.     *)
CapturedAt(s) ==
  /\ finish[s] = "persisting" => finishRow[s] = "COMPLETED"
  /\ create[s] = "persisting" => createRow[s] \in {"ACTIVE", "COMPLETED"}

-----------------------------------------------------------------------------
(* The refinement: SessionPromise seen through the registry and the queue. *)
PhaseOf(s) ==
  IF create[s] = "idle" THEN "unborn"
  ELSE IF record[s] = Absent THEN "lost"
  ELSE IF record[s] = "COMPLETED" THEN "over"
  ELSE "live"

Promise == INSTANCE SessionPromise WITH
             phase   <- [s \in Sessions |-> PhaseOf(s)],
             notices <- [s \in Sessions |-> Announcements(s)]

ImplementsPromise == Promise!Spec
=============================================================================
