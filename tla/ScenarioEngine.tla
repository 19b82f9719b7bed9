--------------------------- MODULE ScenarioEngine ---------------------------
(***************************************************************************)
(* services/orchestrator/scenario_engine.py and its two DAGs: runs that    *)
(* provision and tear down sessions as HTTP clients of the session API.    *)
(* What the API does with a session is SessionPromise, which SessionApi    *)
(* implements; its telemetry plays no part here, notices stays as it is.   *)
(*                                                                         *)
(* client is what the DAG run knows, request what has become of its        *)
(* request: a run gives up after 30 s or when the connection breaks, and   *)
(* the request may still arrive, be worked on and be answered in vain.     *)
(* Neither the engine nor the DAGs repeat a request; a repetition is       *)
(* another run.                                                            *)
(***************************************************************************)
EXTENDS SessionPromise

CONSTANTS Provisions, Teardowns,   \* DAG runs
          NoSession, NoRun

ASSUME RunsAssumption == Provisions \cap Teardowns = {} /\ NoRun \notin Teardowns
ASSUME NoSessionAssumption == NoSession \notin Sessions

Runs == Provisions \cup Teardowns

VARIABLES
  client,    \* client[x]: "idle", "waiting", "succeeded" or "failed"
  request,   \* request[x]: "unsent", "sent", "working" (at the API), "done"
             \* (2xx), "refused" (4xx, 5xx) or "dropped" (by a restart)
  target,    \* target[x]: the session opened for x, or to be torn down by x
  watched,   \* sessions with a watchdog asleep
  closedBy,  \* closedBy[s]: the run whose DELETE got through
  archive    \* archive[s]: the run that wrote <archive_dir>/<s>.json

engineVars == <<client, request, target, watched, closedBy, archive>>
vars == <<promiseVars, engineVars>>

ClientState  == {"idle", "waiting", "succeeded", "failed"}
RequestState == {"unsent", "sent", "working", "done", "refused", "dropped"}

TypeOK ==
  /\ phase \in [Sessions -> Phase]
  /\ notices \in [Sessions -> Nat]
  /\ client \in [Runs -> ClientState]
  /\ request \in [Runs -> RequestState]
  /\ target \in [Runs -> Sessions \cup {NoSession}]
  /\ watched \in SUBSET Sessions
  /\ closedBy \in [Sessions -> Teardowns \cup {NoRun}]
  /\ archive \in [Sessions -> Teardowns \cup {NoRun}]

EngineInit ==
  /\ Init
  /\ client = [x \in Runs |-> "idle"]
  /\ request = [x \in Runs |-> "unsent"]
  /\ target = [x \in Runs |-> NoSession]
  /\ watched = {}
  /\ closedBy = [s \in Sessions |-> NoRun]
  /\ archive = [s \in Sessions |-> NoRun]

ClientTo(x, to)  == client' = [client EXCEPT ![x] = to]
RequestTo(x, to) == request' = [request EXCEPT ![x] = to]

-----------------------------------------------------------------------------
(* provision *)

(* load_config finds no file or one that is not valid: nothing is sent.    *)
LoadConfigFails(p) ==
  /\ client[p] = "idle"
  /\ ClientTo(p, "failed")
  /\ UNCHANGED <<promiseVars, request, target, watched, closedBy, archive>>

Provision(p) ==
  /\ client[p] = "idle"
  /\ ClientTo(p, "waiting")
  /\ RequestTo(p, "sent")
  /\ UNCHANGED <<promiseVars, target, watched, closedBy, archive>>

(* create_session begins, whether or not p is still waiting.  It draws a   *)
(* fresh id; which of them makes no difference.                            *)
PostArrives(p, s) ==
  /\ request[p] = "sent"
  /\ s = CHOOSE fresh \in Sessions : phase[fresh] = "unborn"
  /\ Open(s)
  /\ RequestTo(p, "working")
  /\ target' = [target EXCEPT ![p] = s]
  /\ UNCHANGED <<client, watched, closedBy, archive>>

(* Variant: a handler whose client has gone is cancelled.                  *)
PostDoneIfHeard(p) ==
  /\ request[p] = "working"
  /\ IF client[p] = "waiting" THEN RequestTo(p, "done") ELSE RequestTo(p, "dropped")
  /\ watched' = IF client[p] = "waiting" THEN watched \cup {target[p]} ELSE watched
  /\ UNCHANGED <<promiseVars, client, target, closedBy, archive>>

(* It ends: the watchdog is started, and 201 is the answer.                *)
PostDone(p) ==
  /\ request[p] = "working"
  /\ RequestTo(p, "done")
  /\ watched' = watched \cup {target[p]}
  /\ UNCHANGED <<promiseVars, client, target, closedBy, archive>>

(* The emit raised: 500, and no watchdog.                                  *)
PostFails(p) ==
  /\ request[p] = "working"
  /\ RequestTo(p, "refused")
  /\ UNCHANGED <<promiseVars, client, target, watched, closedBy, archive>>

(* The 201 arrives in time: the result has the session's id.               *)
Provisioned(p) ==
  /\ client[p] = "waiting"
  /\ request[p] = "done"
  /\ ClientTo(p, "succeeded")
  /\ UNCHANGED <<promiseVars, request, target, watched, closedBy, archive>>

-----------------------------------------------------------------------------
(* teardown *)

(* Triggered by hand, with an id from a provision run, from GET /sessions  *)
(* or from telemetry.                                                      *)
Teardown(t, s) ==
  /\ client[t] = "idle"
  /\ phase[s] # "unborn"
  /\ ClientTo(t, "waiting")
  /\ RequestTo(t, "sent")
  /\ target' = [target EXCEPT ![t] = s]
  /\ UNCHANGED <<promiseVars, watched, closedBy, archive>>

(* end_session begins for a session that runs.                             *)
DeleteArrives(t) ==
  /\ request[t] = "sent"
  /\ Close(target[t])
  /\ RequestTo(t, "working")
  /\ closedBy' = [closedBy EXCEPT ![target[t]] = t]
  /\ watched' = watched \ {target[t]}
  /\ UNCHANGED <<client, target, archive>>

(* Variant: deleting what is already over succeeds.                        *)
DeleteTolerated(t) ==
  /\ request[t] = "sent"
  /\ phase[target[t]] # "live"
  /\ RequestTo(t, "done")
  /\ UNCHANGED <<promiseVars, client, target, watched, closedBy, archive>>

(* 409 when it is over, 404 when a restart has lost it.                    *)
DeleteRefused(t) ==
  /\ request[t] = "sent"
  /\ phase[target[t]] # "live"
  /\ RequestTo(t, "refused")
  /\ UNCHANGED <<promiseVars, client, target, watched, closedBy, archive>>

(* 200, or 500 when the emit raised.                                       *)
DeleteEnds(t) ==
  /\ request[t] = "working"
  /\ RequestTo(t, "done") \/ RequestTo(t, "refused")
  /\ UNCHANGED <<promiseVars, client, target, watched, closedBy, archive>>

(* Variant: the log is written first.                                      *)
TornDownArchivedFirst(t) ==
  /\ client[t] = "waiting"
  /\ request[t] \in {"sent", "done"}
  /\ IF request[t] = "done" THEN ClientTo(t, "succeeded") ELSE UNCHANGED client
  /\ archive' \in {archive, [archive EXCEPT ![target[t]] = t]}
  /\ UNCHANGED <<promiseVars, request, target, watched, closedBy>>

(* The 200 arrives in time; with an archive_dir the log is written before  *)
(* the run succeeds.                                                       *)
TornDown(t) ==
  /\ client[t] = "waiting"
  /\ request[t] = "done"
  /\ ClientTo(t, "succeeded")
  /\ archive' \in {archive, [archive EXCEPT ![target[t]] = t]}
  /\ UNCHANGED <<promiseVars, request, target, watched, closedBy>>

(* mkdir or write_text raises: the session is over, its log is not kept.   *)
ArchiveFails(t) ==
  /\ client[t] = "waiting"
  /\ request[t] = "done"
  /\ ClientTo(t, "failed")
  /\ UNCHANGED <<promiseVars, request, target, watched, closedBy, archive>>

-----------------------------------------------------------------------------
(* raise_for_status. *)
Refused(x) ==
  /\ client[x] = "waiting"
  /\ request[x] = "refused"
  /\ ClientTo(x, "failed")
  /\ UNCHANGED <<promiseVars, request, target, watched, closedBy, archive>>

(* Variant: post() without a timeout.                                      *)
WaitsForever(x) ==
  /\ client[x] = "waiting"
  /\ request[x] = "dropped"
  /\ ClientTo(x, "failed")
  /\ UNCHANGED <<promiseVars, request, target, watched, closedBy, archive>>

(* 30 s without a sign of an answer, or no connection any more.            *)
GiveUp(x) ==
  /\ client[x] = "waiting"
  /\ ClientTo(x, "failed")
  /\ UNCHANGED <<promiseVars, request, target, watched, closedBy, archive>>

WatchdogFires(s) ==
  /\ s \in watched
  /\ Close(s)
  /\ watched' = watched \ {s}
  /\ UNCHANGED <<client, request, target, closedBy, archive>>

(* The API restarts: handlers and watchdogs are gone with the sessions.    *)
Restart ==
  /\ Lose
  /\ request' = [x \in Runs |-> IF request[x] = "working" THEN "dropped" ELSE request[x]]
  /\ watched' = {}
  /\ UNCHANGED <<client, target, closedBy, archive>>

-----------------------------------------------------------------------------
ClientStep(x) ==
  \/ x \in Provisions /\ Provisioned(x)
  \/ x \in Teardowns /\ (TornDown(x) \/ ArchiveFails(x))
  \/ Refused(x) \/ GiveUp(x)

HandlerStep(x) ==
  \/ x \in Provisions /\ (PostDone(x) \/ PostFails(x))
  \/ x \in Teardowns /\ DeleteEnds(x)

EngineNext ==
  \/ \E p \in Provisions : LoadConfigFails(p) \/ Provision(p)
  \/ \E p \in Provisions, s \in Sessions : PostArrives(p, s)
  \/ \E t \in Teardowns, s \in Sessions : Teardown(t, s)
  \/ \E t \in Teardowns : DeleteArrives(t) \/ DeleteRefused(t)
  \/ \E x \in Runs : ClientStep(x) \/ HandlerStep(x)
  \/ \E s \in Sessions : WatchdogFires(s)
  \/ Restart

EngineSpec == EngineInit /\ [][EngineNext]_vars

(* The client's timeouts end its waiting; the API finishes what it began   *)
(* and its sleeps end (SessionApi!Fairness).  Requests need not arrive.    *)
Fairness ==
  /\ \A x \in Runs : WF_vars(ClientStep(x)) /\ WF_vars(HandlerStep(x))
  /\ \A s \in Sessions : WF_vars(WatchdogFires(s))

FairSpec == EngineSpec /\ Fairness

-----------------------------------------------------------------------------
(* What a successful run reports is so, whatever was lost, late or done by *)
(* others: a provisioned session was opened for this run and no other, and *)
(* has a watchdog while it runs; a torn-down one was closed by this run,   *)
(* hence by one run at most and never by its watchdog.                     *)
SuccessIsTrue ==
  /\ \A p \in Provisions : client[p] = "succeeded" =>
       /\ target[p] \in Sessions
       /\ phase[target[p]] = "live" => target[p] \in watched
       /\ \A q \in Provisions : target[q] = target[p] => q = p
  /\ \A t \in Teardowns : client[t] = "succeeded" =>
       /\ closedBy[target[t]] = t
       /\ phase[target[t]] \in {"over", "lost"}

(* A log is written once, by the run that closed the session and while it  *)
(* is still running: if that run gave up or failed to write, no later run  *)
(* archives the session.                                                   *)
ArchivedByItsCloser ==
  [][\A s \in Sessions : archive'[s] # archive[s] =>
       /\ archive[s] = NoRun
       /\ archive'[s] = closedBy[s]
       /\ client[closedBy[s]] = "waiting"
       /\ phase[s] \in {"over", "lost"}]_vars

(* Every run that was triggered ends, whatever the API and the network do. *)
RunsEnd == \A x \in Runs : (client[x] = "waiting") ~> (client[x] \in {"succeeded", "failed"})

(* Every session opened for a run ends, also when the run has given up and *)
(* nobody has its id; only one whose POST was answered 500 may run on.     *)
OpenedSessionsEnd ==
  \A p \in Provisions :
    (target[p] # NoSession) ~>
      (request[p] = "refused" \/ target[p] \in {s \in Sessions : phase[s] # "live"})

(* Time-outs, lost answers and abandoned requests leave nothing open.      *)
RunsAndSessionsEnd == RunsEnd /\ OpenedSessionsEnd
=============================================================================
