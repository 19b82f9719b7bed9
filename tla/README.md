# orchid in TLA+

orchid opens assessment sessions over HTTP, lets a candidate talk to sub-agents
over a WebSocket, streams telemetry through Kafka, and assembles a *fingerprint*
per session that is stored, cached, served and delivered to webhooks. This
directory holds TLA+ models of the parts of it that are hard to test, TLC
configurations that check them on small instances, and TLAPS proofs that lift
the most important results to every instance.

To check a model: `tlc -config X.cfg M` with the pairs of "Runs" below. To
check the proofs of a module: `tlapm M.tla`. `PROJECT.json` maps each definition
to the lines of the source it models.

## 1. The system

| Part | Source | State it keeps | Operations |
|---|---|---|---|
| Session state machine and endpoints | `services/api/sessions.py`, `session_manager.py`, `session_repository.py`, `state.py` | registry (process memory), `timeout_tasks`, `sessions` table | POST, DELETE, watchdog `_run_timeout`, upsert |
| Fingerprint storage | `fingerprint_repository.py`, `cache.py`, `candidates.py`, `admin.py` | `fingerprints`, `candidates`, `sessions` tables, in-process cache | GET fingerprint, save, candidate purge, tenant purge |
| Fingerprint assembly DAG | `infra/airflow/dags/orchid_fingerprint_assembly.py`, `evaluator/fingerprint_assembler.py` | task results in Airflow | assemble, persist, deliver |
| Telemetry producer | `telemetry/producer.py` | librdkafka's queue | `emit` with three attempts, `flush` |
| Telemetry consumer | `telemetry/consumer.py`, `DLQProducer` | position, committed offset, dead-letter queue | `run`, `_dispatch`, `stop` |
| Agent WebSocket, sub-agents | `api/main.py`, `evaluator/agents/sub_agent.py` | one history per session and agent name | connect, message, hang up |
| Rate limiter | `api/rate_limiter.py` | timestamps per tenant | `check_rate_limit` |
| Webhooks | `api/webhooks.py` | `webhooks` table | register; read the tenant's hooks once, post to each with three attempts |
| Chaos engine | `orchestrator/chaos_engine.py`, its DAG | none (a run of the DAG has a start time and a container) | wait, emit CHAOS_INJECTED, inject the fault |
| Scenario engine | `orchestrator/scenario_engine.py`, provision and teardown DAGs | log archive on disk (a client of the API) | load a config, provision, teardown |
| Scoring, interaction graph, style classifier, embeddings | `evaluator/scoring.py`, `fingerprint_assembler.py`, `style_classifier.py`, `embeddings.py` | none | pure functions of the event sequence |
| Embedding ETL, Qdrant, Neo4j, shadow agent | `evaluator/embedding_etl.py`, `qdrant_store.py`, `neo4j_store.py`, `shadow_agent.py`, `orchid_embedding_etl.py` | points and graph in external stores | batch upserts, scroll, MERGE, one model call |
| Auth, catalogue, demo data, dashboard, scripts, exercise workspace | `api/auth.py`, `api/scenarios.py`, `api/demo.py`, `services/dashboard`, `scripts`, `services/sandbox` | none of interest | |

How they interact. The HTTP handlers, the WebSocket handlers and the watchdogs
are coroutines of **one event loop** and share `services/api/state.py`: the
registry, `timeout_tasks`, `agent_sessions` and the producer. What lies between
two awaits is atomic; every await (producer thread, database, model call)
lets all others in. A restart loses everything in `state` and the cache, and
keeps the tables and Kafka. The DAGs are processes of their own, which meet the
API in the database, over HTTP and through Kafka.

What is hard:

* **Races of coroutines**: DELETE against the watchdog and against a
  `create_session` that has not returned; a GET that fills the cache with what
  it read before a purge; two connections writing one agent history.
* **Order of effects**: upserts whose parameters were read before the await;
  the purge going store by store; offsets committed past a failed message.
* **Partial failure**: an emit that raises after the record was activated, an
  upsert whose failure is swallowed, a statement of the purge that fails, a
  model call that fails after the user's message was appended, a batch that
  cannot be embedded, an upsert that was stored but not answered.
* **Time-outs**: a POST or DELETE of the scenario engine, or a webhook, that is
  worked on after its client has given up.
* **Overlap**: assembly and ETL runs of one session, started by hand with
  exports of different length, that write the same points and the same graph.
* **Crash and restart**: at every one of those points.
* **Liveness**: sessions must end without their DELETE, messages must be
  answered or settled, every hook must be tried, whatever failed before.
* **Edges**: the end of a sliding window; several requests at one clock value;
  scores of sessions without an answer, a latency or a duration; ties in a vote.

What makes each component correct:

| Part | Properties |
|---|---|
| Sessions | one truthful SCENARIO_ENDED; COMPLETED is final; running sessions are guarded by a watchdog and end; the row does not run ahead of the record |
| Fingerprints | a purge takes all it lists, and lists all there is at the time; tables shrink at its commit only; the cache answers for the table; what is delivered can be retrieved |
| Consumer | nothing below the committed offset was stepped over untried; offsets never move back; every message is settled |
| Sub-agents | the shared history stays a sound conversation; clients, history and telemetry agree; every message has an outcome |
| Producer | queued once or refused for good, the caller hears which; awaited events keep their order in their partition; every emit settles |
| Rate limiter | no burst in any window; no unfair 429 |
| Chaos engine | no fault before its time; the marker event precedes its fault and is not later |
| Scenario engine | a success is true; only the run that closed a session archives it; nothing it opened runs for ever, in spite of lost answers |
| Scoring, classifier | a score is in [0, 1], depends on what happened, not on the order of arrival, and moves the right way; the style is that of the neighbours |
| ETL, assembly, graph | a clean run was based on all it was given; what it reports is stored; a later run sees no less; the graph has the run's counts |
| Webhooks | each hook is posted to at most three times per delivery, is tried until it answers, independently of the others, and then left alone |

## 2. Modules

A definition whose comment begins with "Variant" is a deliberately wrong form
of the definition that follows it, with the bug a programmer might have made
there. No `Next` uses one; they document what each property excludes.

**`SessionManager`** – the states, `_VALID_TRANSITIONS` and `transition()` as
pure definitions.

**`SessionApi`** (extends `SessionManager`) – `create_session`, `end_session`
and `_run_timeout` with their awaits. Per session it has the registry's record,
`ended_at`, the progress of each of the three coroutines, what the upserts
captured, the row and the notices that were queued. `CreateSession`,
`CreateEmit`, `CreatePersist`, `CreateUpsert`, `CreateReturn` are the segments
of POST; `EndSession`, `EndEmit`, `EndPersist`, `EndUpsert` those of DELETE;
`TimeoutFires`, `TimeoutEmit` those of the watchdog; `Restart` is shutdown or
crash followed by a start that may or may not find Kafka. An emit succeeds or
raises; an upsert works or fails silently, as in `_persist`. Requests that are
answered 404 or 409 change nothing and are no steps. The code never moves a
session to CHAOS or RESOLVING, so those states only occur in the table.

**`SessionPromise`** – the abstract specification of a session: opened once,
closed once, announced at most once and only after it was closed; a restart
loses it for good. `SessionApi!ImplementsPromise` is the refinement: the phase
is read off the registry's record and the notices are the two counters' sum.

**`FingerprintStore`** – one candidate's data in the tables, the registry and the
cache. A GET is `GetStart`, `GetLookup` (only when the tenant came from the
table), `GetQuery`, `GetFill`; the DAG is `Assemble`, `ResolveTenant`,
`SaveFingerprint`, `Deliver`; the candidate purge is `PurgeStart`, `PurgeList`,
one `PurgeSweep` per session, `PurgeRows`, `PurgeCommit`; the tenant purge
joins it at `PurgeRows`. Transactions are read-committed: deletions are visible
at commit, and an upsert of a row the open transaction has deleted waits.
`onList` and `stray` are history variables: the sessions whose fingerprints the
purge asks for (those the SELECT found; all, for the tenant purge), and what was
written after the purge's own DELETE or eviction of it. A fingerprint of a
session that is not on the list has no such DELETE, and is never `stray` because
of one. `delivered` is what the owner's webhooks were given.

**`TelemetryConsumer`** – one consumer of one partition: the log is immutable and
read through `position` (this consumer) and `committed` (the group). Messages
are valid, malformed (dead-lettered) or undecodable (bytes that are not text:
`json.loads` raises `UnicodeDecodeError`, which nothing catches). A commit covers
the message in hand and all before it, as Kafka's does. `Stop`,
`Crash` and `Restart` happen anywhere; a dead letter is queued and settled by
the producer's own thread.

**`TelemetryProducer`** – one process's producer, from the lifespan's start to the
end of the process. Per event it has what the coroutine heard (`caller`), how
far its thread is (`work`) and how often the queue was full (`tries`);
librdkafka is `queue`, `reports` and the numbers `place` and `offset` that give the
order of entry and of writing. `Emit` is the call, `Start`, `Produce`, `Wake`, `Poll` are
the thread's steps (`Enqueue`, `QueueFull` and `Refuse` the outcomes of one
`produce`), `Transmit` is the brokers, `Close`, `FlushServes`, `FlushEnds`, `Cancel`,
`Exit` the shutdown. What librdkafka does is modelled from its use: a failure is
not sent again (`"retries": 0`), a report holds its place until it is polled.

**`EventOutbox`** – the abstract producer, as the other modules use it: an event is
accepted once or refused for good, the answer says which, and a topic keeps the
order of acceptance. "Topic" is short for topic-partition in both modules:
`create_topics.py` makes three partitions of each topic and the key of an event is
its session, so that nothing is said of the order between sessions.
`TelemetryProducer!ImplementsOutbox` is the refinement.
`SessionApi` and `AgentChannel` take an emit as one step that queues or raises:
that is `Accept` and `Answer`.

**`RateLimiter`** – the deque of each tenant and a clock in ticks. A call has no
await and is one action: eviction, then `Reject` or `Admit`.

**`AgentChannel`** – `agent_websocket` and `SubAgent.send` for one session and one
agent, with the spellings of its name (`DELTA`, `delta`) as keys, as in
`agent_sessions`. `Connect`, `Attach`, `Receive`, `EmitPrompt`, `Reply` or
`CallFails`, `EmitResponse`, `Answer` are the handler's segments; `HangUp` is a
disconnect, which the handler only notices when it receives or sends.

**`Scoring`** – `chaos_resilience` as a function of the stored event sequence. A
score is the numerator over `ScoreUnit`, so that no rounding hides an order.

**`SessionScores`** (extends `Scoring`) – the rest of what is computed from events
alone: `EfficiencyRatio` with the lookup of the baseline file,
`TrustCalibration`, `CorrectionVelocity`, `DecompositionScore`, the fold
`InteractionGraph`, the filters `Embeddable` and `ShadowTranscript`, and
`Classify`, the vote of the k nearest profiles. A score is a fraction; severities
are tenths; the median is doubled. Profiles are given by their similarity. What
the code sorts is defined by counting, so that it can be reasoned about: the
n-th latency is the one with few enough below and enough up to it, the n-th
profile the one with n - 1 nearer (of equally near ones, `sorted` keeps the first).

**`Scorecard`** – the inputs of these functions, growing one by one in every
order: `Record` an event, `Judge` a prompt, `Compare` with one more profile.
The actions are the arrival of data; the code is in `SessionScores`.

**`Evaluation`** (extends `SessionScores`) – overlapping runs of the assembly DAG
and the ETL DAG on one session. A run is known by the length of its export.
`EmbedFails`, `Embed`, `Upsert`, `UpsertFails`, `EtlEnds` are
`EmbeddingETL.process_session`; `ClassifySession`, `ShadowEmpty`,
`ShadowAnswers`, `Report` are the rest of `assemble_fingerprint`; `PersistGraph` is
the task `persist_to_neo4j`. A task that raises or is killed is a run that takes
no further step, as no task is retried. `points` is Qdrant: point ids are
derived from event ids, so that an event has one point whoever stores it. The
transactions of two `PersistGraph` are taken one after the other. The repository
declares no uniqueness constraint in Neo4j, without which MERGE does not promise
that for nodes two transactions create at the same time.

**`WebhookDelivery`** – `deliver_fingerprint` for several deliveries and hooks. `ListHooks`
reads the hooks once, `TurnTo` takes the next, `Acknowledged`, `Rejected` and
`AnsweredLate` are the three ends of one attempt (the last: the hook has the
fingerprint, the client does not know), `Kill` is Airflow's. `copies` and `late`
are what the hook knows.

**`ScenarioEngine`** (extends `SessionPromise`) – `provision` and `teardown` as HTTP
clients of the API, each DAG run with what it knows (`client`) and what has
become of its request (`request`): they part when the client gives up after 30 s.
The API's side of a request is `Open`, `Close` and `Lose` of `SessionPromise`, so
that what is checked here holds over `SessionApi`, which implements it.

**`ChaosInjection`** (extends `Scoring`) – one session's `orchid_chaos_inject` runs.
`TriggerDag`, `Wake`, `EmitChaosEvent`, `Dispatch` are the segments of
`ChaosEngine.execute`; meanwhile the candidate acts (`Act`) and queued events
`Arrive` in any order. A lost event is one that never arrives, a killed task a
run that takes no further step, so neither needs an action. What the executors
do inside the container is abstracted to whether the fault lands.

**`MCStoreAndChaos`, `MCApiEdge`, `MCAssembly`, `MCTelemetryProducer`,
`MCScorecard`** – the symmetry of session ids, DAG runs and event ids; the events,
topics, marks and profiles of the small instances. The first three put two
components that share no state into one run: the first state says which of them
moves (`part`), and the other one stays as it began. The behaviours are those of
the one and those of the other, so that the state spaces add up and a property of
one component is checked on exactly the behaviours of that component.

**`SessionApiProofs`, `TelemetryConsumerProofs`, `TelemetryProducerProofs`** prove
about the module they are named after, **`ApiEdgeProofs`** about `RateLimiter` and
`AgentChannel`, **`OrchestratorProofs`** about `ScenarioEngine` and
`ChaosInjection`, **`FingerprintOutputProofs`** about `FingerprintStore` and
`WebhookDelivery`, **`EvaluatorProofs`** about `Evaluation` and `Scorecard`, with the
lemmas of **`SessionScoresProofs`** about what `SessionScores` computes: section 5.

The modules are composed through what they share. `SessionApi` owns the life of
a session and implements `SessionPromise`, on which `ScenarioEngine` is built;
`FingerprintStore` and `AgentChannel` contain the part of it they depend on
(live, ended, forgotten; rows written by upserts that may fail) as an
environment that may do more than `SessionApi` does, never less.
`TelemetryProducer` implements `EventOutbox`, the emit of the other modules. The
assembly DAG is split by what its tasks touch: `Evaluation` (scores, vectors,
graph), `FingerprintStore` (table, tenant) and `WebhookDelivery` (hooks).
`Scoring` is used by `ChaosInjection` and, through `SessionScores`, by
`Scorecard` and `Evaluation`.

## 3. Runs

| Run | Module, configuration | Bounds | States | Properties |
|---|---|---|---|---|
| `session` | `SessionApi`, `SessionApi.cfg` | 2 sessions, 1 restart | 48 454 | `EndNoticeIsTrue`, `RunningIsGuarded`, `RowFollowsRecord`, `AnsweredSessionsEnd`, `ImplementsPromise` |
| `store_chaos` | `MCStoreAndChaos`, `StoreAndChaos.cfg` | store: 2 sessions, 1 reader, 2 upserts each, 1 assembly run each, 1 restart, both purges | 909 452 | `StoreTypeOK`, `ListedIsPurged`, `GivenOutIsStored`, `TablesShrinkOnlyAtCommit` |
| | | chaos: 2 DAG runs, trigger 1, median recovery 2, clock 0..4, 2 actions, with and without producer | 2 064 942 | `NoFaultBeforeTrigger`, `ScoreIgnoresArrivalOrder`, `MarkerPrecedesFault`, `ActingNeverLowersScore` |
| `purge_leaves_orphan` | `FingerprintStore`, `PurgeOrphan.cfg` | 1 session, 1 upsert, 1 assembly run | | `NoFingerprintIsOrphaned`, violated: section 4 |
| `consumer` | `TelemetryConsumer`, `TelemetryConsumer.cfg` | 3 messages of 3 kinds, 2 restarts | 36 563 | `CommittedWasAttempted`, `OffsetNeverRegresses`, `EveryMessageSettles` |
| `raised_is_committed` | `TelemetryConsumer`, `TelemetryConsumerRaised.cfg` | 2 events, 1 restart | | `RaisedAwaitsReprocessing`, violated: section 4 |
| `undecodable_ends_run` | `TelemetryConsumer`, `TelemetryConsumerUndecodable.cfg` | 2 messages, no restart | | `OnlyStopEndsRun`, violated: section 4 |
| `producer` | `MCTelemetryProducer`, `TelemetryProducer.cfg` | 3 events on 2 topics, queue of 2, 2 threads | 455 870 | `AwaitedOrderIsKept`, `EmitSettles`, `ImplementsOutbox` |
| `edge` | `MCApiEdge`, `ApiEdge.cfg` | limiter: 2 tenants, limit 2, window 2, clock 0..5 | 434 823 | `NoBurst`, `RejectionIsFair` |
| | | channel: 2 connections, 2 spellings, 2 messages, 1 restart | 298 048 | `SharedHistoryIsSound`, `AnsweredIsRemembered`, `MessagesSettleOnce` |
| `chaos_without_marker` | `ChaosInjection`, `ChaosInjectionUnmarked.cfg` | 1 run, no producer | | `FaultIsMarked`, violated: section 4 |
| `scores` | `MCScorecard`, `Scorecard.cfg` | up to 4 inputs: 18 different events at times 0..3, 3 marks, 4 profiles of 3 clusters, k = 3 | 293 580 | `CardTypeOK`, `ArrivalOrderIsIrrelevant`, `GraphAccountsForEvents`, `StyleFollowsNeighbours`, `BetterWorkScoresNoLess` |
| `assembly` | `MCAssembly`, `Assembly.cfg` | evaluation: 2 runs, 5 events of which 4 are embedded, batches of 2, scroll limit 3 | 121 012 | `CleanEtlIsComplete`, `StyleHasASource`, `GraphIsOfItsRun`, `RerunsSeeNoLess` |
| | | delivery: 2 deliveries, 2 hooks, 2 attempts | 94 132 | `CopiesAreExplained`, `EveryHookSettlesOnce` |
| `scenario` | `ScenarioEngine`, `ScenarioEngine.cfg` | 2 sessions, 2 provision runs, 2 teardown runs, any number of restarts | 207 678 | `SuccessIsTrue`, `ArchivedByItsCloser`, `RunsAndSessionsEnd` |

A run with a second line checks two components that share no state, each with its
own bounds (`MCStoreAndChaos` in section 2); the number of states is that of the
part. Runs with a liveness property use no symmetry.

Some properties are conjunctions of named parts, so that one run states one
idea; the parts are in the module under their own names. `EndNoticeIsTrue`: SCENARIO_ENDED
is queued at most once (`EndAnnouncedOnce`), only when the session is over
(`AnnouncedOnlyWhenOver`), never as a timeout after a DELETE
(`DeleteSilencesWatchdog`). `RowFollowsRecord`: a COMPLETED row was ended by a
DELETE, and turns back only by `create_session`'s own late upsert.
`SharedHistoryIsSound`: `RepliesFollowPrompts` and `HistoryBalances`.
`MessagesSettleOnce`: `OneOutcome` and `MessagesSettle`. `StyleFollowsNeighbours`:
the style is a plurality of the neighbours, ties going to the nearest, and
becoming more like a profile of one's own style never changes it.
`BetterWorkScoresNoLess`: taking longer is not more efficient, a correction
never lowers trust and a further answer never raises it, fast corrections never
lower the velocity. `CleanEtlIsComplete`: what the ETL counts is stored, and
without errors is all of the export; and the classifier then saw all of it.
`EveryHookSettlesOnce` and `RunsAndSessionsEnd` join a safety and a liveness
part, or two liveness parts. `CommittedWasAttempted` says two things of the
committed offset: all below it was given to the handler or the dead-letter
producer, and the message it was set by was done with. `ListedIsPurged` says that the
purge lists all there is when it lists, and that of what it listed nothing is left
but what was written after its own DELETE.

A type invariant is an invariant of a run where it says more than types: in
`scores`, that every score, `chaos_resilience` included, is a fraction between 0 and
1 whatever is missing from the session; in `store_chaos`, that only rows that are
there are doomed and what is filed is filed under a tenant. Theorems prove these
and the others' as well.

Why the bounds are enough. Sessions do not interact except through a restart,
which one restart and two sessions exercise (the proof then covers any number).
The purge needs two sessions, so that one is swept while the other is not, and
two upserts, so that a row can be written before and behind it. Three messages
let a good one follow a failed one and a replay cross both; two restarts let a
replay be interrupted. A clock of 0..5 with window 2 passes the edge twice.
Two connections and two messages give every order of two `send`s on one
history; two connections with three messages, one spelling and no restart were
checked too (1 125 052 states). In the chaos run the clock reaches past the
trigger and the median recovery time, so that actions come before, at and after
both limits; two markers and two actions make every order of arrival of up to
four events, and two DAG runs let one sleep while the other strikes. A queue of
two and two threads make the third emit wait for a thread, meet a full queue
and give up, with the others' events queued, unserved or lost. Four inputs are
what the score properties need: a start, an end and two others, or two pairs of
answer and correction (the median of two), a marker with what came before and
after it, and all four profiles, one more than
vote. Four embeddable events with batches of two make a run need
two batches, and a batch fail while the other is stored; a scroll of three cuts off
a vector only when all four are there, so that the exception `CleanEtlIsComplete`
and `RerunsSeeNoLess` make for a scroll that was cut off decides in no other state;
exports of 1, 3 and 5 events make overlapping runs differ. Two
attempts let an attempt fail with and without another left; the proof covers
the code's three. Two runs of each kind let one engine run be worked on behind
the back of another.

Bounds are `MaxRestarts`, `MaxMessages`, `MaxTime`, `MaxWrites`, `MaxRuns`,
`MaxActions`, `MaxInputs`; each stands in the guard of the action it limits. Deadlock is not
checked: each system may really stop (all sessions over and clients silent, a consumer
stopped, a candidate purged, a clock at its bound, all DAG runs over).

### Fairness

* `SessionApi`: weak fairness of `Handlers(s)` (the loop resumes a coroutine whose
  await is done; tenacity gives up after three attempts and the driver answers
  or raises) and of `TimeoutFires(s)` (a sleep ends). None for clients, restarts
  or for *which* outcome an emit has.
* `TelemetryConsumer`: weak fairness of the loop and of the dead-letter thread;
  none for `Produce`, `Stop`, `Crash` and `Restart`, so liveness says "settled,
  or the consumer is down".
* `TelemetryProducer`: weak fairness of a thread's steps; none of the brokers, the
  clients or the end of the process, so `EmitSettles` holds without Kafka.
* `AgentChannel`: weak fairness of a handler's segments, none for the web client.
  A model call returns or raises: that rests on the HTTP client's default
  timeout, as `llm_client.py` sets none.
* `WebhookDelivery`: weak fairness of a delivery's next step: a request ends, a
  back-off takes at most 30 s. The code's `timeout=10.0` is per read, so a request
  to a hook that sends a byte every few seconds is not ended by it: that hooks do
  not is an assumption. Which of the three
  ends an attempt has is left open, and a killed task is owed nothing.
* `ScenarioEngine`: weak fairness of a run's reaction (the client's 30 s), of the
  API's handlers and of watchdogs, which is what `SessionApi` assumes. None for
  requests: one that was sent need not arrive.
* `FingerprintStore`, `RateLimiter`, `ChaosInjection`, `Scorecard` and
  `Evaluation` have safety properties only.

## 4. Findings

`chaos_without_marker` checks what `chaos_engine.py:6` says: "the CHAOS_INJECTED Kafka
event is always emitted BEFORE the fault". The DAG builds `ChaosEngine()` without
a producer (`orchid_chaos_inject.py:69`), and the engine then emits nothing and
injects the fault all the same. For such a session `chaos_resilience` is the
neutral 0.5, whatever the candidate did.

`purge_leaves_orphan` checks what `delete_candidate` says: "remove candidate and all
associated data (sessions, fingerprints). Cascades to all stores."
(`candidates.py:61-63`; `docs/onboarding/README.md:192`: "All sessions and
fingerprints for that candidate are removed."). The handler reads the session ids
once (line 77), deletes the fingerprints of these ids one by one, and then the
sessions by `candidate_id` (line 92). A session whose row is first written in
between (its POST's upsert failed and its DELETE's comes now, or it was opened only
now) loses its row and keeps the fingerprint its assembly run saved, with no DELETE
that would ever ask for it. What does hold is `ListedIsPurged`, with its theorem. The
tenant purge deletes by tenant and has no such gap.

`raised_is_committed` checks what `_dispatch` says where `handle_event` raised: "Do NOT
commit — allow re-processing on restart" (`consumer.py:116`; line 30: "Manual offset
commit after successful handling"). The next message's commit moves the group's
offset past the failed one, which no consumer then sees again. What does hold is
`CommittedWasAttempted`: it was tried, and the commit was another's.

`undecodable_ends_run` checks what `run()` says: "Returns only after stop() is called."
(`consumer.py:61`). Bytes that are not text make `json.loads` raise
`UnicodeDecodeError`, which neither `except` of `_deserialize` names: run() ends
without a stop, without a dead letter ("DLQ routing for JSON parse errors", line 31;
"Malformed bytes (not JSON) sent to a topic end up in orchid.dlq.",
`test_kafka_producer_consumer.py:142`) and without a commit, so that every consumer
of the group ends there again: `UndecodableIsTheEnd` proves that none gets past it.

Seen while modelling, without a run of their own. Each is behaviour the models
have; none is excluded to make a property hold.

Sessions
* `sessions.py:124` calls the SCENARIO_STARTED emit "best-effort", but it is
  awaited without a `try`: if it raises, POST answers 500 and leaves an ACTIVE
  session without a watchdog. `AnsweredSessionsEnd` and
  `OpenedSessionsEnd` therefore speak of sessions whose POST did not fail, while
  the onboarding guide's "auto-terminates after 60 minutes" has no exception.
* The watchdog announces the end and does not write the row (`sessions.py:48`): the
  table shows the session ACTIVE for ever. `RowFollowsRecord` allows a row that is
  behind.
* The watchdog sleeps `SANDBOX_MAX_DURATION_SEC`; a scenario's own
  `max_duration_sec` reaches no timer. `agent_sessions` is never emptied, and
  `timeout_tasks` keeps the task of a session that ended by its watchdog.
* After a failed model call the user's message stays in the history, so that the
  next call sends two user messages in a row (`HistoryBalances` says exactly
  when); `DELTA` and `delta` get sub-agents with separate histories.

Fingerprints
* The purge does not touch the registry: a session still open is upserted again
  when it ends (`ListedIsPurged` counts it as written after the purge's DELETE).
* The DAG files a fingerprint under tenant `default` when the session has no row
  (the upsert failed), and the conflict clause of `save_fingerprint` keeps that
  tenant on the next run. The owner's webhook fires, the owner's GET answers 404,
  and the candidate purge, which deletes by tenant, leaves the fingerprint behind.
* A GET that read a fingerprint before a purge and fills the cache after it keeps
  it served for up to the entry's hour (the exception in `GivenOutIsStored`).

Telemetry
* `_produce_with_retry` polls only after a `produce` that succeeded: a queue full of
  delivered events whose reports nobody served stays full until `close()`.

Chaos and scores
* A second run of the chaos DAG adds a second marker, and which of the two the
  score counts from depends on the order of arrival (`ScoreIgnoresArrivalOrder`
  speaks of sequences with one marker). The run sleeps for minutes and never
  looks at the session again; the marker's time is taken before the emit, so
  that actions during a slow emit count as responses.
* The docstring of `chaos_resilience` counts the first PROMPT_SENT and *a*
  recovery action; the code also counts CODE_EXECUTED as first response, and
  needs three actions for full thoroughness.
* An event delivered twice counts twice in trust and in the graph.
  The first measured correction replaces the neutral 0.5 and can lower
  `correction_velocity`; `FastCorrectionsPay` has the exact bar.

Evaluation and engine
* `get_session_vectors` says "Return all embedding vectors stored for a session" and
  returns the first 10 000; `CleanEtlIsComplete` and `RerunsSeeNoLess` except a scroll
  that was cut off.
* Only the run whose DELETE answered in time archives a session: if it gave up,
  or could not write, every later teardown is refused and there is no log.
* Two runs' deliveries to one hook are in no order, and the table's row and the
  graph may be of different runs. Relationships that a longer export left in the
  graph stay there with their old counts (`GraphIsOfItsRun`).
* A model that returns scores for prompts it was not shown is believed; an
  embedding answer that is too short loses events without an error (`zip`). The
  models assume the services answer for what they were asked.

## 5. Proofs

All hold for every value of the constants under the named assumptions, which say
only that bounds are natural numbers (`Limit`, `Window`, `BatchSize`,
`ScrollLimit`, `MaxAttempts` positive), that an export is a prefix of what was
recorded, that the events of an alphabet have the fields of the code's record
with times and latencies in the natural numbers, that similarities are integers
and each compared profile has a cluster, and that the `No...` values are not
members of the sets they stand outside of. Each component's type invariant is
proved too, as a theorem of its own.

Every safety invariant and every action property of every passing run is proved,
and so are both refinements. Where a definition is a fold, a sum or a median, its value
for every input is needed. An induction theorem with an operator for a parameter
is not at hand; the proofs take the set of numbers up to which the claim holds
and refute its least counterexample (`CountUp` in `SessionScoresProofs`).

**Sessions** (`SessionApiProofs`). `TypeCorrect`; `InvariantHolds`, the inductive
invariant `SessionInv`; from it `SessionSafety` (`EndNoticeIsTrue` and the rest),
`RunningHasWatchdog`, `RowTellsTheStory`, `CompletedStays` and
`EndpointsImplementPromise`. `RowTellsTheStory` needs one fact more, `UpsertsAreCurrent`:
what an upsert carries is what the record was when the upsert was called, so
that only `create_session`'s can be older than the row. The
properties are not inductive: that a second notice cannot be queued depends on
who is *about to* queue one. `SessionInv` therefore says of every session that
while it runs nobody has ended or announced it (`RunningIsUnannounced`), that a
path about to announce has completed the record itself and is the only one
(`OneAnnouncer`), that a record completed before its watchdog was born was
completed by a DELETE (`EarlyEndIsDelete`), and that handlers in flight imply a
record (`HandlerHasRecord`). The invariant is per session: `OthersUntouched`
shows that a step at one session leaves the others alone, `OwnStep` has one
case per action. The refinement then shows that each action opens, closes,
announces or stutters at its session.

**Consumer** (`TelemetryConsumerProofs`). `AtLeastOnce` and `OffsetMonotone`, from
`ConsumerInv`: offsets are in order, the message in hand is uncommitted,
everything *taken* (not only committed) was attempted except the message in hand
(`TakenIsAttempted`), and a commit is under way only for a message that was done
with (`CommitsWhatIsDone`). The third is the strengthening: a commit covers all
that was taken. Outcomes only grow (`OutcomesStay`), so that what was attempted
stays so. `UndecodableIsTheEnd` rests on `NobodyPassesUndecodable`: no consumer has a
position behind an undecodable message, whatever is restarted.

**Producer** (`TelemetryProducerProofs`). `AwaitedOrder` and `ProducerIsOutbox`, from
`ProducerInv`: what is in the queue was not written and is behind everything its
topic has (`QueueIsAhead`), topics keep the queue's order (`TopicsKeepOrder`),
work that may still produce has no place yet and no coroutine knows more than
its thread has done (`ProduceOnce`), and an emit that had returned has a place
ahead of those begun later (`BeforeIsAhead`). The refinement maps `Enqueue` to
acceptance, a thread's end to the answer, a successful `Transmit` to a write.

**Rate limiter** (`ApiEdgeProofs`). `LimiterIsSafe` and `LimiterIsFair`, from
`LimiterInv`: the deque is exactly the tail of all admissions, what was cut off
is outside the window for good (the clock only advances), timestamps are
sorted. TLC checks limit 2 and window 2; the code's 100 and 60 s are covered
by the theorem.

**Agent channel** (`ApiEdgeProofs`). `SharedConversation`, `AnswersAreRemembered`,
`OutcomesExclude`, for any number of connections, spellings and messages, from
`ChannelInv`: a message is in one connection's hand at most (`HandsApart`); how
far its handler is tells which entries the history has of it (`HandAt`); a
history is a conversation in which every open question is in the hand of a
handler waiting for the model, or failed (`HistoryAt`); until a restart an
answered message is in some history (`MemoryInv`). `HandsApart` is what makes two
connections on one history harmless: what another's handler appends is never
about the message in hand.

**Scenario engine** (`OrchestratorProofs`). `ReportsAreTrue` and `OneArchivist`, from
`EngineInv`: the request's side is tied to the session (a request worked on has
opened, or closed, its target; sessions of two provision runs differ), and an
archive exists only after its writer succeeded. The second is needed because
a run that gave up looks, to the API, like one that did not.

**Chaos** (`OrchestratorProofs`). `FaultWaitsForTrigger` and `MarkerComesFirst`, from
`ChaosInv`: a sleeping run wakes at the trigger time or later, a run that emits
or dispatches is past it and has taken its marker's time, and a fault lands
only in the step that ends the run. The last part is what the action property
needs: a run that has yet to emit has no fault. `ScoreIsOfEvents` holds for
telemetry of any length: a permutation of the sequence is a bijection of the
positions of each kind of event, so that the sets the score is computed from
have as many members and the same times, and the marker is the same as there is
one. `ActingPays`: one event more adds to these sets, the earliest response gets
no later and the actions no fewer, and the score is monotone in both.

**Webhooks** (`FingerprintOutputProofs`). `EveryCopyExplained`, `SettledStaysSettled`,
from `DeliveryInv`: per delivery and hook, the hook of the current turn is listed, has
no outcome and, while it goes on, an attempt left; hooks still `left` have
neither attempt nor outcome. Without the last part a hook could be turned to
twice, and would be posted to more than `MaxAttempts` times.

**Fingerprint storage** (`FingerprintOutputProofs`). `PurgeTakesWhatItListed`,
`GivenOutStays` and `PurgeIsAtomic`, for any number of sessions and readers, from
`StoreInv`. `ListedIsPurged` speaks of the end of a purge; `StageInv` says
what each stage has passed: for a listed session that was swept, what is still
there is doomed by the open transaction or was written after the purge's DELETE
(`stray`). `DoomedInv` says what the transaction has deleted so far, since other
transactions do not see it. `StoredInv` holds until a purge: a reader that found
something and a cache entry have a fingerprint of the owner, and that has a
session row, so that the list misses none. `PurgedInv` keeps the result: after the
commit only `stray` writes appear of what was listed.

**Evaluation** (`EvaluatorProofs`). `CleanEtlKeepsItsWord`, `StyleIsFounded`,
`RerunsLoseNothing`, from `EvaluationInv`: what a run counted is stored, and
without an error is all it tried; past the ETL it tried all of its export; what it
classified on was stored. The points only grow, which is why other runs cannot
spoil it. Which events are embedded is left open in the proof. `GraphIsTrue`
follows from `GraphInv`: each edge has the counts some assembled run found, and
the last run's edges are all there. An edge the last run does not have must then
come from a longer export, because the edges of a longer list include those of a
shorter one (`LongerHasAll`).

**Scores** (`EvaluatorProofs`, `SessionScoresProofs`). The inductive invariant
`CardInv` has the types of the inputs (`Inputs`), that ids, start and end are not
repeated (`Distinct`), and what the graph of the events so far contains
(`GraphAt`), by adding one event at a time. With it the properties become facts
about functions of any list of events:

* `ScorecardTyped`, of all five scores: weights and durations are natural numbers,
  and a capped quotient of natural numbers is a fraction; `chaos_resilience` is the
  weighted mean of two of them (`ResilienceIsFraction`).
* `GraphIsAccurate`: `GraphAt`, by cases on the kind of event that is added.
* `OrderOfArrivalIsIrrelevant`: two neighbours exchanged is a bijection of the
  positions, under which counts (`AsMany`), sums (`SumMoves`), the median
  (`OrderedMoves`) and the edges stay. That the sum of a fold is the same in every
  order is a lemma (`SumExists`), as the fold takes what `CHOOSE` gives it.
* `BetterWorkPays`: the quotient falls with the duration (`FasterScoresNoLess`), the
  sum of severities grows with a correction (`HeavierWithCorrection`), and a value
  not above the median does not raise it (`MedianPays`): the n-th value is
  characterised by how many values are below and up to it, and of those there
  are as many or more after the addition.
* `StyleIsOfNeighbours`: being nearer is a total order (`NearerOrders`), so that
  ranks are a bijection (`RankedIs`), the first K are those with fewer than K ahead
  (`NeighboursAre`), and the winner's profile *leads*: no cluster has more votes,
  and one with as many has only voters further away (`ClassifyIs`). All that lead
  are of one cluster (`OneLeads`). When a profile comes closer nobody else
  overtakes anyone, its cluster loses no vote and no other wins one
  (`VotesOfCloser`), so that the leader, or the profile itself, leads still
  (`CloserLeads`).

Only model-checked: liveness under fairness (`AnsweredSessionsEnd`,
`EveryMessageSettles`, `EmitSettles`, `MessagesSettle`, the half of
`MessagesSettleOnce` that is not `OneOutcome`, `EveryHookIsServed`, the half of
`EveryHookSettlesOnce` that is not `SettledIsNotPosted`, `RunsEnd` and
`OpenedSessionsEnd`), which is out of the prover's reach, as is ENABLED. No
module uses a RECURSIVE operator.

## 6. Not modelled, and the plan

Done: `SessionManager`, `SessionApi`, `SessionPromise`; `FingerprintStore`;
`TelemetryConsumer`; `RateLimiter`; `AgentChannel`; `ChaosInjection` with `Scoring`;
`TelemetryProducer` with `EventOutbox`; `ScenarioEngine`; `WebhookDelivery`;
`SessionScores` with `Scorecard`; `Evaluation`; eight proof modules.

Left to do: `AgentChannel` and `SessionApi` take an emit as one step, which
`EventOutbox` justifies; a proof that the two, composed with it, keep their
invariants would make that argument formal. Liveness stays with TLC.

Modelled in part:

* *API start-up and shutdown*: the lifespan is the `Restart` of three modules.
  Schema creation is idempotent DDL.
* *Classifier and embeddings*: the vote and what is embedded in which batch, not
  the arithmetic of floats (centroid, cosine similarity, benchmark delta).
* *Fingerprint data model*: `is_complete` and the graph.
  `ChaosResilienceMarkers` and `record_chaos_*` are used by tests only.
* *Neo4j store*: `upsert_fingerprint`. `link_benchmark_profiles` is called by
  nothing outside the tests.

Left out for good: authentication (token signing and hashing, no state), the
dashboard (rendering), static catalogue, data classes and the schema registry's
client, demo and synthetic data and set-up scripts (rows and files with fixed
content, one commit), the exercise workspace and its telemetry client (keeps no
state, swallows every error), consumer-group rebalancing (the code runs one consumer
per group in its own process and leaves assignment to the broker).
