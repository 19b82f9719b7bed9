-------------------------- MODULE TelemetryProducer --------------------------
(***************************************************************************)
(* services/telemetry/producer.py: TelemetryProducer of one API process,   *)
(* from the lifespan's start to its end.  emit() runs in a thread of the   *)
(* default executor: produce() puts the event into librdkafka's bounded    *)
(* queue or raises BufferError, which is retried; poll(0) serves delivery  *)
(* reports.  A report that was not served keeps its room in the queue.     *)
(* "Topic" is a partition of a topic, where Kafka keeps the order: there   *)
(* are three to each, and the key is the session, so that the events of    *)
(* one session and one topic share a partition.                            *)
(***************************************************************************)
EXTENDS Naturals, FiniteSets

CONSTANTS
  Events,
  TopicOf,      \* [Events -> topic-partition]: TOPIC_MAP, and the key's hash
  QueueLimit,   \* queue.buffering.max.messages
  Workers       \* threads of the default executor

ASSUME ProducerAssumption == QueueLimit \in Nat \ {0} /\ Workers \in Nat \ {0}

Attempts == 3   \* stop_after_attempt(3)

VARIABLES
  phase,    \* of the process
  caller,   \* [Events -> state of the coroutine that awaits emit]
  work,     \* [Events -> progress of _sync_emit]
  tries,    \* [Events -> attempts of produce() that raised BufferError]
  queue,    \* events in librdkafka's queue
  reports,  \* events whose delivery report waits for a poll
  place,    \* [Events -> Nat], order of entry into the queue; 0 before
  offset,   \* [Events -> Nat], order of the brokers' writes; 0 before
  queued,   \* how many events entered the queue so far
  written,  \* how many the brokers wrote so far
  before    \* history: <<f, e>> if emit(f) had returned when emit(e) began

vars == <<phase, caller, work, tries, queue, reports, place, offset, queued,
          written, before>>

kafka == <<reports, place, offset, queued, written>>

TypeOK ==
  /\ phase \in {"serving", "flushing", "closed", "exited"}
  /\ caller \in [Events -> {"idle", "waiting", "ok", "raised", "cancelled"}]
  /\ work \in [Events -> {"none", "pending", "produce", "poll", "backoff", "done"}]
  /\ tries \in [Events -> 0..Attempts]
  /\ queue \subseteq Events /\ reports \subseteq Events
  /\ place \in [Events -> Nat] /\ offset \in [Events -> Nat]
  /\ queued \in Nat /\ written \in Nat
  /\ before \subseteq Events \X Events

Init ==
  /\ phase = "serving"
  /\ caller = [e \in Events |-> "idle"] /\ work = [e \in Events |-> "none"]
  /\ tries = [e \in Events |-> 0]
  /\ queue = {} /\ reports = {}
  /\ place = [e \in Events |-> 0] /\ offset = [e \in Events |-> 0]
  /\ queued = 0 /\ written = 0
  /\ before = {}

Alive == phase # "exited"

Busy == {e \in Events : work[e] \in {"produce", "poll", "backoff"}}

HasRoom == Cardinality(queue) + Cardinality(reports) < QueueLimit

-----------------------------------------------------------------------------
(* A coroutine of the API calls emit(): the work is handed to a thread.    *)
Emit(e) ==
  /\ phase = "serving" /\ caller[e] = "idle"
  /\ caller' = [caller EXCEPT ![e] = "waiting"]
  /\ work' = [work EXCEPT ![e] = "pending"]
  /\ before' = before \cup {<<f, e>> : f \in {g \in Events : caller[g] = "ok"}}
  /\ UNCHANGED <<phase, tries, queue, kafka>>

(* Variant: emit does not wait for its thread.                             *)
StartDetached(e) ==
  /\ Alive /\ work[e] = "pending" /\ Cardinality(Busy) < Workers
  /\ work' = [work EXCEPT ![e] = "produce"]
  /\ caller' = [caller EXCEPT ![e] = IF @ = "waiting" THEN "ok" ELSE @]
  /\ UNCHANGED <<phase, tries, queue, kafka, before>>

(* A thread takes the work; which of several waiting is left open.         *)
Start(e) ==
  /\ Alive /\ work[e] = "pending" /\ Cardinality(Busy) < Workers
  /\ work' = [work EXCEPT ![e] = "produce"]
  /\ UNCHANGED <<phase, caller, tries, queue, kafka, before>>

(* What the coroutine hears, if it still waits.                            *)
Finish(e, result) ==
  /\ work' = [work EXCEPT ![e] = "done"]
  /\ \/ caller[e] = "waiting" /\ caller' = [caller EXCEPT ![e] = result]
     \/ caller[e] # "waiting" /\ UNCHANGED caller

Enqueue(e) ==
  /\ HasRoom
  /\ queue' = queue \cup {e}
  /\ queued' = queued + 1
  /\ place' = [place EXCEPT ![e] = queued + 1]
  /\ work' = [work EXCEPT ![e] = "poll"]
  /\ UNCHANGED <<caller, tries, reports, offset, written>>

LastAttempt(e) == tries[e] + 1 = Attempts

(* Variant: the attempts are not counted.                                  *)
QueueFullUncounted(e) ==
  /\ ~HasRoom
  /\ work' = [work EXCEPT ![e] = "backoff"]
  /\ UNCHANGED <<caller, tries, queue, kafka>>

(* BufferError, before the poll is reached: reports are not served.        *)
QueueFull(e) ==
  /\ ~HasRoom
  /\ tries' = [tries EXCEPT ![e] = @ + 1]
  /\ \/ LastAttempt(e) /\ Finish(e, "raised")
     \/ ~LastAttempt(e) /\ work' = [work EXCEPT ![e] = "backoff"] /\ UNCHANGED caller
  /\ UNCHANGED <<queue, kafka>>

(* Any other exception of produce() is raised at once.                     *)
Refuse(e) == Finish(e, "raised") /\ UNCHANGED <<tries, queue, kafka>>

Produce(e) ==
  /\ Alive /\ work[e] = "produce"
  /\ Enqueue(e) \/ QueueFull(e) \/ Refuse(e)
  /\ UNCHANGED <<phase, before>>

Wake(e) ==
  /\ Alive /\ work[e] = "backoff"
  /\ work' = [work EXCEPT ![e] = "produce"]
  /\ UNCHANGED <<phase, caller, tries, queue, kafka, before>>

(* poll(0) serves every report there is, whoever's it is, and emit is over.*)
Poll(e) ==
  /\ Alive /\ work[e] = "poll"
  /\ reports' = {}
  /\ Finish(e, "ok")
  /\ UNCHANGED <<phase, tries, queue, place, offset, queued, written, before>>

-----------------------------------------------------------------------------
(* librdkafka and the brokers.  A partition is written in queue order, and *)
(* with "retries": 0 an event that fails is not sent again.  A failure is  *)
(* reported like a success, to a callback that only logs.                  *)
FirstOfTopic(e) ==
  \A f \in queue : TopicOf[f] = TopicOf[e] => place[e] <= place[f]

(* Variant: an event that fails goes to the end of the queue.              *)
TransmitRetries(e) ==
  /\ Alive /\ e \in queue /\ FirstOfTopic(e)
  /\ \/ /\ queue' = queue \ {e} /\ reports' = reports \cup {e}
        /\ offset' = [offset EXCEPT ![e] = written + 1] /\ written' = written + 1
        /\ UNCHANGED <<place, queued>>
     \/ /\ place' = [place EXCEPT ![e] = queued + 1] /\ queued' = queued + 1
        /\ UNCHANGED <<queue, reports, offset, written>>
  /\ UNCHANGED <<phase, caller, work, tries, before>>

Transmit(e) ==
  /\ Alive /\ e \in queue /\ FirstOfTopic(e)
  /\ queue' = queue \ {e}
  /\ reports' = reports \cup {e}
  /\ \/ offset' = [offset EXCEPT ![e] = written + 1] /\ written' = written + 1
     \/ UNCHANGED <<offset, written>>
  /\ UNCHANGED <<phase, caller, work, tries, place, queued, before>>

-----------------------------------------------------------------------------
(* The lifespan ends: close() flushes and blocks the loop, not the threads.*)
Close ==
  /\ phase = "serving"
  /\ phase' = "flushing"
  /\ UNCHANGED <<caller, work, tries, queue, kafka, before>>

FlushServes ==
  /\ phase = "flushing" /\ reports # {}
  /\ reports' = {}
  /\ UNCHANGED <<phase, caller, work, tries, queue, place, offset, queued, written, before>>

(* The flush ends when nothing is left or after its timeout.               *)
FlushEnds ==
  /\ phase = "flushing"
  /\ phase' = "closed"
  /\ UNCHANGED <<caller, work, tries, queue, kafka, before>>

(* The loop cancels its tasks: work no thread has taken is dropped, a      *)
(* thread that runs goes on without its coroutine.                         *)
Cancel(e) ==
  /\ phase = "closed" /\ caller[e] = "waiting"
  /\ caller' = [caller EXCEPT ![e] = "cancelled"]
  /\ \/ work[e] = "pending" /\ work' = [work EXCEPT ![e] = "none"]
     \/ work[e] # "pending" /\ UNCHANGED work
  /\ UNCHANGED <<phase, tries, queue, kafka, before>>

(* The process ends, when its threads have or in a crash, and takes the    *)
(* queue with it.                                                          *)
Exit ==
  /\ Alive
  /\ phase' = "exited" /\ queue' = {}
  /\ UNCHANGED <<caller, work, tries, kafka, before>>

Thread(e) == Start(e) \/ Produce(e) \/ Wake(e) \/ Poll(e)

Next ==
  \/ \E e \in Events : Emit(e) \/ Thread(e) \/ Transmit(e) \/ Cancel(e)
  \/ Close \/ FlushServes \/ FlushEnds \/ Exit

Spec == Init /\ [][Next]_vars

(* Threads run and sleeps end.  Nothing is assumed of brokers or clients.  *)
FairSpec == Spec /\ \A e \in Events : WF_vars(Thread(e))

-----------------------------------------------------------------------------
(* Awaiting emit keeps order: if emit(f) had returned before emit(e) was   *)
(* called, e is never on their topic ahead of f, whatever was retried,     *)
(* refused or lost in between.                                             *)
AwaitedOrderIsKept ==
  \A f, e \in Events :
    (<<f, e>> \in before /\ TopicOf[f] = TopicOf[e] /\ offset[f] # 0 /\ offset[e] # 0)
      => offset[f] < offset[e]

(* Every emit returns or raises, also when brokers are gone and the queue  *)
(* stays full and others hold the threads, unless the process ends first.  *)
EmitSettles ==
  \A e \in Events : caller[e] = "waiting" ~> (caller[e] # "waiting" \/ ~Alive)

Outbox == INSTANCE EventOutbox WITH
  answer <- [e \in Events |-> IF caller[e] \in {"ok", "raised"} THEN caller[e] ELSE "none"]

(* The producer is the outbox its callers take it for: no event is queued  *)
(* twice, none is sent whose emit raised, "ok" means queued, and a topic   *)
(* is written in queue order.                                              *)
ImplementsOutbox == Outbox!Spec
=============================================================================
