----------------------- MODULE TelemetryProducerProofs -----------------------
(***************************************************************************)
(* The producer keeps awaited events in order and implements EventOutbox,  *)
(* for any events and topics, any queue limit and any number of threads.   *)
(***************************************************************************)
EXTENDS TelemetryProducer, TLAPS

(* Order of entry and order of writing are below their counters, and no    *)
(* two events entered the queue at once.                                   *)
Numbered ==
  /\ \A e \in Events : place[e] <= queued /\ offset[e] <= written
  /\ \A e, f \in Events : e # f /\ place[e] = place[f] => place[e] = 0

(* What is in the queue is still to be written, after all that was.        *)
QueueIsAhead ==
  \A e \in queue :
    /\ place[e] # 0 /\ offset[e] = 0
    /\ \A f \in Events : TopicOf[f] = TopicOf[e] /\ offset[f] # 0 => place[f] < place[e]

(* What was written was queued, and the topics keep the queue's order.     *)
TopicsKeepOrder ==
  /\ \A e \in Events : offset[e] # 0 => place[e] # 0
  /\ \A e, f \in Events :
       (TopicOf[f] = TopicOf[e] /\ offset[f] # 0 /\ offset[e] # 0 /\ place[f] < place[e])
         => offset[f] < offset[e]

(* Work that may still produce has not done so, and the coroutine knows    *)
(* nothing that its thread has not done.                                   *)
ProduceOnce ==
  \A e \in Events :
    /\ work[e] \in {"none", "pending", "produce", "backoff"} => place[e] = 0
    /\ work[e] = "poll" => place[e] # 0
    /\ work[e] # "done" => tries[e] < Attempts
    /\ caller[e] = "idle" => work[e] = "none"
    /\ caller[e] = "ok" => work[e] = "done" /\ place[e] # 0
    /\ caller[e] = "raised" => work[e] = "done" /\ place[e] = 0

(* An emit that had returned put its event ahead of those begun later.     *)
BeforeIsAhead ==
  \A f, e \in Events :
    <<f, e>> \in before => place[f] # 0 /\ (place[e] # 0 => place[f] < place[e])

ProducerInv ==
  /\ TypeOK
  /\ Numbered
  /\ QueueIsAhead
  /\ TopicsKeepOrder
  /\ ProduceOnce
  /\ BeforeIsAhead

(* The initial state satisfies the invariant.                              *)
LEMMA InitEstablishesInv == Init => ProducerInv
BY DEF Init, ProducerInv, TypeOK, Numbered, QueueIsAhead, TopicsKeepOrder,
       ProduceOnce, BeforeIsAhead, Attempts

(* Steps that do not touch the queue: threads, callers and the process.    *)
LEMMA QuietStep ==
  ASSUME ProducerInv,
         UNCHANGED <<place, offset, queued, written>>, queue' \subseteq queue,
         TypeOK', ProduceOnce', BeforeIsAhead'
  PROVE  ProducerInv'
BY DEF ProducerInv, TypeOK, Numbered, QueueIsAhead, TopicsKeepOrder

(* A coroutine that starts waiting knows who had returned before it.       *)
LEMMA EmitKeepsInv ==
  ASSUME ProducerInv, NEW e \in Events, Emit(e)
  PROVE  ProducerInv'
<1>1. TypeOK'
  BY DEF ProducerInv, TypeOK, Emit, kafka
<1>2. ProduceOnce'
  BY DEF ProducerInv, TypeOK, ProduceOnce, Emit, kafka
<1>3. BeforeIsAhead'
  BY DEF ProducerInv, TypeOK, ProduceOnce, BeforeIsAhead, Emit, kafka
<1> QED
  BY <1>1, <1>2, <1>3, QuietStep DEF Emit, kafka

(* Threads that change nothing but their own progress.                     *)
LEMMA ThreadKeepsInv ==
  ASSUME ProducerInv, NEW e \in Events, Start(e) \/ Wake(e) \/ Poll(e)
  PROVE  ProducerInv'
<1>1. TypeOK'
  BY DEF ProducerInv, TypeOK, Start, Wake, Poll, Finish, kafka
<1>2. ProduceOnce'
  BY DEF ProducerInv, TypeOK, ProduceOnce, Start, Wake, Poll, Finish, kafka
<1>3. BeforeIsAhead'
  BY DEF ProducerInv, BeforeIsAhead, Start, Wake, Poll, kafka
<1> QED
  BY <1>1, <1>2, <1>3, QuietStep DEF Start, Wake, Poll, kafka

(* An attempt that fails leaves the queue as it was.                       *)
LEMMA FailedAttemptKeepsInv ==
  ASSUME ProducerInv, NEW e \in Events, Produce(e), QueueFull(e) \/ Refuse(e)
  PROVE  ProducerInv'
<1>0. tries[e] < Attempts /\ work[e] = "produce"
  BY DEF ProducerInv, ProduceOnce, Produce
<1>1. TypeOK'
  BY <1>0 DEF ProducerInv, TypeOK, Produce, QueueFull, Refuse, LastAttempt, Finish, kafka, Attempts
<1>2. ProduceOnce'
  BY <1>0 DEF ProducerInv, TypeOK, ProduceOnce, Produce, QueueFull, Refuse, LastAttempt,
              Finish, kafka, Attempts
<1>3. BeforeIsAhead'
  BY DEF ProducerInv, BeforeIsAhead, Produce, QueueFull, Refuse, kafka
<1> QED
  BY <1>1, <1>2, <1>3, QuietStep DEF Produce, QueueFull, Refuse, kafka

(* An event that enters the queue is behind all that entered before.       *)
LEMMA EnqueueKeepsInv ==
  ASSUME ProducerInv, NEW e \in Events, Produce(e), Enqueue(e)
  PROVE  ProducerInv'
<1>0. /\ place[e] = 0 /\ place \in [Events -> Nat] /\ queued \in Nat
      /\ place' = [place EXCEPT ![e] = queued + 1]
      /\ UNCHANGED <<offset, written, before>>
      /\ offset[e] = 0
  BY DEF ProducerInv, TypeOK, ProduceOnce, TopicsKeepOrder, Produce, Enqueue
<1>1. TypeOK'
  BY DEF ProducerInv, TypeOK, Produce, Enqueue
<1>2. Numbered'
  BY <1>0 DEF ProducerInv, TypeOK, Numbered, Enqueue
<1>3. QueueIsAhead'
  <2> SUFFICES ASSUME NEW g \in queue'
               PROVE  /\ place'[g] # 0 /\ offset'[g] = 0
                      /\ \A f \in Events : TopicOf[f] = TopicOf[g] /\ offset'[f] # 0
                                             => place'[f] < place'[g]
    BY DEF QueueIsAhead
  <2>1. CASE g = e
    BY <1>0, <2>1 DEF ProducerInv, TypeOK, Numbered
  <2>2. CASE g # e
    BY <1>0, <2>2 DEF ProducerInv, TypeOK, QueueIsAhead, Enqueue
  <2> QED
    BY <2>1, <2>2
<1>4. TopicsKeepOrder'
  BY <1>0 DEF ProducerInv, TypeOK, TopicsKeepOrder
<1>5. ProduceOnce'
  BY <1>0 DEF ProducerInv, TypeOK, ProduceOnce, Produce, Enqueue
<1>6. BeforeIsAhead'
  BY <1>0 DEF ProducerInv, TypeOK, Numbered, BeforeIsAhead
<1> QED
  BY <1>1, <1>2, <1>3, <1>4, <1>5, <1>6 DEF ProducerInv

(* The brokers write the first of a topic, or it is lost.                  *)
LEMMA TransmitKeepsInv ==
  ASSUME ProducerInv, NEW e \in Events, Transmit(e)
  PROVE  ProducerInv'
<1>1. TypeOK'
  BY DEF ProducerInv, TypeOK, Transmit
<1>2. ProduceOnce' /\ BeforeIsAhead'
  BY DEF ProducerInv, ProduceOnce, BeforeIsAhead, Transmit
<1>3. CASE UNCHANGED <<offset, written>>
  BY <1>1, <1>2, <1>3, QuietStep DEF Transmit
<1>4. CASE offset' = [offset EXCEPT ![e] = written + 1] /\ written' = written + 1
  <2>1. Numbered'
    BY <1>4 DEF ProducerInv, TypeOK, Numbered, Transmit
  <2>2. QueueIsAhead'
    <3> SUFFICES ASSUME NEW g \in queue, g # e
                 PROVE  /\ place[g] # 0 /\ offset[g] = 0
                        /\ \A f \in Events : TopicOf[f] = TopicOf[g] /\ offset'[f] # 0
                                               => place[f] < place[g]
      BY <1>4 DEF ProducerInv, TypeOK, QueueIsAhead, Transmit
    <3>1. TopicOf[e] = TopicOf[g] => place[e] < place[g]
      BY DEF ProducerInv, TypeOK, Numbered, QueueIsAhead, Transmit, FirstOfTopic
    <3> QED
      BY <1>4, <3>1 DEF ProducerInv, TypeOK, QueueIsAhead
  <2>3. TopicsKeepOrder'
    BY <1>4 DEF ProducerInv, TypeOK, Numbered, QueueIsAhead, TopicsKeepOrder, Transmit
  <2> QED
    BY <1>1, <1>2, <2>1, <2>2, <2>3 DEF ProducerInv
<1> QED
  BY <1>3, <1>4 DEF Transmit

(* A coroutine that is cancelled leaves its thread, if it has one, alone.  *)
LEMMA CancelKeepsInv ==
  ASSUME ProducerInv, NEW e \in Events, Cancel(e)
  PROVE  ProducerInv'
<1>1. TypeOK'
  BY DEF ProducerInv, TypeOK, Cancel, kafka
<1>2. ProduceOnce'
  BY DEF ProducerInv, TypeOK, ProduceOnce, Cancel, kafka
<1>3. BeforeIsAhead'
  BY DEF ProducerInv, BeforeIsAhead, Cancel, kafka
<1> QED
  BY <1>1, <1>2, <1>3, QuietStep DEF Cancel, kafka

(* The end of the process in its stages.                                   *)
LEMMA ShutdownKeepsInv ==
  ASSUME ProducerInv, Close \/ FlushServes \/ FlushEnds \/ Exit
  PROVE  ProducerInv'
<1>1. TypeOK'
  BY DEF ProducerInv, TypeOK, Close, FlushServes, FlushEnds, Exit, kafka
<1>2. ProduceOnce' /\ BeforeIsAhead'
  BY DEF ProducerInv, ProduceOnce, BeforeIsAhead, Close, FlushServes, FlushEnds, Exit, kafka
<1> QED
  BY <1>1, <1>2, QuietStep DEF Close, FlushServes, FlushEnds, Exit, kafka

(* Every step preserves the invariant.                                     *)
LEMMA StepKeepsInv == ProducerInv /\ [Next]_vars => ProducerInv'
<1> SUFFICES ASSUME ProducerInv, [Next]_vars
             PROVE  ProducerInv'
  OBVIOUS
<1>1. CASE UNCHANGED vars
  BY <1>1 DEF vars, ProducerInv, TypeOK, Numbered, QueueIsAhead, TopicsKeepOrder,
              ProduceOnce, BeforeIsAhead
<1>2. ASSUME NEW e \in Events, Emit(e) PROVE ProducerInv'
  BY <1>2, EmitKeepsInv
<1>3. ASSUME NEW e \in Events, Thread(e) PROVE ProducerInv'
  BY <1>3, ThreadKeepsInv, FailedAttemptKeepsInv, EnqueueKeepsInv DEF Thread, Produce
<1>4. ASSUME NEW e \in Events, Transmit(e) PROVE ProducerInv'
  BY <1>4, TransmitKeepsInv
<1>5. ASSUME NEW e \in Events, Cancel(e) PROVE ProducerInv'
  BY <1>5, CancelKeepsInv
<1>6. CASE Close \/ FlushServes \/ FlushEnds \/ Exit
  BY <1>6, ShutdownKeepsInv
<1> QED
  BY <1>1, <1>2, <1>3, <1>4, <1>5, <1>6 DEF Next

(* The invariant holds in every reachable state of the producer.           *)
THEOREM ProducerInvHolds == Spec => []ProducerInv
BY InitEstablishesInv, StepKeepsInv, PTL DEF Spec

(* An event whose emit was called after another one's had returned is      *)
(* never ahead of it on their topic.                                       *)
THEOREM AwaitedOrder == Spec => []AwaitedOrderIsKept
<1>1. ProducerInv => AwaitedOrderIsKept
  BY DEF ProducerInv, BeforeIsAhead, TopicsKeepOrder, AwaitedOrderIsKept
<1> QED
  BY <1>1, ProducerInvHolds, PTL

-----------------------------------------------------------------------------
(* What the coroutine heard, as the outbox sees it.                        *)
Heard == [e \in Events |-> IF caller[e] \in {"ok", "raised"} THEN caller[e] ELSE "none"]

(* Steps that change neither the answers nor the order are stutters.       *)
LEMMA Stutter ==
  ASSUME UNCHANGED <<place, offset>>,
         \A e \in Events : \/ caller'[e] = caller[e]
                           \/ {caller[e], caller'[e]} \cap {"ok", "raised"} = {}
  PROVE  UNCHANGED Outbox!outboxVars
<1>1. Heard' = Heard
  BY DEF Heard
<1> QED
  BY <1>1 DEF Outbox!outboxVars, Heard

(* A thread that ends answers its coroutine, or there is none any more.    *)
LEMMA FinishAnswers ==
  ASSUME ProducerInv, NEW e \in Events, NEW result \in {"ok", "raised"}, Finish(e, result),
         result = "raised" <=> place[e] = 0,
         UNCHANGED <<place, offset>>
  PROVE  Outbox!Answer(e) \/ UNCHANGED Outbox!outboxVars
<1>1. CASE caller[e] # "waiting"
  BY <1>1, Stutter DEF Finish
<1>2. CASE caller[e] = "waiting"
  <2>1. caller' = [caller EXCEPT ![e] = result]
    BY <1>2 DEF Finish
  <2>2. Heard' = [Heard EXCEPT ![e] = result] /\ Heard[e] = "none"
    BY <1>2, <2>1 DEF Heard, ProducerInv, TypeOK
  <2>3. result = IF place[e] = 0 THEN "raised" ELSE "ok"
    OBVIOUS
  <2>4. Heard' = [Heard EXCEPT ![e] = IF place[e] = 0 THEN "raised" ELSE "ok"]
    BY <2>2, <2>3
  <2> QED
    BY <2>2, <2>4 DEF Outbox!Answer, Heard
<1> QED
  BY <1>1, <1>2

(* Entering the queue is being accepted.                                   *)
LEMMA EnqueueAccepts ==
  ASSUME ProducerInv, NEW e \in Events, Produce(e), Enqueue(e)
  PROVE  Outbox!Accept(e)
<1>1. place[e] = 0 /\ Heard[e] = "none"
  BY DEF ProducerInv, ProduceOnce, Produce, Heard
<1>2. place' = [place EXCEPT ![e] = place'[e]] /\ \A f \in Events : place[f] < place'[e]
  BY DEF ProducerInv, TypeOK, Numbered, Enqueue
<1>3. UNCHANGED <<Heard, offset>>
  BY DEF Enqueue, Heard
<1> QED
  BY <1>1, <1>2, <1>3 DEF Outbox!Accept, Heard

(* What the brokers do is a write or nothing.                              *)
LEMMA TransmitWrites ==
  ASSUME ProducerInv, NEW e \in Events, Transmit(e)
  PROVE  Outbox!Write(e) \/ UNCHANGED Outbox!outboxVars
<1>1. CASE UNCHANGED offset
  BY <1>1, Stutter DEF Transmit
<1>2. CASE offset' = [offset EXCEPT ![e] = written + 1]
  <2>1. offset' = [offset EXCEPT ![e] = offset'[e]] /\ \A f \in Events : offset[f] < offset'[e]
    BY <1>2 DEF ProducerInv, TypeOK, Numbered
  <2>2. UNCHANGED <<Heard, place>>
    BY DEF Transmit, Heard
  <2> QED
    BY <2>1, <2>2 DEF Outbox!Write, Heard, ProducerInv, QueueIsAhead, Transmit
<1> QED
  BY <1>1, <1>2 DEF Transmit

(* Every step of the producer is one of the outbox, or a stutter.          *)
LEMMA StepIsOutboxStep == ProducerInv /\ [Next]_vars => [Outbox!Next]_Outbox!outboxVars
<1> SUFFICES ASSUME ProducerInv, [Next]_vars
             PROVE  Outbox!Next \/ UNCHANGED Outbox!outboxVars
  OBVIOUS
<1>1. CASE UNCHANGED vars
  BY <1>1, Stutter DEF vars
<1>2. ASSUME NEW e \in Events, Emit(e) \/ Start(e) \/ Wake(e) \/ Cancel(e)
      PROVE  UNCHANGED Outbox!outboxVars
  BY <1>2, Stutter DEF Emit, Start, Wake, Cancel, kafka, ProducerInv, TypeOK
<1>3. ASSUME NEW e \in Events, Poll(e)
      PROVE  Outbox!Next \/ UNCHANGED Outbox!outboxVars
  BY <1>3, FinishAnswers DEF Poll, ProducerInv, ProduceOnce, Outbox!Next
<1>4. ASSUME NEW e \in Events, Produce(e)
      PROVE  Outbox!Next \/ UNCHANGED Outbox!outboxVars
  <2>1. CASE Enqueue(e)
    BY <1>4, <2>1, EnqueueAccepts DEF Outbox!Next
  <2>2. CASE Finish(e, "raised") /\ UNCHANGED kafka
    BY <1>4, <2>2, FinishAnswers DEF Produce, kafka, ProducerInv, ProduceOnce, Outbox!Next
  <2>3. CASE UNCHANGED <<caller, kafka>>
    BY <2>3, Stutter DEF kafka
  <2> QED
    BY <1>4, <2>1, <2>2, <2>3 DEF Produce, QueueFull, Refuse
<1>5. ASSUME NEW e \in Events, Transmit(e)
      PROVE  Outbox!Next \/ UNCHANGED Outbox!outboxVars
  BY <1>5, TransmitWrites DEF Outbox!Next
<1>6. CASE Close \/ FlushServes \/ FlushEnds \/ Exit
  BY <1>6, Stutter DEF Close, FlushServes, FlushEnds, Exit, kafka
<1> QED
  BY <1>1, <1>2, <1>3, <1>4, <1>5, <1>6 DEF Next, Thread

(* Callers may take the producer for the outbox: accepted once, answered   *)
(* truthfully, written in order.                                           *)
THEOREM ProducerIsOutbox == Spec => ImplementsOutbox
<1>1. Init => Outbox!Init
  BY DEF Init, Outbox!Init
<1> QED
  BY <1>1, StepIsOutboxStep, ProducerInvHolds, PTL DEF Spec, ImplementsOutbox, Outbox!Spec

(* The producer's variables keep their types, for any number of events,    *)
(* threads and attempts.                                                   *)
THEOREM ProducerTyped == Spec => []TypeOK
<1>1. ProducerInv => TypeOK
  BY DEF ProducerInv
<1> QED
  BY <1>1, ProducerInvHolds, PTL
=============================================================================
