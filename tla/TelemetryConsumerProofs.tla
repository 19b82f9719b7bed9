---------------------- MODULE TelemetryConsumerProofs ----------------------
(***************************************************************************)
(* For every log, every number of restarts and every mix of messages, the  *)
(* consumer group never steps over a message that nobody tried.            *)
(***************************************************************************)
EXTENDS TelemetryConsumer, TLAPS

USE ConsumerAssumption DEF ConsumerAssumption

(* A log that only grows: old messages keep their place and their kind.    *)
LEMMA AppendKeeps ==
  ASSUME NEW kind \in Kinds, log \in Seq(Kinds), log' = Append(log, kind)
  PROVE  /\ log' \in Seq(Kinds)
         /\ Len(log') = Len(log) + 1 /\ Len(log) \in Nat
         /\ \A i \in 1..Len(log) : log'[i] = log[i]
OBVIOUS

(* Arithmetic on offsets, apart from the sequence they count.              *)
LEMMA OffsetArithmetic ==
  ASSUME NEW c \in Nat, NEW p \in Nat, NEW n \in Nat, p <= n
  PROVE  (p > c => p \in 1..n) /\ p <= n + 1
OBVIOUS

(* A message that is done with stays so, and one that was attempted too,   *)
(* as long as the log keeps it, the outcomes only grow and no dead letter  *)
(* disappears.                                                             *)
LEMMA OutcomesStay ==
  ASSUME NEW i, log'[i] = log[i],
         handled \subseteq handled', failed \subseteq failed',
         dlqQueue \cup deadLettered \cup dlqLost
           \subseteq dlqQueue' \cup deadLettered' \cup dlqLost'
  PROVE  /\ Done(i) => Done(i)'
         /\ Attempted(i) => Attempted(i)'
<1>1. Done(i) => Done(i)'
  BY Zenon DEF Done, Routed
<1> QED BY <1>1, Zenon DEF Attempted

(* The consumer's state is initially blank.                                *)
LEMMA InitEstablishes == Init => ConsumerInv
<1> SUFFICES ASSUME Init PROVE ConsumerInv
  OBVIOUS
<1>1. log \in Seq(Kinds) /\ Len(log) = 0
  BY DEF Init
<1>0. 0 \in 0..MaxRestarts
  OBVIOUS
<1>2. TypeOK
  <2>1. /\ position = 0 /\ committed = 0 /\ pc = "polling" /\ stopping = FALSE /\ restarts = 0
        /\ handled = {} /\ failed = {} /\ dlqQueue = {} /\ deadLettered = {} /\ dlqLost = {}
    BY DEF Init
  <2> QED BY <1>1, <1>0, <2>1 DEF TypeOK, Pc
<1>3. OffsetsInOrder /\ WorkIsUncommitted
  BY <1>1 DEF Init, OffsetsInOrder, WorkIsUncommitted
<1>4. TakenIsAttempted /\ CommitsWhatIsDone /\ CommittedWasAttempted
  BY DEF Init, TakenIsAttempted, CommitsWhatIsDone, CommittedWasAttempted
<1> QED BY <1>2, <1>3, <1>4 DEF ConsumerInv

(* Every step keeps the invariant.  The actions that move neither offset   *)
(* nor take a message rest on OutcomesStay alone.                         *)
LEMMA StepKeeps == ConsumerInv /\ [Next]_vars => ConsumerInv'
<1> SUFFICES ASSUME ConsumerInv, [Next]_vars
             PROVE  ConsumerInv'
  OBVIOUS
<1> USE DEF ConsumerInv
<1>t. Len(log) \in Nat /\ committed \in Nat /\ position \in Nat
  BY DEF TypeOK
<1>p. pc \in {"dispatching", "committing_event", "committing_malformed"}
        => position \in 1..Len(log)
  <2> SUFFICES ASSUME pc \in {"dispatching", "committing_event", "committing_malformed"}
               PROVE  position \in 1..Len(log)
    OBVIOUS
  <2>1. position > committed /\ position <= Len(log)
    BY DEF OffsetsInOrder, WorkIsUncommitted
  <2> QED BY <2>1, <1>t, OffsetArithmetic
<1>1. CASE UNCHANGED vars
  BY <1>1 DEF vars, TypeOK, OffsetsInOrder, WorkIsUncommitted, TakenIsAttempted,
              CommitsWhatIsDone, CommittedWasAttempted, Attempted, Done, Routed
<1>2. ASSUME NEW kind \in Kinds, Produce(kind)
      PROVE  ConsumerInv'
  <2>1. /\ log' \in Seq(Kinds) /\ Len(log') = Len(log) + 1
        /\ \A i \in 1..Len(log) : log'[i] = log[i]
    BY <1>2, AppendKeeps DEF Produce, TypeOK
  <2>2. UNCHANGED <<position, committed, pc, stopping, handled, failed, dlqQueue,
                    deadLettered, dlqLost, restarts>>
    BY <1>2 DEF Produce, offsets, outcomes, letters
  <2>a. 1..Len(log) \subseteq 1..Len(log')
    BY <2>1, <1>t
  <2>b. \A S : S \subseteq 1..Len(log) => S \subseteq 1..Len(log')
    BY <2>a
  <2>3. TypeOK'
    BY <2>b, <2>1, <2>2 DEF TypeOK
  <2>4. OffsetsInOrder' /\ WorkIsUncommitted'
    <3>1. position <= Len(log) + 1
      BY <1>t, OffsetArithmetic DEF OffsetsInOrder
    <3> QED BY <3>1, <2>1, <2>2 DEF OffsetsInOrder, WorkIsUncommitted
  <2>5. ASSUME NEW i \in 1..position
        PROVE  (Done(i) => Done(i)') /\ (Attempted(i) => Attempted(i)')
    <3>1. log'[i] = log[i]
      BY <2>1, <1>t DEF OffsetsInOrder
    <3> QED BY <3>1, <2>2, OutcomesStay
  <2>6. TakenIsAttempted'
    BY <2>2, <2>5 DEF TakenIsAttempted
  <2>7. CommittedWasAttempted'
    BY <2>2, <2>5, <1>t DEF CommittedWasAttempted, OffsetsInOrder
  <2>8. CommitsWhatIsDone'
    <3> SUFFICES ASSUME pc \in {"committing_event", "committing_malformed"}
                 PROVE  Done(position)'
      BY <2>2 DEF CommitsWhatIsDone
    <3>1. position \in 1..position
      BY <1>p, <1>t
    <3> QED BY <3>1, <2>2, <2>5 DEF CommitsWhatIsDone
  <2> QED BY <2>3, <2>4, <2>6, <2>7, <2>8
<1>3. ASSUME UNCHANGED <<log, committed>>, TypeOK', OffsetsInOrder', WorkIsUncommitted',
             handled \subseteq handled', failed \subseteq failed',
             dlqQueue \cup deadLettered \cup dlqLost
               \subseteq dlqQueue' \cup deadLettered' \cup dlqLost',
             TakenIsAttempted => TakenIsAttempted',
             \/ pc' = pc /\ position' = position
             \/ pc' \notin {"committing_event", "committing_malformed"}
             \/ Done(position)'
      PROVE  ConsumerInv'
  <2>1. \A i : (Done(i) => Done(i)') /\ (Attempted(i) => Attempted(i)')
    BY <1>3, OutcomesStay, Zenon
  <2>2. CommittedWasAttempted'
    BY <1>3, <2>1, <1>t DEF CommittedWasAttempted
  <2>3. CommitsWhatIsDone'
    BY <1>3, <2>1 DEF CommitsWhatIsDone
  <2> QED BY <1>3, <2>2, <2>3
<1>s. ASSUME UNCHANGED <<log, committed, position>>, 
             handled \subseteq handled', failed \subseteq failed',
             dlqQueue \cup deadLettered \cup dlqLost
               \subseteq dlqQueue' \cup deadLettered' \cup dlqLost',
             \/ pc' = pc
             \/ pc' \in {"closing", "stopped", "crashed"}
             \/ Attempted(position)'
      PROVE  TakenIsAttempted'
  <2>1. \A i : Attempted(i) => Attempted(i)'
    BY <1>s, OutcomesStay, Zenon
  <2>2. \A i \in 1..position : i < position => Attempted(i)'
    BY <2>1 DEF TakenIsAttempted
  <2>3. CASE pc' = pc
    BY <1>s, <2>1, <2>3 DEF TakenIsAttempted
  <2>4. CASE pc' \in {"closing", "stopped", "crashed"}
    BY <1>s, <2>2, <2>4 DEF TakenIsAttempted
  <2>5. CASE Attempted(position)'
    <3>1. \A i \in 1..position : i < position \/ i = position
      BY <1>t
    <3> QED BY <1>s, <2>2, <2>5, <3>1 DEF TakenIsAttempted
  <2> QED BY <1>s, <2>3, <2>4, <2>5
<1>4. CASE Stop
  BY <1>4, <1>3, <1>s DEF Stop, TypeOK, OffsetsInOrder, WorkIsUncommitted, offsets, outcomes,
                          letters
<1>5. CASE LeaveLoop
  BY <1>5, <1>3, <1>s DEF LeaveLoop, TypeOK, Pc, OffsetsInOrder, WorkIsUncommitted, offsets,
                          outcomes, letters
<1>6. CASE Poll
  <2>1. /\ UNCHANGED <<log, committed, stopping, handled, failed, dlqQueue, deadLettered,
                       dlqLost, restarts>>
        /\ position' = position + 1 /\ position < Len(log)
        /\ pc = "polling" /\ pc' = "dispatching"
    BY <1>6 DEF Poll, outcomes, letters
  <2>2. TypeOK' /\ OffsetsInOrder' /\ WorkIsUncommitted'
    BY <2>1, <1>t, <1>p DEF TypeOK, Pc, OffsetsInOrder, WorkIsUncommitted
  <2>3. TakenIsAttempted'
    BY <2>1, <1>t, OutcomesStay DEF TakenIsAttempted
  <2> QED BY <2>1, <2>2, <2>3, <1>3
<1>7. CASE HandleEvent
  <2>1. /\ UNCHANGED <<log, position, committed, stopping, failed, dlqQueue, deadLettered,
                       dlqLost, restarts>>
        /\ handled' = handled \cup {position} /\ log[position] = "event"
        /\ pc = "dispatching" /\ pc' = "committing_event"
    BY <1>7 DEF HandleEvent, Current, offsets, letters
  <2>2. TypeOK' /\ OffsetsInOrder' /\ WorkIsUncommitted'
    BY <2>1, <1>t, <1>p DEF TypeOK, Pc, OffsetsInOrder, WorkIsUncommitted
  <2>3. Done(position)' /\ Attempted(position)'
    BY <2>1 DEF Attempted, Done
  <2> QED BY <2>1, <2>2, <2>3, <1>3, <1>s
<1>8. CASE HandlerRaises
  <2>1. /\ UNCHANGED <<log, position, committed, stopping, handled, dlqQueue, deadLettered,
                       dlqLost, restarts>>
        /\ failed' = failed \cup {position} /\ log[position] = "event"
        /\ pc = "dispatching" /\ pc' = "polling"
    BY <1>8 DEF HandlerRaises, Current, offsets, letters
  <2>2. TypeOK' /\ OffsetsInOrder' /\ WorkIsUncommitted'
    BY <2>1, <1>t, <1>p DEF TypeOK, Pc, OffsetsInOrder, WorkIsUncommitted
  <2>3. Attempted(position)'
    BY <2>1 DEF Attempted, Done
  <2> QED BY <2>1, <2>2, <2>3, <1>3, <1>s
<1>9. CASE DeadLetter
  <2>1. /\ UNCHANGED <<log, position, committed, stopping, handled, failed, deadLettered,
                       restarts>>
        /\ log[position] = "malformed" /\ pc = "dispatching"
    BY <1>9 DEF DeadLetter, Current, offsets, outcomes
  <2>2. CASE pc' = "closing" /\ UNCHANGED <<dlqQueue, dlqLost>>
    <3>1. TypeOK' /\ OffsetsInOrder' /\ WorkIsUncommitted'
      BY <2>1, <2>2, <1>t DEF TypeOK, Pc, OffsetsInOrder, WorkIsUncommitted
    <3> QED BY <2>1, <2>2, <3>1, <1>3, <1>s
  <2>3. ASSUME pc' = "committing_malformed",
               dlqQueue \subseteq dlqQueue', dlqLost \subseteq dlqLost',
               dlqQueue' \subseteq dlqQueue \cup {position},
               dlqLost' \subseteq dlqLost \cup {position},
               position \in dlqQueue' \cup dlqLost'
        PROVE  ConsumerInv'
    <3>1. TypeOK' /\ OffsetsInOrder' /\ WorkIsUncommitted'
      BY <2>1, <2>3, <1>t, <1>p DEF TypeOK, Pc, OffsetsInOrder, WorkIsUncommitted
    <3>2. Done(position)' /\ Attempted(position)'
      BY <2>1, <2>3 DEF Attempted, Done, Routed
    <3>3. dlqQueue \cup deadLettered \cup dlqLost
            \subseteq dlqQueue' \cup deadLettered' \cup dlqLost'
      BY <2>1, <2>3
    <3> QED BY <2>1, <2>3, <3>1, <3>2, <3>3, <1>3, <1>s
  <2> QED BY <1>9, <2>2, <2>3 DEF DeadLetter
<1>10. CASE Undecodable
  BY <1>10, <1>3, <1>s DEF Undecodable, TypeOK, Pc, OffsetsInOrder, WorkIsUncommitted, offsets,
                           outcomes, letters
<1>11. CASE Commit
  <2>1. /\ UNCHANGED <<log, position, stopping, handled, failed, dlqQueue, deadLettered,
                       dlqLost, restarts>>
        /\ committed' \in {committed, position}
        /\ pc \in {"committing_event", "committing_malformed"}
        /\ pc' \in {"polling", "closing"}
    BY <1>11 DEF Commit, outcomes, letters
  <2>2. TypeOK' /\ OffsetsInOrder' /\ WorkIsUncommitted'
    <3>a. committed <= position /\ position <= position /\ position <= Len(log)
      BY <1>t DEF OffsetsInOrder
    <3>1. committed' \in Nat /\ committed' <= position /\ position <= Len(log)
      <4>1. committed' \in Nat
        BY <2>1, <1>t
      <4>2. committed' <= position
        BY <2>1, <3>a
      <4> QED BY <4>1, <4>2, <3>a
    <3>2. TypeOK'
      BY <2>1, <3>1 DEF TypeOK, Pc
    <3> QED BY <2>1, <3>1, <3>2 DEF OffsetsInOrder, WorkIsUncommitted
  <2>3. \A i : (Done(i) => Done(i)') /\ (Attempted(i) => Attempted(i)')
    BY <2>1 DEF Attempted, Done, Routed
  <2>4. (\A i \in 1..position : Attempted(i)') /\ Done(position)'
    BY <2>1, <2>3 DEF TakenIsAttempted, CommitsWhatIsDone
  <2>5. TakenIsAttempted' /\ CommitsWhatIsDone'
    BY <2>1, <2>4 DEF TakenIsAttempted, CommitsWhatIsDone
  <2>6. CommittedWasAttempted'
    <3>1. CASE committed' = committed
      BY <2>1, <2>3, <3>1 DEF CommittedWasAttempted
    <3>2. CASE committed' = position
      BY <2>1, <2>4, <3>2 DEF CommittedWasAttempted
    <3> QED BY <2>1, <3>1, <3>2
  <2> QED BY <2>2, <2>5, <2>6
<1>12. CASE Close
  <2>1. /\ UNCHANGED <<log, position, committed, stopping, handled, failed, restarts>>
        /\ pc' = "stopped" /\ dlqQueue' = {}
        /\ \E flushed \in SUBSET dlqQueue :
             /\ deadLettered' = deadLettered \cup flushed
             /\ dlqLost' = dlqLost \cup (dlqQueue \ flushed)
    BY <1>12 DEF Close, offsets, outcomes
  <2>a. /\ deadLettered' \subseteq dlqQueue \cup deadLettered
        /\ dlqLost' \subseteq dlqQueue \cup dlqLost
    BY <2>1
  <2>2. TypeOK' /\ OffsetsInOrder' /\ WorkIsUncommitted'
    BY <2>1, <2>a, <1>t DEF TypeOK, Pc, OffsetsInOrder, WorkIsUncommitted
  <2>3. dlqQueue \cup deadLettered \cup dlqLost
          \subseteq dlqQueue' \cup deadLettered' \cup dlqLost'
    BY <2>1
  <2> QED BY <2>1, <2>2, <2>3, <1>3, <1>s
<1>13. CASE Crash
  BY <1>13, <1>3, <1>s DEF Crash, TypeOK, Pc, OffsetsInOrder, WorkIsUncommitted, offsets, outcomes
<1>14. CASE Restart
  <2>1. /\ UNCHANGED <<log, committed, handled, failed, dlqQueue, deadLettered, dlqLost>>
        /\ position' = committed /\ pc' = "polling" /\ stopping' = FALSE
        /\ restarts < MaxRestarts /\ restarts' = restarts + 1
    BY <1>14 DEF Restart, outcomes, letters
  <2>2. TypeOK' /\ OffsetsInOrder' /\ WorkIsUncommitted'
    <3>1. committed <= committed /\ committed <= Len(log)
      BY <1>t DEF OffsetsInOrder
    <3>2. restarts' \in 0..MaxRestarts
      BY <2>1 DEF TypeOK
    <3>3. TypeOK'
      BY <2>1, <3>2 DEF TypeOK, Pc
    <3> QED BY <2>1, <3>1, <3>3 DEF OffsetsInOrder, WorkIsUncommitted
  <2>3. \A i : (Done(i) => Done(i)') /\ (Attempted(i) => Attempted(i)')
    BY <2>1 DEF Attempted, Done, Routed
  <2>4. CommittedWasAttempted' /\ TakenIsAttempted' /\ CommitsWhatIsDone'
    BY <2>1, <2>3 DEF CommittedWasAttempted, TakenIsAttempted, CommitsWhatIsDone
  <2> QED BY <2>2, <2>4
<1>15. ASSUME NEW offset \in dlqQueue, LetterSettles(offset)
       PROVE  ConsumerInv'
  <2>1. /\ UNCHANGED <<log, position, committed, pc, stopping, handled, failed, restarts>>
        /\ dlqQueue' = dlqQueue \ {offset}
        /\ \/ deadLettered' = deadLettered \cup {offset} /\ dlqLost' = dlqLost
           \/ dlqLost' = dlqLost \cup {offset} /\ deadLettered' = deadLettered
    BY <1>15 DEF LetterSettles, offsets, outcomes
  <2>2. TypeOK' /\ OffsetsInOrder' /\ WorkIsUncommitted'
    BY <2>1, <1>t, <1>p DEF TypeOK, Pc, OffsetsInOrder, WorkIsUncommitted
  <2>3. dlqQueue \cup deadLettered \cup dlqLost
          \subseteq dlqQueue' \cup deadLettered' \cup dlqLost'
    BY <2>1
  <2> QED BY <2>1, <2>2, <2>3, <1>3, <1>s
<1> QED
  BY <1>1, <1>2, <1>4, <1>5, <1>6, <1>7, <1>8, <1>9, <1>10, <1>11, <1>12, <1>13, <1>14,
     <1>15 DEF Next, Run

(* Everything below the group's committed offset was handled, raised in    *)
(* the handler or was given to the dead-letter producer; the message the   *)
(* last commit was made for did not merely raise; and the message in hand  *)
(* is always above it.                                                     *)
THEOREM AtLeastOnce == Spec => [](TypeOK /\ CommittedWasAttempted /\ WorkIsUncommitted)
<1>1. ConsumerInv => TypeOK /\ CommittedWasAttempted /\ WorkIsUncommitted
  BY DEF ConsumerInv
<1> QED BY InitEstablishes, StepKeeps, <1>1, PTL DEF Spec

(* The group's committed offset never moves back: only Commit changes it,  *)
(* and what Commit covers includes what was covered before.                *)
THEOREM OffsetMonotone == Spec => OffsetNeverRegresses
<1>1. ConsumerInv /\ [Next]_vars => [committed' >= committed]_vars
  <2> SUFFICES ASSUME ConsumerInv, Next
               PROVE  committed' >= committed
    BY DEF vars
  <2>1. committed \in Nat /\ position \in Nat /\ committed <= position
    BY DEF ConsumerInv, TypeOK, OffsetsInOrder
  <2>2. CASE Commit
    <3>1. committed' = position \/ committed' = committed
      BY <2>2 DEF Commit
    <3> QED BY <2>1, <3>1
  <2>3. CASE ~Commit
    <3>1. committed' = committed
      BY <2>3 DEF Next, Run, Produce, LetterSettles, Poll, LeaveLoop, HandleEvent,
       HandlerRaises, DeadLetter, Undecodable, Close, Stop, Crash, Restart, offsets
    <3> QED BY <2>1, <3>1
  <2> QED BY <2>2, <2>3
<1> QED BY InitEstablishes, StepKeeps, <1>1, PTL DEF Spec, OffsetNeverRegresses

(* The consumer's variables keep their types, for any log and any number   *)
(* of crashes and restarts.                                                *)
THEOREM ConsumerTyped == Spec => []TypeOK
  BY AtLeastOnce, PTL

(* What the consumer has in hand is never covered by a commit, so a crash  *)
(* at any point gives it back.                                             *)
THEOREM WorkStaysUncommitted == Spec => []WorkIsUncommitted
  BY AtLeastOnce, PTL

(* No step takes the group past an undecodable message: run() ends on it,  *)
(* and every later consumer begins at or before it.                        *)
LEMMA NobodyEverPasses ==
  ConsumerInv /\ NobodyPassesUndecodable /\ [Next]_vars => NobodyPassesUndecodable'
<1> SUFFICES ASSUME ConsumerInv, NobodyPassesUndecodable, [Next]_vars
             PROVE  NobodyPassesUndecodable'
  OBVIOUS
<1>t. /\ Len(log) \in Nat /\ committed \in Nat /\ position \in Nat
      /\ committed <= position /\ position <= Len(log)
      /\ Reached \subseteq 1..Len(log)
  BY DEF ConsumerInv, TypeOK, OffsetsInOrder, Reached
<1>0. ASSUME log' = log, position' \in Nat, position' <= position, Reached' \subseteq Reached
      PROVE  NobodyPassesUndecodable'
  BY <1>0, <1>t DEF NobodyPassesUndecodable
<1>1. CASE UNCHANGED vars
  BY <1>0, <1>1, <1>t DEF vars, Reached
<1>2. ASSUME NEW kind \in Kinds, Produce(kind)
      PROVE  NobodyPassesUndecodable'
  <2>1. /\ Len(log') = Len(log) + 1
        /\ \A i \in 1..Len(log) : log'[i] = log[i]
    BY <1>2, AppendKeeps DEF Produce, ConsumerInv, TypeOK
  <2>2. position' = position /\ Reached' = Reached
    BY <1>2 DEF Produce, offsets, outcomes, letters, Reached
  <2>3. ASSUME NEW i \in 1..Len(log'), log'[i] = "undecodable"
        PROVE  position <= i /\ \A j \in Reached : j < i
    <3>1. CASE i \in 1..Len(log)
      BY <2>1, <2>3, <3>1 DEF NobodyPassesUndecodable
    <3>2. CASE i = Len(log) + 1
      BY <1>t, <3>2
    <3> QED BY <2>1, <1>t, <3>1, <3>2
  <2> QED BY <2>2, <2>3 DEF NobodyPassesUndecodable
<1>3. CASE Poll
  <2>1. /\ log' = log /\ position' = position + 1 /\ Reached' = Reached
        /\ pc = "polling"
    BY <1>3 DEF Poll, outcomes, letters, Reached
  <2>2. ASSUME position >= 1 PROVE log[position] # "undecodable"
    <3> SUFFICES ASSUME log[position] = "undecodable" PROVE FALSE
      OBVIOUS
    <3>1. Attempted(position)
      BY <2>1, <2>2, <1>t DEF ConsumerInv, TakenIsAttempted
    <3>2. position \in Reached
      BY <3>1 DEF Attempted, Done, Routed, Reached
    <3>3. position \in 1..Len(log)
      BY <2>2, <1>t
    <3>4. \A j \in Reached : j < position
      BY <3>3 DEF NobodyPassesUndecodable
    <3> QED BY <3>2, <3>4, <1>t
  <2>3. ASSUME NEW i \in 1..Len(log), log[i] = "undecodable"
        PROVE  position + 1 <= i
    <3>1. position <= i
      BY <2>3 DEF NobodyPassesUndecodable
    <3>2. position # i
      BY <2>2, <2>3, <1>t
    <3> QED BY <3>1, <3>2, <1>t
  <2> QED BY <2>1, <2>3 DEF NobodyPassesUndecodable
<1>4. ASSUME log' = log, position' = position, pc = "dispatching",
             log[position] # "undecodable", Reached' \subseteq Reached \cup {position}
      PROVE  NobodyPassesUndecodable'
  <2>1. ASSUME NEW i \in 1..Len(log), log[i] = "undecodable"
        PROVE  position <= i /\ position < i /\ \A j \in Reached : j < i
    <3>1. position <= i /\ position # i
      BY <1>4, <2>1 DEF NobodyPassesUndecodable
    <3> QED BY <3>1, <2>1, <1>t DEF NobodyPassesUndecodable
  <2> QED BY <1>4, <2>1 DEF NobodyPassesUndecodable
<1>5. CASE HandleEvent \/ HandlerRaises
  BY <1>4, <1>5 DEF HandleEvent, HandlerRaises, Current, offsets, letters, Reached
<1>6. CASE DeadLetter
  BY <1>4, <1>6 DEF DeadLetter, Current, offsets, outcomes, Reached
<1>7. CASE Stop \/ LeaveLoop \/ Undecodable \/ Commit \/ Crash
  <2>1. log' = log /\ position' = position
    BY <1>7 DEF Stop, LeaveLoop, Undecodable, Commit, Crash, offsets
  <2>2. Reached' \subseteq Reached
    <3>1. CASE Crash
      BY <3>1 DEF Crash, outcomes, Reached
    <3>2. CASE Stop \/ LeaveLoop \/ Undecodable \/ Commit
      BY <3>2 DEF Stop, LeaveLoop, Undecodable, Commit, outcomes, letters, Reached
    <3> QED BY <1>7, <3>1, <3>2
  <2>3. position' \in Nat /\ position' <= position
    BY <2>1, <1>t
  <2> QED BY <1>0, <2>1, <2>2, <2>3
<1>8. CASE Close
  <2>1. log' = log /\ position' = position /\ Reached' \subseteq Reached
    BY <1>8 DEF Close, offsets, outcomes, Reached
  <2> QED BY <1>0, <2>1, <1>t
<1>9. CASE Restart
  BY <1>0, <1>9, <1>t DEF Restart, outcomes, letters, Reached
<1>10. ASSUME NEW offset \in dlqQueue, LetterSettles(offset)
       PROVE  NobodyPassesUndecodable'
  <2>1. log' = log /\ position' = position /\ Reached' \subseteq Reached
    BY <1>10 DEF LetterSettles, offsets, outcomes, Reached
  <2> QED BY <1>0, <2>1, <1>t
<1> QED
  BY <1>1, <1>2, <1>3, <1>5, <1>6, <1>7, <1>8, <1>9, <1>10 DEF Next, Run

(* How far the crash on a message that json.loads cannot even decode goes: *)
(* no consumer of the group ever takes a message behind it, however often  *)
(* one is restarted, and neither handler nor dead-letter producer is given *)
(* it or a later one.                                                      *)
THEOREM UndecodableIsTheEnd == Spec => []NobodyPassesUndecodable
<1>1. Init => NobodyPassesUndecodable
  <2> SUFFICES ASSUME Init PROVE NobodyPassesUndecodable
    OBVIOUS
  <2>1. 1..Len(log) = {}
    BY DEF Init
  <2> QED BY <2>1 DEF NobodyPassesUndecodable
<1> QED BY InitEstablishes, StepKeeps, NobodyEverPasses, <1>1, PTL DEF Spec
=============================================================================
