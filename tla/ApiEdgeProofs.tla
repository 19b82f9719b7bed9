---------------------------- MODULE ApiEdgeProofs ----------------------------
(***************************************************************************)
(* Proofs about what meets the clients of services/api.  RateLimiter, for  *)
(* every limit, every window length and any number of tenants and          *)
(* requests: never a burst, never an unfair 429.  AgentChannel, for any    *)
(* number of connections, spellings of an agent, messages and restarts:    *)
(* the shared history stays a conversation, what was answered is in it,    *)
(* and no message has two outcomes.                                        *)
(***************************************************************************)
EXTENDS RateLimiter, AgentChannel, FiniteSetTheorems, TLAPS

(* What eviction leaves is still the tail of the admissions.               *)
LEMMA EvictionKeepsTail ==
  ASSUME NEW w \in Seq(Nat), NEW a \in Seq(Nat), NEW k \in 0..Len(w),
         IsTail(w, a), Evicted(w, k)
  PROVE  /\ SubSeq(w, k + 1, Len(w)) \in Seq(Nat)
         /\ Len(SubSeq(w, k + 1, Len(w))) = Len(w) - k
         /\ IsTail(SubSeq(w, k + 1, Len(w)), a)
<1> DEFINE kept == SubSeq(w, k + 1, Len(w))
<1>0. Len(w) \in Nat /\ Len(a) \in Nat /\ k \in Nat /\ k <= Len(w)
  OBVIOUS
<1>1. /\ kept \in Seq(Nat) /\ Len(kept) = Len(w) - k
      /\ \A i \in 1..(Len(w) - k) : kept[i] = w[k + i]
  BY <1>0
<1> HIDE DEF kept
<1>2. Len(kept) <= Len(a)
  BY <1>0, <1>1 DEF IsTail
<1>3. ASSUME NEW i \in 1..Len(kept) PROVE kept[i] = a[Len(a) - Len(kept) + i]
  <2>1. kept[i] = w[k + i] /\ k + i \in 1..Len(w)
    BY <1>0, <1>1
  <2>2. w[k + i] = a[Len(a) - Len(w) + (k + i)]
    BY <2>1 DEF IsTail
  <2>3. Len(a) - Len(w) + (k + i) = Len(a) - Len(kept) + i
    BY <1>0, <1>1
  <2> QED BY <2>1, <2>2, <2>3
<1>4. ASSUME NEW i \in 1..(Len(a) - Len(kept)) PROVE Outside(a[i])
  <2>1. CASE i <= Len(a) - Len(w)
    BY <2>1, <1>0 DEF IsTail
  <2>2. CASE i > Len(a) - Len(w)
    <3> DEFINE j == i - (Len(a) - Len(w))
    <3>1. j \in 1..k /\ j \in 1..Len(w) /\ Len(a) - Len(w) + j = i
      BY <2>2, <1>0, <1>1, SMTT(30) DEF IsTail
    <3>2. Outside(w[j]) /\ w[j] = a[Len(a) - Len(w) + j]
      BY <3>1 DEF Evicted, IsTail
    <3> QED BY <3>1, <3>2
  <2> QED BY <2>1, <2>2, <1>0
<1> QED BY <1>1, <1>2, <1>3, <1>4 DEF IsTail, kept

(* Admitting now, with fewer than Limit requests left in the window, keeps *)
(* the admissions sorted and spaced: the one Limit places back is outside. *)
LEMMA AdmissionKeeps ==
  ASSUME LimiterAssumption, now \in Nat,
         NEW w \in Seq(Nat), NEW a \in Seq(Nat), Len(w) < Limit,
         Sorted(a), IsTail(w, a), Spaced(a)
  PROVE  /\ Append(a, now) \in Seq(Nat) /\ Append(w, now) \in Seq(Nat)
         /\ Sorted(Append(a, now))
         /\ IsTail(Append(w, now), Append(a, now))
         /\ Spaced(Append(a, now))
<1> DEFINE a1 == Append(a, now)
           w1 == Append(w, now)
<1>0. Len(w) \in Nat /\ Len(a) \in Nat /\ Limit \in Nat /\ Limit > 0 /\ Window \in Nat
  BY DEF LimiterAssumption
<1>1. /\ a1 \in Seq(Nat) /\ Len(a1) = Len(a) + 1 /\ a1[Len(a) + 1] = now
      /\ \A i \in 1..Len(a) : a1[i] = a[i] /\ a[i] \in Nat
  OBVIOUS
<1>2. /\ w1 \in Seq(Nat) /\ Len(w1) = Len(w) + 1 /\ w1[Len(w) + 1] = now
      /\ \A i \in 1..Len(w) : w1[i] = w[i]
  OBVIOUS
<1> HIDE DEF a1, w1
<1>i. \A i \in 1..Len(a1) : i \in 1..Len(a) \/ i = Len(a) + 1
  BY <1>0, <1>1
<1>3. Sorted(a1)
  <2>1. \A i \in 1..Len(a1) : a1[i] <= now
    <3>1. \A i \in 1..Len(a) : a1[i] <= now
      BY <1>1 DEF Sorted
    <3>2. now <= now
      OBVIOUS
    <3> QED BY <3>1, <3>2, <1>1, <1>i
  <2>2. ASSUME NEW i \in 1..Len(a1), NEW j \in 1..Len(a1), i <= j PROVE a1[i] <= a1[j]
    <3>1. CASE j = Len(a) + 1
      BY <3>1, <2>1, <1>1
    <3>2. CASE j \in 1..Len(a)
      <4>1. i \in 1..Len(a)
        BY <3>2, <2>2, <1>0
      <4> QED BY <4>1, <3>2, <2>2, <1>1 DEF Sorted
    <3> QED BY <3>1, <3>2, <1>i
  <2> QED BY <2>1, <2>2 DEF Sorted
<1>4. IsTail(w1, a1)
  <2>1. Len(w1) <= Len(a1) /\ Len(a1) - Len(w1) = Len(a) - Len(w)
    BY <1>0, <1>1, <1>2 DEF IsTail
  <2>2. ASSUME NEW i \in 1..Len(w1) PROVE w1[i] = a1[Len(a1) - Len(w1) + i]
    <3>1. CASE i = Len(w) + 1
      <4>1. Len(a1) - Len(w1) + i = Len(a) + 1
        BY <3>1, <2>1, <1>0, SMTT(30)
      <4> QED BY <4>1, <3>1, <1>1, <1>2
    <3>2. CASE i \in 1..Len(w)
      <4>1. Len(a) - Len(w) + i \in 1..Len(a)
        BY <3>2, <1>0 DEF IsTail
      <4>2. w[i] = a[Len(a) - Len(w) + i]
        BY <3>2 DEF IsTail
      <4> QED BY <4>1, <4>2, <3>2, <2>1, <1>1, <1>2
    <3> QED BY <3>1, <3>2, <1>0, <1>2
  <2>3. ASSUME NEW i \in 1..(Len(a1) - Len(w1)) PROVE Outside(a1[i])
    <3>1. i \in 1..(Len(a) - Len(w)) /\ i \in 1..Len(a)
      BY <2>1, <1>0
    <3> QED BY <3>1, <1>1 DEF IsTail
  <2> QED BY <2>1, <2>2, <2>3 DEF IsTail
<1>5. Spaced(a1)
  <2> SUFFICES ASSUME NEW i \in 1..Len(a1), i + Limit <= Len(a1)
               PROVE  a1[i] + Window < a1[i + Limit]
    BY DEF Spaced
  <2>0. i \in 1..Len(a) /\ a1[i] = a[i]
    BY <1>0, <1>1, SMTT(30)
  <2>1. CASE i + Limit = Len(a) + 1
    <3>1. i \in 1..(Len(a) - Len(w))
      BY <2>1, <1>0
    <3>2. a[i] + Window < now
      BY <3>1 DEF IsTail, Outside
    <3>3. a1[i + Limit] = now
      BY <2>1, <1>1
    <3> QED BY <3>2, <3>3, <2>0
  <2>2. CASE i + Limit <= Len(a)
    <3>1. i + Limit \in 1..Len(a) /\ a1[i + Limit] = a[i + Limit]
      BY <2>2, <1>0, <1>1
    <3> QED BY <3>1, <2>0, <2>2 DEF Spaced
  <2>3. i + Limit = Len(a) + 1 \/ i + Limit <= Len(a)
    <3>1. i + Limit <= Len(a) + 1 /\ i \in Nat
      BY <1>1
    <3>2. \A x \in Nat, y \in Nat : x <= y + 1 => x = y + 1 \/ x <= y
      OBVIOUS
    <3>3. i + Limit \in Nat
      BY <3>1, <1>0
    <3> QED BY <3>1, <3>2, <3>3, <1>0
  <2> QED BY <2>1, <2>2, <2>3
<1> QED BY <1>1, <1>2, <1>3, <1>4, <1>5 DEF a1, w1

(* Positions in a window of n that is the tail of m admissions, when k are *)
(* evicted and a full limit is left.                                       *)
LEMMA Positions ==
  ASSUME NEW m \in Nat, NEW n \in Nat, NEW k \in Nat, NEW limit \in Nat \ {0},
         n <= m, k <= n, n - k >= limit
  PROVE  /\ k < n /\ k + 1 \in 1..n /\ m >= limit
         /\ m - n + (k + 1) \in 1..m /\ m - limit + 1 \in 1..m
         /\ m - n + (k + 1) <= m - limit + 1
OBVIOUS

(* If Limit admissions are left in the window, the Limit-th last admission *)
(* is no older than the Window.                                            *)
LEMMA FullWindowIsExhausted ==
  ASSUME LimiterAssumption, now \in Nat,
         NEW w \in Seq(Nat), NEW a \in Seq(Nat), NEW k \in 0..Len(w),
         Sorted(a), IsTail(w, a), Evicted(w, k), Len(w) - k >= Limit
  PROVE  Exhausted(a)
<1>0. /\ Len(w) \in Nat /\ Len(a) \in Nat /\ k \in Nat /\ k <= Len(w)
      /\ Limit \in Nat \ {0} /\ Window \in Nat /\ Len(w) <= Len(a)
  BY DEF LimiterAssumption, IsTail
<1> DEFINE first == Len(a) - Len(w) + (k + 1)
           last  == Len(a) - Limit + 1
<1>1. /\ k < Len(w) /\ k + 1 \in 1..Len(w) /\ Len(a) >= Limit
      /\ first \in 1..Len(a) /\ last \in 1..Len(a) /\ first <= last
  BY <1>0, Positions
<1>2. ~Outside(w[k + 1]) /\ w[k + 1] = a[first]
  BY <1>1 DEF Evicted, IsTail
<1> HIDE DEF first, last
<1>3. \A i \in 1..Len(a) : a[i] \in Nat
  OBVIOUS
<1>4. a[first] \in Nat /\ a[last] \in Nat /\ a[first] <= a[last]
  BY <1>1, <1>3 DEF Sorted
<1>5. ~(a[first] + Window < now)
  BY <1>2 DEF Outside
<1>6. a[last] + Window >= now
  <2>1. \A x \in Nat, y \in Nat, d \in Nat, n \in Nat :
          ~(x + d < n) /\ x <= y => y + d >= n
    OBVIOUS
  <2> QED BY <2>1, <1>4, <1>5, <1>0
<1> QED BY <1>1, <1>6 DEF Exhausted, last

(* Nothing is admitted at the start.                                       *)
LEMMA InitEstablishes == LimiterInit => LimiterInv
<1> SUFFICES ASSUME LimiterInit PROVE LimiterInv
  OBVIOUS
<1>1. now = 0 /\ \A t \in Tenants : window[t] = <<>> /\ accepted[t] = <<>>
  BY DEF LimiterInit
<1>2. LimiterTypeOK
  BY DEF LimiterInit, LimiterTypeOK
<1>a. Len(<<>>) = 0 /\ \A i \in 1..0 : FALSE
  OBVIOUS
<1>3. \A t \in Tenants : Len(accepted[t]) = 0 /\ Len(window[t]) = 0
  BY <1>1, <1>a
<1>4. ASSUME NEW t \in Tenants
      PROVE  Sorted(accepted[t]) /\ IsTail(window[t], accepted[t]) /\ Spaced(accepted[t])
  <2>1. Len(accepted[t]) = 0 /\ Len(window[t]) = 0
    BY <1>3
  <2>2. 0 <= 0 /\ 0 - 0 = 0
    OBVIOUS
  <2>3. Sorted(accepted[t]) /\ Spaced(accepted[t])
    BY <2>1, <1>a DEF Sorted, Spaced
  <2>4. IsTail(window[t], accepted[t])
    BY <2>1, <2>2, <1>a, Zenon DEF IsTail
  <2> QED BY <2>3, <2>4
<1> QED BY <1>2, <1>4 DEF LimiterInv

(* Time and every call keep the invariant.                                 *)
LEMMA StepKeeps == LimiterInv /\ [LimiterNext]_limiterVars => LimiterInv'
<1> USE LimiterAssumption
<1> SUFFICES ASSUME LimiterInv, [LimiterNext]_limiterVars
             PROVE  LimiterInv'
  OBVIOUS
<1>t. now \in Nat /\ Window \in Nat
  BY DEF LimiterInv, LimiterTypeOK, LimiterAssumption
<1>1. CASE UNCHANGED limiterVars
  BY <1>1 DEF limiterVars, LimiterInv, LimiterTypeOK, Sorted, IsTail, Spaced, Outside
<1>2. CASE Tick
  <2>1. UNCHANGED <<window, accepted, rejectedAt>> /\ now' = now + 1
    BY <1>2 DEF Tick
  <2>2. LimiterTypeOK'
    BY <2>1, <1>t DEF LimiterInv, LimiterTypeOK
  <2>3. ASSUME NEW t \in Tenants
        PROVE  (Sorted(accepted[t]) /\ IsTail(window[t], accepted[t])
                  /\ Spaced(accepted[t]))'
    <3>0. /\ accepted[t] \in Seq(Nat) /\ Len(accepted[t]) \in Nat /\ Len(window[t]) \in Nat
          /\ \A i \in 1..Len(accepted[t]) : accepted[t][i] \in Nat
          /\ Sorted(accepted[t]) /\ IsTail(window[t], accepted[t]) /\ Spaced(accepted[t])
      BY DEF LimiterInv, LimiterTypeOK
    <3>1. Sorted(accepted[t])'
      <4>1. \A x \in Nat : x <= now => x <= now + 1
        BY <1>t
      <4> QED BY <4>1, <3>0, <2>1 DEF Sorted
    <3>2. IsTail(window[t], accepted[t])'
      <4>1. \A x \in Nat : x + Window < now => x + Window < now + 1
        BY <1>t
      <4>2. \A i \in 1..(Len(accepted[t]) - Len(window[t])) : i \in 1..Len(accepted[t])
        BY <3>0
      <4> QED BY <4>1, <4>2, <3>0, <2>1 DEF IsTail, Outside
    <3>3. Spaced(accepted[t])'
      BY <3>0, <2>1 DEF Spaced
    <3> QED BY <3>1, <3>2, <3>3
  <2> QED BY <2>2, <2>3 DEF LimiterInv
<1>3. ASSUME NEW t \in Tenants, CheckRateLimit(t)
      PROVE  LimiterInv'
  <2>0. /\ window[t] \in Seq(Nat) /\ accepted[t] \in Seq(Nat) /\ now' = now
        /\ Sorted(accepted[t]) /\ IsTail(window[t], accepted[t]) /\ Spaced(accepted[t])
    BY <1>3 DEF LimiterInv, LimiterTypeOK, CheckRateLimit
  <2>1. PICK k \in 0..Len(window[t]) :
          /\ Evicted(window[t], k)
          /\ \/ Reject(t, SubSeq(window[t], k + 1, Len(window[t])))
             \/ Admit(t, SubSeq(window[t], k + 1, Len(window[t])))
    BY <1>3 DEF CheckRateLimit
  <2> DEFINE kept == SubSeq(window[t], k + 1, Len(window[t]))
  <2>2. kept \in Seq(Nat) /\ IsTail(kept, accepted[t])
    BY <2>0, <2>1, EvictionKeepsTail
  <2> HIDE DEF kept
  <2>3. ASSUME NEW w1 \in Seq(Nat), NEW a1 \in Seq(Nat),
               window' = [window EXCEPT ![t] = w1],
               accepted' = [accepted EXCEPT ![t] = a1],
               rejectedAt' \in [Tenants -> SUBSET Nat],
               Sorted(a1), IsTail(w1, a1), Spaced(a1)
        PROVE  LimiterInv'
    <3>1. LimiterTypeOK'
      BY <2>3, <2>0 DEF LimiterInv, LimiterTypeOK
    <3>2. ASSUME NEW u \in Tenants
          PROVE  /\ Sorted(accepted'[u]) /\ Spaced(accepted'[u])
                 /\ IsTail(window'[u], accepted'[u])
      <4>1. CASE u = t
        BY <4>1, <2>3 DEF LimiterInv, LimiterTypeOK
      <4>2. CASE u # t
        BY <4>2, <2>3 DEF LimiterInv, LimiterTypeOK
      <4> QED BY <4>1, <4>2
    <3> QED BY <3>1, <3>2, <2>0 DEF LimiterInv, Sorted, IsTail, Spaced, Outside
  <2>4. CASE Reject(t, kept)
    <3>1. /\ window' = [window EXCEPT ![t] = kept]
          /\ accepted' = [accepted EXCEPT ![t] = accepted[t]]
          /\ rejectedAt' \in [Tenants -> SUBSET Nat]
      BY <2>4, <1>t DEF Reject, LimiterInv, LimiterTypeOK
    <3> QED BY <3>1, <2>0, <2>2, <2>3
  <2>5. CASE Admit(t, kept)
    <3>1. /\ window' = [window EXCEPT ![t] = Append(kept, now)]
          /\ accepted' = [accepted EXCEPT ![t] = Append(accepted[t], now)]
          /\ rejectedAt' \in [Tenants -> SUBSET Nat]
          /\ Len(kept) < Limit
      BY <2>5 DEF Admit, LimiterInv, LimiterTypeOK
    <3>2. /\ Append(accepted[t], now) \in Seq(Nat) /\ Append(kept, now) \in Seq(Nat)
          /\ Sorted(Append(accepted[t], now))
          /\ IsTail(Append(kept, now), Append(accepted[t], now))
          /\ Spaced(Append(accepted[t], now))
      BY <3>1, <2>0, <2>2, <1>t, AdmissionKeeps
    <3> QED BY <3>1, <3>2, <2>3
  <2> QED BY <2>1, <2>4, <2>5 DEF kept
<1> QED BY <1>1, <1>2, <1>3 DEF LimiterNext

(* No tenant is ever admitted more than Limit times within one Window.     *)
THEOREM LimiterIsSafe == LimiterSpec => [](LimiterTypeOK /\ NoBurst)
<1>1. LimiterInv => LimiterTypeOK /\ NoBurst
  BY DEF LimiterInv, NoBurst
<1> QED BY InitEstablishes, StepKeeps, <1>1, PTL DEF LimiterSpec

(* Every 429 is answered to a tenant that had Limit requests admitted      *)
(* within the Window just before.                                          *)
THEOREM LimiterIsFair == LimiterSpec => RejectionIsFair
<1> USE LimiterAssumption
<1>1. ASSUME LimiterInv, [LimiterNext]_limiterVars
      PROVE  [\A t \in Tenants : rejectedAt'[t] # rejectedAt[t] => Exhausted(accepted[t])]_limiterVars
  <2> SUFFICES ASSUME NEW t \in Tenants, LimiterNext, rejectedAt'[t] # rejectedAt[t]
               PROVE  Exhausted(accepted[t])
    BY <1>1
  <2>1. PICK u \in Tenants : CheckRateLimit(u)
    BY DEF LimiterNext, Tick
  <2>2. PICK k \in 0..Len(window[u]) :
          /\ Evicted(window[u], k)
          /\ Reject(u, SubSeq(window[u], k + 1, Len(window[u])))
    BY <2>1 DEF CheckRateLimit, Admit
  <2>3. u = t
    BY <2>2, <1>1 DEF Reject, LimiterInv, LimiterTypeOK
  <2>4. /\ window[t] \in Seq(Nat) /\ accepted[t] \in Seq(Nat) /\ now \in Nat
        /\ Sorted(accepted[t]) /\ IsTail(window[t], accepted[t])
    BY <1>1 DEF LimiterInv, LimiterTypeOK
  <2>5. Len(window[t]) - k >= Limit
    BY <2>2, <2>3, <2>4, EvictionKeepsTail DEF Reject
  <2> QED BY <2>2, <2>3, <2>4, <2>5, <1>1, FullWindowIsExhausted
<1> QED BY InitEstablishes, StepKeeps, <1>1, PTL DEF LimiterSpec, RejectionIsFair

(* The windows hold times, for any tenants, limit and clock.               *)
THEOREM LimiterTyped == LimiterSpec => []LimiterTypeOK
  BY LimiterIsSafe, PTL

-----------------------------------------------------------------------------
(* AgentChannel: what makes a sequence of entries a conversation.          *)
Has(h, e) == \E i \in DOMAIN h : h[i] = e

IsConversation(h) ==
  /\ \A i, j \in DOMAIN h : h[i] = h[j] => i = j
  /\ \A i \in DOMAIN h :
       h[i].role = "assistant" => \E j \in DOMAIN h : j < i /\ h[j] = User(h[i].of)

(* Nothing has become of the message yet.                                  *)
Undecided(m) == m \notin answered \cup refused \cup failedCalls \cup responded

(* What a connection has done with the message in its hand, and where the  *)
(* history has it.                                                         *)
HandAt(c) ==
  /\ message[c] = 0 <=> conn[c] \in {"closed", "accepting", "receiving"}
  /\ message[c] \in 0..sent
  /\ conn[c] \notin {"closed", "accepting"} => path[c] \in agents
  /\ conn[c] = "emitting_prompt" =>
       Undecided(message[c]) /\ \A p \in Paths : ~Has(history[p], User(message[c]))
  /\ conn[c] = "thinking" =>
       Undecided(message[c]) /\ Has(history[path[c]], User(message[c]))
  /\ conn[c] \in {"emitting_prompt", "thinking"} =>
       \A p \in Paths : ~Has(history[p], Assistant(message[c]))
  /\ conn[c] \in {"emitting_response", "answering"} =>
       /\ message[c] \notin refused \cup failedCalls
       /\ Has(history[path[c]], Assistant(message[c]))
  /\ conn[c] = "reporting_error" =>
       message[c] \in failedCalls /\ message[c] \notin answered \cup responded

HandsApart ==
  \A c, d \in Connections : message[c] = message[d] /\ message[c] # 0 => c = d

(* What a history holds: a conversation about messages that were sent, in  *)
(* which each open question is in some connection's hand or has failed.    *)
HistoryAt(p) ==
  /\ IsConversation(history[p])
  /\ \A m \in Messages :
       Has(history[p], User(m)) \/ Has(history[p], Assistant(m)) => m <= sent
  /\ p \notin agents => history[p] = <<>>
  /\ \A m \in Messages :
       Has(history[p], User(m)) /\ ~Has(history[p], Assistant(m)) =>
         \/ m \in failedCalls
         \/ \E c \in Connections : conn[c] = "thinking" /\ path[c] = p /\ message[c] = m

MemoryInv ==
  restarts = 0 =>
    \A m \in answered \cup responded : \E p \in Paths : Has(history[p], Assistant(m))

ChannelInv ==
  /\ TypeOK /\ HandsApart /\ MemoryInv /\ OneOutcome
  /\ \A c \in Connections : HandAt(c)
  /\ \A p \in Paths : HistoryAt(p)

(* Entries are told apart by their role and their message.                 *)
LEMMA EntriesDiffer ==
  ASSUME NEW m, NEW n
  PROVE  /\ User(m) # Assistant(n)
         /\ User(m) = User(n) => m = n
         /\ Assistant(m) = Assistant(n) => m = n
         /\ User(m).role # "assistant" /\ Assistant(m).of = m
  BY DEF User, Assistant

(* A new entry at the end of a history.                                    *)
LEMMA AppendedEntry ==
  ASSUME NEW h \in Seq(Entry), NEW e \in Entry
  PROVE  /\ Append(h, e) \in Seq(Entry)
         /\ \A x : Has(Append(h, e), x) <=> Has(h, x) \/ x = e
         /\ /\ IsConversation(h) /\ ~Has(h, e)
            /\ e.role = "assistant" => Has(h, User(e.of))
            => IsConversation(Append(h, e))
<1>. DEFINE n == Len(h)
            g == Append(h, e)
<1>1. /\ n \in Nat /\ g \in Seq(Entry) /\ DOMAIN h = 1..n /\ DOMAIN g = 1..(n + 1)
      /\ \A i \in 1..n : g[i] = h[i]
      /\ g[n + 1] = e
  OBVIOUS
<1>. HIDE DEF n, g
<1>2. \A i \in 1..(n + 1) : i \in 1..n \/ i = n + 1
  BY <1>1
<1>3. \A i \in 1..n : i \in 1..(n + 1) /\ i < n + 1
  BY <1>1
<1>4. n + 1 \in 1..(n + 1)
  BY <1>1
<1>5. \A x : Has(g, x) <=> Has(h, x) \/ x = e
  BY <1>1, <1>2, <1>3, <1>4 DEF Has
<1>6. ASSUME IsConversation(h), ~Has(h, e), e.role = "assistant" => Has(h, User(e.of))
      PROVE  IsConversation(g)
  <2>1. ASSUME NEW i \in DOMAIN g, NEW j \in DOMAIN g, g[i] = g[j]
        PROVE  i = j
    BY <1>1, <1>2, <1>6, <2>1 DEF IsConversation, Has
  <2>2. ASSUME NEW i \in DOMAIN g, g[i].role = "assistant"
        PROVE  \E j \in DOMAIN g : j < i /\ g[j] = User(g[i].of)
    <3>1. CASE i \in 1..n
      BY <1>1, <1>3, <1>6, <2>2, <3>1 DEF IsConversation
    <3>2. CASE i = n + 1
      BY <1>1, <1>3, <1>6, <2>2, <3>2 DEF Has
    <3>. QED
      BY <1>1, <1>2, <3>1, <3>2
  <2>. QED
    BY <2>1, <2>2 DEF IsConversation
<1>. QED
  BY <1>1, <1>5, <1>6 DEF g

(* One of the histories gets a new entry.                                  *)
LEMMA HistoryGrows ==
  ASSUME TypeOK, NEW p \in Paths, NEW e \in Entry,
         history' = [history EXCEPT ![p] = Append(@, e)]
  PROVE  /\ history' \in [Paths -> Seq(Entry)]
         /\ \A q \in Paths : q # p => history'[q] = history[q]
         /\ \A q \in Paths, x \in Entry :
              Has(history'[q], x) <=> Has(history[q], x) \/ (q = p /\ x = e)
         /\ /\ IsConversation(history[p]) /\ ~Has(history[p], e)
            /\ e.role = "assistant" => Has(history[p], User(e.of))
            => IsConversation(history'[p])
<1>1. history \in [Paths -> Seq(Entry)] /\ history[p] \in Seq(Entry)
  BY DEF TypeOK
<1>2. /\ Append(history[p], e) \in Seq(Entry)
      /\ history'[p] = Append(history[p], e)
      /\ \A q \in Paths : q # p => history'[q] = history[q]
  BY <1>1
<1>. QED
  BY <1>1, <1>2, AppendedEntry

(* A message in hand has been sent.                                        *)
LEMMA InHandIsSent ==
  ASSUME ChannelInv, NEW c \in Connections,
         conn[c] \notin {"closed", "accepting", "receiving"}
  PROVE  /\ message[c] \in 1..sent /\ message[c] \in Messages
         /\ User(message[c]) \in Entry /\ Assistant(message[c]) \in Entry
         /\ path[c] \in Paths /\ path[c] \in agents
<1>1. message[c] \in 1..sent /\ path[c] \in agents
  BY DEF ChannelInv, HandAt, TypeOK, ConnPc
<1>2. message[c] \in Messages /\ path[c] \in Paths
  BY <1>1, ChannelAssumption DEF ChannelInv, TypeOK, Messages
<1>. QED
  BY <1>1, <1>2 DEF Entry, User, Assistant

(* A step that leaves histories, messages and outcomes alone; the handler  *)
(* of one connection may go from one idle stage to another.                *)
LEMMA IdleSteps ==
  ASSUME ChannelInv,
         \/ \E c \in Connections : Attach(c) \/ \E p \in Paths : Connect(c, p)
         \/ SessionEnds
  PROVE  ChannelInv'
<1>. USE DEF process, subAgent, kafka, client
<1>1. ASSUME NEW c \in Connections, NEW p \in Paths, Connect(c, p) PROVE ChannelInv'
  <2>1. /\ conn[c] = "closed" /\ conn' = [conn EXCEPT ![c] = "accepting"]
        /\ path' = [path EXCEPT ![c] = p]
        /\ UNCHANGED <<process, subAgent, message, sent, kafka, client, failedCalls, dropped>>
    BY <1>1 DEF Connect
  <2>2. TypeOK'
    BY <2>1 DEF ChannelInv, TypeOK, ConnPc
  <2>3. HandsApart' /\ MemoryInv' /\ OneOutcome'
    BY <2>1 DEF ChannelInv, HandsApart, MemoryInv, OneOutcome
  <2>4. ASSUME NEW d \in Connections PROVE HandAt(d)'
    BY <2>1 DEF ChannelInv, HandAt, Undecided, TypeOK
  <2>5. ASSUME NEW q \in Paths PROVE HistoryAt(q)'
    BY <2>1 DEF ChannelInv, HistoryAt, TypeOK
  <2>. QED
    BY <2>2, <2>3, <2>4, <2>5 DEF ChannelInv
<1>2. ASSUME NEW c \in Connections, Attach(c) PROVE ChannelInv'
  <2>1. /\ conn[c] = "accepting" /\ conn' = [conn EXCEPT ![c] = "receiving"]
        /\ agents' = agents \cup {path[c]}
        /\ UNCHANGED <<process, path, message, sent, kafka, client, failedCalls, dropped>>
    BY <1>2 DEF Attach
  <2>2. path[c] \in Paths /\ history \in [Paths -> Seq(Entry)]
    BY DEF ChannelInv, TypeOK
  <2>3. path[c] \notin agents => history[path[c]] = <<>>
    BY <2>2 DEF ChannelInv, HistoryAt
  <2>4. history' = history
    BY <1>2, <2>2, <2>3 DEF Attach
  <2>5. TypeOK'
    BY <2>1, <2>2, <2>4 DEF ChannelInv, TypeOK, ConnPc
  <2>6. HandsApart' /\ MemoryInv' /\ OneOutcome'
    BY <2>1, <2>4 DEF ChannelInv, HandsApart, MemoryInv, OneOutcome
  <2>7. ASSUME NEW d \in Connections PROVE HandAt(d)'
    BY <2>1, <2>4 DEF ChannelInv, HandAt, Undecided, TypeOK
  <2>8. ASSUME NEW p \in Paths PROVE HistoryAt(p)'
    BY <2>1, <2>4 DEF ChannelInv, HistoryAt, TypeOK
  <2>. QED
    BY <2>5, <2>6, <2>7, <2>8 DEF ChannelInv
<1>3. CASE SessionEnds
  BY <1>3 DEF SessionEnds, ChannelInv, HandsApart, MemoryInv, OneOutcome, HandAt, HistoryAt,
       Undecided, TypeOK, ConnPc
<1>. QED
  BY <1>1, <1>2, <1>3

(* A message that one connection has in hand, no other has.                *)
LEMMA OthersHaveOthers ==
  ASSUME ChannelInv, NEW c \in Connections, NEW d \in Connections, d # c,
         conn[c] \notin {"closed", "accepting", "receiving"}
  PROVE  message[d] # message[c]
  BY InHandIsSent DEF ChannelInv, HandsApart

(* The model's call fails.                                                 *)
LEMMA CallFailsStep ==
  ASSUME ChannelInv, NEW c \in Connections, CallFails(c)
  PROVE  ChannelInv'
<1>1. /\ conn[c] = "thinking"
      /\ failedCalls' = failedCalls \cup {message[c]}
      /\ conn' = [conn EXCEPT ![c] = "reporting_error"]
      /\ UNCHANGED <<process, subAgent, path, message, sent, kafka, client, dropped>>
  BY DEF CallFails
<1>2. message[c] \in 1..sent /\ \A d \in Connections : d # c => message[d] # message[c]
  BY <1>1, InHandIsSent, OthersHaveOthers
<1>. USE DEF process, subAgent, kafka, client
<1>3. TypeOK'
  BY <1>1, <1>2 DEF ChannelInv, TypeOK, ConnPc
<1>4. HandsApart' /\ MemoryInv' /\ OneOutcome'
  BY <1>1, <1>2 DEF ChannelInv, HandsApart, MemoryInv, OneOutcome, HandAt, Undecided
<1>5. ASSUME NEW d \in Connections PROVE HandAt(d)'
  BY <1>1, <1>2 DEF ChannelInv, HandAt, Undecided, TypeOK
<1>6. ASSUME NEW p \in Paths PROVE HistoryAt(p)'
  BY <1>1, <1>2 DEF ChannelInv, HistoryAt, TypeOK
<1>. QED
  BY <1>3, <1>4, <1>5, <1>6 DEF ChannelInv

(* AGENT_RESPONSE is emitted, or is not: the reply is in the history.      *)
LEMMA EmitResponseStep ==
  ASSUME ChannelInv, NEW c \in Connections, EmitResponse(c)
  PROVE  ChannelInv'
<1>1. /\ conn[c] = "emitting_response"
      /\ responded' \in {responded, responded \cup {message[c]}}
      /\ conn' = [conn EXCEPT ![c] = "answering"]
      /\ UNCHANGED <<process, subAgent, path, message, sent, prompted, client, failedCalls, dropped>>
  BY DEF EmitResponse
<1>2. /\ message[c] \in 1..sent /\ path[c] \in Paths
      /\ \A d \in Connections : d # c => message[d] # message[c]
  BY <1>1, InHandIsSent, OthersHaveOthers
<1>. USE DEF process, subAgent, client
<1>3. TypeOK'
  BY <1>1, <1>2 DEF ChannelInv, TypeOK, ConnPc
<1>4. HandsApart' /\ MemoryInv' /\ OneOutcome'
  BY <1>1, <1>2 DEF ChannelInv, HandsApart, MemoryInv, OneOutcome, HandAt
<1>5. ASSUME NEW d \in Connections PROVE HandAt(d)'
  BY <1>1, <1>2 DEF ChannelInv, HandAt, Undecided, TypeOK
<1>6. ASSUME NEW p \in Paths PROVE HistoryAt(p)'
  BY <1>1, <1>2 DEF ChannelInv, HistoryAt, TypeOK
<1>. QED
  BY <1>3, <1>4, <1>5, <1>6 DEF ChannelInv

(* The client is answered, or told of the error, and the hand is empty.    *)
LEMMA AnswerStep ==
  ASSUME ChannelInv, NEW c \in Connections, Answer(c)
  PROVE  ChannelInv'
<1>1. /\ conn[c] \in {"answering", "reporting_error"}
      /\ \/ /\ conn[c] = "answering"
            /\ answered' = answered \cup {message[c]} /\ UNCHANGED refused
         \/ /\ conn[c] = "reporting_error"
            /\ refused' = refused \cup {message[c]} /\ UNCHANGED answered
      /\ conn' = [conn EXCEPT ![c] = "receiving"]
      /\ message' = [message EXCEPT ![c] = 0]
      /\ UNCHANGED <<process, subAgent, path, sent, kafka, failedCalls, dropped>>
  BY DEF Answer
<1>2. /\ message[c] \in 1..sent /\ path[c] \in Paths /\ path[c] \in agents
      /\ \A d \in Connections : d # c => message[d] # message[c]
  BY <1>1, InHandIsSent, OthersHaveOthers
<1>. USE DEF process, subAgent, kafka
<1>3. TypeOK'
  <2>1. message' \in [Connections -> 0..MaxMessages]
    BY <1>1, ChannelAssumption DEF ChannelInv, TypeOK
  <2>. QED
    BY <1>1, <1>2, <2>1 DEF ChannelInv, TypeOK, ConnPc
<1>4. HandsApart' /\ MemoryInv' /\ OneOutcome'
  <2>1. HandsApart'
    BY <1>1 DEF ChannelInv, HandsApart, TypeOK
  <2>2. conn[c] = "answering" => Has(history[path[c]], Assistant(message[c]))
    BY DEF ChannelInv, HandAt
  <2>3. MemoryInv'
    BY <1>1, <1>2, <2>2 DEF ChannelInv, MemoryInv
  <2>4. /\ conn[c] = "answering" => message[c] \notin refused \cup failedCalls
        /\ conn[c] = "reporting_error" => message[c] \notin answered
    BY DEF ChannelInv, HandAt
  <2>5. OneOutcome'
    BY <1>1, <2>4 DEF ChannelInv, OneOutcome
  <2>. QED
    BY <2>1, <2>3, <2>5
<1>5. ASSUME NEW d \in Connections PROVE HandAt(d)'
  BY <1>1, <1>2 DEF ChannelInv, HandAt, Undecided, TypeOK
<1>6. ASSUME NEW p \in Paths PROVE HistoryAt(p)'
  BY <1>1, <1>2 DEF ChannelInv, HistoryAt, TypeOK
<1>. QED
  BY <1>3, <1>4, <1>5, <1>6 DEF ChannelInv

(* A handler ends; what it had in hand, if anything, was decided.          *)
LEMMA HangUpStep ==
  ASSUME ChannelInv, NEW c \in Connections, HangUp(c)
  PROVE  ChannelInv'
<1>1. /\ conn[c] \in {"accepting", "receiving", "answering", "reporting_error"}
      /\ conn' = [conn EXCEPT ![c] = "closed"]
      /\ dropped' = dropped \cup InHand({c})
      /\ message' = [message EXCEPT ![c] = 0]
      /\ UNCHANGED <<process, subAgent, path, sent, kafka, client, failedCalls>>
  BY DEF HangUp
<1>. USE DEF process, subAgent, kafka, client
<1>2. InHand({c}) \subseteq 1..sent
  BY DEF ChannelInv, HandAt, TypeOK, InHand
<1>3. TypeOK'
  <2>1. message' \in [Connections -> 0..MaxMessages]
    BY <1>1, ChannelAssumption DEF ChannelInv, TypeOK
  <2>. QED
    BY <1>1, <1>2, <2>1 DEF ChannelInv, TypeOK, ConnPc
<1>4. HandsApart' /\ MemoryInv' /\ OneOutcome'
  BY <1>1 DEF ChannelInv, HandsApart, MemoryInv, OneOutcome, TypeOK
<1>5. ASSUME NEW d \in Connections PROVE HandAt(d)'
  BY <1>1 DEF ChannelInv, HandAt, Undecided, TypeOK
<1>6. ASSUME NEW p \in Paths PROVE HistoryAt(p)'
  BY <1>1 DEF ChannelInv, HistoryAt, TypeOK
<1>. QED
  BY <1>3, <1>4, <1>5, <1>6 DEF ChannelInv

(* A message is received: it is new, and no history knows it.              *)
LEMMA ReceiveStep ==
  ASSUME ChannelInv, NEW c \in Connections, Receive(c)
  PROVE  ChannelInv'
<1>. DEFINE m == sent + 1
<1>1. /\ conn[c] = "receiving" /\ sent < MaxMessages
      /\ sent' = m
      /\ message' = [message EXCEPT ![c] = m]
      /\ \/ conn' = [conn EXCEPT ![c] = "emitting_prompt"] /\ UNCHANGED history
         \/ /\ conn' = [conn EXCEPT ![c] = "thinking"]
            /\ history' = [history EXCEPT ![path[c]] = Append(@, User(m))]
      /\ UNCHANGED <<process, agents, path, kafka, client, failedCalls, dropped>>
  BY DEF Receive, BeginSend
<1>2. /\ sent \in Nat /\ m \in Nat /\ m \in 1..sent' /\ m \in Messages
      /\ 1..sent \subseteq 1..sent' /\ 0..sent \subseteq 0..sent' /\ m \notin 0..sent
      /\ sent' \in 0..MaxMessages /\ 0..sent' \subseteq 0..MaxMessages
      /\ 1..sent \subseteq Messages
  BY <1>1, ChannelAssumption DEF ChannelInv, TypeOK, Messages
<1>3. path[c] \in Paths /\ path[c] \in agents /\ User(m) \in Entry
  BY <1>1, <1>2 DEF ChannelInv, HandAt, TypeOK, Entry, User
<1>4. Undecided(m) /\ \A d \in Connections : message[d] \in 0..sent /\ message[d] # m
  BY <1>2 DEF ChannelInv, HandAt, TypeOK, Undecided
<1>5. \A p \in Paths : ~Has(history[p], User(m)) /\ ~Has(history[p], Assistant(m))
  BY <1>2 DEF ChannelInv, HistoryAt
<1>. HIDE DEF m
<1>. USE DEF process, kafka, client
<1>6. HandsApart' /\ OneOutcome' /\ message' \in [Connections -> 0..sent']
  BY <1>1, <1>2, <1>4 DEF ChannelInv, HandsApart, OneOutcome, TypeOK
<1>7. CASE conn' = [conn EXCEPT ![c] = "emitting_prompt"] /\ UNCHANGED history
  <2>1. TypeOK'
    BY <1>1, <1>2, <1>6, <1>7 DEF ChannelInv, TypeOK, ConnPc
  <2>2. MemoryInv'
    BY <1>1, <1>7 DEF ChannelInv, MemoryInv
  <2>3. ASSUME NEW d \in Connections PROVE HandAt(d)'
    BY <1>1, <1>2, <1>3, <1>4, <1>5, <1>7 DEF ChannelInv, HandAt, Undecided, TypeOK
  <2>4. ASSUME NEW p \in Paths PROVE HistoryAt(p)'
    BY <1>1, <1>2, <1>7 DEF ChannelInv, HistoryAt, TypeOK, Messages
  <2>. QED
    BY <1>6, <2>1, <2>2, <2>3, <2>4 DEF ChannelInv
<1>8. CASE /\ conn' = [conn EXCEPT ![c] = "thinking"]
           /\ history' = [history EXCEPT ![path[c]] = Append(@, User(m))]
  <2>. DEFINE q == path[c]
  <2>0. IsConversation(history[q]) /\ ~Has(history[q], User(m)) /\ User(m).role # "assistant"
    BY <1>3, <1>5, EntriesDiffer DEF ChannelInv, HistoryAt
  <2>1. /\ history' \in [Paths -> Seq(Entry)]
        /\ \A p \in Paths : p # q => history'[p] = history[p]
        /\ \A p \in Paths, x \in Entry :
             Has(history'[p], x) <=> Has(history[p], x) \/ (p = q /\ x = User(m))
        /\ IsConversation(history'[q])
    BY <1>3, <1>8, <2>0, HistoryGrows DEF ChannelInv
  <2>2. \A p \in Paths, n \in Messages :
          /\ Has(history'[p], User(n)) <=> Has(history[p], User(n)) \/ (p = q /\ n = m)
          /\ Has(history'[p], Assistant(n)) <=> Has(history[p], Assistant(n))
    BY <2>1, EntriesDiffer DEF Entry, User, Assistant
  <2>. HIDE DEF q
  <2>3. q = path[c]
    BY DEF q
  <2>4. TypeOK'
    BY <1>1, <1>2, <1>6, <1>8, <2>1 DEF ChannelInv, TypeOK, ConnPc
  <2>5. MemoryInv'
    BY <1>1, <1>2, <2>2 DEF ChannelInv, MemoryInv, TypeOK
  <2>6. ASSUME NEW d \in Connections PROVE HandAt(d)'
    <3>1. CASE d = c
      BY <1>1, <1>2, <1>3, <1>4, <1>5, <1>8, <2>2, <2>3, <3>1
         DEF ChannelInv, HandAt, Undecided, TypeOK
    <3>2. CASE d # c
      <4>1. /\ message'[d] = message[d] /\ conn'[d] = conn[d] /\ message[d] # m
            /\ message[d] \in 0..sent'
        BY <1>1, <1>2, <1>4, <1>8, <3>2 DEF ChannelInv, TypeOK
      <4>2. conn[d] \notin {"closed", "accepting", "receiving"} =>
              message[d] \in Messages /\ path[d] \in Paths
        BY InHandIsSent
      <4>. QED
        BY <1>1, <2>2, <4>1, <4>2 DEF ChannelInv, HandAt, Undecided
    <3>. QED
      BY <3>1, <3>2
  <2>7. ASSUME NEW p \in Paths PROVE HistoryAt(p)'
    BY <1>1, <1>2, <1>3, <1>8, <2>1, <2>2, <2>3 DEF ChannelInv, HistoryAt, TypeOK, Messages
  <2>. QED
    BY <1>6, <2>4, <2>5, <2>6, <2>7 DEF ChannelInv
<1>. QED
  BY <1>1, <1>7, <1>8

(* PROMPT_SENT is emitted, or is not, and the question is asked.           *)
LEMMA EmitPromptStep ==
  ASSUME ChannelInv, NEW c \in Connections, EmitPrompt(c)
  PROVE  ChannelInv'
<1>. DEFINE m == message[c]
            q == path[c]
<1>1. /\ conn[c] = "emitting_prompt"
      /\ prompted' \in {prompted, prompted \cup {m}}
      /\ conn' = [conn EXCEPT ![c] = "thinking"]
      /\ history' = [history EXCEPT ![q] = Append(@, User(m))]
      /\ UNCHANGED <<process, agents, path, message, sent, responded, client, failedCalls,
                     dropped>>
  BY DEF EmitPrompt, BeginSend
<1>2. /\ m \in 1..sent /\ m \in Messages /\ q \in Paths /\ q \in agents /\ User(m) \in Entry
      /\ \A d \in Connections : d # c => message[d] # m
  BY <1>1, InHandIsSent, OthersHaveOthers
<1>3. /\ Undecided(m)
      /\ \A p \in Paths : ~Has(history[p], User(m)) /\ ~Has(history[p], Assistant(m))
  BY <1>1 DEF ChannelInv, HandAt
<1>4. IsConversation(history[q]) /\ ~Has(history[q], User(m)) /\ User(m).role # "assistant"
  BY <1>2, <1>3, EntriesDiffer DEF ChannelInv, HistoryAt
<1>5. /\ history' \in [Paths -> Seq(Entry)]
      /\ \A p \in Paths : p # q => history'[p] = history[p]
      /\ \A p \in Paths, x \in Entry :
           Has(history'[p], x) <=> Has(history[p], x) \/ (p = q /\ x = User(m))
      /\ IsConversation(history'[q])
  BY <1>1, <1>2, <1>4, HistoryGrows DEF ChannelInv
<1>6. \A p \in Paths, n \in Messages :
        /\ Has(history'[p], User(n)) <=> Has(history[p], User(n)) \/ (p = q /\ n = m)
        /\ Has(history'[p], Assistant(n)) <=> Has(history[p], Assistant(n))
  BY <1>5, EntriesDiffer DEF Entry, User, Assistant
<1>7. 1..sent \subseteq Messages
  BY ChannelAssumption DEF ChannelInv, TypeOK, Messages
<1>8. m = message[c] /\ q = path[c]
  OBVIOUS
<1>. HIDE DEF m, q
<1>. USE DEF process, client
<1>9. TypeOK'
  BY <1>1, <1>2, <1>5 DEF ChannelInv, TypeOK, ConnPc
<1>10. HandsApart' /\ MemoryInv' /\ OneOutcome'
  BY <1>1, <1>6, <1>7 DEF ChannelInv, HandsApart, MemoryInv, OneOutcome, TypeOK
<1>11. ASSUME NEW d \in Connections PROVE HandAt(d)'
  <2>1. CASE d = c
    BY <1>1, <1>2, <1>3, <1>6, <1>8, <2>1 DEF ChannelInv, HandAt, Undecided, TypeOK
  <2>2. CASE d # c
    <3>1. conn'[d] = conn[d] /\ message[d] # m
      BY <1>1, <1>2, <2>2 DEF ChannelInv, TypeOK
    <3>2. conn[d] \notin {"closed", "accepting", "receiving"} =>
            message[d] \in Messages /\ path[d] \in Paths
      BY InHandIsSent
    <3>. QED
      BY <1>1, <1>6, <3>1, <3>2 DEF ChannelInv, HandAt, Undecided
  <2>. QED
    BY <2>1, <2>2
<1>12. ASSUME NEW p \in Paths PROVE HistoryAt(p)'
  BY <1>1, <1>2, <1>5, <1>6, <1>8 DEF ChannelInv, HistoryAt, TypeOK
<1>. QED
  BY <1>9, <1>10, <1>11, <1>12 DEF ChannelInv

(* The model answers: the reply goes behind the question, which only this  *)
(* history has.                                                            *)
LEMMA ReplyStep ==
  ASSUME ChannelInv, NEW c \in Connections, Reply(c)
  PROVE  ChannelInv'
<1>. DEFINE m == message[c]
            q == path[c]
<1>1. /\ conn[c] = "thinking"
      /\ \/ conn' = [conn EXCEPT ![c] = "emitting_response"]
         \/ conn' = [conn EXCEPT ![c] = "answering"]
      /\ history' = [history EXCEPT ![q] = Append(@, Assistant(m))]
      /\ UNCHANGED <<process, agents, path, message, sent, kafka, client, failedCalls, dropped>>
  BY DEF Reply
<1>2. /\ m \in 1..sent /\ m \in Messages /\ q \in Paths /\ q \in agents
      /\ User(m) \in Entry /\ Assistant(m) \in Entry
      /\ \A d \in Connections : d # c => message[d] # m
  BY <1>1, InHandIsSent, OthersHaveOthers
<1>3. /\ Undecided(m) /\ Has(history[q], User(m))
      /\ \A p \in Paths : ~Has(history[p], Assistant(m))
  BY <1>1 DEF ChannelInv, HandAt
<1>4. /\ IsConversation(history[q]) /\ ~Has(history[q], Assistant(m))
      /\ Assistant(m).of = m
  BY <1>2, <1>3, EntriesDiffer DEF ChannelInv, HistoryAt
<1>5. /\ history' \in [Paths -> Seq(Entry)]
      /\ \A p \in Paths : p # q => history'[p] = history[p]
      /\ \A p \in Paths, x \in Entry :
           Has(history'[p], x) <=> Has(history[p], x) \/ (p = q /\ x = Assistant(m))
      /\ IsConversation(history'[q])
  BY <1>1, <1>2, <1>3, <1>4, HistoryGrows DEF ChannelInv
<1>6. \A p \in Paths, n \in Messages :
        /\ Has(history'[p], User(n)) <=> Has(history[p], User(n))
        /\ Has(history'[p], Assistant(n)) <=> Has(history[p], Assistant(n)) \/ (p = q /\ n = m)
  BY <1>5, EntriesDiffer DEF Entry, User, Assistant
<1>7. 1..sent \subseteq Messages
  BY ChannelAssumption DEF ChannelInv, TypeOK, Messages
<1>8. m = message[c] /\ q = path[c]
  OBVIOUS
<1>. HIDE DEF m, q
<1>. USE DEF process, kafka, client
<1>9. TypeOK'
  BY <1>1, <1>2, <1>5 DEF ChannelInv, TypeOK, ConnPc
<1>10. HandsApart' /\ MemoryInv' /\ OneOutcome'
  BY <1>1, <1>6, <1>7 DEF ChannelInv, HandsApart, MemoryInv, OneOutcome, TypeOK
<1>11. ASSUME NEW d \in Connections PROVE HandAt(d)'
  <2>1. CASE d = c
    BY <1>1, <1>2, <1>3, <1>6, <1>8, <2>1 DEF ChannelInv, HandAt, Undecided, TypeOK
  <2>2. CASE d # c
    <3>1. conn'[d] = conn[d] /\ message[d] # m
      BY <1>1, <1>2, <2>2 DEF ChannelInv, TypeOK
    <3>2. conn[d] \notin {"closed", "accepting", "receiving"} =>
            message[d] \in Messages /\ path[d] \in Paths
      BY InHandIsSent
    <3>. QED
      BY <1>1, <1>6, <3>1, <3>2 DEF ChannelInv, HandAt, Undecided
  <2>. QED
    BY <2>1, <2>2
<1>12. ASSUME NEW p \in Paths PROVE HistoryAt(p)'
  <2>1. ASSUME NEW n \in Messages, Has(history'[p], User(n)), ~Has(history'[p], Assistant(n)),
               n \notin failedCalls'
        PROVE  \E d \in Connections : conn'[d] = "thinking" /\ path'[d] = p /\ message'[d] = n
    <3>1. PICK d \in Connections : conn[d] = "thinking" /\ path[d] = p /\ message[d] = n
      BY <1>1, <1>6, <2>1 DEF ChannelInv, HistoryAt
    <3>2. d # c
      BY <1>2, <1>6, <1>8, <2>1, <3>1
    <3>. QED
      BY <1>1, <3>1, <3>2 DEF ChannelInv, TypeOK
  <2>. QED
    BY <1>1, <1>2, <1>5, <1>6, <2>1 DEF ChannelInv, HistoryAt, TypeOK
<1>. QED
  BY <1>9, <1>10, <1>11, <1>12 DEF ChannelInv

(* A restart empties the histories and cuts every handler off.             *)
LEMMA RestartStep ==
  ASSUME ChannelInv, Restart
  PROVE  ChannelInv'
<1>1. /\ restarts < MaxRestarts /\ restarts' = restarts + 1
      /\ session' = "ABSENT" /\ producer' \in BOOLEAN
      /\ agents' = {} /\ history' = [p \in Paths |-> <<>>]
      /\ conn' = [c \in Connections |-> "closed"]
      /\ dropped' = dropped \cup InHand(Connections)
      /\ message' = [c \in Connections |-> 0]
      /\ UNCHANGED <<path, sent, kafka, client, failedCalls>>
  BY DEF Restart
<1>. USE DEF kafka, client
<1>2. InHand(Connections) \subseteq 1..sent
  BY DEF ChannelInv, HandAt, TypeOK, InHand
<1>3. restarts' \in 0..MaxRestarts /\ restarts' # 0 /\ 0 \in 0..MaxMessages /\ 0 \in 0..sent
  BY <1>1, ChannelAssumption DEF ChannelInv, TypeOK
<1>4. history' \in [Paths -> Seq(Entry)] /\ \A p \in Paths : history'[p] = <<>>
  BY <1>1
<1>5. TypeOK'
  BY <1>1, <1>2, <1>3, <1>4 DEF ChannelInv, TypeOK, ConnPc
<1>6. HandsApart' /\ MemoryInv' /\ OneOutcome'
  BY <1>1, <1>3 DEF ChannelInv, HandsApart, MemoryInv, OneOutcome
<1>7. ASSUME NEW d \in Connections PROVE HandAt(d)'
  BY <1>1, <1>3 DEF HandAt
<1>8. ASSUME NEW p \in Paths PROVE HistoryAt(p)'
  BY <1>4 DEF HistoryAt, IsConversation, Has
<1>. QED
  BY <1>5, <1>6, <1>7, <1>8 DEF ChannelInv

(* Nothing has been said.                                                  *)
LEMMA InitChannel == Init => ChannelInv
<1>. SUFFICES ASSUME Init PROVE ChannelInv
  OBVIOUS
<1>1. /\ 0 \in 0..MaxMessages /\ 0 \in 0..MaxRestarts /\ 0 \in 0..sent
      /\ history \in [Paths -> Seq(Entry)] /\ \A p \in Paths : history[p] = <<>>
  BY ChannelAssumption DEF Init
<1>2. TypeOK
  BY <1>1 DEF Init, TypeOK, ConnPc
<1>3. HandsApart /\ MemoryInv /\ OneOutcome
  BY DEF Init, HandsApart, MemoryInv, OneOutcome
<1>4. ASSUME NEW c \in Connections PROVE HandAt(c)
  BY <1>1 DEF Init, HandAt
<1>5. ASSUME NEW p \in Paths PROVE HistoryAt(p)
  BY <1>1 DEF HistoryAt, IsConversation, Has
<1>. QED
  BY <1>2, <1>3, <1>4, <1>5 DEF ChannelInv

(* Every step keeps the invariant.                                         *)
LEMMA NextChannel == ChannelInv /\ [Next]_vars => ChannelInv'
<1>. SUFFICES ASSUME ChannelInv, [Next]_vars PROVE ChannelInv'
  OBVIOUS
<1>1. ASSUME NEW c \in Connections,
             Receive(c) \/ HangUp(c) \/ Handling(c) \/ \E p \in Paths : Connect(c, p)
      PROVE  ChannelInv'
  BY <1>1, IdleSteps, EmitPromptStep, ReplyStep, CallFailsStep, EmitResponseStep, AnswerStep,
     HangUpStep, ReceiveStep DEF Handling
<1>2. CASE SessionEnds
  BY <1>2, IdleSteps
<1>3. CASE Restart
  BY <1>3, RestartStep
<1>4. CASE UNCHANGED vars
  BY <1>4 DEF vars, ChannelInv, TypeOK, HandsApart, MemoryInv, OneOutcome, HandAt, HistoryAt,
       Undecided
<1>. QED
  BY <1>1, <1>2, <1>3, <1>4 DEF Next

(* The invariant of the channel.                                           *)
LEMMA ChannelInvHolds == Spec => []ChannelInv
  BY InitChannel, NextChannel, PTL DEF Spec

(* Every variable of the channel keeps its type: histories are sequences   *)
(* of entries about real messages, and every outcome is that of a message  *)
(* a client has sent.                                                      *)
THEOREM ChannelTyped == Spec => []TypeOK
<1>1. ChannelInv => TypeOK
  BY DEF ChannelInv
<1>. QED
  BY <1>1, ChannelInvHolds, PTL

(* Where a conversation has an entry, and how often.                       *)
LEMMA PositionInConversation ==
  ASSUME NEW p \in Paths, NEW e, IsConversation(history[p])
  PROVE  /\ Has(history[p], e) <=> Position(p, e) # {}
         /\ Cardinality(Position(p, e)) <= 1
<1>1. Has(history[p], e) <=> Position(p, e) # {}
  BY DEF Has, Position
<1>2. CASE Position(p, e) = {}
  BY <1>1, <1>2, FS_EmptySet
<1>3. CASE Position(p, e) # {}
  <2>1. PICK i : i \in Position(p, e)
    BY <1>3
  <2>2. Position(p, e) = {i}
    BY <2>1 DEF Position, IsConversation
  <2>. QED
    BY <1>1, <2>2, FS_Singleton
<1>. QED
  BY <1>2, <1>3

(* Connections that share a SubAgent, under any interleaving of their      *)
(* awaits, keep its _history a conversation: no entry twice, every reply   *)
(* after its question, and every open question in the hand of a connection *)
(* that waits for the model, or failed.                                    *)
THEOREM SharedConversation == Spec => []SharedHistoryIsSound
<1>1. ASSUME ChannelInv PROVE SharedHistoryIsSound
  <2>1. ASSUME NEW p \in Paths, NEW m \in Messages
        PROVE  /\ Cardinality(Position(p, User(m))) <= 1
               /\ Cardinality(Position(p, Assistant(m))) <= 1
               /\ \A i \in Position(p, Assistant(m)) : \E j \in Position(p, User(m)) : j < i
    <3>1. IsConversation(history[p])
      BY <1>1 DEF ChannelInv, HistoryAt
    <3>2. ASSUME NEW i \in Position(p, Assistant(m))
          PROVE  \E j \in Position(p, User(m)) : j < i
      <4>1. i \in DOMAIN history[p] /\ history[p][i] = Assistant(m)
        BY <3>2 DEF Position
      <4>2. history[p][i].role = "assistant" /\ history[p][i].of = m
        BY <4>1 DEF Assistant
      <4>. QED
        BY <3>1, <4>1, <4>2 DEF IsConversation, Position
    <3>. QED
      BY <3>1, <3>2, PositionInConversation
  <2>2. ASSUME NEW p \in Paths, NEW m \in Messages,
               Position(p, User(m)) # {}, Position(p, Assistant(m)) = {}
        PROVE  \/ m \in failedCalls
               \/ \E c \in Connections : conn[c] = "thinking" /\ path[c] = p /\ message[c] = m
    <3>1. Has(history[p], User(m)) /\ ~Has(history[p], Assistant(m))
      BY <2>2 DEF Position, Has
    <3>. QED
      BY <1>1, <3>1 DEF ChannelInv, HistoryAt
  <2>. QED
    BY <2>1, <2>2 DEF SharedHistoryIsSound, RepliesFollowPrompts, HistoryBalances
<1>. QED
  BY <1>1, ChannelInvHolds, PTL

(* Until a restart, a reply that a client was shown or that was reported   *)
(* as AGENT_RESPONSE is in the history a later prompt builds on.           *)
THEOREM AnswersAreRemembered == Spec => []AnsweredIsRemembered
<1>1. ASSUME ChannelInv PROVE AnsweredIsRemembered
  <2>1. ASSUME NEW p \in Paths, NEW m, Has(history[p], Assistant(m))
        PROVE  Position(p, Assistant(m)) # {}
    BY <2>1 DEF Has, Position
  <2>. QED
    BY <1>1, <2>1 DEF ChannelInv, MemoryInv, AnsweredIsRemembered
<1>. QED
  BY <1>1, ChannelInvHolds, PTL

(* No message is both answered and refused, and no failed call has an      *)
(* AGENT_RESPONSE.                                                         *)
THEOREM OutcomesExclude == Spec => []OneOutcome
<1>1. ChannelInv => OneOutcome
  BY DEF ChannelInv
<1>. QED
  BY <1>1, ChannelInvHolds, PTL
=============================================================================
