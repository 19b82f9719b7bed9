------------------------- MODULE SessionScoresProofs -------------------------
(***************************************************************************)
(* What SessionScores computes, for every input.  Its folds and its median *)
(* are defined by CHOOSE; here are the facts that proofs need of them: a   *)
(* sum is the same in every order, a list has an n-th value that depends   *)
(* on how many are smaller and not on where they are, and the graph of a   *)
(* longer list is that of the shorter one with the further events added.   *)
(* Where that takes induction, it is the least counterexample among the    *)
(* natural numbers that is refuted.                                        *)
(***************************************************************************)
EXTENDS SessionScores, FiniteSetTheorems, TLAPS

(* A set of numbers has a least one.                                       *)
LEMMA LeastNatural ==
  ASSUME NEW S \in SUBSET Nat, S # {}
  PROVE  Min(S) \in S /\ \A x \in S : Min(S) <= x
<1> DEFINE Less == {xy \in Nat \X Nat : xy[1] < xy[2]}
<1>1. \A x, y \in Nat : x < y => <<x, y>> \in Less
  OBVIOUS
<1>2. IsWellFoundedOn(Less, Nat)
  BY NatLessThanWellFounded DEF OpToRel
<1> HIDE DEF Less
<1>3. PICK x \in S : \A y \in S : <<y, x>> \notin Less
  BY <1>2, WFMin
<1>4. ASSUME NEW y \in S PROVE x <= y
  <2>1. x \in Nat /\ y \in Nat
    OBVIOUS
  <2>2. ~(y < x)
    BY <1>1, <1>3, <2>1
  <2> QED
    BY <2>1, <2>2
<1> QED
  BY <1>4 DEF Min

(* Induction, about a set of numbers.                                      *)
LEMMA CountUp ==
  ASSUME NEW M, 0 \in M, \A n \in Nat : n \in M => n + 1 \in M
  PROVE  Nat \subseteq M
<1> SUFFICES ASSUME Nat \ M # {} PROVE FALSE
  OBVIOUS
<1> DEFINE n == Min(Nat \ M)
<1>1. n \in Nat \ M /\ \A x \in Nat \ M : n <= x
  BY LeastNatural
<1> HIDE DEF n
<1>2. n # 0
  BY <1>1
<1>3. n - 1 \in Nat /\ n - 1 \in M /\ n = (n - 1) + 1
  BY <1>1, <1>2
<1> QED
  BY <1>1, <1>3

(* A set of numbers up to n has a greatest one.                            *)
LEMMA GreatestUpTo ==
  ASSUME NEW n \in Nat, NEW S \in SUBSET (1..n), S # {}
  PROVE  Max(S) \in S /\ \A x \in S : x <= Max(S)
<1> DEFINE D == {n - x : x \in S}
<1>1. D \in SUBSET Nat /\ D # {}
  <2>1. \A x \in S : x \in 1..n /\ n - x \in Nat
    OBVIOUS
  <2> QED
    BY <2>1
<1>2. Min(D) \in D /\ \A d \in D : Min(D) <= d
  BY <1>1, LeastNatural
<1>3. PICK x \in S : Min(D) = n - x
  BY <1>2
<1>4. \A y \in S : n - x <= n - y
  BY <1>2, <1>3
<1>5. \A y \in S : x >= y
  BY <1>4
<1>6. \E y \in S : \A z \in S : y >= z
  BY <1>5
<1>7. Max(S) \in S /\ \A z \in S : Max(S) >= z
  BY <1>6 DEF Max
<1> QED
  BY <1>7

(* The greater and the lesser of two numbers.                              *)
LEMMA OfTwo ==
  ASSUME NEW a \in Int, NEW b \in Int
  PROVE  /\ Max({a, b}) = IF a >= b THEN a ELSE b
         /\ Min({a, b}) = IF a <= b THEN a ELSE b
<1>1. CASE a >= b
  BY <1>1 DEF Max, Min
<1>2. CASE ~(a >= b)
  BY <1>2 DEF Max, Min
<1> QED
  BY <1>1, <1>2

(* Subsets of a finite set, and what is left without one element.          *)
LEMMA Subsets ==
  ASSUME NEW D, IsFiniteSet(D), NEW s \in SUBSET D
  PROVE  /\ IsFiniteSet(s) /\ Cardinality(s) \in Nat /\ Cardinality(s) <= Cardinality(D)
         /\ Cardinality(s) = 0 <=> s = {}
         /\ \A x \in s : /\ s \ {x} \in SUBSET D
                         /\ Cardinality(s \ {x}) = Cardinality(s) - 1
<1>1. IsFiniteSet(s) /\ Cardinality(s) <= Cardinality(D)
  BY FS_Subset
<1>2. Cardinality(s) \in Nat
  BY <1>1, FS_CardinalityType
<1>3. Cardinality(s) = 0 <=> s = {}
  BY <1>1, FS_EmptySet
<1>4. ASSUME NEW x \in s
      PROVE  s \ {x} \in SUBSET D /\ Cardinality(s \ {x}) = Cardinality(s) - 1
  BY <1>1, FS_RemoveElement
<1> QED
  BY <1>1, <1>2, <1>3, <1>4

(* The positions of a list are finitely many.                              *)
LEMMA Interval ==
  ASSUME NEW n \in Nat
  PROVE  IsFiniteSet(1..n) /\ Cardinality(1..n) = n
<1>1. n \in Int /\ 1 \in Int
  OBVIOUS
<1> QED
  BY <1>1, FS_Interval

(* Sets of positions are finite, and a new position is one more.           *)
LEMMA Positions ==
  ASSUME NEW S, NEW list \in Seq(S), NEW P \in SUBSET DOMAIN list
  PROVE  /\ IsFiniteSet(P) /\ Cardinality(P) \in Nat
         /\ Cardinality(P) <= Len(list)
         /\ Cardinality(P) = 0 <=> P = {}
         /\ Cardinality(P \cup {Len(list) + 1}) = Cardinality(P) + 1
         /\ Len(list) + 1 \notin P
<1> DEFINE D == 1..Len(list)
<1>1. P \in SUBSET D /\ Len(list) \in Nat /\ Len(list) + 1 \notin P
  OBVIOUS
<1>2. IsFiniteSet(D) /\ Cardinality(D) = Len(list)
  BY <1>1, Interval
<1> HIDE DEF D
<1>3. /\ IsFiniteSet(P) /\ Cardinality(P) \in Nat /\ Cardinality(P) <= Len(list)
      /\ Cardinality(P) = 0 <=> P = {}
  BY <1>1, <1>2, Subsets
<1>4. Cardinality(P \cup {Len(list) + 1}) = Cardinality(P) + 1
  BY <1>1, <1>3, FS_AddElement
<1> QED
  BY <1>1, <1>3, <1>4

(* Sets that correspond one to one have as many elements.                  *)
LEMMA AsMany ==
  ASSUME NEW A, NEW B, NEW p, IsFiniteSet(A),
         \A x \in A : p[x] \in B,
         \A x, y \in A : p[x] = p[y] => x = y,
         \A y \in B : \E x \in A : y = p[x]
  PROVE  IsFiniteSet(B) /\ Cardinality(B) = Cardinality(A)
<1> DEFINE q == [x \in A |-> p[x]]
<1>1. q \in [A -> B] /\ \A x \in A : q[x] = p[x]
  OBVIOUS
<1> HIDE DEF q
<1>2. IsInjective(q)
  BY <1>1 DEF IsInjective
<1>3. q \in Bijection(A, B)
  BY <1>1, <1>2 DEF Bijection, Injection, Surjection
<1>4. ExistsBijection(A, B)
  BY <1>3 DEF ExistsBijection
<1> QED
  BY <1>4, FS_Bijection

-----------------------------------------------------------------------------
(* Sums.  SumFunction takes the places away one by one, in whatever order  *)
(* CHOOSE has; the sum is the same in every order.                         *)
IsSum(h, f, D) ==
  /\ h[{}] = 0
  /\ \A s \in SUBSET D : h[s] \in Nat /\ \A x \in s : h[s] = f[x] + h[s \ {x}]

(* SumFunctionOnSet is such a sum: the function the fold of the library    *)
(* chooses exists, because it can be built one element at a time.          *)
LEMMA SumExists ==
  ASSUME NEW D, IsFiniteSet(D), NEW f, \A x \in D : f[x] \in Nat
  PROVE  \E h : IsSum(h, f, D) /\ SumFunctionOnSet(f, D) = h[D]
<1> DEFINE c(s) == CHOOSE x \in s : TRUE
           Turn(h, s) == IF s = {} THEN 0 ELSE f[c(s)] + h[s \ {c(s)}]
           Sub(k) == {s \in SUBSET D : Cardinality(s) <= k}
           Good(k) == \E h : h = [s \in Sub(k) |-> Turn(h, s)]
           M == {k \in Nat : Good(k)}
<1>0. ASSUME NEW s, s # {} PROVE c(s) \in s
  BY <1>0
<1>1. 0 \in M
  <2> DEFINE h == [s \in Sub(0) |-> 0]
  <2>1. \A s \in Sub(0) : s = {}
    BY Subsets
  <2>2. h = [s \in Sub(0) |-> Turn(h, s)]
    BY <2>1
  <2>3. Good(0)
    BY <2>2
  <2> HIDE DEF Good
  <2> QED
    BY <2>3
<1>2. ASSUME NEW k \in Nat, k \in M PROVE k + 1 \in M
  <2>1. PICK h : h = [s \in Sub(k) |-> Turn(h, s)]
    BY <1>2
  <2> DEFINE g == [s \in Sub(k + 1) |-> Turn(h, s)]
  <2>2. ASSUME NEW s \in Sub(k + 1), s # {}
        PROVE  s \ {c(s)} \in Sub(k) /\ s \ {c(s)} \in Sub(k + 1)
    <3>1. PICK m : m \in s /\ m = c(s)
      BY <1>0, <2>2
    <3>2. s \ {m} \in SUBSET D /\ Cardinality(s \ {m}) = Cardinality(s) - 1
      <4>1. IsFiniteSet(D) /\ s \in SUBSET D /\ m \in s
        BY <3>1
      <4> QED
        BY ONLY <4>1, Subsets
    <3>3. Cardinality(s \ {m}) <= k /\ Cardinality(s \ {m}) <= k + 1
      <4>1. Cardinality(s) \in Nat /\ Cardinality(s) <= k + 1
        BY Subsets
      <4> QED
        BY <3>2, <4>1
    <3> QED
      BY <3>1, <3>2, <3>3
  <2>3. Sub(k) \subseteq Sub(k + 1)
    BY Subsets
  <2>4. ASSUME NEW s \in Sub(k) PROVE g[s] = h[s]
    BY <2>1, <2>3
  <2>5. ASSUME NEW s \in Sub(k + 1) PROVE Turn(h, s) = Turn(g, s)
    <3>1. CASE s # {}
      <4>1. PICK r : r = s \ {c(s)}
        OBVIOUS
      <4>2. g[r] = h[r]
        BY <2>2, <2>4, <3>1, <4>1
      <4> QED
        BY <4>1, <4>2
    <3> QED
      BY <3>1
  <2>6. g = [s \in Sub(k + 1) |-> Turn(g, s)]
    BY <2>5
  <2> HIDE DEF g, Turn, Sub
  <2>7. Good(k + 1)
    BY <2>6
  <2> QED
    BY <2>7
<1>3. Good(Cardinality(D))
  <2>1. Nat \subseteq M
    BY <1>1, <1>2, CountUp
  <2>2. Cardinality(D) \in Nat
    BY FS_CardinalityType
  <2> QED
    BY <2>1, <2>2
<1>4. Sub(Cardinality(D)) = SUBSET D
  BY Subsets
<1> DEFINE it == CHOOSE h : h = [s \in SUBSET D |-> Turn(h, s)]
<1>5. it = [s \in SUBSET D |-> Turn(it, s)]
  <2> HIDE DEF c
  <2> QED
    BY <1>3, <1>4
<1>6. SumFunctionOnSet(f, D) = it[D]
  BY DEF SumFunctionOnSet, FoldFunctionOnSet, MapThenFoldSet
<1> HIDE DEF it
<1>7. it[{}] = 0
  BY <1>5
<1>8. ASSUME NEW s \in SUBSET D, s # {} PROVE c(s) \in s /\ it[s] = f[c(s)] + it[s \ {c(s)}]
  BY <1>0, <1>5, <1>8
<1> HIDE DEF c, Turn, Sub, Good, M
<1> DEFINE Free(s) == it[s] \in Nat /\ \A x \in s : it[s] = f[x] + it[s \ {x}]
           N == {k \in Nat : \A s \in SUBSET D : Cardinality(s) <= k => Free(s)}
<1>9. 0 \in N
  <2>1. ASSUME NEW s \in SUBSET D, Cardinality(s) <= 0 PROVE Free(s)
    <3>1. s = {}
      BY <2>1, Subsets
    <3> QED
      BY <1>7, <3>1
  <2> QED
    BY <2>1
<1>10. ASSUME NEW k \in Nat, k \in N PROVE k + 1 \in N
  <2>1. ASSUME NEW s \in SUBSET D, Cardinality(s) <= k + 1, s # {} PROVE Free(s)
    <3>1. PICK m \in s : it[s] = f[m] + it[s \ {m}]
      BY <1>8, <2>1
    <3>2. ASSUME NEW x \in s PROVE s \ {x} \in SUBSET D /\ Cardinality(s \ {x}) <= k
      <4>1. Cardinality(s \ {x}) = Cardinality(s) - 1 /\ Cardinality(s) \in Nat
        BY Subsets
      <4> QED
        BY <2>1, <4>1
    <3>3. ASSUME NEW x \in s PROVE Free(s \ {x})
      BY <1>10, <3>2
    <3>4. ASSUME NEW x \in s, x # m PROVE it[s] = f[x] + it[s \ {x}]
      <4>1. it[s \ {m}] = f[x] + it[(s \ {m}) \ {x}]
        <5>1. Free(s \ {m}) /\ x \in s \ {m}
          BY <3>3, <3>4
        <5> QED
          BY ONLY <5>1
      <4>2. it[s \ {x}] = f[m] + it[(s \ {x}) \ {m}]
        <5>1. Free(s \ {x}) /\ m \in s \ {x}
          BY <3>3, <3>4
        <5> QED
          BY ONLY <5>1
      <4>3. (s \ {m}) \ {x} = (s \ {x}) \ {m}
        OBVIOUS
      <4>4. it[(s \ {x}) \ {m}] \in Nat
        <5>1. (s \ {x}) \ {m} \in SUBSET D /\ Cardinality((s \ {x}) \ {m}) <= k
          <6>1. PICK rest : rest = s \ {x} /\ m \in rest /\ rest \in SUBSET D
            BY <3>4
          <6>2. Cardinality(rest \ {m}) = Cardinality(rest) - 1 /\ Cardinality(rest) \in Nat
            BY <6>1, Subsets
          <6> QED
            BY <3>2, <6>1, <6>2
        <5> QED
          BY <1>10, <5>1
      <4>5. f[x] \in Nat /\ f[m] \in Nat
        OBVIOUS
      <4>6. \A a, b, y \in Nat : a + (b + y) = b + (a + y)
        OBVIOUS
      <4>7. it[s] = f[m] + (f[x] + it[(s \ {x}) \ {m}])
        BY <3>1, <4>1, <4>3
      <4> QED
        BY <4>2, <4>4, <4>5, <4>6, <4>7
    <3>5. it[s] \in Nat
      <4>1. f[m] \in Nat /\ it[s \ {m}] \in Nat
        BY <3>3
      <4> QED
        BY <3>1, <4>1
    <3> QED
      BY <3>1, <3>4, <3>5
  <2>2. ASSUME NEW s \in SUBSET D, s = {} PROVE Free(s)
    BY <1>7, <2>2
  <2> QED
    BY <2>1, <2>2
<1>11. Nat \subseteq N
  <2> HIDE DEF N
  <2> QED
    BY <1>9, <1>10, CountUp
<1>12. ASSUME NEW s \in SUBSET D PROVE Free(s)
  <2>1. Cardinality(D) \in N
    BY <1>11, FS_CardinalityType
  <2>2. Cardinality(s) <= Cardinality(D)
    BY Subsets
  <2> QED
    BY <2>1, <2>2
<1>13. IsSum(it, f, D)
  BY <1>7, <1>12 DEF IsSum
<1> QED
  BY <1>6, <1>13

(* A smaller sum of the same numbers is a part of the greater one.         *)
LEMMA SumAgrees ==
  ASSUME NEW D, IsFiniteSet(D), NEW E \in SUBSET D, NEW h, NEW f, NEW k, NEW e,
         IsSum(h, f, D), IsSum(k, e, E), \A x \in E : e[x] = f[x]
  PROVE  \A s \in SUBSET E : k[s] = h[s]
<1> DEFINE M == {n \in Nat : \A s \in SUBSET E : Cardinality(s) <= n => k[s] = h[s]}
<1>1. \A s \in SUBSET E : Cardinality(s) <= 0 => s = {}
  BY Subsets
<1>2. 0 \in M
  BY <1>1 DEF IsSum
<1>3. ASSUME NEW n \in Nat, n \in M PROVE n + 1 \in M
  <2>1. ASSUME NEW s \in SUBSET E, Cardinality(s) <= n + 1 PROVE k[s] = h[s]
    <3>1. CASE s = {}
      BY <3>1 DEF IsSum
    <3>2. CASE s # {}
      <4>1. PICK x : x \in s
        BY <3>2
      <4>2. s \in SUBSET D /\ s \ {x} \in SUBSET E
        OBVIOUS
      <4>3. Cardinality(s \ {x}) <= n
        <5>1. Cardinality(s \ {x}) = Cardinality(s) - 1 /\ Cardinality(s) \in Nat
          BY <4>1, <4>2, Subsets
        <5> QED
          BY <2>1, <5>1
      <4>4. k[s \ {x}] = h[s \ {x}]
        BY <1>3, <4>2, <4>3
      <4>5. k[s] = e[x] + k[s \ {x}] /\ h[s] = f[x] + h[s \ {x}]
        BY <4>1, <4>2 DEF IsSum
      <4> QED
        BY <4>1, <4>4, <4>5
    <3> QED
      BY <3>1, <3>2
  <2> QED
    BY <2>1
<1>4. Nat \subseteq M
  <2> HIDE DEF M
  <2> QED
    BY <1>2, <1>3, CountUp
<1>5. ASSUME NEW s \in SUBSET E PROVE k[s] = h[s]
  <2>1. Cardinality(D) \in M
    BY <1>4, FS_CardinalityType
  <2>2. Cardinality(s) <= Cardinality(D)
    BY Subsets
  <2> QED
    BY <2>1, <2>2
<1> QED
  BY <1>5

(* The sum of numbers is a number, and 0 if there are none.                *)
LEMMA SumIsNatural ==
  ASSUME NEW f, IsFiniteSet(DOMAIN f), \A x \in DOMAIN f : f[x] \in Nat
  PROVE  SumFunction(f) \in Nat /\ (DOMAIN f = {} => SumFunction(f) = 0)
<1>1. PICK h : IsSum(h, f, DOMAIN f) /\ SumFunctionOnSet(f, DOMAIN f) = h[DOMAIN f]
  BY SumExists
<1>2. SumFunction(f) = h[DOMAIN f]
  BY <1>1 DEF SumFunction
<1> QED
  BY <1>1, <1>2 DEF IsSum

(* A further number is added.                                              *)
LEMMA SumOfMore ==
  ASSUME NEW D, IsFiniteSet(D), NEW x, x \notin D, NEW f, NEW g,
         DOMAIN f = D \cup {x}, DOMAIN g = D,
         \A y \in D \cup {x} : f[y] \in Nat, \A y \in D : g[y] = f[y]
  PROVE  SumFunction(f) = f[x] + SumFunction(g)
<1>1. IsFiniteSet(D \cup {x})
  BY FS_AddElement
<1>2. PICK h : IsSum(h, f, D \cup {x}) /\ SumFunctionOnSet(f, D \cup {x}) = h[D \cup {x}]
  BY <1>1, SumExists
<1>3. PICK k : IsSum(k, g, D) /\ SumFunctionOnSet(g, D) = k[D]
  BY SumExists
<1>4. k[D] = h[D]
  <2>1. D \in SUBSET (D \cup {x}) /\ D \in SUBSET D /\ \A y \in D : g[y] = f[y]
    OBVIOUS
  <2>2. \A s \in SUBSET D : k[s] = h[s]
    <3> DEFINE A == D \cup {x}
    <3>1. /\ IsFiniteSet(A) /\ D \in SUBSET A /\ IsSum(h, f, A) /\ IsSum(k, g, D)
          /\ \A y \in D : g[y] = f[y]
      BY <1>1, <1>2, <1>3, <2>1
    <3> HIDE DEF A
    <3> QED
      BY ONLY <3>1, SumAgrees
  <2> QED
    BY <2>1, <2>2
<1>5. h[D \cup {x}] = f[x] + h[D]
  <2>1. (D \cup {x}) \ {x} = D
    OBVIOUS
  <2> DEFINE A == D \cup {x}
  <2>2. IsSum(h, f, A) /\ A \in SUBSET A /\ x \in A
    BY <1>2
  <2>3. h[A] = f[x] + h[A \ {x}]
    BY ONLY <2>2 DEF IsSum
  <2> QED
    BY <2>1, <2>3
<1> QED
  BY <1>2, <1>3, <1>4, <1>5 DEF SumFunction

(* Moving the numbers to other places does not change their sum.           *)
LEMMA SumMoves ==
  ASSUME NEW f, NEW g, NEW p, IsFiniteSet(DOMAIN f), IsFiniteSet(DOMAIN g),
         \A x \in DOMAIN f : f[x] \in Nat, \A y \in DOMAIN g : g[y] \in Nat,
         \A x \in DOMAIN f : p[x] \in DOMAIN g /\ g[p[x]] = f[x],
         \A x, y \in DOMAIN f : p[x] = p[y] => x = y,
         \A y \in DOMAIN g : \E x \in DOMAIN f : y = p[x]
  PROVE  SumFunction(f) = SumFunction(g)
<1> DEFINE D == DOMAIN f
           To(s) == {p[x] : x \in s}
<1>1. PICK h : IsSum(h, f, D) /\ SumFunctionOnSet(f, D) = h[D]
  BY SumExists
<1>2. PICK k : IsSum(k, g, DOMAIN g) /\ SumFunctionOnSet(g, DOMAIN g) = k[DOMAIN g]
  BY SumExists
<1> DEFINE M == {n \in Nat : \A s \in SUBSET D : Cardinality(s) <= n => h[s] = k[To(s)]}
<1>3. 0 \in M
  <2>1. \A s \in SUBSET D : Cardinality(s) <= 0 => s = {}
    BY Subsets
  <2>2. To({}) = {}
    OBVIOUS
  <2> HIDE DEF To
  <2> QED
    BY <1>1, <1>2, <2>1, <2>2 DEF IsSum
<1>4. ASSUME NEW n \in Nat, n \in M PROVE n + 1 \in M
  <2>1. ASSUME NEW s \in SUBSET D, Cardinality(s) <= n + 1 PROVE h[s] = k[To(s)]
    <3>1. CASE s = {}
      <4>1. To(s) = {}
        BY <3>1
      <4> HIDE DEF To
      <4> QED
        BY <1>1, <1>2, <3>1, <4>1 DEF IsSum
    <3>2. CASE s # {}
      <4>1. PICK x : x \in s
        BY <3>2
      <4>2. s \ {x} \in SUBSET D /\ To(s) \in SUBSET DOMAIN g /\ p[x] \in To(s)
        BY <4>1
      <4>3. Cardinality(s \ {x}) <= n
        <5>1. Cardinality(s \ {x}) = Cardinality(s) - 1 /\ Cardinality(s) \in Nat
          BY <4>1, Subsets
        <5> QED
          BY <2>1, <5>1
      <4>4. To(s \ {x}) = To(s) \ {p[x]}
        BY <4>1
      <4>5. g[p[x]] = f[x]
        BY <4>1
      <4> HIDE DEF To
      <4>6. h[s \ {x}] = k[To(s \ {x})]
        BY <1>4, <4>2, <4>3
      <4>7. h[s] = f[x] + h[s \ {x}]
        BY <1>1, <4>1, <4>2 DEF IsSum
      <4>8. k[To(s)] = g[p[x]] + k[To(s) \ {p[x]}]
        BY <1>2, <4>2 DEF IsSum
      <4> QED
        BY <4>4, <4>5, <4>6, <4>7, <4>8
    <3> QED
      BY <3>1, <3>2
  <2> HIDE DEF To
  <2> QED
    BY <2>1
<1>5. Nat \subseteq M
  <2> HIDE DEF M
  <2> QED
    BY <1>3, <1>4, CountUp
<1>6. h[D] = k[To(D)]
  <2>1. Cardinality(D) \in M
    BY <1>5, FS_CardinalityType
  <2>2. Cardinality(D) <= Cardinality(D)
    BY FS_CardinalityType
  <2> HIDE DEF To, D
  <2> QED
    BY <2>1, <2>2
<1>7. To(D) = DOMAIN g
  OBVIOUS
<1> QED
  BY <1>1, <1>2, <1>6, <1>7 DEF SumFunction

-----------------------------------------------------------------------------
(* Order statistics.  How many values are below, or not above, x.          *)
Below(values, x)    == {i \in DOMAIN values : values[i] < x}

NotAbove(values, x) == {i \in DOMAIN values : values[i] <= x}

(* Finitely many natural numbers.                                          *)
Naturals(values) ==
  IsFiniteSet(DOMAIN values) /\ \A i \in DOMAIN values : values[i] \in Nat

(* So many are numbers, no greater than the number of values.              *)
LEMMA Counts ==
  ASSUME NEW values, Naturals(values), NEW x
  PROVE  /\ Cardinality(Below(values, x)) \in Nat
         /\ Cardinality(NotAbove(values, x)) \in Nat
         /\ Cardinality(NotAbove(values, x)) <= Cardinality(DOMAIN values)
         /\ Cardinality(DOMAIN values) \in Nat
<1>1. Below(values, x) \in SUBSET DOMAIN values /\ NotAbove(values, x) \in SUBSET DOMAIN values
  BY DEF Below, NotAbove
<1> QED
  BY <1>1, Subsets, FS_CardinalityType DEF Naturals

(* The greater x, the more values are below it.                            *)
LEMMA CountsGrow ==
  ASSUME NEW values, Naturals(values), NEW x \in Nat, NEW y \in Nat
  PROVE  /\ x < y => Cardinality(NotAbove(values, x)) <= Cardinality(Below(values, y))
         /\ x <= y => Cardinality(NotAbove(values, x)) <= Cardinality(NotAbove(values, y))
         /\ x <= y => Cardinality(Below(values, x)) <= Cardinality(Below(values, y))
<1>1. IsFiniteSet(Below(values, y)) /\ IsFiniteSet(NotAbove(values, y))
  <2>1. Below(values, y) \in SUBSET DOMAIN values /\ NotAbove(values, y) \in SUBSET DOMAIN values
    BY DEF Below, NotAbove
  <2> QED
    BY <2>1, Subsets DEF Naturals
<1>2. /\ x < y => NotAbove(values, x) \subseteq Below(values, y)
      /\ x <= y => NotAbove(values, x) \subseteq NotAbove(values, y)
      /\ x <= y => Below(values, x) \subseteq Below(values, y)
  BY DEF Naturals, Below, NotAbove
<1> QED
  BY <1>1, <1>2, FS_Subset

(* There is an n-th value.                                                 *)
LEMMA OrderedIs ==
  ASSUME NEW values, Naturals(values), NEW n \in Nat \ {0}, n <= Cardinality(DOMAIN values)
  PROVE  LET x == Ordered(values, n)
         IN  /\ x \in Nat /\ x \in Range(values)
             /\ Cardinality(Below(values, x)) < n
             /\ n <= Cardinality(NotAbove(values, x))
<1> DEFINE S == {x \in Nat : n <= Cardinality(NotAbove(values, x))}
<1>1. S # {}
  <2>1. PICK b \in Nat : \A i \in DOMAIN values : values[i] <= b
    <3> DEFINE B == {k \in Nat : \A s \in SUBSET DOMAIN values :
                       Cardinality(s) <= k => \E b \in Nat : \A i \in s : values[i] <= b}
    <3>1. 0 \in B
      <4>1. \A s \in SUBSET DOMAIN values : Cardinality(s) <= 0 => s = {}
        BY Subsets DEF Naturals
      <4> QED
        BY <4>1
    <3>2. ASSUME NEW k \in Nat, k \in B PROVE k + 1 \in B
      <4>1. ASSUME NEW s \in SUBSET DOMAIN values, Cardinality(s) <= k + 1, s # {}
            PROVE  \E b \in Nat : \A i \in s : values[i] <= b
        <5>1. PICK x : x \in s
          BY <4>1
        <5>2. s \ {x} \in SUBSET DOMAIN values /\ Cardinality(s \ {x}) <= k
          <6>1. /\ s \ {x} \in SUBSET DOMAIN values /\ Cardinality(s) \in Nat
                /\ Cardinality(s \ {x}) = Cardinality(s) - 1
            BY <5>1, Subsets DEF Naturals
          <6> QED
            BY <4>1, <6>1
        <5>3. PICK b \in Nat : \A i \in s \ {x} : values[i] <= b
          BY <3>2, <5>2
        <5>4. \A i \in s : values[i] \in Nat
          BY DEF Naturals
        <5>5. CASE values[x] <= b
          BY <5>3, <5>5
        <5>6. CASE ~(values[x] <= b)
          <6>1. \A i \in s : values[i] <= values[x]
            BY <5>1, <5>3, <5>4, <5>6
          <6> QED
            BY <5>1, <5>4, <6>1
        <5> QED
          BY <5>5, <5>6
      <4>2. \A s \in SUBSET DOMAIN values : s = {} => \E b \in Nat : \A i \in s : values[i] <= b
        OBVIOUS
      <4> QED
        BY <4>1, <4>2
    <3>3. Cardinality(DOMAIN values) \in B
      <4> HIDE DEF B
      <4>1. Nat \subseteq B
        BY <3>1, <3>2, CountUp
      <4> QED
        BY <4>1, FS_CardinalityType DEF Naturals
    <3>4. Cardinality(DOMAIN values) <= Cardinality(DOMAIN values)
      BY FS_CardinalityType DEF Naturals
    <3> QED
      BY <3>3, <3>4
  <2>2. NotAbove(values, b) = DOMAIN values
    BY <2>1 DEF NotAbove
  <2> QED
    BY <2>2
<1>2. PICK x : x \in S /\ \A y \in S : x <= y
  <2>1. S \in SUBSET Nat
    OBVIOUS
  <2> HIDE DEF S
  <2> QED
    BY <1>1, <2>1, LeastNatural
<1>3. x \in Nat /\ n <= Cardinality(NotAbove(values, x))
  BY <1>2
<1>4. Cardinality(Below(values, x)) < n
  <2>1. CASE x = 0
    <3>1. Below(values, x) = {}
      BY <2>1 DEF Below, Naturals
    <3>2. Cardinality(Below(values, x)) = 0
      BY <3>1, FS_EmptySet
    <3> QED
      BY <3>2
  <2>2. CASE x # 0
    <3>1. x - 1 \in Nat /\ ~(x <= x - 1)
      BY <1>3, <2>2
    <3>2. ~(n <= Cardinality(NotAbove(values, x - 1)))
      BY <1>2, <3>1
    <3>3. Below(values, x) = NotAbove(values, x - 1)
      BY <1>3 DEF Below, NotAbove, Naturals
    <3>4. Cardinality(NotAbove(values, x - 1)) \in Nat
      BY Counts
    <3> QED
      BY <3>2, <3>3, <3>4
  <2> QED
    BY <2>1, <2>2
<1>5. x \in Range(values)
  <2>1. Cardinality(Below(values, x)) # Cardinality(NotAbove(values, x))
    BY <1>3, <1>4, Counts
  <2>2. Below(values, x) # NotAbove(values, x)
    BY <2>1
  <2>3. PICK i \in DOMAIN values : values[i] <= x /\ ~(values[i] < x)
    BY <1>3, <2>2 DEF Below, NotAbove, Naturals
  <2>4. values[i] = x
    BY <1>3, <2>3 DEF Naturals
  <2> QED
    BY <2>4 DEF Range
<1>6. \E y \in Range(values) :
        Cardinality(Below(values, y)) < n /\ n <= Cardinality(NotAbove(values, y))
  BY <1>3, <1>4, <1>5
<1>7. Ordered(values, n) = CHOOSE y \in Range(values) :
         Cardinality(Below(values, y)) < n /\ n <= Cardinality(NotAbove(values, y))
  BY DEF Ordered, Below, NotAbove
<1>8. Range(values) \subseteq Nat
  BY DEF Range, Naturals
<1> QED
  BY <1>6, <1>7, <1>8

(* It is not above x if n values are not, and not below x if fewer are.    *)
LEMMA OrderedBounds ==
  ASSUME NEW values, Naturals(values), NEW n \in Nat \ {0}, n <= Cardinality(DOMAIN values),
         NEW x \in Nat
  PROVE  /\ n <= Cardinality(NotAbove(values, x)) => Ordered(values, n) <= x
         /\ Cardinality(Below(values, x)) < n => x <= Ordered(values, n)
<1>1. PICK y : /\ y = Ordered(values, n) /\ y \in Nat
               /\ Cardinality(Below(values, y)) < n /\ n <= Cardinality(NotAbove(values, y))
  BY OrderedIs
<1>2. /\ Cardinality(Below(values, y)) \in Nat /\ Cardinality(NotAbove(values, y)) \in Nat
      /\ Cardinality(Below(values, x)) \in Nat /\ Cardinality(NotAbove(values, x)) \in Nat
  BY Counts
<1>3. ASSUME n <= Cardinality(NotAbove(values, x)), x < y PROVE FALSE
  <2>1. Cardinality(NotAbove(values, x)) <= Cardinality(Below(values, y))
    BY <1>1, <1>3, CountsGrow
  <2> QED
    BY <1>1, <1>2, <1>3, <2>1
<1>4. ASSUME Cardinality(Below(values, x)) < n, y < x PROVE FALSE
  <2>1. Cardinality(NotAbove(values, y)) <= Cardinality(Below(values, x))
    BY <1>1, <1>4, CountsGrow
  <2> QED
    BY <1>1, <1>2, <1>4, <2>1
<1> QED
  BY <1>1, <1>3, <1>4

(* The two middle positions.                                               *)
LEMMA Middle ==
  ASSUME NEW n \in Nat \ {0}
  PROVE  /\ (n + 1) \div 2 \in Nat \ {0} /\ (n + 1) \div 2 <= n
         /\ (n \div 2) + 1 \in Nat \ {0} /\ (n \div 2) + 1 <= n
         /\ (n + 1) \div 2 <= (n \div 2) + 1
  OBVIOUS

(* Moving the values to other places changes no order statistic.           *)
LEMMA OrderedMoves ==
  ASSUME NEW f, NEW g, NEW p, Naturals(f), Naturals(g),
         \A x \in DOMAIN f : p[x] \in DOMAIN g /\ g[p[x]] = f[x],
         \A x, y \in DOMAIN f : p[x] = p[y] => x = y,
         \A y \in DOMAIN g : \E x \in DOMAIN f : y = p[x],
         DOMAIN f # {}
  PROVE  TwiceMedian(f) = TwiceMedian(g)
<1>1. Cardinality(DOMAIN g) = Cardinality(DOMAIN f)
  BY AsMany DEF Naturals
<1>2. Range(f) = Range(g)
  BY DEF Range
<1>3. ASSUME NEW x PROVE Cardinality(Below(g, x)) = Cardinality(Below(f, x))
  <2> DEFINE A == Below(f, x)
             B == Below(g, x)
  <2>1. /\ \A i \in A : p[i] \in B
        /\ \A i, j \in A : p[i] = p[j] => i = j
        /\ \A j \in B : \E i \in A : j = p[i]
    BY DEF Below
  <2>2. IsFiniteSet(A)
    <3>1. A \in SUBSET DOMAIN f
      BY DEF Below
    <3> QED
      BY <3>1, Subsets DEF Naturals
  <2> HIDE DEF A, B
  <2>3. Cardinality(B) = Cardinality(A)
    BY <2>1, <2>2, AsMany
  <2> QED
    BY <2>3 DEF A, B
<1>4. ASSUME NEW x PROVE Cardinality(NotAbove(g, x)) = Cardinality(NotAbove(f, x))
  <2> DEFINE A == NotAbove(f, x)
             B == NotAbove(g, x)
  <2>1. /\ \A i \in A : p[i] \in B
        /\ \A i, j \in A : p[i] = p[j] => i = j
        /\ \A j \in B : \E i \in A : j = p[i]
    BY DEF NotAbove
  <2>2. IsFiniteSet(A)
    <3>1. A \in SUBSET DOMAIN f
      BY DEF NotAbove
    <3> QED
      BY <3>1, Subsets DEF Naturals
  <2> HIDE DEF A, B
  <2>3. Cardinality(B) = Cardinality(A)
    BY <2>1, <2>2, AsMany
  <2> QED
    BY <2>3 DEF A, B
<1>5. ASSUME NEW n \in Nat \ {0}, n <= Cardinality(DOMAIN f)
      PROVE  Ordered(f, n) = Ordered(g, n)
  <2>1. PICK x : /\ x = Ordered(f, n) /\ x \in Nat
                 /\ Cardinality(Below(f, x)) < n /\ n <= Cardinality(NotAbove(f, x))
    BY <1>5, OrderedIs
  <2>2. PICK y : y = Ordered(g, n) /\ y \in Nat
    BY <1>1, <1>5, OrderedIs
  <2>3. y <= x /\ x <= y
    BY <1>1, <1>3, <1>4, <1>5, <2>1, <2>2, OrderedBounds
  <2> QED
    BY <2>1, <2>2, <2>3
<1>6. /\ (Cardinality(DOMAIN f) + 1) \div 2 \in Nat \ {0}
      /\ (Cardinality(DOMAIN f) + 1) \div 2 <= Cardinality(DOMAIN f)
      /\ (Cardinality(DOMAIN f) \div 2) + 1 \in Nat \ {0}
      /\ (Cardinality(DOMAIN f) \div 2) + 1 <= Cardinality(DOMAIN f)
  <2>1. Cardinality(DOMAIN f) \in Nat \ {0}
    BY FS_CardinalityType, FS_EmptySet DEF Naturals
  <2> QED
    BY <2>1, Middle
<1> QED
  BY <1>1, <1>5, <1>6 DEF TwiceMedian

(* Twice the median is a number.                                           *)
LEMMA MedianIs ==
  ASSUME NEW values, Naturals(values), DOMAIN values # {}
  PROVE  TwiceMedian(values) \in Nat
<1> DEFINE n == Cardinality(DOMAIN values)
<1>1. n \in Nat \ {0}
  BY FS_CardinalityType, FS_EmptySet DEF Naturals
<1> HIDE DEF n
<1>2. Ordered(values, (n + 1) \div 2) \in Nat /\ Ordered(values, (n \div 2) + 1) \in Nat
  BY <1>1, Middle, OrderedIs DEF n
<1> QED
  BY <1>2 DEF TwiceMedian, n

(* However many values are added, the middle ranks stay among them and the *)
(* lower half of the old ones.                                             *)
LEMMA RanksFit ==
  ASSUME NEW n \in Nat \ {0}, NEW m \in Nat \ {0}
  PROVE  /\ n + m \in Nat \ {0}
         /\ (n + m + 1) \div 2 <= ((n + 1) \div 2) + m
         /\ ((n + m) \div 2) + 1 <= ((n + 1) \div 2) + m
  OBVIOUS

(* If no more than half of the values is greater than c, twice the median  *)
(* is not greater than twice c.                                            *)
LEMMA MedianAtMost ==
  ASSUME NEW g, Naturals(g), DOMAIN g # {}, NEW c \in Nat,
         (Cardinality(DOMAIN g) \div 2) + 1 <= Cardinality(NotAbove(g, c))
  PROVE  TwiceMedian(g) <= 2 * c
<1> DEFINE n == Cardinality(DOMAIN g)
           lo == (n + 1) \div 2
           hi == (n \div 2) + 1
<1>1. n \in Nat /\ n # 0
  BY Counts, FS_EmptySet DEF Naturals
<1>2. Cardinality(NotAbove(g, c)) \in Nat
  BY Counts
<1>3. TwiceMedian(g) = Ordered(g, lo) + Ordered(g, hi)
  BY DEF TwiceMedian
<1>4. hi <= Cardinality(NotAbove(g, c))
  OBVIOUS
<1> HIDE DEF n
<1>5. /\ lo \in Nat \ {0} /\ lo <= n /\ hi \in Nat \ {0} /\ hi <= n /\ lo <= hi
  BY <1>1, Middle
<1> HIDE DEF lo, hi
<1>6. lo <= Cardinality(DOMAIN g) /\ hi <= Cardinality(DOMAIN g)
  BY <1>5 DEF n
<1>7. Ordered(g, lo) \in Nat /\ Ordered(g, hi) \in Nat
  BY <1>5, <1>6, OrderedIs
<1>8. lo <= Cardinality(NotAbove(g, c))
  BY <1>2, <1>4, <1>5
<1>9. Ordered(g, hi) <= c
  BY <1>4, <1>5, <1>6, OrderedBounds
<1>10. Ordered(g, lo) <= c
  BY <1>5, <1>6, <1>8, OrderedBounds
<1> QED
  BY <1>3, <1>7, <1>9, <1>10

(* Values that are not above the median do not raise it.                   *)
LEMMA MedianPays ==
  ASSUME NEW f, NEW g, Naturals(f), Naturals(g), DOMAIN f # {}, DOMAIN f \subseteq DOMAIN g,
         \A i \in DOMAIN f : g[i] = f[i],
         \A i \in DOMAIN g \ DOMAIN f : 2 * g[i] <= TwiceMedian(f)
  PROVE  TwiceMedian(g) <= TwiceMedian(f)
<1> DEFINE fresh == DOMAIN g \ DOMAIN f
<1>1. CASE fresh = {}
  <2> DEFINE p == [i \in DOMAIN f |-> i]
  <2>1. /\ \A x \in DOMAIN f : p[x] \in DOMAIN g /\ g[p[x]] = f[x]
        /\ \A x, y \in DOMAIN f : p[x] = p[y] => x = y
        /\ \A y \in DOMAIN g : \E x \in DOMAIN f : y = p[x]
    BY <1>1
  <2> HIDE DEF p
  <2>2. TwiceMedian(f) = TwiceMedian(g)
    BY <2>1, OrderedMoves
  <2>3. TwiceMedian(f) \in Nat
    BY MedianIs
  <2> QED
    BY <2>2, <2>3
<1>2. CASE fresh # {}
  <2> DEFINE n == Cardinality(DOMAIN f)
             m == Cardinality(fresh)
             lo == (n + 1) \div 2
             hi == (n \div 2) + 1
             a == Ordered(f, lo)
             b == Ordered(f, hi)
             c == (a + b) \div 2
  <2>1. IsFiniteSet(DOMAIN f) /\ IsFiniteSet(DOMAIN g) /\ IsFiniteSet(fresh)
    BY FS_Difference DEF Naturals
  <2>2. n \in Nat \ {0} /\ m \in Nat \ {0}
    BY <1>2, <2>1, FS_EmptySet, FS_CardinalityType
  <2>3. DOMAIN g = DOMAIN f \cup fresh /\ DOMAIN f \cap fresh = {}
    OBVIOUS
  <2> HIDE DEF fresh
  <2>4. Cardinality(DOMAIN g) = n + m
    <3>1. Cardinality(DOMAIN f \cup fresh)
            = Cardinality(DOMAIN f) + Cardinality(fresh) - Cardinality(DOMAIN f \cap fresh)
      BY <2>1, FS_Union
    <3>2. Cardinality(DOMAIN f \cap fresh) = 0
      BY <2>3, FS_EmptySet
    <3>3. Cardinality(DOMAIN g) = n + m - 0
      BY <2>3, <3>1, <3>2
    <3> HIDE DEF n, m
    <3> QED
      BY <2>2, <3>3
  <2>5. lo \in Nat \ {0} /\ lo <= n /\ hi \in Nat \ {0} /\ hi <= n /\ lo <= hi
    <3> HIDE DEF n
    <3> QED
      BY <2>2, Middle
  <2>6. ((n + m) \div 2) + 1 <= lo + m
    <3> HIDE DEF n, m
    <3> QED
      BY <2>2, RanksFit
  <2>7. lo <= Cardinality(DOMAIN f) /\ hi <= Cardinality(DOMAIN f)
    BY <2>5
  <2>8. TwiceMedian(f) = a + b
    BY DEF TwiceMedian
  <2> HIDE DEF lo, hi
  <2>9. /\ a \in Nat /\ b \in Nat
        /\ lo <= Cardinality(NotAbove(f, a)) /\ hi <= Cardinality(NotAbove(f, b))
    BY <2>5, <2>7, OrderedIs
  <2>10. a <= b
    <3>1. Cardinality(NotAbove(f, b)) \in Nat
      BY <2>9, Counts
    <3>2. lo <= Cardinality(NotAbove(f, b))
      BY <2>5, <2>9, <3>1
    <3> QED
      BY <2>5, <2>7, <2>9, <3>2, OrderedBounds
  <2> HIDE DEF a, b
  <2>11. c \in Nat /\ a <= c /\ 2 * c <= a + b
    BY <2>9, <2>10
  <2>12. \A x \in Nat : 2 * x <= a + b => x <= c
    BY <2>9
  <2> HIDE DEF c
  <2>13. NotAbove(f, a) \cup fresh \subseteq NotAbove(g, c)
    <3>1. ASSUME NEW i \in NotAbove(f, a) PROVE i \in NotAbove(g, c)
      <4>1. i \in DOMAIN f /\ i \in DOMAIN g /\ g[i] = f[i] /\ f[i] <= a
        BY <3>1 DEF NotAbove
      <4>2. f[i] \in Nat
        BY <4>1 DEF Naturals
      <4> QED
        BY <2>9, <2>11, <4>1, <4>2 DEF NotAbove
    <3>2. ASSUME NEW i \in fresh PROVE i \in NotAbove(g, c)
      <4>1. i \in DOMAIN g /\ 2 * g[i] <= TwiceMedian(f)
        BY <3>2 DEF fresh
      <4>2. g[i] \in Nat
        BY <4>1 DEF Naturals
      <4> QED
        BY <2>8, <2>12, <4>1, <4>2 DEF NotAbove
    <3> QED
      BY <3>1, <3>2
  <2>14. Cardinality(NotAbove(f, a) \cup fresh) = Cardinality(NotAbove(f, a)) + m
    <3>1. NotAbove(f, a) \subseteq DOMAIN f
      BY DEF NotAbove
    <3>2. IsFiniteSet(NotAbove(f, a)) /\ NotAbove(f, a) \cap fresh = {}
      BY <2>1, <2>3, <3>1, FS_Subset
    <3>3. Cardinality(NotAbove(f, a) \cup fresh)
            = Cardinality(NotAbove(f, a)) + Cardinality(fresh)
                - Cardinality(NotAbove(f, a) \cap fresh)
      BY <2>1, <3>2, FS_Union
    <3>4. Cardinality(NotAbove(f, a)) \in Nat
      BY <3>2, FS_CardinalityType
    <3> QED
      BY <2>2, <3>2, <3>3, <3>4, FS_EmptySet
  <2>15. Cardinality(NotAbove(f, a) \cup fresh) <= Cardinality(NotAbove(g, c))
    <3>1. NotAbove(g, c) \subseteq DOMAIN g
      BY DEF NotAbove
    <3>2. IsFiniteSet(NotAbove(g, c))
      BY <2>1, <3>1, FS_Subset
    <3> QED
      BY <2>13, <3>2, FS_Subset
  <2>16. Cardinality(NotAbove(f, a)) \in Nat /\ Cardinality(NotAbove(g, c)) \in Nat
    BY <2>9, <2>11, Counts
  <2>17. lo + m <= Cardinality(NotAbove(g, c))
    <3> HIDE DEF m
    <3> QED
      BY <2>2, <2>5, <2>9, <2>14, <2>15, <2>16
  <2>18. (Cardinality(DOMAIN g) \div 2) + 1 <= Cardinality(NotAbove(g, c))
    <3> HIDE DEF n, m
    <3> QED
      BY <2>2, <2>4, <2>5, <2>6, <2>16, <2>17
  <2>19. DOMAIN g # {}
    OBVIOUS
  <2>20. TwiceMedian(g) <= 2 * c
    BY <2>11, <2>18, <2>19, MedianAtMost
  <2>21. TwiceMedian(g) \in Nat
    BY <2>19, MedianIs
  <2> QED
    BY <2>8, <2>9, <2>11, <2>20, <2>21
<1> QED
  BY <1>1, <1>2

(* Nor is the median of values above what all of them are not above.       *)
LEMMA FirstMedianPays ==
  ASSUME NEW g, Naturals(g), DOMAIN g # {}, NEW bar \in Nat,
         \A i \in DOMAIN g : 2 * g[i] <= bar
  PROVE  TwiceMedian(g) <= bar
<1> DEFINE c == bar \div 2
           n == Cardinality(DOMAIN g)
<1>1. c \in Nat /\ 2 * c <= bar /\ \A x \in Nat : 2 * x <= bar => x <= c
  OBVIOUS
<1>2. n \in Nat \ {0}
  BY Counts, FS_EmptySet DEF Naturals
<1> HIDE DEF c
<1>3. NotAbove(g, c) = DOMAIN g
  BY <1>1 DEF NotAbove, Naturals
<1>4. (n \div 2) + 1 <= n
  <2> HIDE DEF n
  <2> QED
    BY <1>2
<1>5. TwiceMedian(g) <= 2 * c
  BY <1>1, <1>3, <1>4, MedianAtMost
<1>6. TwiceMedian(g) \in Nat
  BY MedianIs
<1> QED
  BY <1>1, <1>5, <1>6

-----------------------------------------------------------------------------
(* Scores are fractions.                                                   *)
IsFraction(score) == score.den \in Nat \ {0} /\ score.num \in 0..score.den

(* What is capped is a fraction.                                           *)
LEMMA Capped ==
  ASSUME NEW a \in Nat, NEW b \in Nat \ {0}
  PROVE  IsFraction(Fraction(Min({a, b}), b)) /\ IsFraction(Fraction(Max({0, b - a}), b))
<1>1. Min({a, b}) \in 0..b
  <2>1. a \in Int /\ b \in Int
    OBVIOUS
  <2>2. Min({a, b}) = IF a <= b THEN a ELSE b
    BY <2>1, OfTwo
  <2> QED
    BY <2>2
<1>2. Max({0, b - a}) \in 0..b
  <2>1. b - a \in Int /\ 0 \in Int
    OBVIOUS
  <2>2. Max({0, b - a}) = IF 0 >= b - a THEN 0 ELSE b - a
    BY <2>1, OfTwo
  <2> QED
    BY <2>2
<1> QED
  BY <1>1, <1>2 DEF IsFraction, Fraction

(* So are the scores of sessions with nothing to measure.                  *)
LEMMA PlainFractions == IsFraction(Neutral) /\ IsFraction(Zero) /\ IsFraction(One)
  BY DEF IsFraction, Neutral, Zero, One, Fraction

(* Every error has a severity, unknown ones too.                           *)
LEMMA SeverityIs == \A error : Severity(error) \in Nat
  BY DEF Severity, ErrorSeverity

(* Efficiency does not rise with the duration.                             *)
LEMMA SlowerRatio ==
  ASSUME NEW b \in Nat, NEW d \in Nat \ {0}
  PROVE  AtMost(Fraction(Min({b, d + 1}), d + 1), Fraction(Min({b, d}), d))
<1>1. b \in Int /\ d \in Int /\ d + 1 \in Int
  OBVIOUS
<1>2. /\ Min({b, d}) = IF b <= d THEN b ELSE d
      /\ Min({b, d + 1}) = IF b <= d + 1 THEN b ELSE d + 1
  BY <1>1, OfTwo
<1>3. CASE b <= d
  <2>1. b * d <= b * (d + 1)
    OBVIOUS
  <2> QED
    BY <1>2, <1>3, <2>1 DEF AtMost, Fraction
<1>4. CASE ~(b <= d)
  <2>1. Min({b, d + 1}) = d + 1 /\ Min({b, d}) = d
    BY <1>2, <1>4
  <2>2. (d + 1) * d <= d * (d + 1)
    OBVIOUS
  <2> QED
    BY <2>1, <2>2 DEF AtMost, Fraction
<1> QED
  BY <1>3, <1>4

(* Velocity falls with the median.                                         *)
LEMMA FasterScoresNoLess ==
  ASSUME NEW t \in Nat, NEW u \in Nat, u <= t
  PROVE  /\ AtMost(Fraction(Max({0, 2 * MaxVelocity - t}), 2 * MaxVelocity),
                   Fraction(Max({0, 2 * MaxVelocity - u}), 2 * MaxVelocity))
         /\ u <= MaxVelocity =>
              AtMost(Neutral, Fraction(Max({0, 2 * MaxVelocity - u}), 2 * MaxVelocity))
<1> DEFINE full == 2 * MaxVelocity
           x == Max({0, full - t})
           y == Max({0, full - u})
<1>1. full \in Nat /\ full - t \in Int /\ full - u \in Int /\ 0 \in Int
  BY VelocityAssumption
<1>2. u <= MaxVelocity => full <= 2 * (full - u)
  BY VelocityAssumption
<1> HIDE DEF full
<1>3. /\ x = IF 0 >= full - t THEN 0 ELSE full - t
      /\ y = IF 0 >= full - u THEN 0 ELSE full - u
  BY <1>1, OfTwo
<1>4. x \in Nat /\ y \in Nat /\ x <= y
  BY <1>1, <1>3
<1>5. u <= MaxVelocity => full <= 2 * y
  BY <1>1, <1>2, <1>3
<1> HIDE DEF x, y
<1>6. \A a, b, c \in Nat : a <= b => a * c <= b * c
  OBVIOUS
<1>7. AtMost(Fraction(x, full), Fraction(y, full))
  BY <1>1, <1>4, <1>6 DEF AtMost, Fraction
<1>8. u <= MaxVelocity => AtMost(Neutral, Fraction(y, full))
  BY <1>1, <1>4, <1>5 DEF AtMost, Fraction, Neutral
<1> QED
  BY <1>7, <1>8 DEF x, y, full

-----------------------------------------------------------------------------
(* The graph.  build_interaction_graph goes through the events one by one. *)

(* The graphs the loop has after each event of the list.                   *)
EmptyGraph == [nodes |-> {Human}, edges |-> <<>>]

IsBuild(g, list, n) ==
  /\ g[0] = EmptyGraph
  /\ \A k \in 1..n : g[k] = AddEvent(g[k - 1], list[k])

(* The fold of InteractionGraph is a loop over the list.  The folds of     *)
(* the library recurse over sets of positions: the function they choose    *)
(* exists, by induction over the size of these sets.                       *)
LEMMA GraphIsBuilt ==
  ASSUME NEW list, NEW n \in Nat, DOMAIN list = 1..n
  PROVE  \E g : IsBuild(g, list, n) /\ InteractionGraph(list) = g[n]
<1> DEFINE Turn(h, s) == IF s = {} THEN EmptyGraph
                          ELSE AddEvent(h[s \ {Max(s)}], list[Max(s)])
            Sub(k) == {s \in SUBSET (1..n) : Cardinality(s) <= k}
            Good(k) == \E h : h = [s \in Sub(k) |-> Turn(h, s)]
            M == {k \in Nat : Good(k)}
<1>0. ASSUME NEW s \in SUBSET (1..n)
      PROVE  /\ Cardinality(s) \in 0..n
             /\ Cardinality(s) = 0 <=> s = {}
             /\ \A x \in s : Cardinality(s \ {x}) = Cardinality(s) - 1
  <2> DEFINE D == 1..n
  <2>1. IsFiniteSet(D) /\ Cardinality(D) = n /\ s \in SUBSET D
    BY Interval
  <2> HIDE DEF D
  <2>2. Cardinality(s) \in Nat /\ Cardinality(s) <= n
    BY <2>1, Subsets
  <2>3. Cardinality(s) \in 0..n
    BY <2>2
  <2> QED
    BY <2>1, <2>3, Subsets
<1>1. 0 \in M
  <2> DEFINE h == [s \in Sub(0) |-> EmptyGraph]
  <2>1. \A s \in Sub(0) : s = {}
    BY <1>0
  <2>2. h = [s \in Sub(0) |-> Turn(h, s)]
    BY <2>1
  <2> QED
    BY <2>2
<1>2. ASSUME NEW k \in Nat, k \in M PROVE k + 1 \in M
  <2>1. PICK h : h = [s \in Sub(k) |-> Turn(h, s)]
    BY <1>2
  <2> DEFINE f == [s \in Sub(k + 1) |-> Turn(h, s)]
  <2>2. ASSUME NEW s \in Sub(k + 1), s # {} 
        PROVE  s \ {Max(s)} \in Sub(k) /\ s \ {Max(s)} \in Sub(k+1)
    <3>1. s \in SUBSET (1..n) /\ Cardinality(s) <= k + 1
      OBVIOUS
    <3>2. PICK m : m \in s /\ m = Max(s)
      BY <2>2, <3>1, GreatestUpTo
    <3>3. s \ {m} \in SUBSET (1..n) /\ Cardinality(s \ {m}) = Cardinality(s) - 1
      BY <3>1, <3>2, <1>0
    <3>4. Cardinality(s \ {m}) <= k /\ Cardinality(s \ {m}) <= k + 1
      <4>1. Cardinality(s) \in 0..n
        BY <3>1, <1>0
      <4> QED
        BY <3>1, <3>3, <4>1
    <3> QED
      BY <3>2, <3>3, <3>4
  <2>3. Sub(k) \subseteq Sub(k + 1)
    BY <1>0
  <2>4. ASSUME NEW s \in Sub(k) PROVE f[s] = h[s]
    BY <2>1, <2>3
  <2>5. ASSUME NEW s \in Sub(k + 1) PROVE Turn(h, s) = Turn(f, s)
    BY <2>2, <2>4
  <2>6. f = [s \in Sub(k + 1) |-> Turn(f, s)]
    BY <2>5
  <2> HIDE DEF f, Turn, Sub
  <2>7. Good(k + 1)
    BY <2>6
  <2> QED
    BY <2>7
<1>3. Good(n)
  BY <1>1, <1>2, CountUp
<1>4. Sub(n) = SUBSET (1..n)
  BY <1>0
<1> DEFINE it == CHOOSE h : h = [s \in SUBSET (1..n) |-> Turn(h, s)]
<1>5. it = [s \in SUBSET (1..n) |-> Turn(it, s)]
  BY <1>3, <1>4
<1>6. InteractionGraph(list) = it[1..n]
  BY DEF InteractionGraph, FoldLeft, MapThenFoldSet, EmptyGraph
<1> HIDE DEF it
<1> DEFINE g == [k \in 0..n |-> it[1..k]]
<1>7. g[0] = EmptyGraph
  BY <1>5
<1>8. ASSUME NEW k \in 1..n PROVE g[k] = AddEvent(g[k - 1], list[k])
  <2>1. k \in 1..k /\ (1..k) \in SUBSET (1..n) /\ \A x \in 1..k : x <= k
    OBVIOUS
  <2>2. Max(1..k) = k
    <3>1. Max(1..k) \in 1..k /\ k <= Max(1..k)
      BY <2>1, GreatestUpTo
    <3> QED
      BY <3>1
  <2>3. (1..k) \ {k} = 1..(k - 1)
    OBVIOUS
  <2>4. it[1..k] = AddEvent(it[1..(k - 1)], list[k])
    BY <1>5, <2>1, <2>2, <2>3
  <2> QED
    BY <2>4
<1>9. g[n] = it[1..n]
  OBVIOUS
<1> HIDE DEF g
<1>10. IsBuild(g, list, n) /\ InteractionGraph(list) = g[n]
  BY <1>6, <1>7, <1>8, <1>9 DEF IsBuild
<1> QED
  BY <1>10

(* The loop does the same with what two lists begin with.                  *)
LEMMA BuildsAgree ==
  ASSUME NEW n \in Nat, NEW m \in Nat, NEW g, NEW h, NEW list, NEW others,
         IsBuild(g, list, n), IsBuild(h, others, m), m <= n,
         \A k \in 1..m : others[k] = list[k]
  PROVE  \A k \in 0..m : h[k] = g[k]
<1> DEFINE M == {k \in Nat : k <= m => h[k] = g[k]}
<1>1. 0 \in M
  BY DEF IsBuild
<1>2. ASSUME NEW k \in Nat, k \in M PROVE k + 1 \in M
  <2>1. CASE k + 1 <= m
    <3>1. k + 1 \in 1..m /\ k + 1 \in 1..n /\ (k + 1) - 1 = k /\ k <= m
      BY <2>1
    <3>2. h[k + 1] = AddEvent(h[k], others[k + 1]) /\ g[k + 1] = AddEvent(g[k], list[k + 1])
      BY <3>1 DEF IsBuild
    <3> QED
      BY <1>2, <3>1, <3>2
  <2> QED
    BY <2>1
<1>3. Nat \subseteq M
  BY <1>1, <1>2, CountUp
<1> QED
  BY <1>3

(* An event adds an edge at most, and takes none away.                     *)
LEMMA EventKeepsEdges ==
  ASSUME NEW g, NEW event
  PROVE  DOMAIN g.edges \subseteq DOMAIN AddEvent(g, event).edges
  BY DEF AddEvent

(* A graph has the edges of the graphs it was built from.                  *)
LEMMA EdgesGrow ==
  ASSUME NEW n \in Nat, NEW m \in 0..n, NEW g, NEW list, IsBuild(g, list, n)
  PROVE  DOMAIN g[m].edges \subseteq DOMAIN g[n].edges
<1> DEFINE M == {d \in Nat : m + d <= n => DOMAIN g[m].edges \subseteq DOMAIN g[m + d].edges}
<1>1. 0 \in M
  OBVIOUS
<1>2. ASSUME NEW d \in Nat, d \in M PROVE d + 1 \in M
  <2>1. CASE m + (d + 1) <= n
    <3>1. /\ m + (d + 1) \in 1..n /\ (m + (d + 1)) - 1 = m + d /\ m + d <= n
      BY <2>1
    <3>2. g[m + (d + 1)] = AddEvent(g[m + d], list[m + (d + 1)])
      BY <3>1 DEF IsBuild
    <3> QED
      BY <1>2, <3>1, <3>2, EventKeepsEdges
  <2> QED
    BY <2>1
<1> HIDE DEF M
<1>3. Nat \subseteq M
  BY <1>1, <1>2, CountUp
<1>4. n - m \in Nat /\ m + (n - m) = n /\ n <= n
  OBVIOUS
<1> QED
  BY <1>3, <1>4 DEF M

(* More events of the same list lead to no fewer edges.                    *)
LEMMA LongerHasAll ==
  ASSUME NEW S, NEW list \in Seq(S), NEW m \in 0..Len(list), NEW n \in 0..Len(list), m <= n
  PROVE  DOMAIN InteractionGraph(SubSeq(list, 1, m)).edges
           \subseteq DOMAIN InteractionGraph(SubSeq(list, 1, n)).edges
<1> DEFINE a == SubSeq(list, 1, m)
            b == SubSeq(list, 1, n)
<1>1. /\ DOMAIN a = 1..m /\ DOMAIN b = 1..n
      /\ m \in Nat /\ n \in Nat /\ m \in 0..n
      /\ \A k \in 1..m : a[k] = b[k]
  OBVIOUS
<1> HIDE DEF a, b
<1>2. PICK g : IsBuild(g, b, n) /\ InteractionGraph(b) = g[n]
  BY <1>1, GraphIsBuilt
<1>3. PICK h : IsBuild(h, a, m) /\ InteractionGraph(a) = h[m]
  BY <1>1, GraphIsBuilt
<1>4. h[m] = g[m]
  BY <1>1, <1>2, <1>3, BuildsAgree
<1>5. DOMAIN g[m].edges \subseteq DOMAIN g[n].edges
  BY <1>1, <1>2, EdgesGrow
<1> QED
  BY <1>2, <1>3, <1>4, <1>5 DEF a, b

(* The graph of one more event is that event added to the graph so far.    *)
LEMMA GraphOfMore ==
  ASSUME NEW S, NEW list \in Seq(S), NEW e
  PROVE  InteractionGraph(Append(list, e)) = AddEvent(InteractionGraph(list), e)
<1> DEFINE more == Append(list, e)
           n == Len(list)
<1>1. /\ n \in Nat /\ DOMAIN list = 1..n /\ DOMAIN more = 1..(n + 1) /\ more[n + 1] = e
      /\ \A k \in 1..n : list[k] = more[k]
  OBVIOUS
<1> HIDE DEF more, n
<1>2. PICK g : IsBuild(g, more, n + 1) /\ InteractionGraph(more) = g[n + 1]
  BY <1>1, GraphIsBuilt
<1>3. PICK h : IsBuild(h, list, n) /\ InteractionGraph(list) = h[n]
  BY <1>1, GraphIsBuilt
<1>4. n \in 0..n /\ n <= n + 1 /\ n + 1 \in 1..(n + 1) /\ (n + 1) - 1 = n
  BY <1>1
<1>5. h[n] = g[n]
  BY <1>1, <1>2, <1>3, <1>4, BuildsAgree
<1>6. g[n + 1] = AddEvent(g[n], e)
  BY <1>1, <1>2, <1>4 DEF IsBuild
<1> QED
  BY <1>2, <1>3, <1>5, <1>6 DEF more

(* What an edge shows.                                                     *)
Row(m, c, l, d) == [messages |-> m, corrections |-> c, latency |-> l, measured |-> d]

(* What Contact adds to an edge.                                           *)
LEMMA ContactAdds ==
  ASSUME NEW m, NEW c, NEW l, NEW d, NEW e
  PROVE  Contact(Row(m, c, l, d), e) =
           IF e.type = "CORRECTION_ISSUED" THEN Row(m, c + 1, l, d)
           ELSE IF e.type = "PROMPT_SENT" \/ e.latency = None THEN Row(m + 1, c, l, d)
           ELSE Row(m + 1, c, l + e.latency, d + 1)
<1>1. /\ \A w, x, y, z : [Row(w, x, y, z) EXCEPT !.corrections = @ + 1] = Row(w, x + 1, y, z)
      /\ \A w, x, y, z : [Row(w, x, y, z) EXCEPT !.messages = @ + 1] = Row(w + 1, x, y, z)
  BY DEF Row
<1>2. \A w, x, y, z :
        [Row(w, x, y, z) EXCEPT !.latency = @ + e.latency] = Row(w, x, y + e.latency, z)
  BY DEF Row
<1>3. \A w, x, y, z : [Row(w, x, y, z) EXCEPT !.measured = @ + 1] = Row(w, x, y, z + 1)
  BY DEF Row
<1>4. PICK r : r = Row(m, c, l, d)
  OBVIOUS
<1>5. PICK s : s = [r EXCEPT !.messages = @ + 1]
  OBVIOUS
<1>6. PICK t : t = [s EXCEPT !.latency = @ + e.latency]
  OBVIOUS
<1>7. PICK u : u = [t EXCEPT !.measured = @ + 1]
  OBVIOUS
<1>8. s = Row(m + 1, c, l, d)
  BY <1>1, <1>4, <1>5
<1>9. t = Row(m + 1, c, l + e.latency, d)
  BY <1>2, <1>6, <1>8
<1>10. u = Row(m + 1, c, l + e.latency, d + 1)
  BY <1>3, <1>7, <1>9
<1>11. [r EXCEPT !.messages = @ + 1, !.latency = @ + e.latency, !.measured = @ + 1] = u
  BY <1>5, <1>6, <1>7
<1>12. Contact(r, e) = IF e.type = "CORRECTION_ISSUED" THEN [r EXCEPT !.corrections = @ + 1]
                       ELSE IF e.type = "PROMPT_SENT" \/ e.latency = None THEN s ELSE u
  BY <1>5, <1>11 DEF Contact
<1> QED
  BY <1>1, <1>4, <1>8, <1>10, <1>12

-----------------------------------------------------------------------------
(* The style classifier: who ranks where, who votes, and which votes       *)
(* prevail.                                                                *)

(* Who is before i, and who votes.                                         *)
AheadOf(similar, i) == {j \in DOMAIN similar : Nearer(similar, j, i)}
Nearest(similar) == {i \in DOMAIN similar : Cardinality(AheadOf(similar, i)) < K}

(* Being nearer is a total order of the profiles.                          *)
LEMMA NearerOrders ==
  ASSUME NEW similar \in Seq(Int), NEW i \in DOMAIN similar, NEW j \in DOMAIN similar
  PROVE  /\ ~Nearer(similar, i, i)
         /\ i = j \/ Nearer(similar, i, j) \/ Nearer(similar, j, i)
         /\ ~(Nearer(similar, i, j) /\ Nearer(similar, j, i))
         /\ \A h \in DOMAIN similar :
              Nearer(similar, h, i) /\ Nearer(similar, i, j) => Nearer(similar, h, j)
<1>1. /\ i \in Int /\ j \in Int /\ similar[i] \in Int /\ similar[j] \in Int
      /\ \A h \in DOMAIN similar : h \in Int /\ similar[h] \in Int
  OBVIOUS
<1> QED
  BY <1>1 DEF Nearer

(* Whoever is nearer has fewer before it.                                  *)
LEMMA FrontsAre ==
  ASSUME NEW similar \in Seq(Int), NEW i \in DOMAIN similar
  PROVE  /\ AheadOf(similar, i) \subseteq DOMAIN similar /\ i \notin AheadOf(similar, i)
         /\ IsFiniteSet(AheadOf(similar, i))
         /\ Cardinality(AheadOf(similar, i)) \in 0..(Len(similar) - 1)
         /\ \A j \in DOMAIN similar :
              Nearer(similar, i, j)
                <=> Cardinality(AheadOf(similar, i)) < Cardinality(AheadOf(similar, j))
<1> DEFINE D == DOMAIN similar
<1>1. IsFiniteSet(D) /\ Cardinality(D) = Len(similar) /\ Len(similar) \in Nat
  <2>1. D = 1..Len(similar) /\ Len(similar) \in Nat
    OBVIOUS
  <2> QED
    BY <2>1, Interval
<1>2. \A h \in D : h \notin AheadOf(similar, h)
  BY NearerOrders DEF AheadOf
<1>3. \A h \in D : AheadOf(similar, h) \in SUBSET D
  BY DEF AheadOf
<1> HIDE DEF D
<1>4. ASSUME NEW h \in D
      PROVE  /\ IsFiniteSet(AheadOf(similar, h))
             /\ Cardinality(AheadOf(similar, h)) \in 0..(Len(similar) - 1)
  <2>1. IsFiniteSet(AheadOf(similar, h)) /\ Cardinality(AheadOf(similar, h)) \in Nat
    BY <1>1, <1>3, Subsets
  <2>2. /\ Cardinality(AheadOf(similar, h)) <= Cardinality(D)
        /\ Cardinality(AheadOf(similar, h)) # Cardinality(D)
    BY <1>1, <1>2, <1>3, FS_Subset
  <2> QED
    BY <1>1, <2>1, <2>2
<1>5. ASSUME NEW g \in D, NEW h \in D, Nearer(similar, g, h)
      PROVE  Cardinality(AheadOf(similar, g)) < Cardinality(AheadOf(similar, h))
  <2>1. AheadOf(similar, g) \in SUBSET AheadOf(similar, h)
    BY <1>5, NearerOrders DEF AheadOf, D
  <2>2. g \in AheadOf(similar, h) /\ g \notin AheadOf(similar, g)
    BY <1>2, <1>5 DEF AheadOf, D
  <2>3. /\ Cardinality(AheadOf(similar, g)) <= Cardinality(AheadOf(similar, h))
        /\ Cardinality(AheadOf(similar, g)) # Cardinality(AheadOf(similar, h))
    BY <1>4, <2>1, <2>2, FS_Subset
  <2> QED
    BY <1>4, <2>3
<1>6. ASSUME NEW j \in D, ~Nearer(similar, i, j)
      PROVE  ~(Cardinality(AheadOf(similar, i)) < Cardinality(AheadOf(similar, j)))
  <2>1. CASE i = j
    BY <1>4, <2>1
  <2>2. CASE i # j
    <3>1. Nearer(similar, j, i)
      BY <1>6, <2>2, NearerOrders DEF D
    <3>2. Cardinality(AheadOf(similar, j)) < Cardinality(AheadOf(similar, i))
      BY <1>5, <3>1 DEF D
    <3> QED
      BY <1>4, <3>2 DEF D
  <2> QED
    BY <2>1, <2>2
<1> QED
  BY <1>2, <1>3, <1>4, <1>5, <1>6 DEF D

(* The places are taken by one profile each.                               *)
LEMMA RankedIs ==
  ASSUME NEW similar \in Seq(Int)
  PROVE  /\ \A n \in DOMAIN similar :
              /\ Ranked(similar)[n] \in DOMAIN similar
              /\ Cardinality(AheadOf(similar, Ranked(similar)[n])) = n - 1
         /\ \A i \in DOMAIN similar :
              /\ Cardinality(AheadOf(similar, i)) + 1 \in DOMAIN similar
              /\ Ranked(similar)[Cardinality(AheadOf(similar, i)) + 1] = i
         /\ Ranked(similar) \in Seq(DOMAIN similar) /\ Len(Ranked(similar)) = Len(similar)
<1> DEFINE D == DOMAIN similar
           Place(i) == Cardinality(AheadOf(similar, i)) + 1
           p == [i \in D |-> Place(i)]
           B == {p[i] : i \in D}
<1>1. D = 1..Len(similar) /\ Len(similar) \in Nat
  OBVIOUS
<1>2. IsFiniteSet(D) /\ Cardinality(D) = Len(similar)
  BY <1>1, Interval
<1>3. \A i \in D : Cardinality(AheadOf(similar, i)) \in 0..(Len(similar) - 1)
  BY FrontsAre
<1>4. \A i \in D : Place(i) \in D
  BY <1>1, <1>3
<1>5. \A i, j \in D : Place(i) = Place(j) => i = j
  <2> SUFFICES ASSUME NEW i \in D, NEW j \in D, i # j PROVE Place(i) # Place(j)
    OBVIOUS
  <2>1. Nearer(similar, i, j) \/ Nearer(similar, j, i)
    BY NearerOrders
  <2>2. \/ Cardinality(AheadOf(similar, i)) < Cardinality(AheadOf(similar, j))
        \/ Cardinality(AheadOf(similar, j)) < Cardinality(AheadOf(similar, i))
    BY <2>1, FrontsAre
  <2> QED
    BY <1>3, <2>2
<1> HIDE DEF Place
<1>6. \A i \in D : p[i] = Place(i)
  OBVIOUS
<1>7. \A i \in D : p[i] \in B
  OBVIOUS
<1>8. \A i, j \in D : p[i] = p[j] => i = j
  BY <1>5, <1>6
<1>9. \A y \in B : \E i \in D : y = p[i]
  OBVIOUS
<1>10. B \in SUBSET D
  BY <1>4, <1>6
<1> HIDE DEF D, p, B
<1>11. IsFiniteSet(B) /\ Cardinality(B) = Cardinality(D)
  BY <1>2, <1>7, <1>8, <1>9, AsMany
<1>12. B = D
  BY <1>2, <1>10, <1>11, FS_Subset
<1>13. \A n \in D : \E i \in D : Place(i) = n
  BY <1>6, <1>9, <1>12
<1>14. \A n \in D : Ranked(similar)[n] = CHOOSE i \in D : Cardinality(AheadOf(similar, i)) = n - 1
  BY DEF Ranked, AheadOf, D
<1>15. \A n \in D, i \in D : Place(i) = n <=> Cardinality(AheadOf(similar, i)) = n - 1
  <2> SUFFICES ASSUME NEW n \in D, NEW i \in D
               PROVE  Place(i) = n <=> Cardinality(AheadOf(similar, i)) = n - 1
    OBVIOUS
  <2>1. PICK c : c = Cardinality(AheadOf(similar, i))
    OBVIOUS
  <2>2. c \in Nat /\ n \in Int /\ Place(i) = c + 1
    BY <1>1, <1>3, <2>1 DEF Place
  <2> QED
    BY <2>1, <2>2
<1>16. \A n \in D : /\ Ranked(similar)[n] \in D
                    /\ Cardinality(AheadOf(similar, Ranked(similar)[n])) = n - 1
  BY <1>13, <1>14, <1>15
<1>17. \A i \in D : Ranked(similar)[Place(i)] = i
  BY <1>4, <1>5, <1>15, <1>16
<1>18. Ranked(similar) \in Seq(D) /\ Len(Ranked(similar)) = Len(similar)
  <2> DEFINE At(n) == CHOOSE i \in D : Cardinality({j \in D : Nearer(similar, j, i)}) = n - 1
  <2>1. Ranked(similar) = [n \in D |-> At(n)]
    BY DEF Ranked, D
  <2> HIDE DEF At
  <2>2. Ranked(similar) \in [1..Len(similar) -> D]
    BY <1>1, <1>16, <2>1
  <2> QED
    BY <1>1, <2>2
<1> QED
  BY <1>4, <1>16, <1>17, <1>18 DEF Place, D

(* Who votes for c, and how many they are.                                 *)
Voters(clusters, similar, c) == {i \in Nearest(similar) : clusters[i] = c}
Count(clusters, similar, c) == Cardinality(Voters(clusters, similar, c))

(* Profile j votes for the style: no cluster has more votes, and those     *)
(* with as many have only voters that are less near.                       *)
Leads(clusters, similar, j) ==
  /\ j \in Nearest(similar)
  /\ \A i \in Nearest(similar) :
       clusters[i] # clusters[j] =>
         \/ Count(clusters, similar, clusters[i]) < Count(clusters, similar, clusters[j])
         \/ /\ Count(clusters, similar, clusters[i]) = Count(clusters, similar, clusters[j])
            /\ Nearer(similar, j, i)

(* The first K of the sorted profiles are those with fewer than K before   *)
(* them.                                                                   *)
LEMMA NeighboursAre ==
  ASSUME NEW similar \in Seq(Int)
  PROVE  LET m      == Min({K, Len(similar)})
             voters == Neighbours(similar)
         IN  /\ m \in 0..Len(similar) /\ (similar # <<>> => m # 0)
             /\ DOMAIN voters = 1..m
             /\ \A n \in 1..m : /\ voters[n] \in Nearest(similar)
                                /\ Cardinality(AheadOf(similar, voters[n])) = n - 1
             /\ \A i \in Nearest(similar) : \E n \in 1..m : i = voters[n]
             /\ IsFiniteSet(Nearest(similar)) /\ Cardinality(Nearest(similar)) = m
<1> DEFINE L      == Len(similar)
           m      == Min({K, L})
           voters == Neighbours(similar)
<1>1. L \in Nat /\ DOMAIN similar = 1..L /\ (similar # <<>> => L # 0) /\ K \in Nat \ {0}
  BY NeighboursAssumption
<1>2. m = (IF K <= L THEN K ELSE L)
  <2> HIDE DEF L
  <2>1. K \in Int /\ L \in Int
    BY <1>1
  <2> QED
    BY <2>1, OfTwo
<1>3. m \in 0..L /\ (similar # <<>> => m # 0)
  BY <1>1, <1>2
<1>4. /\ Ranked(similar) \in Seq(DOMAIN similar) /\ Len(Ranked(similar)) = L
      /\ \A n \in 1..L : /\ Ranked(similar)[n] \in DOMAIN similar
                         /\ Cardinality(AheadOf(similar, Ranked(similar)[n])) = n - 1
      /\ \A i \in DOMAIN similar :
           /\ Cardinality(AheadOf(similar, i)) + 1 \in 1..L
           /\ Ranked(similar)[Cardinality(AheadOf(similar, i)) + 1] = i
  BY <1>1, RankedIs
<1> HIDE DEF m, L
<1>5. DOMAIN voters = 1..m /\ \A n \in 1..m : voters[n] = Ranked(similar)[n]
  <2> DEFINE r == Ranked(similar)
  <2>1. r \in Seq(DOMAIN similar) /\ Len(r) = L
    BY <1>4
  <2>2. voters = SubSeq(r, 1, m)
    BY DEF Neighbours, m, L
  <2> HIDE DEF r, voters
  <2> QED
    BY <1>1, <1>3, <2>1, <2>2 DEF r
<1> HIDE DEF voters
<1>6. ASSUME NEW n \in 1..m
      PROVE  voters[n] \in Nearest(similar) /\ Cardinality(AheadOf(similar, voters[n])) = n - 1
  <2>1. n \in 1..L /\ n - 1 < K /\ n \in Int
    BY <1>1, <1>2, <1>3
  <2> QED
    BY <1>4, <1>5, <2>1 DEF Nearest
<1>7. ASSUME NEW i \in Nearest(similar) PROVE \E n \in 1..m : i = voters[n]
  <2>1. PICK c : c = Cardinality(AheadOf(similar, i))
    OBVIOUS
  <2>2. i \in DOMAIN similar /\ c < K
    BY <2>1 DEF Nearest
  <2>3. c + 1 \in 1..L /\ Ranked(similar)[c + 1] = i
    BY <1>4, <2>1, <2>2
  <2>4. c \in Nat
    BY <2>1, <2>2, FrontsAre
  <2>5. c + 1 \in 1..m
    BY <1>1, <1>2, <2>2, <2>3, <2>4
  <2> QED
    BY <1>5, <2>3, <2>5
<1>8. IsFiniteSet(Nearest(similar)) /\ Cardinality(Nearest(similar)) = m
  <2> DEFINE A == 1..m
             B == Nearest(similar)
  <2>1. IsFiniteSet(A) /\ Cardinality(A) = m
    BY <1>1, <1>3, Interval
  <2>2. \A x \in A : voters[x] \in B
    BY <1>6
  <2>3. \A x, y \in A : voters[x] = voters[y] => x = y
    BY <1>1, <1>3, <1>6
  <2>4. \A y \in B : \E x \in A : y = voters[x]
    BY <1>7
  <2> HIDE DEF A, B
  <2>5. IsFiniteSet(B) /\ Cardinality(B) = Cardinality(A)
    BY <2>1, <2>2, <2>3, <2>4, AsMany
  <2> QED
    BY <2>1, <2>5 DEF B
<1> QED
  BY <1>3, <1>5, <1>6, <1>7, <1>8 DEF m, L, voters

(* So the votes are theirs.                                                *)
LEMMA VotesAre ==
  ASSUME NEW similar \in Seq(Int), NEW clusters, NEW c
  PROVE  /\ Votes(clusters, Neighbours(similar), c) = Count(clusters, similar, c)
         /\ Count(clusters, similar, c) \in 0..Len(similar)
         /\ \A i \in Nearest(similar) : Count(clusters, similar, clusters[i]) # 0
<1> DEFINE voters == Neighbours(similar)
           m == Min({K, Len(similar)})
           A == {n \in DOMAIN voters : clusters[voters[n]] = c}
           B == Voters(clusters, similar, c)
<1>0. Len(similar) \in Nat
  OBVIOUS
<1>1. /\ m \in 0..Len(similar)
      /\ DOMAIN voters = 1..m
      /\ \A n \in 1..m : /\ voters[n] \in Nearest(similar)
                         /\ Cardinality(AheadOf(similar, voters[n])) = n - 1
      /\ \A i \in Nearest(similar) : \E n \in 1..m : i = voters[n]
      /\ IsFiniteSet(Nearest(similar)) /\ Cardinality(Nearest(similar)) = m
  BY NeighboursAre
<1> HIDE DEF voters, m
<1>2. A \in SUBSET (1..m)
  BY <1>1
<1>3. IsFiniteSet(1..m)
  BY <1>1, Interval
<1>4. IsFiniteSet(A)
  <2> DEFINE D == 1..m
  <2> HIDE DEF D, A
  <2>1. A \in SUBSET D /\ IsFiniteSet(D)
    BY <1>2, <1>3 DEF D
  <2> QED
    BY <2>1, Subsets
<1>5. \A x \in A : voters[x] \in B
  BY <1>1 DEF Voters
<1>6. \A x, y \in A : voters[x] = voters[y] => x = y
  <2> SUFFICES ASSUME NEW x \in A, NEW y \in A, voters[x] = voters[y] PROVE x = y
    OBVIOUS
  <2>1. x \in 1..m /\ y \in 1..m /\ x - 1 = y - 1
    BY <1>1
  <2> QED
    BY <1>1, <2>1
<1>7. \A y \in B : \E x \in A : y = voters[x]
  BY <1>1 DEF Voters
<1>8. Cardinality(A) = Cardinality(B)
  <2> HIDE DEF A, B
  <2> QED
    BY <1>4, <1>5, <1>6, <1>7, AsMany
<1>9. Votes(clusters, voters, c) = Cardinality(A)
  BY DEF Votes
<1>10. Count(clusters, similar, c) \in 0..Len(similar)
  <2>1. B \in SUBSET Nearest(similar)
    BY DEF Voters
  <2> HIDE DEF B
  <2>2. Cardinality(B) \in Nat /\ Cardinality(B) <= m
    BY <1>1, <2>1, Subsets
  <2> QED
    BY <1>1, <2>2 DEF Count, B
<1>11. ASSUME NEW i \in Nearest(similar) PROVE Count(clusters, similar, clusters[i]) # 0
  <2> DEFINE V == Voters(clusters, similar, clusters[i])
  <2>1. V \in SUBSET Nearest(similar) /\ i \in V
    BY DEF Voters
  <2> HIDE DEF V
  <2>2. Cardinality(V) # 0
    BY <1>1, <2>1, Subsets
  <2> QED
    BY <2>2 DEF Count, V
<1> QED
  BY <1>8, <1>9, <1>10, <1>11 DEF Count, voters

(* The classifier takes the cluster of a profile that leads.               *)
LEMMA ClassifyIs ==
  ASSUME NEW similar \in Seq(Int), similar # <<>>, NEW clusters
  PROVE  \E j \in DOMAIN similar :
           Leads(clusters, similar, j) /\ Classify(clusters, similar) = clusters[j]
<1> DEFINE voters == Neighbours(similar)
           m == Min({K, Len(similar)})
           Of(n) == Count(clusters, similar, clusters[voters[n]])
           L == Len(similar)
<1>0. Len(similar) \in Nat
  OBVIOUS
<1>1. /\ m \in 0..Len(similar) /\ m # 0
      /\ DOMAIN voters = 1..m
      /\ \A n \in 1..m : /\ voters[n] \in Nearest(similar)
                         /\ Cardinality(AheadOf(similar, voters[n])) = n - 1
      /\ \A i \in Nearest(similar) : \E n \in 1..m : i = voters[n]
  BY NeighboursAre
<1>2. \A n \in 1..m : Of(n) \in 1..L /\ Votes(clusters, voters, clusters[voters[n]]) = Of(n)
  <2> SUFFICES ASSUME NEW n \in 1..m
               PROVE  /\ Of(n) \in 1..L
                      /\ Votes(clusters, voters, clusters[voters[n]]) = Of(n)
    OBVIOUS
  <2>1. voters[n] \in Nearest(similar)
    BY <1>1
  <2>2. Of(n) \in 0..L /\ Of(n) # 0 /\ Votes(clusters, voters, clusters[voters[n]]) = Of(n)
    BY <2>1, VotesAre
  <2> QED
    BY <1>0, <2>2
<1>3. Classify(clusters, similar) =
        clusters[voters[Min({n \in DOMAIN voters :
          \A k \in DOMAIN voters : Votes(clusters, voters, clusters[voters[n]])
                                     >= Votes(clusters, voters, clusters[voters[k]])})]]
  BY DEF Classify
<1> HIDE DEF voters, m, L, Of
<1> DEFINE S == {Of(n) : n \in 1..m}
           W == {n \in 1..m : \A k \in 1..m : Of(n) >= Of(k)}
<1>4. {n \in DOMAIN voters : \A k \in DOMAIN voters :
         Votes(clusters, voters, clusters[voters[n]])
           >= Votes(clusters, voters, clusters[voters[k]])} = W
  BY <1>1, <1>2
<1>5. W \in SUBSET Nat /\ W # {}
  <2>1. L \in Nat /\ m \in Nat /\ 1 \in 1..m
    BY <1>0, <1>1 DEF L
  <2>2. S \in SUBSET (1..L) /\ S # {}
    BY <1>2, <2>1
  <2>3. PICK g \in S : \A x \in S : x <= g
    <3> HIDE DEF S
    <3> QED
      BY <2>1, <2>2, GreatestUpTo
  <2>4. PICK n \in 1..m : g = Of(n)
    BY <2>3
  <2>5. n \in W
    BY <1>2, <2>3, <2>4
  <2>6. 1..m \subseteq Nat
    BY <2>1
  <2> QED
    BY <2>5, <2>6
<1> DEFINE first == Min(W)
<1>6. first \in W /\ \A n \in W : first <= n
  <2> HIDE DEF W
  <2> QED
    BY <1>5, LeastNatural
<1> HIDE DEF first
<1>7. Classify(clusters, similar) = clusters[voters[first]]
  BY <1>3, <1>4 DEF first
<1>8. voters[first] \in Nearest(similar) /\ Nearest(similar) \subseteq DOMAIN similar
  BY <1>1, <1>6 DEF Nearest
<1>9. ASSUME NEW i \in Nearest(similar), clusters[i] # clusters[voters[first]]
      PROVE  \/ Count(clusters, similar, clusters[i])
                  < Count(clusters, similar, clusters[voters[first]])
             \/ /\ Count(clusters, similar, clusters[i])
                     = Count(clusters, similar, clusters[voters[first]])
                /\ Nearer(similar, voters[first], i)
  <2>1. PICK k \in 1..m : i = voters[k]
    BY <1>1
  <2>2. Of(k) <= Of(first) /\ Of(k) \in Int /\ Of(first) \in Int
    BY <1>2, <1>6
  <2>3. CASE Of(k) = Of(first)
    <3>1. k \in W
      BY <1>2, <1>6, <2>3
    <3>2. first \in 1..m /\ first <= k /\ first # k
      BY <1>6, <1>9, <2>1, <3>1
    <3>3. first - 1 < k - 1
      BY <1>1, <3>2
    <3>4. Cardinality(AheadOf(similar, voters[first])) < Cardinality(AheadOf(similar, i))
      BY <1>1, <2>1, <3>2, <3>3
    <3>5. Nearer(similar, voters[first], i)
      BY <1>8, <3>4, FrontsAre
    <3> QED
      BY <2>1, <2>3, <3>5 DEF Of
  <2>4. CASE Of(k) < Of(first)
    BY <2>1, <2>4 DEF Of
  <2> QED
    BY <2>2, <2>3, <2>4
<1> QED
  BY <1>7, <1>8, <1>9 DEF Leads

(* Who leads leads alone, or with others of its cluster.                   *)
LEMMA OneLeads ==
  ASSUME NEW similar \in Seq(Int), NEW clusters, NEW i, NEW j,
         Leads(clusters, similar, i), Leads(clusters, similar, j)
  PROVE  clusters[i] = clusters[j]
<1> SUFFICES ASSUME clusters[i] # clusters[j] PROVE FALSE
  OBVIOUS
<1>1. i \in Nearest(similar) /\ j \in Nearest(similar) /\ Nearest(similar) \subseteq DOMAIN similar
  BY DEF Leads, Nearest
<1>2. /\ Count(clusters, similar, clusters[i]) \in Int
      /\ Count(clusters, similar, clusters[j]) \in Int
  <2>1. Len(similar) \in Nat
    OBVIOUS
  <2> QED
    BY <2>1, VotesAre
<1>3. Nearer(similar, i, j) /\ Nearer(similar, j, i)
  BY <1>1, <1>2 DEF Leads
<1> QED
  BY <1>1, <1>3, NearerOrders

(* When i comes closer, nobody overtakes but i.                            *)
LEMMA FrontsOfCloser ==
  ASSUME NEW similar \in Seq(Int), NEW i \in DOMAIN similar, NEW s \in Int, s > similar[i]
  PROVE  LET closer == [similar EXCEPT ![i] = s]
         IN  /\ closer \in Seq(Int) /\ DOMAIN closer = DOMAIN similar
             /\ Len(closer) = Len(similar)
             /\ \A a, b \in DOMAIN similar :
                  b # i /\ Nearer(similar, a, b) => Nearer(closer, a, b)
             /\ \A a, b \in DOMAIN similar :
                  a # i /\ Nearer(closer, a, b) => Nearer(similar, a, b)
<1> DEFINE closer == [similar EXCEPT ![i] = s]
<1>1. /\ closer \in Seq(Int) /\ DOMAIN closer = DOMAIN similar /\ Len(closer) = Len(similar)
      /\ closer[i] = s /\ \A a \in DOMAIN similar : a # i => closer[a] = similar[a]
      /\ \A a \in DOMAIN similar : a \in Int /\ similar[a] \in Int
  OBVIOUS
<1> HIDE DEF closer
<1> QED
  BY <1>1 DEF Nearer, closer

(* So the style keeps its votes, and no other cluster gets one.            *)
LEMMA VotesOfCloser ==
  ASSUME NEW similar \in Seq(Int), NEW i \in DOMAIN similar, NEW s \in Int, s > similar[i],
         NEW clusters
  PROVE  LET closer == [similar EXCEPT ![i] = s]
         IN  /\ \A a \in Nearest(closer) : a = i \/ a \in Nearest(similar)
             /\ i \in Nearest(similar) => i \in Nearest(closer)
             /\ \A j \in Nearest(similar) :
                  j \in Nearest(closer) \/ (i \in Nearest(closer) /\ Nearer(closer, i, j))
             /\ Count(clusters, closer, clusters[i]) >= Count(clusters, similar, clusters[i])
             /\ \A c : c # clusters[i] => Count(clusters, closer, c) <= Count(clusters, similar, c)
<1> DEFINE closer == [similar EXCEPT ![i] = s]
           c0 == clusters[i]
<1>1. /\ closer \in Seq(Int) /\ DOMAIN closer = DOMAIN similar /\ Len(closer) = Len(similar)
      /\ \A a, b \in DOMAIN similar : b # i /\ Nearer(similar, a, b) => Nearer(closer, a, b)
      /\ \A a, b \in DOMAIN similar : a # i /\ Nearer(closer, a, b) => Nearer(similar, a, b)
  BY FrontsOfCloser
<1> HIDE DEF closer
<1>2. \A a \in DOMAIN similar :
        /\ IsFiniteSet(AheadOf(similar, a)) /\ Cardinality(AheadOf(similar, a)) \in Nat
        /\ IsFiniteSet(AheadOf(closer, a)) /\ Cardinality(AheadOf(closer, a)) \in Nat
        /\ a \notin AheadOf(closer, a)
  <2>1. Len(similar) \in Nat
    OBVIOUS
  <2> QED
    BY <1>1, <2>1, FrontsAre
<1>3. ASSUME NEW a \in Nearest(closer), a # i PROVE a \in Nearest(similar)
  <2>1. a \in DOMAIN similar /\ Cardinality(AheadOf(closer, a)) < K
    BY <1>1 DEF Nearest
  <2>2. AheadOf(similar, a) \in SUBSET AheadOf(closer, a)
    BY <1>1, <1>3, <2>1 DEF AheadOf
  <2>3. Cardinality(AheadOf(similar, a)) <= Cardinality(AheadOf(closer, a))
    BY <1>2, <2>1, <2>2, FS_Subset
  <2> QED
    BY <1>2, <2>1, <2>3, NeighboursAssumption DEF Nearest
<1>4. ASSUME i \in Nearest(similar) PROVE i \in Nearest(closer)
  <2>1. Cardinality(AheadOf(similar, i)) < K
    BY <1>4 DEF Nearest
  <2>2. AheadOf(closer, i) \in SUBSET AheadOf(similar, i)
    BY <1>1, <1>2 DEF AheadOf
  <2>3. Cardinality(AheadOf(closer, i)) <= Cardinality(AheadOf(similar, i))
    BY <1>2, <2>2, FS_Subset
  <2> QED
    BY <1>1, <1>2, <2>1, <2>3, NeighboursAssumption DEF Nearest
<1>5. ASSUME NEW j \in Nearest(similar), j \notin Nearest(closer)
      PROVE  i \in Nearest(closer) /\ Nearer(closer, i, j)
  <2>1. j \in DOMAIN similar /\ Cardinality(AheadOf(similar, j)) < K /\ j # i
    BY <1>4, <1>5 DEF Nearest
  <2>2. ~(Cardinality(AheadOf(closer, j)) < K)
    BY <1>1, <1>5, <2>1 DEF Nearest
  <2>3. AheadOf(closer, j) \subseteq AheadOf(similar, j) \cup {i}
    BY <1>1, <2>1 DEF AheadOf
  <2>4. AheadOf(closer, j) # AheadOf(similar, j) /\ AheadOf(similar, j) \subseteq AheadOf(closer, j)
    BY <1>1, <2>1, <2>2 DEF AheadOf
  <2>5. i \in AheadOf(closer, j) /\ i \notin AheadOf(similar, j)
    BY <2>3, <2>4
  <2>6. AheadOf(closer, j) = AheadOf(similar, j) \cup {i}
    BY <2>3, <2>4, <2>5
  <2>7. Cardinality(AheadOf(closer, j)) = Cardinality(AheadOf(similar, j)) + 1
    BY <1>2, <2>1, <2>5, <2>6, FS_AddElement
  <2>8. Nearer(closer, i, j)
    BY <2>5 DEF AheadOf
  <2>9. Cardinality(AheadOf(closer, i)) < Cardinality(AheadOf(closer, j))
    BY <1>1, <2>1, <2>8, FrontsAre
  <2>10. Cardinality(AheadOf(closer, i)) < K
    BY <1>2, <2>1, <2>7, <2>9, NeighboursAssumption
  <2> QED
    BY <1>1, <2>8, <2>10 DEF Nearest
<1>6. /\ IsFiniteSet(Nearest(similar)) /\ IsFiniteSet(Nearest(closer))
      /\ Cardinality(Nearest(closer)) = Cardinality(Nearest(similar))
  BY <1>1, NeighboursAre
<1>7. \A c : /\ Voters(clusters, similar, c) \in SUBSET Nearest(similar)
             /\ Voters(clusters, closer, c) \in SUBSET Nearest(closer)
  BY DEF Voters
<1>8. ASSUME NEW c, c # c0
      PROVE  Count(clusters, closer, c) <= Count(clusters, similar, c)
  <2>1. Voters(clusters, closer, c) \in SUBSET Voters(clusters, similar, c)
    BY <1>3, <1>8 DEF Voters
  <2>2. IsFiniteSet(Voters(clusters, similar, c))
    BY <1>6, <1>7, FS_Subset
  <2> QED
    BY <2>1, <2>2, FS_Subset DEF Count
<1>9. Count(clusters, closer, c0) >= Count(clusters, similar, c0)
  <2> DEFINE N == Nearest(similar)
             M == Nearest(closer)
             V == Voters(clusters, similar, c0)
             U == Voters(clusters, closer, c0)
  <2>1. M \ U \in SUBSET (N \ V)
    BY <1>3 DEF Voters
  <2>2. V \in SUBSET N /\ U \in SUBSET M
    BY <1>7
  <2>3. IsFiniteSet(N) /\ IsFiniteSet(M) /\ Cardinality(M) = Cardinality(N)
    BY <1>6
  <2> HIDE DEF N, M, V, U
  <2>4. IsFiniteSet(N \ V) /\ IsFiniteSet(M \ U) /\ IsFiniteSet(V) /\ IsFiniteSet(U)
    BY <2>2, <2>3, FS_Subset, FS_Difference
  <2>5. Cardinality(M \ U) <= Cardinality(N \ V)
    BY <2>1, <2>4, FS_Subset
  <2>6. N \cap V = V /\ M \cap U = U
    BY <2>2
  <2>7. /\ Cardinality(N \ V) = Cardinality(N) - Cardinality(V)
        /\ Cardinality(M \ U) = Cardinality(M) - Cardinality(U)
    <3>1. Cardinality(N \ V) = Cardinality(N) - Cardinality(N \cap V)
      BY <2>3, FS_Difference
    <3>2. Cardinality(M \ U) = Cardinality(M) - Cardinality(M \cap U)
      BY <2>3, FS_Difference
    <3> QED
      BY <2>6, <3>1, <3>2
  <2>8. /\ Cardinality(N) \in Nat /\ Cardinality(V) \in Nat /\ Cardinality(U) \in Nat
    BY <2>3, <2>4, FS_CardinalityType
  <2>9. Cardinality(U) >= Cardinality(V)
    BY <2>3, <2>5, <2>7, <2>8
  <2> QED
    BY <2>9 DEF Count, U, V
<1> QED
  BY <1>3, <1>4, <1>5, <1>8, <1>9 DEF closer

(* The profile that leads still does, unless it is overtaken by i, which   *)
(* has its cluster.                                                        *)
LEMMA CloserLeads ==
  ASSUME NEW similar \in Seq(Int), NEW i \in DOMAIN similar, NEW s \in Int, s > similar[i],
         NEW clusters, NEW j \in DOMAIN similar, Leads(clusters, similar, j),
         clusters[i] = clusters[j]
  PROVE  LET closer == [similar EXCEPT ![i] = s]
         IN  Leads(clusters, closer, i) \/ Leads(clusters, closer, j)
<1> DEFINE closer == [similar EXCEPT ![i] = s]
<1>1. /\ closer \in Seq(Int) /\ DOMAIN closer = DOMAIN similar /\ Len(closer) = Len(similar)
      /\ \A a, b \in DOMAIN similar : b # i /\ Nearer(similar, a, b) => Nearer(closer, a, b)
  BY FrontsOfCloser
<1>2. /\ \A a \in Nearest(closer) : a = i \/ a \in Nearest(similar)
      /\ i \in Nearest(similar) => i \in Nearest(closer)
      /\ \A a \in Nearest(similar) :
           a \in Nearest(closer) \/ (i \in Nearest(closer) /\ Nearer(closer, i, a))
      /\ Count(clusters, closer, clusters[i]) >= Count(clusters, similar, clusters[i])
      /\ \A c : c # clusters[i] => Count(clusters, closer, c) <= Count(clusters, similar, c)
  BY VotesOfCloser
<1> HIDE DEF closer
<1>3. \A c : Count(clusters, similar, c) \in Int /\ Count(clusters, closer, c) \in Int
  <2>1. Len(similar) \in Nat
    OBVIOUS
  <2> QED
    BY <1>1, <2>1, VotesAre
<1>4. j \in Nearest(similar)
  BY DEF Leads
<1>5. ASSUME NEW v \in Nearest(closer), clusters[v] # clusters[j]
      PROVE  \/ Count(clusters, closer, clusters[v]) < Count(clusters, closer, clusters[j])
             \/ /\ Count(clusters, closer, clusters[v]) = Count(clusters, closer, clusters[j])
                /\ Nearer(closer, j, v)
  <2>1. v \in Nearest(similar) /\ v # i /\ v \in DOMAIN similar
    BY <1>2, <1>5 DEF Nearest
  <2>2. \/ Count(clusters, similar, clusters[v]) < Count(clusters, similar, clusters[j])
        \/ /\ Count(clusters, similar, clusters[v]) = Count(clusters, similar, clusters[j])
           /\ Nearer(similar, j, v)
    BY <1>5, <2>1 DEF Leads
  <2>3. /\ Count(clusters, closer, clusters[v]) <= Count(clusters, similar, clusters[v])
        /\ Count(clusters, similar, clusters[j]) <= Count(clusters, closer, clusters[j])
    BY <1>2, <1>3, <1>5
  <2>4. Nearer(similar, j, v) => Nearer(closer, j, v)
    BY <1>1, <2>1
  <2> QED
    BY <1>3, <2>2, <2>3, <2>4
<1>6. CASE j \in Nearest(closer)
  BY <1>5, <1>6 DEF Leads, closer
<1>7. CASE j \notin Nearest(closer)
  <2>1. i \in Nearest(closer) /\ Nearer(closer, i, j)
    BY <1>2, <1>4, <1>7
  <2>2. \A v \in Nearest(closer) : Nearer(closer, j, v) => Nearer(closer, i, v)
    BY <1>1, <2>1, NearerOrders DEF Nearest
  <2> QED
    BY <1>5, <2>1, <2>2 DEF Leads, closer
<1> QED
  BY <1>6, <1>7
=============================================================================
