---------------------------- MODULE RateLimiter ----------------------------
(***************************************************************************)
(* services/api/rate_limiter.py: the sliding window of each tenant, on the *)
(* process's monotonic clock.  check_rate_limit has no await, so one call  *)
(* is one step; time passes between calls, and any number of calls may     *)
(* see the same clock reading.                                             *)
(***************************************************************************)
EXTENDS Naturals, Sequences

CONSTANTS
  Tenants,
  Limit,     \* _LIMIT
  Window,    \* _WINDOW_SEC, in clock ticks
  MaxTime    \* bound on the clock

ASSUME LimiterAssumption ==
  Limit \in Nat \ {0} /\ Window \in Nat \ {0} /\ MaxTime \in Nat

VARIABLES
  now,        \* time.monotonic()
  window,     \* _windows: [Tenants -> timestamps, oldest first]
  accepted,   \* history: [Tenants -> timestamps of every admitted request]
  rejectedAt  \* history: [Tenants -> times of a 429]

limiterVars == <<now, window, accepted, rejectedAt>>

LimiterTypeOK ==
  /\ now \in Nat
  /\ window \in [Tenants -> Seq(Nat)]
  /\ accepted \in [Tenants -> Seq(Nat)]
  /\ rejectedAt \in [Tenants -> SUBSET Nat]

LimiterInit ==
  /\ now = 0
  /\ window = [t \in Tenants |-> <<>>]
  /\ accepted = [t \in Tenants |-> <<>>]
  /\ rejectedAt = [t \in Tenants |-> {}]

Tick ==
  /\ now < MaxTime
  /\ now' = now + 1
  /\ UNCHANGED <<window, accepted, rejectedAt>>

(* Variant: the oldest request leaves the window at its very edge.         *)
OutsideOrOnEdge(stamp) == stamp + Window <= now

Outside(stamp) == stamp + Window < now

(* The loop pops the first k timestamps: all of them are outside, and the  *)
(* next one, if any, is not.                                               *)
Evicted(w, k) ==
  /\ k \in 0..Len(w)
  /\ \A i \in 1..k : Outside(w[i])
  /\ k < Len(w) => ~Outside(w[k + 1])

(* Variant: a rejected request takes a place in the window too.            *)
RejectCounting(t, kept) ==
  /\ Len(kept) >= Limit
  /\ window' = [window EXCEPT ![t] = Append(kept, now)]
  /\ rejectedAt' = [rejectedAt EXCEPT ![t] = @ \cup {now}]
  /\ UNCHANGED accepted

Reject(t, kept) ==
  /\ Len(kept) >= Limit
  /\ window' = [window EXCEPT ![t] = kept]
  /\ rejectedAt' = [rejectedAt EXCEPT ![t] = @ \cup {now}]
  /\ UNCHANGED accepted

Admit(t, kept) ==
  /\ Len(kept) < Limit
  /\ window' = [window EXCEPT ![t] = Append(kept, now)]
  /\ accepted' = [accepted EXCEPT ![t] = Append(@, now)]
  /\ UNCHANGED rejectedAt

CheckRateLimit(t) ==
  /\ \E k \in 0..Len(window[t]) :
       /\ Evicted(window[t], k)
       /\ LET kept == SubSeq(window[t], k + 1, Len(window[t]))
          IN  Reject(t, kept) \/ Admit(t, kept)
  /\ UNCHANGED now

LimiterNext == Tick \/ \E t \in Tenants : CheckRateLimit(t)

LimiterSpec == LimiterInit /\ [][LimiterNext]_limiterVars

-----------------------------------------------------------------------------
(* A sequence of admissions with no Limit + 1 of them in one Window.       *)
Spaced(a) ==
  \A i \in 1..Len(a) : i + Limit <= Len(a) => a[i] + Window < a[i + Limit]

(* Never more than Limit requests of a tenant are admitted within any      *)
(* Window, wherever it begins: no burst at a boundary, which is what the   *)
(* sliding window is for.                                                  *)
NoBurst == \A t \in Tenants : Spaced(accepted[t])

(* A 429 is never unfair: the tenant has been admitted Limit times within  *)
(* the Window before it.  Rejected requests do not count, so hammering     *)
(* does not prolong the lockout.                                           *)
Exhausted(a) ==
  Len(a) >= Limit /\ a[Len(a) - Limit + 1] + Window >= now

RejectionIsFair ==
  [][\A t \in Tenants :
       rejectedAt'[t] # rejectedAt[t] => Exhausted(accepted[t])]_limiterVars

-----------------------------------------------------------------------------
(* The inductive invariant, on one tenant's window w and admissions a.     *)
Sorted(a) ==
  /\ \A i, j \in 1..Len(a) : i <= j => a[i] <= a[j]
  /\ \A i \in 1..Len(a) : a[i] <= now

(* The window is the tail of the admissions, and what is before it is out  *)
(* of reach for good.                                                      *)
IsTail(w, a) ==
  /\ Len(w) <= Len(a)
  /\ \A i \in 1..Len(w) : w[i] = a[Len(a) - Len(w) + i]
  /\ \A i \in 1..(Len(a) - Len(w)) : Outside(a[i])

LimiterInv ==
  /\ LimiterTypeOK
  /\ \A t \in Tenants :
       Sorted(accepted[t]) /\ IsTail(window[t], accepted[t]) /\ Spaced(accepted[t])
=============================================================================
