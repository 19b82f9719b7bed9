-------------------------- MODULE WebhookDelivery --------------------------
(***************************************************************************)
(* services/api/webhooks.py: registration of webhooks and the delivery of  *)
(* the fingerprints of several DAG runs to the hooks of one tenant.  A     *)
(* delivery reads the active hooks once and serves them one after the      *)
(* other, in the order the database returned them, which no statement      *)
(* fixes.                                                                  *)
(*                                                                         *)
(* An attempt ends with an answer in time, with an answer after the 10 s   *)
(* timeout (the hook has the fingerprint, the client does not know) or     *)
(* with an error; and the task may be killed at any point.                 *)
(***************************************************************************)
EXTENDS Integers

CONSTANTS Deliveries,   \* assembly runs that have saved their fingerprint
          Hooks,        \* ids of the tenant's webhooks
          NoHook,       \* between two turns of the loop
          MaxAttempts   \* stop_after_attempt

ASSUME AttemptsAssumption == MaxAttempts \in Nat \ {0}
ASSUME HooksAssumption == NoHook \notin Hooks

VARIABLES registered,  \* rows of the webhooks table, all active
          stage,       \* stage[r]: "saved", "delivering", "over" or "killed"
          listed,      \* listed[r]: the hooks run r read
          left,        \* left[r]: of these, what it has not turned to yet
          posting,     \* posting[r]: the hook _post_with_retry is called for
          attempts,    \* attempts[r][h]: requests sent to h
          outcome,     \* outcome[r][h]: "none", "delivered" or "failed"
          late,        \* late[r][h]: accepted, but the client saw no answer
          copies       \* copies[r][h]: requests h accepted

loop     == <<stage, listed, left, posting>>
requests == <<attempts, outcome, late, copies>>
deliveryVars     == <<registered, loop, requests>>

Counters == [Deliveries -> [Hooks -> 0..MaxAttempts]]

DeliveryTypeOK ==
  /\ registered \in SUBSET Hooks
  /\ stage \in [Deliveries -> {"saved", "delivering", "over", "killed"}]
  /\ listed \in [Deliveries -> SUBSET Hooks]
  /\ left \in [Deliveries -> SUBSET Hooks]
  /\ posting \in [Deliveries -> Hooks \cup {NoHook}]
  /\ attempts \in Counters
  /\ outcome \in [Deliveries -> [Hooks -> {"none", "delivered", "failed"}]]
  /\ late \in Counters
  /\ copies \in Counters

DeliveryInit ==
  /\ registered = {}
  /\ stage = [r \in Deliveries |-> "saved"]
  /\ listed = [r \in Deliveries |-> {}]
  /\ left = [r \in Deliveries |-> {}]
  /\ posting = [r \in Deliveries |-> NoHook]
  /\ attempts = [r \in Deliveries |-> [h \in Hooks |-> 0]]
  /\ outcome = [r \in Deliveries |-> [h \in Hooks |-> "none"]]
  /\ late = [r \in Deliveries |-> [h \in Hooks |-> 0]]
  /\ copies = [r \in Deliveries |-> [h \in Hooks |-> 0]]

Bump(f, r, h) == [f EXCEPT ![r] = [f[r] EXCEPT ![h] = f[r][h] + 1]]

Settle(r, h, result) == [outcome EXCEPT ![r] = [outcome[r] EXCEPT ![h] = result]]

RegisterWebhook(h) ==
  /\ h \notin registered
  /\ registered' = registered \cup {h}
  /\ UNCHANGED <<loop, requests>>

(* deliver_fingerprint finds no row of the session, and returns.           *)
NoSession(r) ==
  /\ stage[r] = "saved"
  /\ stage' = [stage EXCEPT ![r] = "over"]
  /\ UNCHANGED <<registered, listed, left, posting, requests>>

ListHooks(r) ==
  /\ stage[r] = "saved"
  /\ stage' = [stage EXCEPT ![r] = "delivering"]
  /\ listed' = [listed EXCEPT ![r] = registered]
  /\ left' = [left EXCEPT ![r] = registered]
  /\ UNCHANGED <<registered, posting, requests>>

(* The next turn of the loop.                                              *)
TurnTo(r, h) ==
  /\ stage[r] = "delivering"
  /\ posting[r] = NoHook
  /\ h \in left[r]
  /\ left' = [left EXCEPT ![r] = left[r] \ {h}]
  /\ posting' = [posting EXCEPT ![r] = h]
  /\ UNCHANGED <<registered, stage, listed, requests>>

Posts(r, h) ==
  /\ stage[r] = "delivering"
  /\ posting[r] = h
  /\ attempts' = Bump(attempts, r, h)
  /\ UNCHANGED <<registered, stage, listed, left>>

(* Variant: tenacity does not see that the attempt succeeded.              *)
AcknowledgedRetried(r, h) ==
  /\ Posts(r, h)
  /\ attempts[r][h] + 1 < MaxAttempts
  /\ copies' = Bump(copies, r, h)
  /\ outcome' = Settle(r, h, "delivered")
  /\ UNCHANGED <<late, posting>>

(* A 2xx answer in time.                                                   *)
Acknowledged(r, h) ==
  /\ Posts(r, h)
  /\ copies' = Bump(copies, r, h)
  /\ outcome' = Settle(r, h, "delivered")
  /\ posting' = [posting EXCEPT ![r] = NoHook]
  /\ UNCHANGED late

(* Variant: nothing stops after MaxAttempts.                               *)
TriesAgainUnbounded(r, h) == UNCHANGED <<outcome, posting>>

(* Another attempt is left: tenacity waits and posts again.                *)
TriesAgain(r, h) ==
  /\ attempts[r][h] + 1 < MaxAttempts
  /\ UNCHANGED <<outcome, posting>>

(* Variant: the first exception is the last.                               *)
GivesUpEarly(r, h) ==
  /\ outcome' = Settle(r, h, "failed")
  /\ posting' = [posting EXCEPT ![r] = NoHook]

(* The last attempt's exception is caught and logged, and the loop goes on.*)
GivesUp(r, h) ==
  /\ attempts[r][h] + 1 = MaxAttempts
  /\ outcome' = Settle(r, h, "failed")
  /\ posting' = [posting EXCEPT ![r] = NoHook]

(* No connection, no answer, or one that raise_for_status refuses.         *)
Rejected(r, h) ==
  /\ Posts(r, h)
  /\ TriesAgain(r, h) \/ GivesUp(r, h)
  /\ UNCHANGED <<late, copies>>

(* The hook accepts the fingerprint, but its answer comes after the        *)
(* timeout or not at all.                                                  *)
AnsweredLate(r, h) ==
  /\ Posts(r, h)
  /\ TriesAgain(r, h) \/ GivesUp(r, h)
  /\ late' = Bump(late, r, h)
  /\ copies' = Bump(copies, r, h)

(* Variant: a hook that failed ends the loop.                              *)
EndDeliveryOnFailure(r) ==
  /\ stage[r] = "delivering"
  /\ left[r] = {} \/ \E h \in Hooks : outcome[r][h] = "failed"
  /\ posting[r] = NoHook
  /\ stage' = [stage EXCEPT ![r] = "over"]
  /\ UNCHANGED <<registered, listed, left, posting, requests>>

EndDelivery(r) ==
  /\ stage[r] = "delivering"
  /\ left[r] = {}
  /\ posting[r] = NoHook
  /\ stage' = [stage EXCEPT ![r] = "over"]
  /\ UNCHANGED <<registered, listed, left, posting, requests>>

(* Airflow kills the task, between two requests or during one, which the   *)
(* hook may still accept.                                                  *)
Kill(r) ==
  /\ stage[r] = "delivering"
  /\ stage' = [stage EXCEPT ![r] = "killed"]
  /\ \/ UNCHANGED requests
     \/ /\ posting[r] # NoHook
        /\ attempts' = Bump(attempts, r, posting[r])
        /\ late' = Bump(late, r, posting[r])
        /\ copies' = Bump(copies, r, posting[r])
        /\ UNCHANGED outcome
  /\ UNCHANGED <<registered, listed, left, posting>>

DeliveryStep(r) ==
  \/ \E h \in Hooks : \/ TurnTo(r, h)
                      \/ Acknowledged(r, h) \/ Rejected(r, h) \/ AnsweredLate(r, h)
  \/ EndDelivery(r)

DeliveryNext ==
  \/ \E h \in Hooks : RegisterWebhook(h)
  \/ \E r \in Deliveries : NoSession(r) \/ ListHooks(r) \/ DeliveryStep(r) \/ Kill(r)

DeliverySpec == DeliveryInit /\ [][DeliveryNext]_deliveryVars

(* A request ends: httpx raises after 10 s without a byte, and a hook is   *)
(* taken not to send a byte now and then for ever.  A back-off is at most  *)
(* 30 s.                                                                   *)
DeliveryFairness == \A r \in Deliveries : WF_deliveryVars(DeliveryStep(r))

FairDeliverySpec == DeliverySpec /\ DeliveryFairness

-----------------------------------------------------------------------------
(* A run sends a hook its fingerprint in at most MaxAttempts requests,     *)
(* whoever failed, was late or was killed.  The hook has accepted it once  *)
(* for an acknowledgement and once more for every answer the client did    *)
(* not see: so a hook the log calls "failed" may well have it, even        *)
(* several times, but is called so only after MaxAttempts requests; one    *)
(* that was not listed, or not turned to yet, has had none.                *)
CopiesAreExplained ==
  \A r \in Deliveries, h \in Hooks :
    /\ attempts[r][h] <= MaxAttempts
    /\ copies[r][h] <= attempts[r][h]
    /\ copies[r][h] = late[r][h] + (IF outcome[r][h] = "delivered" THEN 1 ELSE 0)
    /\ outcome[r][h] = "failed" => attempts[r][h] = MaxAttempts
    /\ attempts[r][h] > 0 => h \in listed[r] \ left[r]

(* What a hook acknowledged, and what was given up, is not posted again.   *)
SettledIsNotPosted ==
  [][\A r \in Deliveries, h \in Hooks :
       outcome[r][h] # "none" =>
         attempts'[r][h] = attempts[r][h] /\ outcome'[r][h] = outcome[r][h]]_deliveryVars

(* Every hook on the list is tried until it acknowledged or MaxAttempts    *)
(* requests failed, however the other hooks behave, unless the task is     *)
(* killed; and a delivery that ends has forgotten none.                    *)
EveryHookIsServed ==
  /\ \A r \in Deliveries, h \in Hooks :
       (h \in listed[r]) ~> (outcome[r][h] # "none" \/ stage[r] = "killed")
  /\ [](\A r \in Deliveries, h \in Hooks :
          (stage[r] = "over" /\ h \in listed[r]) => outcome[r][h] # "none")

(* Every hook is served, and then left alone.                              *)
EveryHookSettlesOnce == SettledIsNotPosted /\ EveryHookIsServed

-----------------------------------------------------------------------------
(* The inductive invariant, per run and hook: the hook of the current turn *)
(* has an attempt left and no outcome, the hooks left have not been tried. *)
TurnIsOpen(r, h) ==
  /\ posting[r] = h => /\ h \in listed[r]
                       /\ h \notin left[r]
                       /\ outcome[r][h] = "none"
                       /\ stage[r] = "delivering" => attempts[r][h] < MaxAttempts
  /\ h \in left[r] => outcome[r][h] = "none" /\ attempts[r][h] = 0
  /\ h \notin listed[r] => outcome[r][h] = "none" /\ attempts[r][h] = 0

ExplainedAt(r, h) ==
  /\ copies[r][h] <= attempts[r][h]
  /\ copies[r][h] = late[r][h] + (IF outcome[r][h] = "delivered" THEN 1 ELSE 0)
  /\ outcome[r][h] = "failed" => attempts[r][h] = MaxAttempts
  /\ attempts[r][h] > 0 => h \in listed[r] \ left[r]

BeforeListing(r) ==
  /\ left[r] \subseteq listed[r]
  /\ stage[r] = "saved" => posting[r] = NoHook /\ listed[r] = {}

DeliveryInv ==
  \A r \in Deliveries : /\ BeforeListing(r)
                  /\ \A h \in Hooks : TurnIsOpen(r, h) /\ ExplainedAt(r, h)
=============================================================================
