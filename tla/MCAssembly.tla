---------------------------- MODULE MCAssembly ----------------------------
(***************************************************************************)
(* Evaluation of a session with five events, four of them to embed, by two *)
(* runs; and WebhookDelivery of the fingerprints of two runs.  They share  *)
(* no state: the first state says which of them moves, and the other one   *)
(* stays as it began.                                                      *)
(***************************************************************************)
EXTENDS Evaluation, WebhookDelivery

VARIABLE part   \* "evaluation" or "delivery"

Said(id, type, agent, text) ==
  [id |-> id, type |-> type, at |-> 1, agent |-> agent, ref |-> None, error |-> None,
   text |-> text, latency |-> None]

MCRecorded ==
  <<Said("e1", "AGENT_RESPONSE", "delta", "hello"),
    Said("e2", "PROMPT_SENT", "delta", "fix"),
    Said("e3", "CORRECTION_ISSUED", "delta", "no"),
    Said("e4", "PROMPT_SENT", "delta", "do"),
    Said("e5", "PROMPT_SENT", "nova", "test")>>

MCExports == {1, 3, 5}

AssemblyInit == part \in {"evaluation", "delivery"} /\ Init /\ DeliveryInit

AssemblyNext ==
  \/ part = "evaluation" /\ Next /\ UNCHANGED <<part, deliveryVars>>
  \/ part = "delivery" /\ DeliveryNext /\ UNCHANGED <<part, vars>>

AssemblySpec ==
  /\ AssemblyInit /\ [][AssemblyNext]_<<part, vars, deliveryVars>>
  /\ DeliveryFairness
=============================================================================
