-------------------------- MODULE MCStoreAndChaos --------------------------
(***************************************************************************)
(* FingerprintStore and ChaosInjection, which share no state: the first    *)
(* state says which of them moves, and the other one stays as it began.    *)
(* Sessions are interchangeable, and so are the DAG runs for one session.  *)
(***************************************************************************)
EXTENDS FingerprintStore, ChaosInjection, TLC

VARIABLE part   \* "store" or "chaos"

Symmetry == Permutations(Sessions) \cup Permutations(Injections)

BothInit ==
  /\ part \in {"store", "chaos"}
  /\ StoreInit /\ ChaosInit
  /\ part = "store" => producer

BothNext ==
  \/ part = "store" /\ StoreNext /\ UNCHANGED <<part, chaosVars>>
  \/ part = "chaos" /\ ChaosNext /\ UNCHANGED <<part, storeVars>>

BothSpec == BothInit /\ [][BothNext]_<<part, storeVars, chaosVars>>
=============================================================================
