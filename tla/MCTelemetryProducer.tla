------------------------- MODULE MCTelemetryProducer -------------------------
(***************************************************************************)
(* Three events on two topics: p and q share one, r is alone.              *)
(***************************************************************************)
EXTENDS TelemetryProducer

CONSTANTS p, q, r

MCEvents == {p, q, r}

MCTopicOf == [e \in MCEvents |-> IF e = r THEN "agent_response" ELSE "prompt_sent"]
=============================================================================
