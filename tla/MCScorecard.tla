---------------------------- MODULE MCScorecard ----------------------------
(***************************************************************************)
(* Scorecard with two agents, times 0 to 3, and four profiles of three     *)
(* clusters.  Ids are interchangeable.                                     *)
(***************************************************************************)
EXTENDS Scorecard

CONSTANT Ids   \* event ids; ref of a correction is one of them

IdSymmetry == Permutations(Ids)

Event(id, type, at, agent, ref, error, latency) ==
  [id |-> id, type |-> type, at |-> at, agent |-> agent, ref |-> ref, error |-> error,
   text |-> None, latency |-> latency]

EventsOf(id) ==
  {Event(id, "SCENARIO_STARTED", 1, None, None, None, None),
   Event(id, "PROMPT_SENT", 1, "delta", None, None, None),
   Event(id, "AGENT_RESPONSE", 0, "delta", None, None, None),
   Event(id, "CORRECTION_ISSUED", 2, "nova", None, "other", None)}
  \cup {Event(id, Marker, t, None, None, None, None) : t \in {0, 3}}
  \cup {Event(id, "SCENARIO_ENDED", t, None, None, None, None) : t \in {1, 2}}
  \cup {Event(id, "AGENT_RESPONSE", t, "delta", None, None, 2) : t \in {0, 2}}
  \cup {Event(id, "CORRECTION_ISSUED", t, "delta", i, "hallucinated_value", None) :
          t \in {1, 3}, i \in Ids}

MCAlphabet == UNION {EventsOf(id) : id \in Ids}

MCBaselines == {<<None, None>>, <<None, 1>>}
MCMarks == {0, 14, 30}
MCSimilarities == 0..2
MCClusters == <<"executor", "architect", "executor", "debugger">>
=============================================================================
