-------------------------- MODULE EvaluatorProofs --------------------------
(***************************************************************************)
(* Proofs about services/evaluator.  Evaluation, for any recording, batch  *)
(* size and number of overlapping runs: what the ETL reports and what a    *)
(* fingerprint is based on is true, and the graph in Neo4j is that of its  *)
(* run.  Scorecard, for any alphabet of events and any number of inputs:   *)
(* every score is defined, the graph accounts for the events, the order of *)
(* their arrival is irrelevant, better work scores no less, and the style  *)
(* is that of the nearest profiles.                                        *)
(***************************************************************************)
EXTENDS Evaluation, Scorecard, SessionScoresProofs

Past(r) == pc[r] \in {"shadow", "report", "done"}

(* A run counts what it stored, stores what it took from its export and,   *)
(* without an error, stored all it tried.                                  *)
EtlAt(r) ==
  /\ pc[r] = "idle" => done[r] = {} /\ reported[r] = {}
  /\ done[r] \subseteq ToEmbed(r)
  /\ reported[r] \subseteq points
  /\ clean[r] => reported[r] = done[r]
  /\ (kind[r] = "assembly" /\ pc[r] \in {"classify", "shadow", "report", "done"})
       => done[r] = ToEmbed(r)

(* What it classified on was there, and was all of its export.             *)
StyleAt(r) ==
  /\ basis[r] \subseteq points
  /\ pc[r] \in {"idle", "etl", "upsert", "classify"} => cluster[r] = None
  /\ (Past(r) /\ kind[r] # "etl") => (cluster[r] = "vectors" <=> basis[r] # {})
  /\ cluster[r] = "shadow" => judged[r]
  /\ (Past(r) /\ kind[r] = "assembly" /\ clean[r])
       => ToEmbed(r) \subseteq basis[r] \/ Cardinality(basis[r]) = ScrollLimit

(* The inductive invariant.                                                *)
EvaluationInv == TypeOK /\ \A r \in Runs : EtlAt(r) /\ StyleAt(r)

(* An export holds no more than was recorded.                              *)
LEMMA ExportsBound == Exports \subseteq 0..Len(Recorded)
  BY ExportsAssumption

(* The next batch is part of what is left.                                 *)
LEMMA BatchIsLeft ==
  ASSUME NEW r \in Runs, NEW batch \in Batches(r)
  PROVE  batch \subseteq ToEmbed(r) /\ batch \subseteq AllEmbeddable
  BY DEF Batches, ToEmbed

(* The scroll returns what is stored, all of it or ScrollLimit points.     *)
LEMMA ScrolledIsStored ==
  ASSUME NEW vectors \in Scrolled
  PROVE  vectors \subseteq points /\ (vectors = points \/ Cardinality(vectors) = ScrollLimit)
  BY DEF Scrolled

(* No run has begun at first.                                              *)
LEMMA InitInv == Init => EvaluationInv
  BY NoneAssumption, RecordedAssumption
     DEF Init, EvaluationInv, TypeOK, EtlAt, StyleAt, Past, Stages

(* Starting a run, and its ETL.                                            *)
LEMMA EtlInv ==
  ASSUME EvaluationInv, NEW r \in Runs,
         \/ \E n \in Exports, k \in {"assembly", "skip_etl", "etl"} : Trigger(r, n, k)
         \/ \E batch \in Batches(r) : \/ EmbedFails(r, batch)
                                      \/ Upsert(r, batch)
                                      \/ UpsertFails(r, batch)
         \/ Embed(r) \/ EtlEnds(r)
  PROVE  EvaluationInv'
<1> USE DEF EvaluationInv, TypeOK, EtlAt, StyleAt, Past, Stages, Goto, StoresUnchanged
<1>1. ASSUME NEW n \in Exports, NEW k \in {"assembly", "skip_etl", "etl"}, Trigger(r, n, k)
      PROVE  EvaluationInv'
  <2>1. upto' \in [Runs -> 0..Len(Recorded)] /\ TypeOK'
    BY <1>1, ExportsBound DEF Trigger
  <2>2. ASSUME NEW q \in Runs, q # r PROVE EtlAt(q)' /\ StyleAt(q)'
    BY <1>1, <2>2 DEF Trigger, ToEmbed
  <2>3. done[r] = {} /\ reported[r] = {} /\ cluster[r] = None /\ pc[r] = "idle"
    BY <1>1 DEF Trigger
  <2>4. pc'[r] \in {"etl", "classify"} /\ (kind'[r] = "assembly" => pc'[r] = "etl")
    BY <1>1 DEF Trigger
  <2>5. EtlAt(r)' /\ StyleAt(r)'
    BY <1>1, <2>3, <2>4, NoneAssumption DEF Trigger
  <2> QED
    BY <2>1, <2>2, <2>5
<1>2. ASSUME NEW batch \in Batches(r), EmbedFails(r, batch) PROVE EvaluationInv'
  BY <1>2, BatchIsLeft DEF EmbedFails, ToEmbed
<1>3. ASSUME NEW batch \in Batches(r), Upsert(r, batch) PROVE EvaluationInv'
  <2>1. batch \subseteq ToEmbed(r) /\ batch \subseteq AllEmbeddable
    BY BatchIsLeft
  <2>2. TypeOK'
    BY <1>3, <2>1 DEF Upsert
  <2>3. ASSUME NEW q \in Runs, q # r PROVE EtlAt(q)' /\ StyleAt(q)'
    BY <1>3, <2>3 DEF Upsert, ToEmbed
  <2>4. /\ pc[r] = "upsert" /\ pc'[r] = "etl"
        /\ done'[r] = done[r] \cup batch
        /\ reported'[r] = reported[r] \cup batch
        /\ points' = points \cup batch
        /\ UNCHANGED <<kind, upto, clean, basis, cluster, judged>>
    BY <1>3 DEF Upsert
  <2>5. EtlAt(r) /\ StyleAt(r) /\ ToEmbed(r)' = ToEmbed(r)
    BY <2>4 DEF ToEmbed
  <2>6. EtlAt(r)'
    BY <2>1, <2>4, <2>5
  <2>7. StyleAt(r)'
    BY <2>4, <2>5
  <2> QED
    BY <2>2, <2>3, <2>6, <2>7
<1>4. ASSUME NEW batch \in Batches(r), UpsertFails(r, batch) PROVE EvaluationInv'
  BY <1>4, BatchIsLeft DEF UpsertFails, ToEmbed
<1>5. CASE Embed(r)
  BY <1>5 DEF Embed, ToEmbed
<1>6. CASE EtlEnds(r)
  BY <1>6 DEF EtlEnds, ToEmbed
<1> QED
  BY <1>1, <1>2, <1>3, <1>4, <1>5, <1>6

(* Classification, the shadow agent, the report and the graph.             *)
LEMMA AssemblyInv ==
  ASSUME EvaluationInv, NEW r \in Runs,
         \/ \E vectors \in Scrolled : ClassifySession(r, vectors)
         \/ ShadowEmpty(r) \/ \E style \in {"shadow", None} : ShadowAnswers(r, style)
         \/ Report(r) \/ PersistGraph(r)
  PROVE  EvaluationInv'
<1> USE DEF EvaluationInv, TypeOK, EtlAt, StyleAt, Past, Stages, Goto, StoresUnchanged
<1>1. ASSUME NEW vectors \in Scrolled, ClassifySession(r, vectors) PROVE EvaluationInv'
  <2>1. vectors \subseteq points /\ (vectors = points \/ Cardinality(vectors) = ScrollLimit)
    BY ScrolledIsStored
  <2>2. TypeOK'
    BY <1>1, <2>1 DEF ClassifySession
  <2>3. ASSUME NEW q \in Runs, q # r PROVE EtlAt(q)' /\ StyleAt(q)'
    BY <1>1, <2>3 DEF ClassifySession, ToEmbed
  <2>4. /\ pc[r] = "classify" /\ pc'[r] = "shadow"
        /\ basis'[r] = vectors
        /\ cluster'[r] = IF vectors = {} THEN None ELSE "vectors"
        /\ UNCHANGED <<kind, upto, done, reported, clean, judged, points>>
    BY <1>1 DEF ClassifySession
  <2>5. EtlAt(r) /\ StyleAt(r) /\ ToEmbed(r)' = ToEmbed(r)
    BY <2>4 DEF ToEmbed
  <2>6. EtlAt(r)'
    BY <2>4, <2>5
  <2>7. StyleAt(r)'
    BY <2>1, <2>4, <2>5, NoneAssumption
  <2> QED
    BY <2>2, <2>3, <2>6, <2>7
<1>2. CASE ShadowEmpty(r)
  BY <1>2 DEF ShadowEmpty, ToEmbed
<1>3. ASSUME NEW style \in {"shadow", None}, ShadowAnswers(r, style) PROVE EvaluationInv'
  BY <1>3, NoneAssumption DEF ShadowAnswers, ToEmbed
<1>4. CASE Report(r)
  BY <1>4 DEF Report, ToEmbed
<1>5. CASE PersistGraph(r)
  BY <1>5 DEF PersistGraph, Merged, ToEmbed, runVars
<1> QED
  BY <1>1, <1>2, <1>3, <1>4, <1>5

(* The invariant is inductive.                                             *)
LEMMA NextInv == EvaluationInv /\ [Next]_vars => EvaluationInv'
<1> SUFFICES ASSUME EvaluationInv, [Next]_vars PROVE EvaluationInv'
  OBVIOUS
<1>1. CASE UNCHANGED vars
  BY <1>1 DEF EvaluationInv, TypeOK, EtlAt, StyleAt, Past, ToEmbed, vars, runVars
<1>2. CASE Next
  BY <1>2, EtlInv, AssemblyInv DEF Next, RunStep
<1> QED
  BY <1>1, <1>2

(* Every reachable state satisfies the invariant.                          *)
LEMMA AlwaysInv == Spec => []EvaluationInv
  BY InitInv, NextInv, PTL DEF Spec

(* Every variable keeps its type.                                          *)
THEOREM EvaluationTyped == Spec => []TypeOK
  BY AlwaysInv, PTL DEF EvaluationInv

(* ETLResult tells the truth, whatever other runs do to the same points.   *)
THEOREM EtlTellsTheTruth == Spec => []EtlReportIsTrue
<1>1. EvaluationInv => EtlReportIsTrue
  BY DEF EvaluationInv, EtlAt, EtlReportIsTrue
<1> QED
  BY <1>1, AlwaysInv, PTL

(* A fingerprint after a clean ETL is based on all of its export.          *)
THEOREM CleanRunsAreComplete == Spec => []CleanRunSeesItsExport
<1>1. EvaluationInv => CleanRunSeesItsExport
  BY DEF EvaluationInv, StyleAt, Past, CleanRunSeesItsExport
<1> QED
  BY <1>1, AlwaysInv, PTL

(* A clean ETL means what it says, to its caller and to the classifier.    *)
THEOREM CleanEtlKeepsItsWord == Spec => []CleanEtlIsComplete
<1>1. CleanRunSeesItsExport /\ EtlReportIsTrue => CleanEtlIsComplete
  BY DEF CleanEtlIsComplete
<1> QED
  BY <1>1, EtlTellsTheTruth, CleanRunsAreComplete, PTL

(* The style comes from the vectors if there are any, and only otherwise   *)
(* from the shadow agent.                                                  *)
THEOREM StyleIsFounded == Spec => []StyleHasASource
<1>1. ASSUME EvaluationInv, NEW r \in Runs, Assembled(r)
      PROVE  /\ cluster[r] = "vectors" <=> basis[r] # {}
             /\ cluster[r] = "shadow" => judged[r]
             /\ (~IsComplete(r) /\ kind[r] = "assembly" /\ clean[r]) => ToEmbed(r) = {}
  <2>1. /\ cluster[r] = "vectors" <=> basis[r] # {}
        /\ cluster[r] = "shadow" => judged[r]
    BY <1>1 DEF EvaluationInv, StyleAt, Past, Assembled
  <2>2. ASSUME ~IsComplete(r), kind[r] = "assembly", clean[r] PROVE ToEmbed(r) = {}
    <3>1. cluster[r] = None
      BY <1>1, <2>2 DEF IsComplete
    <3>2. basis[r] = {}
      BY <2>1, <3>1, NoneAssumption
    <3>3. Cardinality(basis[r]) # ScrollLimit
      BY <3>2, FS_EmptySet, ScrollAssumption
    <3> QED
      BY <1>1, <2>2, <3>2, <3>3 DEF EvaluationInv, StyleAt, Past, Assembled
  <2> QED
    BY <2>1, <2>2
<1>2. EvaluationInv => StyleHasASource
  BY <1>1 DEF StyleHasASource
<1> QED
  BY <1>2, AlwaysInv, PTL

(* A later classification is based on no less than an earlier one.         *)
THEOREM RerunsLoseNothing == Spec => RerunsSeeNoLess
<1> DEFINE NoLess == \A r \in Runs : (pc[r] = "classify" /\ pc'[r] = "shadow") =>
                       \A q \in Runs : basis[q] \subseteq basis'[r]
                                       \/ Cardinality(basis'[r]) = ScrollLimit
<1>1. EvaluationInv /\ [Next]_vars => [NoLess]_vars
  <2> SUFFICES ASSUME EvaluationInv, Next, NEW r \in Runs, pc[r] = "classify",
                      pc'[r] = "shadow", NEW q \in Runs
               PROVE  basis[q] \subseteq basis'[r] \/ Cardinality(basis'[r]) = ScrollLimit
    BY DEF NoLess
  <2>1. \E vectors \in Scrolled : ClassifySession(r, vectors)
    <3>1. PICK x \in Runs : RunStep(x)
      BY DEF Next
    <3>2. ASSUME NEW stage \in Stages, pc' = [pc EXCEPT ![x] = stage], stage # "shadow"
          PROVE  FALSE
      BY <3>2 DEF EvaluationInv, TypeOK
    <3>3. pc' # pc
      OBVIOUS
    <3>4. PICK vectors \in Scrolled : ClassifySession(x, vectors)
      BY <3>1, <3>2, <3>3
         DEF RunStep, Goto, Stages, Trigger, EmbedFails, Upsert, UpsertFails, Embed, EtlEnds,
             ShadowEmpty, ShadowAnswers, Report, PersistGraph, runVars
    <3>5. x = r
      BY <3>4 DEF ClassifySession, Goto, EvaluationInv, TypeOK
    <3> QED
      BY <3>4, <3>5
  <2>2. PICK vectors \in Scrolled : basis' = [basis EXCEPT ![r] = vectors]
    BY <2>1 DEF ClassifySession
  <2>3. basis'[r] = vectors /\ basis[q] \subseteq points
    BY <2>2 DEF EvaluationInv, TypeOK, StyleAt
  <2> QED
    BY <2>3, ScrolledIsStored
<1>2. Spec => [][NoLess]_vars
  BY <1>1, AlwaysInv, PTL DEF Spec
<1> QED
  BY <1>2 DEF RerunsSeeNoLess, NoLess

-----------------------------------------------------------------------------
(* Every relationship has the counts of a fingerprint that has it.         *)
FoundBy(key) ==
  \E q \in Runs : Assembled(q) /\ key \in DOMAIN Edges(q) /\ graph.edges[key] = Edges(q)[key]

(* A run that wrote the graph last finds all of its own in it.             *)
GraphInv ==
  /\ \A key \in DOMAIN graph.edges : FoundBy(key)
  /\ graph.run # None =>
       /\ graph.run \in Runs /\ Assembled(graph.run)
       /\ \A key \in DOMAIN Edges(graph.run) :
            key \in DOMAIN graph.edges /\ graph.edges[key] = Edges(graph.run)[key]

(* A run that assembled a fingerprint keeps it, and its export.            *)
LEMMA AssembledStays ==
  ASSUME EvaluationInv, [Next]_vars, NEW q \in Runs, Assembled(q)
  PROVE  Assembled(q)' /\ Edges(q)' = Edges(q)
<1>1. pc'[q] = pc[q] /\ kind'[q] = kind[q] /\ upto'[q] = upto[q]
  <2>1. CASE UNCHANGED vars
    BY <2>1 DEF vars, runVars
  <2>2. ASSUME NEW r \in Runs, RunStep(r)
        PROVE  pc'[q] = pc[q] /\ kind'[q] = kind[q] /\ upto'[q] = upto[q]
    <3>1. CASE PersistGraph(r)
      BY <3>1 DEF PersistGraph, runVars
    <3>2. CASE ~PersistGraph(r)
      BY <2>2, <3>2
         DEF RunStep, Goto, Trigger, EmbedFails, Upsert, UpsertFails, Embed, EtlEnds,
             ClassifySession, ShadowEmpty, ShadowAnswers, Report, EvaluationInv, TypeOK, Assembled
    <3> QED
      BY <3>1, <3>2
  <2> QED
    BY <2>1, <2>2 DEF Next
<1> QED
  BY <1>1 DEF Assembled, Edges, Export

(* Only persist_to_neo4j writes the graph.                                 *)
LEMMA GraphSteps ==
  ASSUME [Next]_vars
  PROVE  UNCHANGED graph \/ \E r \in Runs : PersistGraph(r)
  BY DEF Next, RunStep, Trigger, EmbedFails, Upsert, UpsertFails, Embed, EtlEnds, ClassifySession,
         ShadowEmpty, ShadowAnswers, Report, StoresUnchanged, vars

(* The invariant is inductive: what the transaction sets is of its own     *)
(* run, what it keeps is of the run that set it.                           *)
LEMMA GraphInvSteps == EvaluationInv /\ GraphInv /\ [Next]_vars => GraphInv'
<1> SUFFICES ASSUME EvaluationInv, GraphInv, [Next]_vars PROVE GraphInv'
  OBVIOUS
<1>1. \A q \in Runs : Assembled(q) => Assembled(q)' /\ Edges(q)' = Edges(q)
  BY AssembledStays
<1>2. CASE UNCHANGED graph
  BY <1>1, <1>2 DEF GraphInv, FoundBy
<1>3. ASSUME NEW r \in Runs, PersistGraph(r) PROVE GraphInv'
  <2>1. /\ Assembled(r) /\ graph'.run = r
        /\ DOMAIN graph'.edges = DOMAIN Edges(r) \cup DOMAIN graph.edges
        /\ \A key \in DOMAIN Edges(r) : graph'.edges[key] = Edges(r)[key]
        /\ \A key \in DOMAIN graph.edges \ DOMAIN Edges(r) : graph'.edges[key] = graph.edges[key]
    BY <1>3 DEF PersistGraph, Merged
  <2>2. ASSUME NEW key \in DOMAIN graph'.edges
        PROVE  \E q \in Runs : /\ Assembled(q)' /\ key \in DOMAIN Edges(q)'
                               /\ graph'.edges[key] = Edges(q)'[key]
    <3>1. CASE key \in DOMAIN Edges(r)
      BY <1>1, <2>1, <3>1
    <3>2. CASE key \notin DOMAIN Edges(r)
      BY <1>1, <2>1, <2>2, <3>2 DEF GraphInv, FoundBy
    <3> QED
      BY <3>1, <3>2
  <2> QED
    BY <1>1, <2>1, <2>2 DEF GraphInv, FoundBy
<1> QED
  BY <1>2, <1>3, GraphSteps

(* The graph has the counts of its own run; anything more was found by a   *)
(* run with a longer export, as a longer export has all relationships.     *)
THEOREM GraphIsTrue == Spec => []GraphIsOfItsRun
<1>1. Init => GraphInv
  BY DEF Init, GraphInv
<1>2. Spec => []GraphInv
  BY <1>1, AlwaysInv, GraphInvSteps, PTL DEF Spec
<1>3. ASSUME EvaluationInv, GraphInv PROVE GraphIsOfItsRun
  <2> SUFFICES ASSUME graph.run # None, NEW key \in DOMAIN graph.edges \ DOMAIN Edges(graph.run)
               PROVE  \E r \in Runs : /\ upto[r] > upto[graph.run]
                                      /\ graph.edges[key] = Edges(r)[key]
    BY <1>3 DEF GraphInv, GraphIsOfItsRun
  <2>1. PICK q \in Runs : key \in DOMAIN Edges(q) /\ graph.edges[key] = Edges(q)[key]
    BY <1>3 DEF GraphInv, FoundBy
  <2>2. graph.run \in Runs
    BY <1>3 DEF GraphInv
  <2>3. upto[q] \in 0..Len(Recorded) /\ upto[graph.run] \in 0..Len(Recorded)
    BY <1>3, <2>2 DEF EvaluationInv, TypeOK
  <2>4. upto[q] > upto[graph.run]
    <3> SUFFICES ASSUME upto[q] <= upto[graph.run] PROVE FALSE
      BY <2>3, RecordedAssumption
    <3>1. DOMAIN Edges(q) \subseteq DOMAIN Edges(graph.run)
      BY <2>3, LongerHasAll, RecordedAssumption DEF Edges, Export
    <3> QED
      BY <2>1, <3>1
  <2> QED
    BY <2>1, <2>4
<1> QED
  BY <1>2, <1>3, AlwaysInv, PTL

-----------------------------------------------------------------------------
(* What the graph shows of an edge, counted in the list of events.         *)
ContactTypes == {"PROMPT_SENT", "AGENT_RESPONSE", "CORRECTION_ISSUED"}

Contacts(list, type, key) ==
  {i \in OfType(list, {type}) : list[i].agent # None /\ Endpoints(list[i]) = key}

Timed(list, key) == {i \in Contacts(list, "AGENT_RESPONSE", key) : list[i].latency # None}

Messages(list, key) ==
  Contacts(list, "PROMPT_SENT", key) \cup Contacts(list, "AGENT_RESPONSE", key)

Counted(list, key) ==
  Row(Cardinality(Messages(list, key)),
      Cardinality(Contacts(list, "CORRECTION_ISSUED", key)),
      SumFunction([i \in Timed(list, key) |-> list[i].latency]),
      Cardinality(Timed(list, key)))

(* A further event changes what is counted for its edge as Contact does,   *)
(* and nothing for another edge or if it is no contact.                    *)
LEMMA ContactsOfMore ==
  ASSUME NEW list \in Seq(Alphabet), NEW e \in Alphabet, NEW type \in ContactTypes, NEW key
  PROVE  LET contact == e.type = type /\ e.agent # None /\ Endpoints(e) = key
         IN  Contacts(Append(list, e), type, key) =
               IF contact THEN Contacts(list, type, key) \cup {Len(list) + 1}
               ELSE Contacts(list, type, key)
<1> DEFINE more == Append(list, e)
<1>1. /\ DOMAIN more = DOMAIN list \cup {Len(list) + 1} /\ more[Len(list) + 1] = e
      /\ \A i \in DOMAIN list : more[i] = list[i]
      /\ Len(list) + 1 \notin DOMAIN list
  OBVIOUS
<1> HIDE DEF more
<1> QED
  BY <1>1 DEF Contacts, OfType, more

(* A further answer with a latency is timed, and nothing else is.          *)
LEMMA TimedOfMore ==
  ASSUME NEW list \in Seq(Alphabet), NEW e \in Alphabet, NEW key
  PROVE  LET contact == e.type = "AGENT_RESPONSE" /\ e.agent # None /\ Endpoints(e) = key
         IN  Timed(Append(list, e), key) =
               IF contact /\ e.latency # None THEN Timed(list, key) \cup {Len(list) + 1}
               ELSE Timed(list, key)
<1> DEFINE more == Append(list, e)
<1>1. /\ more[Len(list) + 1] = e
      /\ \A i \in DOMAIN list : more[i] = list[i]
      /\ Contacts(list, "AGENT_RESPONSE", key) \subseteq DOMAIN list
  BY DEF Contacts, OfType
<1>2. Contacts(more, "AGENT_RESPONSE", key) =
        IF e.type = "AGENT_RESPONSE" /\ e.agent # None /\ Endpoints(e) = key
        THEN Contacts(list, "AGENT_RESPONSE", key) \cup {Len(list) + 1}
        ELSE Contacts(list, "AGENT_RESPONSE", key)
  BY ContactsOfMore DEF ContactTypes
<1> HIDE DEF more
<1> QED
  BY <1>1, <1>2 DEF Timed, more

(* The latencies on an edge, and their sum.                                *)
LEMMA LatencyOfMore ==
  ASSUME NEW list \in Seq(Alphabet), NEW e \in Alphabet, NEW key
  PROVE  LET more == Append(list, e)
             sum(l) == SumFunction([i \in Timed(l, key) |-> l[i].latency])
         IN  /\ Timed(more, key) = Timed(list, key) => sum(more) = sum(list)
             /\ Timed(more, key) = Timed(list, key) \cup {Len(list) + 1} =>
                  sum(more) = sum(list) + e.latency
<1> DEFINE more == Append(list, e)
           g == [i \in Timed(list, key) |-> list[i].latency]
           f == [i \in Timed(more, key) |-> more[i].latency]
<1>1. /\ more[Len(list) + 1] = e /\ more \in Seq(Alphabet)
      /\ \A i \in DOMAIN list : more[i] = list[i]
      /\ Timed(list, key) \subseteq DOMAIN list
      /\ Timed(more, key) \subseteq DOMAIN more
  BY DEF Timed, Contacts, OfType
<1>2. CASE Timed(more, key) = Timed(list, key)
  <2>1. f = g
    BY <1>1, <1>2
  <2> QED
    BY <1>1, <1>2, <2>1, Positions
<1>3. CASE Timed(more, key) = Timed(list, key) \cup {Len(list) + 1}
  <2>1. IsFiniteSet(Timed(list, key)) /\ Len(list) + 1 \notin Timed(list, key)
    BY <1>1, Positions
  <2>2. \A i \in Timed(more, key) : more[i].latency \in Nat
    <3>1. \A i \in DOMAIN more : more[i] \in Alphabet
      BY <1>1
    <3> QED
      BY <1>1, <3>1, AlphabetAssumption DEF Timed
  <2>3. \A i \in Timed(list, key) : f[i] = g[i] /\ f[i] \in Nat
    BY <1>1, <1>3, <2>2
  <2>4. f[Len(list) + 1] = e.latency /\ e.latency \in Nat
    BY <1>1, <1>3, <2>2
  <2>5. DOMAIN f = Timed(list, key) \cup {Len(list) + 1} /\ DOMAIN g = Timed(list, key)
    BY <1>3
  <2>6. SumFunction(g) \in Nat
    <3> HIDE DEF f, g
    <3> QED
      BY <2>1, <2>3, <2>5, SumIsNatural
  <2>7. SumFunction(f) = f[Len(list) + 1] + SumFunction(g)
    <3> DEFINE D == Timed(list, key)
               fresh == Len(list) + 1
    <3>1. /\ IsFiniteSet(D) /\ fresh \notin D /\ DOMAIN f = D \cup {fresh} /\ DOMAIN g = D
          /\ \A y \in D \cup {fresh} : f[y] \in Nat
          /\ \A y \in D : g[y] = f[y]
      BY <2>1, <2>3, <2>4, <2>5
    <3> HIDE DEF f, g, D, fresh
    <3>2. SumFunction(f) = f[fresh] + SumFunction(g)
      BY <3>1, SumOfMore
    <3> QED
      BY <3>2 DEF fresh
  <2>8. SumFunction(f) = SumFunction(g) + e.latency
    <3> HIDE DEF f, g
    <3> QED
      BY <2>4, <2>6, <2>7
  <2>9. Timed(more, key) # Timed(list, key)
    BY <1>3, <2>1
  <2> QED
    BY <2>8, <2>9
<1>4. CASE /\ Timed(more, key) # Timed(list, key)
           /\ Timed(more, key) # Timed(list, key) \cup {Len(list) + 1}
  BY <1>4
<1> QED
  BY <1>2, <1>3, <1>4

(* What is counted for an edge changes as the edge in the graph does.      *)
LEMMA CountedOfMore ==
  ASSUME NEW list \in Seq(Alphabet), NEW e \in Alphabet, NEW key
  PROVE  LET contact == e.type \in ContactTypes /\ e.agent # None /\ Endpoints(e) = key
         IN  Counted(Append(list, e), key) =
               IF contact THEN Contact(Counted(list, key), e) ELSE Counted(list, key)
<1> DEFINE more == Append(list, e)
           fresh == Len(list) + 1
           sum(l) == SumFunction([i \in Timed(l, key) |-> l[i].latency])
<1>1. /\ Messages(list, key) \in SUBSET DOMAIN list
      /\ Contacts(list, "CORRECTION_ISSUED", key) \in SUBSET DOMAIN list
      /\ Timed(list, key) \in SUBSET DOMAIN list
  BY DEF Messages, Timed, Contacts, OfType
<1>2. /\ Cardinality(Messages(list, key) \cup {fresh}) = Cardinality(Messages(list, key)) + 1
      /\ Cardinality(Contacts(list, "CORRECTION_ISSUED", key) \cup {fresh})
           = Cardinality(Contacts(list, "CORRECTION_ISSUED", key)) + 1
      /\ Cardinality(Timed(list, key) \cup {fresh}) = Cardinality(Timed(list, key)) + 1
  BY <1>1, Positions
<1>3. /\ Contacts(more, "PROMPT_SENT", key) =
           IF e.type = "PROMPT_SENT" /\ e.agent # None /\ Endpoints(e) = key
           THEN Contacts(list, "PROMPT_SENT", key) \cup {fresh}
           ELSE Contacts(list, "PROMPT_SENT", key)
      /\ Contacts(more, "AGENT_RESPONSE", key) =
           IF e.type = "AGENT_RESPONSE" /\ e.agent # None /\ Endpoints(e) = key
           THEN Contacts(list, "AGENT_RESPONSE", key) \cup {fresh}
           ELSE Contacts(list, "AGENT_RESPONSE", key)
      /\ Contacts(more, "CORRECTION_ISSUED", key) =
           IF e.type = "CORRECTION_ISSUED" /\ e.agent # None /\ Endpoints(e) = key
           THEN Contacts(list, "CORRECTION_ISSUED", key) \cup {fresh}
           ELSE Contacts(list, "CORRECTION_ISSUED", key)
  BY ContactsOfMore DEF ContactTypes
<1>4. Timed(more, key) =
        IF e.type = "AGENT_RESPONSE" /\ e.agent # None /\ Endpoints(e) = key /\ e.latency # None
        THEN Timed(list, key) \cup {fresh} ELSE Timed(list, key)
  BY TimedOfMore
<1>5. /\ Timed(more, key) = Timed(list, key) => sum(more) = sum(list)
      /\ Timed(more, key) = Timed(list, key) \cup {fresh} => sum(more) = sum(list) + e.latency
  BY LatencyOfMore
<1> HIDE DEF more, fresh, sum
<1>6. Messages(more, key) =
        IF e.type \in {"PROMPT_SENT", "AGENT_RESPONSE"} /\ e.agent # None /\ Endpoints(e) = key
        THEN Messages(list, key) \cup {fresh} ELSE Messages(list, key)
  BY <1>3 DEF Messages
<1> DEFINE m == Cardinality(Messages(list, key))
           c == Cardinality(Contacts(list, "CORRECTION_ISSUED", key))
           d == Cardinality(Timed(list, key))
<1>8. Contact(Row(m, c, sum(list), d), e) =
        IF e.type = "CORRECTION_ISSUED" THEN Row(m, c + 1, sum(list), d)
        ELSE IF e.type = "PROMPT_SENT" \/ e.latency = None THEN Row(m + 1, c, sum(list), d)
        ELSE Row(m + 1, c, sum(list) + e.latency, d + 1)
  BY ContactAdds
<1>9. /\ Counted(list, key) = Row(m, c, sum(list), d)
      /\ Counted(more, key) = Row(Cardinality(Messages(more, key)),
                                  Cardinality(Contacts(more, "CORRECTION_ISSUED", key)),
                                  sum(more), Cardinality(Timed(more, key)))
  BY DEF Counted, sum
<1>10. CASE ~(e.type \in ContactTypes /\ e.agent # None /\ Endpoints(e) = key)
  BY <1>3, <1>4, <1>5, <1>6, <1>9, <1>10 DEF ContactTypes, more
<1>11. CASE e.type \in ContactTypes /\ e.agent # None /\ Endpoints(e) = key
  <2>1. CASE e.type = "PROMPT_SENT"
    <3>1. /\ Messages(more, key) = Messages(list, key) \cup {fresh}
          /\ Contacts(more, "CORRECTION_ISSUED", key) = Contacts(list, "CORRECTION_ISSUED", key)
          /\ Timed(more, key) = Timed(list, key) /\ sum(more) = sum(list)
      BY <1>3, <1>4, <1>5, <1>6, <1>11, <2>1
    <3> QED
      BY <1>2, <1>8, <1>9, <1>11, <2>1, <3>1 DEF more
  <2>2. CASE e.type = "CORRECTION_ISSUED"
    <3>1. /\ Messages(more, key) = Messages(list, key)
          /\ Contacts(more, "CORRECTION_ISSUED", key)
               = Contacts(list, "CORRECTION_ISSUED", key) \cup {fresh}
          /\ Timed(more, key) = Timed(list, key) /\ sum(more) = sum(list)
      BY <1>3, <1>4, <1>5, <1>6, <1>11, <2>2
    <3> QED
      BY <1>2, <1>8, <1>9, <1>11, <2>2, <3>1 DEF more
  <2>3. CASE e.type = "AGENT_RESPONSE"
    <3>1. /\ Messages(more, key) = Messages(list, key) \cup {fresh}
          /\ Contacts(more, "CORRECTION_ISSUED", key) = Contacts(list, "CORRECTION_ISSUED", key)
      BY <1>3, <1>6, <1>11, <2>3
    <3>2. CASE e.latency = None
      <4>1. Timed(more, key) = Timed(list, key) /\ sum(more) = sum(list)
        BY <1>4, <1>5, <2>3, <3>2
      <4> QED
        BY <1>2, <1>8, <1>9, <1>11, <2>3, <3>1, <3>2, <4>1 DEF more
    <3>3. CASE e.latency # None
      <4>1. /\ Timed(more, key) = Timed(list, key) \cup {fresh}
            /\ sum(more) = sum(list) + e.latency
        BY <1>4, <1>5, <1>11, <2>3, <3>3
      <4> QED
        BY <1>2, <1>8, <1>9, <1>11, <2>3, <3>1, <3>3, <4>1 DEF more
    <3> QED
      BY <3>2, <3>3
  <2> QED
    BY <1>11, <2>1, <2>2, <2>3 DEF ContactTypes
<1> QED
  BY <1>10, <1>11 DEF more

(* The graph of a list: its nodes, its edges and what they show.           *)
GraphAt(list) ==
  LET built == InteractionGraph(list)
  IN  /\ built = [nodes |-> built.nodes,
                  edges |-> [key \in DOMAIN built.edges |-> built.edges[key]]]
      /\ built.nodes = {Human}
           \cup {list[i].agent : i \in {j \in DOMAIN list : list[j].agent # None}}
      /\ \A type \in ContactTypes : \A i \in OfType(list, {type}) :
           list[i].agent # None => Endpoints(list[i]) \in DOMAIN built.edges
      /\ \A key \in DOMAIN built.edges :
           /\ key \in built.nodes \X built.nodes
           /\ \E type \in ContactTypes : Contacts(list, type, key) # {}
           /\ built.edges[key] = Counted(list, key)

(* Before the first event there is a node for the human.                   *)
LEMMA EmptyGraphAt == GraphAt(<<>>)
<1>1. DOMAIN <<>> = 1..0 /\ 1..0 = {} /\ 0 \in Nat
  OBVIOUS
<1>2. InteractionGraph(<<>>) = EmptyGraph
  <2>1. PICK g : IsBuild(g, <<>>, 0) /\ InteractionGraph(<<>>) = g[0]
    BY <1>1, GraphIsBuilt
  <2> QED
    BY <2>1 DEF IsBuild
<1>3. EmptyGraph.nodes = {Human} /\ EmptyGraph.edges = <<>> /\ DOMAIN EmptyGraph.edges = {}
  BY <1>1 DEF EmptyGraph
<1>4. EmptyGraph = [nodes |-> {Human}, edges |-> [key \in {} |-> EmptyGraph.edges[key]]]
  <2>1. <<>> = [key \in {} |-> <<>>[key]]
    OBVIOUS
  <2> QED
    BY <2>1 DEF EmptyGraph
<1> QED
  BY <1>1, <1>2, <1>3, <1>4 DEF GraphAt, OfType

(* One more event.                                                         *)
LEMMA GraphAtMore ==
  ASSUME NEW list \in Seq(Alphabet), NEW e \in Alphabet, GraphAt(list)
  PROVE  GraphAt(Append(list, e))
<1> DEFINE more == Append(list, e)
           old == InteractionGraph(list)
           new == InteractionGraph(more)
           key0 == Endpoints(e)
           contact == e.type \in ContactTypes /\ e.agent # None
<1>1. new = AddEvent(old, e)
  BY GraphOfMore
<1>2. /\ DOMAIN more = DOMAIN list \cup {Len(list) + 1} /\ more[Len(list) + 1] = e
      /\ \A i \in DOMAIN list : more[i] = list[i]
      /\ Len(list) + 1 \notin DOMAIN list
  OBVIOUS
<1>3. /\ \A key : Counted(more, key) = IF contact /\ key0 = key THEN Contact(Counted(list, key), e)
                                       ELSE Counted(list, key)
  BY CountedOfMore
<1>4. \A type \in ContactTypes : \A key :
        /\ Contacts(list, type, key) \subseteq Contacts(more, type, key)
        /\ contact /\ e.type = type /\ key0 = key => Len(list) + 1 \in Contacts(more, type, key)
  BY ContactsOfMore
<1>5. /\ new.nodes = IF e.agent = None THEN old.nodes ELSE old.nodes \cup {e.agent}
      /\ DOMAIN new.edges = IF contact THEN DOMAIN old.edges \cup {key0} ELSE DOMAIN old.edges
      /\ \A key \in DOMAIN old.edges : key # key0 \/ ~contact => new.edges[key] = old.edges[key]
      /\ contact => new.edges[key0] = Contact(IF key0 \in DOMAIN old.edges THEN old.edges[key0]
                                              ELSE NoContact, e)
  BY <1>1 DEF AddEvent, ContactTypes
<1>6. ASSUME contact, key0 \notin DOMAIN old.edges PROVE Counted(list, key0) = NoContact
  <2>1. ASSUME NEW type \in ContactTypes PROVE Contacts(list, type, key0) = {}
    BY <1>6 DEF GraphAt, Contacts
  <2>2. /\ Messages(list, key0) = {} /\ Timed(list, key0) = {}
        /\ Contacts(list, "CORRECTION_ISSUED", key0) = {}
    BY <2>1 DEF Messages, Timed, ContactTypes
  <2>3. Cardinality({}) = 0 /\ IsFiniteSet({})
    BY FS_EmptySet
  <2>4. SumFunction([i \in Timed(list, key0) |-> list[i].latency]) = 0
    <3> DEFINE f == [i \in Timed(list, key0) |-> list[i].latency]
    <3>1. DOMAIN f = {}
      BY <2>2
    <3> HIDE DEF f
    <3>2. SumFunction(f) = 0
      BY <2>3, <3>1, SumIsNatural
    <3> QED
      BY <3>2 DEF f
  <2> QED
    BY <2>2, <2>3, <2>4 DEF Counted, Row, NoContact
<1>7. contact => new.edges[key0] = Counted(more, key0)
  BY <1>3, <1>5, <1>6 DEF GraphAt
<1>8. contact => key0 \in new.nodes \X new.nodes
  BY <1>5 DEF GraphAt, Endpoints
<1>13. new = [nodes |-> new.nodes, edges |-> [key \in DOMAIN new.edges |-> new.edges[key]]]
  <2>1. old = [nodes |-> old.nodes, edges |-> [key \in DOMAIN old.edges |-> old.edges[key]]]
    BY DEF GraphAt
  <2> HIDE DEF old, new
  <2>2. old.edges = [key \in DOMAIN old.edges |-> old.edges[key]]
    BY <2>1
  <2>3. CASE e.agent = None
    BY <1>1, <2>1, <2>3 DEF AddEvent
  <2>4. CASE e.agent # None
    <3>1. PICK n, d : new = [nodes |-> n, edges |-> d] /\ d = [key \in DOMAIN d |-> d[key]]
      <4>1. CASE contact
        <5> DEFINE rec == IF key0 \in DOMAIN old.edges THEN old.edges[key0] ELSE NoContact
                   row(key) == IF key = key0 THEN Contact(rec, e) ELSE old.edges[key]
                   d == [key \in DOMAIN old.edges \cup {key0} |-> row(key)]
        <5>1. new = [nodes |-> old.nodes \cup {e.agent}, edges |-> d]
          BY <1>1, <2>4, <4>1 DEF AddEvent, ContactTypes
        <5>2. d = [key \in DOMAIN d |-> d[key]]
          OBVIOUS
        <5> HIDE DEF d
        <5> QED
          BY <5>1, <5>2
      <4>2. CASE ~contact
        BY <1>1, <2>2, <2>4, <4>2 DEF AddEvent, ContactTypes
      <4> QED
        BY <4>1, <4>2
    <3>2. new.nodes = n /\ new.edges = d
      BY <3>1
    <3> QED
      BY <3>1, <3>2
  <2> QED
    BY <2>3, <2>4
<1>14. old.nodes = {Human} \cup {list[i].agent : i \in {j \in DOMAIN list : list[j].agent # None}}
  BY DEF GraphAt
<1>9. old.nodes \subseteq new.nodes /\ DOMAIN old.edges \subseteq DOMAIN new.edges
  BY <1>5
<1> HIDE DEF old, new, more, key0
<1>10. ASSUME NEW key \in DOMAIN new.edges
       PROVE  /\ key \in new.nodes \X new.nodes
              /\ \E type \in ContactTypes : Contacts(more, type, key) # {}
              /\ new.edges[key] = Counted(more, key)
  <2>1. CASE contact /\ key = key0
    BY <1>4, <1>7, <1>8, <2>1
  <2>2. CASE ~(contact /\ key = key0)
    <3>1. /\ key \in DOMAIN old.edges /\ new.edges[key] = old.edges[key]
          /\ Counted(more, key) = Counted(list, key)
      BY <1>3, <1>5, <2>2
    <3>2. /\ key \in old.nodes \X old.nodes
          /\ \E type \in ContactTypes : Contacts(list, type, key) # {}
          /\ old.edges[key] = Counted(list, key)
      BY <3>1 DEF GraphAt, old
    <3>3. key \in new.nodes \X new.nodes
      BY <1>9, <3>2
    <3> QED
      BY <1>4, <3>1, <3>2, <3>3
  <2> QED
    BY <2>1, <2>2
<1>11. ASSUME NEW i \in DOMAIN more
       PROVE  /\ more[i].type \in ContactTypes /\ more[i].agent # None
                   => Endpoints(more[i]) \in DOMAIN new.edges
  <2>1. CASE i = Len(list) + 1
    BY <1>2, <1>5, <2>1 DEF key0
  <2>2. CASE i \in DOMAIN list
    <3>1. /\ list[i].type \in ContactTypes /\ list[i].agent # None
               => Endpoints(list[i]) \in DOMAIN old.edges
      BY <2>2 DEF GraphAt, OfType, old
    <3> QED
      BY <1>2, <1>9, <2>2, <3>1
  <2> QED
    BY <1>2, <2>1, <2>2
<1>12. new.nodes = {Human} \cup {more[i].agent : i \in {j \in DOMAIN more : more[j].agent # None}}
  BY <1>2, <1>5, <1>14
<1> QED
  BY <1>10, <1>11, <1>12, <1>13 DEF GraphAt, OfType, new, more

(* The inputs, as the DAG gives them; ids are not repeated, and a session  *)
(* starts and ends once.                                                   *)
Inputs ==
  /\ events \in Seq(Alphabet)
  /\ files \in Baselines
  /\ marks \in Seq(Marks)
  /\ similarity \in Seq(Similarities)
  /\ Len(similarity) <= Len(Clusters)
  /\ Len(events) + Len(marks) + Len(similarity) <= MaxInputs

Distinct ==
  /\ \A i, j \in DOMAIN events : events[i].id = events[j].id => i = j
  /\ \A type \in {"SCENARIO_STARTED", "SCENARIO_ENDED"} :
       \A i, j \in OfType(events, {type}) : i = j

(* The inductive invariant.                                                *)
CardInv == Inputs /\ Distinct /\ GraphAt(events)

(* Nothing has arrived at first.                                           *)
LEMMA CardInitInv == CardInit => CardInv
<1> SUFFICES ASSUME CardInit PROVE CardInv
  OBVIOUS
<1>1. \A S : <<>> \in Seq(S)
  OBVIOUS
<1>2. Len(<<>>) = 0 /\ DOMAIN <<>> = {}
  OBVIOUS
<1>3. Len(Clusters) \in Nat
  BY ClustersAssumption
<1>4. Inputs
  BY <1>1, <1>2, <1>3, InputsAssumption DEF CardInit, Inputs
<1>5. Distinct
  BY <1>2 DEF CardInit, Distinct, OfType
<1> QED
  BY <1>4, <1>5, EmptyGraphAt DEF CardInv, CardInit

(* What an event finds and leaves.                                         *)
LEMMA RecordInv ==
  ASSUME CardInv, NEW e \in Alphabet, Record(e)
  PROVE  CardInv'
<1>1. /\ events \in Seq(Alphabet) /\ events' = Append(events, e)
      /\ UNCHANGED <<files, marks, similarity>>
      /\ Len(events') = Len(events) + 1 /\ Len(events) \in Nat
      /\ DOMAIN events' = DOMAIN events \cup {Len(events) + 1}
      /\ events'[Len(events) + 1] = e
      /\ \A i \in DOMAIN events : events'[i] = events[i]
  BY DEF Record, CardInv, Inputs
<1>2. Inputs'
  <2>1. events' \in Seq(Alphabet)
    BY <1>1
  <2>2. Len(events') + Len(marks) + Len(similarity) <= MaxInputs
    <3>1. Len(events) + Len(marks) + Len(similarity) < MaxInputs
      BY DEF Record, Room
    <3>2. Len(marks) \in Nat /\ Len(similarity) \in Nat
      BY DEF CardInv, Inputs
    <3> QED
      BY <1>1, <3>1, <3>2, InputsAssumption
  <2> QED
    BY <1>1, <2>1, <2>2 DEF CardInv, Inputs
<1>3. Distinct'
  BY <1>1 DEF Record, CardInv, Distinct, OfType
<1>4. GraphAt(events)'
  BY <1>1, GraphAtMore DEF CardInv
<1> QED
  BY <1>2, <1>3, <1>4 DEF CardInv

(* The invariant is inductive.                                             *)
LEMMA CardNextInv == CardInv /\ [CardNext]_cardVars => CardInv'
<1> SUFFICES ASSUME CardInv, [CardNext]_cardVars PROVE CardInv'
  OBVIOUS
<1>1. CASE UNCHANGED cardVars
  BY <1>1 DEF CardInv, Inputs, Distinct, cardVars
<1>2. ASSUME NEW e \in Alphabet, Record(e) PROVE CardInv'
  BY <1>2, RecordInv
<1>3. ASSUME NEW mark \in Marks, Judge(mark) PROVE CardInv'
  <2>1. /\ marks \in Seq(Marks) /\ marks' = Append(marks, mark)
        /\ Len(events) \in Nat /\ Len(marks) \in Nat /\ Len(similarity) \in Nat
        /\ Len(events) + Len(marks) + Len(similarity) < MaxInputs
        /\ UNCHANGED <<events, files, similarity>>
    BY <1>3 DEF Judge, Room, CardInv, Inputs
  <2>2. marks' \in Seq(Marks) /\ Len(marks') = Len(marks) + 1
    BY <2>1
  <2>3. Len(events) + Len(marks') + Len(similarity) <= MaxInputs
    BY <2>1, <2>2, InputsAssumption
  <2> QED
    BY <2>1, <2>2, <2>3 DEF CardInv, Inputs, Distinct
<1>4. ASSUME NEW s \in Similarities, Compare(s) PROVE CardInv'
  <2>1. /\ similarity \in Seq(Similarities) /\ similarity' = Append(similarity, s)
        /\ Len(events) \in Nat /\ Len(marks) \in Nat /\ Len(similarity) \in Nat
        /\ Len(events) + Len(marks) + Len(similarity) < MaxInputs
        /\ Len(similarity) < Len(Clusters) /\ Len(Clusters) \in Nat
        /\ UNCHANGED <<events, files, marks>>
    BY <1>4, ClustersAssumption DEF Compare, Room, CardInv, Inputs
  <2>2. similarity' \in Seq(Similarities) /\ Len(similarity') = Len(similarity) + 1
    BY <2>1
  <2>3. /\ Len(events) + Len(marks) + Len(similarity') <= MaxInputs
        /\ Len(similarity') <= Len(Clusters)
    BY <2>1, <2>2, InputsAssumption
  <2> QED
    BY <2>1, <2>2, <2>3 DEF CardInv, Inputs, Distinct
<1> QED
  BY <1>1, <1>2, <1>3, <1>4 DEF CardNext

(* Every reachable state satisfies the invariant.                          *)
LEMMA CardInvHolds == CardSpec => []CardInv
  BY CardInitInv, CardNextInv, PTL DEF CardSpec

(* build_interaction_graph counts each contact once, on the right edge.    *)
THEOREM GraphIsAccurate == CardSpec => []GraphAccountsForEvents
<1>1. ASSUME CardInv PROVE GraphAccountsForEvents
  <2> DEFINE built == InteractionGraph(events)
             touched == {key \in built.nodes \X built.nodes :
                           \E type \in ContactTypes : Contacts(events, type, key) # {}}
  <2>1. /\ \A i \in DOMAIN events : events[i].agent \in built.nodes \cup {None}
        /\ \A type \in ContactTypes : \A i \in OfType(events, {type}) :
             events[i].agent # None => Endpoints(events[i]) \in DOMAIN built.edges
        /\ \A key \in DOMAIN built.edges :
             key \in touched /\ built.edges[key] = Counted(events, key)
    BY <1>1 DEF CardInv, GraphAt
  <2>2. DOMAIN built.edges = touched
    BY <2>1 DEF Contacts
  <2> HIDE DEF built
  <2>3. \A i \in DOMAIN events : events[i].agent \in built.nodes \cup {None}
    BY <2>1
  <2>4. \A key \in touched :
          built.edges[key] =
             [messages    |-> Cardinality(Messages(events, key)),
              corrections |-> Cardinality(Contacts(events, "CORRECTION_ISSUED", key)),
              latency     |-> SumFunction([i \in Timed(events, key) |-> events[i].latency]),
              measured    |-> Cardinality(Timed(events, key))]
    BY <2>1, <2>2 DEF Counted, Row
  <2> QED
    BY <2>2, <2>3, <2>4 DEF GraphAccountsForEvents, built, Contacts, Timed, Messages, ContactTypes
<1> QED
  BY <1>1, CardInvHolds, PTL

-----------------------------------------------------------------------------
(* Lists of events whose ids are not repeated.                             *)
Unrepeated(list) ==
  /\ list \in Seq(Alphabet)
  /\ \A i, j \in DOMAIN list : list[i].id = list[j].id => i = j

(* The latency of a correction is the time since the one response it       *)
(* corrects.                                                               *)
LEMMA LatencyIs ==
  ASSUME NEW list, Unrepeated(list), NEW i \in DOMAIN list, NEW j \in DOMAIN list,
         list[j].id = list[i].ref
  PROVE  /\ CorrectionLatency(list, i) = list[i].at - list[j].at
         /\ list[i].at \in Nat /\ list[j].at \in Nat
         /\ i \in Measured(list) <=> list[i].type = "CORRECTION_ISSUED" /\ list[j].at <= list[i].at
<1>1. \A k \in DOMAIN list : list[k].id = list[i].ref => k = j
  BY DEF Unrepeated
<1>2. (CHOOSE k \in DOMAIN list : list[k].id = list[i].ref) = j
  BY <1>1
<1>3. list[i] \in Alphabet /\ list[j] \in Alphabet
  BY DEF Unrepeated
<1>4. list[i].at \in Nat /\ list[j].at \in Nat
  BY <1>3, AlphabetAssumption
<1>5. i \in Measured(list) <=> list[i].type = "CORRECTION_ISSUED" /\ list[j].at <= list[i].at
  BY <1>1 DEF Measured, OfType
<1> QED
  BY <1>2, <1>4, <1>5 DEF CorrectionLatency

(* The latencies are natural numbers, one for each measured correction.    *)
LEMMA LatenciesAre ==
  ASSUME NEW list, Unrepeated(list)
  PROVE  /\ Naturals(CorrectionLatencies(list))
         /\ DOMAIN CorrectionLatencies(list) = Measured(list)
         /\ Measured(list) \in SUBSET DOMAIN list
<1>1. Measured(list) \in SUBSET DOMAIN list
  BY DEF Measured, OfType
<1>2. IsFiniteSet(Measured(list))
  BY <1>1, Positions DEF Unrepeated
<1>3. ASSUME NEW i \in Measured(list) PROVE CorrectionLatency(list, i) \in Nat
  <2>1. PICK j \in DOMAIN list : list[j].id = list[i].ref
    BY DEF Measured
  <2>2. /\ CorrectionLatency(list, i) = list[i].at - list[j].at
        /\ list[i].at \in Nat /\ list[j].at \in Nat /\ list[j].at <= list[i].at
    BY <1>1, <2>1, LatencyIs
  <2> QED
    BY <2>2
<1> QED
  BY <1>1, <1>2, <1>3 DEF CorrectionLatencies, Naturals

(* The first of some positions.                                            *)
LEMMA FirstOf ==
  ASSUME NEW S, NEW list \in Seq(S), NEW P \in SUBSET DOMAIN list, P # {}
  PROVE  Min(P) \in P /\ list[Min(P)] \in S
<1>1. P \in SUBSET Nat
  OBVIOUS
<1>2. Min(P) \in P
  BY <1>1, LeastNatural
<1> QED
  BY <1>2

(* What efficiency_ratio reads is a time, or not there.                    *)
LEMMA DurationsAre ==
  ASSUME NEW list \in Seq(Alphabet), NEW base \in Baselines, NEW type
  PROVE  /\ BaselineDuration(base) \in Nat \cup {None}
         /\ TimeOf(list, type) \in Nat \cup {None}
<1>1. BaselineDuration(base) \in Nat \cup {None}
  <2> DEFINE usable == {i \in DOMAIN base : base[i] # None}
  <2>1. CASE usable = {}
    BY <2>1 DEF BaselineDuration
  <2>2. CASE usable # {}
    <3>1. base \in Seq(Nat \cup {None}) /\ usable \in SUBSET DOMAIN base
      BY BaselinesAssumption
    <3> HIDE DEF usable
    <3>2. base[Min(usable)] \in Nat \cup {None}
      BY <2>2, <3>1, FirstOf
    <3> QED
      BY <2>2, <3>2 DEF BaselineDuration, usable
  <2> QED
    BY <2>1, <2>2
<1>2. TimeOf(list, type) \in Nat \cup {None}
  <2> DEFINE found == OfType(list, {type})
  <2>1. CASE found = {}
    BY <2>1 DEF TimeOf
  <2>2. CASE found # {}
    <3>1. found \in SUBSET DOMAIN list
      BY DEF OfType
    <3> HIDE DEF found
    <3>2. list[Min(found)] \in Alphabet
      BY <2>2, <3>1, FirstOf
    <3>3. list[Min(found)].at \in Nat
      BY <3>2, AlphabetAssumption
    <3> QED
      BY <2>2, <3>3 DEF TimeOf, found
  <2> QED
    BY <2>1, <2>2
<1> QED
  BY <1>1, <1>2

(* efficiency_ratio is a fraction.                                         *)
LEMMA EfficiencyIsFraction ==
  ASSUME NEW list \in Seq(Alphabet), NEW base \in Baselines
  PROVE  IsFraction(EfficiencyRatio(list, base))
<1> DEFINE baseline == BaselineDuration(base)
           started  == TimeOf(list, "SCENARIO_STARTED")
           ended    == TimeOf(list, "SCENARIO_ENDED")
<1>1. /\ baseline \in Nat \cup {None}
      /\ started \in Nat \cup {None} /\ ended \in Nat \cup {None}
  BY DurationsAre
<1>2. EfficiencyRatio(list, base) =
        IF None \in {baseline, started, ended} THEN Neutral
        ELSE IF ended <= started THEN One
        ELSE Fraction(Min({baseline, ended - started}), ended - started)
  BY DEF EfficiencyRatio
<1> HIDE DEF baseline, started, ended
<1>3. CASE None \notin {baseline, started, ended} /\ ~(ended <= started)
  <2>1. baseline \in Nat /\ ended - started \in Nat \ {0}
    BY <1>1, <1>3
  <2> QED
    BY <1>2, <1>3, <2>1, Capped
<1>4. CASE ~(None \notin {baseline, started, ended} /\ ~(ended <= started))
  BY <1>2, <1>4, PlainFractions
<1> QED
  BY <1>3, <1>4

(* The severities of the corrections.                                      *)
Severities(list) == [i \in OfType(list, {"CORRECTION_ISSUED"}) |-> Severity(list[i].error)]

(* What trust_calibration sums and counts are numbers.                     *)
LEMMA WeightIs ==
  ASSUME NEW list \in Seq(Alphabet), NEW type
  PROVE  /\ SumFunction(Severities(list)) \in Nat
         /\ IsFiniteSet(OfType(list, {type}))
         /\ Cardinality(OfType(list, {type})) \in Nat
         /\ Cardinality(OfType(list, {type})) = 0 <=> OfType(list, {type}) = {}
<1>1. ASSUME NEW t PROVE OfType(list, {t}) \in SUBSET DOMAIN list
  BY DEF OfType
<1>2. IsFiniteSet(DOMAIN Severities(list))
  BY <1>1, Positions DEF Severities
<1>3. \A i \in DOMAIN Severities(list) : Severities(list)[i] \in Nat
  BY SeverityIs DEF Severities
<1>4. SumFunction(Severities(list)) \in Nat
  BY <1>2, <1>3, SumIsNatural
<1> QED
  BY <1>1, <1>4, Positions

(* trust_calibration in terms of them; it is a fraction.                   *)
LEMMA TrustIs ==
  ASSUME NEW list \in Seq(Alphabet)
  PROVE  LET full   == 10 * Cardinality(OfType(list, {"AGENT_RESPONSE"}))
             weight == SumFunction(Severities(list))
         IN  /\ TrustCalibration(list) =
                  IF full = 0 THEN Zero ELSE Fraction(Min({weight, full}), full)
             /\ full \in Nat /\ weight \in Nat
             /\ IsFraction(TrustCalibration(list))
<1> DEFINE full   == 10 * Cardinality(OfType(list, {"AGENT_RESPONSE"}))
           weight == SumFunction(Severities(list))
<1>1. full \in Nat /\ weight \in Nat
  <2>1. Cardinality(OfType(list, {"AGENT_RESPONSE"})) \in Nat /\ weight \in Nat
    BY WeightIs
  <2> QED
    BY <2>1
<1>2. TrustCalibration(list) = IF full = 0 THEN Zero ELSE Fraction(Min({weight, full}), full)
  BY DEF TrustCalibration, Severities
<1> HIDE DEF full, weight
<1>3. IsFraction(TrustCalibration(list))
  BY <1>1, <1>2, Capped, PlainFractions
<1> QED
  BY <1>1, <1>2, <1>3 DEF full, weight

(* correction_velocity is a fraction.                                      *)
LEMMA VelocityIsFraction ==
  ASSUME NEW list, Unrepeated(list)
  PROVE  IsFraction(CorrectionVelocity(list))
<1>1. CASE Measured(list) = {}
  BY <1>1, PlainFractions DEF CorrectionVelocity
<1>2. CASE Measured(list) # {}
  <2>1. TwiceMedian(CorrectionLatencies(list)) \in Nat
    BY <1>2, LatenciesAre, MedianIs
  <2>2. 2 * MaxVelocity \in Nat \ {0}
    BY VelocityAssumption
  <2> QED
    BY <1>2, <2>1, <2>2, Capped DEF CorrectionVelocity
<1> QED
  BY <1>1, <1>2

(* decomposition_score is a fraction.                                      *)
LEMMA DecompositionIsFraction ==
  ASSUME NEW given \in Seq(Marks)
  PROVE  IsFraction(DecompositionScore(given))
<1>1. CASE given = <<>>
  BY <1>1, PlainFractions DEF DecompositionScore
<1>2. CASE given # <<>>
  <2>1. Len(given) \in Nat \ {0} /\ DOMAIN given = 1..Len(given)
    BY <1>2
  <2>2. 30 * Len(given) \in Nat \ {0}
    BY <2>1
  <2>3. \A i \in DOMAIN given : given[i] \in Nat
    <3>1. \A i \in DOMAIN given : given[i] \in Marks
      OBVIOUS
    <3> QED
      BY <3>1, MarksAssumption
  <2>4. IsFiniteSet(DOMAIN given)
    BY <2>1, Interval
  <2>5. SumFunction(given) \in Nat
    BY <2>3, <2>4, SumIsNatural
  <2> QED
    BY <1>2, <2>2, <2>5, Capped DEF DecompositionScore
<1> QED
  BY <1>1, <1>2

(* chaos_resilience is a fraction of ScoreUnit: an action after the marker *)
(* is at least a tick after it, so neither half of the mean exceeds its    *)
(* share.                                                                  *)
LEMMA ResilienceIsFraction ==
  ASSUME NEW list \in Seq(Alphabet)
  PROVE  IsFraction(Fraction(ChaosResilience(list), ScoreUnit))
<1>1. MedianRecovery \in Nat \ {0} /\ ScoreUnit \in Nat \ {0} /\ ScoreUnit = 6 * MedianRecovery
  BY RecoveryAssumption DEF ScoreUnit
<1>2. SUFFICES ChaosResilience(list) \in 0..ScoreUnit
  BY <1>1 DEF IsFraction, Fraction
<1>3. CASE MarkersOf(list) = {}
  BY <1>1, <1>3 DEF ChaosResilience
<1>4. CASE MarkersOf(list) # {} /\ PostChaos(list) = {}
  BY <1>1, <1>4 DEF ChaosResilience
<1>5. CASE MarkersOf(list) # {} /\ PostChaos(list) # {}
  <2>1. ChaosInjectionTs(list) \in Nat
    <3>1. MarkersOf(list) \in SUBSET DOMAIN list
      BY DEF MarkersOf
    <3>2. list[Min(MarkersOf(list))] \in Alphabet
      BY <1>5, <3>1, FirstOf
    <3> QED
      BY <3>2, AlphabetAssumption DEF ChaosInjectionTs
  <2>2. \A i \in PostChaos(list) : list[i].at - ChaosInjectionTs(list) \in Nat
    BY <2>1, AlphabetAssumption DEF PostChaos
  <2>3. Latencies(list) \in SUBSET Nat /\ Latencies(list) # {}
    BY <1>5, <2>2 DEF Latencies
  <2>4. FirstResponseSpeed(list) \in 0..MedianRecovery
    <3>1. Min(Latencies(list)) \in Nat
      BY <2>3, LeastNatural
    <3>2. MedianRecovery - Min(Latencies(list)) \in Int /\ 0 \in Int
      BY <1>1, <3>1
    <3>3. FirstResponseSpeed(list) = IF 0 >= MedianRecovery - Min(Latencies(list)) THEN 0
                                     ELSE MedianRecovery - Min(Latencies(list))
      BY <3>2, OfTwo DEF FirstResponseSpeed
    <3> QED
      BY <1>1, <3>1, <3>3
  <2>5. RecoveryActions(list) \in 0..3
    <3>1. InTime(list) \in SUBSET DOMAIN list
      BY DEF InTime, PostChaos
    <3>2. Cardinality(InTime(list)) \in Nat
      BY ONLY <3>1, list \in Seq(Alphabet), Positions
    <3>3. PICK c : c = Cardinality(InTime(list))
      OBVIOUS
    <3>4. c \in Nat /\ RecoveryActions(list) = Min({3, c})
      BY <3>2, <3>3 DEF RecoveryActions
    <3>5. Min({3, c}) = IF 3 <= c THEN 3 ELSE c
      <4>1. 3 \in Int /\ c \in Int
        BY ONLY <3>4
      <4> QED
        BY ONLY <4>1, OfTwo
    <3> QED
      BY ONLY <3>4, <3>5
  <2>6. ASSUME NEW m \in Nat, NEW s \in 0..m, NEW k \in 0..3
        PROVE  3 * s + m * k \in 0..(6 * m)
    <3>1. k = 0 \/ k = 1 \/ k = 2 \/ k = 3
      OBVIOUS
    <3> QED
      BY <3>1
  <2> QED
    BY <1>1, <1>5, <2>4, <2>5, <2>6 DEF ChaosResilience
<1> QED
  BY <1>3, <1>4, <1>5

(* Each of the five scores of every reachable state is a fraction, and ids *)
(* stay distinct.                                                          *)
THEOREM ScorecardTyped == CardSpec => []CardTypeOK
<1>1. ASSUME CardInv PROVE CardTypeOK
  <2>1. Unrepeated(events) /\ files \in Baselines /\ marks \in Seq(Marks)
    BY <1>1 DEF CardInv, Inputs, Distinct, Unrepeated
  <2>2. events \in Seq(Alphabet)
    BY <2>1 DEF Unrepeated
  <2>3. /\ IsFraction(EfficiencyRatio(events, files))
        /\ IsFraction(TrustCalibration(events))
        /\ IsFraction(CorrectionVelocity(events))
        /\ IsFraction(DecompositionScore(marks))
        /\ IsFraction(Fraction(ChaosResilience(events), ScoreUnit))
    BY <2>1, <2>2, EfficiencyIsFraction, TrustIs, VelocityIsFraction, DecompositionIsFraction,
       ResilienceIsFraction
  <2>4. EveryScoreIsAFraction
    BY <2>3 DEF EveryScoreIsAFraction, IsFraction
  <2>5. Cardinality({events[i].id : i \in DOMAIN events}) = Len(events)
    <3> DEFINE A == 1..Len(events)
               B == {events[i].id : i \in DOMAIN events}
               p == [i \in A |-> events[i].id]
    <3>1. /\ \A x \in A : p[x] \in B
          /\ \A x, y \in A : p[x] = p[y] => x = y
          /\ \A y \in B : \E x \in A : y = p[x]
      BY <2>1 DEF Unrepeated
    <3>2. IsFiniteSet(A) /\ Cardinality(A) = Len(events)
      <4>1. Len(events) \in Nat
        BY <2>2
      <4> QED
        BY <4>1, Interval
    <3> HIDE DEF A, B, p
    <3>3. Cardinality(B) = Cardinality(A)
      BY <3>1, <3>2, AsMany
    <3> QED
      BY <3>2, <3>3 DEF B
  <2> QED
    BY <1>1, <2>4, <2>5 DEF CardInv, Inputs, CardTypeOK
<1> QED
  BY <1>1, CardInvHolds, PTL

-----------------------------------------------------------------------------
(* The same events in another order: the one at j was at p[j], and the     *)
(* other way round.                                                        *)
Exchanged(list, other, p) ==
  /\ DOMAIN other = DOMAIN list
  /\ \A j \in DOMAIN list : p[j] \in DOMAIN list /\ p[p[j]] = j /\ other[j] = list[p[j]]

(* The time of an event that happens once does not depend on its place.    *)
LEMMA SameTime ==
  ASSUME NEW list \in Seq(Alphabet), NEW other \in Seq(Alphabet), NEW p, Exchanged(list, other, p),
         NEW type, \A i, j \in OfType(list, {type}) : i = j
  PROVE  TimeOf(other, type) = TimeOf(list, type)
<1> DEFINE found == OfType(list, {type})
           moved == OfType(other, {type})
<1>1. \A j \in DOMAIN list : j \in moved <=> p[j] \in found
  BY DEF OfType, Exchanged
<1>2. found \in SUBSET DOMAIN list /\ moved \in SUBSET DOMAIN list /\ DOMAIN other = DOMAIN list
  BY DEF OfType, Exchanged
<1> HIDE DEF found, moved
<1>3. CASE found = {}
  <2>1. moved = {}
    BY <1>1, <1>2, <1>3
  <2> QED
    BY <1>3, <2>1 DEF TimeOf, found, moved
<1>4. CASE found # {}
  <2>1. PICK a : a = Min(found) /\ a \in found
    BY <1>2, <1>4, FirstOf
  <2>2. p[a] \in moved
    BY <1>1, <1>2, <2>1 DEF Exchanged
  <2>3. PICK b : b = Min(moved) /\ b \in moved
    BY <1>2, <2>2, FirstOf
  <2>4. p[b] = a
    BY <1>1, <1>2, <2>1, <2>3 DEF found
  <2>5. other[b] = list[a]
    BY <1>2, <2>3, <2>4 DEF Exchanged
  <2> QED
    BY <1>4, <2>1, <2>2, <2>3, <2>5 DEF TimeOf, found, moved
<1> QED
  BY <1>3, <1>4

(* trust_calibration does not depend on the order: the severities are      *)
(* moved.                                                                  *)
LEMMA SameTrust ==
  ASSUME NEW list \in Seq(Alphabet), NEW other \in Seq(Alphabet), NEW p, Exchanged(list, other, p)
  PROVE  TrustCalibration(other) = TrustCalibration(list)
<1>1. ASSUME NEW type PROVE /\ \A j \in OfType(list, {type}) : p[j] \in OfType(other, {type})
                            /\ \A i, j \in OfType(list, {type}) : p[i] = p[j] => i = j
                            /\ \A i \in OfType(other, {type}) :
                                 \E j \in OfType(list, {type}) : i = p[j]
  BY DEF OfType, Exchanged
<1>2. ASSUME NEW type PROVE Cardinality(OfType(other, {type})) = Cardinality(OfType(list, {type}))
  BY <1>1, WeightIs, AsMany
<1>3. SumFunction(Severities(list)) = SumFunction(Severities(other))
  <2> DEFINE f == Severities(list)
             g == Severities(other)
  <2>1. /\ DOMAIN f = OfType(list, {"CORRECTION_ISSUED"})
        /\ DOMAIN g = OfType(other, {"CORRECTION_ISSUED"})
        /\ \A i \in DOMAIN f : f[i] = Severity(list[i].error)
        /\ \A i \in DOMAIN g : g[i] = Severity(other[i].error)
    BY DEF Severities
  <2>2. /\ IsFiniteSet(DOMAIN f) /\ IsFiniteSet(DOMAIN g)
        /\ \A i \in DOMAIN f : f[i] \in Nat
        /\ \A i \in DOMAIN g : g[i] \in Nat
    BY <2>1, SeverityIs, WeightIs
  <2>3. \A i \in DOMAIN f : other[p[i]] = list[i]
    BY <2>1 DEF OfType, Exchanged
  <2> HIDE DEF f, g
  <2>4. /\ \A i \in DOMAIN f : p[i] \in DOMAIN g
        /\ \A i, j \in DOMAIN f : p[i] = p[j] => i = j
        /\ \A i \in DOMAIN g : \E j \in DOMAIN f : i = p[j]
    <3>1. PICK type : type = "CORRECTION_ISSUED"
      OBVIOUS
    <3>2. DOMAIN f = OfType(list, {type}) /\ DOMAIN g = OfType(other, {type})
      BY <2>1, <3>1
    <3> QED
      BY <1>1, <3>2
  <2>5. \A i \in DOMAIN f : p[i] \in DOMAIN g /\ g[p[i]] = f[i]
    BY <2>1, <2>3, <2>4
  <2>6. SumFunction(f) = SumFunction(g)
    BY ONLY <2>2, <2>4, <2>5, SumMoves
  <2> QED
    BY <2>6 DEF f, g
<1> DEFINE Full(l) == 10 * Cardinality(OfType(l, {"AGENT_RESPONSE"}))
           Weight(l) == SumFunction(Severities(l))
           Score(w, f) == IF f = 0 THEN Zero ELSE Fraction(Min({w, f}), f)
<1>4. Full(list) = Full(other) /\ Weight(list) = Weight(other)
  BY <1>2, <1>3
<1>5. /\ TrustCalibration(list) = Score(Weight(list), Full(list))
      /\ TrustCalibration(other) = Score(Weight(other), Full(other))
  BY TrustIs
<1> HIDE DEF Full, Weight, Score
<1> QED
  BY <1>4, <1>5

(* Nor does correction_velocity: the latencies are moved.                  *)
LEMMA SameVelocity ==
  ASSUME NEW list, NEW other, Unrepeated(list), Unrepeated(other), NEW p, Exchanged(list, other, p)
  PROVE  CorrectionVelocity(other) = CorrectionVelocity(list)
<1> DEFINE f == CorrectionLatencies(list)
           g == CorrectionLatencies(other)
<1>1. ASSUME NEW i \in DOMAIN list, NEW j \in DOMAIN list, list[j].id = list[i].ref
      PROVE  /\ i \in Measured(list) <=> p[i] \in Measured(other)
             /\ CorrectionLatency(list, i) = CorrectionLatency(other, p[i])
  <2>1. /\ p[i] \in DOMAIN other /\ p[j] \in DOMAIN other
        /\ other[p[i]] = list[i] /\ other[p[j]] = list[j]
    BY DEF Exchanged
  <2>2. other[p[j]].id = other[p[i]].ref
    BY <1>1, <2>1
  <2>3. /\ CorrectionLatency(list, i) = list[i].at - list[j].at
        /\ i \in Measured(list) <=> list[i].type = "CORRECTION_ISSUED" /\ list[j].at <= list[i].at
    BY <1>1, LatencyIs
  <2>4. /\ CorrectionLatency(other, p[i]) = other[p[i]].at - other[p[j]].at
        /\ p[i] \in Measured(other)
             <=> other[p[i]].type = "CORRECTION_ISSUED" /\ other[p[j]].at <= other[p[i]].at
    BY <2>1, <2>2, LatencyIs
  <2> QED
    BY <2>1, <2>3, <2>4
<1>2. ASSUME NEW i \in Measured(list)
      PROVE  p[i] \in Measured(other) /\ CorrectionLatency(list, i) = CorrectionLatency(other, p[i])
  <2>1. i \in DOMAIN list /\ \E j \in DOMAIN list : list[j].id = list[i].ref
    BY DEF Measured, OfType
  <2> QED
    BY <1>1, <2>1
<1>3. ASSUME NEW k \in Measured(other) PROVE \E i \in Measured(list) : k = p[i]
  <2>1. PICK l \in DOMAIN other : k \in DOMAIN other /\ other[l].id = other[k].ref
    BY DEF Measured, OfType
  <2>2. /\ p[k] \in DOMAIN list /\ p[l] \in DOMAIN list /\ p[p[k]] = k
        /\ list[p[k]] = other[k] /\ list[p[l]] = other[l]
    BY <2>1 DEF Exchanged
  <2>3. p[k] \in Measured(list) <=> p[p[k]] \in Measured(other)
    BY <1>1, <2>1, <2>2
  <2> QED
    BY <2>2, <2>3
<1>4. \A i, j \in Measured(list) : p[i] = p[j] => i = j
  BY DEF Exchanged, Measured, OfType
<1>5. /\ Naturals(f) /\ Naturals(g)
      /\ DOMAIN f = Measured(list) /\ DOMAIN g = Measured(other)
  BY LatenciesAre
<1>6. \A i \in DOMAIN f : p[i] \in DOMAIN g /\ g[p[i]] = f[i]
  BY <1>2, <1>5 DEF CorrectionLatencies
<1> HIDE DEF f, g
<1>7. CASE Measured(list) = {}
  <2>1. Measured(other) = {}
    BY <1>3, <1>7
  <2> QED
    BY <1>7, <2>1 DEF CorrectionVelocity
<1>8. CASE Measured(list) # {}
  <2>1. Measured(other) # {}
    BY <1>2, <1>8
  <2>2. TwiceMedian(f) = TwiceMedian(g)
    <3>1. /\ \A i, j \in DOMAIN f : p[i] = p[j] => i = j
          /\ \A k \in DOMAIN g : \E i \in DOMAIN f : k = p[i]
          /\ DOMAIN f # {}
      BY <1>3, <1>4, <1>5, <1>8
    <3> QED
      BY <1>5, <1>6, <3>1, OrderedMoves
  <2> QED
    BY <1>8, <2>1, <2>2 DEF CorrectionVelocity, f, g
<1> QED
  BY <1>7, <1>8

(* By induction on its length, the graph of every list of events.          *)
LEMMA EveryGraphAt == \A list \in Seq(Alphabet) : GraphAt(list)
<1> DEFINE M == {n \in Nat : \A list \in Seq(Alphabet) : Len(list) = n => GraphAt(list)}
<1>1. 0 \in M
  <2>1. \A list \in Seq(Alphabet) : Len(list) = 0 => list = <<>>
    OBVIOUS
  <2> QED
    BY <2>1, EmptyGraphAt
<1>2. ASSUME NEW n \in Nat, n \in M PROVE n + 1 \in M
  <2>1. ASSUME NEW list \in Seq(Alphabet), Len(list) = n + 1 PROVE GraphAt(list)
    <3> DEFINE front == SubSeq(list, 1, n)
               e == list[n + 1]
    <3>1. front \in Seq(Alphabet) /\ Len(front) = n /\ e \in Alphabet
      BY <2>1
    <3>2. list = Append(front, e)
      BY <2>1
    <3> HIDE DEF front, e
    <3> QED
      BY <1>2, <3>1, <3>2, GraphAtMore
  <2> QED
    BY <2>1
<1>3. Nat \subseteq M
  <2> HIDE DEF M
  <2> QED
    BY <1>1, <1>2, CountUp
<1> QED
  BY <1>3

(* It does not depend on the order either: what it shows is counted, and   *)
(* counts and sums move with the events.                                   *)
LEMMA SameGraph ==
  ASSUME NEW list \in Seq(Alphabet), NEW other \in Seq(Alphabet), NEW p, Exchanged(list, other, p)
  PROVE  InteractionGraph(other) = InteractionGraph(list)
<1> DEFINE a == InteractionGraph(list)
           b == InteractionGraph(other)
<1>1. ASSUME NEW type, NEW key
      PROVE  /\ \A i \in Contacts(list, type, key) : p[i] \in Contacts(other, type, key)
             /\ \A k \in Contacts(other, type, key) : \E i \in Contacts(list, type, key) : k = p[i]
  <2>1. \A i \in DOMAIN list : p[i] \in DOMAIN other /\ other[p[i]] = list[i] /\ p[p[i]] = i
    BY DEF Exchanged
  <2>2. \A k \in DOMAIN other : p[k] \in DOMAIN list /\ list[p[k]] = other[k] /\ p[p[k]] = k
    BY DEF Exchanged
  <2>3. \A i \in Contacts(list, type, key) : p[i] \in Contacts(other, type, key)
    BY <2>1 DEF Contacts, OfType
  <2>4. \A k \in Contacts(other, type, key) : p[k] \in Contacts(list, type, key) /\ k = p[p[k]]
    BY <2>2 DEF Contacts, OfType
  <2> QED
    BY <2>3, <2>4
<1>2. ASSUME NEW P \in SUBSET DOMAIN list, NEW Q,
             \A i \in P : p[i] \in Q, \A k \in Q : \E i \in P : k = p[i]
      PROVE  Cardinality(Q) = Cardinality(P) /\ IsFiniteSet(P) /\ IsFiniteSet(Q)
  <2>1. \A i, j \in P : p[i] = p[j] => i = j
    BY DEF Exchanged
  <2>2. IsFiniteSet(P)
    BY Positions
  <2> QED
    BY <1>2, <2>1, <2>2, AsMany
<1>3. ASSUME NEW key PROVE Counted(other, key) = Counted(list, key)
  <2>1. /\ Messages(list, key) \in SUBSET DOMAIN list
        /\ Contacts(list, "CORRECTION_ISSUED", key) \in SUBSET DOMAIN list
        /\ Timed(list, key) \in SUBSET DOMAIN list
        /\ Timed(other, key) \in SUBSET DOMAIN other
    BY DEF Messages, Timed, Contacts, OfType
  <2>2. /\ \A i \in Messages(list, key) : p[i] \in Messages(other, key)
        /\ \A k \in Messages(other, key) : \E i \in Messages(list, key) : k = p[i]
    BY <1>1 DEF Messages
  <2>3. /\ \A i \in Timed(list, key) : p[i] \in Timed(other, key)
        /\ \A k \in Timed(other, key) : \E i \in Timed(list, key) : k = p[i]
    <3>1. \A i \in DOMAIN list : other[p[i]] = list[i]
      BY DEF Exchanged
    <3>2. Contacts(list, "AGENT_RESPONSE", key) \subseteq DOMAIN list
      BY DEF Contacts, OfType
    <3> QED
      BY <1>1, <3>1, <3>2 DEF Timed
  <2>4. Cardinality(Messages(other, key)) = Cardinality(Messages(list, key))
    BY <1>2, <2>1, <2>2
  <2>5. Cardinality(Contacts(other, "CORRECTION_ISSUED", key))
          = Cardinality(Contacts(list, "CORRECTION_ISSUED", key))
    <3>1. PICK type : type = "CORRECTION_ISSUED"
      OBVIOUS
    <3>2. Contacts(list, type, key) \in SUBSET DOMAIN list
      BY <2>1, <3>1
    <3>3. Cardinality(Contacts(other, type, key)) = Cardinality(Contacts(list, type, key))
      BY <1>1, <1>2, <3>2
    <3> QED
      BY <3>1, <3>3
  <2>6. /\ Cardinality(Timed(other, key)) = Cardinality(Timed(list, key))
        /\ IsFiniteSet(Timed(list, key)) /\ IsFiniteSet(Timed(other, key))
    BY <1>2, <2>1, <2>3
  <2>7. SumFunction([i \in Timed(list, key) |-> list[i].latency])
          = SumFunction([i \in Timed(other, key) |-> other[i].latency])
    <3> DEFINE f == [i \in Timed(list, key) |-> list[i].latency]
               g == [i \in Timed(other, key) |-> other[i].latency]
    <3>1. \A x \in Alphabet : x.latency # None => x.latency \in Nat
      BY AlphabetAssumption
    <3>2. /\ \A i \in DOMAIN f : f[i] \in Nat
          /\ \A i \in DOMAIN g : g[i] \in Nat
      <4>1. \A i \in Timed(list, key) : list[i] \in Alphabet /\ list[i].latency # None
        BY <2>1 DEF Timed
      <4>2. \A i \in Timed(other, key) : other[i] \in Alphabet /\ other[i].latency # None
        BY <2>1 DEF Timed
      <4> QED
        BY <3>1, <4>1, <4>2
    <3>3. \A i \in DOMAIN f : p[i] \in DOMAIN g /\ g[p[i]] = f[i]
      <4>1. \A i \in DOMAIN list : other[p[i]] = list[i]
        BY DEF Exchanged
      <4> QED
        BY <2>1, <2>3, <4>1
    <3>4. DOMAIN f = Timed(list, key) /\ DOMAIN g = Timed(other, key)
      OBVIOUS
    <3> HIDE DEF f, g
    <3>5. /\ \A i, j \in DOMAIN f : p[i] = p[j] => i = j
          /\ \A k \in DOMAIN g : \E i \in DOMAIN f : k = p[i]
      <4>1. \A i, j \in DOMAIN list : p[i] = p[j] => i = j
        BY DEF Exchanged
      <4> QED
        BY <2>1, <2>3, <3>4, <4>1
    <3>6. IsFiniteSet(DOMAIN f) /\ IsFiniteSet(DOMAIN g)
      BY <2>6, <3>4
    <3>7. SumFunction(f) = SumFunction(g)
      BY <3>6, <3>2, <3>3, <3>4, <3>5, SumMoves
    <3> QED
      BY <3>7 DEF f, g
  <2> QED
    BY <2>4, <2>5, <2>6, <2>7 DEF Counted
<1>4. GraphAt(list) /\ GraphAt(other)
  BY EveryGraphAt
<1>5. a.nodes = b.nodes
  <2>1. {list[i].agent : i \in {j \in DOMAIN list : list[j].agent # None}}
          = {other[i].agent : i \in {j \in DOMAIN other : other[j].agent # None}}
    <3>1. /\ \A i \in DOMAIN list : p[i] \in DOMAIN other /\ other[p[i]] = list[i]
          /\ \A i \in DOMAIN other : p[i] \in DOMAIN list /\ list[p[i]] = other[i]
      BY DEF Exchanged
    <3>2. ASSUME NEW i \in DOMAIN list, list[i].agent # None
          PROVE  \E k \in DOMAIN other : other[k].agent # None /\ other[k].agent = list[i].agent
      BY <3>1, <3>2
    <3>3. ASSUME NEW k \in DOMAIN other, other[k].agent # None
          PROVE  \E i \in DOMAIN list : list[i].agent # None /\ list[i].agent = other[k].agent
      BY <3>1, <3>3
    <3> QED
      BY <3>2, <3>3
  <2> QED
    BY <1>4, <2>1 DEF GraphAt
<1>6. /\ \A key \in DOMAIN a.edges : a.edges[key] = Counted(list, key)
      /\ \A key \in DOMAIN b.edges : b.edges[key] = Counted(other, key)
  BY <1>4 DEF GraphAt
<1>7. DOMAIN a.edges = DOMAIN b.edges
  <2>1. ASSUME NEW key \in DOMAIN a.edges PROVE key \in DOMAIN b.edges
    <3>1. PICK type \in ContactTypes : Contacts(list, type, key) # {}
      BY <1>4 DEF GraphAt
    <3>2. PICK i : i \in Contacts(other, type, key)
      BY <1>1, <3>1
    <3> QED
      BY <1>4, <3>2 DEF GraphAt, Contacts
  <2>2. ASSUME NEW key \in DOMAIN b.edges PROVE key \in DOMAIN a.edges
    <3>1. PICK type \in ContactTypes : Contacts(other, type, key) # {}
      BY <1>4 DEF GraphAt
    <3>2. PICK i : i \in Contacts(list, type, key)
      BY <1>1, <3>1
    <3> QED
      BY <1>4, <3>2 DEF GraphAt, Contacts
  <2> QED
    BY <2>1, <2>2
<1>8. /\ a = [nodes |-> a.nodes, edges |-> [key \in DOMAIN a.edges |-> a.edges[key]]]
      /\ b = [nodes |-> b.nodes, edges |-> [key \in DOMAIN b.edges |-> b.edges[key]]]
  BY <1>4 DEF GraphAt
<1> HIDE DEF a, b
<1>9. [key \in DOMAIN a.edges |-> a.edges[key]] = [key \in DOMAIN b.edges |-> b.edges[key]]
  BY <1>3, <1>6, <1>7
<1>10. a = b
  BY <1>5, <1>8, <1>9
<1> QED
  BY <1>10 DEF a, b

(* Exchanging two neighbours changes no score and no edge.                 *)
THEOREM OrderOfArrivalIsIrrelevant == CardSpec => []ArrivalOrderIsIrrelevant
<1>1. ASSUME CardInv PROVE ArrivalOrderIsIrrelevant
  <2>1. Unrepeated(events) /\ files \in Baselines /\ events \in Seq(Alphabet) /\ Distinct
    BY <1>1 DEF CardInv, Inputs, Distinct, Unrepeated
  <2>2. ASSUME NEW i \in 1..(Len(events) - 1)
        PROVE  /\ EfficiencyRatio(SwapNext(i), files) = EfficiencyRatio(events, files)
               /\ TrustCalibration(SwapNext(i)) = TrustCalibration(events)
               /\ CorrectionVelocity(SwapNext(i)) = CorrectionVelocity(events)
               /\ InteractionGraph(SwapNext(i)) = InteractionGraph(events)
    <3> DEFINE p == [j \in DOMAIN events |-> IF j = i THEN i + 1 ELSE IF j = i + 1 THEN i ELSE j]
               other == SwapNext(i)
    <3>1. i \in DOMAIN events /\ i + 1 \in DOMAIN events /\ DOMAIN events = 1..Len(events)
      BY <2>1
    <3>2. Exchanged(events, other, p)
      BY <3>1 DEF Exchanged, SwapNext
    <3>3. other \in Seq(Alphabet)
      <4>1. DOMAIN other = 1..Len(events) /\ Len(events) \in Nat
        BY <2>1, <3>1 DEF SwapNext
      <4>2. \A j \in 1..Len(events) : other[j] \in Alphabet
        BY <2>1, <3>1 DEF SwapNext
      <4>3. other = [j \in 1..Len(events) |-> other[j]]
        BY <3>1 DEF SwapNext
      <4> HIDE DEF other
      <4> QED
        BY <4>1, <4>2, <4>3
    <3> HIDE DEF other, p
    <3>4. Unrepeated(other)
      <4>1. ASSUME NEW j \in DOMAIN other, NEW k \in DOMAIN other, other[j].id = other[k].id
            PROVE  j = k
        <5>1. /\ other[j] = events[p[j]] /\ other[k] = events[p[k]]
              /\ p[j] \in DOMAIN events /\ p[k] \in DOMAIN events
              /\ p[p[j]] = j /\ p[p[k]] = k
          BY <3>2 DEF Exchanged
        <5>2. p[j] = p[k]
          BY <2>1, <4>1, <5>1 DEF Unrepeated
        <5> QED
          BY <5>1, <5>2
      <4> QED
        BY <3>3, <4>1 DEF Unrepeated
    <3>5. TrustCalibration(other) = TrustCalibration(events)
      BY <2>1, <3>2, <3>3, SameTrust
    <3>6. CorrectionVelocity(other) = CorrectionVelocity(events)
      BY <2>1, <3>2, <3>4, SameVelocity
    <3>7. InteractionGraph(other) = InteractionGraph(events)
      BY <2>1, <3>2, <3>3, SameGraph
    <3>8. EfficiencyRatio(other, files) = EfficiencyRatio(events, files)
      <4>1. ASSUME NEW type \in {"SCENARIO_STARTED", "SCENARIO_ENDED"}
            PROVE  TimeOf(other, type) = TimeOf(events, type)
        <5>1. \A k, j \in OfType(events, {type}) : k = j
          BY <2>1 DEF Distinct
        <5> QED
          BY <2>1, <3>2, <3>3, <5>1, SameTime
      <4>2. /\ TimeOf(other, "SCENARIO_STARTED") = TimeOf(events, "SCENARIO_STARTED")
            /\ TimeOf(other, "SCENARIO_ENDED") = TimeOf(events, "SCENARIO_ENDED")
        BY <4>1
      <4> QED
        BY <4>2 DEF EfficiencyRatio
    <3> QED
      BY <3>5, <3>6, <3>7, <3>8 DEF other
  <2> QED
    BY <2>2 DEF ArrivalOrderIsIrrelevant
<1> QED
  BY <1>1, CardInvHolds, PTL

-----------------------------------------------------------------------------
(* The end of a session is one tick later, the rest is the same.           *)
LEMMA SlowerEnd ==
  ASSUME NEW list \in Seq(Alphabet), NEW base \in Baselines,
         NEW i \in OfType(list, {"SCENARIO_ENDED"}),
         \A j \in OfType(list, {"SCENARIO_ENDED"}) : j = i
  PROVE  AtMost(EfficiencyRatio([list EXCEPT ![i].at = @ + 1], base), EfficiencyRatio(list, base))
<1> DEFINE later == [list EXCEPT ![i].at = @ + 1]
           baseline == BaselineDuration(base)
           started  == TimeOf(list, "SCENARIO_STARTED")
           ended    == TimeOf(list, "SCENARIO_ENDED")
<1>1. /\ i \in DOMAIN list /\ list[i].type = "SCENARIO_ENDED"
      /\ \A j \in DOMAIN list : list[j] \in Alphabet
  BY DEF OfType
<1>2. list[i].at \in Nat /\ "type" \in DOMAIN list[i] /\ "at" \in DOMAIN list[i]
  BY <1>1, AlphabetAssumption
<1>3. /\ DOMAIN later = DOMAIN list
      /\ \A j \in DOMAIN list : j # i => later[j] = list[j]
      /\ later[i] = [list[i] EXCEPT !.at = @ + 1]
  BY <1>1
<1>4. later[i].type = list[i].type /\ later[i].at = list[i].at + 1
  BY <1>2, <1>3
<1> HIDE DEF later
<1>5. ASSUME NEW type PROVE OfType(later, {type}) = OfType(list, {type})
  BY <1>1, <1>3, <1>4 DEF OfType
<1>6. TimeOf(later, "SCENARIO_STARTED") = started
  <2> DEFINE found == OfType(list, {"SCENARIO_STARTED"})
  <2>1. OfType(later, {"SCENARIO_STARTED"}) = found
    BY <1>5
  <2>2. CASE found = {}
    BY <2>1, <2>2 DEF TimeOf
  <2>3. CASE found # {}
    <3>1. found \in SUBSET DOMAIN list
      BY DEF OfType
    <3>2. Min(found) \in found
      <4> HIDE DEF found
      <4> QED
        BY <2>3, <3>1, FirstOf
    <3>3. Min(found) \in DOMAIN list /\ Min(found) # i
      BY <1>1, <3>2 DEF OfType
    <3> QED
      BY <1>3, <2>1, <2>3, <3>3 DEF TimeOf
  <2> QED
    BY <2>2, <2>3
<1>7. ended = list[i].at /\ TimeOf(later, "SCENARIO_ENDED") = list[i].at + 1
  <2>1. OfType(list, {"SCENARIO_ENDED"}) = {i} /\ OfType(later, {"SCENARIO_ENDED"}) = {i}
    BY <1>5
  <2>2. Min({i}) = i
    BY <1>1 DEF Min
  <2> QED
    BY <1>4, <2>1, <2>2 DEF TimeOf
<1>8. /\ baseline \in Nat \cup {None} /\ started \in Nat \cup {None}
      /\ ended \in Nat /\ ended + 1 \in Nat /\ None \notin Nat
  BY <1>2, <1>7, DurationsAre, NoneAssumption
<1>9. /\ EfficiencyRatio(list, base) =
           IF None \in {baseline, started, ended} THEN Neutral
           ELSE IF ended <= started THEN One
           ELSE Fraction(Min({baseline, ended - started}), ended - started)
      /\ EfficiencyRatio(later, base) =
           IF None \in {baseline, started, ended + 1} THEN Neutral
           ELSE IF ended + 1 <= started THEN One
           ELSE Fraction(Min({baseline, (ended + 1) - started}), (ended + 1) - started)
  BY <1>6, <1>7 DEF EfficiencyRatio
<1> HIDE DEF baseline, started, ended
<1>10. AtMost(Neutral, Neutral) /\ AtMost(One, One)
  BY DEF AtMost, Neutral, One, Fraction
<1>11. CASE None \in {baseline, started}
  BY <1>8, <1>9, <1>10, <1>11 DEF later
<1>12. CASE None \notin {baseline, started} /\ ended + 1 <= started
  <2>1. ended <= started
    BY <1>8, <1>12
  <2> QED
    BY <1>8, <1>9, <1>10, <1>12, <2>1 DEF later
<1>13. CASE None \notin {baseline, started} /\ ended = started
  <2>1. /\ (ended + 1) - started = 1 /\ ended <= started /\ ~(ended + 1 <= started)
        /\ baseline \in Nat /\ baseline \in Int /\ 1 \in Int
    BY <1>8, <1>13
  <2>2. Min({baseline, 1}) = IF baseline <= 1 THEN baseline ELSE 1
    BY <2>1, OfTwo
  <2>3. AtMost(Fraction(Min({baseline, 1}), 1), One)
    BY <2>1, <2>2 DEF AtMost, Fraction, One
  <2> QED
    BY <1>8, <1>9, <1>13, <2>1, <2>3 DEF later
<1>14. CASE None \notin {baseline, started} /\ ended > started
  <2>1. /\ ended - started \in Nat \ {0} /\ (ended + 1) - started = (ended - started) + 1
        /\ baseline \in Nat /\ ~(ended <= started) /\ ~(ended + 1 <= started)
    BY <1>8, <1>14
  <2>2. PICK d : d = ended - started
    OBVIOUS
  <2>3. AtMost(Fraction(Min({baseline, d + 1}), d + 1), Fraction(Min({baseline, d}), d))
    BY <2>1, <2>2, SlowerRatio
  <2> QED
    BY <1>8, <1>9, <1>14, <2>1, <2>2, <2>3 DEF later
<1> QED
  BY <1>8, <1>11, <1>12, <1>13, <1>14

(* Trust: one more correction, one more answer.                            *)
LEMMA MoreOfType ==
  ASSUME NEW list \in Seq(Alphabet), NEW e \in Alphabet, NEW type
  PROVE  OfType(Append(list, e), {type}) =
           IF e.type = type THEN OfType(list, {type}) \cup {Len(list) + 1} ELSE OfType(list, {type})
<1> DEFINE more == Append(list, e)
<1>1. /\ DOMAIN more = DOMAIN list \cup {Len(list) + 1} /\ more[Len(list) + 1] = e
      /\ \A i \in DOMAIN list : more[i] = list[i]
      /\ Len(list) + 1 \notin DOMAIN list
  OBVIOUS
<1> HIDE DEF more
<1>2. OfType(more, {type}) = {i \in DOMAIN list : list[i].type = type}
                               \cup {i \in {Len(list) + 1} : e.type = type}
  BY <1>1 DEF OfType
<1>3. OfType(list, {type}) = {i \in DOMAIN list : list[i].type = type}
  BY DEF OfType
<1> QED
  BY <1>2, <1>3 DEF more

(* One more correction adds its severity to their sum.                     *)
LEMMA HeavierWithCorrection ==
  ASSUME NEW list \in Seq(Alphabet), NEW e \in Alphabet, e.type = "CORRECTION_ISSUED"
  PROVE  SumFunction(Severities(Append(list, e))) >= SumFunction(Severities(list))
<1> DEFINE more == Append(list, e)
           D == OfType(list, {"CORRECTION_ISSUED"})
           fresh == Len(list) + 1
           f == Severities(more)
           g == Severities(list)
<1>1. OfType(more, {"CORRECTION_ISSUED"}) = D \cup {fresh}
  <2>1. PICK type : type = "CORRECTION_ISSUED"
    OBVIOUS
  <2>2. list \in Seq(Alphabet) /\ e \in Alphabet /\ e.type = type
    BY <2>1
  <2>3. OfType(more, {type}) = OfType(list, {type}) \cup {fresh}
    BY ONLY <2>2, MoreOfType
  <2> QED
    BY <2>1, <2>3
<1>2. \A i \in DOMAIN list : more[i] = list[i]
  OBVIOUS
<1>3. D \in SUBSET DOMAIN list
  BY DEF OfType
<1>4. IsFiniteSet(D) /\ fresh \notin D /\ \A i \in D : more[i] = list[i]
  BY <1>2, <1>3, Positions
<1> HIDE DEF D, more
<1>5. /\ IsFiniteSet(D) /\ fresh \notin D
      /\ DOMAIN f = D \cup {fresh} /\ DOMAIN g = D
      /\ \A y \in D \cup {fresh} : f[y] \in Nat
      /\ \A y \in D : g[y] = f[y]
  <2>1. f = [i \in D \cup {fresh} |-> Severity(more[i].error)]
    BY <1>1 DEF Severities
  <2>2. g = [i \in D |-> Severity(list[i].error)]
    BY DEF Severities, D
  <2> HIDE DEF f, g, fresh
  <2> QED
    BY <1>4, <2>1, <2>2, SeverityIs
<1>6. SumFunction(g) \in Nat
  BY WeightIs
<1> HIDE DEF f, g, fresh
<1>7. SumFunction(f) = f[fresh] + SumFunction(g)
  BY ONLY <1>5, SumOfMore
<1>8. f[fresh] \in Nat
  BY <1>5
<1>9. SumFunction(f) >= SumFunction(g)
  BY <1>6, <1>7, <1>8
<1> QED
  BY <1>9 DEF f, g, more

(* Hence what a further event does to trust_calibration.                   *)
LEMMA MoreTrust ==
  ASSUME NEW list \in Seq(Alphabet), NEW e \in Alphabet
  PROVE  LET before == TrustCalibration(list)
             after  == TrustCalibration(Append(list, e))
         IN  /\ e.type = "CORRECTION_ISSUED" => AtMost(before, after)
             /\ e.type = "AGENT_RESPONSE" /\ OfType(list, {"AGENT_RESPONSE"}) # {}
                  => AtMost(after, before)
             /\ e.type \notin {"CORRECTION_ISSUED", "AGENT_RESPONSE"} => after = before
<1> DEFINE more == Append(list, e)
           fresh == Len(list) + 1
           Full(l) == 10 * Cardinality(OfType(l, {"AGENT_RESPONSE"}))
           Weight(l) == SumFunction(Severities(l))
           Score(w, f) == IF f = 0 THEN Zero ELSE Fraction(Min({w, f}), f)
<1>1. more \in Seq(Alphabet) /\ more[fresh] = e /\ \A i \in DOMAIN list : more[i] = list[i]
  OBVIOUS
<1>2. /\ TrustCalibration(list) = Score(Weight(list), Full(list))
      /\ TrustCalibration(more) = Score(Weight(more), Full(more))
      /\ Weight(list) \in Nat /\ Full(list) \in Nat /\ Weight(more) \in Nat /\ Full(more) \in Nat
  <2>1. \A l \in Seq(Alphabet) : /\ TrustCalibration(l) = Score(Weight(l), Full(l))
                                 /\ Weight(l) \in Nat /\ Full(l) \in Nat
    BY TrustIs
  <2> HIDE DEF Score, Weight, Full, more
  <2> QED
    BY <1>1, <2>1
<1>3. e.type # "AGENT_RESPONSE" => Full(more) = Full(list)
  BY MoreOfType
<1>4. e.type = "AGENT_RESPONSE" => Full(more) = Full(list) + 10
  <2> DEFINE A == OfType(list, {"AGENT_RESPONSE"})
  <2>1. A \in SUBSET DOMAIN list
    BY DEF OfType
  <2> HIDE DEF A
  <2>2. Cardinality(A \cup {fresh}) = Cardinality(A) + 1 /\ Cardinality(A) \in Nat
    BY <2>1, Positions
  <2>3. e.type = "AGENT_RESPONSE" => OfType(more, {"AGENT_RESPONSE"}) = A \cup {fresh}
    <3>1. PICK type : type = "AGENT_RESPONSE"
      OBVIOUS
    <3>2. list \in Seq(Alphabet) /\ e \in Alphabet
      OBVIOUS
    <3>3. ASSUME e.type = type PROVE OfType(more, {type}) = OfType(list, {type}) \cup {fresh}
      BY ONLY <3>2, <3>3, MoreOfType
    <3> QED
      BY <3>1, <3>3 DEF A
  <2>4. Full(list) = 10 * Cardinality(A)
    BY DEF A
  <2>5. ASSUME e.type = "AGENT_RESPONSE" PROVE Full(more) = 10 * Cardinality(A \cup {fresh})
    BY <2>3, <2>5
  <2> HIDE DEF Full, fresh
  <2>6. PICK c : c = Cardinality(A)
    OBVIOUS
  <2>7. PICK d : d = Cardinality(A \cup {fresh})
    OBVIOUS
  <2>8. c \in Nat /\ d = c + 1 /\ Full(list) = 10 * c
    BY <2>2, <2>4, <2>6, <2>7
  <2>9. e.type = "AGENT_RESPONSE" => Full(more) = 10 * d
    BY <2>5, <2>7
  <2> QED
    BY <2>8, <2>9
<1>5. OfType(list, {"AGENT_RESPONSE"}) # {} => Full(list) > 0
  <2>1. /\ Cardinality(OfType(list, {"AGENT_RESPONSE"})) \in Nat
        /\ Cardinality(OfType(list, {"AGENT_RESPONSE"})) = 0
             <=> OfType(list, {"AGENT_RESPONSE"}) = {}
    BY WeightIs
  <2> QED
    BY <2>1
<1>6. e.type # "CORRECTION_ISSUED" => Weight(more) = Weight(list)
  <2>1. ASSUME e.type # "CORRECTION_ISSUED" PROVE Severities(more) = Severities(list)
    <3>1. OfType(more, {"CORRECTION_ISSUED"}) = OfType(list, {"CORRECTION_ISSUED"})
      BY <2>1, MoreOfType
    <3>2. \A i \in OfType(list, {"CORRECTION_ISSUED"}) : more[i] = list[i]
      BY <1>1 DEF OfType
    <3> HIDE DEF more
    <3> QED
      BY <3>1, <3>2 DEF Severities
  <2> QED
    BY <2>1
<1>7. e.type = "CORRECTION_ISSUED" => Weight(more) >= Weight(list)
  BY HeavierWithCorrection
<1> HIDE DEF Full, Weight, more
<1>8. ASSUME NEW w \in Nat, NEW v \in Nat, NEW f \in Nat, w <= v
      PROVE  AtMost(Score(w, f), Score(v, f))
  <2>1. CASE f = 0
    BY <2>1 DEF AtMost, Zero, Fraction
  <2>2. CASE f # 0
    <3>1. w \in Int /\ v \in Int /\ f \in Int
      OBVIOUS
    <3>2. /\ Min({w, f}) = IF w <= f THEN w ELSE f
          /\ Min({v, f}) = IF v <= f THEN v ELSE f
      BY <3>1, OfTwo
    <3>3. Min({w, f}) \in Nat /\ Min({v, f}) \in Nat /\ Min({w, f}) <= Min({v, f})
      BY <1>8, <3>2
    <3>4. \A a, b, c \in Nat : a <= b => a * c <= b * c
      OBVIOUS
    <3> QED
      BY <2>2, <3>3, <3>4 DEF AtMost, Fraction
  <2> QED
    BY <2>1, <2>2
<1>9. ASSUME NEW w \in Nat, NEW f \in Nat \ {0}, NEW h \in Nat, f <= h
      PROVE  AtMost(Score(w, h), Score(w, f))
  <2>1. w \in Int /\ h \in Int /\ f \in Int /\ h # 0
    BY <1>9
  <2>2. /\ Min({w, f}) = IF w <= f THEN w ELSE f
        /\ Min({w, h}) = IF w <= h THEN w ELSE h
    BY <2>1, OfTwo
  <2>3. \A a, b, c \in Nat : a <= b => a * c <= b * c
    OBVIOUS
  <2>4. CASE w <= f
    <3>1. Min({w, f}) = w /\ Min({w, h}) = w
      BY <1>9, <2>2, <2>4
    <3>2. w * f <= w * h
      BY <1>9, <2>3
    <3> QED
      BY <2>1, <3>1, <3>2 DEF AtMost, Fraction
  <2>5. CASE ~(w <= f)
    <3>1. Min({w, f}) = f /\ Min({w, h}) <= h /\ Min({w, h}) \in Nat
      BY <2>2, <2>5
    <3>2. Min({w, h}) * f <= h * f /\ h * f = f * h
      BY <2>3, <3>1
    <3> QED
      BY <2>1, <3>1, <3>2 DEF AtMost, Fraction
  <2> QED
    BY <2>4, <2>5
<1> HIDE DEF Score
<1>10. e.type = "CORRECTION_ISSUED" => AtMost(TrustCalibration(list), TrustCalibration(more))
  BY <1>2, <1>3, <1>7, <1>8
<1>11. e.type = "AGENT_RESPONSE" /\ OfType(list, {"AGENT_RESPONSE"}) # {}
         => AtMost(TrustCalibration(more), TrustCalibration(list))
  <2>1. ASSUME e.type = "AGENT_RESPONSE", OfType(list, {"AGENT_RESPONSE"}) # {}
        PROVE  /\ Weight(more) = Weight(list)
               /\ Full(list) \in Nat \ {0} /\ Full(list) <= Full(more)
    BY <1>2, <1>4, <1>5, <1>6, <2>1
  <2> QED
    BY <1>2, <1>9, <2>1
<1>12. e.type \notin {"CORRECTION_ISSUED", "AGENT_RESPONSE"}
         => TrustCalibration(more) = TrustCalibration(list)
  BY <1>2, <1>3, <1>6
<1> QED
  BY <1>10, <1>11, <1>12 DEF more

(* What was measured stays measured, with the same latency.                *)
LEMMA MeasuredStays ==
  ASSUME NEW list, NEW more, Unrepeated(list), Unrepeated(more),
         DOMAIN list \subseteq DOMAIN more, \A i \in DOMAIN list : more[i] = list[i],
         NEW i \in Measured(list)
  PROVE  i \in Measured(more) /\ CorrectionLatency(more, i) = CorrectionLatency(list, i)
<1>1. PICK j \in DOMAIN list : list[j].id = list[i].ref /\ list[j].at <= list[i].at
  BY DEF Measured
<1>2. i \in DOMAIN list /\ list[i].type = "CORRECTION_ISSUED"
  BY DEF Measured, OfType
<1>3. i \in DOMAIN more /\ j \in DOMAIN more /\ more[i] = list[i] /\ more[j] = list[j]
  BY <1>1, <1>2
<1>4. CorrectionLatency(list, i) = list[i].at - list[j].at
  BY <1>1, <1>2, LatencyIs
<1>5. /\ CorrectionLatency(more, i) = more[i].at - more[j].at
      /\ i \in Measured(more) <=> more[i].type = "CORRECTION_ISSUED" /\ more[j].at <= more[i].at
  BY <1>1, <1>3, LatencyIs
<1> QED
  BY <1>1, <1>2, <1>3, <1>4, <1>5

(* Fast corrections pay, in a longer list of events.                       *)
LEMMA VelocityPays ==
  ASSUME NEW list, NEW more, Unrepeated(list), Unrepeated(more),
         DOMAIN list \subseteq DOMAIN more, \A i \in DOMAIN list : more[i] = list[i],
         \A i \in Measured(more) \ Measured(list) :
           2 * CorrectionLatency(more, i)
             <= IF Measured(list) = {} THEN MaxVelocity ELSE TwiceMedian(CorrectionLatencies(list))
  PROVE  AtMost(CorrectionVelocity(list), CorrectionVelocity(more))
<1> DEFINE f == CorrectionLatencies(list)
           g == CorrectionLatencies(more)
           Score(t) == Fraction(Max({0, 2 * MaxVelocity - t}), 2 * MaxVelocity)
<1>1. /\ Naturals(f) /\ DOMAIN f = Measured(list)
      /\ Naturals(g) /\ DOMAIN g = Measured(more)
  BY LatenciesAre
<1>2. /\ \A i \in DOMAIN f : f[i] = CorrectionLatency(list, i)
      /\ \A i \in DOMAIN g : g[i] = CorrectionLatency(more, i)
  BY DEF CorrectionLatencies
<1>3. /\ CorrectionVelocity(list) = IF DOMAIN f = {} THEN Neutral ELSE Score(TwiceMedian(f))
      /\ CorrectionVelocity(more) = IF DOMAIN g = {} THEN Neutral ELSE Score(TwiceMedian(g))
  BY <1>1 DEF CorrectionVelocity
<1>4. \A i \in DOMAIN f : i \in DOMAIN g /\ g[i] = f[i]
  BY <1>1, <1>2, MeasuredStays
<1>5. \A i \in DOMAIN g \ DOMAIN f :
        2 * g[i] <= IF DOMAIN f = {} THEN MaxVelocity ELSE TwiceMedian(f)
  BY <1>1, <1>2
<1> HIDE DEF f, g
<1>6. CASE DOMAIN g = {}
  <2>1. DOMAIN f = {}
    BY <1>4, <1>6
  <2> QED
    BY <1>3, <1>6, <2>1 DEF AtMost, Neutral, Fraction
<1>7. CASE DOMAIN g # {} /\ DOMAIN f = {}
  <2>1. \A i \in DOMAIN g : 2 * g[i] <= MaxVelocity
    BY <1>5, <1>7
  <2>2. TwiceMedian(g) \in Nat /\ TwiceMedian(g) <= MaxVelocity
    BY <1>1, <1>7, <2>1, FirstMedianPays, MedianIs, VelocityAssumption
  <2>3. MaxVelocity \in Nat
    BY VelocityAssumption
  <2> QED
    BY <1>3, <1>7, <2>2, <2>3, FasterScoresNoLess
<1>8. CASE DOMAIN f # {}
  <2>1. DOMAIN g # {} /\ DOMAIN f \subseteq DOMAIN g
    BY <1>4, <1>8
  <2>2. TwiceMedian(g) \in Nat /\ TwiceMedian(f) \in Nat
    BY <1>1, <1>8, <2>1, MedianIs
  <2>3. \A i \in DOMAIN g \ DOMAIN f : 2 * g[i] <= TwiceMedian(f)
    BY <1>5, <1>8
  <2>4. TwiceMedian(g) <= TwiceMedian(f)
    BY <1>1, <1>4, <1>8, <2>1, <2>3, MedianPays
  <2> QED
    BY <1>3, <1>8, <2>1, <2>2, <2>4, FasterScoresNoLess
<1> QED
  BY <1>6, <1>7, <1>8

(* A step changes nothing of the events, or adds one to them.              *)
LEMMA EventsGrow ==
  ASSUME [CardNext]_cardVars
  PROVE  \/ events' = events
         \/ \E e \in Alphabet : events' = Append(events, e)
  BY DEF CardNext, Record, Judge, Compare, cardVars

(* Finishing sooner, correcting more and correcting faster never lower the *)
(* score that measures it: for every alphabet of events, every median and  *)
(* every number of corrections.                                            *)
THEOREM BetterWorkPays == CardSpec => BetterWorkScoresNoLess
<1>1. CardInv => SlowerIsNotMoreEfficient
  <2> SUFFICES ASSUME CardInv, NEW i \in OfType(events, {"SCENARIO_ENDED"})
               PROVE  AtMost(EfficiencyRatio([events EXCEPT ![i].at = @ + 1], files),
                             EfficiencyRatio(events, files))
    BY DEF SlowerIsNotMoreEfficient
  <2>1. events \in Seq(Alphabet) /\ files \in Baselines
    BY DEF CardInv, Inputs
  <2>2. \A j \in OfType(events, {"SCENARIO_ENDED"}) : j = i
    BY DEF CardInv, Distinct
  <2> QED
    BY <2>1, <2>2, SlowerEnd
<1>2. ASSUME CardInv, CardInv', [CardNext]_cardVars
      PROVE  /\ Unrepeated(events) /\ Unrepeated(events')
             /\ DOMAIN events \subseteq DOMAIN events'
             /\ \A i \in DOMAIN events : events'[i] = events[i]
  <2>1. Unrepeated(events) /\ Unrepeated(events')
    BY <1>2 DEF CardInv, Inputs, Distinct, Unrepeated
  <2>2. events \in Seq(Alphabet)
    BY <1>2 DEF CardInv, Inputs
  <2>3. \A e \in Alphabet : /\ DOMAIN events \subseteq DOMAIN Append(events, e)
                            /\ \A i \in DOMAIN events : Append(events, e)[i] = events[i]
    BY <2>2
  <2> QED
    BY <1>2, <2>1, <2>3, EventsGrow
<1>3. ASSUME CardInv, CardInv', [CardNext]_cardVars,
             \A i \in Measured(events') \ Measured(events) :
               2 * CorrectionLatency(events', i)
                 <= IF Measured(events) = {} THEN MaxVelocity
                    ELSE TwiceMedian(CorrectionLatencies(events))
      PROVE  AtMost(CorrectionVelocity(events), CorrectionVelocity(events'))
  BY <1>2, <1>3, VelocityPays
<1>4. ASSUME CardInv, [CardNext]_cardVars, events' # events
      PROVE  LET before == TrustCalibration(events)
                 after  == TrustCalibration(events')
                 type   == Last(events').type
             IN  /\ type = "CORRECTION_ISSUED" => AtMost(before, after)
                 /\ type = "AGENT_RESPONSE" /\ OfType(events, {"AGENT_RESPONSE"}) # {}
                      => AtMost(after, before)
                 /\ type \notin {"CORRECTION_ISSUED", "AGENT_RESPONSE"} => after = before
  <2>1. PICK e \in Alphabet : events' = Append(events, e)
    BY <1>4, EventsGrow
  <2>2. events \in Seq(Alphabet)
    BY <1>4 DEF CardInv, Inputs
  <2>3. Last(events') = e
    BY <2>1, <2>2 DEF Last
  <2> QED
    BY <2>1, <2>2, <2>3, MoreTrust
<1> QED
  BY <1>1, <1>3, <1>4, CardInvHolds, PTL
     DEF CardSpec, BetterWorkScoresNoLess, TrustFollowsOversight, FastCorrectionsPay

-----------------------------------------------------------------------------
(* Similarities are integers.                                              *)
LEMMA IntegersToo ==
  ASSUME similarity \in Seq(Similarities)
  PROVE  similarity \in Seq(Int)
<1>1. /\ \A n \in 1..Len(similarity) : similarity[n] \in Similarities
      /\ Len(similarity) \in Nat /\ similarity = [n \in 1..Len(similarity) |-> similarity[n]]
  OBVIOUS
<1>2. \A n \in 1..Len(similarity) : similarity[n] \in Int
  BY <1>1, SimilaritiesAssumption
<1>3. similarity \in [1..Len(similarity) -> Int]
  BY <1>1, <1>2
<1> QED
  BY <1>1, <1>3

(* The style is a plurality of the neighbours.                             *)
LEMMA PluralityHolds ==
  ASSUME similarity \in Seq(Int)
  PROVE  StyleIsPlurality
<1> DEFINE nearest  == {i \in DOMAIN similarity :
                          Cardinality({j \in DOMAIN similarity : Ahead(j, i)}) < K}
           voters(c) == {i \in nearest : Clusters[i] = c}
           style     == Classify(Clusters, similarity)
<1>1. nearest = Nearest(similarity)
  BY DEF Nearest, AheadOf, Nearer, Ahead
<1>2. \A c : voters(c) = Voters(Clusters, similarity, c)
  BY <1>1 DEF Voters
<1>3. \A i, j : Ahead(i, j) <=> Nearer(similarity, i, j)
  BY DEF Ahead, Nearer
<1>4. ASSUME NEW c, similarity # <<>>
      PROVE  \/ Cardinality(voters(c)) < Cardinality(voters(style))
             \/ /\ Cardinality(voters(c)) = Cardinality(voters(style))
                /\ \A i \in voters(c) : \E j \in voters(style) : j = i \/ Ahead(j, i)
  <2>1. PICK j \in DOMAIN similarity : Leads(Clusters, similarity, j) /\ style = Clusters[j]
    BY <1>4, ClassifyIs
  <2> HIDE DEF nearest, style
  <2>2. j \in Nearest(similarity)
    BY <2>1 DEF Leads
  <2>3. j \in voters(style)
    BY <1>2, <2>1, <2>2 DEF Voters
  <2> HIDE DEF voters
  <2>4. Len(similarity) \in Nat
    OBVIOUS
  <2>5. /\ Cardinality(voters(c)) = Count(Clusters, similarity, c)
        /\ Cardinality(voters(style)) = Count(Clusters, similarity, style)
        /\ Count(Clusters, similarity, c) \in Nat
        /\ Count(Clusters, similarity, style) \in Nat
        /\ Count(Clusters, similarity, style) # 0
    BY <1>2, <2>1, <2>2, <2>4, VotesAre DEF Count
  <2>6. CASE c = style
    BY <2>6 DEF voters
  <2>7. CASE c # style /\ Voters(Clusters, similarity, c) = {}
    <3>1. Count(Clusters, similarity, c) = 0
      BY <2>7, FS_EmptySet DEF Count
    <3> QED
      BY <2>5, <3>1
  <2>8. CASE c # style /\ Voters(Clusters, similarity, c) # {}
    <3>1. \A i \in Voters(Clusters, similarity, c) : i \in Nearest(similarity) /\ Clusters[i] = c
      BY DEF Voters
    <3>2. \A i \in Voters(Clusters, similarity, c) :
            \/ Count(Clusters, similarity, c) < Count(Clusters, similarity, style)
            \/ /\ Count(Clusters, similarity, c) = Count(Clusters, similarity, style)
               /\ Nearer(similarity, j, i)
      BY <2>1, <2>8, <3>1 DEF Leads
    <3> QED
      BY <1>2, <1>3, <2>3, <2>5, <2>8, <3>2
  <2> QED
    BY <2>6, <2>7, <2>8
<1> QED
  BY <1>4 DEF StyleIsPlurality

(* Coming closer never flips the style.                                    *)
LEMMA CloserHolds ==
  ASSUME similarity \in Seq(Similarities)
  PROVE  CloserNeverFlips
<1> SUFFICES ASSUME similarity # <<>>, NEW i \in DOMAIN similarity, NEW s \in Similarities,
                    Clusters[i] = Classify(Clusters, similarity), s > similarity[i]
             PROVE  Classify(Clusters, [similarity EXCEPT ![i] = s])
                      = Classify(Clusters, similarity)
  BY DEF CloserNeverFlips
<1> DEFINE closer == [similarity EXCEPT ![i] = s]
<1>1. similarity \in Seq(Int) /\ s \in Int
  BY IntegersToo, SimilaritiesAssumption
<1>2. PICK j \in DOMAIN similarity :
        Leads(Clusters, similarity, j) /\ Classify(Clusters, similarity) = Clusters[j]
  BY <1>1, ClassifyIs
<1>3. Leads(Clusters, closer, i) \/ Leads(Clusters, closer, j)
  BY <1>1, <1>2, CloserLeads
<1>4. closer \in Seq(Int) /\ closer # <<>>
  BY <1>1
<1> HIDE DEF closer
<1>5. PICK k : Leads(Clusters, closer, k) /\ Classify(Clusters, closer) = Clusters[k]
  BY <1>4, ClassifyIs
<1>6. Clusters[i] = Clusters[j]
  BY <1>2
<1>7. CASE Leads(Clusters, closer, i)
  <2>1. Clusters[k] = Clusters[i]
    BY ONLY <1>4, <1>5, <1>7, OneLeads
  <2> QED
    BY <1>2, <1>5, <1>6, <2>1 DEF closer
<1>8. CASE Leads(Clusters, closer, j)
  <2>1. Clusters[k] = Clusters[j]
    BY ONLY <1>4, <1>5, <1>8, OneLeads
  <2> QED
    BY <1>2, <1>5, <2>1 DEF closer
<1> QED
  BY <1>3, <1>7, <1>8

(* The style is that of the plurality of the nearest profiles, with the    *)
(* nearest one breaking a tie, and becoming more like a profile of one's   *)
(* own style never changes it.                                             *)
THEOREM StyleIsOfNeighbours == CardSpec => []StyleFollowsNeighbours
<1>1. CardInv => StyleFollowsNeighbours
  <2> SUFFICES ASSUME CardInv PROVE StyleFollowsNeighbours
    OBVIOUS
  <2>1. similarity \in Seq(Similarities)
    BY DEF CardInv, Inputs
  <2>2. similarity \in Seq(Int)
    BY <2>1, IntegersToo
  <2> QED
    BY <2>1, <2>2, PluralityHolds, CloserHolds DEF StyleFollowsNeighbours
<1> QED
  BY <1>1, CardInvHolds, PTL
=============================================================================
