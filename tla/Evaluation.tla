---------------------------- MODULE Evaluation ----------------------------
(***************************************************************************)
(* The DAG runs that evaluate one session: orchid_fingerprint_assembly     *)
(* with assemble_fingerprint, EmbeddingETL, the shadow agent and the graph *)
(* in Neo4j, and orchid_embedding_etl.  (Saving and delivering the result  *)
(* is FingerprintStore's and WebhookDelivery's part.)  Runs are started by *)
(* hand, with the events exported so far, and may overlap.                 *)
(*                                                                         *)
(* A run is known by the length upto of its export, a prefix of Recorded;  *)
(* its scores and its graph are functions of that prefix (SessionScores).  *)
(* Vectors are known by the events they were made of: point ids are        *)
(* derived from event ids, so an event has one point.  A task that raises  *)
(* (a model call, Qdrant, a database before or after its commit) or is     *)
(* killed is a run that takes no further step: DAG tasks are not retried.  *)
(***************************************************************************)
EXTENDS SessionScores

CONSTANTS Runs,         \* DAG runs
          Recorded,     \* the events of the session
          BatchSize,    \* batch_size of EmbeddingETL
          ScrollLimit,  \* limit of get_session_vectors
          Exports       \* how many events a run may be given

ASSUME RecordedAssumption == Recorded \in Seq(Range(Recorded))
ASSUME BatchAssumption == BatchSize \in Nat \ {0}
ASSUME ScrollAssumption == ScrollLimit \in Nat \ {0}
ASSUME ExportsAssumption == Exports \subseteq 0..Len(Recorded)

VARIABLES pc,        \* pc[r]: stage of the first task of run r
          kind,      \* kind[r]: "assembly", "skip_etl" or "etl"
          upto,      \* upto[r]: how many events it was given
          done,      \* done[r]: embeddable events whose batch was tried
          reported,  \* reported[r]: events counted in points_upserted
          clean,     \* clean[r]: ETLResult.errors is empty
          basis,     \* basis[r]: the vectors it classified on
          cluster,   \* cluster[r]: where style_cluster comes from, or None
          judged,    \* judged[r]: the shadow agent's answer could be parsed
          points,    \* Qdrant: the session's points
          neo,       \* neo[r]: task persist_to_neo4j
          graph      \* Neo4j: run of the Fingerprint node, relationships

runVars == <<pc, kind, upto, done, reported, clean, basis, cluster, judged>>
vars == <<runVars, points, neo, graph>>

Export(r) == SubSeq(Recorded, 1, upto[r])

AllEmbeddable == Embeddable(Recorded)

ToEmbed(r) == {i \in AllEmbeddable : i <= upto[r]}

Edges(r) == InteractionGraph(Export(r)).edges

Stages == {"idle", "etl", "upsert", "classify", "shadow", "report", "done"}

TypeOK ==
  /\ pc \in [Runs -> Stages]
  /\ kind \in [Runs -> {"assembly", "skip_etl", "etl"}]
  /\ upto \in [Runs -> 0..Len(Recorded)]
  /\ done \in [Runs -> SUBSET AllEmbeddable]
  /\ reported \in [Runs -> SUBSET AllEmbeddable]
  /\ clean \in [Runs -> BOOLEAN]
  /\ basis \in [Runs -> SUBSET AllEmbeddable]
  /\ cluster \in [Runs -> {"vectors", "shadow", None}]
  /\ judged \in [Runs -> BOOLEAN]
  /\ points \in SUBSET AllEmbeddable
  /\ neo \in [Runs -> {"waiting", "done"}]
  /\ graph.run \in Runs \cup {None}

Init ==
  /\ pc = [r \in Runs |-> "idle"]
  /\ kind = [r \in Runs |-> "assembly"]
  /\ upto = [r \in Runs |-> 0]
  /\ done = [r \in Runs |-> {}]
  /\ reported = [r \in Runs |-> {}]
  /\ clean = [r \in Runs |-> TRUE]
  /\ basis = [r \in Runs |-> {}]
  /\ cluster = [r \in Runs |-> None]
  /\ judged = [r \in Runs |-> FALSE]
  /\ points = {}
  /\ neo = [r \in Runs |-> "waiting"]
  /\ graph = [run |-> None, edges |-> <<>>]

Goto(r, stage) == pc' = [pc EXCEPT ![r] = stage]

StoresUnchanged == UNCHANGED <<neo, graph>>

(* A run is triggered with the first n events, of either DAG.              *)
Trigger(r, n, k) ==
  /\ pc[r] = "idle"
  /\ upto' = [upto EXCEPT ![r] = n]
  /\ kind' = [kind EXCEPT ![r] = k]
  /\ Goto(r, IF k = "skip_etl" THEN "classify" ELSE "etl")
  /\ UNCHANGED <<done, reported, clean, basis, cluster, judged, points>>
  /\ StoresUnchanged

-----------------------------------------------------------------------------
(* EmbeddingETL.process_session *)

(* The next BatchSize embeddable events, in the order of the export.       *)
Batches(r) ==
  {b \in SUBSET (ToEmbed(r) \ done[r]) :
     /\ Cardinality(b) = Min({BatchSize, Cardinality(ToEmbed(r) \ done[r])})
     /\ \A i \in b, j \in (ToEmbed(r) \ done[r]) \ b : i < j}

(* Variant: a batch that could not be embedded is not recorded as an error.*)
EmbedFailsQuietly(r, batch) ==
  /\ pc[r] = "etl"
  /\ done[r] # ToEmbed(r)
  /\ done' = [done EXCEPT ![r] = @ \cup batch]
  /\ UNCHANGED <<pc, kind, upto, reported, clean, basis, cluster, judged, points>>
  /\ StoresUnchanged

(* embed_batch raises: the error is noted, and the next batch begins.      *)
EmbedFails(r, batch) ==
  /\ pc[r] = "etl"
  /\ done[r] # ToEmbed(r)
  /\ done' = [done EXCEPT ![r] = @ \cup batch]
  /\ clean' = [clean EXCEPT ![r] = FALSE]
  /\ UNCHANGED <<pc, kind, upto, reported, basis, cluster, judged, points>>
  /\ StoresUnchanged

Embed(r) ==
  /\ pc[r] = "etl"
  /\ done[r] # ToEmbed(r)
  /\ Goto(r, "upsert")
  /\ UNCHANGED <<kind, upto, done, reported, clean, basis, cluster, judged, points>>
  /\ StoresUnchanged

(* Variant: the upsert replaces what the collection had.                   *)
UpsertReplaces(r, batch) ==
  /\ pc[r] = "upsert"
  /\ Goto(r, "etl")
  /\ points' = batch
  /\ done' = [done EXCEPT ![r] = @ \cup batch]
  /\ reported' = [reported EXCEPT ![r] = @ \cup batch]
  /\ UNCHANGED <<kind, upto, clean, basis, cluster, judged>>
  /\ StoresUnchanged

(* QdrantStore.upsert returns.                                             *)
Upsert(r, batch) ==
  /\ pc[r] = "upsert"
  /\ Goto(r, "etl")
  /\ points' = points \cup batch
  /\ done' = [done EXCEPT ![r] = @ \cup batch]
  /\ reported' = [reported EXCEPT ![r] = @ \cup batch]
  /\ UNCHANGED <<kind, upto, clean, basis, cluster, judged>>
  /\ StoresUnchanged

(* Variant: the points are counted before the upsert can raise.            *)
UpsertFailsCounted(r, batch) ==
  /\ pc[r] = "upsert"
  /\ Goto(r, "etl")
  /\ points' \in {points, points \cup batch}
  /\ done' = [done EXCEPT ![r] = @ \cup batch]
  /\ reported' = [reported EXCEPT ![r] = @ \cup batch]
  /\ clean' = [clean EXCEPT ![r] = FALSE]
  /\ UNCHANGED <<kind, upto, basis, cluster, judged>>
  /\ StoresUnchanged

(* It raises: the points were stored, and the answer was lost, or not.     *)
UpsertFails(r, batch) ==
  /\ pc[r] = "upsert"
  /\ Goto(r, "etl")
  /\ points' \in {points, points \cup batch}
  /\ done' = [done EXCEPT ![r] = @ \cup batch]
  /\ clean' = [clean EXCEPT ![r] = FALSE]
  /\ UNCHANGED <<kind, upto, reported, basis, cluster, judged>>
  /\ StoresUnchanged

(* The loop ends: the ETL's own DAG is over, an assembly goes on whatever  *)
(* the errors were.                                                        *)
EtlEnds(r) ==
  /\ pc[r] = "etl"
  /\ done[r] = ToEmbed(r)
  /\ Goto(r, IF kind[r] = "etl" THEN "done" ELSE "classify")
  /\ UNCHANGED <<kind, upto, done, reported, clean, basis, cluster, judged, points>>
  /\ StoresUnchanged

-----------------------------------------------------------------------------
(* assemble_fingerprint after the ETL *)

(* get_session_vectors: all points of the session, at most ScrollLimit.    *)
Scrolled ==
  IF Cardinality(points) <= ScrollLimit THEN {points}
  ELSE {s \in SUBSET points : Cardinality(s) = ScrollLimit}

(* The classifier runs if there is any vector of the session.              *)
ClassifySession(r, vectors) ==
  /\ pc[r] = "classify"
  /\ Goto(r, "shadow")
  /\ basis' = [basis EXCEPT ![r] = vectors]
  /\ cluster' = [cluster EXCEPT ![r] = IF vectors = {} THEN None ELSE "vectors"]
  /\ UNCHANGED <<kind, upto, done, reported, clean, judged, points>>
  /\ StoresUnchanged

(* Nothing to show, or an answer _parse_response cannot read: an empty     *)
(* result, without a mark, a trace or a cluster.                           *)
ShadowEmpty(r) ==
  /\ pc[r] = "shadow"
  /\ Goto(r, "report")
  /\ UNCHANGED <<kind, upto, done, reported, clean, basis, cluster, judged, points>>
  /\ StoresUnchanged

(* Variant: the shadow agent has the last word.                            *)
ShadowAnswersLast(r, style) ==
  /\ pc[r] = "shadow"
  /\ ShadowTranscript(Export(r)) # <<>>
  /\ Goto(r, "report")
  /\ judged' = [judged EXCEPT ![r] = TRUE]
  /\ cluster' = [cluster EXCEPT ![r] = style]
  /\ UNCHANGED <<kind, upto, done, reported, clean, basis, points>>
  /\ StoresUnchanged

(* A readable answer, with or without a style_cluster, which only counts   *)
(* if the classifier found none.                                           *)
ShadowAnswers(r, style) ==
  /\ pc[r] = "shadow"
  /\ ShadowTranscript(Export(r)) # <<>>
  /\ Goto(r, "report")
  /\ judged' = [judged EXCEPT ![r] = TRUE]
  /\ cluster' = [cluster EXCEPT ![r] = IF @ = None THEN style ELSE @]
  /\ UNCHANGED <<kind, upto, done, reported, clean, basis, points>>
  /\ StoresUnchanged

(* The report is written, and the fingerprint goes to the two tasks.       *)
Report(r) ==
  /\ pc[r] = "report"
  /\ Goto(r, "done")
  /\ UNCHANGED <<kind, upto, done, reported, clean, basis, cluster, judged, points>>
  /\ StoresUnchanged

Assembled(r) == pc[r] = "done" /\ kind[r] # "etl"

(* OrchestraFingerprint.is_complete: assemble_fingerprint sets all scores. *)
IsComplete(r) == Assembled(r) /\ cluster[r] # None

-----------------------------------------------------------------------------
(* persist_to_neo4j; persist_to_postgres is in FingerprintStore *)

(* Variant: SET only when MERGE creates the relationship.                  *)
MergedOnCreate(r) ==
  [run   |-> r,
   edges |-> [key \in DOMAIN Edges(r) \cup DOMAIN graph.edges |->
                IF key \in DOMAIN graph.edges THEN graph.edges[key] ELSE Edges(r)[key]]]

(* MERGE keeps what is there and SET overwrites the counts: relationships  *)
(* the fingerprint has not keep those of an earlier run.                   *)
Merged(r) ==
  [run   |-> r,
   edges |-> [key \in DOMAIN Edges(r) \cup DOMAIN graph.edges |->
                IF key \in DOMAIN Edges(r) THEN Edges(r)[key] ELSE graph.edges[key]]]

(* One transaction, which execute_write repeats after transient errors.    *)
(* The transactions of two runs are taken one after the other: MERGE does  *)
(* not promise that for nodes no uniqueness constraint covers, and none is *)
(* declared, so two first runs at once could also make two nodes.          *)
PersistGraph(r) ==
  /\ Assembled(r)
  /\ neo[r] = "waiting"
  /\ graph' = Merged(r)
  /\ neo' = [neo EXCEPT ![r] = "done"]
  /\ UNCHANGED <<runVars, points>>

-----------------------------------------------------------------------------
RunStep(r) ==
  \/ \E n \in Exports, k \in {"assembly", "skip_etl", "etl"} : Trigger(r, n, k)
  \/ \E batch \in Batches(r) : \/ EmbedFails(r, batch)
                               \/ Upsert(r, batch)
                               \/ UpsertFails(r, batch)
  \/ Embed(r) \/ EtlEnds(r)
  \/ \E vectors \in Scrolled : ClassifySession(r, vectors)
  \/ ShadowEmpty(r) \/ \E style \in {"shadow", None} : ShadowAnswers(r, style)
  \/ Report(r) \/ PersistGraph(r)

Next == \E r \in Runs : RunStep(r)

Spec == Init /\ [][Next]_vars

-----------------------------------------------------------------------------
(* A run whose ETL reported no error was classified on every embeddable    *)
(* event of its export (or on as many vectors as Qdrant returns at once),  *)
(* whatever other runs did to the same points meanwhile.                   *)
CleanRunSeesItsExport ==
  \A r \in Runs :
    (kind[r] = "assembly" /\ clean[r] /\ pc[r] \in {"shadow", "report", "done"})
      => ToEmbed(r) \subseteq basis[r] \/ Cardinality(basis[r]) = ScrollLimit

(* ETLResult counts nothing that is not in Qdrant, and all of the export   *)
(* when it has no error.                                                   *)
EtlReportIsTrue ==
  \A r \in Runs :
    /\ reported[r] \subseteq points
    /\ (clean[r] /\ pc[r] # "idle" /\ done[r] = ToEmbed(r)) => reported[r] = ToEmbed(r)

(* A clean ETL means what it says, to its caller and to the classifier.    *)
CleanEtlIsComplete == CleanRunSeesItsExport /\ EtlReportIsTrue

(* A fingerprint has the classifier's style exactly if there was a vector, *)
(* and is incomplete only if there was none: never after a clean ETL with  *)
(* something to embed.                                                     *)
StyleHasASource ==
  \A r \in Runs : Assembled(r) =>
    /\ cluster[r] = "vectors" <=> basis[r] # {}
    /\ cluster[r] = "shadow" => judged[r]
    /\ (~IsComplete(r) /\ kind[r] = "assembly" /\ clean[r]) => ToEmbed(r) = {}

(* The graph shows every relationship of the run its Fingerprint node is   *)
(* from with that run's counts; what else it has was left by a run with a  *)
(* longer export.                                                          *)
GraphIsOfItsRun ==
  graph.run # None =>
    /\ \A key \in DOMAIN Edges(graph.run) :
         key \in DOMAIN graph.edges /\ graph.edges[key] = Edges(graph.run)[key]
    /\ \A key \in DOMAIN graph.edges \ DOMAIN Edges(graph.run) :
         \E r \in Runs : upto[r] > upto[graph.run] /\ graph.edges[key] = Edges(r)[key]

(* A run that classifies after another is based on no less than that one,  *)
(* unless Qdrant's limit cuts it off.                                      *)
RerunsSeeNoLess ==
  [][\A r \in Runs : (pc[r] = "classify" /\ pc'[r] = "shadow") =>
       \A q \in Runs : basis[q] \subseteq basis'[r] \/ Cardinality(basis'[r]) = ScrollLimit]_vars
=============================================================================
