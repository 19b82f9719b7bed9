--------------------------- MODULE SessionScores ---------------------------
(***************************************************************************)
(* What the evaluator computes from the events of a session, without a     *)
(* model or a database: three of the scores of scoring.py (the other two   *)
(* are in Scoring and DecompositionScore), the interaction graph, the      *)
(* events that are embedded or shown to the shadow agent, and the vote of  *)
(* the style classifier.                                                   *)
(*                                                                         *)
(* An event has an id, a type, a timestamp at, the agent, error, text and  *)
(* latency of its payload and, in a correction, ref, the id of the         *)
(* response it corrects.  None stands for a key the payload has not.  A    *)
(* score is the fraction num over den; rounding to four digits, which no   *)
(* order of scores depends on, is left out.                                *)
(***************************************************************************)
EXTENDS Scoring, SequencesExt

CONSTANTS None,         \* a value that is not there
          MaxVelocity,  \* _MAX_VELOCITY_SEC, in clock ticks
          K             \* _K, the neighbours that vote

ASSUME NoneAssumption == None \notin Nat \cup {"vectors", "shadow"}
ASSUME VelocityAssumption == MaxVelocity \in Nat \ {0}
ASSUME NeighboursAssumption == K \in Nat \ {0}

Fraction(n, d) == [num |-> n, den |-> d]
Neutral == Fraction(1, 2)
Zero    == Fraction(0, 1)
One     == Fraction(1, 1)

AtMost(a, b) == a.num * b.den <= b.num * a.den

OfType(events, types) == {i \in DOMAIN events : events[i].type \in types}

-----------------------------------------------------------------------------
(* efficiency_ratio *)

(* _load_baseline_duration: of the files that may hold the baseline, the   *)
(* first that exists and can be read.                                      *)
BaselineDuration(files) ==
  LET usable == {i \in DOMAIN files : files[i] # None}
  IN  IF usable = {} THEN None ELSE files[Min(usable)]

(* _session_time_bounds: the time of the first event of the type.          *)
TimeOf(events, type) ==
  LET found == OfType(events, {type})
  IN  IF found = {} THEN None ELSE events[Min(found)].at

(* Variants: a session without a measurable duration is divided by it, or  *)
(* counts as unknown.                                                      *)
EfficiencyRatioUnguarded(events, files) ==
  LET baseline == BaselineDuration(files)
      started  == TimeOf(events, "SCENARIO_STARTED")
      ended    == TimeOf(events, "SCENARIO_ENDED")
  IN  IF None \in {baseline, started, ended} THEN Neutral
      ELSE Fraction(Min({baseline, ended - started}), ended - started)

EfficiencyRatioNeutralOnZero(events, files) ==
  LET baseline == BaselineDuration(files)
      started  == TimeOf(events, "SCENARIO_STARTED")
      ended    == TimeOf(events, "SCENARIO_ENDED")
  IN  IF None \in {baseline, started, ended} \/ ended <= started THEN Neutral
      ELSE Fraction(Min({baseline, ended - started}), ended - started)

(* How fast the baseline agent was in comparison, one at most; neutral     *)
(* when either duration is unknown.                                        *)
EfficiencyRatio(events, files) ==
  LET baseline == BaselineDuration(files)
      started  == TimeOf(events, "SCENARIO_STARTED")
      ended    == TimeOf(events, "SCENARIO_ENDED")
  IN  IF None \in {baseline, started, ended} THEN Neutral
      ELSE IF ended <= started THEN One
      ELSE Fraction(Min({baseline, ended - started}), ended - started)

-----------------------------------------------------------------------------
(* trust_calibration *)

(* In tenths. *)
ErrorSeverity ==
  [hallucinated_column_name |-> 10, hallucinated_table_name |-> 10, hallucinated_value |-> 9,
   scope_overreach |-> 8, unauthorized_scope_expansion |-> 8, wrong_api |-> 7,
   over_engineered |-> 5, clarification_flood |-> 4]

(* _DEFAULT_SEVERITY is that of an unknown or missing error.               *)
Severity(error) == IF error \in DOMAIN ErrorSeverity THEN ErrorSeverity[error] ELSE 6

(* Variant: the mean severity of the corrections.                          *)
TrustCalibrationAverage(events) ==
  LET full   == 10 * Cardinality(OfType(events, {"CORRECTION_ISSUED"}))
      weight == SumFunction([i \in OfType(events, {"CORRECTION_ISSUED"}) |->
                               Severity(events[i].error)])
  IN  IF full = 0 THEN Zero ELSE Fraction(Min({weight, full}), full)

(* The severity of all corrections per response, one at most.              *)
TrustCalibration(events) ==
  LET full   == 10 * Cardinality(OfType(events, {"AGENT_RESPONSE"}))
      weight == SumFunction([i \in OfType(events, {"CORRECTION_ISSUED"}) |->
                               Severity(events[i].error)])
  IN  IF full = 0 THEN Zero ELSE Fraction(Min({weight, full}), full)

-----------------------------------------------------------------------------
(* correction_velocity *)

(* Variant: a response is only looked up among the events before.          *)
MeasuredInList(events) ==
  {i \in OfType(events, {"CORRECTION_ISSUED"}) :
     \E j \in DOMAIN events : /\ j < i
                              /\ events[j].id = events[i].ref
                              /\ events[j].at <= events[i].at}

(* The corrections whose response is known and is not later than they are. *)
Measured(events) ==
  {i \in OfType(events, {"CORRECTION_ISSUED"}) :
     \E j \in DOMAIN events : /\ events[j].id = events[i].ref
                              /\ events[j].at <= events[i].at}

CorrectionLatency(events, i) ==
  LET original == CHOOSE j \in DOMAIN events : events[j].id = events[i].ref
  IN  events[i].at - events[original].at

CorrectionLatencies(events) == [i \in Measured(events) |-> CorrectionLatency(events, i)]

(* The value with fewer than n smaller ones and n that are not greater:    *)
(* the n-th of the sorted values.                                          *)
Ordered(values, n) ==
  CHOOSE x \in Range(values) :
    /\ Cardinality({i \in DOMAIN values : values[i] < x}) < n
    /\ n <= Cardinality({i \in DOMAIN values : values[i] <= x})

(* Variant: the values are not sorted, but in the order of the list.       *)
TwiceMedianUnsorted(values) ==
  LET n == Cardinality(DOMAIN values)
      places == [i \in DOMAIN values |-> i]
  IN  values[Ordered(places, (n + 1) \div 2)] + values[Ordered(places, (n \div 2) + 1)]

(* statistics.median, doubled: the sum of the two middle ones, which are   *)
(* the same when the number is odd.                                        *)
TwiceMedian(values) ==
  LET n == Cardinality(DOMAIN values)
  IN  Ordered(values, (n + 1) \div 2) + Ordered(values, (n \div 2) + 1)

(* 1 - median latency / MaxVelocity, not below 0; neutral when there is    *)
(* nothing to measure.                                                     *)
CorrectionVelocity(events) ==
  IF Measured(events) = {} THEN Neutral
  ELSE Fraction(Max({0, 2 * MaxVelocity - TwiceMedian(CorrectionLatencies(events))}),
                2 * MaxVelocity)

-----------------------------------------------------------------------------
(* decomposition_score: the mean of the shadow agent's marks, each a sum   *)
(* of three dimensions between 0 and 10.                                   *)
DecompositionScore(marks) ==
  IF marks = <<>> THEN Zero
  ELSE LET full == 30 * Len(marks)
       IN  Fraction(Min({SumFunction(marks), full}), full)

-----------------------------------------------------------------------------
(* build_interaction_graph *)

Human == "human"

Endpoints(event) ==
  IF event.type = "AGENT_RESPONSE" THEN <<event.agent, Human>> ELSE <<Human, event.agent>>

NoContact == [messages |-> 0, corrections |-> 0, latency |-> 0, measured |-> 0]

Contact(rec, event) ==
  IF event.type = "CORRECTION_ISSUED" THEN [rec EXCEPT !.corrections = @ + 1]
  ELSE IF event.type = "PROMPT_SENT" \/ event.latency = None THEN [rec EXCEPT !.messages = @ + 1]
  ELSE [rec EXCEPT !.messages = @ + 1, !.latency = @ + event.latency, !.measured = @ + 1]

(* Variant: an edge starts anew at every correction.                       *)
AddEventForgetful(graph, event) ==
  LET key == Endpoints(event)
      rec == IF key \in DOMAIN graph.edges /\ event.type # "CORRECTION_ISSUED"
               THEN graph.edges[key] ELSE NoContact
  IN  IF event.agent = None THEN graph
      ELSE [nodes |-> graph.nodes \cup {event.agent},
            edges |-> IF event.type \in {"PROMPT_SENT", "AGENT_RESPONSE", "CORRECTION_ISSUED"}
                        THEN [k \in DOMAIN graph.edges \cup {key} |->
                                IF k = key THEN Contact(rec, event) ELSE graph.edges[k]]
                        ELSE graph.edges]

(* One turn of the loop: the agent becomes a node, the contact is added to *)
(* the edge of its direction, which setdefault makes when it is new.       *)
AddEvent(graph, event) ==
  LET key == Endpoints(event)
      rec == IF key \in DOMAIN graph.edges THEN graph.edges[key] ELSE NoContact
  IN  IF event.agent = None THEN graph
      ELSE [nodes |-> graph.nodes \cup {event.agent},
            edges |-> IF event.type \in {"PROMPT_SENT", "AGENT_RESPONSE", "CORRECTION_ISSUED"}
                        THEN [k \in DOMAIN graph.edges \cup {key} |->
                                IF k = key THEN Contact(rec, event) ELSE graph.edges[k]]
                        ELSE graph.edges]

InteractionGraph(events) ==
  FoldLeft(AddEvent, [nodes |-> {Human}, edges |-> <<>>], events)

-----------------------------------------------------------------------------
(* What is embedded, and what the shadow agent sees. *)

(* extract_embeddable_text: prompts and corrections with a text.           *)
Embeddable(events) ==
  {i \in OfType(events, {"PROMPT_SENT", "CORRECTION_ISSUED"}) : events[i].text # None}

(* _build_transcript: every prompt and correction, never an answer.        *)
ShadowTranscript(events) ==
  SelectSeq(events, LAMBDA e : e.type \in {"PROMPT_SENT", "CORRECTION_ISSUED"})

-----------------------------------------------------------------------------
(* StyleClassifier.classify, over the profiles in the order of their files *)
(* and their similarity to the session.                                    *)

Nearer(similarity, i, j) ==
  similarity[i] > similarity[j] \/ (similarity[i] = similarity[j] /\ i < j)

(* Variant: sort() without reverse.                                        *)
RankedAscending(similarity) ==
  [n \in DOMAIN similarity |->
     CHOOSE i \in DOMAIN similarity :
       Cardinality({j \in DOMAIN similarity : similarity[j] < similarity[i]
                                              \/ (similarity[j] = similarity[i] /\ j < i)}) = n - 1]

(* The stable sort, most similar first: n - 1 are before the n-th.         *)
Ranked(similarity) ==
  [n \in DOMAIN similarity |->
     CHOOSE i \in DOMAIN similarity :
       Cardinality({j \in DOMAIN similarity : Nearer(similarity, j, i)}) = n - 1]

Neighbours(similarity) ==
  SubSeq(Ranked(similarity), 1, Min({K, Len(similarity)}))

Votes(clusters, voters, cluster) ==
  Cardinality({n \in DOMAIN voters : clusters[voters[n]] = cluster})

(* Variant: of equals, the cluster that was counted last wins.             *)
ClassifyLast(clusters, similarity) ==
  LET voters == Neighbours(similarity)
      won(n) == \A m \in DOMAIN voters :
                  Votes(clusters, voters, clusters[voters[n]])
                    >= Votes(clusters, voters, clusters[voters[m]])
  IN  clusters[voters[Max({n \in DOMAIN voters : won(n)})]]

(* max over a dictionary in order of insertion: of the clusters with most  *)
(* votes the one whose first voter is nearest.                             *)
Classify(clusters, similarity) ==
  LET voters == Neighbours(similarity)
      won(n) == \A m \in DOMAIN voters :
                  Votes(clusters, voters, clusters[voters[n]])
                    >= Votes(clusters, voters, clusters[voters[m]])
  IN  clusters[voters[Min({n \in DOMAIN voters : won(n)})]]
=============================================================================
