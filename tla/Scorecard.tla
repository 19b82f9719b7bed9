----------------------------- MODULE Scorecard -----------------------------
(***************************************************************************)
(* The inputs of an evaluation, growing one by one in every order they may *)
(* have: events as the topics deliver them, the marks the shadow agent     *)
(* gives, the similarity of one benchmark profile after the other.  The    *)
(* properties compare what SessionScores makes of the inputs before and    *)
(* after a step, or of two orders of the same inputs.                      *)
(*                                                                         *)
(* Timestamps are those TelemetryEvent wrote: they can be parsed and have  *)
(* a time zone.                                                            *)
(***************************************************************************)
EXTENDS SessionScores

CONSTANTS Alphabet,     \* the events there may be
          Baselines,    \* what the baseline files may hold
          Marks,        \* the sums of three dimensions
          Similarities,
          Clusters,     \* the style cluster of each profile, by file name
          MaxInputs

ASSUME AlphabetAssumption ==
  \A e \in Alphabet :
    /\ DOMAIN e = {"id", "type", "at", "agent", "ref", "error", "text", "latency"}
    /\ e.at \in Nat /\ e.latency \in Nat \cup {None}
ASSUME BaselinesAssumption == Baselines \subseteq Seq(Nat \cup {None})
ASSUME MarksAssumption == Marks \subseteq Nat
ASSUME SimilaritiesAssumption == Similarities \subseteq Int
ASSUME ClustersAssumption == Clusters \in Seq(Range(Clusters))
ASSUME InputsAssumption == MaxInputs \in Nat

VARIABLES events,      \* in the order of their arrival
          files,       \* the durations in the baseline files
          marks,       \* one per prompt the shadow agent scored
          similarity   \* of the session to the first profiles

cardVars == <<events, files, marks, similarity>>

(* Each of the five scores is a number between 0 and 1 and defined:        *)
(* whatever is missing or zero (no response, no latency, no duration, no   *)
(* mark, no chaos or nothing done about it), nothing is divided by zero    *)
(* and no cap is forgotten.                                                *)
EveryScoreIsAFraction ==
  \A score \in {EfficiencyRatio(events, files), TrustCalibration(events),
                CorrectionVelocity(events), DecompositionScore(marks),
                Fraction(ChaosResilience(events), ScoreUnit)} :
    score.den > 0 /\ score.num \in 0..score.den

(* The inputs are what the DAG gives, and every score they lead to is one. *)
CardTypeOK ==
  /\ events \in Seq(Alphabet)
  /\ files \in Baselines
  /\ marks \in Seq(Marks)
  /\ similarity \in Seq(Similarities)
  /\ Len(similarity) <= Len(Clusters)
  /\ Len(events) + Len(marks) + Len(similarity) <= MaxInputs
  /\ Cardinality({events[i].id : i \in DOMAIN events}) = Len(events)
  /\ EveryScoreIsAFraction

CardInit ==
  /\ events = <<>>
  /\ files \in Baselines
  /\ marks = <<>>
  /\ similarity = <<>>

Room == Len(events) + Len(marks) + Len(similarity) < MaxInputs

(* An event arrives.  A session starts once and, by EndAnnouncedOnce of    *)
(* SessionApi, ends at most once.                                          *)
Record(e) ==
  /\ Room
  /\ \A j \in DOMAIN events : events[j].id # e.id
  /\ e.type \in {"SCENARIO_STARTED", "SCENARIO_ENDED"} => OfType(events, {e.type}) = {}
  /\ events' = Append(events, e)
  /\ UNCHANGED <<files, marks, similarity>>

Judge(mark) ==
  /\ Room
  /\ marks' = Append(marks, mark)
  /\ UNCHANGED <<events, files, similarity>>

Compare(s) ==
  /\ Room
  /\ Len(similarity) < Len(Clusters)
  /\ similarity' = Append(similarity, s)
  /\ UNCHANGED <<events, files, marks>>

CardNext ==
  \/ \E e \in Alphabet : Record(e)
  \/ \E mark \in Marks : Judge(mark)
  \/ \E s \in Similarities : Compare(s)

CardSpec == CardInit /\ [][CardNext]_cardVars

-----------------------------------------------------------------------------
SwapNext(i) ==
  [j \in DOMAIN events |-> IF j = i THEN events[i + 1]
                           ELSE IF j = i + 1 THEN events[i] ELSE events[j]]

(* Exchanging two neighbours changes no score and no edge.  All sequences  *)
(* are reachable, so this says that the order of arrival, which differs    *)
(* from the order of the timestamps when topics are merged, is irrelevant. *)
ArrivalOrderIsIrrelevant ==
  \A i \in 1..(Len(events) - 1) :
    /\ EfficiencyRatio(SwapNext(i), files) = EfficiencyRatio(events, files)
    /\ TrustCalibration(SwapNext(i)) = TrustCalibration(events)
    /\ CorrectionVelocity(SwapNext(i)) = CorrectionVelocity(events)
    /\ InteractionGraph(SwapNext(i)) = InteractionGraph(events)

(* Whoever takes longer for the same scenario does not score higher, not   *)
(* even at the edges where the ratio is capped or the duration is zero.    *)
SlowerIsNotMoreEfficient ==
  \A i \in OfType(events, {"SCENARIO_ENDED"}) :
    AtMost(EfficiencyRatio([events EXCEPT ![i].at = @ + 1], files),
           EfficiencyRatio(events, files))

(* The graph the loop builds has exactly the edges with a contact, between *)
(* nodes it has, and counts each prompt, answer, correction and latency    *)
(* once, on the edge of its agent and direction.                           *)
GraphAccountsForEvents ==
  LET graph == InteractionGraph(events)
      contacts(type, key) == {i \in OfType(events, {type}) :
                                events[i].agent # None /\ Endpoints(events[i]) = key}
      measured(key) == {i \in contacts("AGENT_RESPONSE", key) : events[i].latency # None}
      touched == {key \in graph.nodes \X graph.nodes :
                    \E type \in {"PROMPT_SENT", "AGENT_RESPONSE", "CORRECTION_ISSUED"} :
                      contacts(type, key) # {}}
  IN  /\ DOMAIN graph.edges = touched
      /\ \A i \in DOMAIN events : events[i].agent \in graph.nodes \cup {None}
      /\ \A key \in touched :
           graph.edges[key] =
             [messages    |-> Cardinality(contacts("PROMPT_SENT", key)
                                \cup contacts("AGENT_RESPONSE", key)),
              corrections |-> Cardinality(contacts("CORRECTION_ISSUED", key)),
              latency     |-> SumFunction([i \in measured(key) |-> events[i].latency]),
              measured    |-> Cardinality(measured(key))]

Ahead(i, j) == similarity[i] > similarity[j] \/ (similarity[i] = similarity[j] /\ i < j)

(* The cluster has the most votes among the K nearest profiles, and of     *)
(* clusters with as many votes it has the nearest profile.                 *)
StyleIsPlurality ==
  LET nearest  == {i \in DOMAIN similarity :
                     Cardinality({j \in DOMAIN similarity : Ahead(j, i)}) < K}
      voters(c) == {i \in nearest : Clusters[i] = c}
      count(c)  == Cardinality(voters(c))
      style     == Classify(Clusters, similarity)
  IN  similarity # <<>> =>
        \A c \in Range(Clusters) :
          \/ count(c) < count(style)
          \/ /\ count(c) = count(style)
             /\ \A i \in voters(c) : \E j \in voters(style) : j = i \/ Ahead(j, i)

(* Becoming more like a profile of one's own style never changes the style.*)
CloserNeverFlips ==
  similarity # <<>> =>
    LET style == Classify(Clusters, similarity)
    IN  \A i \in DOMAIN similarity : \A s \in Similarities :
          (Clusters[i] = style /\ s > similarity[i])
            => Classify(Clusters, [similarity EXCEPT ![i] = s]) = style

(* The style is that of the neighbours, and firmer the nearer they are.    *)
StyleFollowsNeighbours == StyleIsPlurality /\ CloserNeverFlips

(* A correction never lowers trust_calibration; a further answer never     *)
(* raises it; nothing else changes it.  The first answer is the exception: *)
(* it may arrive after corrections, which counted for nothing until then.  *)
TrustFollowsOversight ==
  [][LET before == TrustCalibration(events)
         after  == TrustCalibration(events')
         type   == Last(events').type
     IN  events' # events =>
           /\ type = "CORRECTION_ISSUED" => AtMost(before, after)
           /\ type = "AGENT_RESPONSE" /\ OfType(events, {"AGENT_RESPONSE"}) # {}
                => AtMost(after, before)
           /\ type \notin {"CORRECTION_ISSUED", "AGENT_RESPONSE"} => after = before]_cardVars

(* If all that an event makes measurable was corrected at least as fast as *)
(* the median so far (as half of MaxVelocity, when nothing was measured),  *)
(* correction_velocity does not fall, whether the event is the correction  *)
(* or the answer it corrects.                                              *)
FastCorrectionsPay ==
  [][LET known == CorrectionLatencies(events)
         bar   == IF Measured(events) = {} THEN MaxVelocity ELSE TwiceMedian(known)
     IN  (\A i \in Measured(events') \ Measured(events) :
            2 * CorrectionLatency(events', i) <= bar)
           => AtMost(CorrectionVelocity(events), CorrectionVelocity(events'))]_cardVars

(* Finishing sooner, correcting more and correcting faster never lower the *)
(* score that measures it.                                                 *)
BetterWorkScoresNoLess ==
  []SlowerIsNotMoreEfficient /\ TrustFollowsOversight /\ FastCorrectionsPay
=============================================================================
