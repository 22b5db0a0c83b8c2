--------------------------- MODULE BatchEvaluation ---------------------------
(***************************************************************************)
(* evaluation.rs and benchmark.rs: a batch of topics is answered, checked  *)
(* against a second executor and measured against relevance judgments, and *)
(* becomes a run and a report; a benchmark checks every executor.  The     *)
(* executors (RankedRetrieval, ShardedIndex) are abstracted to what they   *)
(* answer; one of them may be faulty, so that checking shows.  Quotients   *)
(* are integers in units of 1 / Whole.                                     *)
(***************************************************************************)
EXTENDS Integers, FiniteSets, SequencesExt

CONSTANTS
  Cases,     \* the batches and benchmarks: [benchmark, topics, config, judged, answers]
  Documents, \* external identifiers
  Discount,  \* Discount[r]: the weight of rank r (1 / log2 of r + 1)
  Whole      \* the number 1

VARIABLES
  case,      \* the batch (constant)
  step,      \* what is due
  position,  \* topics done, of the current pass
  queries,   \* the QueryReports so far, or the answers of the exhaustive pass
  sums,      \* benchmark: what the checksums cover, [wand, sharded]
  aggregate  \* mean metrics

batchVars == <<case, step, position, queries, sums, aggregate>>

Pruned == {"Wand", "BlockMaxWand", "MaxScore", "BlockMaxMaxScore"}
Answer(executor, topic) == case.answers[executor][topic.text]
Failed == <<[doc |-> "error", score |-> "none"]>>  \* an executor returns an error

Executors == Pruned \union {"Exhaustive", "sharded"}

\* Weights decrease; Whole is a multiple of the ranks.
ASSUME RanksAssumption ==
  /\ Discount \in Seq(Nat) /\ Whole \in Nat \ {0}
  /\ \A r \in DOMAIN Discount :
       Whole % r = 0 /\ \A s \in DOMAIN Discount : r < s => Discount[s] <= Discount[r]

\* Every executor answers every text that is not empty, with known documents, and
\* there are weights up to the last rank.
ASSUME CasesAssumption ==
  /\ IsFiniteSet(Documents)
  /\ \A c \in Cases :
       /\ c.topics \in Seq(ToSet(c.topics))
       /\ c.config.top_k \in 0 .. Len(Discount) /\ c.config.strategy \in Executors
       /\ c.config.judged => \A topic \in ToSet(c.topics) : \A d \in Documents :
            c.judged[topic.id][d] \in Int
       /\ DOMAIN c.answers = Executors
       /\ \A e \in Executors : \A topic \in ToSet(c.topics) : topic.text /= "" =>
            LET hits == c.answers[e][topic.text]
            IN  hits = Failed \/ (hits \in Seq(ToSet(hits)) /\ \A hit \in ToSet(hits) : hit.doc \in Documents)

-----------------------------------------------------------------------------
\* Metrics of one query.
Ratio(a, b) == IF b = 0 THEN 0 ELSE (a * Whole) \div b

Power[n \in Nat] == IF n = 0 THEN 1 ELSE 2 * Power[n - 1]

Gain(relevance, rank) == IF relevance <= 0 THEN 0 ELSE (Power[relevance] - 1) * Discount[rank]

Take(seq, n) == SubSeq(seq, 1, IF Len(seq) < n THEN Len(seq) ELSE n)

\* The loop over the hits: one rank after the other.
NoHits == [retrieved |-> 0, precisions |-> 0, reciprocal |-> 0, dcg |-> 0]

AfterHit(m, relevance, rank) ==
  LET retrieved == m.retrieved + (IF relevance > 0 THEN 1 ELSE 0)
  IN  [retrieved |-> retrieved,
       precisions |-> m.precisions + (IF relevance > 0 THEN Ratio(retrieved, rank) ELSE 0),
       reciprocal |-> IF relevance > 0 /\ m.reciprocal = 0 THEN Ratio(1, rank) ELSE m.reciprocal,
       dcg |-> m.dcg + Gain(relevance, rank)]

Rank(judged, hits) ==
  LET m[r \in 0 .. Len(hits)] ==
        IF r = 0 THEN NoHits ELSE AfterHit(m[r - 1], judged[hits[r].doc], r)
  IN  m[Len(hits)]

Relevant(judged) == {d \in Documents : judged[d] > 0}

\* sort_unstable_by: documents of the same relevance in any order.
Descending(judged) ==
  LET relevant == Relevant(judged)
  IN  CHOOSE order \in [1 .. Cardinality(relevant) -> relevant] :
        IsInjective(order) /\ \A i, j \in DOMAIN order : i < j => judged[order[i]] >= judged[order[j]]

IdealDcg(judged, cutoff) ==
  LET ideal == Take(Descending(judged), cutoff)
  IN  SumFunction([i \in DOMAIN ideal |-> Gain(judged[ideal[i]], i)])

\* metrics_for.
Metrics(judged, hits, cutoff) ==
  LET m == Rank(judged, Take(hits, cutoff))
      total == Cardinality(Relevant(judged))
  IN  [precision |-> IF total = 0 THEN 0 ELSE m.precisions \div total,
       reciprocal |-> m.reciprocal,
       ndcg |-> Ratio(m.dcg, IdealDcg(judged, cutoff)),
       recall |-> Ratio(m.retrieved, total)]

-----------------------------------------------------------------------------
\* Mutant of Oracle: the selected executor is compared with itself.
OracleSelf(executor) == executor

\* The executor a batch is checked against.
Oracle(executor) == IF executor = "Exhaustive" THEN "Wand" ELSE "Exhaustive"

\* evaluate_batch: its checks of options and topics.
IsBatch ==
  LET topics == case.topics
  IN  /\ topics /= <<>>
      /\ case.config.top_k > 0
      /\ case.config.model = "Bm25" \/ (case.config.strategy = "Exhaustive" /\ ~case.config.verify)
      /\ \A i \in DOMAIN topics :
           /\ topics[i].id /= "" /\ topics[i].text /= ""
           /\ \A j \in 1 .. (i - 1) : topics[j].id /= topics[i].id

BatchInit ==
  /\ case \in Cases
  /\ step = IF case.benchmark THEN "exhaustive" ELSE "check"
  /\ position = 0
  /\ queries = <<>>
  /\ sums = [wand |-> <<>>, sharded |-> <<>>]
  /\ aggregate = "none"

Fail == step' = "error" /\ UNCHANGED <<case, position, queries, sums, aggregate>>

CheckBatch ==
  /\ step = "check"
  /\ IF IsBatch
     THEN step' = "search" /\ UNCHANGED <<case, position, queries, sums, aggregate>>
     ELSE Fail

\* verify_hits: the same documents and score bits, rank by rank.
SameHits(left, right) == left = right

\* One topic: search, verification, metrics.
EvaluateTopic ==
  /\ step = "search"
  /\ position < Len(case.topics)
  /\ LET topic == case.topics[position + 1]
         hits == Answer(case.config.strategy, topic)
         oracle == Answer(Oracle(case.config.strategy), topic)
         verified == case.config.verify => oracle /= Failed /\ SameHits(hits, oracle)
     IN  IF hits /= Failed /\ verified
         THEN /\ queries' = Append(queries, [topic |-> topic, hits |-> hits,
                  metrics |-> IF case.config.judged
                              THEN <<Metrics(case.judged[topic.id], hits, case.config.top_k)>>
                              ELSE <<>>])
              /\ position' = position + 1
              /\ UNCHANGED <<case, step, sums, aggregate>>
         ELSE Fail

\* aggregate_metrics: means over all topics, judged or not.
Mean(values) == SumFunction(values) \div Len(values)

Aggregate ==
  /\ step = "search"
  /\ position = Len(case.topics)
  /\ step' = "run"
  /\ LET Of(measure) == Mean([i \in DOMAIN queries |-> queries[i].metrics[1][measure]])
     IN  aggregate' = IF case.config.judged
                      THEN [precision |-> Of("precision"), reciprocal |-> Of("reciprocal"),
                            ndcg |-> Of("ndcg"), recall |-> Of("recall")]
                      ELSE "none"
  /\ UNCHANGED <<case, position, queries, sums>>

Finite(hit) == hit.score /= "nan"

\* write_trec_run to memory: validate_run comes first.
WriteRun ==
  /\ step = "run"
  /\ IF /\ \A i, j \in DOMAIN queries : i /= j => queries[i].topic.id /= queries[j].topic.id
        /\ \A i \in DOMAIN queries :
             /\ Len(queries[i].hits) <= case.config.top_k
             /\ IsInjective([r \in DOMAIN queries[i].hits |-> queries[i].hits[r].doc])
             /\ \A r \in DOMAIN queries[i].hits : Finite(queries[i].hits[r])
     THEN step' = "report" /\ UNCHANGED <<case, position, queries, sums, aggregate>>
     ELSE Fail

\* write_json_report to memory: validate_finite_report comes first.
WriteReport ==
  /\ step = "report"
  /\ IF \A i \in DOMAIN queries : \A r \in DOMAIN queries[i].hits : Finite(queries[i].hits[r])
     THEN step' = "reported" /\ UNCHANGED <<case, position, queries, sums, aggregate>>
     ELSE Fail

-----------------------------------------------------------------------------
\* benchmark.rs run: the exhaustive pass, whose answers are kept.
ExhaustivePass ==
  /\ step = "exhaustive"
  /\ IF position = Len(case.topics)
     THEN /\ step' = "Wand" /\ position' = 0
          /\ UNCHANGED <<case, queries, sums, aggregate>>
     ELSE LET topic == case.topics[position + 1]
              hits == Answer("Exhaustive", topic)
          IN  IF hits = Failed THEN Fail
              ELSE /\ queries' = Append(queries, [topic |-> topic, hits |-> hits, metrics |-> <<>>])
                   /\ position' = position + 1
                   /\ UNCHANGED <<case, step, sums, aggregate>>

\* The passes that follow it, in order; the last runs on shards, and its checksum is
\* compared with that of WAND.
Following == [Wand |-> "BlockMaxWand", BlockMaxWand |-> "MaxScore",
              MaxScore |-> "BlockMaxMaxScore", BlockMaxMaxScore |-> "sharded"]

ComparedPass ==
  /\ step \in Pruned \union {"sharded"}
  /\ position < Len(case.topics)
  /\ LET kept == queries[position + 1]
         hits == Answer(step, kept.topic)
     IN  IF SameHits(hits, kept.hits)
         THEN /\ position' = position + 1
              /\ sums' = CASE step = "Wand" -> [sums EXCEPT !.wand = @ \o hits]
                           [] step = "sharded" -> [sums EXCEPT !.sharded = @ \o hits]
                           [] OTHER -> sums
              /\ UNCHANGED <<case, step, queries, aggregate>>
         ELSE Fail

EndPass ==
  /\ step \in Pruned \union {"sharded"}
  /\ position = Len(case.topics)
  /\ IF step = "sharded" /\ sums.sharded /= sums.wand
     THEN Fail
     ELSE /\ step' = IF step = "sharded" THEN "reported" ELSE Following[step]
          /\ position' = 0
          /\ UNCHANGED <<case, queries, sums, aggregate>>

BatchNext ==
  \/ CheckBatch \/ EvaluateTopic \/ Aggregate \/ WriteRun \/ WriteReport
  \/ ExhaustivePass \/ ComparedPass \/ EndPass

-----------------------------------------------------------------------------
\* The metrics by their definitions: precision at the rank of each relevant document, the
\* first such rank, and the gain as a share of what the best of all rankings has.
TrueMetrics(judged, hits, cutoff) ==
  LET top == Take(hits, cutoff)
      found == {r \in DOMAIN top : judged[top[r].doc] > 0}
      Dcg(ranking) == SumFunction([r \in DOMAIN ranking |-> Gain(judged[ranking[r]], r)])
      rankings == {ranking \in UNION {[1 .. n -> Documents] : n \in 0 .. cutoff} :
                     IsInjective(ranking)}
      best == CHOOSE n \in {Dcg(ranking) : ranking \in rankings} :
                \A ranking \in rankings : Dcg(ranking) <= n
      total == Cardinality(Relevant(judged))
  IN  [precision |-> IF total = 0 THEN 0
                     ELSE SumFunction([r \in DOMAIN top |->
                            IF r \in found
                            THEN Ratio(Cardinality({q \in found : q <= r}), r) ELSE 0]) \div total,
       reciprocal |-> IF found = {} THEN 0
                      ELSE Ratio(1, CHOOSE r \in found : \A q \in found : r <= q),
       ndcg |-> Ratio(Dcg([r \in DOMAIN top |-> top[r].doc]), best),
       recall |-> Ratio(Cardinality({top[r].doc : r \in found}), total)]

\* What is reported is true, whichever executor is faulty: "verified" means that the
\* exhaustive scan and another executor both gave the hits, of a benchmark that all did;
\* a run has each topic and document once; the metrics are those of the hits, and none
\* exceeds 1.
ReportIsTrue ==
  step = "reported" =>
    IF case.benchmark
    THEN \A t \in ToSet(case.topics), e \in DOMAIN case.answers :
           Answer(e, t) = Answer("Exhaustive", t)
    ELSE /\ Len(queries) = Len(case.topics)
         /\ \A i \in DOMAIN queries :
              LET topic == case.topics[i]
                  hits == queries[i].hits
              IN  /\ queries[i].topic = topic
                  /\ case.config.verify =>
                       /\ hits = Answer("Exhaustive", topic)
                       /\ \E e \in DOMAIN case.answers \ {"Exhaustive"} : hits = Answer(e, topic)
                  /\ IsInjective([r \in DOMAIN hits |-> hits[r].doc])
                  /\ case.config.judged =>
                       LET metrics == queries[i].metrics[1]
                       IN  /\ metrics = TrueMetrics(case.judged[topic.id], hits, case.config.top_k)
                           /\ \A measure \in DOMAIN metrics : metrics[measure] \in 0 .. Whole
         /\ case.config.judged => \A measure \in DOMAIN aggregate :
              /\ \E i \in DOMAIN queries : queries[i].metrics[1][measure] <= aggregate[measure]
              /\ \E i \in DOMAIN queries : aggregate[measure] <= queries[i].metrics[1][measure]
=============================================================================
