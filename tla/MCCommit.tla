------------------------------- MODULE MCCommit -------------------------------
(***************************************************************************)
(* Transactions of three outputs; every command with at most one odd path  *)
(* and one odd entry; command lines of four options; batches of two topics *)
(* over three documents, every judgment of the first, every pruned         *)
(* executor, the exhaustive one or the shards faulty on either topic, and  *)
(* benchmarks of the same.                                                 *)
(***************************************************************************)
EXTENDS CommandLine, TLC

MCDocuments == {"d1", "d2", "d3"}
MCDiscount == <<60, 38, 30>>
-----------------------------------------------------------------------------
Hit(d, score) == [doc |-> d, score |-> score]
Hits == <<Hit("d2", "2"), Hit("d3", "1")>>

Healthy(hits) == [e \in Executors |-> ("a" :> hits) @@ ("b" :> <<Hit("d2", "1")>>)]

AllHealthy == {Healthy(hits) : hits \in
  {<<>>, <<Hit("d1", "2")>>, Hits, <<Hit("d3", "1"), Hit("d1", "1")>>}}

\* Missing, doubled, exchanged, other scores, no number, an error.
WrongHits == {
  <<Hit("d2", "2")>>, <<Hit("d1", "2"), Hit("d1", "2")>>, <<Hit("d3", "1"), Hit("d2", "2")>>,
  <<Hit("d2", "3"), Hit("d3", "1")>>, <<Hit("d2", "2"), Hit("d3", "nan")>>, Failed}

OneFaulty ==
  {[Healthy(Hits) EXCEPT ![e][text] = wrong] :
     e \in Executors, text \in {"a", "b"}, wrong \in WrongHits}

Topic(id, text) == [id |-> id, text |-> text]
Both == <<Topic("q1", "a"), Topic("q2", "b")>>
TopicLists == {
  Both, <<Topic("q1", "a")>>, <<>>, <<Topic("q1", "a"), Topic("q1", "b")>>,
  <<Topic("q1", "")>>, <<Topic("", "a")>>}

Judged(d) == [e \in MCDocuments |-> IF e = d THEN 1 ELSE 0]

Config(k, strategy, verify, model, judged) ==
  [top_k |-> k, strategy |-> strategy, verify |-> verify, model |-> model, judged |-> judged]

Case(benchmark, topics, config, first, answers) ==
  [benchmark |-> benchmark, topics |-> topics, config |-> config, answers |-> answers,
   judged |-> ("q1" :> first) @@ ("q2" :> Judged("d2"))]

MCCases ==
  {Case(FALSE, topics, Config(k, "Wand", FALSE, model, FALSE), Judged("d3"), answers) :
     topics \in TopicLists, k \in 0 .. 2, model \in {"Bm25", "Dph"}, answers \in AllHealthy}
  \union
  {Case(FALSE, Both, Config(k, "Wand", verify, "Bm25", TRUE), first, answers) :
     k \in 1 .. 3, verify \in BOOLEAN, first \in [MCDocuments -> {0, 1, 3}],
     answers \in AllHealthy}
  \union
  {Case(FALSE, Both, Config(2, strategy, verify, model, TRUE), Judged("d3"), answers) :
     strategy \in Executors \ {"sharded"}, verify \in BOOLEAN, model \in {"Bm25", "Dph"},
     answers \in OneFaulty}
  \union
  {Case(TRUE, Both, Config(2, "Wand", FALSE, "Bm25", FALSE), Judged("d3"), answers) :
     answers \in AllHealthy \union OneFaulty}
=============================================================================
