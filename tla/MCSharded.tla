------------------------------ MODULE MCSharded ------------------------------
(***************************************************************************)
(* Up to four documents of four kinds over one to three shards: fewer      *)
(* documents than shards, shards of different sizes, terms that one shard  *)
(* does not hold, equal scores within a shard and across shards.           *)
(***************************************************************************)
EXTENDS ShardedFiles, TLC

CONSTANT Ids

MCTerms == {1, 2}
MCFrequencies == {<<1, 0>>, <<1, 1>>, <<0, 2>>, <<2, 1>>}
MCDocuments == [id : Ids, tf : MCFrequencies]

\* A rarer term weighs more; length counts against the average of the collection.
MCImpact(tf, length, frequency, documents, tokens) ==
  12 * tf * (documents + 1 - frequency) + tokens - length * documents

MCRequests ==
  {[terms |-> terms, operator |-> operator, top_k |-> k, accepts |-> accepts] :
     terms \in {{1}, {1, 2}}, operator \in {"Or", "And"}, k \in 1 .. 3,
     accepts \in {MCDocuments, {d \in MCDocuments : d.tf[2] > 0}}}

\* Collections that are saved: none, an empty document, an empty field, an edit of the
\* same documents, terms shared by documents and by fields.
D(id, fields) == [id |-> id, fields |-> fields]
MCCollections ==
  {<<>>,
   <<D(1, <<>>)>>,
   <<D(1, <<<<1, 1>>>>), D(2, <<<<1, 1>>, <<2, 0>>>>)>>,
   <<D(1, <<<<1, 2>>>>), D(2, <<<<1, 2>>, <<2, 0>>>>)>>,
   <<D(1, <<<<1, 1>>>>), D(2, <<<<1, 2>>, <<2, 1>>>>), D(3, <<<<1, 1>>>>)>>}

IdSymmetry == Permutations(Ids)
=============================================================================
