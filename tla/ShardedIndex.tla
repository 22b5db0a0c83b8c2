---------------------------- MODULE ShardedIndex ----------------------------
(***************************************************************************)
(* shard.rs: a collection split over physical shards.  Documents are dealt *)
(* to the shards in turn; the shards are searched one after the other,     *)
(* each for its own best hits, with statistics of the whole collection,    *)
(* and the answers are merged under global document numbers.  The search   *)
(* of one shard is the abstract retrieval its executors implement.         *)
(***************************************************************************)
EXTENDS TopK, Sequences, FiniteSetsExt, Functions

CONSTANTS
  Documents, Terms, Requests, Impact(_, _, _, _, _),  \* as in Collection
  ShardCounts,   \* the numbers of shards considered
  MaxDocuments,  \* u32::MAX
  MaxLength      \* the tokens of the longest document

ASSUME ShardAssumption ==
  ShardCounts \subseteq Nat \ {0} /\ MaxDocuments \in Nat /\ MaxLength \in Nat

VARIABLES
  shardCount,   \* the number of shards
  shards,       \* the documents of each shard, numbered from 0
  externalIds,  \* ShardedIndexBuilder: identifiers taken
  count,        \* ShardedIndexBuilder: documents added
  global,       \* GlobalStatistics
  state,        \* "building", "built", "searching" or "done"
  request,      \* the request
  next,         \* the shard that is searched next
  candidates,   \* entries collected, under global numbers
  hits          \* the answer

built == <<shardCount, shards, externalIds, count, global>>
vars == <<built, state, request, next, candidates, hits>>

ShardIds == 0 .. shardCount - 1

C == INSTANCE Collection WITH collection <- <<>>

ASSUME DocumentsAssumption ==
  /\ IsFiniteSet(Terms)
  /\ \A d \in Documents : d.tf \in [Terms -> Nat] /\ C!Length(d) \in 0 .. MaxLength

ASSUME RequestsAssumption == \A q \in Requests : q.top_k \in Nat \ {0}

\* Scores are integers (TopK), whatever the statistics of a collection.
ASSUME ScoresAssumption ==
  \A d \in Documents, terms \in {q.terms : q \in Requests}, n \in 0 .. MaxDocuments,
     frequency \in [Terms -> 0 .. MaxDocuments], tokens \in 0 .. MaxDocuments * MaxLength :
    C!Score(d, terms, [count |-> n, frequency |-> frequency, tokens |-> tokens]) \in Int

Init ==
  /\ shardCount \in ShardCounts
  /\ shards = [s \in ShardIds |-> <<>>]
  /\ externalIds = {}
  /\ count = 0
  /\ global = C!Statistics(<<>>)
  /\ state = "building"
  /\ request = C!NoRequest
  /\ next = 0
  /\ candidates = {}
  /\ hits = {}

-----------------------------------------------------------------------------
\* ShardedIndexBuilder.

\* Mutant of ShardOf: blocks of documents go to one shard.
ShardOfBlocks(g) == (g \div 2) % shardCount

\* Documents are dealt round-robin.
ShardOf(g) == g % shardCount

\* The position of document g in its shard, and its number from both.
LocalOf(g) == g \div shardCount

\* Mutant of GlobalOf: shards are laid out one after the other.
GlobalOfConcatenated(s, l) == s * Len(shards[0]) + l

GlobalOf(s, l) == l * shardCount + s

AddDocument(document) ==
  /\ state = "building"
  /\ count < MaxDocuments
  /\ document.id \notin externalIds
  /\ shards' = [shards EXCEPT ![ShardOf(count)] = Append(@, document)]
  /\ externalIds' = externalIds \union {document.id}
  /\ count' = count + 1
  /\ UNCHANGED <<shardCount, global, state, request, next, candidates, hits>>

\* Mutant of GlobalStatistics: of the first shard.
FirstStatistics == C!Statistics(shards[0])

\* GlobalStatistics::from_shards: sums over the shards.
GlobalStatistics ==
  LET local == [s \in ShardIds |-> C!Statistics(shards[s])]
  IN  [count |-> SumFunction([s \in ShardIds |-> local[s].count]),
       frequency |-> [t \in Terms |-> SumFunction([s \in ShardIds |-> local[s].frequency[t]])],
       tokens |-> SumFunction([s \in ShardIds |-> local[s].tokens])]

Finish ==
  /\ state = "building"
  /\ state' = "built"
  /\ global' = GlobalStatistics
  /\ UNCHANGED <<shardCount, shards, externalIds, count, request, next, candidates, hits>>

-----------------------------------------------------------------------------
\* ShardedIndex::search.

BeginSearch(q) ==
  /\ state = "built"
  /\ state' = "searching"
  /\ request' = q
  /\ UNCHANGED <<built, next, candidates, hits>>

\* Mutant of LocalLimit: the shards share the hits out.
LocalLimitShared(s) == (request.top_k + shardCount - 1) \div shardCount

\* The hits a shard is asked for.
LocalLimit(s) == Min({request.top_k, Len(shards[s])})

\* One shard: an empty one is skipped.
SearchShard ==
  /\ state = "searching"
  /\ next < shardCount
  /\ LET results == C!Results(request, shards[next], global)
     IN  \E best \in SUBSET results :
           /\ IF shards[next] = <<>> THEN best = {} ELSE IsBest(best, results, LocalLimit(next))
           /\ candidates' = candidates \union
                {[doc |-> GlobalOf(next, e.doc), score |-> e.score] : e \in best}
  /\ next' = next + 1
  /\ UNCHANGED <<built, state, request, hits>>

\* Sort and truncate.
Merge ==
  /\ state = "searching"
  /\ next = shardCount
  /\ \E best \in SUBSET candidates :
       /\ IsBest(best, candidates, request.top_k)
       /\ hits' = best
  /\ state' = "done"
  /\ UNCHANGED <<built, request, next, candidates>>

Next ==
  \/ \E document \in Documents : AddDocument(document)
  \/ Finish
  \/ \E q \in Requests : BeginSearch(q)
  \/ SearchShard
  \/ Merge

Spec == Init /\ [][Next]_vars
-----------------------------------------------------------------------------
\* from_loaded_shards: what a reader of the container requires of the shards.

\* documents_in_shard.
DocumentsInShard(documents, s) ==
  IF s >= documents THEN 0 ELSE (documents - 1 - s) \div shardCount + 1

Loadable ==
  /\ \A s \in ShardIds : Len(shards[s]) = DocumentsInShard(count, s)
  /\ \A s, u \in ShardIds : \A i \in DOMAIN shards[s], j \in DOMAIN shards[u] :
       shards[s][i].id = shards[u][j].id => s = u /\ i = j
  /\ global.count = count

\* Types, and the counters of the builder: identifiers are those of the documents.
TypeOK ==
  /\ shardCount \in ShardCounts
  /\ shards \in [ShardIds -> Seq(Documents)]
  /\ externalIds = {d.id : d \in UNION {Range(shards[s]) : s \in ShardIds}}
  /\ count \in 0 .. MaxDocuments
  /\ state \in {"building", "built", "searching", "done"}
  /\ next \in 0 .. shardCount
  /\ \A e \in candidates : e.doc \in 0 .. count - 1
  /\ hits \subseteq candidates

\* A container of a finished index is always accepted when it is read back: the
\* population of each shard that the loader computes is the one the builder dealt.
BuiltIsLoadable == state /= "building" => Loadable

\* ShardedIndex::document.
Lookup(g) == shards[ShardOf(g)][LocalOf(g) + 1]

Whole == [i \in 1 .. count |-> Lookup(i - 1)]

\* While the shards are searched, the candidates suffice: the best top_k of them are
\* the best top_k of all hits of the shards searched so far.
CandidatesSuffice ==
  state = "searching" =>
    LET results == {e \in C!Results(request, Whole, C!Statistics(Whole)) :
                      ShardOf(e.doc) < next}
    IN  \A best \in SUBSET candidates :
          IsBest(best, candidates, request.top_k) => IsBest(best, results, request.top_k)

\* A sharded index behaves as one index of the whole collection: same numbers, same
\* scores, same order, whatever the number of shards.
AbstractState ==
  [building |-> "open", built |-> "closed", searching |-> "asked", done |-> "answered"][state]

Abstract == INSTANCE Collection WITH collection <- Whole, state <- AbstractState
ImplementsCollection == Abstract!Spec
=============================================================================
