-------------------------- MODULE QueryPreparation --------------------------
(***************************************************************************)
(* What search_with_statistics does before an executor runs, and query.rs: *)
(* query terms are normalized and merged, each becomes a scored posting    *)
(* list over one field or all, phrase and field filters become the set of  *)
(* accepted documents, and block bounds are taken from the index or        *)
(* computed anew.  A search is a record                                    *)
(*   [documents, whole, terms, operator, phrases, filters, options]        *)
(* where `documents` is the index searched, each a function from its       *)
(* fields to a sequence of words, `whole` the collection it is a shard of  *)
(* (<<>> when statistics are its own), and the rest is the SearchQuery and *)
(* the SearchOptions.                                                      *)
(***************************************************************************)
EXTENDS Retrieval, SequencesExt

CONSTANTS
  Fields,        \* field names, positive numbers in their order
  Analyzed(_),   \* the tokens of a text
  Contribution(_, _, _, _), \* ScoreContext::score: of the model with its parameters, the
                 \* statistics, the frequency in the document and its length
  Default,       \* BM25 with default parameters
  MaxBoost,      \* the largest finite boost
  Quantizer,     \* the range and the largest impact of quantized BM25
  MaxQuantizedTerms \* the terms a quantized query may have

\* No field is named: the first key of an ordered map over optional fields.
NoField == 0

WithFrequency == {"Dph", "Pl2", "Qld"}
Strategies == {"Exhaustive", "Wand", "BlockMaxWand", "MaxScore", "BlockMaxMaxScore"}

-----------------------------------------------------------------------------
\* query.rs.

\* SearchQuery::from_text: one term per token.
TermsOfText(text, field) ==
  [i \in DOMAIN Analyzed(text) |-> [text |-> <<Analyzed(text)[i]>>, field |-> field, boost |-> 1]]

\* QueryTerm::new, PhraseFilter::from_text and the constructors of SearchQuery.
IsSearchQuery(s) ==
  /\ s.terms /= <<>>
  /\ \A term \in ToSet(s.terms) : term.text /= <<>> /\ term.boost \in 1 .. MaxBoost
  /\ \A phrase \in ToSet(s.phrases) : Analyzed(phrase.text) /= <<>>

-----------------------------------------------------------------------------
\* The index: documents are numbered from zero.

Document(s, d) == s.documents[d + 1]
Numbers(documents) == 0 .. Len(documents) - 1

Text(document, f) == IF f \in DOMAIN document THEN document[f] ELSE <<>>
Positions(document, f, word) == {i \in DOMAIN Text(document, f) : Text(document, f)[i] = word}
Frequency(document, f, word) == Cardinality(Positions(document, f, word))

Postings(documents, f, word) ==
  {d \in Numbers(documents) : Frequency(documents[d + 1], f, word) > 0}

\* The statistics a score depends on; those of a shard are the whole collection's.
Statistics(documents, f, word) ==
  [frequency |-> Cardinality(Postings(documents, f, word)),
   count |-> Len(documents),
   occurrences |-> MapThenSumSet(LAMBDA d : Frequency(documents[d + 1], f, word), Numbers(documents)),
   total |-> MapThenSumSet(LAMBDA d : Len(Text(documents[d + 1], f)), Numbers(documents))]

Whole(s) == IF s.whole = <<>> THEN s.documents ELSE s.whole

SearchedFields(field) == IF field = NoField THEN Fields ELSE {field}

\* The contribution of one field of a document that holds the word.
FieldScore(documents, whole, model, f, word, d) ==
  Contribution(model, Statistics(whole, f, word),
               Frequency(documents[d + 1], f, word), Len(Text(documents[d + 1], f)))

-----------------------------------------------------------------------------
\* prepare_terms: equal terms are merged, their boosts added up.

Key(term) == <<term.field, Analyzed(term.text)[1]>>
KeyLess(a, b) == a[1] < b[1] \/ (a[1] = b[1] /\ a[2] < b[2])

Boost(s, key) ==
  SumFunction([i \in {i \in DOMAIN s.terms : Key(s.terms[i]) = key} |-> s.terms[i].boost])

\* The keys, each where as many are less as stand before it.
Sorted(keys) ==
  [i \in 1 .. Cardinality(keys) |->
     CHOOSE key \in keys : Cardinality({other \in keys : KeyLess(other, key)}) = i - 1]

\* Mutant: a repeated term keeps the boost it came with first.
PreparedTermsUnmerged(s) ==
  LET keys == Sorted({Key(term) : term \in ToSet(s.terms)})
      First(key) == CHOOSE i \in DOMAIN s.terms :
                      Key(s.terms[i]) = key /\ \A j \in 1 .. i - 1 : Key(s.terms[j]) /= key
  IN  [i \in DOMAIN keys |-> [field |-> keys[i][1], word |-> keys[i][2],
                              boost |-> s.terms[First(keys[i])].boost]]

PreparedTerms(s) ==
  LET keys == Sorted({Key(term) : term \in ToSet(s.terms)})
  IN  [i \in DOMAIN keys |-> [field |-> keys[i][1], word |-> keys[i][2],
                              boost |-> Boost(s, keys[i])]]

-----------------------------------------------------------------------------
\* build_term_scorer: the contributions of the fields, merged by document.

MergedDocuments(s, term) ==
  UNION {Postings(s.documents, f, term.word) : f \in SearchedFields(term.field)}

HoldingFields(s, term, d) ==
  {f \in SearchedFields(term.field) : d \in Postings(s.documents, f, term.word)}

MergedScore(s, term, d) ==
  SumFunction(
    [f \in HoldingFields(s, term, d) |->
       FieldScore(s.documents, Whole(s), s.options.model, f, term.word, d) * term.boost])

Quantizable(score) == score \in 0 .. Quantizer.maxImpact

Quantized(score) == (score * (Quantizer.range - 1)) \div Quantizer.maxImpact + 1

Impact(s, term, d) ==
  IF s.options.model.scoring = "QuantizedBm25" THEN Quantized(MergedScore(s, term, d))
  ELSE MergedScore(s, term, d)

Entries(s, term) == [d \in MergedDocuments(s, term) |-> Impact(s, term, d)]

-----------------------------------------------------------------------------
\* matches_constraints.

\* matches_phrase: in one field, the words stand one after the other.
MatchesPhrase(s, phrase, d) ==
  LET words == Analyzed(phrase.text)
  IN  \E f \in SearchedFields(phrase.field) :
        /\ \A word \in ToSet(words) : d \in Postings(s.documents, f, word)
        /\ \E start \in Positions(Document(s, d), f, words[1]) :
             \A i \in DOMAIN words : start + i - 1 \in Positions(Document(s, d), f, words[i])

MatchesConstraints(s, d) ==
  /\ \A filter \in ToSet(s.filters) :
       /\ filter.field \in DOMAIN Document(s, d)
       /\ Document(s, d)[filter.field] = filter.value
  /\ \A phrase \in ToSet(s.phrases) : MatchesPhrase(s, phrase, d)

-----------------------------------------------------------------------------
\* SearchOptions::validate, and the errors of preparation.

ValidOptions(options) ==
  /\ options.top_k > 0
  /\ options.model.scoring \in WithFrequency =>
       options.pruning = "Exhaustive" /\ options.model.params = Default.params
  /\ ~(options.explain /\ options.model.scoring = "QuantizedBm25")

Accepted(s) ==
  /\ IsSearchQuery(s)
  /\ ValidOptions(s.options)
  /\ \A term \in ToSet(s.terms) : Len(Analyzed(term.text)) = 1
  /\ \A term \in ToSet(PreparedTerms(s)) :
       /\ term.boost <= MaxBoost
       /\ \A d \in MergedDocuments(s, term) :
            /\ Finite(MergedScore(s, term, d))
            /\ s.options.model.scoring = "QuantizedBm25" => Quantizable(MergedScore(s, term, d))
  /\ s.options.model.scoring = "QuantizedBm25" => Len(PreparedTerms(s)) <= MaxQuantizedTerms

\* What the executor is given.  Scorers without postings are dropped, and with one of
\* them an AND query has no answer.
RequestOf(s) ==
  LET terms == PreparedTerms(s)
      empty == {i \in DOMAIN terms : MergedDocuments(s, terms[i]) = {}}
      given == IF s.operator = "And" /\ empty /= {} THEN {} ELSE DOMAIN terms \ empty
  IN  [postings |-> [t \in Terms |-> IF t \in given THEN Entries(s, terms[t]) ELSE <<>>],
       operator |-> s.operator,
       top_k |-> s.options.top_k,
       accepts |-> {d \in Numbers(s.documents) : MatchesConstraints(s, d)}]

-----------------------------------------------------------------------------
\* Block bounds.

Rank0(D, d) == Cardinality({e \in D : e < d})

\* block_metadata and conservative_block_bounds of a list's scores.
Bounds(scores) ==
  LET D == DOMAIN scores
      InBlock(b) == {d \in D : Rank0(D, d) \div BlockPostings = b - 1}
  IN  [b \in 1 .. (Cardinality(D) + BlockPostings - 1) \div BlockPostings |->
         Up(Max({0} \union {scores[d] : d \in InBlock(b)}))]

\* compute_block_max_metadata, for one field or, merged, for all: default BM25 on the
\* statistics of the index itself.
StoredScore(s, key, d) ==
  SumFunction([f \in {f \in SearchedFields(key[1]) : d \in Postings(s.documents, f, key[2])} |->
                 FieldScore(s.documents, s.documents, Default, f, key[2], d)])

StoredBounds(s, key) ==
  LET D == UNION {Postings(s.documents, f, key[2]) : f \in SearchedFields(key[1])}
  IN  Bounds([d \in D |-> StoredScore(s, key, d)])

LoadsBlockMax(s) ==
  \/ s.options.pruning = "BlockMaxWand"
  \/ s.options.pruning = "BlockMaxMaxScore" /\ s.operator = "Or"

\* Mutant: a shard uses the bounds stored with it.
UseTightBoundsOfShard(s, term) ==
  /\ s.options.model = Default
  /\ term.boost = 1

UseTightBounds(s, term) ==
  /\ s.options.model = Default
  /\ s.whole = <<>>
  /\ term.boost = 1

\* term_block_bounds.
TermBlockBounds(s, term) ==
  IF UseTightBounds(s, term)
  THEN StoredBounds(s, <<term.field, term.word>>)
  ELSE Bounds([d \in MergedDocuments(s, term) |-> Impact(s, term, d)])

-----------------------------------------------------------------------------
\* explain: the contributions of every term and field.
ExplainedTotal(s, d) ==
  LET terms == PreparedTerms(s)
  IN  SumFunction([i \in DOMAIN terms |->
        SumFunction([f \in HoldingFields(s, terms[i], d) |->
          FieldScore(s.documents, Whole(s), s.options.model, f, terms[i].word, d) * terms[i].boost])])
=============================================================================
