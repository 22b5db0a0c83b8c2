--------------------------- MODULE PreparedSearch ---------------------------
(***************************************************************************)
(* A whole search: the request of the executor is prepared from a query    *)
(* over documents.  The exhaustive executor runs on it; whatever holds of  *)
(* ExhaustiveSearch holds here, and its answer is compared with the query  *)
(* as it was written.                                                      *)
(***************************************************************************)
EXTENDS ExhaustiveSearch, QueryPreparation

CONSTANT Searches  \* the searches made

VARIABLE search    \* the search, NoSearch for a request made by hand

NoSearch == <<>>

\* Fields are numbers, and so are words; the default model is BM25, a quantizer has a range.
ASSUME VocabularyAssumption ==
  /\ Fields \subseteq Nat \ {0} /\ IsFiniteSet(Fields)
  /\ MaxBoost \in Nat
  /\ Default.scoring = "Bm25"
  /\ Quantizer.range \in Nat \ {0} /\ Quantizer.maxImpact \in Nat \ {0}

\* A search has documents with some of the fields; it asks for fields that exist, has no
\* more different terms than there is room for, and a document that holds a word has a score for it.
Scored(s, f, word) ==
  \A d \in Postings(s.documents, f, word) :
    /\ FieldScore(s.documents, Whole(s), s.options.model, f, word, d) \in Int
    /\ FieldScore(s.documents, s.documents, Default, f, word, d) \in Int

ASSUME SearchesAssumption ==
  \A s \in Searches :
    /\ s.documents \in Seq(ToSet(s.documents))
    /\ \A document \in ToSet(s.documents) :
         DOMAIN document \subseteq Fields /\ \A f \in DOMAIN document : document[f] \in Seq(Nat)
    /\ Numbers(s.documents) \subseteq Docs
    /\ s.terms \in Seq(ToSet(s.terms)) /\ Len(PreparedTerms(s)) <= NumTerms
    /\ \A i \in DOMAIN s.terms : s.terms[i].field \in Fields \union {NoField}
    /\ \A i \in DOMAIN s.phrases : s.phrases[i].field \in Fields \union {NoField}
    /\ s.operator \in Operators
    /\ s.options.top_k \in Nat
    /\ \A i \in DOMAIN s.terms : Analyzed(s.terms[i].text) \in Seq(Nat)
    /\ \A i \in DOMAIN s.phrases : Analyzed(s.phrases[i].text) \in Seq(Nat)
    /\ \A f \in Fields, i \in DOMAIN s.terms : Scored(s, f, Analyzed(s.terms[i].text)[1])

PreparedInit ==
  /\ \/ search = NoSearch /\ query \in Queries
     \/ /\ search \in Searches
        /\ Accepted(search)
        /\ query = RequestOf(search)
  /\ Start

PreparedNext == Next /\ UNCHANGED search

PreparedSpec == PreparedInit /\ [][PreparedNext]_<<vars, search>>
-----------------------------------------------------------------------------
\* The query as written: what each of its terms adds to a document, repeated terms
\* included, and which documents it names.
Holds(term, d) ==
  \E f \in SearchedFields(term.field) :
    Analyzed(term.text)[1] \in ToSet(Text(Document(search, d), f))

WrittenScore(d) ==
  SumFunction([i \in DOMAIN search.terms |->
    LET term == search.terms[i]
        word == Analyzed(term.text)[1]
        holding == {f \in SearchedFields(term.field) : word \in ToSet(Text(Document(search, d), f))}
    IN  term.boost * SumFunction([f \in holding |->
          FieldScore(search.documents, Whole(search), search.options.model, f, word, d)])])

ReadsPhrase(phrase, d) ==
  \E f \in SearchedFields(phrase.field) :
    LET text == Text(Document(search, d), f)
        words == Analyzed(phrase.text)
    IN  \E i \in 1 .. Len(text) - Len(words) + 1 : SubSeq(text, i, i + Len(words) - 1) = words

Named ==
  {d \in Numbers(search.documents) :
     /\ IF search.operator = "And"
        THEN \A i \in DOMAIN search.terms : Holds(search.terms[i], d)
        ELSE \E i \in DOMAIN search.terms : Holds(search.terms[i], d)
     /\ \A phrase \in ToSet(search.phrases) : ReadsPhrase(phrase, d)
     /\ \A filter \in ToSet(search.filters) :
          filter.field \in DOMAIN Document(search, d) /\ Document(search, d)[filter.field] = filter.value}

\* Merging repeated terms, merging fields, dropping empty scorers and turning phrases into
\* positions (search.rs:735-895, 1209-1256) change no answer: the hits are the best of the
\* documents the query names as it was written, each with the score its terms add up to,
\* which its explanation repeats.  Quantized scores are left out: they are rounded once per
\* merged term by design.
AnswersAsWritten ==
  search /= NoSearch /\ state = "done" =>
    /\ {e.doc : e \in heap} \subseteq Named
    /\ search.options.model.scoring /= "QuantizedBm25" =>
         /\ IsBest(heap, {[doc |-> d, score |-> WrittenScore(d)] : d \in Named}, query.top_k)
         /\ \A e \in heap : ExplainedTotal(search, e.doc) = e.score

\* The block bounds a pruning executor is handed are those of the scores it ranks by, also
\* when they were stored with the index (search.rs:897-945): bounds of other parameters, of
\* a boost or of a shard's own statistics would pass over the best document.
BoundsBelong ==
  search /= NoSearch /\ LoadsBlockMax(search) =>
    \A t \in Scorers(query) :
      \A d \in Listed(query, t) :
        TermBlockBounds(search, PreparedTerms(search)[t])[Rank(query, t, d) \div BlockPostings + 1]
          = BlockMax(query, t, d)
=============================================================================
