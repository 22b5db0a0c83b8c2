----------------------- MODULE ExhaustiveSearchProofs -----------------------
(***************************************************************************)
(* Proofs that the exhaustive executor keeps the top_k best of what it has *)
(* scored and implements RankedRetrieval, for every collection, every      *)
(* request and every top_k; and that so does a whole search, from the      *)
(* texts of its query to the answer, when sums of impacts are exact.       *)
(***************************************************************************)
EXTENDS PreparedSearch, SetProofs

-----------------------------------------------------------------------------
\* A request is well formed and its scores are numbers.
Proper(q) == IsQuery(q) /\ \A d \in Docs : Score(q, d) \in Int

\* What holds in every state of the executor: only candidates are pending, the heap
\* is the best of what was accepted, an answer waits for the last candidate, and
\* every accepted candidate so far had a finite score.
Inv ==
  /\ Proper(query)
  /\ state \in {"searching", "done", "error"}
  /\ pending \subseteq Candidates(query)
  /\ evaluated \in Nat
  /\ IsBest(heap, Offered, query.top_k)
  /\ state = "done" => pending = {}
  /\ \A d \in Visited \intersect query.accepts : Finite(Score(query, d))

LEMMA QueryTypes ==
  ASSUME Proper(query)
  PROVE  /\ IsQuery(query)
         /\ query.top_k \in Nat \ {0}
         /\ Candidates(query) \subseteq Docs
         /\ \A d \in Docs : Entry(query, d) \in HeapEntries /\ Entry(query, d).doc = d
<1>1. IsQuery(query) /\ \A d \in Docs : Score(query, d) \in Int
  BY DEF Proper
<1>2. Docs \subseteq Int
  BY DocsAssumption
<1>3. \A d \in Docs : Entry(query, d) \in HeapEntries /\ Entry(query, d).doc = d
  BY <1>1, <1>2 DEF Entry, HeapEntries
<1> QED BY <1>1, <1>3 DEF IsQuery, Candidates

LEMMA OfferedIsFinite ==
  ASSUME Proper(query)
  PROVE  IsFiniteSet(Offered) /\ Offered \subseteq HeapEntries
<1> DEFINE D == Visited \intersect query.accepts
<1>1. D \subseteq Docs
  BY QueryTypes DEF Visited
<1>2. IsFiniteSet(D)
  BY <1>1, DocsAssumption, FS_Subset
<1>3. [d \in D |-> Entry(query, d)] \in Surjection(D, Offered)
  BY DEF Surjection, Offered
<1>4. IsFiniteSet(Offered)
  BY <1>2, <1>3, FS_Surjection
<1> QED BY <1>1, <1>4, QueryTypes DEF Offered

\* The exhaustive executor starts with nothing offered and nothing kept.
LEMMA InitInv == Init => Inv
<1> SUFFICES ASSUME Init PROVE Inv
  OBVIOUS
<1>q. Proper(query)
  BY QueriesAssumption DEF Init, Proper
<1>1. Visited = {} /\ Offered = {}
  BY DEF Init, Start, Visited, Offered
<1>2. IsBest({}, {}, query.top_k)
  BY <1>q, FS_EmptySet, QueryTypes DEF IsBest, IsFull
<1> QED BY <1>q, <1>1, <1>2 DEF Init, Start, Inv

\* Each iteration of the loop, and its end, keep the invariant.
LEMMA NextInv == Inv /\ [Next]_vars => Inv'
<1> SUFFICES ASSUME Inv, [Next]_vars PROVE Inv'
  OBVIOUS
<1> USE DEF Inv
<1>1. ASSUME NEW d \in Docs, Visit(d) PROVE Inv'
  <2>1. /\ d \in pending /\ pending' = pending \ {d}
        /\ query' = query /\ state' = state /\ state = "searching"
        /\ evaluated' \in Nat
    BY <1>1 DEF Visit, IsNext
  <2>2. Visited' = Visited \union {d} /\ d \notin Visited
    BY <2>1 DEF Visited, Candidates
  <2>3. CASE d \notin query.accepts
    <3>1. Offered' = Offered /\ heap' = heap
      BY <1>1, <2>1, <2>2, <2>3 DEF Offered, Visit, Entry, Score
    <3> QED BY <2>1, <2>2, <2>3, <3>1
  <2>4. CASE d \in query.accepts
    <3>1. /\ Consider(Entry(query, d), heap, query.top_k, heap')
          /\ Finite(Score(query, d))
      BY <1>1, <2>4 DEF Visit
    <3>2. Offered' = Offered \union {Entry(query, d)}
      BY <2>1, <2>2, <2>4 DEF Offered, Entry, Score
    <3>3. \A e \in Offered : e.doc /= Entry(query, d).doc
      BY <2>2, QueryTypes DEF Offered, Visited
    <3>4. IsBest(heap', Offered', query.top_k)
      BY <3>1, <3>2, <3>3, ConsiderKeepsBest, QueryTypes, OfferedIsFinite
    <3> QED BY <2>1, <2>2, <3>1, <3>4
  <2> QED BY <2>3, <2>4
<1>2. ASSUME NEW d \in Docs, Overflow(d) PROVE Inv'
  BY <1>2 DEF Overflow, Visited, Offered
<1>3. CASE Finish
  BY <1>3 DEF Finish, Visited, Offered
<1>4. CASE UNCHANGED vars
  BY <1>4 DEF vars, Visited, Offered
<1> QED BY <1>1, <1>2, <1>3, <1>4 DEF Next

\* The strengthened invariant holds in every state.
THEOREM Invariance == Spec => []Inv
  BY InitInv, NextInv, PTL DEF Spec

\* The variables have their types, and the heap never outgrows top_k.
THEOREM TypeCorrect == Spec => []TypeOK
<1>1. Inv => TypeOK
  BY QueryTypes DEF Inv, TypeOK, IsBest, Offered, Visited, Candidates
<1> QED BY <1>1, Invariance, PTL

\* After any number of candidates the heap is the top_k best of the accepted ones.
THEOREM HeapCorrect == Spec => []HeapIsBestSoFar
<1>1. Inv => HeapIsBestSoFar
  BY DEF Inv, HeapIsBestSoFar
<1> QED BY <1>1, Invariance, PTL

-----------------------------------------------------------------------------
\* The instance of RankedRetrieval speaks of the same requests and results.
LEMMA SameRequests ==
  /\ \A q : Abstract!IsQuery(q) <=> IsQuery(q)
  /\ \A q : Abstract!Results(q) = Results(q)
  /\ \A best, offered, k : Abstract!IsBest(best, offered, k) <=> IsBest(best, offered, k)
<1>1. \A q, t : Abstract!Listed(q, t) = Listed(q, t)
  BY DEF Abstract!Listed, Listed
<1>2. \A q, d : Abstract!Matching(q, d) = Matching(q, d)
  BY <1>1 DEF Abstract!Matching, Matching, Abstract!Terms, Terms
<1>3. \A q : Abstract!Candidates(q) = Candidates(q)
  BY <1>1, <1>2 DEF Abstract!Candidates, Candidates, Abstract!Scorers, Scorers,
                    Abstract!Terms, Terms
<1>4. \A q, d : Abstract!Entry(q, d) = Entry(q, d)
  <2>1. \A q, S, d : Abstract!Added(q, S, d) = Added(q, S, d)
    BY DEF Abstract!Added, Added
  <2> QED BY <1>2, <2>1 DEF Abstract!Entry, Entry, Abstract!Score, Score, Abstract!SumOfScores,
                            SumOfScores, Abstract!Terms, Terms
<1>5. \A q : Abstract!Results(q) = Results(q)
  BY <1>3, <1>4 DEF Abstract!Results, Results
<1>6. \A q : Abstract!IsQuery(q) <=> IsQuery(q)
  BY <1>1 DEF Abstract!IsQuery, IsQuery, Abstract!Operators, Operators,
              Abstract!Terms, Terms
<1>7. \A best, offered, k : Abstract!IsBest(best, offered, k) <=> IsBest(best, offered, k)
  BY DEF Abstract!IsBest, IsBest, Abstract!IsFull, IsFull, Abstract!Worse, Worse,
         Abstract!Cardinality, Cardinality
<1> QED BY <1>5, <1>6, <1>7

\* A search that starts is one the abstract retrieval starts.
LEMMA InitRefines == Init => Abstract!Init
<1>1. query \in Queries => Proper(query)
  BY QueriesAssumption DEF Proper
<1> QED BY <1>1, QueryTypes, SameRequests DEF Init, Start, Abstract!Init, Returned

\* Iterations are steps the caller does not see; the end of the loop returns the
\* answer, and an overflow is the abstract error.
LEMMA NextRefines ==
  Inv /\ [Next]_vars => [Abstract!Return \/ Abstract!Reject]_(Abstract!answer)
<1> SUFFICES ASSUME Inv, [Next]_vars
             PROVE  [Abstract!Return \/ Abstract!Reject]_(Abstract!answer)
  OBVIOUS
<1> USE DEF Inv
<1>1. ASSUME NEW d \in Docs, Visit(d) PROVE UNCHANGED Abstract!answer
  BY <1>1 DEF Visit, Abstract!answer, Returned
<1>2. ASSUME NEW d \in Docs, Overflow(d) PROVE Abstract!Reject
  <2>1. d \in Candidates(query) \intersect query.accepts /\ ~Finite(Score(query, d))
    BY <1>2 DEF Overflow, IsNext
  <2>2. \E e \in Results(query) : ~Finite(e.score)
    <3>1. Entry(query, d) \in Results(query)
      BY <2>1 DEF Results
    <3> QED BY <2>1, <3>1 DEF Entry
  <2> QED BY <1>2, <2>2, SameRequests DEF Overflow, Abstract!Reject, Returned
<1>3. CASE Finish
  <2>1. Visited = Candidates(query) /\ Offered = Results(query)
    BY <1>3 DEF Finish, Visited, Offered, Results
  <2>2. \A e \in Results(query) : Finite(e.score)
    BY <2>1 DEF Results, Entry
  <2> QED BY <1>3, <2>1, <2>2, SameRequests DEF Finish, Abstract!Return, Returned
<1>4. CASE UNCHANGED vars
  BY <1>4 DEF vars, Abstract!answer, Returned
<1> QED BY <1>1, <1>2, <1>3, <1>4 DEF Next

\* The exhaustive executor implements the abstract retrieval: every answer is the
\* top_k best of the accepted candidates, and only a non-finite sum is an error.
THEOREM Refinement == Spec => ImplementsRetrieval
<1>1. Spec => Abstract!Spec
  BY Invariance, InitRefines, NextRefines, PTL DEF Spec, Abstract!Spec
<1> QED BY <1>1 DEF ImplementsRetrieval


-----------------------------------------------------------------------------
\* The terms of a search.

\* The sum of two scores is exact: it is for quantized scores, which are integers.
ExactSums == \A x, y \in Int : Plus(x, y) = x + y

Asked(s) == s \in Searches /\ Accepted(s)

KeySet(s) == {Key(term) : term \in ToSet(s.terms)}
KeyOf(s, i) == <<PreparedTerms(s)[i].field, PreparedTerms(s)[i].word>>
Order(K) == {p \in K \X K : KeyLess(p[1], p[2])}

LEMMA KeysAreNumbers ==
  ASSUME NEW s, Asked(s)
  PROVE  /\ KeySet(s) = {Key(s.terms[i]) : i \in DOMAIN s.terms}
         /\ KeySet(s) \subseteq (Fields \union {NoField}) \X Nat
         /\ IsFiniteSet(KeySet(s))
         /\ DOMAIN s.terms = 1 .. Len(s.terms) /\ Len(s.terms) \in Nat \ {0}
<1>1. s.terms \in Seq(ToSet(s.terms)) /\ s.terms /= <<>>
  BY SearchesAssumption DEF Asked, Accepted, IsSearchQuery
<1>2. DOMAIN s.terms = 1 .. Len(s.terms) /\ Len(s.terms) \in Nat
  BY <1>1
<1>3. Len(s.terms) /= 0
  BY <1>1
<1>4. ToSet(s.terms) = {s.terms[i] : i \in DOMAIN s.terms}
  BY DEF ToSet
<1>5. KeySet(s) = {Key(s.terms[i]) : i \in DOMAIN s.terms}
  BY <1>4 DEF KeySet
<1>6. ASSUME NEW i \in DOMAIN s.terms PROVE Key(s.terms[i]) \in (Fields \union {NoField}) \X Nat
  <2>1. Analyzed(s.terms[i].text) \in Seq(Nat) /\ s.terms[i].field \in Fields \union {NoField}
    BY SearchesAssumption DEF Asked
  <2>2. Len(Analyzed(s.terms[i].text)) = 1
    BY <1>4 DEF Asked, Accepted
  <2>3. Analyzed(s.terms[i].text)[1] \in Nat
    BY <2>1, <2>2
  <2> QED BY <2>1, <2>3 DEF Key
<1>7. IsFiniteSet(DOMAIN s.terms)
  BY <1>2, FS_Interval
<1>8. IsFiniteSet(KeySet(s))
  <2> DEFINE f == [i \in DOMAIN s.terms |-> Key(s.terms[i])]
  <2>1. f \in Surjection(DOMAIN s.terms, KeySet(s))
    BY <1>5 DEF Surjection
  <2> QED BY <1>7, <2>1, FS_Surjection
<1> QED BY <1>2, <1>3, <1>5, <1>6, <1>8

LEMMA KeysAreOrdered ==
  ASSUME NEW K, K \subseteq (Fields \union {NoField}) \X Nat
  PROVE  StrictOrder(Order(K), K)
<1>0. Fields \union {NoField} \subseteq Nat
  BY VocabularyAssumption DEF NoField
<1>1. \A k \in K : k[1] \in Nat /\ k[2] \in Nat /\ k = <<k[1], k[2]>>
  BY <1>0
<1>2. \A k, l \in K : <<k, l>> \in Order(K) <=> KeyLess(k, l)
  BY DEF Order
<1>3. \A k \in K : ~ KeyLess(k, k)
  BY <1>1 DEF KeyLess
<1>4. \A k, l, m \in K : KeyLess(k, l) /\ KeyLess(l, m) => KeyLess(k, m)
  BY <1>1 DEF KeyLess
<1>5. \A k, l \in K : k /= l => KeyLess(k, l) \/ KeyLess(l, k)
  <2> TAKE k, l \in K
  <2> HAVE k /= l
  <2>1. k[1] /= l[1] \/ k[2] /= l[2]
    BY <1>1
  <2> QED BY <1>1, <2>1 DEF KeyLess
<1> QED BY <1>2, <1>3, <1>4, <1>5 DEF StrictOrder

\* Each key has one place among the terms.
Enumerates(seq, n, S) ==
  /\ n \in Nat
  /\ \A i \in 1 .. n : seq[i] \in S
  /\ \A i, j \in 1 .. n : seq[i] = seq[j] => i = j
  /\ \A x \in S : \E i \in 1 .. n : seq[i] = x

LEMMA KeysAreSorted ==
  ASSUME NEW K, K \subseteq (Fields \union {NoField}) \X Nat, IsFiniteSet(K)
  PROVE  Enumerates(Sorted(K), Cardinality(K), K)
<1> DEFINE seq == Sorted(K)
           pick(i) == CHOOSE key \in K : Cardinality({other \in K : KeyLess(other, key)}) = i - 1
<1>1. StrictOrder(Order(K), K)
  BY KeysAreOrdered
<1>2. PICK n \in Nat : n = Cardinality(K)
  BY FS_CardinalityType
<1>3. \A k \in K : {l \in K : <<l, k>> \in Order(K)} = {l \in K : KeyLess(l, k)}
  BY DEF Order
<1>4. \A k \in K : Place(Order(K), K, k) = Cardinality({l \in K : KeyLess(l, k)})
  BY <1>3 DEF Place
<1>5. \A i \in 1 .. n : seq[i] = pick(i)
  BY <1>2 DEF Sorted
<1>6. ASSUME NEW i \in 1 .. n PROVE seq[i] \in K /\ Place(Order(K), K, seq[i]) = i - 1
  <2>1. \E k \in K : Place(Order(K), K, k) = i - 1
    BY <1>1, <1>2, EveryPlaceTaken
  <2>2. pick(i) \in K /\ Cardinality({l \in K : KeyLess(l, pick(i))}) = i - 1
    BY <1>4, <2>1
  <2>3. seq[i] = pick(i)
    BY <1>5
  <2> HIDE DEF pick, seq
  <2> QED BY <1>4, <2>2, <2>3
<1> HIDE DEF seq
<1>7. /\ \A i, j \in 1 .. n : seq[i] = seq[j] => i = j
      /\ {seq[i] : i \in 1 .. n} = K
  BY <1>1, <1>2, <1>6, RankedIsSorted
<1> QED BY <1>2, <1>6, <1>7 DEF Enumerates, seq

LEMMA TermsAreKeys ==
  ASSUME NEW s, Asked(s)
  PROVE  /\ DOMAIN PreparedTerms(s) = 1 .. Cardinality(KeySet(s))
         /\ Cardinality(KeySet(s)) \in Nat
         /\ Cardinality(KeySet(s)) <= NumTerms
         /\ Enumerates(Sorted(KeySet(s)), Cardinality(KeySet(s)), KeySet(s))
         /\ \A i \in DOMAIN PreparedTerms(s) :
              /\ Sorted(KeySet(s))[i] = KeyOf(s, i)
              /\ PreparedTerms(s)[i].boost = Boost(s, KeyOf(s, i))
<1> DEFINE K == KeySet(s)
           seq == Sorted(K)
           terms == PreparedTerms(s)
<1>1. K \subseteq (Fields \union {NoField}) \X Nat /\ IsFiniteSet(K)
  BY KeysAreNumbers
<1>2. Enumerates(seq, Cardinality(K), K)
  <2> HIDE DEF K
  <2> QED BY <1>1, KeysAreSorted
<1>3. DOMAIN seq = 1 .. Cardinality(K)
  BY DEF Sorted
<1>4. terms = [i \in DOMAIN seq |-> [field |-> seq[i][1], word |-> seq[i][2], boost |-> Boost(s, seq[i])]]
  BY DEF PreparedTerms, KeySet
<1>5. Cardinality(K) \in Nat
  BY <1>2 DEF Enumerates
<1>6. Len(terms) <= NumTerms
  BY SearchesAssumption DEF Asked
<1> HIDE DEF K, seq, terms
<1>7. DOMAIN terms = 1 .. Cardinality(K)
  BY <1>3, <1>4
<1>8. Len(terms) = Cardinality(K)
  <2>1. terms \in [1 .. Cardinality(K) -> Range(terms)]
    BY <1>3, <1>4 DEF Range
  <2>2. terms \in Seq(Range(terms))
    BY <1>5, <2>1
  <2> QED BY <1>5, <1>7, <2>2
<1>9. \A i \in DOMAIN terms : seq[i] = <<seq[i][1], seq[i][2]>>
  <2>1. \A i \in DOMAIN terms : seq[i] \in K
    BY <1>2, <1>7 DEF Enumerates
  <2> QED BY <1>1, <2>1
<1>10. \A i \in DOMAIN terms : seq[i] = KeyOf(s, i) /\ terms[i].boost = Boost(s, seq[i])
  BY <1>3, <1>4, <1>7, <1>9 DEF KeyOf, terms
<1> QED BY <1>2, <1>5, <1>6, <1>7, <1>8, <1>10 DEF K, seq, terms


-----------------------------------------------------------------------------
\* The documents of a search.

LEMMA DocumentsAreTexts ==
  ASSUME NEW s, Asked(s), NEW d \in Numbers(s.documents), NEW f
  PROVE  /\ d \in Docs
         /\ Text(Document(s, d), f) \in Seq(Nat)
<1>1. s.documents \in Seq(ToSet(s.documents)) /\ Numbers(s.documents) \subseteq Docs
  BY SearchesAssumption DEF Asked
<1>2. d + 1 \in DOMAIN s.documents
  BY <1>1 DEF Numbers
<1>3. s.documents[d + 1] \in ToSet(s.documents)
  BY <1>2 DEF ToSet
<1>4. f \in DOMAIN s.documents[d + 1] => s.documents[d + 1][f] \in Seq(Nat)
  BY <1>3, SearchesAssumption DEF Asked
<1> QED BY <1>1, <1>4 DEF Text, Document

LEMMA HoldersHold ==
  ASSUME NEW s, Asked(s), NEW d \in Numbers(s.documents), NEW f, NEW word
  PROVE  d \in Postings(s.documents, f, word) <=> word \in ToSet(Text(Document(s, d), f))
<1> DEFINE T == Text(Document(s, d), f)
           P == {i \in DOMAIN T : T[i] = word}
<1>1. T \in Seq(Nat)
  BY DocumentsAreTexts
<1>2. P = Positions(s.documents[d + 1], f, word)
  BY DEF Positions, Document
<1>3. d \in Postings(s.documents, f, word) <=> Cardinality(P) > 0
  BY <1>2 DEF Postings, Frequency
<1> HIDE DEF T
<1>4. IsFiniteSet(DOMAIN T)
  <2>1. DOMAIN T = 1 .. Len(T) /\ Len(T) \in Nat
    BY <1>1
  <2> QED BY <2>1, FS_Interval
<1>5. P \subseteq DOMAIN T
  OBVIOUS
<1>6. word \in ToSet(T) <=> P /= {}
  BY DEF ToSet
<1> HIDE DEF P
<1>7. IsFiniteSet(P)
  BY <1>4, <1>5, FS_Subset
<1>8. Cardinality(P) \in Nat /\ (Cardinality(P) = 0 <=> P = {})
  BY <1>7, FS_CardinalityType, FS_EmptySet
<1> QED BY <1>3, <1>6, <1>8 DEF T

LEMMA HoldersAreDocuments ==
  ASSUME NEW s, Asked(s), NEW term, NEW d \in MergedDocuments(s, term)
  PROVE  d \in Numbers(s.documents) /\ d \in Docs
<1>1. Numbers(s.documents) \subseteq Docs
  BY SearchesAssumption DEF Asked
<1> QED BY <1>1 DEF MergedDocuments, Postings

\* What a request is made of.
EmptyTerms(s) == {i \in DOMAIN PreparedTerms(s) : MergedDocuments(s, PreparedTerms(s)[i]) = {}}
GivenTerms(s) ==
  IF s.operator = "And" /\ EmptyTerms(s) /= {} THEN {} ELSE DOMAIN PreparedTerms(s) \ EmptyTerms(s)

LEMMA RequestIs ==
  ASSUME NEW s, Asked(s), NEW q, q = RequestOf(s)
  PROVE  /\ q.operator = s.operator
         /\ q.top_k = s.options.top_k
         /\ q.accepts = {d \in Numbers(s.documents) : MatchesConstraints(s, d)}
         /\ DOMAIN q.postings = Terms
         /\ GivenTerms(s) \subseteq Terms
         /\ \A t \in GivenTerms(s) :
              /\ t \in DOMAIN PreparedTerms(s)
              /\ Listed(q, t) = MergedDocuments(s, PreparedTerms(s)[t])
              /\ Listed(q, t) /= {}
              /\ \A d \in Listed(q, t) : q.postings[t][d] = Impact(s, PreparedTerms(s)[t], d)
         /\ \A t \in Terms \ GivenTerms(s) : Listed(q, t) = {}
<1> DEFINE terms == PreparedTerms(s)
           empty == {i \in DOMAIN terms : MergedDocuments(s, terms[i]) = {}}
           given == IF s.operator = "And" /\ empty /= {} THEN {} ELSE DOMAIN terms \ empty
           lists == [t \in Terms |-> IF t \in given THEN Entries(s, terms[t]) ELSE <<>>]
<1>1. q = [postings |-> lists, operator |-> s.operator, top_k |-> s.options.top_k,
           accepts |-> {d \in Numbers(s.documents) : MatchesConstraints(s, d)}]
  BY DEF RequestOf
<1>2. empty = EmptyTerms(s) /\ given = GivenTerms(s)
  BY DEF EmptyTerms, GivenTerms
<1>3. q.postings = lists
  BY <1>1
<1>4. DOMAIN lists = Terms
  OBVIOUS
<1>5. GivenTerms(s) \subseteq DOMAIN PreparedTerms(s)
  BY DEF GivenTerms
<1>6. DOMAIN PreparedTerms(s) \subseteq Terms
  BY TermsAreKeys, SizesAssumption DEF Terms
<1>7. ASSUME NEW t \in GivenTerms(s)
      PROVE  /\ Listed(q, t) = MergedDocuments(s, PreparedTerms(s)[t])
             /\ Listed(q, t) /= {}
             /\ \A d \in Listed(q, t) : q.postings[t][d] = Impact(s, PreparedTerms(s)[t], d)
  <2>1. lists[t] = Entries(s, terms[t])
    BY <1>2, <1>5, <1>6
  <2>2. terms[t] = PreparedTerms(s)[t] /\ MergedDocuments(s, PreparedTerms(s)[t]) /= {}
    BY DEF GivenTerms, EmptyTerms
  <2> HIDE DEF lists, terms
  <2> QED BY <1>3, <2>1, <2>2 DEF Listed, Entries
<1>8. ASSUME NEW t \in Terms \ GivenTerms(s) PROVE Listed(q, t) = {}
  <2>1. lists[t] = <<>>
    BY <1>2
  <2> HIDE DEF lists
  <2> QED BY <1>3, <2>1 DEF Listed
<1> HIDE DEF lists
<1>9. /\ q.operator = s.operator
      /\ q.top_k = s.options.top_k
      /\ q.accepts = {d \in Numbers(s.documents) : MatchesConstraints(s, d)}
  BY <1>1
<1> QED BY <1>3, <1>4, <1>5, <1>6, <1>7, <1>8, <1>9

-----------------------------------------------------------------------------
\* Scores are numbers.

LEMMA BoostsAreNumbers ==
  ASSUME NEW s, Asked(s)
  PROVE  /\ \A i \in DOMAIN s.terms : s.terms[i].boost \in Int
         /\ \A key : Boost(s, key) \in Int
<1>1. ASSUME NEW i \in DOMAIN s.terms PROVE s.terms[i].boost \in Int
  <2>1. s.terms[i] \in ToSet(s.terms)
    BY DEF ToSet
  <2>2. s.terms[i].boost \in 1 .. MaxBoost
    BY <2>1 DEF Asked, Accepted, IsSearchQuery
  <2> QED BY <2>2, VocabularyAssumption
<1>2. ASSUME NEW key PROVE Boost(s, key) \in Int
  <2> DEFINE S == {i \in DOMAIN s.terms : Key(s.terms[i]) = key}
             f == [i \in S |-> s.terms[i].boost]
  <2>1. IsFiniteSet(DOMAIN s.terms)
    <3>1. DOMAIN s.terms = 1 .. Len(s.terms) /\ Len(s.terms) \in Nat
      BY KeysAreNumbers
    <3> QED BY <3>1, FS_Interval
  <2>2. IsFiniteSet(S)
    BY <2>1, FS_Subset
  <2>3. DOMAIN f = S /\ \A i \in S : f[i] \in Int
    BY <1>1
  <2>4. Boost(s, key) = SumFunction(f)
    BY DEF Boost
  <2> HIDE DEF S, f
  <2> QED BY <2>2, <2>3, <2>4, SumOfIntegers
<1> QED BY <1>1, <1>2

\* A field in which a term of the query is looked for.
LEMMA FieldsAreSearched ==
  ASSUME NEW s, Asked(s), NEW j \in DOMAIN s.terms, NEW f \in SearchedFields(s.terms[j].field)
  PROVE  /\ f \in Fields
         /\ Scored(s, f, Key(s.terms[j])[2])
<1>1. s.terms[j].field \in Fields \union {NoField}
  BY SearchesAssumption DEF Asked
<1>2. f \in Fields
  BY <1>1 DEF SearchedFields
<1>3. Scored(s, f, Analyzed(s.terms[j].text)[1])
  BY <1>2, SearchesAssumption DEF Asked
<1> QED BY <1>2, <1>3 DEF Key

\* A term of the request is a term of the query.
LEMMA TermIsAsked ==
  ASSUME NEW s, Asked(s), NEW i \in DOMAIN PreparedTerms(s)
  PROVE  \E j \in DOMAIN s.terms :
           /\ KeyOf(s, i) = Key(s.terms[j])
           /\ PreparedTerms(s)[i].field = s.terms[j].field
           /\ PreparedTerms(s)[i].word = Key(s.terms[j])[2]
<1>1. KeyOf(s, i) \in KeySet(s)
  BY TermsAreKeys DEF Enumerates
<1>2. PICK j \in DOMAIN s.terms : KeyOf(s, i) = Key(s.terms[j])
  BY <1>1, KeysAreNumbers
<1>3. KeyOf(s, i)[1] = PreparedTerms(s)[i].field /\ KeyOf(s, i)[2] = PreparedTerms(s)[i].word
  BY DEF KeyOf
<1>4. Key(s.terms[j])[1] = s.terms[j].field
  BY DEF Key
<1> QED BY <1>2, <1>3, <1>4

LEMMA FieldScoresAreNumbers ==
  ASSUME NEW s, Asked(s), NEW i \in DOMAIN PreparedTerms(s), NEW d
  PROVE  /\ IsFiniteSet(HoldingFields(s, PreparedTerms(s)[i], d))
         /\ \A f \in HoldingFields(s, PreparedTerms(s)[i], d) :
              /\ FieldScore(s.documents, Whole(s), s.options.model, f, PreparedTerms(s)[i].word, d) \in Int
              /\ FieldScore(s.documents, s.documents, Default, f, PreparedTerms(s)[i].word, d) \in Int
<1>1. PICK j \in DOMAIN s.terms : /\ PreparedTerms(s)[i].field = s.terms[j].field
                                  /\ PreparedTerms(s)[i].word = Key(s.terms[j])[2]
  BY TermIsAsked
<1>2. ASSUME NEW f \in HoldingFields(s, PreparedTerms(s)[i], d)
      PROVE  /\ f \in Fields
             /\ Scored(s, f, PreparedTerms(s)[i].word)
             /\ d \in Postings(s.documents, f, PreparedTerms(s)[i].word)
  <2>1. /\ f \in SearchedFields(s.terms[j].field)
        /\ d \in Postings(s.documents, f, PreparedTerms(s)[i].word)
    BY <1>1 DEF HoldingFields
  <2> QED BY <1>1, <2>1, FieldsAreSearched
<1>3. IsFiniteSet(HoldingFields(s, PreparedTerms(s)[i], d))
  <2>1. HoldingFields(s, PreparedTerms(s)[i], d) \subseteq Fields
    BY <1>2
  <2> QED BY <2>1, VocabularyAssumption, FS_Subset
<1> QED BY <1>2, <1>3 DEF Scored


LEMMA ImpactsAreNumbers ==
  ASSUME NEW s, Asked(s), NEW i \in DOMAIN PreparedTerms(s), NEW d
  PROVE  /\ MergedScore(s, PreparedTerms(s)[i], d) \in Int
         /\ Impact(s, PreparedTerms(s)[i], d) \in Int
<1> DEFINE term == PreparedTerms(s)[i]
           H == HoldingFields(s, term, d)
           f == [g \in H |-> FieldScore(s.documents, Whole(s), s.options.model, g, term.word, d) * term.boost]
<1>1. term.boost \in Int
  BY TermsAreKeys, BoostsAreNumbers
<1>2. IsFiniteSet(H) /\ \A g \in H : f[g] \in Int
  BY <1>1, FieldScoresAreNumbers
<1>3. MergedScore(s, term, d) = SumFunction(f)
  BY DEF MergedScore
<1>4. DOMAIN f = H
  OBVIOUS
<1> HIDE DEF H, f
<1>5. MergedScore(s, term, d) \in Int
  BY <1>2, <1>3, <1>4, SumOfIntegers
<1>6. Quantized(MergedScore(s, term, d)) \in Int
  <2> DEFINE x == MergedScore(s, term, d) * (Quantizer.range - 1)
             m == Quantizer.maxImpact
  <2>1. x \in Int /\ m \in Nat \ {0}
    BY <1>5, VocabularyAssumption
  <2>2. Quantized(MergedScore(s, term, d)) = x \div m + 1
    BY DEF Quantized
  <2> HIDE DEF x, m
  <2> QED BY <2>1, <2>2
<1> QED BY <1>5, <1>6 DEF Impact

\* With exact sums the order of the terms does not matter.
LEMMA AddedIsSum ==
  ASSUME ExactSums, NEW q, NEW d, NEW S \in SUBSET Terms, \A t \in S : q.postings[t][d] \in Int
  PROVE  /\ Added(q, S, d) = SumFunction([t \in S |-> q.postings[t][d]])
         /\ Added(q, S, d) \in Int
<1> DEFINE g == [t \in S |-> q.postings[t][d]]
           Upto(n) == {t \in S : t <= n}
           Step(u) == [n \in 0 .. NumTerms |->
                         IF n = 0 THEN 0
                         ELSE IF n \in S THEN Plus(u[n - 1], q.postings[n][d])
                         ELSE u[n - 1]]
           w == [n \in 0 .. NumTerms |-> SumOver(g, Upto(n))]
           u == CHOOSE upTo : upTo = Step(upTo)
<1>1. /\ NumTerms \in Nat /\ S \subseteq 1 .. NumTerms /\ IsFiniteSet(S)
      /\ \A t \in S : g[t] = q.postings[t][d] /\ g[t] \in Int
  <2>1. NumTerms \in Nat /\ S \subseteq 1 .. NumTerms
    BY SizesAssumption DEF Terms
  <2>2. IsFiniteSet(1 .. NumTerms)
    BY <2>1, FS_Interval
  <2> QED BY <2>1, <2>2, FS_Subset
<1>a. \A t \in S : t \in Nat /\ 1 <= t /\ t <= NumTerms
  BY <1>1
<1>2. DOMAIN g = S
  OBVIOUS
<1>3. Added(q, S, d) = u[NumTerms]
  BY DEF Added
<1> HIDE DEF g
<1>4. ASSUME NEW n \in 0 .. NumTerms
      PROVE  w[n] = (IF n = 0 THEN 0
                     ELSE IF n \in S THEN Plus(w[n - 1], q.postings[n][d])
                     ELSE w[n - 1])
  <2>1. CASE n = 0
    <3>1. Upto(n) = {}
      <4>1. \A t \in S : ~ (t <= 0)
        BY <1>a
      <4> QED BY <2>1, <4>1
    <3> DEFINE e == [t \in {} |-> g[t]]
    <3>2. DOMAIN e = {}
      OBVIOUS
    <3>3. w[n] = SumFunction(e)
      BY <3>1 DEF SumOver
    <3> HIDE DEF e, w
    <3>4. SumFunction(e) = 0
      BY <3>2, SumOfNone
    <3> QED BY <2>1, <3>3, <3>4
  <2>2. CASE n /= 0
    <3>1. n - 1 \in 0 .. NumTerms
      BY <1>1, <2>2
    <3>2. w[n] = SumOver(g, Upto(n)) /\ w[n - 1] = SumOver(g, Upto(n - 1))
      BY <3>1
    <3>3. CASE n \in S
      <4> DEFINE T == Upto(n)
      <4>1. T \ {n} = Upto(n - 1) /\ n \in T
        <5>1. n \in Nat /\ \A t \in S : (t <= n /\ t /= n) <=> t <= n - 1
          BY <1>1, <1>a
        <5>2. n <= n
          BY <5>1
        <5> QED BY <3>3, <5>1, <5>2
      <4>2. IsFiniteSet(T) /\ \A t \in T : g[t] \in Int
        BY <1>1, FS_Subset
      <4> HIDE DEF T
      <4>3. SumOver(g, T \ {n}) \in Int /\ SumOver(g, T) = SumOver(g, T \ {n}) + g[n]
        BY <4>1, <4>2, SumOfOneMore
      <4>4. w[n] = w[n - 1] + g[n] /\ w[n - 1] \in Int
        <5> HIDE DEF w
        <5> QED BY <3>2, <4>1, <4>3 DEF T
      <4>5. g[n] \in Int /\ g[n] = q.postings[n][d]
        BY <1>1, <3>3
      <4> HIDE DEF w
      <4>6. Plus(w[n - 1], g[n]) = w[n - 1] + g[n]
        BY <4>4, <4>5 DEF ExactSums
      <4> QED BY <2>2, <3>3, <4>4, <4>5, <4>6
    <3>4. CASE n \notin S
      <4>1. Upto(n) = Upto(n - 1)
        <5>1. n \in Nat /\ \A t \in S : t <= n <=> t <= n - 1 \/ t = n
          BY <1>1, <1>a
        <5> QED BY <3>4, <5>1
      <4> QED BY <2>2, <3>2, <3>4, <4>1
    <3> QED BY <3>3, <3>4
  <2> QED BY <2>1, <2>2
<1>5. w = Step(w)
  BY <1>4
<1>6. u = Step(u)
  <2> HIDE DEF w
  <2> QED BY <1>5
<1>7. \A n \in 0 .. NumTerms :
        u[n] = (IF n = 0 THEN 0
                ELSE IF n \in S THEN Plus(u[n - 1], q.postings[n][d])
                ELSE u[n - 1])
  <2> HIDE DEF u
  <2> QED BY <1>6
<1> HIDE DEF u, w
<1>8. \A n \in 0 .. NumTerms : u[n] = w[n]
  <2> DEFINE Bad == {0 .. n : n \in {m \in 0 .. NumTerms : u[m] /= w[m]}}
  <2>1. ASSUME NEW T \in Bad PROVE \E V \in Bad : V \subseteq T /\ V /= T
    <3>1. PICK n \in 0 .. NumTerms : T = 0 .. n /\ u[n] /= w[n]
      OBVIOUS
    <3>2. n /= 0
      BY <1>4, <1>7, <3>1
    <3>3. n - 1 \in 0 .. NumTerms
      BY <1>1, <3>2
    <3>4. u[n - 1] /= w[n - 1]
      BY <1>4, <1>7, <3>1, <3>2
    <3>5. 0 .. (n - 1) \in Bad
      BY <3>3, <3>4
    <3>6. 0 .. (n - 1) \subseteq T /\ n \in T /\ n \notin 0 .. (n - 1)
      BY <1>1, <3>1
    <3> QED BY <3>5, <3>6
  <2>2. Bad \in SUBSET (SUBSET (0 .. NumTerms))
    BY <1>1
  <2>3. IsFiniteSet(0 .. NumTerms)
    BY <1>1, FS_Interval
  <2>4. Bad = {}
    <3> HIDE DEF Bad
    <3> QED BY <2>1, <2>2, <2>3, NoLeast
  <2> QED BY <2>4
<1>9. Upto(NumTerms) = S
  BY <1>a
<1>10. w[NumTerms] = SumOver(g, S)
  BY <1>1, <1>9 DEF w
<1>11. SumOver(g, S) = SumFunction(g)
  BY <1>2 DEF SumOver, g
<1>12. u[NumTerms] = SumFunction(g)
  BY <1>1, <1>8, <1>10, <1>11
<1>13. SumFunction(g) \in Int
  BY <1>1, <1>2, SumOfIntegers
<1> QED BY <1>3, <1>12, <1>13 DEF g


-----------------------------------------------------------------------------
\* The request of a search is well formed.

LEMMA RequestIsQuery ==
  ASSUME NEW s, Asked(s), NEW q, q = RequestOf(s)
  PROVE  IsQuery(q)
<1>1. q.operator \in Operators /\ q.top_k \in Nat \ {0}
  <2>1. s.operator \in Operators /\ s.options.top_k \in Nat
    BY SearchesAssumption DEF Asked
  <2>2. s.options.top_k > 0
    BY DEF Asked, Accepted, ValidOptions
  <2>3. q.operator = s.operator /\ q.top_k = s.options.top_k
    BY RequestIs
  <2> QED BY <2>1, <2>2, <2>3
<1>2. q.accepts \subseteq Docs
  <2>1. Numbers(s.documents) \subseteq Docs
    BY SearchesAssumption DEF Asked
  <2> QED BY <2>1, RequestIs
<1>3. ASSUME NEW t \in Terms
      PROVE  Listed(q, t) \subseteq Docs /\ \A d \in Listed(q, t) : q.postings[t][d] \in Int
  <2>1. CASE t \in GivenTerms(s)
    <3>1. /\ t \in DOMAIN PreparedTerms(s)
          /\ Listed(q, t) = MergedDocuments(s, PreparedTerms(s)[t])
          /\ \A d \in Listed(q, t) : q.postings[t][d] = Impact(s, PreparedTerms(s)[t], d)
      BY <2>1, RequestIs
    <3>2. Listed(q, t) \subseteq Docs
      BY <3>1, HoldersAreDocuments
    <3>3. \A d : Impact(s, PreparedTerms(s)[t], d) \in Int
      BY <3>1, ImpactsAreNumbers
    <3> QED BY <3>1, <3>2, <3>3
  <2>2. CASE t \notin GivenTerms(s)
    <3>1. Listed(q, t) = {}
      BY <2>2, RequestIs
    <3> QED BY <3>1
  <2> QED BY <2>1, <2>2
<1>4. DOMAIN q.postings = Terms
  BY RequestIs
<1> QED BY <1>1, <1>2, <1>3, <1>4 DEF IsQuery

LEMMA ScoreIsSum ==
  ASSUME ExactSums, NEW q, IsQuery(q), NEW d
  PROVE  /\ Score(q, d) = SumFunction([t \in Matching(q, d) |-> q.postings[t][d]])
         /\ Score(q, d) \in Int
<1>1. Terms \intersect Matching(q, d) = Matching(q, d) /\ Matching(q, d) \in SUBSET Terms
  BY DEF Matching
<1>2. \A t \in Matching(q, d) : q.postings[t][d] \in Int
  BY DEF Matching, IsQuery
<1>3. Score(q, d) = Added(q, Matching(q, d), d)
  BY <1>1 DEF Score, SumOfScores
<1> DEFINE S == Matching(q, d)
<1>4. S \in SUBSET Terms /\ \A t \in S : q.postings[t][d] \in Int
  BY <1>1, <1>2
<1> HIDE DEF S
<1>5. Added(q, S, d) = SumFunction([t \in S |-> q.postings[t][d]]) /\ Added(q, S, d) \in Int
  BY <1>4, AddedIsSum
<1> QED BY <1>3, <1>5 DEF S

LEMMA RequestIsProper ==
  ASSUME ExactSums, NEW s, Asked(s), NEW q, q = RequestOf(s)
  PROVE  Proper(q)
BY RequestIsQuery, ScoreIsSum DEF Proper

-----------------------------------------------------------------------------
\* The documents of a request are those the query names.

\* The term of the request that a term of the query became.
Became(s, j) == CHOOSE i \in DOMAIN PreparedTerms(s) : KeyOf(s, i) = Key(s.terms[j])

LEMMA TermsBecome ==
  ASSUME NEW s, Asked(s)
  PROVE  /\ \A j \in DOMAIN s.terms :
              Became(s, j) \in DOMAIN PreparedTerms(s) /\ KeyOf(s, Became(s, j)) = Key(s.terms[j])
         /\ \A i \in DOMAIN PreparedTerms(s), j \in DOMAIN s.terms :
              Became(s, j) = i <=> Key(s.terms[j]) = KeyOf(s, i)
<1>1. ASSUME NEW j \in DOMAIN s.terms
      PROVE  Became(s, j) \in DOMAIN PreparedTerms(s) /\ KeyOf(s, Became(s, j)) = Key(s.terms[j])
  <2>1. Key(s.terms[j]) \in KeySet(s)
    BY KeysAreNumbers
  <2>2. \E i \in DOMAIN PreparedTerms(s) : KeyOf(s, i) = Key(s.terms[j])
    BY <2>1, TermsAreKeys DEF Enumerates
  <2> QED BY <2>2 DEF Became
<1>2. \A i, k \in DOMAIN PreparedTerms(s) : KeyOf(s, i) = KeyOf(s, k) => i = k
  BY TermsAreKeys DEF Enumerates
<1> QED BY <1>1, <1>2

LEMMA FieldsHold ==
  ASSUME NEW s, Asked(s), NEW j \in DOMAIN s.terms, NEW d \in Numbers(s.documents)
  PROVE  /\ HoldingFields(s, PreparedTerms(s)[Became(s, j)], d)
              = {f \in SearchedFields(s.terms[j].field) :
                   Analyzed(s.terms[j].text)[1] \in ToSet(Text(Document(s, d), f))}
         /\ PreparedTerms(s)[Became(s, j)].word = Analyzed(s.terms[j].text)[1]
<1> DEFINE term == PreparedTerms(s)[Became(s, j)]
<1>1. KeyOf(s, Became(s, j)) = Key(s.terms[j])
  BY TermsBecome
<1>2. term.field = s.terms[j].field /\ term.word = Analyzed(s.terms[j].text)[1]
  BY <1>1 DEF KeyOf, Key
<1>3. \A f : d \in Postings(s.documents, f, term.word) <=> term.word \in ToSet(Text(Document(s, d), f))
  BY HoldersHold
<1> QED BY <1>2, <1>3 DEF HoldingFields

LEMMA MergedHold ==
  ASSUME NEW s, NEW term, NEW d
  PROVE  d \in MergedDocuments(s, term) <=> HoldingFields(s, term, d) /= {}
BY DEF MergedDocuments, HoldingFields

LEMMA HoldsIsListed ==
  ASSUME Asked(search), NEW j \in DOMAIN search.terms, NEW d \in Numbers(search.documents)
  PROVE  Holds(search.terms[j], d) <=> d \in MergedDocuments(search, PreparedTerms(search)[Became(search, j)])
<1> DEFINE H == HoldingFields(search, PreparedTerms(search)[Became(search, j)], d)
<1>1. H = {f \in SearchedFields(search.terms[j].field) :
             Analyzed(search.terms[j].text)[1] \in ToSet(Text(Document(search, d), f))}
  BY FieldsHold
<1>2. Holds(search.terms[j], d) <=> H /= {}
  <2> HIDE DEF H
  <2> QED BY <1>1 DEF Holds
<1> QED BY <1>2, MergedHold


\* Positions one after the other are the words of the phrase in the text.
Follows(text, words, start) == \A i \in DOMAIN words : start + i - 1 \in DOMAIN text /\ text[start + i - 1] = words[i]

LEMMA PhraseIsRead ==
  ASSUME NEW text \in Seq(Nat), NEW words \in Seq(Nat), words /= <<>>
  PROVE  /\ \A start \in DOMAIN text : Follows(text, words, start) =>
              /\ start \in 1 .. Len(text) - Len(words) + 1
              /\ SubSeq(text, start, start + Len(words) - 1) = words
         /\ \A start \in 1 .. Len(text) - Len(words) + 1 :
              SubSeq(text, start, start + Len(words) - 1) = words =>
                start \in DOMAIN text /\ Follows(text, words, start)
<1> DEFINE n == Len(words)
           m == Len(text)
<1>1. /\ n \in Nat \ {0} /\ DOMAIN words = 1 .. n /\ m \in Nat /\ DOMAIN text = 1 .. m
      /\ \A i \in 1 .. n : words[i] \in Nat
  OBVIOUS
<1>2. ASSUME NEW start \in 1 .. m - n + 1
      PROVE  LET part == SubSeq(text, start, start + n - 1)
             IN  /\ part \in Seq(Nat) /\ Len(part) = n
                 /\ \A i \in 1 .. n : part[i] = text[start + i - 1]
  <2>1. start \in Int /\ 1 <= start /\ start + n - 1 <= m
    BY <1>1
  <2> QED BY <1>1, <2>1
<1>3. ASSUME NEW start \in DOMAIN text, Follows(text, words, start)
      PROVE  start \in 1 .. m - n + 1 /\ SubSeq(text, start, start + n - 1) = words
  <2>1. start + n - 1 \in 1 .. m
    <3>1. n \in DOMAIN words
      BY <1>1
    <3>2. start + n - 1 \in DOMAIN text
      BY <1>3, <3>1 DEF Follows
    <3> QED BY <1>1, <3>2
  <2>2. start \in 1 .. m - n + 1
    BY <1>1, <2>1
  <2> DEFINE part == SubSeq(text, start, start + n - 1)
  <2>3. part \in Seq(Nat) /\ Len(part) = n /\ \A i \in 1 .. n : part[i] = words[i]
    BY <1>1, <1>2, <1>3, <2>2 DEF Follows
  <2> HIDE DEF part
  <2>4. part = words
    BY <1>1, <2>3
  <2> QED BY <2>2, <2>4 DEF part
<1>4. ASSUME NEW start \in 1 .. m - n + 1, SubSeq(text, start, start + n - 1) = words
      PROVE  start \in DOMAIN text /\ Follows(text, words, start)
  <2>1. \A i \in 1 .. n : words[i] = text[start + i - 1]
    BY <1>2, <1>4
  <2>2. \A i \in 1 .. n : start + i - 1 \in 1 .. m
    BY <1>1
  <2>3. start \in 1 .. m
    BY <1>1
  <2> QED BY <1>1, <2>1, <2>2, <2>3 DEF Follows
<1> QED BY <1>3, <1>4

LEMMA PhrasesAreRead ==
  ASSUME Asked(search), NEW phrase \in ToSet(search.phrases), NEW d \in Numbers(search.documents)
  PROVE  MatchesPhrase(search, phrase, d) <=> ReadsPhrase(phrase, d)
<1> DEFINE words == Analyzed(phrase.text)
           text(f) == Text(Document(search, d), f)
           M(f) == /\ \A word \in ToSet(words) : d \in Postings(search.documents, f, word)
                   /\ \E start \in Positions(Document(search, d), f, words[1]) :
                        \A i \in DOMAIN words :
                          start + i - 1 \in Positions(Document(search, d), f, words[i])
           R(f) == \E i \in 1 .. Len(text(f)) - Len(words) + 1 :
                     SubSeq(text(f), i, i + Len(words) - 1) = words
<1>1. words \in Seq(Nat) /\ words /= <<>>
  <2>1. PICK i \in DOMAIN search.phrases : phrase = search.phrases[i]
    BY DEF ToSet
  <2>2. words \in Seq(Nat)
    BY <2>1, SearchesAssumption DEF Asked
  <2>3. words /= <<>>
    BY DEF Asked, Accepted, IsSearchQuery
  <2> QED BY <2>2, <2>3
<1>2. ASSUME NEW f PROVE M(f) <=> R(f)
  <2> DEFINE T == text(f)
  <2>1. T \in Seq(Nat)
    BY DocumentsAreTexts
  <2>2. \A word : d \in Postings(search.documents, f, word) <=> word \in ToSet(T)
    BY HoldersHold
  <2>3. \A word, p : p \in Positions(Document(search, d), f, word) <=> p \in DOMAIN T /\ T[p] = word
    BY DEF Positions
  <2>4. 1 \in DOMAIN words
    BY <1>1
  <2> HIDE DEF words, T
  <2>5. ASSUME M(f) PROVE R(f)
    <3>1. PICK start \in Positions(Document(search, d), f, words[1]) :
            \A i \in DOMAIN words : start + i - 1 \in Positions(Document(search, d), f, words[i])
      BY <2>5
    <3>2. start \in DOMAIN T /\ Follows(T, words, start)
      BY <2>3, <3>1 DEF Follows
    <3>3. start \in 1 .. Len(T) - Len(words) + 1 /\ SubSeq(T, start, start + Len(words) - 1) = words
      BY <1>1, <2>1, <3>2, PhraseIsRead
    <3> QED BY <3>3 DEF T
  <2>6. ASSUME R(f) PROVE M(f)
    <3>1. PICK start \in 1 .. Len(T) - Len(words) + 1 : SubSeq(T, start, start + Len(words) - 1) = words
      BY <2>6 DEF T
    <3>2. start \in DOMAIN T /\ Follows(T, words, start)
      BY <1>1, <2>1, <3>1, PhraseIsRead
    <3>3. \A i \in DOMAIN words : start + i - 1 \in Positions(Document(search, d), f, words[i])
      BY <2>3, <3>2 DEF Follows
    <3>4. start \in Positions(Document(search, d), f, words[1])
      <4>1. T[start] = words[1]
        <5>1. start + 1 - 1 = start
          BY <1>1, <2>1, <3>2
        <5> QED BY <2>4, <3>2, <5>1 DEF Follows
      <4> QED BY <2>3, <3>2, <4>1
    <3>5. \A word \in ToSet(words) : word \in ToSet(T)
      BY <3>2 DEF ToSet, Follows
    <3> QED BY <2>2, <3>3, <3>4, <3>5
  <2> QED BY <2>5, <2>6
<1>3. MatchesPhrase(search, phrase, d) <=> \E f \in SearchedFields(phrase.field) : M(f)
  BY DEF MatchesPhrase
<1>4. ReadsPhrase(phrase, d) <=> \E f \in SearchedFields(phrase.field) : R(f)
  BY DEF ReadsPhrase
<1> HIDE DEF M, R
<1> QED BY <1>2, <1>3, <1>4


\* The operator, too, selects the documents the terms of the query select.
LEMMA NamedAreSelected ==
  ASSUME Asked(search), query = RequestOf(search), NEW d \in Numbers(search.documents)
  PROVE  d \in Candidates(query) <=>
           IF search.operator = "And"
           THEN \A j \in DOMAIN search.terms : Holds(search.terms[j], d)
           ELSE \E j \in DOMAIN search.terms : Holds(search.terms[j], d)
<1> DEFINE P == DOMAIN PreparedTerms(search)
           Merged(i) == MergedDocuments(search, PreparedTerms(search)[i])
<1>1. d \in Docs
  BY SearchesAssumption DEF Asked
<1>2. \A j \in DOMAIN search.terms : Holds(search.terms[j], d) <=> d \in Merged(Became(search, j))
  BY HoldsIsListed
<1>3. /\ \A j \in DOMAIN search.terms : Became(search, j) \in P
      /\ \A i \in P : \E j \in DOMAIN search.terms : Became(search, j) = i
      /\ P /= {}
  <2>1. \A j \in DOMAIN search.terms : Became(search, j) \in P
    BY TermsBecome
  <2>2. ASSUME NEW i \in P PROVE \E j \in DOMAIN search.terms : Became(search, j) = i
    <3>1. PICK j \in DOMAIN search.terms : KeyOf(search, i) = Key(search.terms[j])
      BY TermIsAsked
    <3> QED BY <3>1, TermsBecome
  <2>3. 1 \in DOMAIN search.terms
    BY KeysAreNumbers
  <2> QED BY <2>1, <2>2, <2>3
<1>4. /\ GivenTerms(search) = IF search.operator = "And" /\ \E i \in P : Merged(i) = {} THEN {}
                              ELSE {i \in P : Merged(i) /= {}}
  BY DEF GivenTerms, EmptyTerms
<1>5. /\ GivenTerms(search) \subseteq Terms
      /\ \A t \in GivenTerms(search) : Listed(query, t) = Merged(t) /\ Listed(query, t) /= {}
      /\ \A t \in Terms \ GivenTerms(search) : Listed(query, t) = {}
      /\ query.operator = search.operator
  BY RequestIs
<1>6. search.operator \in Operators
  BY SearchesAssumption DEF Asked
<1> HIDE DEF Merged, P
<1>7. Scorers(query) = GivenTerms(search)
  BY <1>5 DEF Scorers
<1>8. Matching(query, d) = {t \in GivenTerms(search) : d \in Merged(t)}
  BY <1>5 DEF Matching
<1>9. CASE search.operator = "Or"
  <2>1. GivenTerms(search) = {i \in P : Merged(i) /= {}}
    BY <1>4, <1>9
  <2>2. d \in Candidates(query) <=> Matching(query, d) /= {}
    BY <1>1, <1>5, <1>9 DEF Candidates
  <2>3. Matching(query, d) /= {} <=> \E i \in P : d \in Merged(i)
    BY <1>8, <2>1
  <2>4. (\E i \in P : d \in Merged(i)) <=> \E j \in DOMAIN search.terms : d \in Merged(Became(search, j))
    BY <1>3
  <2> QED BY <1>2, <1>9, <2>2, <2>3, <2>4
<1>10. CASE search.operator = "And"
  <2>1. d \in Candidates(query) <=> Matching(query, d) /= {} /\ Matching(query, d) = Scorers(query)
    BY <1>1, <1>5, <1>10 DEF Candidates
  <2>2. (\A j \in DOMAIN search.terms : d \in Merged(Became(search, j))) <=> \A i \in P : d \in Merged(i)
    BY <1>3
  <2>3. CASE \E i \in P : Merged(i) = {}
    <3>1. GivenTerms(search) = {}
      BY <1>4, <1>10, <2>3
    <3>2. d \notin Candidates(query)
      BY <1>8, <2>1, <3>1
    <3>3. ~ \A i \in P : d \in Merged(i)
      BY <2>3
    <3> QED BY <1>2, <1>10, <2>2, <3>2, <3>3
  <2>4. CASE ~ \E i \in P : Merged(i) = {}
    <3>1. GivenTerms(search) = P
      BY <1>4, <2>4
    <3>2. Matching(query, d) = {t \in P : d \in Merged(t)} /\ Scorers(query) = P
      BY <1>7, <1>8, <3>1
    <3>3. d \in Candidates(query) <=> \A i \in P : d \in Merged(i)
      BY <1>3, <2>1, <3>2
    <3> QED BY <1>2, <1>10, <2>2, <3>3
  <2> QED BY <2>3, <2>4
<1> QED BY <1>6, <1>9, <1>10 DEF Operators

LEMMA AcceptedAreNamed ==
  ASSUME Asked(search), query = RequestOf(search)
  PROVE  Candidates(query) \intersect query.accepts = Named
<1>1. query.accepts = {d \in Numbers(search.documents) : MatchesConstraints(search, d)}
  BY RequestIs
<1>2. ASSUME NEW d \in Numbers(search.documents)
      PROVE  MatchesConstraints(search, d) <=>
               /\ \A phrase \in ToSet(search.phrases) : ReadsPhrase(phrase, d)
               /\ \A filter \in ToSet(search.filters) :
                    /\ filter.field \in DOMAIN Document(search, d)
                    /\ Document(search, d)[filter.field] = filter.value
  <2>1. \A phrase \in ToSet(search.phrases) : MatchesPhrase(search, phrase, d) <=> ReadsPhrase(phrase, d)
    BY PhrasesAreRead
  <2> QED BY <2>1 DEF MatchesConstraints
<1> QED BY <1>1, <1>2, NamedAreSelected DEF Named


-----------------------------------------------------------------------------
\* The score of the merged terms is the score of the terms as they were written.

\* What the fields of a document that hold the word of a term score together.
FieldSum(s, i, d) ==
  SumFunction([f \in HoldingFields(s, PreparedTerms(s)[i], d) |->
                 FieldScore(s.documents, Whole(s), s.options.model, f, PreparedTerms(s)[i].word, d)])

LEMMA MergedIsMultiple ==
  ASSUME NEW s, Asked(s), NEW i \in DOMAIN PreparedTerms(s), NEW d
  PROVE  /\ FieldSum(s, i, d) \in Int
         /\ MergedScore(s, PreparedTerms(s)[i], d) = FieldSum(s, i, d) * Boost(s, KeyOf(s, i))
         /\ HoldingFields(s, PreparedTerms(s)[i], d) = {} => MergedScore(s, PreparedTerms(s)[i], d) = 0
<1> DEFINE term == PreparedTerms(s)[i]
           H == HoldingFields(s, term, d)
           f == [g \in H |-> FieldScore(s.documents, Whole(s), s.options.model, g, term.word, d)]
           h == [g \in H |-> FieldScore(s.documents, Whole(s), s.options.model, g, term.word, d) * term.boost]
<1>1. term.boost = Boost(s, KeyOf(s, i)) /\ term.boost \in Int
  BY TermsAreKeys, BoostsAreNumbers
<1>2. IsFiniteSet(H) /\ DOMAIN f = H /\ DOMAIN h = H
  BY FieldScoresAreNumbers
<1>3. \A g \in H : f[g] \in Int /\ h[g] = f[g] * term.boost
  BY FieldScoresAreNumbers
<1>4. FieldSum(s, i, d) = SumFunction(f) /\ MergedScore(s, term, d) = SumFunction(h)
  BY DEF FieldSum, MergedScore
<1> HIDE DEF H, f, h
<1>5. SumFunction(f) \in Int
  BY <1>2, <1>3, SumOfIntegers
<1>6. SumFunction(h) = SumFunction(f) * term.boost
  BY <1>1, <1>2, <1>3, SumOfMultiples
<1>7. H = {} => SumFunction(h) = 0
  BY <1>2, SumOfNone
<1> QED BY <1>1, <1>4, <1>5, <1>6, <1>7 DEF H

\* The explanation adds up what every term adds, also the terms that add nothing.
LEMMA ScoreIsExplained ==
  ASSUME ExactSums, Asked(search), query = RequestOf(search),
         search.options.model.scoring /= "QuantizedBm25", NEW d \in Candidates(query)
  PROVE  Score(query, d) = ExplainedTotal(search, d)
<1> DEFINE P == DOMAIN PreparedTerms(search)
           M == Matching(query, d)
           f == [i \in P |-> MergedScore(search, PreparedTerms(search)[i], d)]
           g == [t \in M |-> query.postings[t][d]]
<1>1. IsFiniteSet(P) /\ P = DOMAIN f /\ M = DOMAIN g
  BY TermsAreKeys, FS_Interval
<1>2. M /= {} /\ M \subseteq Terms
  BY DEF Candidates, Matching
<1>3. \A t \in M : t \in GivenTerms(search)
  BY RequestIs DEF Matching
<1>4. GivenTerms(search) = P \ EmptyTerms(search)
  BY <1>2, <1>3 DEF GivenTerms
<1>5. ASSUME NEW t \in M PROVE t \in P /\ g[t] = f[t]
  <2>1. /\ t \in P /\ t \in Terms /\ d \in Listed(query, t)
        /\ query.postings[t][d] = Impact(search, PreparedTerms(search)[t], d)
    BY <1>3, RequestIs DEF Matching
  <2> QED BY <2>1 DEF Impact
<1>6. \A i \in P \ M : f[i] = 0
  <2> TAKE i \in P \ M
  <2>1. d \notin MergedDocuments(search, PreparedTerms(search)[i])
    <3>1. CASE i \in EmptyTerms(search)
      BY <3>1 DEF EmptyTerms
    <3>2. CASE i \notin EmptyTerms(search)
      <4>1. i \in GivenTerms(search)
        BY <1>4, <3>2
      <4>2. i \in Terms /\ Listed(query, i) = MergedDocuments(search, PreparedTerms(search)[i])
        BY <4>1, RequestIs
      <4> QED BY <4>2 DEF Matching
    <3> QED BY <3>1, <3>2
  <2> QED BY <2>1, MergedHold, MergedIsMultiple
<1>7. \A i \in P : f[i] \in Int
  BY ImpactsAreNumbers
<1>8. ExplainedTotal(search, d) = SumFunction(f)
  BY DEF ExplainedTotal, MergedScore
<1>9. Score(query, d) = SumFunction(g)
  BY RequestIsQuery, ScoreIsSum
<1> HIDE DEF P, M, f, g
<1>10. SumFunction(f) = SumFunction(g)
  <2>1. M \in SUBSET P /\ \A t \in M : f[t] = g[t]
    BY <1>5
  <2> QED BY <1>1, <1>6, <1>7, <2>1, SumOfPart
<1> QED BY <1>8, <1>9, <1>10

\* Merging repeated terms adds up their boosts, which is what they score apart.
LEMMA ExplainedIsWritten ==
  ASSUME Asked(search), NEW d \in Numbers(search.documents)
  PROVE  ExplainedTotal(search, d) = WrittenScore(d)
<1> DEFINE P == DOMAIN PreparedTerms(search)
           J == DOMAIN search.terms
           base(i) == FieldSum(search, i, d)
           boost(j) == search.terms[j].boost
           W == [j \in J |-> boost(j) * base(Became(search, j))]
           f == [i \in P |-> MergedScore(search, PreparedTerms(search)[i], d)]
           part == [j \in J |-> Became(search, j)]
<1>1. IsFiniteSet(P) /\ IsFiniteSet(J)
  BY TermsAreKeys, KeysAreNumbers, FS_Interval
<1>2. \A i \in P : base(i) \in Int /\ f[i] = base(i) * Boost(search, KeyOf(search, i))
  BY MergedIsMultiple
<1>3. \A j \in J : boost(j) \in Int /\ part[j] \in P /\ part[j] = Became(search, j)
  BY BoostsAreNumbers, TermsBecome
<1>4. WrittenScore(d) = SumFunction(W)
  <2>1. ASSUME NEW j \in J
        PROVE  base(Became(search, j))
                 = SumFunction([g \in {g \in SearchedFields(search.terms[j].field) :
                                        Analyzed(search.terms[j].text)[1] \in ToSet(Text(Document(search, d), g))} |->
                     FieldScore(search.documents, Whole(search), search.options.model, g,
                                Analyzed(search.terms[j].text)[1], d)])
    BY FieldsHold DEF FieldSum
  <2> HIDE DEF base
  <2> QED BY <2>1 DEF WrittenScore
<1>5. ExplainedTotal(search, d) = SumFunction(f)
  BY DEF ExplainedTotal, MergedScore
<1>6. ASSUME NEW j \in J PROVE W[j] \in Int
  <2>1. base(Became(search, j)) \in Int /\ boost(j) \in Int
    BY <1>2, <1>3
  <2>2. W[j] = boost(j) * base(Became(search, j))
    OBVIOUS
  <2> HIDE DEF W, boost, base
  <2> QED BY <2>1, <2>2
<1>7. ASSUME NEW i \in P PROVE SumOver(W, PartOf(part, J, i)) = f[i]
  <2> DEFINE S == PartOf(part, J, i)
             b == [j \in S |-> boost(j)]
             w == [j \in S |-> W[j]]
  <2>1. S = {j \in J : Key(search.terms[j]) = KeyOf(search, i)}
    BY TermsBecome DEF PartOf
  <2>2. Boost(search, KeyOf(search, i)) = SumFunction(b)
    BY <2>1 DEF Boost
  <2>3. S \subseteq J /\ IsFiniteSet(S)
    BY <1>1, FS_Subset DEF PartOf
  <2>4. \A j \in S : Became(search, j) = i
    BY DEF PartOf
  <2>5. ASSUME NEW j \in S PROVE b[j] \in Int /\ w[j] = b[j] * base(i)
    <3>1. j \in J /\ Became(search, j) = i
      BY <2>3, <2>4
    <3>2. b[j] = boost(j) /\ w[j] = boost(j) * base(i) /\ boost(j) \in Int /\ base(i) \in Int
      BY <1>2, <1>3, <3>1
    <3> HIDE DEF b, w, boost, base
    <3> QED BY <3>2
  <2>6. DOMAIN b = S /\ DOMAIN w = S
    OBVIOUS
  <2> DEFINE m == base(i)
  <2>7. m \in Int /\ f[i] = m * SumFunction(b)
    BY <1>2, <2>2
  <2>8. \A j \in S : b[j] \in Int /\ w[j] = b[j] * m
    BY <2>5
  <2>9. SumOver(W, S) = SumFunction(w)
    BY DEF SumOver
  <2> HIDE DEF S, b, w, m, f, W
  <2>10. SumFunction(w) = SumFunction(b) * m
    BY <2>3, <2>6, <2>7, <2>8, SumOfMultiples
  <2>11. SumFunction(b) \in Int
    BY <2>3, <2>6, <2>8, SumOfIntegers
  <2> QED BY <2>7, <2>9, <2>10, <2>11 DEF S
<1>8. SumsOfParts(W, part, J, P) = f
  <2> HIDE DEF W, part, J
  <2>1. \A i \in P : SumsOfParts(W, part, J, P)[i] = f[i]
    BY <1>7 DEF SumsOfParts
  <2>2. SumsOfParts(W, part, J, P) = [i \in P |-> SumsOfParts(W, part, J, P)[i]]
    BY DEF SumsOfParts
  <2> QED BY <2>1, <2>2
<1>9. SumOver(W, J) = SumFunction(W)
  <2>1. W = [j \in J |-> W[j]]
    OBVIOUS
  <2> HIDE DEF W
  <2> QED BY <2>1 DEF SumOver
<1>10. SumOver(W, J) = SumFunction(SumsOfParts(W, part, J, P))
  <2>1. \A j \in J : part[j] \in P
    BY <1>3
  <2> HIDE DEF W, J, part, P
  <2> QED BY <1>1, <1>6, <2>1, SumByParts
<1> QED BY <1>4, <1>5, <1>8, <1>9, <1>10


-----------------------------------------------------------------------------
\* Block bounds.

\* The block of a document has a bound among those of its list.
LEMMA BlocksCover ==
  ASSUME NEW n \in Nat \ {0}, NEW r \in Nat, NEW c \in Nat, r < c
  PROVE  r \div n + 1 \in 1 .. (c + n - 1) \div n
<1> DEFINE k == r \div n
           m == (c + n - 1) \div n
<1>1. c + n - 1 \in Nat /\ r + n <= c + n - 1
  OBVIOUS
<1>2. k \in Nat /\ r % n \in 0 .. n - 1 /\ r = k * n + (r % n)
  BY Division
<1>3. m \in Nat /\ (c + n - 1) % n \in 0 .. n - 1 /\ c + n - 1 = m * n + ((c + n - 1) % n)
  BY <1>1, Division
<1>4. ASSUME m < k + 1 PROVE FALSE
  <2>1. m * n + ((c + n - 1) % n) < (k + 1) * n + (r % n)
    BY <1>2, <1>3, <1>4, NotBelow
  <2>2. (k + 1) * n = k * n + n /\ k * n \in Nat
    BY <1>2
  <2> DEFINE x == r % n
             y == (c + n - 1) % n
             p == k * n
             o == m * n
             v == (k + 1) * n
  <2>3. v = p + n /\ r = p + x /\ c + n - 1 = o + y /\ o + y < v + x /\ p \in Nat /\ x \in Nat
    BY <1>2, <1>3, <2>1, <2>2
  <2> HIDE DEF x, y, p, o, v
  <2> QED BY <1>1, <2>3
<1> HIDE DEF k, m
<1>5. k + 1 \in 1 .. m
  BY <1>2, <1>3, <1>4
<1> QED BY <1>5 DEF k, m

\* Bounds computed from the scores of a list are those of its blocks.
LEMMA BoundsOfList ==
  ASSUME NEW q, NEW t, NEW D, D \subseteq Docs, Listed(q, t) = D, NEW scores, DOMAIN scores = D,
         \A e \in D : scores[e] = q.postings[t][e],
         NEW d \in D
  PROVE  Bounds(scores)[Rank(q, t, d) \div BlockPostings + 1] = BlockMax(q, t, d)
<1> DEFINE InBlock(b) == {e \in D : Rank0(D, e) \div BlockPostings = b - 1}
           r == Rank(q, t, d)
           b == r \div BlockPostings + 1
<1>1. \A e \in D : Rank0(D, e) = Rank(q, t, e)
  BY DEF Rank0, Rank
<1>2. IsFiniteSet(D) /\ d \in Nat
  BY DocsAssumption, FS_Subset
<1>3. r \in Nat /\ Cardinality(D) \in Nat /\ r < Cardinality(D)
  <2> DEFINE L == {e \in D : e < d}
  <2>1. L \subseteq D \ {d}
    BY <1>2
  <2>2. IsFiniteSet(D \ {d}) /\ Cardinality(D \ {d}) = Cardinality(D) - 1
    BY <1>2, FS_RemoveElement
  <2>3. IsFiniteSet(L) /\ Cardinality(L) <= Cardinality(D \ {d})
    BY <2>1, <2>2, FS_Subset
  <2>4. r = Cardinality(L)
    BY DEF Rank
  <2>5. Cardinality(L) \in Nat /\ Cardinality(D) \in Nat
    BY <1>2, <2>3, FS_CardinalityType
  <2> HIDE DEF L
  <2> QED BY <2>2, <2>3, <2>4, <2>5
<1>4. b \in 1 .. (Cardinality(D) + BlockPostings - 1) \div BlockPostings
  <2> HIDE DEF r
  <2> QED BY <1>3, SizesAssumption, BlocksCover
<1>5. Bounds(scores)[b] = Up(Max({0} \union {scores[e] : e \in InBlock(b)}))
  <2> DEFINE m == (Cardinality(D) + BlockPostings - 1) \div BlockPostings
  <2>1. Bounds(scores) = [c \in 1 .. m |-> Up(Max({0} \union {scores[e] : e \in InBlock(c)}))]
    BY DEF Bounds
  <2>2. b \in 1 .. m
    BY <1>4
  <2> HIDE DEF m, b, InBlock
  <2> QED BY <2>1, <2>2
<1>6. r \div BlockPostings \in Nat
  BY <1>3, SizesAssumption, Division
<1>7. InBlock(b) = BlockOf(q, t, d)
  <2>1. b - 1 = Rank(q, t, d) \div BlockPostings
    BY <1>6
  <2> HIDE DEF b
  <2> QED BY <1>1, <2>1 DEF BlockOf
<1>8. {scores[e] : e \in InBlock(b)} = Impacts(q, t, BlockOf(q, t, d))
  <2>1. \A e \in InBlock(b) : scores[e] = q.postings[t][e]
    OBVIOUS
  <2> HIDE DEF InBlock, b
  <2> QED BY <1>7, <2>1 DEF Impacts
<1> HIDE DEF InBlock
<1> QED BY <1>5, <1>8 DEF BlockMax, OutwardMax

\* Without a boost, and under the parameters and statistics the stored bounds were made
\* with, the stored scores are those the search ranks by.
LEMMA StoredIsMerged ==
  ASSUME NEW s, Asked(s), NEW i \in DOMAIN PreparedTerms(s), NEW d,
         UseTightBounds(s, PreparedTerms(s)[i])
  PROVE  StoredScore(s, <<PreparedTerms(s)[i].field, PreparedTerms(s)[i].word>>, d)
           = Impact(s, PreparedTerms(s)[i], d)
<1> DEFINE term == PreparedTerms(s)[i]
           H == HoldingFields(s, term, d)
<1>1. s.options.model = Default /\ Whole(s) = s.documents /\ term.boost = 1
  BY DEF UseTightBounds, Whole
<1>2. \A f \in H : FieldScore(s.documents, s.documents, Default, f, term.word, d) \in Int
  BY FieldScoresAreNumbers
<1>3. \A f \in H : FieldScore(s.documents, Whole(s), s.options.model, f, term.word, d) * term.boost
                     = FieldScore(s.documents, s.documents, Default, f, term.word, d)
  BY <1>1, <1>2
<1>4. MergedScore(s, term, d)
        = SumFunction([f \in H |-> FieldScore(s.documents, s.documents, Default, f, term.word, d)])
  <2> HIDE DEF term
  <2> QED BY <1>3 DEF MergedScore
<1>5. StoredScore(s, <<term.field, term.word>>, d)
        = SumFunction([f \in H |-> FieldScore(s.documents, s.documents, Default, f, term.word, d)])
  BY DEF StoredScore, HoldingFields
<1>6. Impact(s, term, d) = MergedScore(s, term, d)
  BY <1>1, VocabularyAssumption DEF Impact
<1> QED BY <1>4, <1>5, <1>6

LEMMA BoundsAreOfScores ==
  ASSUME search /= NoSearch => Asked(search) /\ query = RequestOf(search)
  PROVE  BoundsBelong
<1> SUFFICES ASSUME Asked(search), query = RequestOf(search),
                    NEW t \in Scorers(query), NEW d \in Listed(query, t)
             PROVE  TermBlockBounds(search, PreparedTerms(search)[t])[Rank(query, t, d) \div BlockPostings + 1]
                      = BlockMax(query, t, d)
  BY DEF BoundsBelong
<1> DEFINE term == PreparedTerms(search)[t]
           D == MergedDocuments(search, term)
           stored == [e \in D |-> StoredScore(search, <<term.field, term.word>>, e)]
           anew == [e \in D |-> Impact(search, term, e)]
<1>1. t \in GivenTerms(search)
  BY RequestIs DEF Scorers
<1>2. /\ t \in DOMAIN PreparedTerms(search)
      /\ Listed(query, t) = D
      /\ \A e \in D : query.postings[t][e] = Impact(search, term, e)
  BY <1>1, RequestIs
<1>3. D \subseteq Docs
  BY HoldersAreDocuments
<1>4. CASE UseTightBounds(search, term)
  <2>1. TermBlockBounds(search, term) = Bounds(stored)
    BY <1>4 DEF TermBlockBounds, StoredBounds, MergedDocuments
  <2>2. \A e \in D : stored[e] = query.postings[t][e]
    BY <1>2, <1>4, StoredIsMerged
  <2>3. DOMAIN stored = D
    OBVIOUS
  <2> HIDE DEF stored, D
  <2>4. Bounds(stored)[Rank(query, t, d) \div BlockPostings + 1] = BlockMax(query, t, d)
    BY <1>2, <1>3, <2>2, <2>3, BoundsOfList
  <2> QED BY <2>1, <2>4
<1>5. CASE ~ UseTightBounds(search, term)
  <2>1. TermBlockBounds(search, term) = Bounds(anew)
    BY <1>5 DEF TermBlockBounds
  <2>2. (\A e \in D : anew[e] = query.postings[t][e]) /\ DOMAIN anew = D
    BY <1>2
  <2> HIDE DEF anew, D
  <2>3. Bounds(anew)[Rank(query, t, d) \div BlockPostings + 1] = BlockMax(query, t, d)
    BY <1>2, <1>3, <2>2, BoundsOfList
  <2> QED BY <2>1, <2>3
<1> QED BY <1>4, <1>5

\* The block bounds handed to a pruning executor are those of the scores it ranks by.
THEOREM BoundsAreOwn == PreparedSpec => []BoundsBelong
<1> DEFINE Asks == search /= NoSearch => Asked(search) /\ query = RequestOf(search)
<1>1. PreparedInit => Asks
  BY DEF PreparedInit, Asked
<1>2. Asks /\ [PreparedNext]_<<vars, search>> => Asks'
  <2> SUFFICES ASSUME Asks, [PreparedNext]_<<vars, search>> PROVE Asks'
    OBVIOUS
  <2>1. search' = search /\ query' = query
    BY DEF PreparedNext, Next, Visit, Overflow, Finish, vars
  <2> QED BY <2>1 DEF Asked
<1>3. Asks => BoundsBelong
  BY BoundsAreOfScores
<1> QED BY <1>1, <1>2, <1>3, PTL DEF PreparedSpec


-----------------------------------------------------------------------------
\* A whole search.

\* The executor runs on a proper request, that of the search when there is one.
PreparedInv ==
  /\ Inv
  /\ search /= NoSearch => Asked(search) /\ query = RequestOf(search)

LEMMA PreparedInitInv ==
  ASSUME ExactSums
  PROVE  PreparedInit => PreparedInv
<1> SUFFICES ASSUME PreparedInit PROVE PreparedInv
  OBVIOUS
<1>1. search /= NoSearch => Asked(search) /\ query = RequestOf(search)
  BY DEF PreparedInit, Asked
<1>2. Proper(query)
  <2>1. CASE search = NoSearch /\ query \in Queries
    BY <2>1, QueriesAssumption DEF Proper
  <2>2. CASE search \in Searches /\ Accepted(search) /\ query = RequestOf(search)
    BY <2>2, RequestIsProper DEF Asked
  <2> QED BY <2>1, <2>2 DEF PreparedInit
<1>3. Visited = {} /\ Offered = {}
  BY DEF PreparedInit, Start, Visited, Offered
<1>4. IsBest({}, {}, query.top_k)
  BY <1>2, FS_EmptySet, QueryTypes DEF IsBest, IsFull
<1> QED BY <1>1, <1>2, <1>3, <1>4 DEF PreparedInit, Start, Inv, PreparedInv

LEMMA PreparedNextInv == PreparedInv /\ [PreparedNext]_<<vars, search>> => PreparedInv'
<1> SUFFICES ASSUME PreparedInv, [PreparedNext]_<<vars, search>> PROVE PreparedInv'
  OBVIOUS
<1>1. [Next]_vars /\ search' = search /\ query' = query
  BY DEF PreparedNext, Next, Visit, Overflow, Finish, vars
<1>2. Inv'
  BY <1>1, NextInv DEF PreparedInv
<1> QED BY <1>1, <1>2 DEF PreparedInv, Asked

LEMMA AnswerIsWritten ==
  ASSUME ExactSums, PreparedInv
  PROVE  AnswersAsWritten
<1> SUFFICES ASSUME search /= NoSearch, state = "done"
             PROVE  /\ {e.doc : e \in heap} \subseteq Named
                    /\ search.options.model.scoring /= "QuantizedBm25" =>
                         /\ IsBest(heap, {[doc |-> d, score |-> WrittenScore(d)] : d \in Named}, query.top_k)
                         /\ \A e \in heap : ExplainedTotal(search, e.doc) = e.score
  BY DEF AnswersAsWritten
<1>1. Asked(search) /\ query = RequestOf(search)
  BY DEF PreparedInv
<1>2. Visited = Candidates(query)
  BY DEF PreparedInv, Inv, Visited
<1>3. Offered = {Entry(query, d) : d \in Named}
  BY <1>1, <1>2, AcceptedAreNamed DEF Offered
<1>4. IsBest(heap, Offered, query.top_k)
  BY DEF PreparedInv, Inv
<1>5. ASSUME NEW e \in heap PROVE \E d \in Named : e = Entry(query, d) /\ e.doc = d /\ e.score = Score(query, d)
  <2>1. e \in Offered
    BY <1>4 DEF IsBest
  <2> QED BY <1>3, <2>1 DEF Entry
<1>6. Named \subseteq Candidates(query) /\ Named \subseteq Numbers(search.documents)
  BY <1>1, AcceptedAreNamed DEF Named
<1>7. ASSUME search.options.model.scoring /= "QuantizedBm25"
      PROVE  /\ IsBest(heap, {[doc |-> d, score |-> WrittenScore(d)] : d \in Named}, query.top_k)
             /\ \A e \in heap : ExplainedTotal(search, e.doc) = e.score
  <2>1. \A d \in Named : Score(query, d) = ExplainedTotal(search, d)
    BY <1>1, <1>6, <1>7, ScoreIsExplained
  <2>2. \A d \in Named : ExplainedTotal(search, d) = WrittenScore(d)
    BY <1>1, <1>6, ExplainedIsWritten
  <2>3. \A d \in Named : Entry(query, d) = [doc |-> d, score |-> WrittenScore(d)]
    BY <2>1, <2>2 DEF Entry
  <2>4. Offered = {[doc |-> d, score |-> WrittenScore(d)] : d \in Named}
    BY <1>3, <2>3
  <2>5. \A e \in heap : ExplainedTotal(search, e.doc) = e.score
    BY <1>5, <2>1
  <2> QED BY <1>4, <2>4, <2>5
<1>8. {e.doc : e \in heap} \subseteq Named
  BY <1>5
<1> QED BY <1>7, <1>8

\* Whatever is merged, dropped and turned into positions before the executor runs, its
\* answer is that of the query as it was written, where sums of scores are exact.
THEOREM AnswersTheQuery ==
  ASSUME ExactSums
  PROVE  PreparedSpec => []AnswersAsWritten
<1>1. PreparedInit => PreparedInv
  BY PreparedInitInv
<1>2. PreparedInv => AnswersAsWritten
  BY AnswerIsWritten
<1> QED BY <1>1, <1>2, PreparedNextInv, PTL DEF PreparedSpec


\* A whole search, too, keeps the types, holds the best so far and returns what the
\* abstract retrieval returns for its request.
THEOREM SearchesRank ==
  ASSUME ExactSums
  PROVE  PreparedSpec => [](TypeOK /\ HeapIsBestSoFar) /\ ImplementsRetrieval
<1>1. PreparedInit => PreparedInv
  BY PreparedInitInv
<1>2. PreparedInv => TypeOK /\ HeapIsBestSoFar
  BY QueryTypes DEF PreparedInv, Inv, TypeOK, HeapIsBestSoFar, IsBest, Offered, Visited, Candidates
<1>3. PreparedInit => Abstract!Init
  <2>1. PreparedInit => Proper(query)
    BY <1>1 DEF PreparedInv, Inv
  <2> QED BY <2>1, QueryTypes, SameRequests DEF PreparedInit, Start, Abstract!Init, Returned
<1>4. PreparedInv /\ [PreparedNext]_<<vars, search>> => [Abstract!Return \/ Abstract!Reject]_(Abstract!answer)
  <2>1. [PreparedNext]_<<vars, search>> => [Next]_vars
    BY DEF PreparedNext, vars
  <2> QED BY <2>1, NextRefines DEF PreparedInv
<1>5. PreparedSpec => [](TypeOK /\ HeapIsBestSoFar) /\ Abstract!Spec
  BY <1>1, <1>2, <1>3, <1>4, PreparedNextInv, PTL DEF PreparedSpec, Abstract!Spec
<1> QED BY <1>5 DEF ImplementsRetrieval
=============================================================================
