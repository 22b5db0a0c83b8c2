------------------------------ MODULE CiffIndex ------------------------------
(***************************************************************************)
(* ciff/model.rs: a bag-of-words index as the CIFF interchange format      *)
(* holds it, its making from a native index, what makes one valid, and its *)
(* search, term at a time.  Terms and external IDs are numbers, 0 for the  *)
(* empty string; their text and the description of a file are left out.    *)
(***************************************************************************)
EXTENDS TopK, SequencesExt

CONSTANTS
  Fields,          \* field names of the native index
  Terms,           \* terms, positive numbers
  MaxInt,          \* i32::MAX
  DefaultLimits,   \* CiffLimits::default: record [lists, documents, postings]
  Average(_, _),   \* the quotient of two numbers, positive when the first one is
  Impact(_, _, _, _, _)  \* bm25 of frequency, length, document frequency,
                         \* number of documents and average length

ASSUME CiffAssumption ==
  /\ IsFiniteSet(Fields) /\ IsFiniteSet(Terms)
  /\ Terms \subseteq Nat \ {0}
  /\ MaxInt \in Nat \ {0}

VARIABLES
  native,   \* documents of the native index, records [id, tf],
            \* tf the frequency of each term in each field
  index,    \* the CiffIndex: record [header, lists, documents]
  request,  \* the search: record [terms, operator, top_k]
  todo,     \* terms of the request that are not scored yet
  scores,   \* the accumulators: document to [score, matches]
  hits      \* the answer

search == <<request, todo, scores, hits>>

NoIndex == [header |-> <<>>, lists |-> <<>>, documents |-> <<>>]
NoRequest == [terms |-> {}, operator |-> "Or", top_k |-> 0]

TheVersion == 1

-----------------------------------------------------------------------------
\* from_native.

\* Mutant of Frequency: of the field that holds the term most often.
FrequencyOfOneField(document, t) == Max({document.tf[f][t] : f \in Fields})

\* A term over all fields of a document, and all terms.
Frequency(document, t) == SumFunction([f \in Fields |-> document.tf[f][t]])
LengthOf(document) == SumFunction([t \in Terms |-> Frequency(document, t)])

\* A set of numbers in ascending order.
InOrder(S) ==
  [i \in 1 .. Cardinality(S) |-> CHOOSE x \in S : Cardinality({y \in S : y < x}) = i - 1]

Holding(t) == InOrder({d \in 0 .. Len(native) - 1 : Frequency(native[d + 1], t) > 0})

SumOfFrequencies(postings) == SumFunction([i \in DOMAIN postings |-> postings[i].frequency])

FlatList(t) ==
  LET postings == [i \in DOMAIN Holding(t) |->
                     [document |-> Holding(t)[i],
                      frequency |-> Frequency(native[Holding(t)[i] + 1], t)]]
  IN  [term |-> t, df |-> Len(postings), cf |-> SumOfFrequencies(postings), postings |-> postings]

FlatLists ==
  LET terms == InOrder({t \in Terms : Holding(t) /= <<>>})
  IN  [i \in DOMAIN terms |-> FlatList(terms[i])]

Records ==
  [i \in DOMAIN native |->
     [document |-> i - 1, external |-> native[i].id, length |-> LengthOf(native[i])]]

Flattened ==
  LET tokens == SumFunction([i \in DOMAIN Records |-> Records[i].length])
  IN  [header |-> [version |-> TheVersion,
                   numLists |-> Len(FlatLists), numDocuments |-> Len(native),
                   totalLists |-> Len(FlatLists), totalDocuments |-> Len(native),
                   tokens |-> tokens, average |-> Average(tokens, Len(native))],
       lists |-> FlatLists,
       documents |-> Records]

-----------------------------------------------------------------------------
\* What the header, a list and a record must satisfy on their own, and the whole.

ValidHeader(header, limits) ==
  /\ header.version = TheVersion
  /\ header.numLists <= header.totalLists /\ header.totalLists <= MaxInt
  /\ header.numDocuments <= header.totalDocuments /\ header.totalDocuments <= MaxInt
  /\ header.numLists <= limits.lists
  /\ header.numDocuments <= limits.documents
  /\ header.totalDocuments = 0 => header.tokens = 0
  /\ (header.tokens = 0) = (header.average = 0)

ValidPosting(posting, totalDocuments) ==
  /\ posting.document <= MaxInt /\ posting.document < totalDocuments
  /\ posting.frequency \in 1 .. MaxInt

ValidList(list, totalDocuments) ==
  /\ list.term /= 0
  /\ list.df = Len(list.postings) /\ list.df \in 1 .. totalDocuments
  /\ \A i \in DOMAIN list.postings : ValidPosting(list.postings[i], totalDocuments)
  /\ \A i \in 1 .. Len(list.postings) - 1 :
       list.postings[i].document < list.postings[i + 1].document
  /\ list.cf = SumOfFrequencies(list.postings)

ValidRecord(record, totalDocuments) ==
  /\ record.document <= MaxInt /\ record.document < totalDocuments
  /\ record.external /= 0
  /\ record.length <= MaxInt

\* The members of a sequence have different keys.
Distinct(sequence, Key(_)) ==
  \A i, j \in DOMAIN sequence : Key(sequence[i]) = Key(sequence[j]) => i = j

PostingCount(lists) == SumFunction([i \in DOMAIN lists |-> Len(lists[i].postings)])

\* Mutant of ReferencesResolve: documents are not looked up.
ReferencesUnchecked(candidate) == TRUE

\* Every document that a posting names has a record.
ReferencesResolve(candidate) ==
  \A list \in ToSet(candidate.lists) : \A posting \in ToSet(list.postings) :
    \E record \in ToSet(candidate.documents) : record.document = posting.document

\* validate.
Valid(candidate, limits) ==
  LET total == candidate.header.totalDocuments
  IN  /\ ValidHeader(candidate.header, limits)
      /\ candidate.header.numLists = Len(candidate.lists)
      /\ candidate.header.numDocuments = Len(candidate.documents)
      /\ Distinct(candidate.lists, LAMBDA list : list.term)
      /\ PostingCount(candidate.lists) <= limits.postings
      /\ \A list \in ToSet(candidate.lists) : ValidList(list, total)
      /\ \A record \in ToSet(candidate.documents) : ValidRecord(record, total)
      /\ Distinct(candidate.documents, LAMBDA record : record.document)
      /\ Distinct(candidate.documents, LAMBDA record : record.external)
      /\ ReferencesResolve(candidate)

\* Mutant of Assembled: lists and documents stay in the order of the file.
AssembledAsRead(header, lists, documents) ==
  [header |-> header, lists |-> lists, documents |-> documents]

\* The indices of a sequence in the order of its keys; those with the same key stay in order.
OrderOf(keys) ==
  LET Before(j, i) == keys[j] < keys[i] \/ (keys[j] = keys[i] /\ j < i)
  IN  [k \in DOMAIN keys |->
         CHOOSE i \in DOMAIN keys : Cardinality({j \in DOMAIN keys : Before(j, i)}) = k - 1]

Arranged(sequence, keys) == [k \in DOMAIN sequence |-> sequence[OrderOf(keys)[k]]]

\* from_parts sorts what it is given.
Assembled(header, lists, documents) ==
  [header |-> header,
   lists |-> Arranged(lists, [i \in DOMAIN lists |-> lists[i].term]),
   documents |-> Arranged(documents, [i \in DOMAIN documents |-> documents[i].document])]

-----------------------------------------------------------------------------
\* search_terms.

\* posting_list: the list of a term, if there is one.
ListsOf(t) == {list \in ToSet(index.lists) : list.term = t}

Lookup(d) == CHOOSE record \in ToSet(index.documents) : record.document = d

\* With And, a term without a list ends the search.
Request(q) ==
  /\ request' = q
  /\ scores' = <<>>
  /\ hits' = {}
  /\ todo' = IF q.operator = "And" /\ \E t \in q.terms : ListsOf(t) = {} THEN {} ELSE q.terms

Contribution(list, posting) ==
  Impact(posting.frequency, Lookup(posting.document).length, list.df,
         index.header.totalDocuments, index.header.average)

\* The postings of the next term add to the accumulators.
ScoreTerm ==
  /\ todo /= {}
  /\ LET t == Min(todo)
         gains == UNION {{[document |-> posting.document, score |-> Contribution(list, posting)] :
                            posting \in ToSet(list.postings)} : list \in ListsOf(t)}
         held == {gain.document : gain \in gains}
         Gain(d) == (CHOOSE gain \in gains : gain.document = d).score
         Before(d) == IF d \in DOMAIN scores THEN scores[d] ELSE [score |-> 0, matches |-> 0]
     IN  /\ scores' = [d \in DOMAIN scores \union held |->
                         IF d \in held
                         THEN [score |-> Before(d).score + Gain(d), matches |-> Before(d).matches + 1]
                         ELSE scores[d]]
         /\ todo' = todo \ {t}
  /\ UNCHANGED <<request, hits>>

\* With And, only documents that match every term remain; sort and truncate.
Rank ==
  /\ todo = {}
  /\ LET kept == {d \in DOMAIN scores :
                    request.operator = "And" => scores[d].matches = Cardinality(request.terms)}
         ranked == {[doc |-> d, score |-> scores[d].score] : d \in kept}
     IN  \E best \in SUBSET ranked : IsBest(best, ranked, request.top_k) /\ hits' = best
  /\ UNCHANGED <<request, todo, scores>>
=============================================================================
