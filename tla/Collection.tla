----------------------------- MODULE Collection -----------------------------
(***************************************************************************)
(* What a search of a whole collection answers: one index of all           *)
(* documents, numbered in the order they were added, ranked by scores      *)
(* computed from the statistics of the collection.  The sharded index is   *)
(* shown to implement this specification, and the search of an exported    *)
(* CIFF index to give its answers.                                         *)
(***************************************************************************)
EXTENDS TopK, Sequences, FiniteSetsExt, Functions

CONSTANTS
  Documents,        \* records [id, tf], tf the frequency of each term
  Terms,            \* terms
  Requests,         \* records [terms, operator, top_k, accepts]
  Impact(_, _, _, _, _) \* the score of a term from its frequency in the document,
                        \* the tokens of the document, the documents that hold it,
                        \* the number of documents and the tokens of the collection

VARIABLES
  collection,  \* the documents, in order
  state,       \* "open", "closed", "asked" or "answered"
  request,     \* the request, once asked
  hits         \* the entries [doc, score] returned

answer == <<collection, state, request, hits>>

NoRequest == [terms |-> {}, operator |-> "Or", top_k |-> 0, accepts |-> {}]

\* The tokens of a document.
Length(document) == SumFunction(document.tf)

\* Statistics: documents, documents per term, and tokens.
Statistics(documents) ==
  [count |-> Len(documents),
   frequency |-> [t \in Terms |->
                    Cardinality({i \in DOMAIN documents : documents[i].tf[t] > 0})],
   tokens |-> SumFunction([i \in DOMAIN documents |-> Length(documents[i])])]

\* The score of a document: the sum over the terms it holds.
Score(document, terms, statistics) ==
  SumFunction([t \in {t \in terms : document.tf[t] > 0} |->
                 Impact(document.tf[t], Length(document), statistics.frequency[t],
                        statistics.count, statistics.tokens)])

\* The operator selects the document, and the filters accept it.
Selects(q, document) ==
  /\ IF q.operator = "Or" THEN \E t \in q.terms : document.tf[t] > 0
                          ELSE \A t \in q.terms : document.tf[t] > 0
  /\ document \in q.accepts

\* The hits a request is ranked from; documents are numbered from zero.
Results(q, documents, statistics) ==
  {[doc |-> i - 1, score |-> Score(documents[i], q.terms, statistics)] :
     i \in {i \in DOMAIN documents : Selects(q, documents[i])}}

Init ==
  /\ collection = <<>>
  /\ state = "open"
  /\ request = NoRequest
  /\ hits = {}

Add(document) ==
  /\ state = "open"
  /\ \A i \in DOMAIN collection : collection[i].id /= document.id
  /\ collection' = Append(collection, document)
  /\ UNCHANGED <<state, request, hits>>

Close ==
  /\ state = "open"
  /\ state' = "closed"
  /\ UNCHANGED <<collection, request, hits>>

Ask(q) ==
  /\ state = "closed"
  /\ state' = "asked"
  /\ request' = q
  /\ UNCHANGED <<collection, hits>>

Answer ==
  /\ state = "asked"
  /\ state' = "answered"
  /\ IsBest(hits', Results(request, collection, Statistics(collection)), request.top_k)
  /\ UNCHANGED <<collection, request>>

Next ==
  \/ \E document \in Documents : Add(document)
  \/ Close
  \/ \E q \in Requests : Ask(q)
  \/ Answer

Spec == Init /\ [][Next]_answer
=============================================================================
