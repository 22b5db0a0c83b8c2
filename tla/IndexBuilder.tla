---------------------------- MODULE IndexBuilder ----------------------------
(***************************************************************************)
(* index.rs: an index is built document by document, finished, stored, and *)
(* loaded again by a reader that distrusts what it reads                   *)
(* (InvertedIndex::from_parts_with_block_max).  The stored parts may have  *)
(* been changed in between.  A posting is [doc, positions]; its frequency  *)
(* is the number of its positions.                                         *)
(***************************************************************************)
EXTENDS Analyzer, FiniteSets

CONSTANTS
  Documents,   \* documents offered, records [id, fields], fields a function
               \* from field names to texts
  FieldNames,  \* the field names, a sequence in BTreeMap order
  MaxTokens,   \* u32::MAX, the tokens a field may have
  MaxOffered,  \* bound: documents offered in one behaviour
  EditedLists, \* posting lists an edit may put into the stored parts
  MaxEdits     \* bound: edits of the stored parts

\* The field of a block-max stream that merges all fields (BlockMaxKey whose field is
\* None): no field has this name.
AllFields == "*"

\* A document has finitely many fields; a posting list an edit puts in is one of the type.
ASSUME DocumentsAssumption ==
  \A document \in Documents :
    /\ IsFiniteSet(DOMAIN document.fields)
    /\ AllFields \notin DOMAIN document.fields
    /\ \A field \in DOMAIN document.fields : document.fields[field] \in Seq(Characters)
ASSUME EditsAssumption == EditedLists \subseteq Seq([doc : Nat, positions : Seq(Nat)])

VARIABLES
  \* The IndexBuilder, and later the InvertedIndex.
  documents, externalIds, fieldLengths, fieldTotals, postings,
  blockMax,  \* posting_count of each block-max stream
  state,     \* "building", "finished", "stored", "loaded" or "refused"
  \* History.
  partial,   \* an add_document failed half-way
  offered,   \* documents offered
  edits      \* changes made to the stored parts

builder == <<documents, externalIds, fieldLengths, fieldTotals, postings>>
vars == <<builder, blockMax, state, partial, offered, edits>>

\* A function without entries.
Empty == [x \in {} |-> x]

\* The entry of a map, or a default.
Get(map, key, default) == IF key \in DOMAIN map THEN map[key] ELSE default

\* The map with each entry of `more` in it.
Updated(map, more) == [key \in DOMAIN map \union DOMAIN more |->
                         IF key \in DOMAIN more THEN more[key] ELSE map[key]]

Init ==
  /\ documents = <<>>
  /\ externalIds = {}
  /\ fieldLengths = <<>>
  /\ fieldTotals = Empty
  /\ postings = Empty
  /\ blockMax = Empty
  /\ state = "building"
  /\ partial = FALSE
  /\ offered = 0
  /\ edits = 0

-----------------------------------------------------------------------------
\* What a document contributes.

Tokens(document, field) == Analyze(document.fields[field])

\* The elements of a set in an order: before each stand as many as are less.
Sorted(S, Before(_, _)) ==
  [i \in 1 .. Cardinality(S) |-> CHOOSE x \in S : Cardinality({y \in S : Before(y, x)}) = i - 1]

\* The positions of a term in a field, ascending.
Positions(document, field, term) ==
  Sorted({p \in 0 .. Len(Tokens(document, field)) - 1 :
            Tokens(document, field)[p + 1] = term}, <)

\* The keys (field, term) of the fields F of a document.
KeysOf(document, F) == UNION {{field} \X ToSet(Tokens(document, field)) : field \in F}

Lengths(document, F) == [field \in F |-> Len(Tokens(document, field))]

\* The field totals and the posting lists after the fields F of document number d.
AddTotals(totals, document, F) ==
  Updated(totals, [field \in F |-> Get(totals, field, 0) + Lengths(document, F)[field]])

\* Mutant of AddPostings: the document is counted from one.
AddPostingsFromOne(lists, document, F, d) ==
  Updated(lists,
    [key \in KeysOf(document, F) |->
       Append(Get(lists, key, <<>>),
              [doc |-> d + 1, positions |-> Positions(document, key[1], key[2])])])

AddPostings(lists, document, F, d) ==
  Updated(lists,
    [key \in KeysOf(document, F) |->
       Append(Get(lists, key, <<>>),
              [doc |-> d, positions |-> Positions(document, key[1], key[2])])])

-----------------------------------------------------------------------------
\* Block-max streams: per key, and per term over all fields.

DocsOf(list) == {list[i].doc : i \in DOMAIN list}

\* The merged posting stream of a term over the fields F.
Stream(lists, F, term) == UNION {DocsOf(Get(lists, <<field, term>>, <<>>)) : field \in F}

\* Mutant of ComputeBlockMax: the streams of the fields are concatenated.
ComputeBlockMaxOfSums(lists) ==
  LET fields == {key[1] : key \in DOMAIN lists}
      merged == {<<AllFields, key[2]>> : key \in DOMAIN lists}
  IN  [key \in DOMAIN lists \union merged |->
         IF key[1] = AllFields
         THEN FoldFunction(+, 0, [field \in fields |-> Len(Get(lists, <<field, key[2]>>, <<>>))])
         ELSE Len(lists[key])]

\* compute_block_max_metadata: posting_count of every stream.
ComputeBlockMax(lists) ==
  LET fields == {key[1] : key \in DOMAIN lists}
      merged == {<<AllFields, key[2]>> : key \in DOMAIN lists}
  IN  [key \in DOMAIN lists \union merged |->
         IF key[1] = AllFields THEN Cardinality(Stream(lists, fields, key[2]))
                               ELSE Len(lists[key])]
-----------------------------------------------------------------------------
\* IndexBuilder.

IsNew(document) == document.id \notin externalIds

\* The fields of a document that have too many tokens, and the fields add_document
\* has handled when it meets the first of them.
TooLong(document) ==
  {field \in DOMAIN document.fields : Len(Tokens(document, field)) > MaxTokens}

Handled(document) ==
  {FieldNames[i] : i \in {i \in DOMAIN FieldNames :
                           \A j \in 1 .. i : FieldNames[j] \notin TooLong(document)}}
    \intersect DOMAIN document.fields

\* The document is offered to a builder that still takes documents.
Offer ==
  /\ state = "building"
  /\ offered < MaxOffered
  /\ offered' = offered + 1
  /\ UNCHANGED <<blockMax, state, edits>>

AddDocument(document) ==
  /\ Offer
  /\ IsNew(document)
  /\ TooLong(document) = {}
  /\ LET F == DOMAIN document.fields
     IN  /\ fieldTotals' = AddTotals(fieldTotals, document, F)
         /\ postings' = AddPostings(postings, document, F, Len(documents))
         /\ fieldLengths' = Append(fieldLengths, Lengths(document, F))
  /\ documents' = Append(documents, document)
  /\ externalIds' = externalIds \union {document.id}
  /\ UNCHANGED partial

RejectDuplicate(document) ==
  /\ Offer
  /\ ~IsNew(document)
  /\ UNCHANGED <<builder, partial>>

\* A field is too long: the identifier stays taken, and the fields before it stay
\* indexed under a number the next document will get.
AddFails(document) ==
  /\ Offer
  /\ IsNew(document)
  /\ TooLong(document) /= {}
  /\ fieldTotals' = AddTotals(fieldTotals, document, Handled(document))
  /\ postings' = AddPostings(postings, document, Handled(document), Len(documents))
  /\ externalIds' = externalIds \union {document.id}
  /\ partial' = TRUE
  /\ UNCHANGED <<documents, fieldLengths>>

Finish ==
  /\ state = "building"
  /\ blockMax' = ComputeBlockMax(postings)
  /\ state' = "finished"
  /\ UNCHANGED <<builder, partial, offered, edits>>

-----------------------------------------------------------------------------
\* The stored parts: identifiers and totals are not among them.

Store ==
  /\ state = "finished"
  /\ state' = "stored"
  /\ externalIds' = {}
  /\ fieldTotals' = Empty
  /\ UNCHANGED <<documents, fieldLengths, postings, blockMax, partial, offered, edits>>

EditPostings ==
  /\ \/ \E key \in DOMAIN postings :
          postings' = [k \in DOMAIN postings \ {key} |-> postings[k]]
     \/ \E document \in Documents, list \in EditedLists :
          \E key \in KeysOf(document, DOMAIN document.fields) :
            postings' = Updated(postings, [k \in {key} |-> list])
  /\ UNCHANGED <<documents, fieldLengths, blockMax>>

EditLengths ==
  /\ \E i \in DOMAIN fieldLengths, length \in 0 .. MaxTokens :
       \E field \in DOMAIN fieldLengths[i] :
         fieldLengths' = [fieldLengths EXCEPT ![i][field] = length]
  /\ UNCHANGED <<documents, postings, blockMax>>

EditDocuments ==
  /\ \E i \in DOMAIN documents, document \in Documents :
       documents' = [documents EXCEPT ![i] = document]
  /\ UNCHANGED <<fieldLengths, postings, blockMax>>

\* The block-max table follows the postings, or not.
EditBlockMax ==
  /\ blockMax' = ComputeBlockMax(postings)
  /\ blockMax' /= blockMax
  /\ UNCHANGED <<documents, fieldLengths, postings>>

Edit ==
  /\ state = "stored"
  /\ edits < MaxEdits
  /\ EditPostings \/ EditLengths \/ EditDocuments \/ EditBlockMax
  /\ edits' = edits + 1
  /\ UNCHANGED <<externalIds, fieldTotals, state, partial, offered>>

-----------------------------------------------------------------------------
\* The validation of a reader.

Ascending(seq) == \A i \in 1 .. Len(seq) - 1 : seq[i] < seq[i + 1]

\* Mutant of PositionsFit: the last token of a field is out of its reach.
PositionsFitBelow(posting, field) ==
  \A i \in DOMAIN posting.positions :
    posting.positions[i] + 1 < Get(fieldLengths[posting.doc + 1], field, 0)

\* The positions of a posting lie within the stored length of the field.
PositionsFit(posting, field) ==
  \A i \in DOMAIN posting.positions :
    posting.positions[i] < Get(fieldLengths[posting.doc + 1], field, 0)

\* validate_posting_lists.
ValidList(key) ==
  LET list == postings[key]
  IN  /\ IsNormalized(key[2])
      /\ list /= <<>>
      /\ \A i \in DOMAIN list :
           /\ list[i].doc < Len(documents)
           /\ list[i].positions /= <<>>
           /\ Ascending(list[i].positions)
           /\ PositionsFit(list[i], key[1])
      /\ Ascending([i \in DOMAIN list |-> list[i].doc])

\* validate_documents_and_lengths, for one document and its analyzed fields.
ValidDocument(i) ==
  LET document == documents[i]
      F        == DOMAIN document.fields
  IN  /\ \A j \in 1 .. i - 1 : documents[j].id /= document.id
      /\ fieldLengths[i] = Lengths(document, F)
      /\ \A key \in KeysOf(document, F) :
           /\ key \in DOMAIN postings
           /\ \E n \in DOMAIN postings[key] :
                /\ postings[key][n].doc = i - 1
                /\ postings[key][n].positions = Positions(document, key[1], key[2])

\* Mutant of TokensAgree: postings that no document accounts for go unnoticed.
TokensNotCounted == TRUE

\* The postings hold as many tokens as the documents.
TokensAgree ==
  LET listed(list) == SumFunction([i \in DOMAIN list |-> Len(list[i].positions)])
      analyzed(document) == SumFunction(Lengths(document, DOMAIN document.fields))
  IN  SumFunction([key \in DOMAIN postings |-> listed(postings[key])])
        = SumFunction([i \in DOMAIN documents |-> analyzed(documents[i])])

\* from_parts_with_block_max.
Accepted ==
  /\ \A key \in DOMAIN postings : ValidList(key)
  /\ \A i \in DOMAIN documents : ValidDocument(i)
  /\ TokensAgree
  /\ blockMax = ComputeBlockMax(postings)

\* The totals a reader sums up.
SummedTotals ==
  [field \in UNION {DOMAIN documents[i].fields : i \in DOMAIN documents} |->
     SumFunction([i \in DOMAIN documents |->
                    Get(Lengths(documents[i], DOMAIN documents[i].fields), field, 0)])]

Load ==
  /\ state = "stored"
  /\ Accepted
  /\ state' = "loaded"
  /\ externalIds' = {documents[i].id : i \in DOMAIN documents}
  /\ fieldTotals' = SummedTotals
  /\ UNCHANGED <<documents, fieldLengths, postings, blockMax, partial, offered, edits>>

Refuse ==
  /\ state = "stored"
  /\ ~Accepted
  /\ state' = "refused"
  /\ UNCHANGED <<builder, blockMax, partial, offered, edits>>

Next ==
  \/ \E document \in Documents :
       AddDocument(document) \/ RejectDuplicate(document) \/ AddFails(document)
  \/ Finish \/ Store \/ Edit \/ Load \/ Refuse

Spec == Init /\ [][Next]_vars
-----------------------------------------------------------------------------
\* The occurrences (key, document, position) the posting lists hold, and the ones
\* the texts hold.
Listed ==
  UNION {UNION {{<<key, posting.doc, position>> : position \in ToSet(posting.positions)} :
                  posting \in ToSet(postings[key])} : key \in DOMAIN postings}

Written ==
  UNION {UNION {{<<<<field, Tokens(documents[i], field)[p]>>, i - 1, p - 1>> :
                   p \in DOMAIN Tokens(documents[i], field)} :
                  field \in DOMAIN documents[i].fields} : i \in DOMAIN documents}

\* The index is exact: it lists every token of every document where it stands and
\* nothing else, in lists without repetition, ascending by document and position.
Exact ==
  /\ Listed = Written
  /\ \A key \in DOMAIN postings :
       /\ postings[key] /= <<>>
       /\ Ascending([i \in DOMAIN postings[key] |-> postings[key][i].doc])
       /\ \A posting \in ToSet(postings[key]) :
            posting.positions /= <<>> /\ Ascending(posting.positions)
  /\ \A field \in DOMAIN fieldTotals :
       fieldTotals[field] = Cardinality({o \in Written : o[1][1] = field})

\* The invariants of docs/architecture.md that "the builder establishes": what it has
\* built is exact after every document, unless an addition failed half-way.
BuilderIsExact == state \in {"building", "finished"} /\ ~partial => Exact

\* Whatever happened to the stored parts, an index that loads is exact: a missing,
\* an extra and a misplaced posting cannot cancel out in the token count.
LoadedIsExact == state = "loaded" => Exact

\* A finished index passes the validation of its readers: what is saved loads back.
SavedLoadsBack == state = "finished" /\ ~partial => Accepted

\* A query over a field, or over all fields, finds block bounds for exactly the
\* postings it scores (term_block_bounds fails on any other count).
QueriesFindBounds ==
  state \in {"finished", "loaded"} /\ ~partial =>
    \A term \in {key[2] : key \in DOMAIN postings} :
      \A field \in DOMAIN fieldTotals \union {AllFields} :
        LET scored == Stream(postings, IF field = AllFields THEN DOMAIN fieldTotals ELSE {field}, term)
        IN  scored /= {} => /\ <<field, term>> \in DOMAIN blockMax
                            /\ blockMax[<<field, term>>] = Cardinality(scored)
=============================================================================
