---------------------------- MODULE ForwardIndex ----------------------------
(***************************************************************************)
(* forward.rs: documents together with the sequences of their term IDs,    *)
(* over a sorted lexicon.  A forward index is built from documents,        *)
(* reordered, stored and loaded again by a reader that distrusts it, and   *)
(* inverted into the index of IndexBuilder.  Limits on counts and bytes    *)
(* are left out; by the one on occurrences every length fits u32.          *)
(***************************************************************************)
EXTENDS IndexBuilder

CONSTANTS
  Sources,          \* sequences of documents that forward indexes are built from
  KeyBefore(_, _),  \* the order of ForwardTerm: of keys (field, term)
  MaxForwardEdits   \* bound: edits of a stored forward index

VARIABLES
  terms,      \* the lexicon: keys (field, term), the ID of a term is its index from zero
  entries,    \* ForwardDocuments: records [document, ids], ids a function from fields
  phase,      \* "none", "ready", "stored", "inverted" or "refused"
  \* History.
  source,       \* the documents it was built from
  forwardEdits  \* changes made to what is stored

forward == <<terms, entries, phase, source, forwardEdits>>
forwardVars == <<vars, forward>>

ForwardInit ==
  /\ Init
  /\ terms = <<>> /\ entries = <<>> /\ phase = "none" /\ source = <<>> /\ forwardEdits = 0

-----------------------------------------------------------------------------
\* from_documents.

AllKeys(document) == KeysOf(document, DOMAIN document.fields)

\* The keys there can be, in a total order.
TermKeys == UNION {AllKeys(document) : document \in Documents}
ASSUME SourcesAssumption == Sources \subseteq Seq(Documents)
ASSUME KeysAssumption ==
  /\ \A k \in TermKeys : ~ KeyBefore(k, k)
  /\ \A k, l, m \in TermKeys : KeyBefore(k, l) /\ KeyBefore(l, m) => KeyBefore(k, m)
  /\ \A k, l \in TermKeys : k /= l => KeyBefore(k, l) \/ KeyBefore(l, k)

\* build_forward_lexicon.
Lexicon(sources) ==
  Sorted(UNION {AllKeys(document) : document \in ToSet(sources)}, KeyBefore)

IdOf(lexicon, key) == (CHOOSE i \in DOMAIN lexicon : lexicon[i] = key) - 1

\* encode_forward_documents.
Encoded(lexicon, document) ==
  [document |-> document,
   ids |-> [field \in DOMAIN document.fields |->
              [p \in DOMAIN Tokens(document, field) |->
                 IdOf(lexicon, <<field, Tokens(document, field)[p]>>)]]]

\* validate_forward_lexicon.
ValidLexicon ==
  /\ \A i \in 1 .. Len(terms) - 1 : KeyBefore(terms[i], terms[i + 1])
  /\ \A i \in DOMAIN terms : IsNormalized(terms[i][2])

\* validate_forward_document: the sequence of a field spells its tokens.
Spells(entry, field) ==
  LET ids == entry.ids[field]
      tokens == Tokens(entry.document, field)
  IN  /\ Len(ids) = Len(tokens)
      /\ \A p \in DOMAIN ids :
           ids[p] + 1 \in DOMAIN terms /\ terms[ids[p] + 1] = <<field, tokens[p]>>

\* from_parts: validate_forward_lexicon, validate_forward_documents.
ForwardValid ==
  /\ ValidLexicon
  /\ \A i, j \in DOMAIN entries : entries[i].document.id = entries[j].document.id => i = j
  /\ \A i \in DOMAIN entries :
       /\ DOMAIN entries[i].ids = DOMAIN entries[i].document.fields
       /\ \A field \in DOMAIN entries[i].ids : Spells(entries[i], field)
  /\ \A id \in DOMAIN terms : \E entry \in ToSet(entries) :
       \E field \in DOMAIN entry.ids : id - 1 \in ToSet(entry.ids[field])

FromDocuments(sources) ==
  /\ phase = "none" /\ state = "building" /\ offered = 0
  /\ terms' = Lexicon(sources)
  /\ entries' = [i \in DOMAIN sources |-> Encoded(terms', sources[i])]
  /\ source' = sources
  /\ phase' = IF /\ \A i, j \in DOMAIN sources : sources[i].id = sources[j].id => i = j
                 /\ ForwardValid'
              THEN "ready" ELSE "refused"
  /\ UNCHANGED <<vars, forwardEdits>>

\* Mutant of Moved: the texts move and the sequences stay.
MovedTexts(newToOld) ==
  [i \in DOMAIN entries |-> [entries[i] EXCEPT !.document = entries[newToOld[i]].document]]

\* reordered, by a DocIdMap.
Moved(newToOld) == [i \in DOMAIN entries |-> entries[newToOld[i]]]

Reorder(newToOld) ==
  /\ phase = "ready"
  /\ entries' = Moved(newToOld)
  /\ UNCHANGED <<vars, terms, phase, source, forwardEdits>>

-----------------------------------------------------------------------------
\* save, load.

StoreForward ==
  /\ phase = "ready"
  /\ phase' = "stored"
  /\ UNCHANGED <<vars, terms, entries, source, forwardEdits>>

EditLexicon ==
  /\ \/ \E i \in DOMAIN terms : terms' = RemoveAt(terms, i)
     \/ \E i \in DOMAIN terms, document \in Documents : \E key \in AllKeys(document) :
          terms' = [terms EXCEPT ![i] = key] \/ terms' = Append(terms, key)
  /\ UNCHANGED entries

EditEntries ==
  /\ \/ \E i, j \in DOMAIN entries : entries' = [entries EXCEPT ![i].document = entries[j].document]
     \/ \E i \in DOMAIN entries : entries' = RemoveAt(entries, i)
     \/ \E i \in DOMAIN entries : \E field \in DOMAIN entries[i].ids :
          \/ entries' = [entries EXCEPT ![i].ids[field] = Append(@, 0)]
          \/ \E p \in DOMAIN entries[i].ids[field], id \in 0 .. Len(terms) :
               entries' = [entries EXCEPT ![i].ids[field][p] = id]
  /\ UNCHANGED terms

EditForward ==
  /\ phase = "stored" /\ forwardEdits < MaxForwardEdits
  /\ EditLexicon \/ EditEntries
  /\ forwardEdits' = forwardEdits + 1
  /\ UNCHANGED <<vars, phase, source>>

LoadForward ==
  /\ phase = "stored"
  /\ phase' = IF ForwardValid THEN "ready" ELSE "refused"
  /\ UNCHANGED <<vars, terms, entries, source, forwardEdits>>

-----------------------------------------------------------------------------
\* invert: a posting for every term ID of a field, then the validation of from_parts.

PositionsOf(ids, id) == Sorted({p - 1 : p \in {p \in DOMAIN ids : ids[p] = id}}, <)

Inverted(id) ==
  LET field == terms[id + 1][1]
      holding(d) == field \in DOMAIN entries[d + 1].ids /\ id \in ToSet(entries[d + 1].ids[field])
      docs == Sorted({d \in 0 .. Len(entries) - 1 : holding(d)}, <)
  IN  [i \in DOMAIN docs |->
         [doc |-> docs[i], positions |-> PositionsOf(entries[docs[i] + 1].ids[field], id)]]

Invert ==
  /\ phase = "ready"
  /\ phase' = "inverted"
  /\ documents' = [i \in DOMAIN entries |-> entries[i].document]
  /\ fieldLengths' = [i \in DOMAIN entries |->
                        [field \in DOMAIN entries[i].ids |-> Len(entries[i].ids[field])]]
  /\ postings' = [key \in ToSet(terms) |-> Inverted(IdOf(terms, key))]
  /\ blockMax' = ComputeBlockMax(postings')
  /\ state' = IF Accepted' THEN "loaded" ELSE "refused"
  /\ externalIds' = {entries[i].document.id : i \in DOMAIN entries}
  /\ fieldTotals' = SummedTotals'
  /\ UNCHANGED <<terms, entries, source, forwardEdits, partial, offered, edits>>

ForwardNext ==
  \/ Next /\ phase = "none" /\ UNCHANGED forward
  \/ \E sources \in Sources : FromDocuments(sources)
  \/ \E newToOld \in Bijection(DOMAIN entries, DOMAIN entries) : Reorder(newToOld)
  \/ StoreForward \/ EditForward \/ LoadForward \/ Invert

ForwardSpec == ForwardInit /\ [][ForwardNext]_forwardVars
-----------------------------------------------------------------------------
\* A forward index that was built, reordered or loaded inverts without being refused: the
\* index has its documents in its order, and while nothing was edited those are all the
\* documents it was built from.  Only repeated identifiers and edits are refused.
InversionIsFaithful ==
  /\ phase = "inverted" =>
       /\ state = "loaded"
       /\ documents = [i \in DOMAIN entries |-> entries[i].document]
       /\ forwardEdits = 0 =>
            Len(documents) = Len(source) /\ ToSet(documents) = ToSet(source)
  /\ phase = "refused" /\ forwardEdits = 0 =>
       Cardinality({source[i].id : i \in DOMAIN source}) < Len(source)
=============================================================================
