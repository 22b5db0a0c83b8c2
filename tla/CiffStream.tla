----------------------------- MODULE CiffStream -----------------------------
(***************************************************************************)
(* ciff/framing.rs and ciff/wire.rs: a CIFF file is written message by     *)
(* message and read by a reader that trusts nothing.  A message is a       *)
(* sequence of protobuf fields [number, wire, value]; a file may come from *)
(* another program, and may change between writing and reading.  Frame     *)
(* lengths, varint bytes and the limits on bytes are left out.             *)
(***************************************************************************)
EXTENDS CiffIndex

CONSTANTS
  Limits,        \* CiffLimits of reading and writing
  Documents,     \* documents offered to the native index
  MaxDocuments,  \* bound: documents of the native index
  Foreign,       \* files of other programs
  Requests,      \* searches
  MaxEdits       \* bound: changes made to files

\* A file is a sequence of messages, a message a sequence of fields.
IsSequence(s) == Len(s) \in Nat /\ s = [i \in 1 .. Len(s) |-> s[i]]
IsFile(file) == IsSequence(file) /\ \A i \in DOMAIN file : IsSequence(file[i])

ASSUME FilesAssumption ==
  /\ \A document \in Documents : document.id \in Nat /\ document.tf \in [Fields -> [Terms -> Nat]]
  /\ \A file \in Foreign : IsFile(file)
  /\ Limits.postings \in Nat

\* A query without a term is refused.
ASSUME RequestsAssumption ==
  \A q \in Requests :
    q.terms \subseteq Terms /\ q.terms /= {} /\ q.operator \in {"Or", "And"}

VARIABLES
  stream,    \* the file
  state,     \* "building", "exported", "written", "header", "lists", "documents",
             \* "loaded", "searching", "answered", "rejected" or "refused"
  read,      \* messages read
  header, lists, documents,  \* what was read
  written,   \* history: the index the file was written from, NoIndex when the
             \* file has another meaning by now
  origin,    \* history: the file is an export that was not changed in meaning
  edits      \* changes made

reader == <<read, header, lists, documents>>
history == <<written, origin, edits>>
vars == <<native, index, search, stream, state, reader, history>>

Init ==
  /\ native = <<>>
  /\ index = NoIndex
  /\ request = NoRequest /\ todo = {} /\ scores = <<>> /\ hits = {}
  /\ stream = <<>>
  /\ state = "building"
  /\ read = 0 /\ header = <<>> /\ lists = <<>> /\ documents = <<>>
  /\ written = NoIndex /\ origin = FALSE /\ edits = 0

-----------------------------------------------------------------------------
\* Fields.

Field(number, wire, value) == [number |-> number, wire |-> wire, value |-> value]

\* Defaults are not written.
Scalar(number, wire, value) == IF value = 0 THEN <<>> ELSE <<Field(number, wire, value)>>
Message(number, value) == IF value = <<>> THEN <<>> ELSE <<Field(number, "bytes", value)>>

\* The value of a field, the default when it is absent.
Value(message, number) ==
  LET present == {i \in DOMAIN message : message[i].number = number}
  IN  IF present = {} THEN 0 ELSE message[CHOOSE i \in present : TRUE].value

\* Types of the fields of a message.
Int32 == [wire |-> "varint", values |-> 0 .. MaxInt]
Int64 == [wire |-> "varint", values |-> Nat]
Fixed64 == [wire |-> "fixed64", values |-> Nat]
Bytes == [wire |-> "bytes", values |-> Nat]

HeaderTypes == <<Int32, Int32, Int32, Int32, Int32, Int64, Fixed64>>
ListTypes == <<Bytes, Int64, Int64>>
PostingTypes == <<Int32, Int32>>
RecordTypes == <<Int32, Bytes, Int32>>

\* Known fields have their type and occur once, in any order; unknown ones are skipped.
Parses(message, types) ==
  \A i \in DOMAIN message :
    message[i].number \in DOMAIN types =>
      LET type == types[message[i].number]
      IN  /\ message[i].wire = type.wire
          /\ message[i].value \in type.values
          /\ \A j \in DOMAIN message \ {i} : message[j].number /= message[i].number

-----------------------------------------------------------------------------
\* write_to.

WriteHeader(h) ==
  Scalar(1, "varint", h.version) \o Scalar(2, "varint", h.numLists)
    \o Scalar(3, "varint", h.numDocuments) \o Scalar(4, "varint", h.totalLists)
    \o Scalar(5, "varint", h.totalDocuments) \o Scalar(6, "varint", h.tokens)
    \o Scalar(7, "fixed64", h.average)

\* Documents of a list are written as differences.
WritePosting(postings, i) ==
  LET previous == IF i = 1 THEN 0 ELSE postings[i - 1].document
  IN  Scalar(1, "varint", postings[i].document - previous)
        \o Scalar(2, "varint", postings[i].frequency)

WriteList(list) ==
  Scalar(1, "bytes", list.term) \o Scalar(2, "varint", list.df) \o Scalar(3, "varint", list.cf)
    \o FlattenSeq([i \in DOMAIN list.postings |-> Message(4, WritePosting(list.postings, i))])

WriteRecord(record) ==
  Scalar(1, "varint", record.document) \o Scalar(2, "bytes", record.external)
    \o Scalar(3, "varint", record.length)

Messages(ciff) ==
  <<WriteHeader(ciff.header)>> \o [i \in DOMAIN ciff.lists |-> WriteList(ciff.lists[i])]
    \o [i \in DOMAIN ciff.documents |-> WriteRecord(ciff.documents[i])]

\* The native index, document by document.
AddNative(document) ==
  /\ state = "building"
  /\ Len(native) < MaxDocuments
  /\ \A i \in DOMAIN native : native[i].id /= document.id
  /\ native' = Append(native, document)
  /\ UNCHANGED <<index, search, stream, state, reader, history>>

Export ==
  /\ state = "building"
  /\ IF Valid(Flattened, DefaultLimits)
     THEN index' = Flattened /\ state' = "exported" /\ origin' = TRUE
     ELSE state' = "rejected" /\ UNCHANGED <<index, origin>>
  /\ UNCHANGED <<native, search, stream, reader, written, edits>>

\* A file is written from the export, or from a foreign index that was loaded.
Write ==
  /\ \/ state = "exported"
     \/ state = "loaded" /\ written = NoIndex
  /\ IF Valid(index, Limits)
     THEN stream' = Messages(index) /\ state' = "written" /\ written' = index
     ELSE state' = "rejected" /\ UNCHANGED <<stream, written>>
  /\ index' = NoIndex
  /\ UNCHANGED <<native, search, reader, origin, edits>>

\* External: the file of another program.
Receive(file) ==
  /\ state = "building" /\ native = <<>>
  /\ stream' = file
  /\ state' = "written"
  /\ UNCHANGED <<native, index, search, reader, history>>

-----------------------------------------------------------------------------
\* External: changes of a file.

Change(file) ==
  /\ state = "written"
  /\ edits < MaxEdits
  /\ edits' = edits + 1
  /\ stream' = file
  /\ UNCHANGED <<native, index, search, state, reader>>

Swapped(seq, i) == [seq EXCEPT ![i] = seq[i + 1], ![i + 1] = seq[i]]

\* The parts of the file may come in any order, and fields that nobody knows are skipped.
Rearrange ==
  /\ \/ \E i \in 2 .. Len(stream) - 1 :
          /\ (i + 1 <= 1 + Value(stream[1], 2)) \/ (i > 1 + Value(stream[1], 2))
          /\ Change(Swapped(stream, i))
     \/ \E i \in DOMAIN stream : \E j \in 1 .. Len(stream[i]) - 1 :
          /\ stream[i][j].number /= stream[i][j + 1].number
          /\ Change([stream EXCEPT ![i] = Swapped(@, j)])
     \/ \E i \in DOMAIN stream : Change([stream EXCEPT ![i] = Append(@, Field(9, "varint", 1))])
  /\ UNCHANGED <<written, origin>>

IsNested(field) == field.number = 4 /\ field.wire = "bytes"

\* Anything else may change what the file says.
Corrupt ==
  /\ \/ \E i \in DOMAIN stream : Change(RemoveAt(stream, i)) \/ Change(Append(stream, stream[i]))
     \/ \E i \in DOMAIN stream : \E j \in DOMAIN stream[i] :
          \/ Change([stream EXCEPT ![i] = RemoveAt(@, j)])
          \/ Change([stream EXCEPT ![i] = Append(@, stream[i][j])])
          \/ /\ ~IsNested(stream[i][j])
             /\ \E v \in 0 .. MaxInt + 1 : Change([stream EXCEPT ![i][j].value = v])
          \/ /\ IsNested(stream[i][j])
             /\ \E k \in DOMAIN stream[i][j].value :
                  \/ Change([stream EXCEPT ![i][j].value = RemoveAt(@, k)])
                  \/ \E v \in 0 .. MaxInt + 1 : Change([stream EXCEPT ![i][j].value[k].value = v])
  /\ written' = NoIndex
  /\ origin' = FALSE

-----------------------------------------------------------------------------
\* read_from.

Refuse == state' = "refused" /\ UNCHANGED <<index, reader>>

More == read < Len(stream)
Current == stream[read + 1]

ParsedHeader ==
  [version |-> Value(Current, 1), numLists |-> Value(Current, 2),
   numDocuments |-> Value(Current, 3), totalLists |-> Value(Current, 4),
   totalDocuments |-> Value(Current, 5), tokens |-> Value(Current, 6),
   average |-> Value(Current, 7)]

ReadHeader ==
  /\ state = "written"
  /\ IF More /\ Parses(Current, HeaderTypes) /\ ValidHeader(ParsedHeader, Limits)
     THEN /\ header' = ParsedHeader
          /\ read' = 1
          /\ state' = "lists"
          /\ UNCHANGED <<index, lists, documents>>
     ELSE Refuse
  /\ UNCHANGED <<native, search, stream, history>>

\* The postings of a list are counted against what is left of the limit, and the
\* differences are summed up.
Nested(message) ==
  LET places == InOrder({i \in DOMAIN message : message[i].number = 4})
  IN  [k \in DOMAIN places |-> message[places[k]]]

NestedPostings == Nested(Current)
DocumentAt(i) == SumFunction([k \in 1 .. i |-> Value(NestedPostings[k].value, 1)])

PostingsParse ==
  /\ \A i \in DOMAIN NestedPostings :
       NestedPostings[i].wire = "bytes" /\ Parses(NestedPostings[i].value, PostingTypes)
  /\ PostingCount(lists) + Len(NestedPostings) <= Limits.postings
  /\ DocumentAt(Len(NestedPostings)) <= 2 * MaxInt + 1

ParsedPostings ==
  [i \in DOMAIN NestedPostings |->
     [document |-> DocumentAt(i), frequency |-> Value(NestedPostings[i].value, 2)]]

ParsedList ==
  [term |-> Value(Current, 1), df |-> Value(Current, 2), cf |-> Value(Current, 3),
   postings |-> ParsedPostings]

ReadList ==
  /\ state = "lists" /\ Len(lists) < header.numLists
  /\ IF /\ More /\ Parses(Current, ListTypes) /\ PostingsParse
        /\ ValidList(ParsedList, header.totalDocuments)
        /\ \A list \in ToSet(lists) : list.term /= ParsedList.term
     THEN /\ lists' = Append(lists, ParsedList)
          /\ read' = read + 1
          /\ UNCHANGED <<index, state, header, documents>>
     ELSE Refuse
  /\ UNCHANGED <<native, search, stream, history>>

EndLists ==
  /\ state = "lists" /\ Len(lists) = header.numLists
  /\ state' = "documents"
  /\ UNCHANGED <<native, index, search, stream, reader, history>>

ParsedRecord ==
  [document |-> Value(Current, 1), external |-> Value(Current, 2), length |-> Value(Current, 3)]

ReadRecord ==
  /\ state = "documents" /\ Len(documents) < header.numDocuments
  /\ IF /\ More /\ Parses(Current, RecordTypes)
        /\ ValidRecord(ParsedRecord, header.totalDocuments)
        /\ \A record \in ToSet(documents) :
             record.document /= ParsedRecord.document /\ record.external /= ParsedRecord.external
     THEN /\ documents' = Append(documents, ParsedRecord)
          /\ read' = read + 1
          /\ UNCHANGED <<index, state, header, lists>>
     ELSE Refuse
  /\ UNCHANGED <<native, search, stream, history>>

\* Nothing follows, and the whole is valid.
Load ==
  /\ state = "documents" /\ Len(documents) = header.numDocuments
  /\ LET ciff == Assembled(header, lists, documents)
     IN  IF ~More /\ Valid(ciff, Limits)
         THEN /\ index' = ciff
              /\ state' = "loaded"
              /\ read' = 0 /\ header' = <<>> /\ lists' = <<>> /\ documents' = <<>>
         ELSE Refuse
  /\ UNCHANGED <<native, search, stream, history>>

-----------------------------------------------------------------------------
Search(step, from, to) ==
  /\ state = from
  /\ step
  /\ state' = to
  /\ UNCHANGED <<native, index, stream, reader, history>>

Next ==
  \/ \E document \in Documents : AddNative(document)
  \/ Export \/ Write
  \/ \E file \in Foreign : Receive(file)
  \/ Rearrange \/ Corrupt
  \/ ReadHeader \/ ReadList \/ EndLists \/ ReadRecord \/ Load
  \/ \E q \in Requests : Search(Request(q), "loaded", "searching")
  \/ Search(ScoreTerm, "searching", "searching")
  \/ Search(Rank, "searching", "answered")

Spec == Init /\ [][Next]_vars
-----------------------------------------------------------------------------
\* What is written under some limits is read back under the same limits as the same
\* index, and so is the file when its parts are rearranged or unknown fields were added.
WrittenReadsBack ==
  /\ state = "refused" => written = NoIndex
  /\ state = "loaded" => written \in {NoIndex, index}

\* Whatever the file, every posting of an index that loads has the record its search
\* expects ("validated CIFF candidate references a document").
NoDanglingPosting ==
  \A list \in ToSet(index.lists) : \A posting \in ToSet(list.postings) :
    Cardinality({record \in ToSet(index.documents) : record.document = posting.document}) = 1

\* An exported index answers as an index of the same documents with their fields joined.
Joined(document) ==
  [id |-> document.id,
   tf |-> [t \in Terms |-> SumFunction([f \in Fields |-> document.tf[f][t]])]]

JoinedImpact(tf, length, frequency, count, tokens) ==
  Impact(tf, length, frequency, count, Average(tokens, count))

Native == INSTANCE Collection WITH
  Documents <- {Joined(document) : document \in Documents}, Impact <- JoinedImpact,
  collection <- <<>>

AnswersAsCollection ==
  state = "answered" /\ origin =>
    LET bag == [i \in DOMAIN native |-> Joined(native[i])]
        q == [terms |-> request.terms, operator |-> request.operator,
              top_k |-> request.top_k, accepts |-> ToSet(bag)]
    IN  IsBest(hits, Native!Results(q, bag, Native!Statistics(bag)), request.top_k)
=============================================================================
