------------------------------ MODULE TextInput ------------------------------
(***************************************************************************)
(* collection.rs and trec.rs: collections as TSV, JSON lines or TREC SGML, *)
(* topics and relevance judgments, read line by line under limits from a   *)
(* file that others may write to or replace meanwhile.  A file is a        *)
(* sequence of tokens, the line end among them; a token is a word, a tag,  *)
(* a column or a JSON member, and counts as one byte.  Case, entities,     *)
(* carriage returns and UTF-8 are left out.                                *)
(***************************************************************************)
EXTENDS Integers, SequencesExt

CONSTANTS
  Contents,      \* for every format, what the file may hold
  Inodes,        \* files that take turns under the path
  Directory,     \* what the path names when it is none of them
  Relevance,     \* the tokens that are integers, with their values
  Member,        \* the tokens that are members of a JSON object, [key, name, value];
                 \* an entry of its "fields" has the key "entry"
  MaxDocuments, MaxFields, MaxRecord, MaxInput,  \* CollectionLimits
  MaxTopics, MaxQrels, MaxQrelsLine,  \* MAX_TOPICS_BYTES, MAX_QRELS_BYTES, MAX_QRELS_LINE_BYTES
  MaxWrites,     \* bound: writes and replacements by others
  MaxClock       \* bound: ticks of the clock that modification times are taken from

VARIABLES
  path,     \* the inode the path names, Directory if it is none
  files,    \* the files, [data, mtime]
  clock,
  input,    \* the reader
  others    \* history: what others did while it read, [writes, touched, hidden, origin]

vars == <<path, files, clock, input, others>>

Collections == {"tsv", "jsonl", "trec"}
Formats == Collections \union {"topics", "qrels"}

NL == "nl"
TAB == "tab"

-----------------------------------------------------------------------------
\* Documents.

Document(id, fields) == [id |-> id, fields |-> fields]

\* Document::from_fields and validate_field_name.
IsDocument(document) == document.id /= "" /\ "" \notin DOMAIN document.fields

\* bounded_visit and the visitors: a list takes any document, an index new ones.
Visited(document) ==
  /\ Cardinality(DOMAIN document.fields) <= MaxFields
  /\ Len(input.documents) < MaxDocuments
  /\ input.into = "index" => \A i \in DOMAIN input.documents : input.documents[i].id /= document.id

\* One document per line of a table, under its header.
IsHeader(columns) ==
  /\ Len(columns) \in 2 .. MaxFields + 1 /\ columns[1] = "id"
  /\ IsInjective(Tail(columns)) /\ "" \notin ToSet(Tail(columns))

RowDocument(header, columns) ==
  Document(columns[1], [f \in ToSet(Tail(header)) |->
                          columns[CHOOSE i \in 2 .. Len(header) : header[i] = f]])

\* StrictJsonRecord: a canonical record or one of PISA, no key twice.
Keys(members) == [i \in DOMAIN members |-> <<Member[members[i]].key, Member[members[i]].name>>]
Get(members, key) == Member[members[CHOOSE i \in DOMAIN members : Member[members[i]].key = key]].value
Has(members, key) == \E i \in DOMAIN members : Member[members[i]].key = key
Entries(members) == {Member[members[i]] : i \in {i \in DOMAIN members : Member[members[i]].key = "entry"}}

IsRecord(line) ==
  /\ Len(line) >= 2 /\ line[1] = "{" /\ Last(line) = "}"
  /\ LET members == SubSeq(line, 2, Len(line) - 1)
     IN  /\ ToSet(members) \subseteq DOMAIN Member
         /\ IsInjective(Keys(members))
         /\ \A i \in DOMAIN members :
              Member[members[i]].key \in {"id", "fields", "entry", "title", "content", "url"}
         /\ Entries(members) /= {} => Has(members, "fields")
         /\ IF Has(members, "id")
            THEN /\ \A key \in {"title", "content", "url"} : ~Has(members, key)
                 /\ Has(members, "fields") /\ Entries(members) /= {}
            ELSE ~Has(members, "fields") /\ Has(members, "title") /\ Has(members, "content")

RecordDocument(line) ==
  LET members == SubSeq(line, 2, Len(line) - 1)
  IN  IF Has(members, "id")
      THEN Document(Get(members, "id"),
                    [f \in {e.name : e \in Entries(members)} |->
                       (CHOOSE e \in Entries(members) : e.name = f).value])
      ELSE Document(Get(members, "title"),
                    [f \in {"body"} \union (IF Has(members, "url") /\ Get(members, "url") /= ""
                                            THEN {"url"} ELSE {}) |->
                       IF f = "url" THEN Get(members, "url") ELSE Get(members, "content")])

\* extract_tag_values: from an opening tag to the next closing one.
Opening == [DOCNO |-> "<DOCNO>", TITLE |-> "<TITLE>", HEADLINE |-> "<HEADLINE>",
            TEXT |-> "<TEXT>", BODY |-> "<BODY>"]
Closing == [DOCNO |-> "</DOCNO>", TITLE |-> "</TITLE>", HEADLINE |-> "</HEADLINE>",
            TEXT |-> "</TEXT>", BODY |-> "</BODY>"]

TagValues(record, tag) ==
  FoldLeft(LAMBDA found, i :
             IF found.open = 0
             THEN IF record[i] = Opening[tag] THEN [found EXCEPT !.open = i] ELSE found
             ELSE IF record[i] = Closing[tag]
                  THEN [open |-> 0, values |-> Append(found.values, SubSeq(record, found.open + 1, i - 1))]
                  ELSE found,
           [open |-> 0, values |-> <<>>], [i \in DOMAIN record |-> i]).values

\* strip_markup and collapse_whitespace.
Markup == Range(Opening) \union Range(Closing) \union {"<DOC>", "</DOC>", "<B>"}
Words(tokens) == SelectSeq(tokens, LAMBDA token : token \notin Markup)
Section(record, tags) == FlattenSeq([i \in DOMAIN tags |-> Words(FlattenSeq(TagValues(record, tags[i])))])

\* parse_trec_document.
IsTrecRecord(record) ==
  /\ Len(TagValues(record, "DOCNO")) = 1
  /\ Len(Words(TagValues(record, "DOCNO")[1])) = 1
  /\ Section(record, <<"TITLE", "HEADLINE", "TEXT", "BODY">>) /= <<>>

TrecDocument(record) ==
  Document(Words(TagValues(record, "DOCNO")[1])[1],
           [title |-> Section(record, <<"TITLE", "HEADLINE">>),
            body |-> Section(record, <<"TEXT", "BODY">>)])

-----------------------------------------------------------------------------
\* Lines.

Data == files[input.inode].data
AtEnd == input.at >= Len(Data)

\* A line with its end, from where the reader stands.
RawLine ==
  LET ends == {i \in input.at + 1 .. Len(Data) : Data[i] = NL}
  IN  SubSeq(Data, input.at + 1,
             IF ends = {} THEN Len(Data) ELSE CHOOSE i \in ends : \A j \in ends : i <= j)

Line == SelectSeq(RawLine, LAMBDA token : token /= NL)

InputLimit == CASE input.format = "topics" -> MaxTopics
                [] input.format = "qrels" -> MaxQrels
                [] OTHER -> MaxInput

\* read_bounded_line counts what a line holds, read_bounded_raw_line its end as well.
Fits ==
  /\ input.at + Len(RawLine) <= InputLimit
  /\ CASE input.format \in {"tsv", "jsonl"} -> Len(Line) <= MaxRecord
       [] input.format = "trec" -> Len(RawLine) <= MaxRecord - (IF input.open THEN input.bytes ELSE 0)
       [] input.format = "qrels" -> Len(RawLine) <= MaxQrelsLine
       [] OTHER -> TRUE

-----------------------------------------------------------------------------
NoInput == [state |-> "closed", format |-> "tsv", into |-> "list", inode |-> Directory, length |-> 0,
            mtime |-> 0, at |-> 0, open |-> FALSE, record |-> <<>>, bytes |-> 0, documents |-> <<>>]

Init ==
  /\ \E format \in Formats, into \in {"list", "index"} :
       /\ format \notin Collections => into = "list"
       /\ input = [NoInput EXCEPT !.format = format, !.into = into]
       /\ files \in [Inodes -> {[data |-> data, mtime |-> 0] : data \in Contents[format]}]
  /\ path \in Inodes \union {Directory}
  /\ clock \in {0, 1}
  /\ others = [writes |-> 0, touched |-> FALSE, hidden |-> FALSE, origin |-> <<>>]

Refuse == input' = [input EXCEPT !.state = "refused"]
Become(next) == input' = next

\* File::open and the first metadata; what is read whole is not looked at.
Open ==
  /\ input.state = "closed"
  /\ IF path = Directory \/ (input.format \in Collections /\ Len(files[path].data) > MaxInput)
     THEN Refuse /\ UNCHANGED others
     ELSE /\ Become([input EXCEPT !.state = IF input.format \in Collections THEN "opened" ELSE "reading",
                                  !.inode = path, !.length = Len(files[path].data),
                                  !.mtime = files[path].mtime])
          /\ others' = [others EXCEPT !.origin = files[path].data]
  /\ UNCHANGED <<path, files, clock>>

Identify ==
  /\ input.state = "opened"
  /\ IF path = input.inode THEN Become([input EXCEPT !.state = "reading"]) ELSE Refuse
  /\ UNCHANGED <<path, files, clock, others>>

\* One line: `next` is the reader after it, apart from the position.
Step(ok, next) ==
  /\ IF Fits /\ ok THEN Become([next EXCEPT !.at = @ + Len(RawLine)]) ELSE Refuse
  /\ UNCHANGED <<path, files, clock, others>>

Reading(format) == input.state = "reading" /\ input.format = format /\ ~AtEnd

WithDocument(document) == [input EXCEPT !.documents = Append(@, document)]

\* visit_tsv_reader.
ReadHeader ==
  /\ Reading("tsv") /\ input.record = <<>>
  /\ Step(IsHeader(Line), [input EXCEPT !.record = Line])

ReadRow ==
  /\ Reading("tsv") /\ input.record /= <<>>
  /\ IF Line = <<>> THEN Step(TRUE, input)
     ELSE LET row == RowDocument(input.record, Line)
          IN  Step(Len(Line) = Len(input.record) /\ IsDocument(row) /\ Visited(row), WithDocument(row))

\* visit_jsonl_reader.
ReadJson ==
  /\ Reading("jsonl")
  /\ IF Line = <<>> THEN Step(TRUE, input)
     ELSE LET document == RecordDocument(Line)
          IN  Step(IsRecord(Line) /\ IsDocument(document) /\ Visited(document), WithDocument(document))

\* visit_trec_reader_with_limit.  Mutant: what stood in an earlier record is kept.
ReadDocKeepingRecord ==
  /\ Reading("trec") /\ Line = <<"<DOC>">>
  /\ Step(~input.open, [input EXCEPT !.open = TRUE, !.bytes = Len(RawLine)])

ReadDoc ==
  /\ Reading("trec") /\ Line = <<"<DOC>">>
  /\ Step(~input.open, [input EXCEPT !.open = TRUE, !.record = <<>>, !.bytes = Len(RawLine)])

ReadEndDoc ==
  /\ Reading("trec") /\ Line = <<"</DOC>">>
  /\ LET document == TrecDocument(input.record)
     IN  Step(input.open /\ IsTrecRecord(input.record) /\ IsDocument(document) /\ Visited(document),
              [WithDocument(document) EXCEPT !.open = FALSE])

ReadContent ==
  /\ Reading("trec") /\ Line \notin {<<"<DOC>">>, <<"</DOC>">>}
  /\ Step(input.open \/ Line = <<>>,
          IF input.open THEN [input EXCEPT !.record = @ \o Line, !.bytes = @ + Len(RawLine)] ELSE input)

\* parse_qrels: topic, iteration, document, relevance.
IsComment(line) == line = <<>> \/ line[1] = "#"
IsJudgment(line) ==
  Len(line) = 4 /\ line[4] \in DOMAIN Relevance /\ Relevance[line[4]] <= 31
Judgment(line) == [topic |-> line[1], document |-> line[3], relevance |-> Relevance[line[4]]]

ReadJudgment ==
  /\ Reading("qrels")
  /\ IF IsComment(Line) THEN Step(TRUE, input)
     ELSE Step(/\ IsJudgment(Line)
               /\ \A i \in DOMAIN input.documents :
                    \/ input.documents[i].topic /= Line[1]
                    \/ input.documents[i].document /= Line[3],
               WithDocument(Judgment(Line)))

\* read_topics_with_limit: the whole file, a part at a time.
ReadTopics ==
  /\ Reading("topics")
  /\ Step(TRUE, [input EXCEPT !.record = @ \o RawLine])

-----------------------------------------------------------------------------
\* Topics are parsed once they are read.

\* The lines of a text with their ends; a last one may have none.
RawLines(data) ==
  LET ends == SelectSeq([i \in DOMAIN data |-> i], LAMBDA i : data[i] = NL \/ i = Len(data))
  IN  [k \in DOMAIN ends |-> SubSeq(data, IF k = 1 THEN 1 ELSE ends[k - 1] + 1, ends[k])]

Lines(data) ==
  [k \in DOMAIN RawLines(data) |-> SelectSeq(RawLines(data)[k], LAMBDA token : token /= NL)]

\* push_topic, into the topics read so far, or a failure for good.
Push(read, id, text) ==
  IF Len(id) = 1 /\ text /= <<>> /\ \A i \in DOMAIN read.topics : read.topics[i].id /= id[1]
  THEN [read EXCEPT !.topics = Append(@, [id |-> id[1], text |-> text])]
  ELSE [read EXCEPT !.failed = TRUE]

Before(tokens, token) ==
  IF Contains(tokens, token) THEN SubSeq(tokens, 1, SelectInSeq(tokens, LAMBDA t : t = token) - 1)
  ELSE tokens

\* One line of <top> records: a <num> or a <title> replaces an earlier one, other lines,
\* and all between records, say nothing.
SgmlLine(read, line) ==
  CASE line = <<"<top>">> ->
         IF read.open THEN [read EXCEPT !.failed = TRUE]
         ELSE [read EXCEPT !.open = TRUE, !.num = <<>>, !.title = <<>>]
    [] line = <<"</top>">> ->
         IF ~read.open THEN [read EXCEPT !.failed = TRUE]
         ELSE [Push(read, read.num, read.title) EXCEPT !.open = FALSE]
    [] read.open /\ line /= <<>> /\ line[1] = "<num>" ->
         LET value == Before(Tail(line), "</num>")
         IN  [read EXCEPT !.num = IF value /= <<>> /\ value[1] = "Number:" THEN Tail(value) ELSE value]
    [] read.open /\ line /= <<>> /\ line[1] = "<title>" ->
         [read EXCEPT !.title = Before(Tail(line), "</title>")]
    [] OTHER -> read

\* One line of a table: an identifier, a tab, the query.
TableLine(read, line) ==
  LET words == SelectSeq(line, LAMBDA token : token /= TAB)
      id == Before(line, TAB)
  IN  IF IsComment(words) THEN read
      ELSE IF ~Contains(line, TAB) THEN [read EXCEPT !.failed = TRUE]
      ELSE Push(read, id, SubSeq(words, Len(id) + 1, Len(words)))

\* load_topics.
Topics(data) ==
  FoldLeft(LAMBDA read, line : IF Contains(Lines(data), <<"<top>">>) THEN SgmlLine(read, line)
                               ELSE TableLine(read, line),
           [open |-> FALSE, failed |-> FALSE, num |-> <<>>, title |-> <<>>, topics |-> <<>>],
           Lines(data))

ParseTopics ==
  /\ input.state = "reading" /\ input.format = "topics" /\ AtEnd
  /\ LET read == Topics(input.record)
     IN  IF read.failed \/ read.open \/ read.topics = <<>> THEN Refuse
         ELSE Become([input EXCEPT !.state = "accepted", !.documents = read.topics])
  /\ UNCHANGED <<path, files, clock, others>>

EndQrels ==
  /\ input.state = "reading" /\ input.format = "qrels" /\ AtEnd
  /\ IF input.documents = <<>> THEN Refuse ELSE Become([input EXCEPT !.state = "accepted"])
  /\ UNCHANGED <<path, files, clock, others>>

\* The end of visit_collection.  Mutant: the time of the last modification is not compared.
UnchangedExceptTime ==
  input.at = input.length /\ Len(Data) = input.length /\ path = input.inode

Unchanged ==
  /\ input.at = input.length /\ Len(Data) = input.length
  /\ files[input.inode].mtime = input.mtime
  /\ path = input.inode

EndCollection ==
  /\ input.state = "reading" /\ input.format \in Collections /\ AtEnd
  /\ IF Unchanged /\ ~input.open /\ input.documents /= <<>>
     THEN Become([input EXCEPT !.state = "accepted"])
     ELSE Refuse
  /\ UNCHANGED <<path, files, clock, others>>

-----------------------------------------------------------------------------
\* External: others write to the file or put another one in its place.

Busy == input.state \in {"opened", "reading"}

Overwrite ==
  /\ Busy /\ others.writes < MaxWrites
  /\ \E i \in {path, input.inode}, data \in Contents[input.format] :
       /\ data /= files[i].data
       /\ files' = [files EXCEPT ![i] = [data |-> data, mtime |-> clock]]
       /\ others' = [others EXCEPT !.writes = @ + 1, !.touched = TRUE,
                       !.hidden = @ \/ (i = input.inode /\ clock = input.mtime)]
  /\ UNCHANGED <<path, clock, input>>

Rename ==
  /\ Busy /\ others.writes < MaxWrites
  /\ path' \in Inodes \ {path}
  /\ others' = [others EXCEPT !.writes = @ + 1, !.touched = TRUE]
  /\ UNCHANGED <<files, clock, input>>

Tick ==
  /\ Busy /\ clock < MaxClock
  /\ clock' = clock + 1
  /\ UNCHANGED <<path, files, input, others>>

Next ==
  \/ Open \/ Identify
  \/ ReadHeader \/ ReadRow \/ ReadJson \/ ReadDoc \/ ReadEndDoc \/ ReadContent
  \/ ReadJudgment \/ ReadTopics
  \/ ParseTopics \/ EndQrels \/ EndCollection
  \/ Overwrite \/ Rename \/ Tick

Spec == Init /\ [][Next]_vars
-----------------------------------------------------------------------------
\* What a text says, line by line.

Chosen(lines, Says(_)) == SelectSeq([k \in DOMAIN lines |-> k], LAMBDA k : Says(lines[k]))

\* Records between an opening and a closing line, in order: the first and the last line.
Records(lines, open, close) ==
  LET marks == {k \in DOMAIN lines : lines[k] \in {<<open>>, <<close>>}}
      Next1(k) == {j \in marks : j > k /\ \A i \in marks : i > k => i >= j}
  IN  [i \in DOMAIN Chosen(lines, LAMBDA line : line = <<open>>) |->
         LET k == Chosen(lines, LAMBDA line : line = <<open>>)[i]
         IN  <<k, IF Next1(k) = {} THEN 0 ELSE CHOOSE j \in Next1(k) : TRUE>>]

\* Openings and closings take turns.
Bracketed(lines, open, close) ==
  LET records == Records(lines, open, close)
  IN  /\ \A i \in DOMAIN records : records[i][2] /= 0 /\ lines[records[i][2]] = <<close>>
      /\ Len(records) = Len(Chosen(lines, LAMBDA line : line = <<close>>))

Within(records, k) == \E i \in DOMAIN records : records[i][1] < k /\ k < records[i][2]

TrecRecord(lines, record) == FlattenSeq(SubSeq(lines, record[1] + 1, record[2] - 1))

\* The last line of a topic that starts with the tag, without a closing tag.
LastTagged(lines, record, tag, closing) ==
  LET K == {k \in record[1] .. record[2] : lines[k] /= <<>> /\ lines[k][1] = tag}
      line == lines[CHOOSE k \in K : \A j \in K : j <= k]
  IN  IF K = {} THEN <<>> ELSE SelectSeq(Before(Tail(line), closing), LAMBDA t : t /= "Number:")

\* The documents, topics or judgments of a text.
Said(format, data) ==
  LET lines == Lines(data)
      full == Chosen(lines, LAMBDA line : line /= <<>>)
      docs == Records(lines, "<DOC>", "</DOC>")
      tops == Records(lines, "<top>", "</top>")
      told == Chosen(lines, LAMBDA line : ~IsComment(SelectSeq(line, LAMBDA t : t /= TAB)))
  IN  CASE format = "tsv" ->
             [i \in 1 .. Len(full) - 1 |-> RowDocument(lines[1], lines[full[i + 1]])]
        [] format = "jsonl" -> [i \in DOMAIN full |-> RecordDocument(lines[full[i]])]
        [] format = "trec" -> [i \in DOMAIN docs |-> TrecDocument(TrecRecord(lines, docs[i]))]
        [] format = "topics" /\ tops /= <<>> ->
             [i \in DOMAIN tops |-> [id |-> LastTagged(lines, tops[i], "<num>", "</num>")[1],
                                     text |-> LastTagged(lines, tops[i], "<title>", "</title>")]]
        [] format = "topics" /\ tops = <<>> ->
             [i \in DOMAIN told |->
                [id |-> lines[told[i]][1],
                 text |-> SelectSeq(Tail(lines[told[i]]), LAMBDA token : token /= TAB)]]
        [] format = "qrels" -> [i \in DOMAIN told |-> Judgment(lines[told[i]])]

\* Whether it says so properly.
Proper(format, data) ==
  LET raw == RawLines(data)
      lines == Lines(data)
      docs == Records(lines, "<DOC>", "</DOC>")
      tops == Records(lines, "<top>", "</top>")
  IN  CASE format = "tsv" ->
             /\ lines /= <<>> /\ IsHeader(lines[1])
             /\ \A k \in DOMAIN lines : Len(lines[k]) \in {0, Len(lines[1])}
             /\ \A k \in DOMAIN lines : Len(lines[k]) <= MaxRecord
        [] format = "jsonl" ->
             \A k \in DOMAIN lines : (lines[k] = <<>> \/ IsRecord(lines[k])) /\ Len(lines[k]) <= MaxRecord
        [] format = "trec" ->
             /\ Bracketed(lines, "<DOC>", "</DOC>")
             /\ \A k \in DOMAIN lines :
                  \/ lines[k] \in {<<"<DOC>">>, <<"</DOC>">>} \/ Within(docs, k)
                  \/ lines[k] = <<>> /\ Len(raw[k]) <= MaxRecord
             /\ \A i \in DOMAIN docs :
                  /\ IsTrecRecord(TrecRecord(lines, docs[i]))
                  /\ Len(FlattenSeq(SubSeq(raw, docs[i][1], docs[i][2]))) <= MaxRecord
        [] format = "topics" /\ tops /= <<>> ->
             /\ Bracketed(lines, "<top>", "</top>")
             /\ \A i \in DOMAIN tops :
                  /\ Len(LastTagged(lines, tops[i], "<num>", "</num>")) = 1
                  /\ LastTagged(lines, tops[i], "<title>", "</title>") /= <<>>
        [] format = "topics" /\ tops = <<>> ->
             \A k \in DOMAIN lines :
               \/ IsComment(SelectSeq(lines[k], LAMBDA t : t /= TAB))
               \/ /\ Len(lines[k]) > 2 /\ lines[k][2] = TAB /\ lines[k][1] /= TAB
                  /\ \E i \in 3 .. Len(lines[k]) : lines[k][i] /= TAB
        [] format = "qrels" ->
             \A k \in DOMAIN lines :
               /\ Len(raw[k]) <= MaxQrelsLine
               /\ IsComment(lines[k]) \/ IsJudgment(lines[k])

\* And within the limits, no document, topic or judgment twice.
Acceptable(format, into, data) ==
  /\ Len(data) <= (CASE format = "topics" -> MaxTopics [] format = "qrels" -> MaxQrels
                     [] OTHER -> MaxInput)
  /\ Proper(format, data)
  /\ LET said == Said(format, data)
     IN  /\ said /= <<>>
         /\ format \in Collections =>
              /\ Len(said) <= MaxDocuments
              /\ \A i \in DOMAIN said :
                   IsDocument(said[i]) /\ Cardinality(DOMAIN said[i].fields) <= MaxFields
         /\ format = "topics" \/ into = "index" => IsInjective([i \in DOMAIN said |-> said[i].id])
         /\ format = "qrels" =>
              IsInjective([i \in DOMAIN said |-> <<said[i].topic, said[i].document>>])

\* A file that nobody touches is accepted exactly if it is what its format asks for, and
\* what comes out is what it says, record by record (collection.rs:190-345, trec.rs:66-390):
\* a reader that carries something over from one line or record to the next, or counts a
\* limit wrongly, gets this wrong on some file.
ParsedAsWritten ==
  /\ input.state = "accepted" /\ ~others.touched =>
       /\ Acceptable(input.format, input.into, others.origin)
       /\ input.documents = Said(input.format, others.origin)
  /\ input.state = "refused" /\ ~others.touched /\ input.inode /= Directory =>
       ~Acceptable(input.format, input.into, others.origin)

\* A collection that is accepted is one content the file had, the one it was opened with,
\* however others write to it or replace it between two reads (collection.rs:254-263:
\* "collection changed while it was being read").  The exception is a write within the
\* same tick of the clock as the last one before the reader came: it leaves no trace if
\* the length is the same.
OneSnapshot ==
  input.state = "accepted" /\ input.format \in Collections /\ ~others.hidden =>
    /\ Acceptable(input.format, input.into, others.origin)
    /\ input.documents = Said(input.format, others.origin)
=============================================================================
