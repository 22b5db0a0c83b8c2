------------------------------- MODULE MCCiff -------------------------------
(***************************************************************************)
(* The formats other programs write that IndexSail reads: CIFF files       *)
(* (CiffStream), and collections, topics and relevance judgments as text   *)
(* (TextInput).  A behaviour has one of them.                              *)
(*                                                                         *)
(* Exports of up to two documents with two fields and two terms, among     *)
(* them an empty one and one whose joined frequency exceeds i32::MAX; a    *)
(* file of another program that holds a part of its collection, and one    *)
(* with as many postings as the limit allows; every single change of them. *)
(* Texts in every format, at and past each limit, whose lines and records  *)
(* are out of order, doubled, cut off or mixed; two files that take turns  *)
(* under the path and hold any of them.                                    *)
(***************************************************************************)
EXTENDS CiffStream, TLC

CONSTANTS
  Contents, Inodes, Directory, Relevance, Member, MaxFields, MaxRecord, MaxInput, MaxTopics,
  MaxQrels, MaxQrelsLine, MaxWrites, MaxClock,  \* as in TextInput
  MaxCollection  \* its MaxDocuments

VARIABLES path, files, clock, input, others  \* those of TextInput

text == <<path, files, clock, input, others>>

Text == INSTANCE TextInput WITH MaxDocuments <- MaxCollection

\* No step of a parked component is enabled.
TextParked ==
  /\ path = Directory /\ files = <<>> /\ clock = 0 /\ others = <<>>
  /\ input = [Text!NoInput EXCEPT !.state = "parked"]

CiffParked ==
  /\ state = "parked"
  /\ native = <<>> /\ index = NoIndex /\ stream = <<>>
  /\ request = NoRequest /\ todo = {} /\ scores = <<>> /\ hits = {}
  /\ read = 0 /\ header = <<>> /\ lists = <<>> /\ documents = <<>>
  /\ written = NoIndex /\ origin = FALSE /\ edits = 0

InterchangeInit ==
  \/ Init /\ TextParked
  \/ Text!Init /\ CiffParked

InterchangeNext ==
  \/ Next /\ UNCHANGED text
  \/ Text!Next /\ UNCHANGED vars

InterchangeSpec == InterchangeInit /\ [][InterchangeNext]_<<vars, text>>
-----------------------------------------------------------------------------
\* TextInput's promises (collection.rs:190-345, trec.rs:66-390): an untouched file is
\* accepted exactly if it is proper, and means what it says; a collection that is accepted
\* is one content the file had.
ParsedAsWritten == Text!ParsedAsWritten
OneSnapshot == Text!OneSnapshot
-----------------------------------------------------------------------------
\* The instance.

MCFields == {"body", "title"}
MCTerms == {1, 2}

MCDocument(id, body, title) == [id |-> id, tf |-> [body |-> body, title |-> title]]
MCDocuments == {
  MCDocument(1, <<1, 0>>, <<1, 0>>), MCDocument(2, <<0, 1>>, <<1, 0>>),
  MCDocument(3, <<0, 0>>, <<0, 0>>), MCDocument(2, <<2, 0>>, <<2, 0>>)}

MCAverage(tokens, count) == IF count = 0 THEN 0 ELSE (12 * tokens) \div count

\* Rarer terms and shorter documents score higher.
MCImpact(tf, length, df, count, average) == 100 * tf * (count + 1 - df) + average - 12 * length

MCDefaultLimits == [lists |-> 3, documents |-> 3, postings |-> 9]
MCLimits == [lists |-> 2, documents |-> 2, postings |-> 3]

Posting(document, frequency) == [document |-> document, frequency |-> frequency]
List(term, postings) ==
  [term |-> term, df |-> Len(postings), cf |-> SumOfFrequencies(postings), postings |-> postings]

\* Documents 0 and 2 of three, with impacts larger than the lengths tell.
Part == [
  header |-> [version |-> 1, numLists |-> 2, numDocuments |-> 2, totalLists |-> 3,
              totalDocuments |-> 3, tokens |-> 3, average |-> 10],
  lists |-> <<List(1, <<Posting(0, 3), Posting(2, 1)>>), List(2, <<Posting(2, 2)>>)>>,
  documents |-> <<[document |-> 0, external |-> 2, length |-> 1],
                  [document |-> 2, external |-> 1, length |-> 2]>>]

MCForeign == {Messages(Part)}

MCRequests ==
  {[terms |-> terms, operator |-> operator, top_k |-> k] :
     terms \in {{1}, {1, 2}}, operator \in {"Or", "And"}, k \in 1 .. 2}
-----------------------------------------------------------------------------
InodeSymmetry == Permutations(Inodes)

MCRelevance == ("0" :> 0) @@ ("1" :> 1) @@ ("31" :> 31) @@ ("32" :> 32)

Json(key, name, value) == [key |-> key, name |-> name, value |-> value]
MCMember ==
  ("id=1" :> Json("id", "", "1")) @@ ("id=2" :> Json("id", "", "2")) @@ ("fields" :> Json("fields", "", ""))
    @@ (".t=x" :> Json("entry", "t", "x")) @@ (".t=y" :> Json("entry", "t", "y"))
    @@ (".b=x" :> Json("entry", "b", "x")) @@ ("title=1" :> Json("title", "", "1"))
    @@ ("content=x" :> Json("content", "", "x")) @@ ("url=" :> Json("url", "", ""))
    @@ ("url=u" :> Json("url", "", "u"))

\* A line; a tab within a line of topics (TextInput's NL and TAB).
TAB == "tab"
L(tokens) == Append(tokens, "nl")
Blank == L(<<>>)

Tables == {
  L(<<"id", "t">>) \o L(<<"1", "x">>) \o <<"2", "y">>,
  L(<<"id", "t">>) \o L(<<"1", "y">>) \o <<"2", "x">>,
  L(<<"id", "t", "b">>) \o Blank \o L(<<"1", "x", "">>) \o L(<<"1", "", "y">>),
  L(<<"id", "t">>) \o L(<<"1", "x">>) \o L(<<"2", "y">>) \o L(<<"3", "y">>),
  L(<<"id", "t">>) \o L(<<"1", "x", "y">>),
  L(<<"id", "t", "t">>) \o L(<<"1", "x", "y">>),
  L(<<"id", "t">>),
  <<>>}

JsonRecords == {
  L(<<"{", "id=1", "fields", ".t=x", "}">>) \o L(<<"{", "title=1", "content=x", "url=u", "}">>),
  L(<<"{", "fields", ".t=y", "id=2", "}">>) \o L(<<"{", "content=x", "url=", "title=1", "}">>),
  L(<<"{", "id=1", "fields", ".t=x", "}">>) \o Blank \o <<"{", "id=2", "fields", ".b=x", "}">>,
  L(<<"{", "id=1", "fields", ".t=x", ".t=y", "}">>),
  L(<<"{", "id=1", "fields", ".t=x", ".b=x", "}">>) \o L(<<"{", "id=2", "fields", ".t=x", "url=", "}">>),
  L(<<"{", "title=1", "fields", "content=x", "}">>)}

DOC(lines) == L(<<"<DOC>">>) \o lines \o L(<<"</DOC>">>)
DOCNO(id) == <<"<DOCNO>", id, "</DOCNO>">>
First == Blank \o DOC(L(DOCNO("1")) \o L(<<"<TEXT>", "x", "</TEXT>">>))
Second == Blank \o DOC(L(DOCNO("2")) \o L(<<"<TEXT>", "y", "</TEXT>">>))

TrecDocuments == {
  First, Second, First \o Second \o Blank \o Blank,
  DOC(L(DOCNO("1") \o <<"<TEXT>">>) \o L(<<"x", "</TEXT>">>))
    \o DOC(L(DOCNO("2") \o <<"<TITLE>", "<B>", "y", "</TITLE>">>)),
  DOC(L(DOCNO("1")) \o L(<<"<BODY>", "x", "y", "</BODY>", "x", "x">>)),
  L(<<"<DOC>">>) \o L(DOCNO("1")) \o L(<<"<TEXT>", "x">>) \o L(<<"<DOC>">>),
  L(<<"<DOC>">>) \o L(DOCNO("1")) \o L(<<"<TEXT>", "x", "</TEXT>">>),
  L(<<"x">>),
  L(<<"</DOC>">>)}

Twice ==  \* a topic whose number is given twice
  L(<<"<top>">>) \o L(<<"<num>", "Number:", "1">>) \o L(<<"<title>", "x", "</title>">>)
    \o L(<<"<num>", "2", "</num>">>) \o L(<<"</top>">>)

TopicLists == {
  L(<<"1", TAB, "x">>) \o L(<<"#", "y">>) \o <<"2", TAB, "x", "y">>,
  L(<<"1", TAB, "x">>) \o L(<<"1", TAB, "y">>),
  L(<<"1", "x">>),
  Twice \o L(<<"1", TAB, "x">>),
  Twice \o L(<<"1", TAB, "x", "y">>),
  L(<<"<top>">>) \o L(<<"<num>", "1">>) \o L(<<"<title>", "x">>) \o L(<<"</top>">>)
    \o L(<<"<top>">>) \o L(<<"<title>", "x">>) \o L(<<"</top>">>),
  L(<<"<top>">>) \o L(<<"<num>", "1">>) \o L(<<"<title>", "x">>),
  <<>>}

Judgments == {
  L(<<"1", "0", "1", "1">>) \o L(<<"#">>) \o L(<<"1", "0", "2", "31">>) \o <<"2", "0", "1", "0">>,
  L(<<"1", "0", "1", "32">>),
  L(<<"1", "0", "1", "1">>) \o L(<<"1", "1", "1", "0">>),
  L(<<"1", "0", "1">>),
  L(<<"#", "1", "0", "1">>) \o L(<<"1", "0", "1", "0">>),
  L(<<"#", "1", "0", "1", "0">>) \o L(<<"1", "0", "1", "0">>),
  Blank}

MCContents == [tsv |-> Tables, jsonl |-> JsonRecords, trec |-> TrecDocuments,
               topics |-> TopicLists, qrels |-> Judgments]
=============================================================================
