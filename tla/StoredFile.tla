----------------------------- MODULE StoredFile -----------------------------
(***************************************************************************)
(* persistence.rs, the container of shard.rs and that of forward.rs: what  *)
(* a save writes, what a crash, a full disk or an edit leaves of it, and   *)
(* what a load accepts.  A file is a sequence of cells, each a number, a   *)
(* string, a coded posting or a checksum; the bytes of a cell are left     *)
(* out.  A text has at most one token, so a document determines its        *)
(* lengths, postings and block bounds; that a reader validates these       *)
(* against the documents is the subject of IndexBuilder, and how a posting *)
(* is coded that of PostingBlock.                                          *)
(***************************************************************************)
EXTENDS Integers, SequencesExt

CONSTANTS
  Collections,    \* sequences of documents [id, fields], fields a sequence of <<name, text>>;
                  \* the empty text is 0
  ShardCounts,    \* numbers of shards
  MaxShards,      \* MAX_SHARDS
  BlockPostings,  \* BLOCK_POSTINGS
  MaxItems,       \* MAX_COLLECTION_ITEMS
  MaxStreams,     \* MAX_BLOCK_MAX_STREAMS
  MaxBlock,       \* MAX_POSTING_BLOCK_BYTES
  MaxPayload,     \* MAX_INDEX_PAYLOAD_BYTES and MAX_PAYLOAD_BYTES
  MaxShard,       \* MAX_SHARD_PAYLOAD_BYTES
  MaxContainer,   \* MAX_CONTAINER_PAYLOAD_BYTES
  MaxDamages      \* bound: edits of a file

VARIABLES
  state,     \* "idle", "writing", "saved", "torn", "verified", "loaded" or "refused"
  file,      \* the cells on disk
  goal,      \* the cells to be written
  saved,     \* history: what is saved, [kind, version, shards]
  loaded,    \* the documents read, per shard
  damages,   \* edits made
  reading,   \* the second pass over a container: [limit, at, count, documents, shards]
  other      \* history: the shards another save has written during that pass, <<>> if none

vars == <<state, file, goal, saved, loaded, damages, reading, other>>

-----------------------------------------------------------------------------
\* Cells.

N(v) == <<"number", v>>
S(v) == <<"string", v>>
Coded(posting) == <<"posting", posting>>
Checksum(payload) == <<"checksum", payload>>

Magic(kind, version) == <<"magic", <<kind, version>>>>

\* A count and what it counts.
Counted(items) == <<N(Len(items))>> \o FlattenSeq(items)

-----------------------------------------------------------------------------
\* An index of single-token texts.

TermKeys(documents) ==
  {<<documents[d].fields[i][1], documents[d].fields[i][2]>> :
     <<d, i>> \in {<<d, i>> \in (DOMAIN documents) \X (1 .. 2) :
                     i <= Len(documents[d].fields) /\ documents[d].fields[i][2] /= 0}}

Before(a, b) == a[1] < b[1] \/ (a[1] = b[1] /\ a[2] < b[2])
Dictionary(documents) == SetToSortSeq(TermKeys(documents), Before)

PostingDocuments(documents, keys) ==
  SelectSeq([d \in DOMAIN documents |-> d - 1],
            LAMBDA d : \E i \in DOMAIN documents[d + 1].fields : documents[d + 1].fields[i] \in keys)

\* Streams of block bounds: each term of a field, and (field 0) each term of all fields.
Streams(documents) ==
  SetToSortSeq(TermKeys(documents) \union {<<0, key[2]>> : key \in TermKeys(documents)}, Before)

StreamPostings(documents, key) ==
  PostingDocuments(documents,
                   IF key[1] = 0 THEN {k \in TermKeys(documents) : k[2] = key[2]} ELSE {key})

Blocks(n) == (n + BlockPostings - 1) \div BlockPostings

-----------------------------------------------------------------------------
\* Writers.

WriteDocuments(documents) ==
  <<N(1)>> \o Counted([d \in DOMAIN documents |->
    <<S(documents[d].id)>>
      \o Counted([i \in DOMAIN documents[d].fields |->
                    <<S(documents[d].fields[i][1]), S(documents[d].fields[i][2])>>])
      \o Counted([i \in DOMAIN documents[d].fields |->
                    <<S(documents[d].fields[i][1]), N(IF documents[d].fields[i][2] = 0 THEN 0 ELSE 1)>>])])

\* write_compressed_postings and write_monotone_postings: a coded block with its length.
WritePostings(documents) ==
  LET keys == Dictionary(documents)
  IN  Counted([k \in DOMAIN keys |->
        LET postings == PostingDocuments(documents, {keys[k]})
        IN  <<S(keys[k][1]), S(keys[k][2]), N(Len(postings)), N(Len(postings))>>
              \o [p \in DOMAIN postings |-> Coded(postings[p])]])

\* The postings of version 1: document, frequency and positions as plain numbers.
WriteLegacyPostings(documents) ==
  LET keys == Dictionary(documents)
  IN  Counted([k \in DOMAIN keys |->
        LET postings == PostingDocuments(documents, {keys[k]})
        IN  <<S(keys[k][1]), S(keys[k][2])>>
              \o Counted([p \in DOMAIN postings |-> <<N(postings[p]), N(1), N(1), N(0)>>])])

WriteBlockMax(documents) ==
  LET keys == Streams(documents)
  IN  <<N(BlockPostings)>> \o Counted([k \in DOMAIN keys |->
        LET count == Len(StreamPostings(documents, keys[k]))
        IN  (IF keys[k][1] = 0 THEN <<N(0)>> ELSE <<N(1), S(keys[k][1])>>)
              \o <<S(keys[k][2]), N(count)>> \o Counted([b \in 1 .. Blocks(count) |-> <<N(0)>>])])

Payload(version, documents) ==
  WriteDocuments(documents)
    \o (IF version = 1 THEN WriteLegacyPostings(documents) ELSE WritePostings(documents))
    \o (IF version <= 2 THEN <<>> ELSE WriteBlockMax(documents))

WithHeader(kind, version, payload) ==
  <<Magic(kind, version), N(version), N(Len(payload)), Checksum(payload)>> \o payload

\* write_to_with_codec; version 1 had no length and no checksum.
IndexFile(version, documents) ==
  IF version = 1 THEN <<Magic("index", 1), N(1)>> \o Payload(1, documents)
  ELSE WithHeader("index", version, Payload(version, documents))

ShardsPayload(version, shards) ==
  <<N(Len(shards)), N(Len(FlattenSeq(shards)))>>
    \o FlattenSeq([s \in DOMAIN shards |->
         <<N(Len(IndexFile(version, shards[s])))>> \o IndexFile(version, shards[s])])

\* The lexicon and the documents of a forward index.
ForwardPayload(documents) ==
  LET keys == Dictionary(documents)
  IN  <<N(1)>> \o Counted([k \in DOMAIN keys |-> <<S(keys[k][1]), S(keys[k][2])>>])
        \o Counted([d \in DOMAIN documents |->
             <<S(documents[d].id)>> \o Counted([i \in DOMAIN documents[d].fields |->
                LET field == documents[d].fields[i]
                    ids == SelectSeq([k \in DOMAIN keys |-> k - 1], LAMBDA k : keys[k + 1] = field)
                IN  <<S(field[1]), S(field[2])>> \o Counted([j \in DOMAIN ids |-> <<N(ids[j])>>])])])

FileOf(what) ==
  CASE what.kind = "index" -> IndexFile(what.version, what.shards[1])
    [] what.kind = "sharded" ->
         WithHeader("sharded", 1, ShardsPayload(what.version, what.shards))
    [] what.kind = "forward" -> WithHeader("forward", 1, ForwardPayload(what.shards[1]))

\* Limits a writer keeps.
IndexWritable(version, documents) ==
  /\ Len(documents) <= MaxItems /\ Len(Dictionary(documents)) <= MaxItems
  /\ \A d \in DOMAIN documents : Len(documents[d].fields) <= MaxItems
  /\ \A key \in TermKeys(documents) : Len(PostingDocuments(documents, {key})) <= MaxBlock
  /\ version >= 3 => Len(Streams(documents)) <= MaxStreams
  /\ version >= 2 => Len(Payload(version, documents)) <= MaxPayload

Writable(what) ==
  CASE what.kind = "index" -> IndexWritable(what.version, what.shards[1])
    [] what.kind = "sharded" ->
         /\ \A s \in DOMAIN what.shards :
              /\ IndexWritable(what.version, what.shards[s])
              /\ Len(IndexFile(what.version, what.shards[s])) <= MaxShard
         /\ Len(ShardsPayload(what.version, what.shards)) <= MaxContainer
    [] what.kind = "forward" -> Len(ForwardPayload(what.shards[1])) <= MaxPayload

-----------------------------------------------------------------------------
\* Readers.  Each takes the position it starts at and returns the one after what it read,
\* Bad when the cells do not allow it.

Bad == 0

Skip(c, i, n, kind) ==
  IF i /= Bad /\ i + n - 1 <= Len(c) /\ \A k \in i .. i + n - 1 : c[k][1] = kind THEN i + n ELSE Bad

Text(c, i) == Skip(c, i, 1, "string")

Number(c, i, limit) ==
  IF Skip(c, i, 1, "number") /= Bad /\ c[i][2] <= limit THEN i + 1 ELSE Bad

\* A count within its limit and that many items: where each starts, and where they end.
Repeat(c, i, limit, Item(_)) ==
  IF Number(c, i, limit) = Bad THEN <<Bad>>
  ELSE FoldLeft(LAMBDA starts, k : Append(starts, Item(Last(starts))), <<i + 1>>,
                [k \in 1 .. c[i][2] |-> k])

\* Keys of items are distinct.
Distinct(starts, KeyAt(_)) ==
  \A j, k \in 1 .. Len(starts) - 1 : j /= k => KeyAt(starts[j]) /= KeyAt(starts[k])

ReadDocument(c, i) ==
  LET fields == Repeat(c, Text(c, i), MaxItems, LAMBDA at : Text(c, Text(c, at)))
      lengths == Repeat(c, Last(fields), MaxItems, LAMBDA at : Number(c, Text(c, at), MaxItems))
  IN  IF Last(lengths) /= Bad /\ Distinct(lengths, LAMBDA at : c[at]) THEN Last(lengths) ELSE Bad

ReadDocuments(c, i) ==
  Repeat(c, IF i /= Bad /\ i <= Len(c) /\ c[i] = N(1) THEN i + 1 ELSE Bad, MaxItems,
         LAMBDA at : ReadDocument(c, at))

\* A block is cut out of the payload by its length and must decode to the count.
ReadEntry(c, i) ==
  LET block == Number(c, Number(c, Text(c, Text(c, i)), MaxItems), MaxBlock)
  IN  IF block = Bad \/ c[block - 1] /= c[block - 2] THEN Bad
      ELSE Skip(c, block, c[block - 1][2], "posting")

ReadLegacyEntry(c, i) ==
  Last(Repeat(c, Text(c, Text(c, i)), MaxItems, LAMBDA at :
    Last(Repeat(c, Number(c, Number(c, at, MaxItems), MaxItems), MaxItems,
                LAMBDA position : Number(c, position, MaxItems)))))

ReadDictionary(version, c, i) ==
  LET entries == Repeat(c, i, MaxItems, LAMBDA at :
                   IF version = 1 THEN ReadLegacyEntry(c, at) ELSE ReadEntry(c, at))
  IN  IF Last(entries) /= Bad /\ Distinct(entries, LAMBDA at : <<c[at], c[at + 1]>>)
      THEN Last(entries) ELSE Bad

\* The scope of a stream is 0, or 1 and a field.
StreamTerm(c, i) ==
  IF Number(c, i, 1) = Bad THEN Bad ELSE IF c[i] = N(0) THEN i + 1 ELSE Text(c, i + 1)

ReadStream(c, i) ==
  LET count == Text(c, StreamTerm(c, i))
      blocks == Number(c, count, MaxItems)
  IN  IF Number(c, blocks, MaxItems) = Bad \/ c[blocks][2] /= Blocks(c[count][2]) THEN Bad
      ELSE Last(Repeat(c, blocks, MaxItems, LAMBDA at : Number(c, at, MaxItems)))

ReadBlockMax(c, i) ==
  LET streams == Repeat(c, i + 1, MaxStreams, LAMBDA at : ReadStream(c, at))
  IN  IF /\ i /= Bad /\ i <= Len(c) /\ c[i] = N(BlockPostings)
         /\ Last(streams) /= Bad
         /\ Distinct(streams, LAMBDA at : SubSeq(c, at, StreamTerm(c, at)))
      THEN Last(streams) ELSE Bad

\* The payload of an index from position i, and that nothing follows it.
ReadsIndex(version, c, i) ==
  LET documents == Last(ReadDocuments(c, i))
      postings == ReadDictionary(version, c, documents)
  IN  (IF version <= 2 THEN postings ELSE ReadBlockMax(c, postings)) = Len(c) + 1

\* format_version_from_header.
Version(kind, c) ==
  IF Len(c) < 2 THEN 0
  ELSE LET versions == {v \in 1 .. 5 : c[1] = Magic(kind, v) /\ c[2] = N(v)}
       IN  IF versions = {} THEN 0 ELSE CHOOSE v \in versions : TRUE

Body(c) == SubSeq(c, 5, Len(c))

\* read_checksummed_payload: the declared length is what is left, and the sum agrees.
Checksummed(c, limit) ==
  /\ Len(c) >= 4
  /\ c[3][1] = "number" /\ c[3][2] <= limit
  /\ Len(Body(c)) = c[3][2]
  /\ c[4] = Checksum(Body(c))

\* Mutant: checksums are not compared.
AcceptsIndexUnchecked(c) ==
  LET version == Version("index", c)
  IN  IF version <= 1 THEN version = 1 /\ ReadsIndex(1, SubSeq(c, 3, Len(c)), 1)
      ELSE ReadsIndex(version, Body(c), 1)

\* InvertedIndex::read_from.
AcceptsIndex(c) ==
  LET version == Version("index", c)
  IN  IF version <= 1 THEN version = 1 /\ ReadsIndex(1, SubSeq(c, 3, Len(c)), 1)
      ELSE Checksummed(c, MaxPayload) /\ ReadsIndex(version, Body(c), 1)

IndexPayload(c) == IF Version("index", c) = 1 THEN SubSeq(c, 3, Len(c)) ELSE Body(c)

\* The shards, each taken out of the payload by its length.
ReadShard(c, i) ==
  IF Number(c, i, MaxShard) = Bad \/ i + c[i][2] > Len(c) THEN Bad ELSE i + 1 + c[i][2]

\* documents_in_shard.
Population(count, shards, s) == IF s > count THEN 0 ELSE (count - s) \div shards + 1

DocumentsOf(payload) ==
  LET starts == ReadDocuments(payload, 1)
  IN  [d \in 1 .. Len(starts) - 1 |->
         [id |-> payload[starts[d]][2],
          fields |-> [i \in 1 .. payload[starts[d] + 1][2] |->
                        <<payload[starts[d] + 2 * i][2], payload[starts[d] + 2 * i + 1][2]>>]]]

\* The first pass of read_from over a container.
AcceptsContainer(c) == Version("sharded", c) = 1 /\ Checksummed(c, MaxContainer)

\* from_loaded_shards.
AcceptsShards(r) ==
  LET ids == FlattenSeq([s \in DOMAIN r.shards |->
                           [d \in DOMAIN r.shards[s] |-> r.shards[s][d].id]])
  IN  /\ \A s \in DOMAIN r.shards : Len(r.shards[s]) = Population(r.documents, r.count, s)
      /\ Len(ids) = r.documents /\ IsInjective(ids)

\* ForwardIndex::load and read_payload.
ReadForwardDocument(c, i) ==
  LET fields == Repeat(c, Text(c, i), MaxItems, LAMBDA at :
                  Last(Repeat(c, Text(c, Text(c, at)), MaxItems,
                              LAMBDA id : Number(c, id, MaxItems))))
  IN  IF Last(fields) /= Bad /\ Distinct(fields, LAMBDA at : c[at]) THEN Last(fields) ELSE Bad

ForwardDocuments(c) ==
  LET terms == Repeat(c, IF c /= <<>> /\ c[1] = N(1) THEN 2 ELSE Bad, MaxItems,
                      LAMBDA at : Text(c, Text(c, at)))
  IN  Repeat(c, Last(terms), MaxItems, LAMBDA at : ReadForwardDocument(c, at))

AcceptsForward(c) ==
  /\ Version("forward", c) = 1
  /\ Checksummed(c, MaxPayload)
  /\ Last(ForwardDocuments(Body(c))) = Len(Body(c)) + 1

ForwardDocumentAt(c, at) ==
  LET fields == Repeat(c, at + 1, MaxItems, LAMBDA i :
                  Last(Repeat(c, i + 2, MaxItems, LAMBDA id : Number(c, id, MaxItems))))
  IN  [id |-> c[at][2],
       fields |-> [i \in 1 .. c[at + 1][2] |-> <<c[fields[i]][2], c[fields[i] + 1][2]>>]]

Accepts(kind, c) ==
  CASE kind = "index" -> AcceptsIndex(c)
    [] kind = "sharded" -> AcceptsContainer(c)
    [] kind = "forward" -> AcceptsForward(c)

\* The documents of an accepted file.
Read(kind, c) ==
  IF kind = "index" THEN DocumentsOf(IndexPayload(c))
  ELSE LET starts == ForwardDocuments(Body(c))
       IN  [d \in 1 .. Len(starts) - 1 |-> ForwardDocumentAt(Body(c), starts[d])]

-----------------------------------------------------------------------------
\* Shards are dealt round robin.
Dealt(documents, n) ==
  [s \in 1 .. n |->
     [i \in 1 .. Population(Len(documents), n, s) |-> documents[(i - 1) * n + s]]]

Things ==
  {[kind |-> "index", version |-> v, shards |-> <<documents>>] : v \in 1 .. 5, documents \in Collections}
  \union {[kind |-> "sharded", version |-> v, shards |-> Dealt(documents, n)] :
            v \in {1, 3}, documents \in Collections, n \in ShardCounts}
  \union {[kind |-> "forward", version |-> 1, shards |-> <<documents>>] : documents \in Collections}

Init ==
  /\ state = "idle" /\ file = <<>> /\ goal = <<>> /\ damages = 0
  /\ saved \in Things
  /\ loaded = <<>> /\ other = <<>>
  /\ reading = [limit |-> 0, at |-> 1, count |-> 0, documents |-> 0, shards |-> <<>>]

\* save creates or truncates the file before it serializes anything; a limit that is
\* exceeded leaves the empty file.  A forward index is saved as a transaction.
Save ==
  /\ state = "idle"
  /\ file' = <<>>
  /\ IF Writable(saved)
     THEN state' = "writing" /\ goal' = FileOf(saved)
     ELSE state' = "torn" /\ UNCHANGED goal
  /\ UNCHANGED <<saved, loaded, damages, reading, other>>

\* The buffered writer passes on any number of bytes at a time.
Write ==
  /\ state = "writing" /\ saved.kind /= "forward"
  /\ \E n \in Len(file) + 1 .. Len(goal) : file' = SubSeq(goal, 1, n)
  /\ UNCHANGED <<state, goal, saved, loaded, damages, reading, other>>

Publish ==
  /\ state = "writing" /\ saved.kind = "forward"
  /\ file' = goal
  /\ state' = "saved"
  /\ UNCHANGED <<goal, saved, loaded, damages, reading, other>>

Close ==
  /\ state = "writing" /\ file = goal
  /\ state' = "saved"
  /\ UNCHANGED <<file, goal, saved, loaded, damages, reading, other>>

\* The disk is full, or the process is killed.
Interrupt ==
  /\ state = "writing" /\ file /= goal
  /\ state' = "torn"
  /\ UNCHANGED <<file, goal, saved, loaded, damages, reading, other>>

\* External: a cell of the file changes, is lost or comes to it.
Damage ==
  /\ state = "saved" /\ damages < MaxDamages
  /\ \/ \E i \in DOMAIN file :
          \/ file' = RemoveAt(file, i)
          \/ file' = InsertAt(file, i, file[i])
          \/ file[i][1] = "string" /\ file' = [file EXCEPT ![i] = S(0)]
          \/ file[i][1] = "number" /\ file' = [file EXCEPT ![i] = N(@[2] + 1)]
          \/ file[i][1] = "number" /\ file[i][2] > 0 /\ file' = [file EXCEPT ![i] = N(@[2] - 1)]
     \/ file' = Append(file, N(0))
  /\ file' /= file
  /\ damages' = damages + 1
  /\ UNCHANGED <<state, goal, saved, loaded, reading, other>>

Refuse == state' = "refused" /\ UNCHANGED <<loaded, reading>>

\* An index or a forward index is read in one pass.  A container is read once for its
\* checksum and then again from the start of its payload.
Load ==
  /\ state \in {"saved", "torn"}
  /\ IF ~Accepts(saved.kind, file) THEN Refuse
     ELSE IF saved.kind = "sharded"
     THEN state' = "verified" /\ reading' = [reading EXCEPT !.limit = file[3][2]] /\ UNCHANGED loaded
     ELSE state' = "loaded" /\ loaded' = <<Read(saved.kind, file)>> /\ UNCHANGED reading
  /\ UNCHANGED <<file, goal, saved, damages, other>>

\* External: another process saves a container to the same path, which truncates the file
\* that is being read; the save may be cut off as well.
Overwrite ==
  /\ state = "verified" /\ other = <<>> /\ damages = 0
  /\ \E thing \in Things :
       /\ thing.kind = "sharded" /\ Writable(thing) /\ thing /= saved
       /\ other' = thing.shards
       /\ \E n \in 0 .. Len(FileOf(thing)) : file' = SubSeq(FileOf(thing), 1, n)
  /\ UNCHANGED <<state, goal, saved, loaded, damages, reading>>

\* The payload as the second pass sees it.
Payload2 == SubSeq(Body(file), 1, Min({reading.limit, Len(Body(file))}))

ReadCounts ==
  /\ state = "verified" /\ reading.at = 1
  /\ IF \/ Number(Payload2, Number(Payload2, 1, MaxShards), MaxItems) = Bad
        \/ Payload2[1][2] = 0
     THEN Refuse
     ELSE /\ reading' = [reading EXCEPT !.at = 3, !.count = Payload2[1][2],
                                        !.documents = Payload2[2][2]]
          /\ UNCHANGED <<state, loaded>>
  /\ UNCHANGED <<file, goal, saved, damages, other>>

ReadNextShard ==
  /\ state = "verified" /\ reading.at > 1
  /\ Len(reading.shards) < reading.count
  /\ LET end == ReadShard(Payload2, reading.at)
         shard == SubSeq(Payload2, reading.at + 1, end - 1)
     IN  IF end = Bad \/ ~AcceptsIndex(shard) THEN Refuse
         ELSE /\ reading' = [reading EXCEPT !.at = end,
                                            !.shards = Append(@, DocumentsOf(IndexPayload(shard)))]
              /\ UNCHANGED <<state, loaded>>
  /\ UNCHANGED <<file, goal, saved, damages, other>>

Assemble ==
  /\ state = "verified" /\ reading.at > 1
  /\ Len(reading.shards) = reading.count
  /\ IF reading.at = reading.limit + 1 /\ AcceptsShards(reading)
     THEN state' = "loaded" /\ loaded' = reading.shards /\ UNCHANGED reading
     ELSE Refuse
  /\ UNCHANGED <<file, goal, saved, damages, other>>

Next ==
  \/ Save \/ Write \/ Publish \/ Close \/ Interrupt \/ Damage
  \/ Load \/ Overwrite \/ ReadCounts \/ ReadNextShard \/ Assemble

Spec == Init /\ [][Next]_vars
-----------------------------------------------------------------------------
\* A save in place (persistence.rs:112, shard.rs:344) may be cut off after any byte, by a
\* kill, a full disk or a limit: nothing it leaves is taken for an index, in any version,
\* not in version 1 either, which has no checksum, nor for a container of fewer documents.
\* What was written completely is accepted under the same limits and is what was saved,
\* and any change of a file with a checksum is noticed.  A container that another save
\* overwrites between the two passes is refused, or every shard of it is a whole shard of
\* one of the two saves: its own checksum is all that the second pass compares.
WholeOrRefused ==
  /\ state = "refused" => file /= goal \/ goal = <<>>
  /\ state = "loaded" =>
       CASE damages > 0 -> saved.kind = "index" /\ saved.version = 1
         [] other = <<>> -> file = goal /\ loaded = saved.shards
         [] OTHER -> \A s \in DOMAIN loaded : loaded[s] \in Range(saved.shards) \union Range(other)
=============================================================================
