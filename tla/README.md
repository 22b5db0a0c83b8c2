# IndexSail, specified in TLA+

IndexSail is a deterministic search engine in Rust: a positional inverted index over fielded documents, ranked
retrieval by five executors that must return the same hits, compressed and checksummed files, sharding, document
reordering, an exchange format (CIFF), and a command line that writes its outputs as transactions. This directory
holds TLA+ models of it, the TLC configurations that check them, and TLAPS proofs about the executors, the index, the
sharded index, reordering, the transaction and the command line.

Paths below are those of the repository, relative to `src/` of the crate unless they start with `docs/`.

## 1. The system

| component | code | state it keeps | operations | correct when |
|---|---|---|---|---|
| Ranked retrieval | `search.rs` | heap (`TopK`), one cursor per term, a threshold | exhaustive, WAND, block-max WAND, MaxScore, BlockMax MaxScore | all five return the exact `top_k`, ties by document number |
| Output transaction | `atomic.rs` | per output a temporary file, a backup, `installed` | stage, back up, install, sync, clean up, roll back | all outputs change or none; the old content survives a kill |
| Analyzer, documents | `analysis.rs`, `document.rs` | none | tokenize, normalize one term | a normalized term analyzes to itself |
| Index builder, validation | `index.rs` | documents, lengths, postings, totals, block bounds | `add_document`, `finish`, `from_parts` | what is built is exact and passes its readers' validation |
| Forward index | `forward.rs` | lexicon, documents with term IDs | build, reorder, save, load, `invert` | inverting loses and adds nothing |
| Sharded index | `shard.rs` | one index per shard, collection statistics | build round robin, search, save, load | answers as one index |
| Reordering | `reorder.rs` | order, degree table, pair of maps | bisection, random, feature, mapping file | a map is two inverse permutations |
| Integer codecs | `codec.rs`, `elias_fano.rs`, `interpolative.rs` | a bit or byte cursor | encode, decode | round trip; nothing invalid is decoded |
| CIFF | `ciff/*.rs` | header, lists, records | export, write, read, validate, search | written reads back; a search finds its records |
| Query construction | `query.rs`, `search.rs:600-980` | none | normalize and merge terms, score lists, filter, bound blocks | the prepared request has the answer of the query as written |
| Index persistence | `persistence.rs` | none | write and read an index file | what loads is whole and is what was saved |
| Collection and TREC input | `collection.rs`, `trec.rs` | counters under limits, an open record | read collections, topics, judgments | a text is accepted exactly if it is proper, and means what it says |
| Batch evaluation | `evaluation.rs` | reports per topic, means | search, verify, measure, write run and report | what is reported is true, whichever executor is wrong |
| Benchmark | `benchmark.rs` | answers of a reference pass, checksums | time every executor, compare | as above |
| Command line | `cli.rs` | options | parse, compare paths, read, replace outputs | inputs survive; all outputs or none; no option is passed over |

How they interact: everything is in one process and calls are synchronous; nothing in the crate spawns a thread. The
command line builds or loads an index; reports, runs, forward and CIFF files go through an output transaction, where
their serializers run while the temporary files are written (`index` and `shard-index` write in place). The
builder and the reader of a file end in the same validation (`InvertedIndex::from_parts_with_block_max`); the forward
index enters it through `invert`. The sharded index holds one `InvertedIndex` per shard and gives the executors
collection-wide statistics instead of a shard's own. The executors read posting lists and the block bounds that the
builder or the reader has stored. CIFF flattens an index to one field.

What is hard here, therefore, is not concurrency within the program. It is

* pruning: five executors that skip documents by bounds, at thresholds where a tie decides (`search.rs:414`, `:1030`,
  `:1129`), with bounds that may be stale (`:496`, `:1372`) or rounded (`:1128`);
* failure of one file-system call of several, a kill between any two, another process at work in the same directory,
  and a rollback that itself fails (`atomic.rs:216-349`);
* readers that trust nothing: a validation whose checks, each local, must add up to a global fact; files that others
  change while they are read (`collection.rs:245`, `shard.rs:457`);
* paths: an output that is an input under another name (`cli.rs:1739`);
* long sequences that share mutable state: the degree table of the bisection, the posting budget of CIFF, the counters
  of the builder after an addition that failed half-way.

`PROJECT.json` lists each such place with its line and the properties that would catch it going wrong.

## 2. Modules

A module per component; definitions are named after the functions, `map` in `PROJECT.json` gives their lines. Extends:

    TopK --- Retrieval --- RankedRetrieval                        abstract answer to a request
      |        |---------- ExhaustiveSearch --.-- PreparedSearch
      |        |---------- QueryPreparation --'
      |        |---------- WandSearch ------.
      |        |---------- MaxScoreSearch --+ PrunedSearch        (instances of both)
      |        '---------- PrunedSearch ----'
      |----- Collection                                           abstract search of a whole collection
      |        |---------- ShardedIndex --- ShardedFiles          (implements Collection; instance of StoredFile)
      |        '---------- CiffIndex --- CiffStream --- MCCiff       (instance of TextInput)
      '----- SetProofs
    Analyzer --- IndexBuilder --- ForwardIndex
    EliasFano --- Interpolative --- PostingBlock
    Bisection --- Reordering
    OutputTransaction, Commands, CommandOptions, BatchEvaluation --- CommandLine
    SetProofs, PreparedSearch --- ExhaustiveSearchProofs
    SetProofs, PrunedSearch --- PrunedSearchProofs
    SetProofs, ShardedIndex, Reordering --- NumberingProofs
    SetProofs, ForwardIndex --- IndexProofs
    SetProofs, PostingBlock --- CodecProofs
    SetProofs, CiffStream --- CiffProofs
    SetProofs, CommandLine --- CommandLineProofs

`MC*` modules give the constants their values. `ShardedFiles`, `MCCiff` and `CommandLine` put components that meet
only at a call beside each other: a behaviour is one of theirs, and the variables of the others are parked in a state
without steps. What one waits for is an abstract step of another: `ReplaceOutputs` of `Commands` is the outcome of an
`OutputTransaction`, an answer of an executor is a constant of `BatchEvaluation`.

**TopK, Retrieval.** `TopK` is the heap: a set of at most `top_k` entries `[doc, score]`, `Consider` keeps or replaces
the worst one, `BelowThreshold` is the strict comparison on which pruning rests. `Retrieval` has what the executors
share: a request (posting lists with an impact each, operator, `top_k`, the accepted documents), the order in which a
score is added up (ordinal order, with the constant `Plus`), bounds and blocks, and cursors as the set of postings left.
Scores are integers; `Plus`, `Up` (one outward rounding) and `Finite` are constants, so the same modules run on
exact and on rounded arithmetic. A scorer is a function from documents to impacts; how it comes about is the next
module's subject.

**QueryPreparation, PreparedSearch.** `QueryPreparation` is what `search_with_statistics` does before an executor runs:
terms are normalized and merged with their boosts added (`PreparedTerms`), a term's lists over its fields are scored
with the statistics of the whole collection and merged by document (`Entries`), phrases and filters become the accepted
documents, quantized scores are ranged, and block bounds are taken from the index or made anew (`UseTightBounds`).
`PreparedSearch` runs the exhaustive executor on the request and compares its answer with the query as it was written.
The formula `Contribution` is a constant.

**RankedRetrieval** is the promise: an answer is the `top_k` best of the accepted candidates, or an error, only when
the score of some candidate is not finite.

**ExhaustiveSearch, WandSearch, MaxScoreSearch** have one action per way an iteration of the loop can go. In WAND they
are a block skip, a scored pivot, an AND pivot that some term lacks, and a catch-up of lagging cursors; in MaxScore,
a rejection by block bounds and a scored candidate. Both have `useBlockMax` as a variable that does not change, so that
the two variants of an executor are one module, and the statistics the code reports (`evaluated`, `advanced`,
`skipped`). `overran` is a history variable of WAND: a skip went past the end of a block whose bound it used.

**PrunedSearch** is the dispatch: `strategy` picks the executor, of which there is an instance each with `useBlockMax`
substituted, and the properties of pruning are stated once for all four strategies.

**OutputTransaction** has one action per file-system call of staging, `commit_inner`, `rollback` and `Drop`, over `N`
outputs. `phase` and `at` are the program counter. `StagingFails`, `CommitFails` and the second disjuncts of the undo
actions are failing calls; `kind` tells an error from a panic. `Crash` kills the process anywhere, `Race` lets another
process put a directory or a link in a destination's place. A file is what it holds: nothing, a part of the new
content, the old or the new content.

**Commands, CommandOptions.** A command is a list of steps: compare paths, load, compute, replace or truncate and fill,
tell. The file system has regular files with hard links, symbolic links and directories; a path names a place directly
or through a directory that is a link. Any step may fail. `verdict` tells an error that left everything as it was from
one that left a part (`partial`), one whose rollback failed, and an error in printing after the outputs are in place
(`untold`). `CommandOptions` parses the options one by one and builds the request of the handler from them.

**BatchEvaluation.** The checks of a batch, the search of each topic, the second search that verifies it, the measures
against relevance judgments, the means, the validation of run and report before they are written; and the passes of the
benchmark. One of the executors may be faulty: only then does checking show.

**Analyzer, IndexBuilder, ForwardIndex.** Characters are model values with a class and a lowercase form of one or two
characters; that is all tokenization depends on. `AddDocument`, `RejectDuplicate` and `AddFails` are the three ways of
`add_document`; the failing one keeps what was indexed before the failing field, as the code does, and sets the
history variable `partial`. `Edit` then changes the stored parts (a checksum can be recomputed by whoever edits), and
`Load` accepts or refuses them by the checks of the code, in `Accepted`. A forward index is built, reordered by any
permutation, stored, edited, loaded and inverted, the last into the variables of `IndexBuilder`.

**Collection, ShardedIndex.** `Collection` is the search of one index; `ShardedIndex` deals documents round robin,
sums statistics, searches one shard per action and merges. The mapping `Whole` puts the documents back in global order.

**StoredFile, ShardedFiles.** A file is a sequence of cells: numbers, strings, coded postings, checksums. All versions of
an index, the container of shards and the forward index are written cell by cell, in place or to a temporary file,
`Interrupt` cuts them off anywhere, `Damage` edits a closed file, and `Load` reads them back by the reader of each
version. The container is read in two passes, between which `Overwrite` lets another save replace it.

**EliasFano, Interpolative, PostingBlock.** The encoders are operators, the decoder of a block is a state
machine that reads number by number, over bytes that an encoder wrote or that are foreign. The recursion of the
interpolative decoder is its explicit stack `segments`, so no module has a `RECURSIVE` operator.

**Bisection, Reordering.** Bisection with its ranges, passes and exchanges over the scratch table all ranges share;
the other three ways to an order or a map; and the two constructors of a map with their checks. The estimate
`bit_proxy` is a constant, given an integer table of logarithms.

**CiffIndex, CiffStream.** `from_native`, `validate` and `search`, and a file as a sequence of messages of protobuf
fields. The reader takes one message per action, with the limits counted down as it goes, and `Corrupt` may change,
drop or repeat any field before it does, `Rearrange` puts fields in another order and adds unknown ones.

**TextInput.** The line readers of collections (TSV, JSON lines, TREC), topics in two syntaxes and relevance
judgments. A file is a sequence of tokens with line ends; the reader takes one line per action and keeps the open
record, its parts and the counters of the limits, while `Write` and `Replace` let others change the file under the path.
What a text means (`Said`) and whether it is proper (`Acceptable`) are defined on the whole text, apart from the reader.

## 3. What the runs check

Every property has a mutant in `PROJECT.json`: a definition changed the way a plausible mistake would, under which TLC
finds the property violated.

| run | states | what it shows |
|---|---|---|
| `exhaustive` | 86,640 | the heap is the best of what was scored so far after every candidate; refinement of `RankedRetrieval`, errors included; the answer is that of the query as written (`AnswersAsWritten`); bounds stored for default BM25 are only used where they bound the scores (`BoundsBelong`) |
| `pruned` | 138,878 | a document passed over unscored is strictly below every retained one (`PrunedCannotWin`: this is the argument of `docs/architecture.md`, checked with ties); nothing is scored twice and every posting read is accounted for; each iteration reads a posting, so the loops end; refinement of `RankedRetrieval` by all four strategies |
| `commit` | 715,412 | no partial destination; restored on failure; complete on success; old content never lost; nothing littered; backups first; a failure is always followed through. Of commands: no spelling of a path lets an output be an input (`InputsSurvive`), all outputs change or none (`AllOrNothing`), an accepted option counts (`NoOptionIgnored`), a report is true (`ReportIsTrue`) |
| `index` | 1,040,118 | the builder's index is exact and reads back; whatever loads is exact; queries find matching block bounds; an inversion is faithful in any order |
| `sharded` | 234,745 | sharded search implements the search of one index; the shards' own `top_k` suffice; a built container is loadable; a file that was cut off, edited or overwritten is refused or whole (`WholeOrRefused`) |
| `codecs` | 1,185,249 | round trip; only valid lists are decoded; the two document codecs are canonical |
| `reorder` | 496,289 | the shared degree table is exact; each exchange lowers the estimate; maps are inverse permutations and mapping files are accepted exactly when they renumber |
| `ciff` | 1,018,782 | written reads back under the same limits, rearranged too; no dangling posting after any edit; an export answers as the collection; texts are accepted exactly if proper and mean what they say (`ParsedAsWritten`); an accepted collection is one content the file had (`OneSnapshot`) |

Four more runs have a counterexample; they are findings:

* `block_max_wand`. `block_skip` adds up the bounds of the blocks the cursors stand in and skips to the end of the first
  of these blocks, but always past the pivot document (`search.rs:521`). A cursor that lags behind may stand in a block
  that ends before the pivot. Its bound says nothing about the pivot document then, and when the next block of that list
  has a higher impact the best document is passed over. `search.rs:76-77` says that nothing that could enter the
  top-k is skipped. In `pruned`, `PrunedCannotWin` and the refinement except the searches in which this happened.
* `maxscore_rounding`. `search_max_score` sums bounds in ascending order with one outward rounding after each addition,
  scores are summed in ordinal order. With one large impact and several small ones a bound falls below the score it
  bounds, and the best document is dropped, which `docs/architecture.md:178-180` excludes. The run uses six significant
  bits, where nine small terms are enough to tell the sums apart.
* `commit_race`. The comment at `atomic.rs:164` promises that a destination changed concurrently to a link is never
  replaced. The last check is made before the backup; the rename that installs checks nothing.
* `index_dotted_capital`. Lowercasing U+0130 yields a letter and a combining mark. The term is indexed and saved, and
  the reader refuses the file, because the term does not analyze to itself (`index.rs:323`).

### Bounds, and why they are enough

* Executors: three terms, five documents, blocks of two postings. Overtaking cursors need two terms and a pivot between
  them; a block skip that must stop before a cursor left out needs a third, and lists of more than one block need three
  postings. One list ranges over everything, the others over a selection, one of these with a peak in its second
  block, with impacts of which one outweighs the sum of the others and one does not. `top_k` of 1 and 2 gives a full
  heap with and without a tie. The filter rejects none or some. `exhaustive` has all lists over two terms and three
  documents, negative impacts (DPH) among them, since nothing there depends on a third.
* Queries: three documents with two fields, whole or as a shard of five; terms that repeat, that differ in case only,
  that no document holds, over one field or all; phrases within and across a separator. Each model with each strategy
  that loads block bounds.
* Arithmetic: `Unit = 16` leaves room for the outward roundings of all additions below one impact, as in `f64`, where
  that holds for impacts of comparable size. It is the assumption that `maxscore_rounding` drops.
* Transaction: three outputs, so that one is before, one at and one after the failing call; any number of failures; one
  change by another process per behaviour. The safety properties are also proved for every `N`.
* Commands: every command with every choice of its optional paths, at most one path that is odd (an alias, another's
  place, no parent) and at most one odd entry in one of the two places it concerns (a directory, nothing, a hard or a
  symbolic link to another role's file): two names for one file take one odd path, or one odd entry. No other process.
  Command lines of up to four options (`MaxOptions`), each with two or three values, one of which may not parse.
* Batches: two topics, three documents, one faulty executor of six, wrong on one topic in one of six ways; quotients are
  in units of 1/2520, exact for ranks up to ten.
* Index: two of five documents, with a repeated token, an empty field, a duplicate identifier and a field longer than
  `MaxTokens` (for `u32::MAX`); three edits, since hiding an extra posting behind a missing one takes two. Forward
  indexes: all sequences of up to two such documents and two edits.
* Sharded: four documents of at most three tokens (`MaxLength`) over one to three shards: empty shards, uneven rounds, ties
  within and across shards. The identifiers are symmetric: they are only compared for equality.
* Stored files: five collections of up to three documents, among them none, an empty one, an empty field and two of the
  same shape; `MaxDamages` edits; limits that the larger collections exceed.
* Codecs: numbers of five bits in bytes of two give the overflowing last group that `u32` has in its fifth byte; lists
  of up to five documents, dense, sparse and at the end of the range; foreign blocks of up to twelve bits of documents
  or six bytes, all of them.
* Reordering: all collections of four documents over three terms and of five over two (halves of unequal size); up to
  three lines of a mapping file with the marker of an empty slot, `u32::MAX`, among the numbers; draws of four bits.
* CIFF: two documents, two fields, two terms, an `i32::MAX` of 3 so that joined frequencies overflow; one edit of a file
  of each kind. `Limits` are exactly met by one file and exceeded by others.
* Texts: six to nine files per format, at and past each limit, with lines and records out of order, doubled, cut off or
  mixed; two inodes take turns under the path, so that replaced and replaced back both occur; `MaxWrites` writes or
  replacements and `MaxClock` ticks of the clock that modification times are taken from.

Deadlock is not checked: each of these specifications describes one call, or a bounded sequence of calls, and stops when
the last one has returned.

### Fairness

Only `OutputTransaction` has a liveness property and a fairness condition, `WF_vars(Run)` (in `CommandLineSpec` too): while the process has not
returned or been killed some step of it is taken. The code is one thread that waits for no other, and every call
returns or fails. `Crash` and `Race` are not in `Run`. That loops of the executors end is not left to fairness: it is the
action property `EveryTurnAdvances` of `pruned`, together with lists being finite.

## 4. What is proved

TLAPS checks these for every value of the constants.

**SetProofs** has what several proofs share. Heaps: `Worse` is a strict total order on entries of distinct documents
(`WorseIsTransitive`, `WorseIsTotal`), and `ConsiderKeepsBest`: the best of a set and one more entry are the best of the
old best and that entry. Three more are for sharding: entries renamed so that their order stays keep their best
(`BestOfRenamed`), a `top_k` cut to the number of entries changes nothing (`BestUnderLimit`), and the best of a union are
among the best of its parts (`BestOfKept`). Division: `Division`, `DivisionIsUnique`. Sums over finite sets take their
summands in any order (`SumTakesAny`), add up (`SumOfSums`, `SumOfPart`, `SumOfMultiples`), also by parts (`SumByParts`),
and grow with them (`SumOfLess`). `UpTo(u, k)` is the sum of the first `k`; where one list of values is ahead of another
in every such sum, it stays ahead when both are weighted by the same decreasing weights (`WeightedSums`), and the first
of a sorted list are ahead of any selection (`FirstAreBest`). Powers of two: `DoublesForever`, `DoublesGrow`. Sorting: in a strict total order the elements
of a finite set take the places from 0 (`PlaceTaken`), so a list by place is sorted and has each once (`RankedIsSorted`).
None of it is by induction: a least counterexample among the subsets of a finite set is contradicted (`NoLeast`).

**ExhaustiveSearchProofs**, from `DocsAssumption` (the documents are a finite set of numbers) and `QueriesAssumption`
(requests are well formed and their scores are integers); nothing is assumed of `Plus`, rounding or `Finite`:

* `TypeCorrect`, `HeapCorrect`: the heap is exactly the best `top_k` of the accepted documents scored. The invariant is
  `Inv`: only candidates are pending, the heap is the best of what was accepted so far, every accepted candidate so far
  had a finite score, and an answer waits for the last candidate. The step rests on `ConsiderKeepsBest`.
* `Refinement`: `Spec => Abstract!Spec`. Iterations stutter, the return is `Return`, the error is `Reject`.

Of a whole search (`PreparedSearch`), from `VocabularyAssumption` (fields are finitely many numbers, boosts have a largest,
a quantizer has a range) and `SearchesAssumption` (documents are sequences of words in some of the fields, terms and
phrases name fields that exist, and a document that holds a word has an integer score for it):

* `BoundsAreOwn` (`BoundsBelong`), for any model, boost, statistics and rounding: `BoundsOfList` finds a document's block
  among the bounds of a list of scores, and `StoredIsMerged` that the stored scores are the ranked ones where they are used.
* `AnswersTheQuery` (`AnswersAsWritten`) and `SearchesRank` (`TypeOK`, `HeapIsBestSoFar`, `ImplementsRetrieval`), where
  `Plus` adds integers (`ExactSums`). This is a hypothesis of the two theorems: in f64 the order in which repeated terms and
  fields are added may change the last digit, and the code promises no more. `PreparedInv` adds to `Inv` that the request
  is that of the search. `AcceptedAreNamed`: the documents scored are those the query names, for either operator, with
  the scorers that were dropped (`NamedAreSelected`) and phrases read as positions (`PhraseIsRead`).
  `ExplainedIsWritten`: terms are sorted by their keys without losing one (`KeysAreSorted`), each term of the query is one
  of them (`TermsBecome`), and by `SumByParts` the boosts merged score what the terms score apart. `ScoreIsExplained`: what
  the executor adds up leaves out only zeros.

**PrunedSearchProofs**, from the assumptions above, `SizesAssumption` (blocks hold at least one posting),
`UpAssumption` (an outward rounding never rounds down), `SumAssumption` (a sum of bounds, rounded outward after each
addition, bounds the score of every document whose impacts its summands bound) and `FiniteAssumption`:

* `PruningIsSafe`: `PrunedCannotWin`, for all four strategies and any number of terms, documents and postings per block.
* `Refinement`: each strategy implements `RankedRetrieval`, but for searches that overran a block.
* `OthersAreExact`: only block-max WAND can overrun one, so WAND, MaxScore and BlockMax MaxScore return the exact `top_k`.
* `CountsAreTrue` (`WorkIsAccounted`) and `EveryTurnReads` (`EveryTurnAdvances`): the counters are exact, and no iteration
  of any strategy leaves all cursors where they were, so no search has more iterations than its lists have postings.

`SumAssumption` is where the proofs end and floating point begins: it is true of quantized scores, which are integers,
and of sums of a few terms of comparable size, and run `maxscore_rounding` shows that it is false of some others.
`PrunedCannotWin` is not inductive, since what a step may pass over depends on where all the cursors stand. The invariant
is `Inv(low)`: there is one document `low`, the frontier, such that every cursor stands at the first posting of its list
at or after it (`Frontier`), only candidates before it were scored, the heap is the best of those accepted, and every
accepted candidate before it that was not scored is strictly below the heap (`Hopeless`). Every iteration, of either
executor, is one of three steps: it passes over some documents (`Passes`), passes over some and scores the next
(`Scores`), or finds that nothing that is left can enter (`Ends`). `PassesInv`, `ScoresInv` and `EndsInv` show that these
keep the invariant; the lemmas `Wand...` and `MaxScore...` show of each action which of them it is. For the counters,
`Accounted` adds `WorkIsAccounted` and the types of what it leaves open. The frontier moves past the pivot, the lagging
cursor or the candidate (`WandReads`, `MaxScoreReads`), so in some list fewer postings are skipped than passed and in no
list more (`ReadsCount`); `SumOfLess` adds that up over the lists.

**CommandLineProofs**. Of the transaction, from `OutputsAssumption` (`N` positive) and `RaceAssumption`:

* `TypeCorrect`, `OldSurvives`, `FailureRestores`, `SuccessIsComplete`, `BackupsComeFirst`, `NothingIsLeft`.
* None of these is inductive alone. That the old content survives the rename of `install` depends on the backup being
  there, that on the loop over all outputs having ended, and that a rollback restores on which outputs it has done
  already. `IInv` says this in parts: `ControlInv` (what `phase` implies for the flags), `StageInv` (how far staging
  is), `BackupInv` (a backup holds the old content, and exists for all outputs once installing begins), `InstallInv`
  (which outputs are installed), `TargetInv` (what the destinations hold), `UndoInv` (how far a rollback is) and
  `OldKept`. `NextIInv` has one step per action.

* `NothingIsLeft` (`NoLitter`) needs `TidyInv` in addition: as long as no removal has failed, a temporary file or backup
  is only there for an output that the pass under way has yet to come to.

Of the commands, with no assumption: `InputsAreSafe` (`InputsSurvive`) and `NothingOrAll` (`AllOrNothing`), from
`AnyCommandInit`, which has any file system and any paths where a run has one odd entry; `InputsSurviveRuns` and
`AllOrNothingInRuns` say the same of the specification that is checked. Neither property says why an output that is
made is not an input: a command compared their paths some steps ago. `CommandInv` remembers it. What is left to do is
the end of the command's plan (`TodoInv`); until a step touches an output, files are as they were and every check made
still holds (`Untouched`, `Checked`); from then on the outputs are files and none is an input (`Made`). `PlanShape` says
what the plans have in common: compare, then read, then touch all outputs at once, then tell.

Of the options, with no assumption: `EveryOptionCounts` (`NoOptionIgnored`) for command lines of any length, and
`EveryOptionCountsInRuns`. A handler's request is a function of the options parsed (`OptionsInv`), and the lemmas
`...Differs` show, handler by handler, that two command lines that differ in one accepted option make two requests.

Of batches and the benchmark, from `RanksAssumption` (weights decrease from rank to rank, and the number 1 can be divided
by each rank) and `CasesAssumption` (finitely many documents, integer relevance, a weight for each rank up to `top_k`,
every executor fails or answers with documents): `ReportsAreTrue` (`ReportIsTrue`) and `ReportsAreTrueInRuns`.

* The invariant is `BatchInv`: the topics reported are the first of the batch, each with the answer of the executor chosen,
  and with that of the other one where they were compared (`Reporting`); the passes made by the benchmark agree with
  the exhaustive one (`Comparing`). `FoundGrows` is the loop of `metrics_for`: what it has counted after `r` hits is what
  the definitions say of the first `r` (`RankCounts`, `RankMeasures`).
* That no measure exceeds 1 needs that sorting by relevance gives the best ranking there is (`IdealIsBest`). Of any
  ranking, the first `k` documents have at most the worth of the first `k` of the sorted one (`FirstAreBest`); summed with
  decreasing weights that carries over to the whole (`WeightedSums`).
* A mean lies between two of its values (`MeanIsBetween`), by induction over prefixes of the list.
* Numbers are exact where the code has `f64`, and relevance is not bounded by 31 as `parse_qrels` bounds it.

**NumberingProofs**, of what numbers documents anew, by shards or in one order. Of a sharded index, from `ShardAssumption`,
`DocumentsAssumption` (documents have finitely many terms, frequencies and lengths are natural numbers, no length above
`MaxLength`), `RequestsAssumption` (`top_k` is at least one) and `ScoresAssumption` (a score is an integer, whatever the
statistics):

* `TypeCorrect`, `Loads` (`BuiltIsLoadable`), `NothingBetterIsDropped` (`CandidatesSuffice`), and `Refinement`:
  `Spec => ImplementsCollection`, for any number of documents and shards and any scoring formula.
* The invariant is `Inv == BuildInv /\ SearchInv`. `BuildInv` says that shard `s` of `n` holds the documents `s`, `s + n`,
  `s + 2n`, ... of those dealt so far (`Dealt`), which makes dealing a bijection between global numbers and pairs of shard
  and local number: the next document goes where `Whole` ends (`AddDeals`). It also says that identifiers are those of
  the documents and that the statistics of the shards add up; sums are over finite sets, and `SumTakesAny` takes their
  elements in any order. `SearchInv` says that the candidates of each shard searched are the best of its share.
  A shard's numbers ascend with the global ones, so `BestOfRenamed` carries them over, and `BestOfKept` merges them.

Of reordering, from `WidthsAssumption` (document numbers are below `MaxId`, which is below the number of draws; there
are finitely many terms), `InputsAssumption` (the collection fits, features are integers, a line of a mapping file is two
numbers or malformed) and `ProxyAssumption` (the estimate is an integer: exact where the code has `f64`):

* `DegreesAreExact` (`DegreesExact`), `MapsAreExact` (`MapIsExact`), `ExchangesLower` (`ExchangesPay`), for any collection,
  depth, number of passes and estimate, and for any mapping file.
* The invariant is `IInv`. `BisectionInv` says that the order has each document once (`Arranges`), that ranges lie within
  it, and `DegreesExact`; sorting a half (`PartsRearranged`) or exchanging two documents (`Exchanged`) keeps the first, and
  `ExchangeMoves` says how degrees follow. Clearing only what was touched is enough because a degree above zero is a
  touched one. `MethodInv` says of a mapping file that the slots are what the lines read so far say (`SlotsHold`), a line
  that states `u32::MAX` leaving its slot empty.
* A file that renumbers is never refused, and one that does not never accepted: between sets of one size, once each and
  each once are the same (`OnceIsEach`), for lines, for documents and for numbers. `RemaindersAreEven` counts the draws.
* `ExchangesLower` compares two sums over all terms by `TermPays`: a term of one of the two documents alone costs its gain
  less, any other as much.

**IndexProofs**, from `CharactersAssumption`, `DocumentsAssumption` (a document has finitely many fields, a field is a
sequence of characters), `EditsAssumption`, `SourcesAssumption` and `KeysAssumption` (the keys of all documents have one
strict total order):

* `BuiltIsExact` (`BuilderIsExact`), `AcceptedPartsAreExact` (`LoadedIsExact`), `BoundsAreFound` (`QueriesFindBounds`), for
  any documents and any number of edits of any kind.
* `SavedPartsLoad` (`SavedLoadsBack`) and `InversionsAreFaithful` (`InversionIsFaithful`), where analyzing a token again
  does not change it (`AllNormalized`). This is a hypothesis of the two theorems and not an assumption, because it is
  false of U+0130; run `index_dotted_capital` shows what happens then.
* `IndexInv` says while building, and unless an addition has failed, that a list has the documents that hold its key,
  ascending, with their positions (`PostingsAre`, by `Lists`), that lengths and identifiers are the documents' own, and
  that a field's total is the number of its tokens (`TotalsAre`); of loaded parts, that they passed `Accepted`.
* `BuiltIsExact` adds one document at a time. `AcceptedPartsAreExact` is the argument of the reader: each of its checks is
  local, yet together they are exact. The postings found in the documents are among all the tokens written there; there
  are as many as the documents' lengths sum up to, and disjoint sets of positions add up, so none is left out
  (`AcceptedIsExact`). The converse is `ExactIsAccepted`.
* `ForwardInv` adds of a forward index that what is ready is valid, and that without an edit it has its source's
  documents, in some order. Inverting it puts every key's list in place at once: a list has the documents of its term.

**CodecProofs**, of stored postings, from the assumptions of `EliasFano` and `PostingBlock` (a byte has bits, a number has
groups, the numbers of a list that is encoded and the last value of a block are u32, the rest of a block of the two later
formats is a size and bits, and `MAX_BITS_PER_VALUE` bits hold any u32):

* `DecodersTrustNothing` (`DecodedIsValid`), for numbers of any width and any bytes.
* `NumbersInv` says that numbers are read one after another, `DocsInv` how many IDs and postings there are at each stage.
  Elias-Fano checks each ID against the one before. Interpolative checks none: that IDs found by median ascend rests on
  `Tiled`: the ranges left to decode are disjoint and in order, hold the indices that have no ID yet, and lie between
  indices that have one. A median splits the first range in two (`SplitRanges`), and its ID is between those at the ends of
  the range (`MedianBetween`), since an offset is below the range of values it is read for (`OffsetInRange`): of a short
  codeword by the cutoff, of a long one because it has one bit more (`PowersDouble`).
* `EncodedReadsBack` (`RoundTrip`), for numbers of any width, any lists that encode and each of the three codecs: what was
  encoded is never refused, and what is accepted is what was encoded.
* `TripInv` ties the cursors to the encoder. The block is the encoder's (`FromSource`). All that is decoded so far is a
  prefix of the list, and the byte cursor is where the next number starts (`NumbersReadBack`, by `Offset`). IDs found so far
  are the list's, and the bit cursor is behind the set bit of the last one (`EliasAt`), or the codes of the ranges left
  follow each other up to the end (`Follow`) (`DocsReadBack`). So no check of a decoder can fail (`NothingFails`).
* A number's groups weigh it (`Digits`); the low bits of an ID add up to its remainder and its high bits to its quotient
  (`EliasReads`), and the set bits of the bitmap ascend, so that the next one is found (`HighsGrow`). A truncated codeword
  reads back in either length (`RankReadsBack`): short ones are below the cutoff and long ones are not. The code of a range
  is that of its median and those of its two halves (`SegmentIs`), and fits in the bits the reader allows.
* `AcceptedBlocksAreCanonical` (`Canonical`), for numbers of any width and whatever bits a block of the two later formats
  has (`DocBlocks`): the encoder writes the same bits for the IDs that are accepted.
* `CanonInv` says what the reader has made sure of so far. In Elias-Fano (`BitsAreRead`), each low bit that was read is that
  of its ID (`BitsMakeNumber`), and of the bitmap up to the cursor the set bits are those of the IDs found; at the end no
  bit is set behind the last ID, and the padding of both sections is zero (`EliasOpens`), so every bit is the encoder's.
  In Interpolative the rest of the block is unknown, so the invariant speaks of what may come (`IdsSoFar`): whatever list
  completes the IDs, if the codes of the ranges left follow from the cursor, then all its codes follow from the start of the
  block. A codeword that is read is the only one of its offset (`RankIsWritten`): a short one is below the cutoff, the
  prefix of a long one is not. When no range is left, the cursor is at the end, and the code of the whole list is what the
  block has.

**CiffProofs**, from `CiffAssumption` (finitely many fields and terms, terms are positive numbers) and `FilesAssumption`
(documents have identifiers and frequencies, a file of another program is a sequence of sequences of fields, and the limit
on postings is a number):

* `EveryPostingHasItsRecord` (`NoDanglingPosting`): both ways to an index, export and load, end with `validate`
  (`Validated`), which finds a record for each posting and no two records of one document. No assumption is used.
* `WrittenIsReadBack` (`WrittenReadsBack`), for any documents, any files, any limits and any number of changes, where
  averages are natural numbers (`AverageIsNatural`; they are written as the 64 bits of an `f64`).
* `WrittenInv` says what a file means, not what it looks like: `FileSays` holds of a header, then messages that tell the
  lists of the index in some order `p`, then its records in some order `q`. A message tells its values (`Tells`) however its
  fields are ordered and whatever unknown ones are among them. `WrittenSays` shows it of what `Messages` writes, fields left
  out for their defaults included, and `RearrangeSays` of every rearrangement. What was read so far follows `p` and `q`
  (`Follows`), so the next message reads as the next list or record (`NextListReads`, `NextRecordReads`), passes its local
  checks, and leaves enough of the limit on postings (`PostingsFit`); at the end, sorting restores the index (`WholeReads`).
* The differences of a list add up to its documents (`GapsAddUp`), which their order keeps positive. Sorting by different
  keys undoes any order (`SortingRestores`), and the export is in order (`FlattenedIs`); so is all that loads.
* `ExportAnswersAsCollection` (`AnswersAsCollection`), from `RequestsAssumption` too (queries have terms and an operator; the
  code refuses a query without a term). Scores are integers (`ScoresAreIntegers`), where the code adds `f64`: what rounding
  does to the order of additions is outside it.
* `OriginInv` carries one statement, `IsFlat`, from the export to the search: each term has one list, which tallies the
  documents that hold it, each document one record with its length, and the header counts documents and tokens. The export
  is flat (`FlattenedIsFlat`), a file and what loads from it are by `WrittenInv`, and an edit that changes the meaning ends
  the claim. In a flat index a list adds to its documents what the joined collection finds them worth (`GainsAre`), so the
  accumulators hold the totals over the terms that are done (`Scored`, `TermAdds`). In the end these are what `Collection`
  says of the joined documents (`ResultsAre`, `RankedAre`).

**Only model-checked**: liveness (`FailureSettles`), which is out of the provers' reach; stored files
(`WholeOrRefused`); text readers (`ParsedAsWritten`, `OneSnapshot`).

## 5. What is not modelled

* Scoring formulas, explanations and the values of statistics sums: arithmetic on one document, no state. `Contribution`
  is a constant; metrics are modelled, with ranks discounted by a constant table.
* The durability of a rename before its directory is synced: a kill is modelled, a loss of power between rename
  and `sync_parent_directories` is not. Two transactions on the same outputs at once: the code takes no lock and
  no doc promises anything; a model would only show that it is so.
* Non-finite sums in WAND, MaxScore and CIFF: the OR executors do not look for them, the exhaustive one does. `Finite`
  is always true in their runs. The order in which WAND adds its bounds: the code re-sorts cursors by document, the model
  adds them in MaxScore's order on exact arithmetic, where the order makes no difference.
* What is within a cell of a file or a token of a text: bytes of numbers and varints, UTF-8, JSON escapes and nesting,
  entities, case of tags, carriage returns. Limits on bytes, counts and work of reordering and of CIFF (`MAX_*`) other
  than those that are constants of the modules.
* The synthetic collection of the benchmark, times, and the text of reports, runs, explanations and what commands print;
  size statistics (`statistics` of codecs and indexes).
* Overlong encodings of a number are accepted by the variable-byte codec. No doc says otherwise, so `Canonical` leaves that
  codec out.
* Native search without a field scores each field by itself, CIFF scores their union: `AnswersAsCollection` compares
  with documents whose fields are joined, and not with the native answer.

Met while modelling, and no contradiction of a statement that is checked here:

* Files written in place. `InvertedIndex::save_with_codec` (`persistence.rs:112`) and `ShardedIndex::save`
  (`shard.rs:344`), which the commands `index` and `shard-index` call, truncate an existing file before they write it:
  a crash or a full disk leaves neither content. `WholeOrRefused` shows that what is left is never taken for an index;
  `AllOrNothing` excepts these commands (`partial`). `docs/architecture.md:428` says of single-file saves that they are
  staged before an existing destination is replaced, as `ForwardIndex::save` does.
* A container that is overwritten between the two passes of its load (`shard.rs:424-512`) can yield shards of two saves,
  each of them whole, when their counts agree. `WholeOrRefused` says no more than that.
* Topics and judgments are read without the check for a change that collections have; a write of the same length
  within one tick of the file system's clock leaves no trace for it either. `OneSnapshot` excepts both.
* `inspect` opens the path a second time for the format version (`cli.rs:1279`).
* An error in printing is returned as an error after the outputs are in place (`untold`).

## 6. What is left

Models: the limits of reordering, and a second writer beside `OutputTransaction`, should the code come to take a lock.
