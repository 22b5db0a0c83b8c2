---------------------------- MODULE CommandOptions ----------------------------
(***************************************************************************)
(* cli.rs: the options of each command, parsed one after the other, and    *)
(* the request a handler makes of them.  The paths are those of Commands;  *)
(* the ranges of numbers are checked by the executors (Retrieval's         *)
(* IsQuery).  A value is one of two that parse, or one that does not.      *)
(***************************************************************************)
EXTENDS Naturals, Sequences

CONSTANT MaxOptions  \* options on a command line (a bound)

VARIABLES
  handler,  \* the command
  index,    \* parse's place on the command line, counted in options
  parsed,   \* ParsedOptions: the values of each option, in order; a flag's is ""
  request   \* what the handler makes of them, when it has

optionVars == <<handler, index, parsed, request>>

Refused == [refused |-> TRUE]
Unread == [unread |-> TRUE]

Scorers == {"bm25", "qbm25", "dph", "pl2", "qld"}
Strategies == {"wand", "block-max-wand", "maxscore", "block-max-maxscore", "full"}
Numeric == {"1", "2", "4", "8"}

\* Values a user may give.
Values(option) ==
  CASE option \in {"ascii", "explain", "verify", "random", "bp"} -> {""}
    [] option = "operator" -> {"and", "or"}
    [] option = "scorer" -> {"bm25", "qbm25", "pl2", "qld", "tfidf"}
    [] option = "strategy" -> {"wand", "full", "fast"}
    [] option = "format" -> {"tsv", "trec", "jsonl", "csv"}
    [] option = "codec" -> {"varbyte", "elias-fano", "interpolative", "pfor"}
    [] option = "filter" -> {"n=v", "n"}
    [] option = "quant-bits" -> {"4", "8"}
    [] option \in {"seed", "depth", "id", "limit", "document", "shards"} -> {"1", "2", "x"}
    [] option \in {"top-k", "pl2-c", "qld-mu", "quant-max", "k1", "b", "iterations", "offset",
                   "documents", "queries"} -> {"1", "2"}
    [] OTHER -> {"one", "two"}

\* The options each handler knows, besides paths and the query.
Ranked == {"field", "operator", "top-k", "strategy", "scorer", "pl2-c", "qld-mu", "quant-bits",
           "quant-max", "k1", "b"}
Known == [
  search |-> Ranked \union {"explain", "phrase", "phrase-field", "filter"},
  batch |-> Ranked \union {"verify", "tag"},
  ciff_search |-> {"ascii", "operator", "top-k", "scorer", "k1", "b"},
  ciff_batch |-> {"ascii", "operator", "top-k", "scorer", "k1", "b", "tag"},
  index |-> {"ascii", "format", "codec"},
  shard_index |-> {"ascii", "format", "shards"},
  inspect |-> {"field", "term"},
  forward_inspect |-> {"document", "limit"},
  lexicon |-> {"id", "field", "term", "offset", "limit"},
  reorder |-> {"random", "bp", "seed", "by-feature", "from-mapping", "depth", "iterations"},
  benchmark |-> {"documents", "queries", "seed", "top-k", "shards", "scorer"}]

Has(p, option) == option \in DOMAIN p /\ p[option] /= <<>>
None(p, options) == \A o \in options : ~Has(p, o)
Value(p, option, default) == IF Has(p, option) THEN p[option][1] ELSE default

\* optional_one of each option: at most one value.
Single(p) == \A o \in DOMAIN p \ {"filter"} : Len(p[o]) <= 1

\* parse_optional: a number, or the default.
Numbers(p, options) == \A o \in options : Has(p, o) => Value(p, o, "") \in Numeric

-----------------------------------------------------------------------------
\* Mutant of NativeScoring: a parameter of another model is passed over.
NativeScoringLoose(p) ==
  LET model == Value(p, "scorer", "bm25")
      scoring == [model |-> model, bits |-> Value(p, "quant-bits", ""),
                  max |-> Value(p, "quant-max", ""),
                  c |-> IF model = "pl2" THEN Value(p, "pl2-c", "1") ELSE "",
                  mu |-> IF model = "qld" THEN Value(p, "qld-mu", "1000") ELSE ""]
  IN  IF model \in Scorers /\ Numbers(p, {"quant-bits"})
         /\ (model = "qbm25" <=> Has(p, "quant-bits") /\ Has(p, "quant-max"))
         /\ (model /= "qbm25" => None(p, {"quant-bits", "quant-max"}))
      THEN scoring ELSE Refused

\* parse_native_scoring: the model with its parameters, and none of another model.
NativeScoring(p) ==
  LET model == Value(p, "scorer", "bm25")
      quantized == model = "qbm25"
      parameters == {"pl2-c", "qld-mu", "quant-bits", "quant-max"}
      own == CASE quantized -> {"quant-bits", "quant-max"}
               [] model = "pl2" -> {"pl2-c"}
               [] model = "qld" -> {"qld-mu"}
               [] OTHER -> {}
  IN  IF /\ model \in Scorers
         /\ None(p, parameters \ own)
         /\ quantized => \A o \in own : Has(p, o)
         /\ Numbers(p, own)
      THEN [model |-> model, bits |-> Value(p, "quant-bits", ""),
            max |-> Value(p, "quant-max", ""), c |-> Value(p, "pl2-c", "1"),
            mu |-> Value(p, "qld-mu", "1000")]
      ELSE Refused

IsBm25(scoring) == scoring.model \in {"bm25", "qbm25"}

\* What search and batch share; `hits` is the default number of hits.
\* SearchOptions::validate lets the collection-frequency models run exhaustively only.
RankedRequest(p, hits) ==
  LET scoring == NativeScoring(p)
      strategy == Value(p, "strategy", IF IsBm25(scoring) THEN "wand" ELSE "full")
  IN  IF /\ Single(p)
         /\ Value(p, "operator", "or") \in {"and", "or"}
         /\ Numbers(p, {"top-k", "k1", "b"})
         /\ scoring /= Refused
         /\ IsBm25(scoring) \/ (None(p, {"k1", "b"}) /\ strategy = "full")
         /\ strategy \in Strategies
      THEN [field |-> Value(p, "field", ""), operator |-> Value(p, "operator", "or"),
            top_k |-> Value(p, "top-k", hits), strategy |-> strategy, scoring |-> scoring,
            k1 |-> Value(p, "k1", "1.2"), b |-> Value(p, "b", "0.75")]
      ELSE Refused

\* build_search_request; quantized scores cannot be explained.
SearchRequest(p) ==
  LET ranked == RankedRequest(p, "10")
      filters == IF Has(p, "filter") THEN p["filter"] ELSE <<>>
  IN  IF /\ ranked /= Refused
         /\ Has(p, "phrase-field") => Has(p, "phrase")
         /\ \A i \in DOMAIN filters : filters[i] /= "n"
         /\ Has(p, "explain") => ranked.scoring.model /= "qbm25"
      THEN [ranked |-> ranked, phrase |-> Value(p, "phrase", ""),
            within |-> Value(p, "phrase-field", ""), filters |-> filters,
            explain |-> Has(p, "explain")]
      ELSE Refused

\* command_batch_impl; evaluate_batch verifies BM25 only.
BatchRequest(p) ==
  LET ranked == RankedRequest(p, "1000")
  IN  IF ranked /= Refused /\ (Has(p, "verify") => IsBm25(ranked.scoring))
      THEN [ranked |-> ranked, verify |-> Has(p, "verify"), tag |-> Value(p, "tag", "indexsail")]
      ELSE Refused

\* command_ciff_search, command_ciff_batch.
CiffRequest(p, hits) ==
  IF /\ Single(p)
     /\ Value(p, "scorer", "bm25") = "bm25"
     /\ Value(p, "operator", "or") \in {"and", "or"}
     /\ Numbers(p, {"top-k", "k1", "b"})
  THEN [ascii |-> Has(p, "ascii"), operator |-> Value(p, "operator", "or"),
        top_k |-> Value(p, "top-k", hits), k1 |-> Value(p, "k1", "1.2"),
        b |-> Value(p, "b", "0.75"), tag |-> Value(p, "tag", "indexsail-ciff")]
  ELSE Refused

\* command_index, command_shard_index.
IndexRequest(p) ==
  IF /\ Single(p)
     /\ Value(p, "format", "tsv") \in {"tsv", "trec", "jsonl"}
     /\ Value(p, "codec", "varbyte") \in {"varbyte", "elias-fano", "interpolative"}
     /\ Numbers(p, {"shards"})
  THEN [ascii |-> Has(p, "ascii"), format |-> Value(p, "format", "tsv"),
        codec |-> Value(p, "codec", "varbyte"), shards |-> Value(p, "shards", "0")]
  ELSE Refused

\* command_inspect, command_shard_inspect: a field makes sense with a term only.
InspectRequest(p) ==
  IF Single(p) /\ (Has(p, "field") => Has(p, "term"))
  THEN [field |-> Value(p, "field", ""), term |-> Value(p, "term", "")]
  ELSE Refused

\* command_forward_inspect.
ForwardInspectRequest(p) ==
  IF /\ Single(p)
     /\ Has(p, "limit") => Has(p, "document")
     /\ Numbers(p, {"document", "limit"})
  THEN [document |-> Value(p, "document", ""), limit |-> Value(p, "limit", "20")]
  ELSE Refused

\* command_lexicon: by id, by field and term, or a page.
LexiconRequest(p) ==
  IF ~Single(p) THEN Refused
  ELSE IF Has(p, "id")
  THEN IF None(p, {"field", "term", "offset", "limit"}) /\ Numbers(p, {"id"})
       THEN [id |-> Value(p, "id", "")] ELSE Refused
  ELSE IF Has(p, "field") /\ Has(p, "term")
  THEN IF None(p, {"offset", "limit"})
       THEN [field |-> Value(p, "field", ""), term |-> Value(p, "term", "")] ELSE Refused
  ELSE IF None(p, {"field", "term"}) /\ Numbers(p, {"offset", "limit"})
  THEN [offset |-> Value(p, "offset", "0"), limit |-> Value(p, "limit", "20")]
  ELSE Refused

\* command_reorder: one method, with its parameters.
ReorderRequest(p) ==
  LET methods == {o \in {"random", "by-feature", "from-mapping", "bp"} : Has(p, o)}
  IN  IF /\ Single(p)
         /\ \E m \in methods : methods = {m}
         /\ Has(p, "seed") => Has(p, "random")
         /\ Has(p, "depth") \/ Has(p, "iterations") => Has(p, "bp")
         /\ Numbers(p, {"seed", "depth", "iterations"})
      THEN CASE Has(p, "random") -> [random |-> Value(p, "seed", "0")]
             [] Has(p, "by-feature") -> [feature |-> Value(p, "by-feature", "")]
             [] Has(p, "from-mapping") -> [mapping |-> Value(p, "from-mapping", "")]
             [] OTHER -> [depth |-> Value(p, "depth", ""), iterations |-> Value(p, "iterations", "")]
      ELSE Refused

\* command_benchmark.
BenchmarkRequest(p) ==
  IF /\ Single(p)
     /\ Value(p, "scorer", "bm25") = "bm25"
     /\ Numbers(p, {"documents", "queries", "seed", "top-k", "shards"})
  THEN [o \in {"documents", "queries", "seed", "top-k", "shards"} |-> Value(p, o, "default")]
  ELSE Refused

Request(h, p) ==
  CASE h = "search" -> SearchRequest(p)
    [] h = "batch" -> BatchRequest(p)
    [] h = "ciff_search" -> CiffRequest(p, "10")
    [] h = "ciff_batch" -> CiffRequest(p, "1000")
    [] h \in {"index", "shard_index"} -> IndexRequest(p)
    [] h = "inspect" -> InspectRequest(p)
    [] h = "forward_inspect" -> ForwardInspectRequest(p)
    [] h = "lexicon" -> LexiconRequest(p)
    [] h = "reorder" -> ReorderRequest(p)
    [] h = "benchmark" -> BenchmarkRequest(p)

-----------------------------------------------------------------------------
Flags == {"ascii", "explain", "verify", "random", "bp"}

OptionsInit ==
  /\ handler \in DOMAIN Known
  /\ index = 0
  /\ parsed = [o \in Known[handler] |-> <<>>]
  /\ request = Unread

\* ParsedOptions::parse: one more option; a flag given twice ends it.
ParseOption(option, value) ==
  /\ request = Unread
  /\ index < MaxOptions
  /\ index' = index + 1
  /\ IF option \in Flags /\ Has(parsed, option)
     THEN request' = Refused /\ UNCHANGED parsed
     ELSE parsed' = [parsed EXCEPT ![option] = Append(@, value)] /\ UNCHANGED request
  /\ UNCHANGED handler

\* The handler reads the options.
Read ==
  /\ request = Unread
  /\ request' = Request(handler, parsed)
  /\ UNCHANGED <<handler, index, parsed>>

OptionsNext ==
  \/ \E option \in DOMAIN parsed : \E value \in Values(option) : ParseOption(option, value)
  \/ Read

-----------------------------------------------------------------------------
\* An option that is accepted counts: with any other value of it, or without it if it is a
\* flag, the handler would do something else or refuse.  An option that does not apply, or
\* is given twice, is refused and never passed over, whatever it is combined with.
NoOptionIgnored ==
  request \notin {Unread, Refused} =>
    \A o \in DOMAIN parsed : Has(parsed, o) =>
      \A i \in DOMAIN parsed[o] :
        IF o \in Flags
        THEN Request(handler, [parsed EXCEPT ![o] = <<>>]) /= request
        ELSE \A v \in Values(o) \ {parsed[o][i]} :
               Request(handler, [parsed EXCEPT ![o][i] = v]) /= request
=============================================================================
