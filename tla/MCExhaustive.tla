---------------------------- MODULE MCExhaustive ----------------------------
(***************************************************************************)
(* Every request over two terms, three documents and two impacts: all      *)
(* posting lists, both operators, top_k of 1 and 2, all filter outcomes.   *)
(* One impact is negative, as with DPH; the largest sum is not finite, so  *)
(* both endings occur.                                                     *)
(*                                                                         *)
(* And searches of three documents with two fields, whole or as a shard,   *)
(* with repeated, capitalized and missing words, over one field or all.    *)
(***************************************************************************)
EXTENDS PreparedSearch

\* Exact arithmetic of quantized BM25.  A score is a multiple of Unit, and the next
\* representable score is one above: the outward roundings of a whole bound, two per
\* term, add up to less than a Unit, as they do to less than one impact in f64.
Unit == 16

ExactPlus(x, y) == x + y
ExactUp(x) == x + 1

\* Non-empty posting lists over the documents D with impacts in S: scorers
\* without postings never reach an executor.
PostingLists(D, S) == UNION {[L -> S] : L \in SUBSET D \ {{}}}

Request(postings, operator, top_k, accepts) ==
  [postings |-> postings, operator |-> operator, top_k |-> top_k, accepts |-> accepts]

MCDocs == 0 .. 2

MCFinite(score) == score < 12 * Unit

MCQuerySet ==
  {Request(<<a, b>>, operator, k, accepts) :
     a, b \in PostingLists(MCDocs, {-Unit, 6 * Unit}),
     operator \in Operators, k \in 1 .. 2, accepts \in SUBSET MCDocs}

-----------------------------------------------------------------------------
\* Words are 1, 2 and 3; 11 is the word 1 capitalized, 0 a separator.
Title == 1
Body == 2
MCFields == {Title, Body}

MCAnalyzed(text) ==
  LET words == SelectSeq(text, LAMBDA c : c /= 0)
  IN  [i \in DOMAIN words |-> words[i] % 10]

MCDefault == [scoring |-> "Bm25", params |-> 1]
Models == {MCDefault, [scoring |-> "Bm25", params |-> 2],
           [scoring |-> "QuantizedBm25", params |-> 1], [scoring |-> "Qld", params |-> 1]}

\* Rare words and short fields score higher, other parameters differ by document, and
\* with Qld a score may be negative.
MCContribution(model, statistics, frequency, length) ==
  IF model.scoring = "Qld" THEN Unit * (frequency - length)
  ELSE Unit * (IF model.params = 1 THEN frequency * (statistics.count + 1 - statistics.frequency)
                                   ELSE 2 * length + frequency)

MCQuantizer == [range |-> 64, maxImpact |-> 8 * Unit]

Doc(title, body) == (Title :> title) @@ (Body :> body)
MCCollections == {
  <<Doc(<<1>>, <<1, 2>>), Doc(<<2, 11>>, <<2, 0, 1, 2>>), Body :> <<1, 1, 2>>>>,
  <<Doc(<<1, 2>>, <<>>), Doc(<<1>>, <<3, 2>>), Doc(<<3>>, <<1, 2, 1>>)>>}
Others == <<Doc(<<1>>, <<1>>), Doc(<<1>>, <<>>)>>

Term(text, field, boost) == [text |-> text, field |-> field, boost |-> boost]
MCTermLists == {
  TermsOfText(<<1, 0, 2>>, NoField), TermsOfText(<<11, 1>>, Body),
  <<Term(<<1>>, NoField, 1)>>, <<Term(<<2>>, Title, 1)>>, <<Term(<<3>>, NoField, 3)>>,
  <<Term(<<1>>, NoField, 1), Term(<<2>>, Body, 2), Term(<<11>>, NoField, 1)>>,
  <<Term(<<3>>, Body, 1), Term(<<1>>, Body, 1)>>, <<Term(<<1, 2>>, NoField, 1)>>}
MCPhraseLists == {
  <<>>, <<[text |-> <<1, 2>>, field |-> NoField]>>, <<[text |-> <<2, 11, 2>>, field |-> Body]>>,
  <<[text |-> <<1, 1>>, field |-> NoField]>>}
MCFilterLists == {<<>>, <<[field |-> Title, value |-> <<1>>]>>}

Search(documents, whole, terms, operator, phrases, filters, k, pruning, model) ==
  [documents |-> documents, terms |-> terms, operator |-> operator,
   whole |-> IF whole THEN <<>> ELSE documents \o Others,
   phrases |-> phrases, filters |-> filters,
   options |-> [top_k |-> k, pruning |-> pruning, model |-> model, explain |-> FALSE]]

\* Filters under default scoring, the other models without filters, and the strategies
\* that load block bounds.
MCSearches ==
  {Search(documents, whole, terms, operator, phrases, filters, k, "Exhaustive", MCDefault) :
     documents \in MCCollections, whole \in BOOLEAN, terms \in MCTermLists, operator \in Operators,
     phrases \in MCPhraseLists, filters \in MCFilterLists, k \in 1 .. 2}
  \union
  {Search(documents, whole, terms, operator, <<>>, <<>>, k, "Exhaustive", model) :
     documents \in MCCollections, whole \in BOOLEAN, terms \in MCTermLists, operator \in Operators,
     k \in 1 .. 2, model \in Models}
  \union
  {Search(documents, whole, terms, operator, <<>>, <<>>, 1, pruning, model) :
     documents \in MCCollections, whole \in BOOLEAN, terms \in MCTermLists, operator \in Operators,
     pruning \in {"BlockMaxWand", "BlockMaxMaxScore"}, model \in Models}
=============================================================================
