------------------------------ MODULE Analyzer ------------------------------
(***************************************************************************)
(* Analyzer::analyze of analysis.rs, used for documents, for query terms   *)
(* and again by every reader of a stored index.  A text is a sequence of   *)
(* characters, of which only two things are known: whether a character is  *)
(* part of a token, and what its lowercase form is, one character or more. *)
(***************************************************************************)
EXTENDS Naturals, SequencesExt

CONSTANTS
  Characters,
  Alphanumeric,  \* accepted in a token
  Lowercase      \* char::to_lowercase of an accepted character, a sequence

ASSUME CharactersAssumption ==
  /\ Alphanumeric \subseteq Characters
  /\ Lowercase \in [Alphanumeric -> Seq(Characters)]

\* One character: it extends the current token, or ends it.
Scan(state, character) ==
  IF character \in Alphanumeric
  THEN [state EXCEPT !.current = @ \o Lowercase[character]]
  ELSE IF state.current = <<>> THEN state
  ELSE [tokens |-> Append(state.tokens, state.current), current |-> <<>>]

\* The tokens of a text; the position of a token is its index, from zero.
Analyze(text) ==
  LET end == FoldLeft(Scan, [tokens |-> <<>>, current |-> <<>>], text)
  IN  IF end.current = <<>> THEN end.tokens ELSE Append(end.tokens, end.current)

\* normalize_single gives the term back unchanged.
IsNormalized(term) == Analyze(term) = <<term>>
=============================================================================
