------------------------------- MODULE MCIndex -------------------------------
(***************************************************************************)
(* Indexes of up to two documents out of five: with repeated tokens, an    *)
(* empty field, a duplicate identifier and a field that is too long for    *)
(* the builder; and up to three edits of the stored parts.  Forward        *)
(* indexes of the same documents, in every order, with up to two edits.    *)
(* And an alphabet with the capital I with a dot above, U+0130: the one    *)
(* character whose lowercase form is two, an i and the combining mark      *)
(* U+0307, which is not alphanumeric.                                      *)
(***************************************************************************)
EXTENDS ForwardIndex

MCCharacters == {"a", "b", "B", " "}
MCAlphanumeric == {"a", "b", "B"}
MCLowercase == [c \in MCAlphanumeric |-> IF c = "B" THEN <<"b">> ELSE <<c>>]

MCFieldNames == <<"body", "title">>

Short == <<"a">>
Mixed == <<"a", " ", "B">>
Repeated == <<"b", " ", "a", " ", " ", "b", " ">>
Blank == <<" ">>
Long == <<"b", " ", "a", " ", "a", " ", "b">>

MCDocuments == {
  [id |-> 1, fields |-> [body |-> Short, title |-> Mixed]],
  [id |-> 2, fields |-> [body |-> Repeated]],
  [id |-> 3, fields |-> [body |-> Blank, title |-> Short]],
  [id |-> 1, fields |-> [body |-> Mixed]],
  [id |-> 4, fields |-> [body |-> Short, title |-> Long]]}

At(d, positions) == [doc |-> d, positions |-> positions]

\* Empty, misplaced, swapped, repeated, dangling and plausible lists.
MCEditedLists == {
  <<>>, <<At(0, <<>>)>>, <<At(0, <<0>>)>>, <<At(0, <<1>>)>>, <<At(0, <<1, 0>>)>>,
  <<At(0, <<0>>), At(1, <<0>>)>>, <<At(1, <<0>>), At(0, <<0>>)>>,
  <<At(0, <<0>>), At(0, <<1>>)>>, <<At(2, <<0>>)>>, <<At(1, <<0, 2>>)>>}

\* The limit on occurrences keeps fields that are too long out of forward indexes.
MCSources == UNION {[1 .. n -> {d \in MCDocuments : TooLong(d) = {}}] : n \in 0 .. 2}

\* Fields in order, then terms, here of one character.
MCKeyBefore(k, l) ==
  \/ k[1] = "body" /\ l[1] = "title"
  \/ k[1] = l[1] /\ k[2] = <<"a">> /\ l[2] = <<"b">>
-----------------------------------------------------------------------------
DottedCharacters == {"i", "n", "U+0130", "U+0307", " "}
DottedAlphanumeric == {"i", "n", "U+0130"}
DottedLowercase ==
  [c \in DottedAlphanumeric |-> IF c = "U+0130" THEN <<"i", "U+0307">> ELSE <<c>>]

DottedFieldNames == <<"body">>

DottedDocuments == {
  [id |-> 1, fields |-> [body |-> <<"i", "n">>]],
  [id |-> 2, fields |-> [body |-> <<"U+0130", "n", " ", "i", "n">>]]}

\* The term with the mark after its i comes after the one without.
DottedKeyBefore(k, l) == Len(k[2]) < Len(l[2])
=============================================================================
