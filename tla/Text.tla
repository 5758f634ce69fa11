-------------------------------- MODULE Text --------------------------------
(***************************************************************************)
(* The functions of std::string that HttpUrl takes URLs apart with.  A     *)
(* text is a sequence of tokens: a delimiter is a token, and so is a name, *)
(* a number or a scheme, whatever its length.                              *)
(***************************************************************************)
EXTENDS Integers, SequencesExt

(* find and find_first_of from a position on: 0 stands for npos, so that   *)
(* adding 1 to it gives the first position, as it does to npos.            *)
FirstFrom(text, token, from) ==
  SelectInSubSeq(text, from, Len(text), LAMBDA c : c = token)

First(text, token) == FirstFrom(text, token, 1)

(* substr of the tokens from one position to before another.  The number   *)
(* of characters is unsigned: if the positions are in the wrong order it   *)
(* is a huge one.                                                          *)
Substr(text, from, to) ==
  SubSeq(text, from, IF to < from THEN Len(text) ELSE to - 1)

(* substr(0, find(token)).                                                 *)
UpTo(text, token) ==
  IF First(text, token) = 0 THEN text
  ELSE Substr(text, 1, First(text, token))

(* substr(find(token) + 1).                                                *)
After(text, token) == SubSeq(text, First(text, token) + 1, Len(text))

(* What sregex_token_iterator finds between the separators, but for what   *)
(* is empty.                                                               *)
Extend(pieces, text, i, separator) ==
  CASE text[i] = separator -> pieces
    [] text[i] # separator /\ (i = 1 \/ text[i - 1] = separator) ->
         Append(pieces, <<text[i]>>)
    [] OTHER -> [pieces EXCEPT ![Len(pieces)] = Append(@, text[i])]

Pieces(text, separator) ==
  FoldLeftDomain(LAMBDA pieces, i : Extend(pieces, text, i, separator),
                 <<>>, text)

(* erase of one kind of blank at the start or at the end.                  *)
TrimLeft(text, blank) ==
  LET kept == SelectInSeq(text, LAMBDA c : c # blank) IN
  IF kept = 0 THEN <<>> ELSE SubSeq(text, kept, Len(text))

TrimRight(text, blank) == Reverse(TrimLeft(Reverse(text), blank))

(* The texts, each with what comes before it.                              *)
Joined(texts, before) ==
  FlattenSeq([i \in DOMAIN texts |-> before \o texts[i]])

=============================================================================
