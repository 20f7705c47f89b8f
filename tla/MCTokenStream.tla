---------------------------- MODULE MCTokenStream ----------------------------
(***************************************************************************)
(* The token stream on every text of a few lexemes.  The ring has three    *)
(* slots, so a text fills it, drains it and wraps it in every alignment.   *)
(***************************************************************************)
EXTENDS TokenStream, SequencesExt

MaxLexemes == 5

Inner == SeqOf({"word", "mark", "space", "block"}, MaxLexemes - 1)

\* Texts whose last lexeme is of the given kinds.
EndingIn(kinds) == {Append(t, k) : t \in Inner, k \in kinds}

ShortTexts ==
  {<<>>} \cup EndingIn({"word", "mark", "space", "line", "quote", "open", "tail"})
  \cup {<<"word", "odd", "mark">>, <<"odd", "word", "word", "mark", "word">>,
        <<"word", "mark", "word", "odd">>, <<"mark", "word", "mark", "space", "odd", "word">>}

\* const a = 1; // the end
TailTexts == {<<"word", "space", "mark", "space", "tail">>}
=============================================================================
