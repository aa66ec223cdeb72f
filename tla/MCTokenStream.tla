--------------------------- MODULE MCTokenStream ---------------------------
(* Small instances of TokenStream for TLC. *)
EXTENDS TokenStream, TLC

CONSTANTS A1, A2

\* Two words and their concatenation, a padded word, a quoted word, a preamble
\* with and without a word behind it.
AllTexts == {<<"a">>, <<"b">>, <<"a", "b">>, <<"_", "a">>, <<"q", "a", "q">>,
             <<"h", "b">>, <<"h">>}

FewTexts == {<<"a">>, <<"b">>, <<"h", "a">>}

PreambleText == <<"h">>

AgentSymmetry == Permutations({A1, A2})

=============================================================================
