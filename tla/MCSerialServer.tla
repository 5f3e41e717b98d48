--------------------------- MODULE MCSerialServer ---------------------------
(* SerialServer with small sets of calls, messages and device bodies.       *)
EXTENDS SerialServer, TLC

CONSTANTS r1, r2, w1, w2, i1, i2, m1, m2

\* One body of one word, one of two: fscanf's %s tells them apart; and one
\* of which it stores nothing.
TwoBodies == {<<"x">>, <<"y", "z">>}
ThreeBodies == TwoBodies \cup {<<>>}
OneBody == {<<"x">>}

Symmetric == Permutations({r1, r2}) \cup Permutations({w1, w2})
=============================================================================
