--------------------------- MODULE MCAppendOnly ---------------------------
(* Finite instances of AppendOnly.                                         *)
EXTENDS AppendOnly, TLC

CONSTANTS c1, c2

MCClients == {c1, c2}
OneClient == {c1}
OneDb     == {0}
MCDbs     == {0, 1}
Symmetry  == Permutations(MCClients)
=============================================================================
