--------------------------- MODULE MCReplMaster ---------------------------
\* Instances of ReplMaster for TLC.
EXTENDS ReplMaster, TLC

CONSTANTS s1, s2

TwoDbs    == {0, 1}
TwoSlaves == {s1, s2}

Symmetry == Permutations({s1, s2})
=============================================================================
