---------------------------- MODULE MCReplSlave ----------------------------
\* Instances of ReplSlave for TLC.
EXTENDS ReplSlave

CONSTANTS m1, m2

TwoMasters == {m1, m2}
=============================================================================
