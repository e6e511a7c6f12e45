--------------------------- MODULE MCLbugSession ---------------------------
EXTENDS LbugSession, TLC

RequestSymmetry == Permutations(Requests)
=============================================================================
