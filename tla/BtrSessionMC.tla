---- MODULE BtrSessionMC ----
EXTENDS BtrSession, TLC
Symmetry == Permutations(Session)
====
