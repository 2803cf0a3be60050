---------------------------- MODULE DriverShellMC ----------------------------
(* Two threads; an index of two segments and one of one; two records with    *)
(* the same key.                                                             *)
EXTENDS DriverShell, TLC
MCCodes == {16, 55, 65, 155, 415, 505, 1019}
Perms == Permutations(Thread)
MCCapacity == {0, 8, 58, 64}
MCSegmentIndex == <<1, 1, 2>>
MCKeyOf == [r \in Row |-> 1]
=============================================================================
