----------------------------- MODULE ConfigDbMC -----------------------------
(***************************************************************************)
(* Two processes, one table from two directories and in two versions, and  *)
(* another table; batches of one and two files.                            *)
(***************************************************************************)
EXTENDS ConfigDb

K(n, d, s) == [name |-> n, db |-> d, dir |-> s]

KeyMC == {K("T", "", "a"), K("T", "", "b"), K("T", "X", "a"), K("T", "X", "b"), K("U", "", "")}

IntFile(k, h, s, fs, ix) == [key |-> k, header |-> h, schema |-> s, fields |-> fs, indexes |-> ix]

T1 == IntFile(K("T", "", "a"), "h1", "dbo", <<"int", "text">>, <<<<1, 2>>>>)
T2 == IntFile(K("T", "", "a"), "h2", "", <<"text">>, <<<<1>>>>)
T3 == IntFile(K("T", "", "b"), "h1", "", <<"int">>, <<<<1>>>>)
U1 == IntFile(K("U", "", ""), "h1", "", <<"int">>, <<<<1>>>>)

BatchesMC == {<<T1>>, <<T2>>, <<T3>>, <<U1>>, <<T2, U1>>}
DefinitionsMC  == {"date"}
SegmentListsMC == {<<2, 1>>}
SettingsMC == {<<"config", "SCHEMA">>, <<"MDS", "SCHEMA">>}

Perms == Permutations(Proc)
=============================================================================
