----------------------------- MODULE CatalogMC -----------------------------
(***************************************************************************)
(* An instance of Catalog: two databases, in the first of which a table T  *)
(* and one whose name is among the keys of T are preloaded.                *)
(***************************************************************************)
EXTENDS Catalog, TLC

CONSTANTS d1, d2, r1, r2, r3

Names == {<<"T">>, <<"T", "_", "B">>}

\* One directory has a database of its own, one has none, and one takes the
\* global one.
Directories == [r \in {r1, r2} |-> IF r = r1 THEN d2 ELSE NoDb]

TwoIndexes == <<[num |-> 1, cols |-> 1], [num |-> 2, cols |-> 1]>>

Tables ==
    <<[db |-> d1, table |-> <<"T">>, indexes |-> TwoIndexes],
      [db |-> d1, table |-> <<"T", "_", "B">>, indexes |-> <<>>]>>

\* The second database has a table that is not preloaded; T_B has to be
\* created.
AtServer == {<<d1, <<"T">>>>, <<d2, <<"T">>>>}

Symmetry == Permutations(Handle)
=============================================================================
