---------------------------- MODULE ImportRunMC ----------------------------
(* Two jobs on two projects, one on SQL Server and one on Postgres.          *)
EXTENDS ImportRun, TLC
CONSTANTS p1, p2

S(i, u) == [id |-> i, usage |-> u]
F(name, version, pages, chain, declared) ==
    [name |-> name, version |-> version, pages |-> pages, chain |-> chain,
     declared |-> declared, readable |-> TRUE]
P(data, slots) == [data |-> data, slots |-> slots]

\* a: a page of keys, a deleted slot between the records, a stale slot after
\* the last; b: the same table's file in another directory; c: version 5 with a
\* deleted record the chain does not lead to; d: no Btrieve file.
MCFile ==
    [f \in {"a", "b", "c", "d"} |->
        CASE f = "a" -> F("T", 6, <<P(FALSE, <<S(9, 1)>>), P(TRUE, <<S(1, 1), S(2, 0), S(3, 2)>>),
                                    P(TRUE, <<S(4, 1)>>)>>, <<>>, 3)
          [] f = "b" -> F("T", 5, <<P(TRUE, <<S(5, 1), S(6, 1)>>)>>, <<>>, 0)
          [] f = "c" -> F("U", 5, <<P(TRUE, <<S(7, 0), S(8, 1)>>)>>, <<>>, 1)
          [] f = "d" -> [F("U", 6, <<>>, <<>>, 0) EXCEPT !.readable = FALSE]]

R(kind, p, files, create, truncate) ==
    [kind |-> kind, project |-> p, files |-> files, table |-> None, create |-> create,
     truncate |-> truncate, dry |-> FALSE, auto |-> FALSE, save |-> FALSE, batch |-> 2]

MCRequests ==
    {R("stream", p1, <<"a", "b">>, TRUE, TRUE), R("web", p1, <<"a">>, FALSE, TRUE),
     R("stream", p2, <<"a">>, FALSE, TRUE), R("cli", p2, <<"b">>, FALSE, FALSE),
     [R("dir", p2, <<"d", "c">>, TRUE, TRUE) EXCEPT !.auto = TRUE, !.save = TRUE, !.batch = 0],
     [R("web", p2, <<"a", "d">>, TRUE, FALSE) EXCEPT !.dry = TRUE],
     [R("stream", p1, <<"a", "b">>, FALSE, TRUE) EXCEPT !.table = "U"]}

MCBackend == (p1 :> "mssql") @@ (p2 :> "postgres")
MCHome == (p1 :> "sales") @@ (p2 :> "pg")
MCSaved == (p1 :> ("T" :> "other")) @@ (p2 :> ("T" :> "other"))
MCTables == {[db |-> "pg", name |-> "T"]}
=============================================================================
