------------------------------ MODULE Catalog ------------------------------
(***************************************************************************)
(* How a file name finds its table, and what Create, Create Index and Drop *)
(* Index do to what the driver knows of tables (table_lookup.rs,           *)
(* sqlite_meta.rs, ops/open.rs, ops/create.rs, ops/index.rs).              *)
(*                                                                         *)
(* Table metadata is preloaded from the configuration database under       *)
(* several keys, or discovered at the server on the first Open of a file   *)
(* that has none.  An open handle has a copy of its own, which Create      *)
(* Index and Drop Index change.                                            *)
(***************************************************************************)
EXTENDS Integers, Sequences, FiniteSets

CONSTANTS
    Dir,        \* directories that files are opened from
    Database,   \* logical databases of the server
    NoDb,       \* no database configured
    DirDb,      \* DriverState.dir_configs: DATABASE of the directories that have one
    GlobalDb,   \* DriverState.database
    Name,       \* upper-case file names without directory and extension:
                \* sequences of words, dots and underscores
    Defined,    \* sequence of the preloaded tables, in the order of their names
    Existing,   \* tables at the server at first, by database and name
    Column,     \* what an index may be made of
    Backend,    \* "mssql", "postgres" or "sqlite"
    Handle,
    Closed,     \* marks a handle that is not open
    MaxKeys,    \* most indexes of a table: 119
    MaxNumber   \* bound: index numbers

Scope == Database \cup {NoDb}

ASSUME CatalogAssumption ==
    /\ NoDb \notin Database
    /\ GlobalDb \in Scope
    /\ DOMAIN DirDb \subseteq Dir /\ \A dir \in DOMAIN DirDb : DirDb[dir] \in Scope
    /\ Existing \subseteq Database \X Name
    /\ MaxKeys \in Nat \ {0} /\ MaxNumber \in Nat

Underscore == "_"

\* normalize_key, of names in upper case: dots become underscores.
NormalizeKey(name) == [i \in DOMAIN name |-> IF name[i] = "." THEN Underscore ELSE name[i]]

ASSUME NameAssumption ==
    Name \subseteq Seq(STRING) /\ \A name \in Name : NormalizeKey(name) \in Name

(***************************************************************************)
(* What a handle, and the driver, know of a table.                         *)
(***************************************************************************)
Index == [num : Nat \ {0}, cols : Column]

IsMeta(meta) ==
    /\ meta \in [db : Scope, table : Name, indexes : Seq(Index)]
    /\ Len(meta.indexes) <= MaxKeys

DistinctNumbers(indexes) ==
    \A i, j \in DOMAIN indexes : indexes[i].num = indexes[j].num => i = j

\* As much of the order of names as matters here: a name sorts before its
\* extensions, and a dot before an underscore.
SortsBefore(a, b) ==
    \/ Len(a) < Len(b) /\ \A k \in DOMAIN a : a[k] = b[k]
    \/ \E k \in DOMAIN a \cap DOMAIN b :
          a[k] = "." /\ b[k] = Underscore /\ \A l \in 1 .. k - 1 : a[l] = b[l]

\* btr_indexes is UNIQUE(table_id, index_number); the tables are read with
\* ORDER BY table_name.
ASSUME DefinedAssumption ==
    /\ Defined \in Seq([db : Scope, table : Name, indexes : Seq(Index)])
    /\ \A i \in DOMAIN Defined :
          IsMeta(Defined[i]) /\ DistinctNumbers(Defined[i].indexes)
    /\ \A i, j \in DOMAIN Defined :
          SortsBefore(Defined[i].table, Defined[j].table) => i < j

ASSUME ClosedAssumption == ~IsMeta(Closed) /\ Closed \notin Dir \X Name

VARIABLES
    tables,     \* DriverState.tables, by database (NoDb: plain) and name
    onServer,   \* tables at the server
    sqlIndex,   \* indexes that Create Index has made at the server
    handle,     \* DriverState.handles, or Closed
    path        \* history: directory and name a handle was opened with

catalogVars == <<tables, onServer, sqlIndex, handle, path>>

-----------------------------------------------------------------------------
\* table_key_variants.
TableKeyVariants(name) ==
    {name, name \o <<".", "B">>, name \o <<Underscore, "B">>, NormalizeKey(name)}

\* preload_from_sqlite files a table under its database and under the plain
\* name.  A table without a database is filed under plain names only: no
\* lookup asks for its other key.
Keys(meta) == {meta.db, NoDb} \X TableKeyVariants(meta.table)

\* The first of some positions.  Mutant of the next one: a key stays with the
\* table that had it first.
FirstOf(idx) == CHOOSE i \in idx : \A j \in idx : i <= j

\* Tables later in the order take over keys of earlier ones.
WinnerOf(idx) == CHOOSE i \in idx : \A j \in idx : i >= j

Preloaded ==
    [key \in UNION {Keys(Defined[i]) : i \in DOMAIN Defined} |->
        Defined[WinnerOf({i \in DOMAIN Defined : key \in Keys(Defined[i])})]]

\* resolve_config(dir, "DATABASE").
ResolveConfig(dir) == IF dir \in DOMAIN DirDb THEN DirDb[dir] ELSE GlobalDb

\* The database a path is confined to; only SQL Server has several.
PathDb(dir) == IF Backend = "mssql" THEN ResolveConfig(dir) ELSE NoDb

\* Mutant: when the database has no such table, any other will do.
KeysAnywhere(db, name) == <<<<db, name>>, <<NoDb, name>>>>

\* The keys tried for a name, in this order.
KeysTried(db, name) ==
    IF db = NoDb THEN <<<<NoDb, name>>>>
    ELSE <<<<db, name>>, <<db, NormalizeKey(name)>>>>

\* The positions of the keys that name a table.
Hits(keys) == {i \in DOMAIN keys : keys[i] \in DOMAIN tables}

\* discover_table_meta, on SQL Server, of a table in a configured database.
Discoverable(dir, name) ==
    Backend = "mssql" /\ ResolveConfig(dir) # NoDb /\ <<ResolveConfig(dir), name>> \in onServer

\* Mutant: it is filed under the global database.
GlobalKey(name) == <<GlobalDb, name>>

\* A discovered table is filed under its plain name.
DiscoveredKey(name) == <<NoDb, name>>

Discovered(dir, name) == [db |-> ResolveConfig(dir), table |-> name, indexes |-> <<>>]

-----------------------------------------------------------------------------
CatalogInit ==
    /\ tables = Preloaded
    /\ onServer = Existing
    /\ sqlIndex = {}
    /\ handle = [h \in Handle |-> Closed]
    /\ path = [h \in Handle |-> Closed]

Assign(h, dir, name, meta) ==
    /\ handle' = [handle EXCEPT ![h] = meta]
    /\ path' = [path EXCEPT ![h] = <<dir, name>>]

\* Open of a file whose table is known.
OpenKnown(h, dir, name) ==
    LET keys == KeysTried(PathDb(dir), name)
    IN  /\ handle[h] = Closed
        /\ Hits(keys) # {}
        /\ Assign(h, dir, name, tables[keys[FirstOf(Hits(keys))]])
        /\ UNCHANGED <<tables, onServer, sqlIndex>>

\* Open of a file whose table is discovered.  If it is not there, or the query
\* fails, Open answers 12.
OpenDiscovered(h, dir, name) ==
    LET meta == Discovered(dir, name)
    IN  /\ handle[h] = Closed
        /\ Hits(KeysTried(PathDb(dir), name)) = {}
        /\ Discoverable(dir, name)
        /\ Assign(h, dir, name, meta)
        /\ tables' = [key \in DOMAIN tables \cup {DiscoveredKey(name)} |->
                         IF key = DiscoveredKey(name) THEN meta ELSE tables[key]]
        /\ UNCHANGED <<onServer, sqlIndex>>

CloseFile(h) ==
    /\ handle[h] # Closed
    /\ handle' = [handle EXCEPT ![h] = Closed]
    /\ path' = [path EXCEPT ![h] = Closed]
    /\ UNCHANGED <<tables, onServer, sqlIndex>>

\* Stop.
CloseAll ==
    /\ \E h \in Handle : handle[h] # Closed
    /\ handle' = [h \in Handle |-> Closed]
    /\ path' = [h \in Handle |-> Closed]
    /\ UNCHANGED <<tables, onServer, sqlIndex>>

\* do_init, by the first call after the shell has stopped the driver, or by a
\* shell that initialises it once more: wxbtrv.db is read again, and what was
\* discovered is forgotten.  Open handles keep their copies.
Reload ==
    /\ tables' = Preloaded
    /\ UNCHANGED <<onServer, sqlIndex, handle, path>>

\* Create makes a table in the database of the connection, unless it is asked
\* to fail for a known one; it makes nothing known.  A failure answers 0.
CreateFile(name, failIfKnown) ==
    LET base == NormalizeKey(name)
    IN  /\ failIfKnown => <<NoDb, base>> \notin DOMAIN tables
        /\ onServer' = onServer \cup {<<GlobalDb, base>>}
        /\ UNCHANGED <<tables, sqlIndex, handle, path>>

-----------------------------------------------------------------------------
\* The database that a statement on a table reaches: table_ref names one on
\* SQL Server only.
ServerDb(meta) == IF Backend = "mssql" /\ meta.db # NoDb THEN meta.db ELSE GlobalDb

\* The index that Create Index makes for a number.
SqlName(meta, num) == <<ServerDb(meta), meta.table, num>>

Numbers(meta) == {meta.indexes[i].num : i \in DOMAIN meta.indexes}

\* Mutant: the number of indexes, plus one.
LengthPlusOne(meta) == Len(meta.indexes) + 1

\* Mutant: the first number is 0.
ZeroBasedNumber(meta) ==
    CHOOSE n \in {0} \cup {k + 1 : k \in Numbers(meta)} : \A k \in Numbers(meta) : k < n

\* One more than the greatest number.
NextNumber(meta) ==
    1 + CHOOSE n \in Numbers(meta) \cup {0} : \A k \in Numbers(meta) : k <= n

AtLimit(meta) == Len(meta.indexes) >= MaxKeys

\* The statement fails when there is no such table or the name is taken; when
\* its reply is lost, the index is there and the handle does not know it.
CreateIndex(h, cols) ==
    LET meta == handle[h]
        num  == NextNumber(meta)
    IN  /\ meta # Closed
        /\ ~AtLimit(meta)
        /\ num <= MaxNumber
        /\ <<ServerDb(meta), meta.table>> \in onServer
        /\ SqlName(meta, num) \notin sqlIndex
        /\ sqlIndex' = sqlIndex \cup {SqlName(meta, num)}
        /\ \/ handle' = [handle EXCEPT ![h] =
                 [@ EXCEPT !.indexes = Append(meta.indexes, [num |-> num, cols |-> cols])]]
           \/ UNCHANGED handle
        /\ UNCHANGED <<tables, onServer, path>>

\* The positions of a list in their order: there is one such enumeration.
InOrder(positions) ==
    {f \in [1 .. Cardinality(positions) -> positions] :
        \A i, j \in DOMAIN f : i < j => f[i] < f[j]}

\* The key number is a position in the list; every index of that number goes,
\* whether the statement succeeds or not.
DropIndex(h, keyNum) ==
    LET meta   == handle[h]
        target == meta.indexes[keyNum + 1].num
        kept   == {i \in DOMAIN meta.indexes : meta.indexes[i].num # target}
    IN  /\ meta # Closed
        /\ keyNum < Len(meta.indexes)
        /\ \/ sqlIndex' = sqlIndex \ {SqlName(meta, target)}
           \/ UNCHANGED sqlIndex
        /\ \E f \in InOrder(kept) :
              handle' = [handle EXCEPT ![h] =
                  [@ EXCEPT !.indexes = [i \in DOMAIN f |-> meta.indexes[f[i]]]]]
        /\ UNCHANGED <<tables, onServer, path>>

FileOp ==
    \/ \E h \in Handle, dir \in Dir, name \in Name :
          OpenKnown(h, dir, name) \/ OpenDiscovered(h, dir, name)
    \/ \E h \in Handle : CloseFile(h)
    \/ CloseAll
    \/ Reload
    \/ \E name \in Name, failIfKnown \in BOOLEAN : CreateFile(name, failIfKnown)

IndexOp ==
    \E h \in Handle :
        \/ \E cols \in Column : CreateIndex(h, cols)
        \/ \E keyNum \in 0 .. MaxKeys - 1 : DropIndex(h, keyNum)

CatalogNext == FileOp \/ IndexOp

CatalogSpec == CatalogInit /\ [][CatalogNext]_catalogVars

-----------------------------------------------------------------------------
(***************************************************************************)
(* The types of the catalog; a handle has at most MaxKeys indexes.         *)
(***************************************************************************)
CatalogTypeOK ==
    /\ \A key \in DOMAIN tables : key[1] \in Scope /\ IsMeta(tables[key])
    /\ onServer \subseteq Scope \X Name
    /\ handle \in [Handle -> [db : Scope, table : Name, indexes : Seq(Index)] \cup {Closed}]
    /\ path \in [Handle -> (Dir \X Name) \cup {Closed}]
    /\ \A h \in Handle :
          /\ handle[h] = Closed <=> path[h] = Closed
          /\ handle[h] # Closed => IsMeta(handle[h])

(***************************************************************************)
(* A file opened from a directory with a database is a table of that       *)
(* database, whatever was preloaded or discovered for other directories    *)
(* (table_lookup.rs: "Never cross databases").                             *)
(***************************************************************************)
NeverCrossesDatabases ==
    \A h \in Handle :
        handle[h] # Closed /\ PathDb(path[h][1]) # NoDb => handle[h].db = PathDb(path[h][1])

(***************************************************************************)
(* As long as its directory has a database, a path leads to the same table *)
(* each time it is opened, whatever is created, discovered, forgotten or   *)
(* opened in between.                                                      *)
(***************************************************************************)
SamePathSameTable ==
    \A g, h \in Handle :
        handle[g] # Closed /\ path[g] = path[h] /\ PathDb(path[g][1]) # NoDb =>
            handle[g].db = handle[h].db /\ handle[g].table = handle[h].table

(***************************************************************************)
(* A preloaded table is found under its own name in each of its scopes,    *)
(* although other tables are filed under names that look like it.          *)
(***************************************************************************)
OwnNameWins ==
    \A i \in DOMAIN Defined :
        \A scope \in {Defined[i].db, NoDb} :
            tables[<<scope, Defined[i].table>>].table = Defined[i].table

(***************************************************************************)
(* No two indexes of a handle have the same number, whatever was dropped   *)
(* and created before: a Get finds its index by the number.                *)
(***************************************************************************)
NumbersDistinct ==
    \A h \in Handle :
        handle[h] # Closed => DistinctNumbers(handle[h].indexes)
=============================================================================
