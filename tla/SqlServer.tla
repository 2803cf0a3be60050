----------------------------- MODULE SqlServer -----------------------------
(***************************************************************************)
(* The database server, as far as the driver's SQL layer (sql.rs) relies   *)
(* on it: rows with an identity number, one transaction and a set of       *)
(* session-owned application locks per connection.  The server is external *)
(* to the repository.                                                      *)
(*                                                                         *)
(* Writes are made in place and a transaction keeps the before-image of    *)
(* each row it wrote, so db is what the writer itself reads, and rolling   *)
(* back puts the before-images back.                                       *)
(***************************************************************************)
EXTENDS Integers

CONSTANTS
    Session,    \* driver processes; each has at most one server connection
    MaxRow,     \* bound: identity numbers the table can hand out
    Val,        \* record images
    Absent,     \* marks a row that is not in the table
    Clean,      \* marks a row a transaction has not written
    Free,       \* marks an application lock nobody holds
    Backend     \* which server: one of Backends

Backends == {"mssql", "postgres", "sqlite"}

ASSUME MaxRowAssumption  == MaxRow \in Nat \ {0}
ASSUME MarkerAssumption  == /\ Absent \notin Val
                            /\ Clean \notin Val \cup {Absent}
                            /\ Free \notin Session
ASSUME BackendAssumption == Backend \in Backends

Row      == 1..MaxRow
RecNum   == 0..MaxRow       \* 0 names no row, but can be asked for and locked
Image    == Val \cup {Absent}
TxnState == {"none", "read_committed", "serializable", "aborted"}

VARIABLES
    db,         \* db[r]: the current image of row r, uncommitted writes included
    undo,       \* undo[s][r]: what s's transaction found in r before writing it
    txn,        \* txn[s]: the transaction open on s's connection
    shared,     \* shared[s]: rows s's serializable transaction has read
    appLock,    \* appLock[n]: the session that owns the application lock of n
    nextId      \* the next identity number

serverVars == <<db, undo, txn, shared, appLock, nextId>>

NoUndo == [r \in Row |-> Clean]

Dirty(s) == {r \in Row : undo[s][r] # Clean}

InTxn(s) == txn[s] \in {"read_committed", "serializable"}

\* Postgres refuses every statement of a transaction that has failed.
Accepts(s) == txn[s] # "aborted"

\* A write of r by s must wait for another session's transaction.  SQLite
\* locks the whole file for writing.
Conflicts(s, r) ==
    \E t \in Session \ {s} :
        \/ r \in Dirty(t) \cup shared[t]
        \/ Backend = "sqlite" /\ Dirty(t) # {}

\* The image of r that all but its uncommitted writer see.
Committed(r) ==
    IF \E t \in Session : r \in Dirty(t)
    THEN undo[CHOOSE t \in Session : r \in Dirty(t)][r]
    ELSE db[r]

Visible(s, r) == IF r \in Dirty(s) THEN db[r] ELSE Committed(r)

Undone(s) == [r \in Row |-> IF undo[s][r] = Clean THEN db[r] ELSE undo[s][r]]

ServerInit ==
    /\ db \in [Row -> Image]
    /\ \E n \in 1 .. MaxRow + 1 :
          nextId = n /\ \A r \in Row : (db[r] # Absent) <=> (r < n)
    /\ undo    = [s \in Session |-> NoUndo]
    /\ txn     = [s \in Session |-> "none"]
    /\ shared  = [s \in Session |-> {}]
    /\ appLock = [n \in RecNum |-> Free]

BeginTxn(s, level) ==
    /\ txn' = [txn EXCEPT ![s] = level]
    /\ UNCHANGED <<db, undo, shared, appLock, nextId>>

\* A query that returns row r.
ReadRow(s, r) ==
    /\ Accepts(s)
    /\ Visible(s, r) # Absent
    /\ Backend = "mssql" => \A t \in Session \ {s} : r \notin Dirty(t)
    /\ shared' = [shared EXCEPT ![s] = IF txn[s] = "serializable"
                                       THEN @ \cup {r} ELSE @]
    /\ UNCHANGED <<db, undo, txn, appLock, nextId>>

\* A statement writes img to r; nextId is the caller's to set.
Put(s, r, img) ==
    /\ Accepts(s)
    /\ ~Conflicts(s, r)
    /\ db' = [db EXCEPT ![r] = img]
    /\ undo' = IF InTxn(s) /\ undo[s][r] = Clean
               THEN [undo EXCEPT ![s][r] = db[r]]
               ELSE undo
    /\ UNCHANGED <<txn, shared, appLock>>

\* The transaction is over and its row locks are gone; the application locks
\* belong to the connection and stay.
EndOfTxn(s, state) ==
    /\ undo'   = [undo EXCEPT ![s] = NoUndo]
    /\ shared' = [shared EXCEPT ![s] = {}]
    /\ txn'    = [txn EXCEPT ![s] = state]

CommitTxn(s) ==
    EndOfTxn(s, "none") /\ UNCHANGED <<db, appLock, nextId>>

RollbackTxn(s) ==
    EndOfTxn(s, "none") /\ db' = Undone(s) /\ UNCHANGED <<appLock, nextId>>

\* A statement failed on Postgres and the connection lives on: the
\* transaction's work is undone, and it is refused until it is ended.
FailTxn(s) ==
    /\ EndOfTxn(s, IF txn[s] = "none" THEN "none" ELSE "aborted")
    /\ db' = Undone(s)
    /\ UNCHANGED <<appLock, nextId>>

LocksWithout(s) == [n \in RecNum |-> IF appLock[n] = s THEN Free ELSE appLock[n]]

\* The connection is closed by either end.
Disconnect(s) ==
    /\ EndOfTxn(s, "none")
    /\ db' = Undone(s)
    /\ appLock' = LocksWithout(s)

\* The connection is lost after the server has carried out a statement and
\* before its reply arrives: a commit, or a write outside a transaction.
CommitThenDisconnect(s) ==
    /\ EndOfTxn(s, "none")
    /\ appLock' = LocksWithout(s)
    /\ UNCHANGED db

PutThenDisconnect(s, r, img) ==
    /\ txn[s] = "none"
    /\ ~Conflicts(s, r)
    /\ db' = [db EXCEPT ![r] = img]
    /\ appLock' = LocksWithout(s)
    /\ UNCHANGED <<undo, txn, shared>>

TakeAppLock(s, n) ==
    /\ Accepts(s)
    /\ appLock[n] \in {Free, s}
    /\ appLock' = [appLock EXCEPT ![n] = s]
    /\ UNCHANGED <<db, undo, txn, shared, nextId>>

ReleaseAppLock(s, n) ==
    /\ Accepts(s)
    /\ appLock[n] = s
    /\ appLock' = [appLock EXCEPT ![n] = Free]
    /\ UNCHANGED <<db, undo, txn, shared, nextId>>

\* The types of the server's variables.
ServerTypeOK ==
    /\ db \in [Row -> Image]
    /\ undo \in [Session -> [Row -> Image \cup {Clean}]]
    /\ txn \in [Session -> TxnState]
    /\ shared \in [Session -> SUBSET Row]
    /\ appLock \in [RecNum -> Session \cup {Free}]
    /\ nextId \in 1 .. MaxRow + 1
=============================================================================
