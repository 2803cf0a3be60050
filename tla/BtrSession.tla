----------------------------- MODULE BtrSession -----------------------------
(***************************************************************************)
(* Transactions, writes and row locks of the driver (ops/txn.rs,           *)
(* ops/insert.rs, ops/update.rs, ops/delete.rs, ops/session.rs and the SQL *)
(* layer sql.rs they call), as seen by several DOS sessions that share one *)
(* database server.                                                        *)
(*                                                                         *)
(* A session is one driver process: one call at a time, one connection,    *)
(* one TXN_ACTIVE flag, a table of open handles.  A call that sends more   *)
(* than one SQL statement is one action per statement, so other sessions,  *)
(* and the loss of the connection, fall between them.  A call that returns *)
(* at once (3 file not open, 8 no current record, 37 transaction active,   *)
(* 39 no transaction) changes nothing: it is a stuttering step.            *)
(***************************************************************************)
EXTENDS SqlServer

CONSTANTS
    Handle,     \* position blocks a session can have open
    NoHandle    \* marks a call record that names no handle

ASSUME HandleAssumption == NoHandle \notin Handle

NoPos == -1     \* a recnum option that is None

VARIABLES
    conn,        \* the cached connection CONN, and whether the server kept it
    txnActive,   \* TXN_ACTIVE
    handles,     \* the keys of DriverState.handles
    lastRecnum,  \* HandleEntry.last_recnum: the physical currency
    prefixed,    \* handles whose lock_prefix is resolved
    call,        \* the Btrieve call in progress
    acked,       \* history: rows written since the last successful Begin
    begun,       \* history: the opcode of that Begin, 0 when it has been ended
    relied       \* history: rows read since a successful op 19

driverVars == <<conn, txnActive, handles, lastRecnum, prefixed, call>>
history    == <<acked, begun, relied>>
vars       == <<serverVars, driverVars, history>>

Pc     == {"idle", "lastid", "prefix", "lock", "exec", "unlock"}
NoCall == [pc |-> "idle", h |-> NoHandle, row |-> 0, img |-> Absent]

At(s, step) == call[s].pc = step
Go(s, step) == call' = [call EXCEPT ![s].pc = step]
Return(s)   == call' = [call EXCEPT ![s] = NoCall]

Init ==
    /\ ServerInit
    /\ conn       = [s \in Session |-> "none"]
    /\ txnActive  = [s \in Session |-> FALSE]
    /\ handles    = [s \in Session |-> {}]
    /\ lastRecnum = [s \in Session |-> [h \in Handle |-> NoPos]]
    /\ prefixed   = [s \in Session |-> {}]
    /\ call       = [s \in Session |-> NoCall]
    /\ acked      = [s \in Session |-> {}]
    /\ begun      = [s \in Session |-> 0]
    /\ relied     = [s \in Session |-> {}]

-----------------------------------------------------------------------------
(***************************************************************************)
(* with_conn: a statement runs on the cached connection, opened on demand. *)
(* When the statement or the connect fails with a connection-level code,   *)
(* which is the code of every SQL error but a refused lock, the connection *)
(* is dropped and with it all that the server held for it.                 *)
(***************************************************************************)
Connected(s) ==
    /\ conn[s] # "dead"
    /\ conn' = [conn EXCEPT ![s] = "live"]

ConnGone(s) == conn' = [conn EXCEPT ![s] = "none"]

Dropped(s) == ConnGone(s) /\ Disconnect(s)

\* A write since Begin that the caller is told, or will be told, has succeeded.
Acknowledge(s, r) ==
    /\ acked' = IF begun[s] # 0 THEN [acked EXCEPT ![s] = @ \cup {r}] ELSE acked
    /\ UNCHANGED <<begun, relied>>

Rely(s, r) ==
    /\ relied' = IF begun[s] = 19 THEN [relied EXCEPT ![s] = @ \cup {r}] ELSE relied
    /\ UNCHANGED <<acked, begun>>

Begun(s, op) ==
    /\ begun'  = [begun EXCEPT ![s] = op]
    /\ acked'  = [acked EXCEPT ![s] = {}]
    /\ relied' = [relied EXCEPT ![s] = {}]

-----------------------------------------------------------------------------
\* Op 0.  The table's metadata is preloaded: Open sends no SQL.
Open(s, h) ==
    /\ At(s, "idle")
    /\ h \notin handles[s]
    /\ handles' = [handles EXCEPT ![s] = @ \cup {h}]
    /\ UNCHANGED <<serverVars, conn, txnActive, lastRecnum, prefixed, call, history>>

\* Op 1.  The entry is removed whatever the transaction has done to the file.
Close(s, h) ==
    /\ At(s, "idle")
    /\ h \in handles[s]
    /\ handles'    = [handles EXCEPT ![s] = @ \ {h}]
    /\ lastRecnum' = [lastRecnum EXCEPT ![s][h] = NoPos]
    /\ prefixed'   = [prefixed EXCEPT ![s] = @ \ {h}]
    /\ UNCHANGED <<serverVars, conn, txnActive, call, history>>

\* The Get and Step operations: one query, and the row it returns becomes the
\* physical currency.  A miss leaves the currency alone.
Read(s, h) ==
    /\ At(s, "idle")
    /\ h \in handles[s]
    /\ \/ \E r \in Row :
             /\ Connected(s)
             /\ ReadRow(s, r)
             /\ lastRecnum' = [lastRecnum EXCEPT ![s][h] = r]
             /\ Rely(s, r)
       \/ Connected(s) /\ Accepts(s) /\ UNCHANGED <<serverVars, lastRecnum, history>>
       \/ Dropped(s) /\ UNCHANGED <<nextId, lastRecnum, history>>
    /\ UNCHANGED <<txnActive, handles, prefixed, call>>

-----------------------------------------------------------------------------
(***************************************************************************)
(* Op 19, exclusive, and op 1019, concurrent.  Only SQL Server is given an *)
(* isolation level.                                                        *)
(***************************************************************************)
\* Mutants: the level is not sent; a level the server does not know.
IsolationIgnored(op) == "read_committed"
IsolationUnknown(op) == "exclusive"

Isolation(op) ==
    IF Backend = "mssql" /\ op = 19 THEN "serializable" ELSE "read_committed"

\* TXN_ACTIVE.store(true).  Mutant: the store is forgotten.
ActivateForgotten(s) == UNCHANGED txnActive

Activate(s) == txnActive' = [txnActive EXCEPT ![s] = TRUE]

BeginTran(s, op) ==
    /\ At(s, "idle")
    /\ ~txnActive[s]
    /\ \/ /\ Connected(s)
          /\ BeginTxn(s, Isolation(op))
          /\ Activate(s)
          /\ Begun(s, op)
       \/ Dropped(s) /\ UNCHANGED <<nextId, txnActive, history>>
    /\ UNCHANGED <<handles, lastRecnum, prefixed, call>>

\* COMMIT succeeds: always on Postgres, elsewhere only inside a transaction.
EndTranOk(s) ==
    /\ Connected(s)
    /\ Backend = "postgres" \/ InTxn(s)
    /\ CommitTxn(s)

\* Op 20.  The flag is cleared whatever COMMIT returned.
EndTran(s) ==
    /\ At(s, "idle")
    /\ txnActive[s]
    /\ \/ EndTranOk(s)
       \/ Dropped(s) /\ UNCHANGED nextId
       \/ conn[s] = "live" /\ ConnGone(s) /\ CommitThenDisconnect(s) /\ UNCHANGED nextId
    /\ txnActive' = [txnActive EXCEPT ![s] = FALSE]
    /\ Begun(s, 0)
    /\ UNCHANGED <<handles, lastRecnum, prefixed, call>>

\* Mutant: ROLLBACK is not sent.
AbortTranUnsent(s) == Connected(s) /\ UNCHANGED serverVars

\* ROLLBACK succeeds: outside a transaction too, except on SQLite.
AbortTranOk(s) ==
    /\ Connected(s)
    /\ Backend # "sqlite" \/ InTxn(s)
    /\ RollbackTxn(s)

\* Op 21.  Currency is invalidated only when ROLLBACK succeeded.
AbortTran(s) ==
    /\ At(s, "idle")
    /\ txnActive[s]
    /\ \/ /\ AbortTranOk(s)
          /\ lastRecnum' = [lastRecnum EXCEPT ![s] = [h \in Handle |-> NoPos]]
       \/ Dropped(s) /\ UNCHANGED <<nextId, lastRecnum>>
    /\ txnActive' = [txnActive EXCEPT ![s] = FALSE]
    /\ Begun(s, 0)
    /\ UNCHANGED <<handles, prefixed, call>>

\* Op 25.  The connection and the handles go, TXN_ACTIVE stays as it is.
Stop(s) ==
    /\ At(s, "idle")
    /\ Dropped(s)
    /\ handles'    = [handles EXCEPT ![s] = {}]
    /\ lastRecnum' = [lastRecnum EXCEPT ![s] = [h \in Handle |-> NoPos]]
    /\ prefixed'   = [prefixed EXCEPT ![s] = {}]
    /\ Begun(s, 0)
    /\ UNCHANGED <<nextId, txnActive, call>>

\* Op 28.
Reset(s, h) ==
    /\ At(s, "idle")
    /\ h \in handles[s]
    /\ lastRecnum' = [lastRecnum EXCEPT ![s][h] = NoPos]
    /\ UNCHANGED <<serverVars, conn, txnActive, handles, prefixed, call, history>>

-----------------------------------------------------------------------------
\* Mutant: the INSERT runs on a connection of its own.
InsertElsewhere(s, v) ==
    /\ ~Conflicts(s, nextId)
    /\ db' = [db EXCEPT ![nextId] = v]
    /\ nextId' = nextId + 1
    /\ UNCHANGED <<undo, txn, shared, appLock>>

InsertStatement(s, v) == Put(s, nextId, v) /\ nextId' = nextId + 1

(***************************************************************************)
(* Op 2: the INSERT statement, then a query for the identity it was given. *)
(***************************************************************************)
Insert(s, h, v) ==
    /\ At(s, "idle")
    /\ h \in handles[s]
    /\ nextId \in Row                           \* bound on the identities
    /\ \/ /\ Connected(s)
          /\ InsertStatement(s, v)
          /\ Acknowledge(s, nextId)
          /\ call' = [call EXCEPT ![s] =
                         [pc |-> "lastid", h |-> h, row |-> nextId, img |-> v]]
       \/ Dropped(s) /\ UNCHANGED <<nextId, call, history>>
       \/ /\ conn[s] # "dead"
          /\ ConnGone(s)
          /\ PutThenDisconnect(s, nextId, v)
          /\ nextId' = nextId + 1
          /\ UNCHANGED <<call, history>>
    /\ UNCHANGED <<txnActive, handles, lastRecnum, prefixed>>

\* last_insert_id: an error becomes id 0 and the call still returns success.
InsertId(s) ==
    /\ At(s, "lastid")
    /\ \/ /\ Connected(s)
          /\ Accepts(s)
          /\ lastRecnum' = [lastRecnum EXCEPT ![s][call[s].h] = call[s].row]
          /\ UNCHANGED serverVars
       \/ /\ Dropped(s)
          /\ lastRecnum' = [lastRecnum EXCEPT ![s][call[s].h] = 0]
          /\ UNCHANGED nextId
    /\ Return(s)
    /\ UNCHANGED <<txnActive, handles, prefixed, history>>

(***************************************************************************)
(* Op 3 and 4: lock the current row, write or delete it, unlock it.  img   *)
(* is the new image, Absent for a delete.                                  *)
(***************************************************************************)
NeedsPrefix(s, h) == h \notin prefixed[s]

Write(s, h, img) ==
    /\ At(s, "idle")
    /\ h \in handles[s]
    /\ lastRecnum[s][h] # NoPos
    /\ call' = [call EXCEPT ![s] =
                   [pc  |-> IF NeedsPrefix(s, h) THEN "prefix" ELSE "lock",
                    h   |-> h,
                    row |-> lastRecnum[s][h],
                    img |-> img]]
    /\ UNCHANGED <<serverVars, conn, txnActive, handles, lastRecnum, prefixed, history>>

\* get_lock_prefix: on SQL Server a query, elsewhere the table's name.
ResolvePrefix(s) ==
    /\ At(s, "prefix")
    /\ \/ /\ IF Backend = "mssql" THEN Connected(s) /\ Accepts(s) ELSE UNCHANGED conn
          /\ prefixed' = [prefixed EXCEPT ![s] = @ \cup {call[s].h}]
          /\ Go(s, "lock")
          /\ UNCHANGED serverVars
       \/ /\ Backend = "mssql"
          /\ Dropped(s)
          /\ Return(s)
          /\ UNCHANGED <<nextId, prefixed>>
    /\ UNCHANGED <<txnActive, handles, lastRecnum, history>>

\* Mutant: no lock is asked for.
LockNotTaken(s) == Connected(s) /\ UNCHANGED serverVars /\ Go(s, "exec")

LockGranted(s) ==
    /\ IF Backend = "sqlite"
       THEN UNCHANGED <<serverVars, conn>>
       ELSE Connected(s) /\ TakeAppLock(s, call[s].row)
    /\ Go(s, "exec")

\* Every error of the lock statement is reported as 43, record locked, a code
\* with_conn does not drop the connection for.  SQL Server does not wait for
\* the lock; Postgres waits until its deadlock detector gives up.
LockRefused(s) ==
    /\ \/ Backend = "mssql" /\ Connected(s) /\ UNCHANGED serverVars
          /\ appLock[call[s].row] \notin {Free, s}
       \/ Backend = "postgres" /\ Connected(s) /\ FailTxn(s)
       \/ Backend # "sqlite" /\ conn[s] # "live" /\ UNCHANGED <<serverVars, conn>>
    /\ Return(s)

LockRow(s) ==
    /\ At(s, "lock")
    /\ LockGranted(s) \/ LockRefused(s)
    /\ UNCHANGED <<txnActive, handles, lastRecnum, prefixed, history>>

\* The UPDATE or DELETE.  It succeeds when it finds no row to change.
Execute(s) ==
    LET r == call[s].row IN
    /\ At(s, "exec")
    /\ \/ /\ Connected(s)
          /\ Accepts(s)
          /\ IF r \in Row /\ db[r] # Absent
             THEN Put(s, r, call[s].img) /\ Acknowledge(s, r) /\ UNCHANGED nextId
             ELSE /\ r \in Row => ~Conflicts(s, r)
                  /\ UNCHANGED <<serverVars, history>>
       \/ Dropped(s) /\ UNCHANGED <<nextId, history>>
       \/ /\ conn[s] # "dead"
          /\ r \in Row /\ db[r] # Absent
          /\ ConnGone(s)
          /\ PutThenDisconnect(s, r, call[s].img)
          /\ UNCHANGED <<nextId, history>>
    /\ Go(s, "unlock")
    /\ UNCHANGED <<txnActive, handles, lastRecnum, prefixed>>

\* Mutant: the call returns without unlocking.
UnlockSkipped(s) ==
    /\ At(s, "unlock")
    /\ Return(s)
    /\ UNCHANGED <<serverVars, conn, txnActive, handles, lastRecnum, prefixed, history>>

\* unlock_row, whose result is ignored.  Releasing a lock the connection does
\* not own is an error on SQL Server, so a failed write drops a second
\* connection; on Postgres it is a warning.
Unlock(s) ==
    /\ At(s, "unlock")
    /\ \/ Backend = "sqlite" /\ UNCHANGED <<serverVars, conn>>
       \/ Backend # "sqlite" /\ Connected(s) /\ ReleaseAppLock(s, call[s].row)
       \/ /\ Backend = "postgres"
          /\ Connected(s)
          /\ Accepts(s)
          /\ appLock[call[s].row] # s
          /\ UNCHANGED serverVars
       \/ Backend # "sqlite" /\ Dropped(s) /\ UNCHANGED nextId
    /\ Return(s)
    /\ UNCHANGED <<txnActive, handles, lastRecnum, prefixed, history>>

-----------------------------------------------------------------------------
\* The server closes a connection; the driver finds out at its next statement.
ConnectionLost(s) ==
    /\ conn[s] = "live"
    /\ conn' = [conn EXCEPT ![s] = "dead"]
    /\ Disconnect(s)
    /\ UNCHANGED <<nextId, txnActive, handles, lastRecnum, prefixed, call, history>>

\* The DOS session ends, at any point of a call, and a new one starts.
Restart(s) ==
    /\ Dropped(s)
    /\ txnActive'  = [txnActive EXCEPT ![s] = FALSE]
    /\ handles'    = [handles EXCEPT ![s] = {}]
    /\ lastRecnum' = [lastRecnum EXCEPT ![s] = [h \in Handle |-> NoPos]]
    /\ prefixed'   = [prefixed EXCEPT ![s] = {}]
    /\ Return(s)
    /\ Begun(s, 0)
    /\ UNCHANGED nextId

HandleOp(s, h) ==
    \/ Open(s, h) \/ Close(s, h) \/ Read(s, h) \/ Reset(s, h)
    \/ \E v \in Val : Insert(s, h, v)
    \/ \E img \in Image : Write(s, h, img)

TxnOp(s) ==
    \/ \E op \in {19, 1019} : BeginTran(s, op)
    \/ EndTran(s) \/ AbortTran(s) \/ Stop(s)

CallStep(s) ==
    \/ InsertId(s) \/ ResolvePrefix(s) \/ LockRow(s) \/ Execute(s) \/ Unlock(s)

Next ==
    \E s \in Session :
        \/ \E h \in Handle : HandleOp(s, h)
        \/ TxnOp(s)
        \/ CallStep(s)
        \/ ConnectionLost(s)
        \/ Restart(s)

Spec == Init /\ [][Next]_vars

-----------------------------------------------------------------------------
Call == {NoCall} \cup [pc : Pc \ {"idle"}, h : Handle, row : RecNum, img : Image]

(***************************************************************************)
(* The types of the driver's state: sql.rs's statics, the handle table and *)
(* the call in progress.                                                   *)
(***************************************************************************)
TypeOK ==
    /\ ServerTypeOK
    /\ conn \in [Session -> {"none", "live", "dead"}]
    /\ txnActive \in [Session -> BOOLEAN]
    /\ handles \in [Session -> SUBSET Handle]
    /\ lastRecnum \in [Session -> [Handle -> RecNum \cup {NoPos}]]
    /\ prefixed \in [Session -> SUBSET Handle]
    /\ call \in [Session -> Call]
    /\ acked \in [Session -> SUBSET Row]
    /\ begun \in [Session -> {0, 19, 1019}]
    /\ relied \in [Session -> SUBSET Row]

(***************************************************************************)
(* A transaction the server holds open is one the driver knows of and can  *)
(* still end: whatever path a connection, a commit or a restart takes, no  *)
(* session is left with an open transaction and a cleared TXN_ACTIVE.      *)
(***************************************************************************)
OpenTxnIsFlagged ==
    \A s \in Session : txn[s] # "none" => conn[s] = "live" /\ txnActive[s]

(***************************************************************************)
(* No application lock outlives the Update or Delete that took it, on any  *)
(* error path: a lock held is the lock of a call still in progress.        *)
(***************************************************************************)
LocksHeldByCalls ==
    \A n \in RecNum, s \in Session :
        appLock[n] = s => /\ Backend # "sqlite"
                          /\ conn[s] = "live"
                          /\ call[s].pc \in {"exec", "unlock"}
                          /\ call[s].row = n

(***************************************************************************)
(* Two sessions are never both about to write the same row over a working  *)
(* connection: lock_row excludes one of them, and a session that lost its  *)
(* connection, and so its lock, between the lock and the statement fails.  *)
(***************************************************************************)
Writing(s, n) == call[s].pc = "exec" /\ conn[s] # "dead" /\ call[s].row = n

OneWriterPerRow ==
    Backend # "sqlite" =>
        \A n \in RecNum : \A s, t \in Session :
            Writing(s, n) /\ Writing(t, n) => s = t

(***************************************************************************)
(* While the server has a session's transaction open, the writes the       *)
(* caller was told of since its Begin are exactly the writes End will make *)
(* permanent and Abort will undo.                                          *)
(***************************************************************************)
TransactionKeepsItsWrites ==
    \A s \in Session : InTxn(s) => acked[s] = Dirty(s)

(***************************************************************************)
(* The inductive invariant the proofs rest on.  The last two parts are     *)
(* what the others need: a call that is about to write holds its row's     *)
(* lock or has lost its connection, and a transaction's before-images live *)
(* no longer than it and never overlap another's.                          *)
(***************************************************************************)
WritesUnderLock ==
    \A s \in Session :
        call[s].pc = "exec" /\ Backend # "sqlite" =>
            \/ conn[s] = "dead"
            \/ conn[s] = "live" /\ appLock[call[s].row] = s

UndoBelongsToTxn ==
    /\ \A s \in Session : ~InTxn(s) => Dirty(s) = {}
    /\ \A s, t \in Session : \A r \in Dirty(s) \cap Dirty(t) : s = t

IInv ==
    /\ TypeOK
    /\ OpenTxnIsFlagged
    /\ LocksHeldByCalls
    /\ TransactionKeepsItsWrites
    /\ \A s \in Session : InTxn(s) => begun[s] # 0
    /\ WritesUnderLock
    /\ UndoBelongsToTxn

(***************************************************************************)
(* A record read inside an exclusive transaction (op 19) on SQL Server is  *)
(* not changed by anybody else until that transaction is over.             *)
(***************************************************************************)
ExclusiveReadsStable ==
    [][\A s \in Session : \A r \in relied[s] :
          Backend = "mssql" /\ InTxn(s) /\ db'[r] # db[r]
              => r \in Dirty(s) \cup Dirty(s)']_vars

(***************************************************************************)
(* The sessions together implement the transactional store.                *)
(***************************************************************************)
Draft == [s \in Session |-> [r \in Row |-> IF r \in Dirty(s) THEN db[r] ELSE Clean]]

Store == INSTANCE TxnStore WITH
    stable <- [r \in Row |-> Committed(r)],
    draft  <- Draft,
    inTxn  <- {s \in Session : InTxn(s)}

ImplementsTxnStore == Store!StoreSpec

-----------------------------------------------------------------------------
(***************************************************************************)
(* A statement the sources make of the driver that its steps contradict:   *)
(* a run finds the contradiction.                                          *)
(***************************************************************************)

\* txn.rs on op 19: all later writes "become atomic until End Transaction (20)
\* or Abort Transaction (21)".  After any SQL error the earlier writes are
\* undone and the later ones are permanent at once.
AtomicUntilEnd ==
    \A s \in Session : begun[s] # 0 => acked[s] \subseteq Dirty(s)
=============================================================================
