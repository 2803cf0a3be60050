--------------------------- MODULE BtrSessionLive ---------------------------
(***************************************************************************)
(* What has to happen: under the fairness the driver, the server and the   *)
(* application provide, a call that has begun returns.                     *)
(***************************************************************************)
EXTENDS BtrSession

CONSTANT Begins     \* the opcodes the sessions begin their transactions with

ASSUME BeginsAssumption == Begins \subseteq {19, 1019}

\* s is in the middle of a statement that waits for what t holds: the
\* application lock on Postgres, where lock_row passes no time limit, or the
\* row written or read in t's transaction.
WaitsFor(s, t) ==
    /\ s # t
    /\ conn[s] = "live"
    /\ \/ Backend = "postgres" /\ At(s, "lock") /\ appLock[call[s].row] = t
       \/ At(s, "exec") /\ call[s].row \in Dirty(t) \cup shared[t]

\* s waits in a circle of sessions, or for one.
Deadlocked(s) ==
    \E D \in SUBSET Session : s \in D /\ \A t \in D : \E u \in D : WaitsFor(t, u)

\* A statement that cannot succeed: the connection is gone, the transaction
\* has failed, the lock to release is not held, or the server's deadlock
\* detector ends the wait.
Fails(s) ==
    \/ conn[s] = "dead"
    \/ ~Accepts(s)
    \/ Backend = "mssql" /\ At(s, "unlock") /\ appLock[call[s].row] # s
    \/ Deadlocked(s)

\* The steps that answer no statement of the call over the connection.
NoStatement(s) ==
    \/ Backend # "mssql" /\ At(s, "prefix")
    \/ Backend = "sqlite" /\ (At(s, "lock") \/ At(s, "unlock"))

\* The call's next step, where it either succeeds or has a reason to fail: a
\* statement that waits is not answered, and none is made to fail by chance.
Answered(s) ==
    \/ /\ InsertId(s) \/ ResolvePrefix(s) \/ Execute(s) \/ Unlock(s)
       /\ conn'[s] = "live" \/ NoStatement(s) \/ Fails(s)
    \/ /\ LockRow(s)
       /\ LockGranted(s) \/ Backend = "mssql" \/ Fails(s)

(***************************************************************************)
(* The driver runs a call to its end and the server answers what it can,   *)
(* granting locks in the order they were asked for: strong fairness, for   *)
(* what a statement waits for may be taken again before it is its turn.    *)
(* The application ends the transactions it begins.                        *)
(***************************************************************************)
CallsAreAnswered  == \A s \in Session : SF_vars(Answered(s))
TransactionsEnd   == \A s \in Session : SF_vars(EndTran(s) \/ AbortTran(s))

(***************************************************************************)
(* The steps of BtrSession that take, wait for or give back a lock.  Left  *)
(* out, to keep the graph small: Close, Reset and Stop, which a session    *)
(* does between calls, and Restart, after which no call is in progress.    *)
(***************************************************************************)
LockingStep(s) ==
    \/ \E h \in Handle :
          \/ Open(s, h) \/ Read(s, h)
          \/ \E v \in Val : Insert(s, h, v)
          \/ \E img \in Image : Write(s, h, img)
    \/ \E op \in Begins : BeginTran(s, op)
    \/ EndTran(s) \/ AbortTran(s)
    \/ CallStep(s)
    \/ ConnectionLost(s)

LiveNext == \E s \in Session : LockingStep(s)

FairSpec ==
    /\ Init /\ [][LiveNext]_vars
    /\ CallsAreAnswered
    /\ TransactionsEnd

(***************************************************************************)
(* Every Insert, Update or Delete returns, although lock_row waits without *)
(* a time limit on Postgres and the statement waits for the transactions   *)
(* of other sessions on every server: the locks a call leaves behind, on   *)
(* any of its error paths, keep no other call waiting for ever.            *)
(***************************************************************************)
EveryCallReturns ==
    \A s \in Session : ~At(s, "idle") ~> At(s, "idle")
=============================================================================
