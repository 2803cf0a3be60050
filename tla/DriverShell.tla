----------------------------- MODULE DriverShell -----------------------------
(***************************************************************************)
(* The shell around the operations: initialisation on the first call, the  *)
(* exported init and stop, the dispatch of operation codes, Stat and Stat  *)
(* Extended (wxbtrv-core ops/mod.rs, opcodes.rs, stat.rs, wxbtrv           *)
(* exports_misc.rs).                                                       *)
(* Several threads call at a time: each step below is what happens between *)
(* two atomic accesses, locks or statements.                               *)
(***************************************************************************)
EXTENDS Integers, Sequences, FiniteSets

CONSTANTS
    Thread,
    Codes,      \* operation codes the application calls
    Capacity,   \* lengths of the buffer it passes to Stat
    NumIndexes, \* the indexes of the open file
    SegmentIndex,   \* for each of their segments, in order, its index
    Row,        \* rows the file may have
    KeyOf,      \* the key of each of them, the same on every index
    CountRange, \* INIT_COUNT counts modulo this (2^32)
    MaxCalls,   \* bound: calls begun
    None

ASSUME ShellAssumption ==
    /\ CountRange \in Nat \ {0}
    /\ NumIndexes \in Nat /\ SegmentIndex \in Seq(1..NumIndexes)
    /\ IsFiniteSet(Row) /\ None \notin Nat
    /\ Capacity \subseteq Nat /\ Codes \subseteq Nat

VARIABLES
    IS_INITIALIZED,
    INIT_COUNT,
    loaded,     \* history: wxbtrv.db has been read, with tables or without
    records,    \* the rows of the file
    thread,     \* what each thread is doing
    calls,
    counted     \* history: for a thread in Stat, what there was to count since
                \* the call began

init == <<IS_INITIALIZED, INIT_COUNT, loaded>>
vars == <<init, records, thread, calls, counted>>

-----------------------------------------------------------------------------
(***************************************************************************)
(* Operation codes.                                                        *)
(***************************************************************************)
\* The table of operations, by what each entry's status says.
FirstOps == (0..15) \cup (17..20)
LaterOps == (21..40) \cup {42, 44, 45, 53, 65}
KeyOnlyOps == 55..63
Implemented == FirstOps \cup LaterOps \cup KeyOnlyOps \cup {1019}

BaseOpcode(op) == op % 100

\* Entries of the table, by the code itself or else without its biases.
OpcodeInfo(op) ==
    CASE op \in Implemented \cup {16} -> op
      [] op \notin Implemented \cup {16} /\ BaseOpcode(op) \in Implemented \cup {16} -> BaseOpcode(op)
      [] OTHER -> None

\* Nothing in the table is a stub that succeeds.
StubStatus(op) == 20

\* Mutant: the last of the lock biases is forgotten.
StripThree(op) == IF op \in 100..399 THEN op % 100 ELSE op

\* Lock biases are stripped, +500 is not.
Strip(op) == IF op \in 100..499 THEN op % 100 ELSE op

\* Get Key takes its bias off the code as it was called.
GetKeyBase(op) == IF op - 50 \in 5..13 THEN op - 50 ELSE None

\* The operation whose handler a code reaches, None where it is refused.
Handler(op) ==
    CASE op = 1019 -> 1019
      [] op = 16 -> None
      [] op \notin {16, 1019} /\ Strip(op) \in KeyOnlyOps -> GetKeyBase(op)
      [] op \notin {16, 1019} /\ Strip(op) \in (FirstOps \cup LaterOps) -> Strip(op)
      [] OTHER -> None

-----------------------------------------------------------------------------
Idle == [at |-> "idle", op |-> None, rc |-> 0, cap |-> 0, count |-> None,
         reply |-> <<>>, ix |-> 0]

To(t, at) == thread' = [thread EXCEPT ![t] = [@ EXCEPT !.at = at]]
Return(t, rc) == thread' = [thread EXCEPT ![t] = [@ EXCEPT !.at = "returned", !.rc = rc]]

Begin(t, new) ==
    /\ thread[t].at = "idle"
    /\ calls < MaxCalls
    /\ calls' = calls + 1
    /\ thread' = [thread EXCEPT ![t] = new]
    /\ UNCHANGED <<init, records, counted>>

\* The caller reads its results and goes on.
Continue(t) ==
    /\ thread[t].at = "returned"
    /\ thread' = [thread EXCEPT ![t] = Idle]
    /\ counted' = [counted EXCEPT ![t] = {}]
    /\ UNCHANGED <<init, records, calls>>

(***************************************************************************)
(* Initialisation and stop.                                                *)
(***************************************************************************)
\* ensure_init looks at the flag, then loads, counts and sets it.
Call(t) ==
    \E op \in Codes : \E cap \in IF Handler(op) \in {15, 65} THEN Capacity ELSE {0} :
        Begin(t, [Idle EXCEPT !.op = op, !.cap = cap,
                              !.at = IF IS_INITIALIZED THEN "dispatch" ELSE "load"])

ShellInit(t) == Begin(t, [Idle EXCEPT !.at = "load"])

\* Mutant: the flag is set while wxbtrv.db is still to be read.
FlagFirst(t) == IS_INITIALIZED' = TRUE

\* Nothing but the flag's own step sets it.
FlagMeanwhile(t) == UNCHANGED IS_INITIALIZED

Load(t) ==
    /\ thread[t].at = "load"
    /\ FlagMeanwhile(t)
    /\ To(t, "loading")
    /\ UNCHANGED <<INIT_COUNT, loaded, records, calls, counted>>

\* Without tables the exported init fails; a call goes on all the same.
Preload(t) ==
    /\ thread[t].at = "loading"
    /\ loaded' = TRUE
    /\ \/ To(t, "count")
       \/ IF thread[t].op = None THEN Return(t, 18002) ELSE To(t, "count")
    /\ UNCHANGED <<IS_INITIALIZED, INIT_COUNT, records, calls, counted>>

CountUp(t) ==
    /\ thread[t].at = "count"
    /\ INIT_COUNT' = (INIT_COUNT + 1) % CountRange
    /\ To(t, "flag")
    /\ UNCHANGED <<IS_INITIALIZED, loaded, records, calls, counted>>

SetFlag(t) ==
    /\ thread[t].at = "flag"
    /\ IS_INITIALIZED' = TRUE
    /\ IF thread[t].op = None THEN Return(t, 0) ELSE To(t, "dispatch")
    /\ UNCHANGED <<INIT_COUNT, loaded, records, calls, counted>>

\* WBTRVIDSTOP reads the count, takes one off if there was one, reads it again.
Stop(t) == Begin(t, [Idle EXCEPT !.at = IF INIT_COUNT > 0 THEN "countDown" ELSE "stopping"])

CountDown(t) ==
    /\ thread[t].at = "countDown"
    /\ INIT_COUNT' = (INIT_COUNT + CountRange - 1) % CountRange
    /\ To(t, "stopping")
    /\ UNCHANGED <<IS_INITIALIZED, loaded, records, calls, counted>>

Stopped(t) ==
    /\ thread[t].at = "stopping"
    /\ IF INIT_COUNT = 0 THEN To(t, "unflag") ELSE Return(t, 0)
    /\ UNCHANGED <<init, records, calls, counted>>

ClearFlag(t) ==
    /\ thread[t].at = "unflag"
    /\ IS_INITIALIZED' = FALSE
    /\ Return(t, 0)
    /\ UNCHANGED <<INIT_COUNT, loaded, records, calls, counted>>

-----------------------------------------------------------------------------
(***************************************************************************)
(* Dispatch; Stat (15) and Stat Extended (65, where its buffer asks for    *)
(* file statistics) of the open file, statement by statement.  The other   *)
(* operations are the subject of other modules.                            *)
(***************************************************************************)
Counts == [records |-> Cardinality(records),
           unique |-> Cardinality({KeyOf[r] : r \in records})]

\* The handle may be closed, which Stat does not report; Stat Extended may be
\* asked for something else.
Dispatch(t) ==
    /\ thread[t].at = "dispatch"
    /\ LET h == Handler(thread[t].op)
       IN \/ h = None /\ Return(t, StubStatus(thread[t].op)) /\ UNCHANGED counted
          \/ h \notin {15, 65, None} /\ Return(t, 0) /\ UNCHANGED counted
          \/ h = 15 /\ Return(t, 0) /\ UNCHANGED counted
          \/ h = 65 /\ thread[t].cap = 0 /\ Return(t, 22) /\ UNCHANGED counted
          \/ h = 65 /\ (\E rc \in {0, 3, 62} : Return(t, rc)) /\ UNCHANGED counted
          \/ h \in {15, 65} /\ thread[t].cap > 0 /\ To(t, "stat")
             /\ counted' = [counted EXCEPT ![t] = {Counts}]
    /\ UNCHANGED <<init, records, calls>>

\* A spec for each segment.
Segments == DOMAIN SegmentIndex
Fits(cap, s, bytes) == 16 * s + bytes <= cap

\* A count that cannot be read is reported as none.
Answers(n) == {n, 0}

Stat(t) ==
    /\ thread[t].at = "stat"
    /\ thread[t].cap >= 12
    /\ \E n \in Answers(Counts.records) :
        thread' = [thread EXCEPT ![t] = [@ EXCEPT
            !.count = n,
            !.reply = [s \in Segments |-> IF Fits(thread[t].cap, s, 16) THEN n ELSE None],
            !.ix = 1,
            !.at = IF Handler(thread[t].op) = 65 /\ NumIndexes > 0 THEN "unique" ELSE "returned"]]
    /\ UNCHANGED <<init, records, calls, counted>>

\* Mutant: the specs keep the record count.
PatchedNot(t, n) == thread[t].reply

\* The count goes where its four bytes fit, the rest of the spec or not.
Patched(t, n) ==
    [s \in Segments |->
        IF SegmentIndex[s] = thread[t].ix /\ Fits(thread[t].cap, s, 10) THEN n
        ELSE thread[t].reply[s]]

\* The handle is looked up again; then one statement for each index.
Closed(t) ==
    /\ thread[t].at = "unique"
    /\ thread[t].ix = 1
    /\ Return(t, 3)
    /\ UNCHANGED <<init, records, calls, counted>>

Unique(t) ==
    /\ thread[t].at = "unique"
    /\ \E n \in Answers(Counts.unique) :
        thread' = [thread EXCEPT ![t] = [@ EXCEPT
            !.reply = Patched(t, n),
            !.ix = thread[t].ix + 1,
            !.at = IF thread[t].ix = NumIndexes THEN "returned" ELSE "unique"]]
    /\ UNCHANGED <<init, records, calls, counted>>

\* A buffer shorter than the header takes the process down (stat.rs:82).
Abort(t) ==
    /\ thread[t].at = "stat"
    /\ thread[t].cap < 12
    /\ thread' = [u \in Thread |-> [Idle EXCEPT !.at = "gone"]]
    /\ UNCHANGED <<init, records, calls, counted>>

\* Other sessions insert and delete; only Stat looks.
OthersWrite ==
    /\ \E t \in Thread : thread[t].at \in {"stat", "unique"}
    /\ \E r \in Row : \/ r \notin records /\ records' = records \cup {r}
                      \/ r \in records /\ records' = records \ {r}
    /\ counted' = [t \in Thread |-> IF thread[t].at \in {"stat", "unique"}
                                    THEN counted[t] \cup {Counts'} ELSE counted[t]]
    /\ UNCHANGED <<init, thread, calls>>

-----------------------------------------------------------------------------
Init ==
    /\ IS_INITIALIZED = FALSE
    /\ INIT_COUNT = 0
    /\ loaded = FALSE
    /\ records \in SUBSET Row
    /\ thread = [t \in Thread |-> Idle]
    /\ calls = 0
    /\ counted = [t \in Thread |-> {}]

Step(t) ==
    \/ Call(t) \/ ShellInit(t) \/ Load(t) \/ Preload(t) \/ CountUp(t) \/ SetFlag(t)
    \/ Stop(t) \/ CountDown(t) \/ Stopped(t) \/ ClearFlag(t)
    \/ Dispatch(t) \/ Stat(t) \/ Closed(t) \/ Unique(t) \/ Abort(t)
    \/ Continue(t)

Next == OthersWrite \/ \E t \in Thread : Step(t)

Spec == Init /\ [][Next]_vars

-----------------------------------------------------------------------------
(***************************************************************************)
(* Properties.                                                             *)
(***************************************************************************)
\* No operation runs before wxbtrv.db has been read, whichever thread does it
\* and however inits and stops of others come between: a thread that finds the
\* flag set may rely on the tables.
TablesBeforeCalls ==
    \A t \in Thread : thread[t].at \in {"dispatch", "stat", "unique"} => loaded

\* What Stat and Stat Extended say was so at some moment of the call, or is 0
\* where the server would not say: the count of records, in the specs of the
\* segments the count of records or, extended, of different keys of their
\* index, although other sessions write between the statements.
StatTellsWhatWas ==
    \A t \in Thread :
        thread[t].at = "returned" /\ thread[t].rc = 0 /\ thread[t].count # None =>
            /\ thread[t].count \in {0} \cup {c.records : c \in counted[t]}
            /\ \A s \in Segments :
                /\ Fits(thread[t].cap, s, 16) => thread[t].reply[s] # None
                /\ thread[t].reply[s] \in
                    IF Handler(thread[t].op) = 15 THEN {None, thread[t].count}
                    ELSE {None, 0} \cup {c.unique : c \in counted[t]}

\* A code the table of operations has reaches the handler of that operation,
\* with each of the four lock biases too, but Get Key, which refuses them.
BiasedCodesAreHandled ==
    \A t \in Thread : thread[t].op # None /\ thread[t].at = "returned" =>
        LET op == thread[t].op
        IN  op \in 0..499 /\ OpcodeInfo(op) \in Implemented \ KeyOnlyOps =>
                /\ Handler(op) = OpcodeInfo(op)
                /\ thread[t].rc # 20
=============================================================================
