-------------------------- MODULE DriverShellProofs --------------------------
(***************************************************************************)
(* Proofs about DriverShell, for any number of threads, operation codes,   *)
(* buffers, indexes and rows.                                              *)
(***************************************************************************)
EXTENDS DriverShell, FiniteSetTheorems, TLAPS

-----------------------------------------------------------------------------
(***************************************************************************)
(* Types.                                                                  *)
(***************************************************************************)
Places ==
    {"idle", "load", "loading", "count", "flag", "dispatch", "stat", "unique",
     "returned", "countDown", "stopping", "unflag", "gone"}

Working == [at : Places, op : Codes \cup {None}, rc : Nat, cap : Nat,
            count : Nat \cup {None}, reply : {<<>>} \cup [Segments -> Nat \cup {None}],
            ix : Nat]

CountPairs == [records : Nat, unique : Nat]

ShellTypes ==
    /\ IS_INITIALIZED \in BOOLEAN
    /\ loaded \in BOOLEAN
    /\ records \in SUBSET Row
    /\ thread \in [Thread -> Working]
    /\ counted \in [Thread -> SUBSET CountPairs]

Underway == {"count", "flag", "dispatch", "stat", "unique"}

(***************************************************************************)
(* What a thread w in Stat has written so far, when C is what there was to *)
(* count: the specs of the indexes done, and those still to come.          *)
(***************************************************************************)
SpecDone(w, C, s) ==
    /\ Fits(w.cap, s, 16) => w.reply[s] # None
    /\ w.reply[s] \in {None, 0} \cup {c.unique : c \in C}

SpecToCome(w, s) == w.reply[s] = IF Fits(w.cap, s, 16) THEN w.count ELSE None

Written(w, C) ==
    /\ w.count \in {0} \cup {c.records : c \in C}
    /\ w.reply \in [Segments -> Nat \cup {None}]

\* In Stat Extended, before the statement for index w.ix.
HalfWay(w, C) ==
    /\ Handler(w.op) = 65
    /\ w.ix \in 1..NumIndexes
    /\ Written(w, C)
    /\ \A s \in Segments :
        IF SegmentIndex[s] < w.ix THEN SpecDone(w, C, s) ELSE SpecToCome(w, s)

\* When it is done.
Complete(w, C) ==
    /\ w.count \in {0} \cup {c.records : c \in C}
    /\ \A s \in Segments :
        /\ Fits(w.cap, s, 16) => w.reply[s] # None
        /\ w.reply[s] \in IF Handler(w.op) = 15 THEN {None, w.count}
                          ELSE {None, 0} \cup {c.unique : c \in C}

(***************************************************************************)
(* A thread w, when the file has n to count and there is whether tables    *)
(* have been read: they are once it counts, sets the flag or goes on; 20   *)
(* is for codes without a handler.                                         *)
(***************************************************************************)
ThreadOk(w, C, n, there) ==
    /\ w.at \in Underway => there
    /\ w.op # None /\ w.rc = 20 => Handler(w.op) = None
    /\ w.at \in {"stat", "unique"} => n \in C
    /\ w.at = "stat" => Handler(w.op) \in {15, 65}
    /\ w.at \notin {"unique", "returned"} => w.count = None
    /\ w.at = "unique" => HalfWay(w, C)
    /\ w.at = "returned" /\ w.rc = 0 /\ w.count # None => Complete(w, C)

ShellIInv ==
    /\ ShellTypes
    /\ IS_INITIALIZED => loaded
    /\ \A t \in Thread : ThreadOk(thread[t], counted[t], Counts, loaded)

-----------------------------------------------------------------------------
(***************************************************************************)
(* A code of the table, other than a Get Key, reaches its operation: taking *)
(* the base of a code and taking off its lock bias are the same below 500. *)
(***************************************************************************)
LEMMA TableCodes ==
    /\ Implemented \subseteq Nat
    /\ None \notin Implemented
    /\ 16 \notin Implemented
    /\ \A op \in 100..499 : op \notin Implemented
    /\ \A op \in Implemented \ KeyOnlyOps : op # 1019 => op \in FirstOps \cup LaterOps
    /\ \A op \in FirstOps \cup LaterOps : op \notin KeyOnlyOps /\ op < 100
<1>1. \A op \in FirstOps \cup LaterOps : op \in Nat /\ op \notin KeyOnlyOps /\ op < 100
  BY DEF FirstOps, LaterOps, KeyOnlyOps
<1>2. \A op \in KeyOnlyOps : op \in Nat /\ op < 100
  BY DEF KeyOnlyOps
<1>3. Implemented \subseteq Nat /\ \A op \in 100..499 : op \notin Implemented
  BY <1>1, <1>2 DEF Implemented
<1>4. None \notin Implemented
  BY <1>3, ShellAssumption
<1>5. 16 \notin Implemented
  BY DEF Implemented, FirstOps, LaterOps, KeyOnlyOps
<1> QED
  BY <1>1, <1>3, <1>4, <1>5 DEF Implemented

LEMMA CodesReachHandlers ==
    ASSUME NEW op \in 0..499, OpcodeInfo(op) \in Implemented \ KeyOnlyOps
    PROVE  Handler(op) = OpcodeInfo(op) /\ Handler(op) # None
<1>1. CASE op < 100
  <2>1. Strip(op) = op /\ BaseOpcode(op) = op
    BY <1>1 DEF Strip, BaseOpcode
  <2>2. OpcodeInfo(op) = op
    BY <2>1, TableCodes DEF OpcodeInfo
  <2>3. op \notin {16, 1019} /\ op \in FirstOps \cup LaterOps /\ op \notin KeyOnlyOps
    BY <1>1, <2>2, TableCodes
  <2>4. Handler(op) = op
    BY <2>1, <2>3 DEF Handler
  <2> QED
    BY <2>2, <2>4, TableCodes
<1>2. CASE op >= 100
  <2>1. Strip(op) = op % 100 /\ BaseOpcode(op) = op % 100 /\ op % 100 \in 0..99
    BY <1>2 DEF Strip, BaseOpcode
  <2>2. op \notin Implemented \cup {16}
    BY <1>2, TableCodes
  <2>3. OpcodeInfo(op) = op % 100
    BY <2>1, <2>2, TableCodes DEF OpcodeInfo
  <2>4. op % 100 \in FirstOps \cup LaterOps /\ op % 100 \notin KeyOnlyOps
    BY <2>1, <2>3, TableCodes
  <2>5. op # 1019
    OBVIOUS
  <2>6. op # 16
    BY <1>2
  <2>7. Handler(op) = op % 100
    BY <2>1, <2>4, <2>5, <2>6 DEF Handler
  <2> QED
    BY <2>3, <2>7, TableCodes
<1> QED
  BY <1>1, <1>2

LEMMA Counted ==
    ASSUME NEW R \in SUBSET Row
    PROVE  Cardinality(R) \in Nat /\ Cardinality({KeyOf[r] : r \in R}) \in Nat
<1>1. IsFiniteSet(R) /\ Cardinality(R) \in Nat
  BY ShellAssumption, FS_Subset, FS_CardinalityType
<1> DEFINE keys == {KeyOf[r] : r \in R}
           f == [r \in R |-> KeyOf[r]]
<1>2. f \in Surjection(R, keys)
  BY DEF Surjection
<1>3. IsFiniteSet(keys)
  BY <1>1, <1>2, FS_Surjection
<1> QED
  BY <1>1, <1>3, FS_CardinalityType

LEMMA CountsType == ASSUME records \in SUBSET Row PROVE Counts \in CountPairs
  BY Counted DEF Counts, CountPairs

-----------------------------------------------------------------------------
(***************************************************************************)
(* Types.                                                                  *)
(***************************************************************************)
LEMMA IdleWorks == Idle \in Working
  BY DEF Idle, Working, Places

LEMMA BeginTypes ==
    ASSUME ShellTypes, NEW t \in Thread, NEW new \in Working, Begin(t, new)
    PROVE  ShellTypes'
  BY DEF ShellTypes, Begin, init

LEMMA BeginMoves ==
    ASSUME ShellTypes, NEW t \in Thread, NEW new, Begin(t, new)
    PROVE  /\ thread'[t] = new
           /\ \A u \in Thread : u # t => thread'[u] = thread[u]
           /\ UNCHANGED <<IS_INITIALIZED, INIT_COUNT, loaded, records, counted>>
  BY DEF ShellTypes, Begin, init

LEMMA Moved ==
    ASSUME ShellTypes, NEW t \in Thread, NEW w \in Working,
           thread' = [thread EXCEPT ![t] = w]
    PROVE  /\ thread' \in [Thread -> Working]
           /\ thread'[t] = w
           /\ \A u \in Thread : u # t => thread'[u] = thread[u]
  BY DEF ShellTypes

LEMMA WentTo ==
    ASSUME ShellTypes, NEW t \in Thread, NEW at \in Places, To(t, at)
    PROVE  /\ thread' \in [Thread -> Working]
           /\ thread'[t] = [thread[t] EXCEPT !.at = at]
           /\ \A u \in Thread : u # t => thread'[u] = thread[u]
<1> DEFINE w == [thread[t] EXCEPT !.at = at]
<1>1. thread[t] \in Working
  BY DEF ShellTypes
<1>2. w \in Working
  BY <1>1 DEF Working
<1>3. thread' = [thread EXCEPT ![t] = w]
  BY DEF To
<1> QED
  BY <1>2, <1>3, Moved

LEMMA Returned ==
    ASSUME ShellTypes, NEW t \in Thread, NEW rc \in Nat, Return(t, rc)
    PROVE  /\ thread' \in [Thread -> Working]
           /\ thread'[t] = [thread[t] EXCEPT !.at = "returned", !.rc = rc]
           /\ \A u \in Thread : u # t => thread'[u] = thread[u]
<1> DEFINE w == [thread[t] EXCEPT !.at = "returned", !.rc = rc]
<1>1. thread[t] \in Working
  BY DEF ShellTypes
<1>2. w \in Working
  BY <1>1 DEF Working, Places
<1>3. thread' = [thread EXCEPT ![t] = w]
  BY DEF Return
<1> QED
  BY <1>2, <1>3, Moved

(***************************************************************************)
(* What the two statements of Stat write.                                  *)
(***************************************************************************)
LEMMA StatMoves ==
    ASSUME ShellTypes, NEW t \in Thread, Stat(t)
    PROVE  \E n \in {Counts.records, 0} :
              LET w == [thread[t] EXCEPT
                        !.count = n,
                        !.reply = [s \in Segments |-> IF Fits(thread[t].cap, s, 16) THEN n ELSE None],
                        !.ix = 1,
                        !.at = IF Handler(thread[t].op) = 65 /\ NumIndexes > 0
                               THEN "unique" ELSE "returned"]
              IN  n \in Nat /\ w \in Working /\ thread' = [thread EXCEPT ![t] = w]
<1>1. Counts.records \in Nat
  BY CountsType DEF ShellTypes, CountPairs
<1>2. PICK n \in {Counts.records, 0} :
        thread' = [thread EXCEPT ![t] = [thread[t] EXCEPT
            !.count = n,
            !.reply = [s \in Segments |-> IF Fits(thread[t].cap, s, 16) THEN n ELSE None],
            !.ix = 1,
            !.at = IF Handler(thread[t].op) = 65 /\ NumIndexes > 0 THEN "unique" ELSE "returned"]]
  BY DEF Stat, Answers
<1> DEFINE reply == [s \in Segments |-> IF Fits(thread[t].cap, s, 16) THEN n ELSE None]
<1>3. n \in Nat
  BY <1>1
<1>4. reply \in [Segments -> Nat \cup {None}]
  BY <1>3
<1>5. thread[t] \in Working
  BY DEF ShellTypes
<1> HIDE DEF reply
<1>6. [thread[t] EXCEPT !.count = n, !.reply = reply, !.ix = 1,
        !.at = IF Handler(thread[t].op) = 65 /\ NumIndexes > 0
               THEN "unique" ELSE "returned"] \in Working
  BY <1>3, <1>4, <1>5 DEF Working, Places
<1> QED
  BY <1>2, <1>3, <1>6 DEF reply

LEMMA UniqueMoves ==
    ASSUME ShellTypes, NEW t \in Thread, Unique(t),
           thread[t].reply \in [Segments -> Nat \cup {None}]
    PROVE  \E n \in {Counts.unique, 0} :
              LET w == [thread[t] EXCEPT
                        !.reply = Patched(t, n),
                        !.ix = thread[t].ix + 1,
                        !.at = IF thread[t].ix = NumIndexes THEN "returned" ELSE "unique"]
              IN  n \in Nat /\ w \in Working /\ thread' = [thread EXCEPT ![t] = w]
<1>1. Counts.unique \in Nat
  BY CountsType DEF ShellTypes, CountPairs
<1>2. PICK n \in {Counts.unique, 0} :
        thread' = [thread EXCEPT ![t] = [thread[t] EXCEPT
            !.reply = Patched(t, n),
            !.ix = thread[t].ix + 1,
            !.at = IF thread[t].ix = NumIndexes THEN "returned" ELSE "unique"]]
  BY DEF Unique, Answers
<1>3. n \in Nat
  BY <1>1
<1>4. Patched(t, n) \in [Segments -> Nat \cup {None}]
  BY <1>3 DEF Patched
<1>5. thread[t] \in Working
  BY DEF ShellTypes
<1> DEFINE reply == Patched(t, n)
           next == thread[t].ix + 1
           at == IF thread[t].ix = NumIndexes THEN "returned" ELSE "unique"
<1>6. next \in Nat /\ at \in Places /\ reply \in [Segments -> Nat \cup {None}]
  BY <1>4, <1>5 DEF Working, Places
<1> HIDE DEF reply, next, at
<1>7. [thread[t] EXCEPT !.reply = reply, !.ix = next, !.at = at] \in Working
  BY <1>5, <1>6 DEF Working
<1> QED
  BY <1>2, <1>3, <1>7 DEF reply, next, at

LEMMA StepTypes ==
    ASSUME ShellTypes, NEW t \in Thread, Step(t),
           thread[t].at = "unique" => thread[t].reply \in [Segments -> Nat \cup {None}]
    PROVE  ShellTypes'
<1> USE DEF init
<1>0. /\ "loading" \in Places /\ "count" \in Places /\ "flag" \in Places
      /\ "dispatch" \in Places /\ "stat" \in Places /\ "stopping" \in Places
      /\ "unflag" \in Places
  BY DEF Places
<1>1. CASE Call(t)
  <2>1. PICK op \in Codes, cap \in Capacity \cup {0} :
            Begin(t, [Idle EXCEPT !.op = op, !.cap = cap,
                                  !.at = IF IS_INITIALIZED THEN "dispatch" ELSE "load"])
    BY <1>1 DEF Call
  <2>2. cap \in Nat
    BY ShellAssumption
  <2> DEFINE at == IF IS_INITIALIZED THEN "dispatch" ELSE "load"
  <2>3. at \in Places
    BY DEF Places
  <2> HIDE DEF at
  <2>4. [Idle EXCEPT !.op = op, !.cap = cap, !.at = at] \in Working
    BY <2>2, <2>3, IdleWorks DEF Working
  <2> QED
    BY <2>1, <2>4, BeginTypes DEF at
<1>2. CASE ShellInit(t)
  <2>1. [Idle EXCEPT !.at = "load"] \in Working
    BY IdleWorks DEF Working, Places
  <2> QED
    BY <1>2, <2>1, BeginTypes DEF ShellInit
<1>3. CASE Load(t)
  <2>1. thread' \in [Thread -> Working]
    BY <1>3, <1>0, WentTo DEF Load
  <2> QED
    BY <1>3, <2>1 DEF Load, FlagMeanwhile, ShellTypes
<1>4. CASE Preload(t)
  <2>1. To(t, "count") \/ Return(t, 18002)
    BY <1>4 DEF Preload
  <2>2. thread' \in [Thread -> Working]
    <3>1. CASE To(t, "count")
      BY <3>1, <1>0, WentTo
    <3>2. 18002 \in Nat
      OBVIOUS
    <3>3. CASE Return(t, 18002)
      <4>1. \A rc \in Nat : Return(t, rc) => thread' \in [Thread -> Working]
        BY Returned
      <4> QED
        BY <3>2, <3>3, <4>1
    <3> QED
      BY <2>1, <3>1, <3>3
  <2> QED
    BY <1>4, <2>2 DEF Preload, ShellTypes
<1>5. CASE CountUp(t)
  <2>1. thread' \in [Thread -> Working]
    BY <1>5, <1>0, WentTo DEF CountUp
  <2> QED
    BY <1>5, <2>1 DEF CountUp, ShellTypes
<1>6. CASE SetFlag(t)
  <2>1. To(t, "dispatch") \/ Return(t, 0)
    BY <1>6 DEF SetFlag
  <2>2. thread' \in [Thread -> Working]
    BY <2>1, <1>0, WentTo, Returned
  <2> QED
    BY <1>6, <2>2 DEF SetFlag, ShellTypes
<1>7. CASE Stop(t)
  <2> DEFINE at == IF INIT_COUNT > 0 THEN "countDown" ELSE "stopping"
  <2>1. at \in Places
    BY DEF Places
  <2> HIDE DEF at
  <2>2. [Idle EXCEPT !.at = at] \in Working
    BY <2>1, IdleWorks DEF Working
  <2> QED
    BY <1>7, <2>2, BeginTypes DEF Stop, at
<1>8. CASE CountDown(t)
  <2>1. thread' \in [Thread -> Working]
    BY <1>8, <1>0, WentTo DEF CountDown
  <2> QED
    BY <1>8, <2>1 DEF CountDown, ShellTypes
<1>9. CASE Stopped(t)
  <2>1. To(t, "unflag") \/ Return(t, 0)
    BY <1>9 DEF Stopped
  <2>2. thread' \in [Thread -> Working]
    BY <2>1, <1>0, WentTo, Returned
  <2> QED
    BY <1>9, <2>2 DEF Stopped, ShellTypes
<1>10. CASE ClearFlag(t)
  <2>1. thread' \in [Thread -> Working]
    BY <1>10, Returned DEF ClearFlag
  <2> QED
    BY <1>10, <2>1 DEF ClearFlag, ShellTypes
<1>11. CASE Dispatch(t)
  <2>1. \/ To(t, "stat") /\ counted' = [counted EXCEPT ![t] = {Counts}]
        \/ (\E rc \in Nat : Return(t, rc)) /\ UNCHANGED counted
    BY <1>11 DEF Dispatch, StubStatus
  <2>2. thread' \in [Thread -> Working]
    BY <2>1, <1>0, WentTo, Returned
  <2>3. Counts \in CountPairs
    BY CountsType DEF ShellTypes
  <2>4. counted' \in [Thread -> SUBSET CountPairs]
    BY <2>1, <2>3 DEF ShellTypes
  <2> QED
    BY <1>11, <2>2, <2>4 DEF Dispatch, ShellTypes
<1>12. CASE Stat(t)
  <2>1. thread' \in [Thread -> Working]
    BY <1>12, StatMoves, Moved
  <2> QED
    BY <1>12, <2>1 DEF Stat, ShellTypes
<1>13. CASE Closed(t)
  <2>1. thread' \in [Thread -> Working]
    BY <1>13, Returned DEF Closed
  <2> QED
    BY <1>13, <2>1 DEF Closed, ShellTypes
<1>14. CASE Unique(t)
  <2>1. thread[t].at = "unique"
    BY <1>14 DEF Unique
  <2>2. thread' \in [Thread -> Working]
    BY <1>14, <2>1, UniqueMoves, Moved
  <2> QED
    BY <1>14, <2>2 DEF Unique, ShellTypes
<1>15. CASE Abort(t)
  <2>1. [Idle EXCEPT !.at = "gone"] \in Working
    BY IdleWorks DEF Working, Places
  <2> QED
    BY <1>15, <2>1 DEF Abort, ShellTypes
<1>16. CASE Continue(t)
  BY <1>16, IdleWorks DEF Continue, ShellTypes
<1> QED
  BY <1>1, <1>2, <1>3, <1>4, <1>5, <1>6, <1>7, <1>8, <1>9, <1>10, <1>11, <1>12,
     <1>13, <1>14, <1>15, <1>16 DEF Step

LEMMA OthersTypes == ASSUME ShellTypes, OthersWrite PROVE ShellTypes'
<1>1. records' \in SUBSET Row
  BY DEF ShellTypes, OthersWrite
<1>2. Counts' \in CountPairs
  BY <1>1, Counted DEF Counts, CountPairs
<1> QED
  BY <1>1, <1>2 DEF ShellTypes, OthersWrite, init

-----------------------------------------------------------------------------
(***************************************************************************)
(* One thread, step by step.                                               *)
(***************************************************************************)
LEMMA OkGoes ==
    ASSUME NEW w, NEW v, NEW C, NEW D, NEW n, NEW there, NEW then,
           ThreadOk(w, C, n, there), w.at \notin {"unique", "returned"},
           v.at \notin {"unique", "returned"},
           v.op = w.op, v.rc = w.rc, v.count = w.count,
           v.at \notin Underway \/ then = TRUE,
           v.at \notin {"stat"} \/ (n \in D /\ Handler(v.op) \in {15, 65})
    PROVE  ThreadOk(v, D, n, then)
<1>1. w.count = None /\ (w.op # None /\ w.rc = 20 => Handler(w.op) = None)
  BY DEF ThreadOk
<1> QED
  BY <1>1 DEF ThreadOk

LEMMA OkReturns ==
    ASSUME NEW w \in Working, NEW C, NEW n, NEW there \in BOOLEAN, NEW then \in BOOLEAN,
           ThreadOk(w, C, n, there),
           NEW rc \in Nat, w.at \notin {"unique", "returned"} \/ rc # 0,
           w.op # None /\ rc = 20 => Handler(w.op) = None
    PROVE  ThreadOk([w EXCEPT !.at = "returned", !.rc = rc], C, n, then)
<1> DEFINE v == [w EXCEPT !.at = "returned", !.rc = rc]
<1>1. v.at = "returned" /\ v.op = w.op /\ v.rc = rc /\ v.count = w.count
  BY DEF Working
<1>2. w.at \notin {"unique", "returned"} => w.count = None
  BY DEF ThreadOk
<1> HIDE DEF v
<1>3. v.rc = 0 => v.count = None
  BY <1>1, <1>2
<1>4. v.at \notin Underway
  BY <1>1 DEF Underway
<1>5. ThreadOk(v, C, n, then)
  BY <1>1, <1>3, <1>4 DEF ThreadOk
<1> QED
  BY <1>5 DEF v

LEMMA OkBegins ==
    ASSUME NEW v, NEW C, NEW n, NEW there \in BOOLEAN,
           v.at \in {"idle", "load", "dispatch", "countDown", "stopping", "gone"},
           v.at = "dispatch" => there, v.rc = 0, v.count = None
    PROVE  ThreadOk(v, C, n, there)
  BY DEF ThreadOk, Underway

\* The first statement of Stat and of Stat Extended.
LEMMA OkCounts ==
    ASSUME NEW w, NEW v, NEW C, NEW n, NEW there, NEW k \in Nat,
           ThreadOk(w, C, n, there), w.at = "stat", k \in {n.records, 0},
           v.op = w.op, v.rc = w.rc, v.cap = w.cap, v.count = k, v.ix = 1,
           v.reply \in [Segments -> Nat \cup {None}],
           \A s \in Segments : v.reply[s] = IF Fits(w.cap, s, 16) THEN k ELSE None,
           v.at = IF Handler(w.op) = 65 /\ NumIndexes > 0 THEN "unique" ELSE "returned"
    PROVE  ThreadOk(v, C, n, there)
<1>2. /\ there /\ n \in C /\ (w.op # None /\ w.rc = 20 => Handler(w.op) = None)
      /\ Handler(w.op) \in {15, 65}
  BY DEF ThreadOk, Underway
<1>3. v.count \in {0} \cup {c.records : c \in C}
  BY <1>2
<1>4. \A s \in Segments : SegmentIndex[s] \in 1..NumIndexes /\ SegmentIndex[s] >= 1
  BY ShellAssumption DEF Segments
<1>6. \A s \in Segments : v.reply[s] = IF Fits(v.cap, s, 16) THEN v.count ELSE None
  OBVIOUS
<1>7. v.at = "unique" => HalfWay(v, C)
  <2> SUFFICES ASSUME v.at = "unique" PROVE HalfWay(v, C)
    OBVIOUS
  <2>1. Handler(v.op) = 65 /\ v.ix \in 1..NumIndexes
    BY ShellAssumption
  <2>2. \A s \in Segments : ~(SegmentIndex[s] < v.ix)
    BY <1>4
  <2> QED
    BY <1>3, <1>6, <2>1, <2>2 DEF HalfWay, Written, SpecToCome
<1>8. v.at = "returned" => Complete(v, C)
  <2> SUFFICES ASSUME v.at = "returned" PROVE Complete(v, C)
    OBVIOUS
  <2>1. Handler(v.op) = 15 \/ Segments = {}
    BY <1>2, <1>4, ShellAssumption
  <2>2. v.count # None
    BY ShellAssumption
  <2> QED
    BY <1>3, <1>6, <2>1, <2>2 DEF Complete
<1> QED
  BY <1>2, <1>7, <1>8 DEF ThreadOk

\* A later statement of Stat Extended: its index is done.
LEMMA OkPatches ==
    ASSUME NEW w \in Working, NEW v, NEW C, NEW n, NEW there, NEW k \in Nat,
           ThreadOk(w, C, n, there), w.at = "unique", k \in {n.unique, 0},
           v.op = w.op, v.rc = w.rc, v.cap = w.cap, v.count = w.count, v.ix = w.ix + 1,
           v.reply \in [Segments -> Nat \cup {None}],
           \A s \in Segments :
               v.reply[s] = IF SegmentIndex[s] = w.ix /\ Fits(w.cap, s, 10) THEN k ELSE w.reply[s],
           v.at = IF w.ix = NumIndexes THEN "returned" ELSE "unique"
    PROVE  ThreadOk(v, C, n, there)
<1>2. there /\ n \in C /\ (w.op # None /\ w.rc = 20 => Handler(w.op) = None) /\ HalfWay(w, C)
  BY DEF ThreadOk, Underway
<1>3. Handler(w.op) = 65 /\ w.ix \in 1..NumIndexes /\ Written(w, C)
  BY <1>2 DEF HalfWay
<1>4. \A s \in Segments : s \in Nat /\ SegmentIndex[s] \in 1..NumIndexes
  BY ShellAssumption DEF Segments
<1>5. k # None
  BY ShellAssumption
<1>6. \A s \in Segments : Fits(w.cap, s, 16) => Fits(w.cap, s, 10)
  BY <1>4 DEF Fits, Working
<1>7. ASSUME NEW s \in Segments
      PROVE  IF SegmentIndex[s] < v.ix THEN SpecDone(v, C, s) ELSE SpecToCome(v, s)
  <2>1. CASE SegmentIndex[s] < w.ix
    <3>1. SpecDone(w, C, s) /\ v.reply[s] = w.reply[s]
      BY <1>2, <1>3, <1>4, <2>1 DEF HalfWay
    <3> QED
      BY <1>3, <1>4, <2>1, <3>1 DEF SpecDone
  <2>2. CASE SegmentIndex[s] = w.ix
    <3>1. SpecToCome(w, s)
      BY <1>2, <1>3, <1>4, <2>2 DEF HalfWay
    <3>2. Fits(v.cap, s, 16) => v.reply[s] # None
      BY <1>5, <1>6, <2>2
    <3>3. v.reply[s] \in {None, 0} \cup {c.unique : c \in C}
      <4>1. CASE Fits(w.cap, s, 10)
        BY <1>2, <2>2, <4>1
      <4>2. CASE ~Fits(w.cap, s, 10)
        BY <1>6, <3>1, <4>2 DEF SpecToCome
      <4> QED
        BY <4>1, <4>2
    <3> QED
      BY <1>3, <1>4, <2>2, <3>2, <3>3 DEF SpecDone
  <2>3. CASE SegmentIndex[s] > w.ix
    <3>1. SpecToCome(w, s) /\ v.reply[s] = w.reply[s]
      BY <1>2, <1>3, <1>4, <2>3 DEF HalfWay
    <3> QED
      BY <1>3, <1>4, <2>3, <3>1 DEF SpecToCome
  <2> QED
    BY <1>3, <1>4, <2>1, <2>2, <2>3
<1>8. v.at = "unique" => HalfWay(v, C)
  <2> SUFFICES ASSUME v.at = "unique" PROVE HalfWay(v, C)
    OBVIOUS
  <2>1. v.ix \in 1..NumIndexes
    BY <1>3, ShellAssumption
  <2> QED
    BY <1>3, <1>7, <2>1 DEF HalfWay, Written
<1>9. v.at = "returned" => Complete(v, C)
  <2> SUFFICES ASSUME v.at = "returned" PROVE Complete(v, C)
    OBVIOUS
  <2>1. \A s \in Segments : SegmentIndex[s] < v.ix
    BY <1>3, <1>4, ShellAssumption
  <2>2. \A s \in Segments : SpecDone(v, C, s)
    BY <1>7, <2>1
  <2> QED
    BY <1>3, <2>2 DEF Complete, SpecDone, Written
<1> QED
  BY <1>2, <1>8, <1>9 DEF ThreadOk

-----------------------------------------------------------------------------
(***************************************************************************)
(* One step of one thread.                                                 *)
(***************************************************************************)
LEMMA RepliesTyped ==
    ASSUME ShellIInv, NEW t \in Thread, thread[t].at = "unique"
    PROVE  thread[t].reply \in [Segments -> Nat \cup {None}]
  BY DEF ShellIInv, ThreadOk, HalfWay, Written

\* A step that writes no record and takes nothing of what was counted away
\* leaves the other threads as they are.
LEMMA OneMoves ==
    ASSUME ShellIInv, NEW t \in Thread, ShellTypes', records' = records,
           IS_INITIALIZED' => loaded', loaded => loaded',
           \A u \in Thread : u # t => thread'[u] = thread[u] /\ counted'[u] = counted[u],
           ThreadOk(thread'[t], counted'[t], Counts, loaded')
    PROVE  ShellIInv'
<1>1. Counts' = Counts
  BY DEF Counts
<1>2. ASSUME NEW u \in Thread PROVE ThreadOk(thread'[u], counted'[u], Counts, loaded')
  <2>1. CASE u = t
    BY <2>1
  <2>2. CASE u # t
    <3>1. thread[u] \in Working /\ loaded \in BOOLEAN /\ loaded' \in BOOLEAN
      BY DEF ShellIInv, ShellTypes
    <3>2. ThreadOk(thread[u], counted[u], Counts, loaded)
      BY DEF ShellIInv
    <3>4. ThreadOk(thread[u], counted[u], Counts, loaded')
      BY <3>1, <3>2 DEF ThreadOk
    <3> QED
      BY <2>2, <3>4
  <2> QED
    BY <2>1, <2>2
<1>3. ThreadOk(thread[t], counted[t], Counts, loaded)'
      <=> ThreadOk(thread'[t], counted'[t], Counts', loaded')
  OBVIOUS
<1> QED
  BY <1>1, <1>2 DEF ShellIInv

LEMMA Goes ==
    ASSUME ShellIInv, NEW t \in Thread, ShellTypes', records' = records, counted' = counted,
           IS_INITIALIZED' => loaded', loaded => loaded',
           NEW at \in Places \ {"stat", "unique", "returned"}, To(t, at),
           thread[t].at \notin {"unique", "returned"}, at \in Underway => loaded'
    PROVE  ShellIInv'
<1>1. ShellTypes /\ thread[t] \in Working /\ ThreadOk(thread[t], counted[t], Counts, loaded)
      /\ loaded \in BOOLEAN /\ loaded' \in BOOLEAN
  BY DEF ShellIInv, ShellTypes
<1> DEFINE v == [thread[t] EXCEPT !.at = at]
<1>3. v.at = at /\ v.op = thread[t].op /\ v.rc = thread[t].rc /\ v.count = thread[t].count
  BY <1>1 DEF Working
<1> HIDE DEF v
<1>4. ThreadOk(v, counted[t], Counts, loaded')
  BY <1>1, <1>3, OkGoes
<1>2. ThreadOk([thread[t] EXCEPT !.at = at], counted[t], Counts, loaded')
  BY <1>4 DEF v
<1> QED
  BY <1>1, <1>2, WentTo, OneMoves

LEMMA Comes ==
    ASSUME ShellIInv, NEW t \in Thread, ShellTypes', records' = records, counted' = counted,
           IS_INITIALIZED' => loaded', loaded => loaded',
           NEW rc \in Nat, Return(t, rc),
           thread[t].at \notin {"unique", "returned"} \/ rc # 0,
           thread[t].op # None /\ rc = 20 => Handler(thread[t].op) = None
    PROVE  ShellIInv'
<1>1. ShellTypes /\ thread[t] \in Working /\ ThreadOk(thread[t], counted[t], Counts, loaded)
      /\ loaded \in BOOLEAN /\ loaded' \in BOOLEAN
  BY DEF ShellIInv, ShellTypes
<1>2. ThreadOk([thread[t] EXCEPT !.at = "returned", !.rc = rc], counted[t], Counts, loaded')
  BY <1>1, OkReturns
<1> QED
  BY <1>1, <1>2, Returned, OneMoves

LEMMA StepKeeps == ASSUME ShellIInv, NEW t \in Thread, Step(t) PROVE ShellIInv'
<1> USE DEF init
<1>1. ShellTypes /\ ShellTypes'
  BY RepliesTyped, StepTypes DEF ShellIInv
<1>2. /\ thread[t] \in Working /\ ThreadOk(thread[t], counted[t], Counts, loaded)
      /\ loaded \in BOOLEAN /\ loaded' \in BOOLEAN
      /\ IS_INITIALIZED => loaded
  BY <1>1 DEF ShellIInv, ShellTypes
<1>3. /\ "load" \in Places /\ "loading" \in Places /\ "count" \in Places
      /\ "flag" \in Places /\ "dispatch" \in Places /\ "stat" \in Places
      /\ "stopping" \in Places /\ "unflag" \in Places
  BY DEF Places
<1>4. thread[t].at \in Underway => loaded
  BY <1>2 DEF ThreadOk
<1>5. CASE Call(t)
  <2>1. PICK op \in Codes, cap \in Capacity \cup {0} :
            Begin(t, [Idle EXCEPT !.op = op, !.cap = cap,
                                  !.at = IF IS_INITIALIZED THEN "dispatch" ELSE "load"])
    BY <1>5 DEF Call
  <2> DEFINE v == [Idle EXCEPT !.op = op, !.cap = cap,
                               !.at = IF IS_INITIALIZED THEN "dispatch" ELSE "load"]
  <2>2. v.at \in {"load", "dispatch"} /\ (v.at = "dispatch" => IS_INITIALIZED)
        /\ v.rc = 0 /\ v.count = None
    BY DEF Idle
  <2> HIDE DEF v
  <2>3. ThreadOk(v, counted[t], Counts, loaded)
    BY <1>2, <2>2, OkBegins
  <2>4. Begin(t, v)
    BY <2>1 DEF v
  <2> QED
    BY <1>1, <1>2, <2>3, <2>4, BeginMoves, OneMoves
<1>6. CASE ShellInit(t)
  <2> DEFINE v == [Idle EXCEPT !.at = "load"]
  <2>1. v.at = "load" /\ v.rc = 0 /\ v.count = None
    BY DEF Idle
  <2>2. Begin(t, v)
    BY <1>6 DEF ShellInit
  <2> HIDE DEF v
  <2>3. ThreadOk(v, counted[t], Counts, loaded)
    BY <1>2, <2>1, OkBegins
  <2> QED
    BY <1>1, <1>2, <2>2, <2>3, BeginMoves, OneMoves
<1>7. CASE Stop(t)
  <2> DEFINE v == [Idle EXCEPT !.at = IF INIT_COUNT > 0 THEN "countDown" ELSE "stopping"]
  <2>1. v.at \in {"countDown", "stopping"} /\ v.rc = 0 /\ v.count = None
    BY DEF Idle
  <2>2. Begin(t, v)
    BY <1>7 DEF Stop
  <2> HIDE DEF v
  <2>3. ThreadOk(v, counted[t], Counts, loaded)
    BY <1>2, <2>1, OkBegins
  <2> QED
    BY <1>1, <1>2, <2>2, <2>3, BeginMoves, OneMoves
<1>8. CASE Load(t)
  BY <1>1, <1>2, <1>3, <1>8, Goes DEF Load, FlagMeanwhile, Underway
<1>9. CASE Preload(t)
  <2>1. CASE To(t, "count")
    BY <1>1, <1>2, <1>3, <1>9, <2>1, Goes DEF Preload, Underway
  <2>2. CASE thread[t].op = None /\ Return(t, 18002)
    <3>1. 18002 \in Nat /\ 18002 # 20
      OBVIOUS
    <3>2. \A rc \in Nat \ {20} : Return(t, rc) => ShellIInv'
      BY <1>1, <1>9, Comes DEF Preload
    <3> QED
      BY <2>2, <3>1, <3>2
  <2> QED
    BY <1>9, <2>1, <2>2 DEF Preload
<1>10. CASE CountUp(t)
  BY <1>1, <1>2, <1>3, <1>4, <1>10, Goes DEF CountUp, Underway
<1>11. CASE SetFlag(t)
  <2>1. loaded
    BY <1>4, <1>11 DEF SetFlag, Underway
  <2>2. CASE To(t, "dispatch")
    BY <1>1, <1>3, <1>11, <2>1, <2>2, Goes DEF SetFlag
  <2>3. CASE Return(t, 0)
    BY <1>1, <1>11, <2>1, <2>3, Comes DEF SetFlag
  <2> QED
    BY <1>11, <2>2, <2>3 DEF SetFlag
<1>12. CASE CountDown(t)
  BY <1>1, <1>2, <1>3, <1>12, Goes DEF CountDown, Underway
<1>13. CASE Stopped(t)
  <2>1. CASE To(t, "unflag")
    BY <1>1, <1>2, <1>3, <1>13, <2>1, Goes DEF Stopped, Underway
  <2>2. CASE Return(t, 0)
    BY <1>1, <1>2, <1>13, <2>2, Comes DEF Stopped
  <2> QED
    BY <1>13, <2>1, <2>2 DEF Stopped
<1>14. CASE ClearFlag(t)
  BY <1>1, <1>14, Comes DEF ClearFlag
<1>15. CASE Dispatch(t)
  <2>1. /\ thread[t].at = "dispatch" /\ loaded
        /\ UNCHANGED <<IS_INITIALIZED, loaded, records>>
    BY <1>4, <1>15 DEF Dispatch, Underway
  <2>2. CASE UNCHANGED counted /\ \E rc \in Nat : Return(t, rc) /\ (rc = 20 => Handler(thread[t].op) = None)
    BY <1>1, <1>2, <2>1, <2>2, Comes
  <2>3. CASE /\ Handler(thread[t].op) \in {15, 65} /\ To(t, "stat")
             /\ counted' = [counted EXCEPT ![t] = {Counts}]
    <3>1. ThreadOk([thread[t] EXCEPT !.at = "stat"], {Counts}, Counts, loaded)
      <4> DEFINE v == [thread[t] EXCEPT !.at = "stat"]
      <4>1. v.at = "stat" /\ v.op = thread[t].op /\ v.rc = thread[t].rc
            /\ v.count = thread[t].count
        BY <1>2 DEF Working
      <4> HIDE DEF v
      <4>2. ThreadOk(v, {Counts}, Counts, loaded)
        BY <1>2, <2>1, <2>3, <4>1, OkGoes
      <4> QED
        BY <4>2 DEF v
    <3>2. counted'[t] = {Counts} /\ \A u \in Thread : u # t => counted'[u] = counted[u]
      BY <1>1, <2>3 DEF ShellTypes
    <3> QED
      BY <1>1, <1>2, <1>3, <2>1, <2>3, <3>1, <3>2, WentTo, OneMoves
  <2> QED
    BY <1>15, <2>2, <2>3 DEF Dispatch, StubStatus
<1>16. CASE Stat(t)
  <2>1. thread[t].at = "stat" /\ UNCHANGED <<IS_INITIALIZED, loaded, records, counted>>
    BY <1>16 DEF Stat
  <2>2. PICK n \in {Counts.records, 0} :
            LET w == [thread[t] EXCEPT
                        !.count = n,
                        !.reply = [s \in Segments |-> IF Fits(thread[t].cap, s, 16) THEN n ELSE None],
                        !.ix = 1,
                        !.at = IF Handler(thread[t].op) = 65 /\ NumIndexes > 0
                               THEN "unique" ELSE "returned"]
            IN  n \in Nat /\ w \in Working /\ thread' = [thread EXCEPT ![t] = w]
    BY <1>1, <1>16, StatMoves
  <2> DEFINE reply == [s \in Segments |-> IF Fits(thread[t].cap, s, 16) THEN n ELSE None]
             at == IF Handler(thread[t].op) = 65 /\ NumIndexes > 0 THEN "unique" ELSE "returned"
             w == [thread[t] EXCEPT !.count = n, !.reply = reply, !.ix = 1, !.at = at]
  <2>3. n \in Nat /\ w \in Working /\ thread' = [thread EXCEPT ![t] = w]
    BY <2>2
  <2>4. ThreadOk(w, counted[t], Counts, loaded)
    <3> HIDE DEF reply, at
    <3>1. /\ w.op = thread[t].op /\ w.rc = thread[t].rc /\ w.cap = thread[t].cap
          /\ w.count = n /\ w.ix = 1 /\ w.reply = reply /\ w.at = at
      BY <1>2 DEF Working
    <3>2. /\ reply \in [Segments -> Nat \cup {None}]
          /\ \A s \in Segments : reply[s] = IF Fits(thread[t].cap, s, 16) THEN n ELSE None
          /\ at = IF Handler(thread[t].op) = 65 /\ NumIndexes > 0 THEN "unique" ELSE "returned"
      BY <2>3 DEF reply, at
    <3> HIDE DEF w
    <3> QED
      BY <1>2, <2>1, <2>3, <3>1, <3>2, OkCounts
  <2> HIDE DEF w
  <2>5. thread'[t] = w /\ \A u \in Thread : u # t => thread'[u] = thread[u]
    BY <1>1, <2>3, Moved
  <2> QED
    BY <1>1, <1>2, <2>1, <2>4, <2>5, OneMoves
<1>17. CASE Closed(t)
  BY <1>1, <1>2, <1>17, Comes DEF Closed
<1>18. CASE Unique(t)
  <2>1. thread[t].at = "unique" /\ UNCHANGED <<IS_INITIALIZED, loaded, records, counted>>
    BY <1>18 DEF Unique
  <2>2. thread[t].reply \in [Segments -> Nat \cup {None}]
    BY <2>1, RepliesTyped
  <2>3. PICK n \in {Counts.unique, 0} :
            LET w == [thread[t] EXCEPT
                        !.reply = Patched(t, n),
                        !.ix = thread[t].ix + 1,
                        !.at = IF thread[t].ix = NumIndexes THEN "returned" ELSE "unique"]
            IN  n \in Nat /\ w \in Working /\ thread' = [thread EXCEPT ![t] = w]
    BY <1>1, <1>18, <2>2, UniqueMoves
  <2> DEFINE reply == Patched(t, n)
             at == IF thread[t].ix = NumIndexes THEN "returned" ELSE "unique"
             w == [thread[t] EXCEPT !.reply = reply, !.ix = thread[t].ix + 1, !.at = at]
  <2>4. n \in Nat /\ w \in Working /\ thread' = [thread EXCEPT ![t] = w]
    BY <2>3
  <2>5. ThreadOk(w, counted[t], Counts, loaded)
    <3>1. reply \in [Segments -> Nat \cup {None}]
      BY <2>2, <2>4 DEF Patched
    <3>2. \A s \in Segments :
            reply[s] = IF SegmentIndex[s] = thread[t].ix /\ Fits(thread[t].cap, s, 10)
                       THEN n ELSE thread[t].reply[s]
      BY DEF Patched
    <3>3. at = IF thread[t].ix = NumIndexes THEN "returned" ELSE "unique"
      OBVIOUS
    <3> HIDE DEF reply, at
    <3>4. /\ w.op = thread[t].op /\ w.rc = thread[t].rc /\ w.cap = thread[t].cap
          /\ w.count = thread[t].count /\ w.ix = thread[t].ix + 1 /\ w.reply = reply /\ w.at = at
      BY <1>2 DEF Working
    <3> HIDE DEF w
    <3> QED
      BY <1>2, <2>1, <2>4, <3>1, <3>2, <3>3, <3>4, OkPatches
  <2> HIDE DEF w
  <2>6. thread'[t] = w /\ \A u \in Thread : u # t => thread'[u] = thread[u]
    BY <1>1, <2>4, Moved
  <2> QED
    BY <1>1, <1>2, <2>1, <2>5, <2>6, OneMoves
<1>19. CASE Abort(t)
  <2> DEFINE gone == [Idle EXCEPT !.at = "gone"]
  <2>1. gone.at = "gone" /\ gone.rc = 0 /\ gone.count = None
    BY DEF Idle
  <2>2. thread' = [u \in Thread |-> gone] /\ UNCHANGED <<IS_INITIALIZED, loaded, records, counted>>
    BY <1>19 DEF Abort
  <2> HIDE DEF gone
  <2>3. \A u \in Thread : ThreadOk(gone, counted[u], Counts, loaded)
    BY <1>2, <2>1, OkBegins
  <2>4. Counts' = Counts
    BY <2>2 DEF Counts
  <2> QED
    BY <1>1, <1>2, <2>2, <2>3, <2>4 DEF ShellIInv
<1>20. CASE Continue(t)
  <2>1. Idle.at = "idle" /\ Idle.rc = 0 /\ Idle.count = None
    BY DEF Idle
  <2>2. ThreadOk(Idle, {}, Counts, loaded)
    BY <1>2, <2>1, OkBegins
  <2>3. /\ thread'[t] = Idle /\ counted'[t] = {}
        /\ UNCHANGED <<IS_INITIALIZED, loaded, records>>
        /\ \A u \in Thread : u # t => thread'[u] = thread[u] /\ counted'[u] = counted[u]
    BY <1>1, <1>20 DEF Continue, ShellTypes
  <2> QED
    BY <1>1, <1>2, <2>2, <2>3, OneMoves
<1> QED
  BY <1>5, <1>6, <1>7, <1>8, <1>9, <1>10, <1>11, <1>12, <1>13, <1>14, <1>15, <1>16,
     <1>17, <1>18, <1>19, <1>20 DEF Step

\* What others write is counted for every thread in Stat.
LEMMA OthersKeep == ASSUME ShellIInv, OthersWrite PROVE ShellIInv'
<1>1. ShellTypes /\ ShellTypes'
  BY OthersTypes DEF ShellIInv
<1>2. UNCHANGED <<IS_INITIALIZED, loaded, thread>>
  BY DEF OthersWrite, init
<1>3. ASSUME NEW t \in Thread
      PROVE  ThreadOk(thread[t], counted'[t], Counts', loaded)
  <2>1. /\ counted[t] \subseteq counted'[t]
        /\ thread[t].at \in {"stat", "unique"} => Counts' \in counted'[t]
    BY DEF OthersWrite
  <2>2. thread[t] \in Working /\ loaded \in BOOLEAN
    BY <1>1 DEF ShellTypes
  <2>3. ThreadOk(thread[t], counted[t], Counts, loaded)
    BY DEF ShellIInv
  <2> DEFINE w == thread[t]
  <2>4. \A s : SpecDone(w, counted[t], s) => SpecDone(w, counted'[t], s)
    BY <2>1 DEF SpecDone
  <2>5. Written(w, counted[t]) => Written(w, counted'[t])
    BY <2>1 DEF Written
  <2>6. HalfWay(w, counted[t]) => HalfWay(w, counted'[t])
    BY <2>4, <2>5 DEF HalfWay
  <2>7. Complete(w, counted[t]) => Complete(w, counted'[t])
    BY <2>1 DEF Complete
  <2> QED
    BY <2>1, <2>2, <2>3, <2>6, <2>7 DEF ThreadOk
<1> QED
  BY <1>1, <1>2, <1>3 DEF ShellIInv

(***************************************************************************)
(* The invariant is inductive: on every path, for any number of threads.   *)
(***************************************************************************)
THEOREM ShellInvariant == Spec => []ShellIInv
<1>1. Init => ShellIInv
  <2> SUFFICES ASSUME Init PROVE ShellIInv
    OBVIOUS
  <2>1. Idle.at = "idle" /\ Idle.rc = 0 /\ Idle.count = None
    BY DEF Idle
  <2>2. ThreadOk(Idle, {}, Counts, loaded)
    BY <2>1, OkBegins DEF Init
  <2>3. ShellTypes
    BY IdleWorks DEF Init, ShellTypes
  <2> QED
    BY <2>2, <2>3 DEF Init, ShellIInv
<1>2. ShellIInv /\ [Next]_vars => ShellIInv'
  <2>1. CASE Next
    BY <2>1, StepKeeps, OthersKeep DEF Next
  <2>2. CASE UNCHANGED vars
    BY <2>2 DEF vars, init, ShellIInv, ShellTypes, Counts
  <2> QED
    BY <2>1, <2>2
<1> QED
  BY <1>1, <1>2, PTL DEF Spec

(***************************************************************************)
(* No operation runs before wxbtrv.db has been read, for any number of     *)
(* threads that initialise, stop and call (ensure_init, WBTRVIDSTOP).      *)
(***************************************************************************)
THEOREM TablesFirst == Spec => []TablesBeforeCalls
<1>1. ShellIInv => TablesBeforeCalls
  BY DEF ShellIInv, ThreadOk, Underway, TablesBeforeCalls
<1> QED
  BY <1>1, ShellInvariant, PTL

(***************************************************************************)
(* Stat and Stat Extended report what was there at some moment of the      *)
(* call, for any indexes, any buffer and any writes of others (op_stat,    *)
(* op_stat_extended).                                                      *)
(***************************************************************************)
THEOREM StatTrue == Spec => []StatTellsWhatWas
<1>1. ShellIInv => StatTellsWhatWas
  BY DEF ShellIInv, ThreadOk, Complete, StatTellsWhatWas
<1> QED
  BY <1>1, ShellInvariant, PTL

(***************************************************************************)
(* Every code of the table reaches its operation, with each lock bias, but *)
(* for Get Key (btrcall_internal, opcode_info).                            *)
(***************************************************************************)
THEOREM CodesHandled == Spec => []BiasedCodesAreHandled
<1>1. ShellIInv => BiasedCodesAreHandled
  <2> SUFFICES ASSUME ShellIInv, NEW t \in Thread, thread[t].op # None,
                      thread[t].op \in 0..499,
                      OpcodeInfo(thread[t].op) \in Implemented \ KeyOnlyOps
               PROVE  /\ Handler(thread[t].op) = OpcodeInfo(thread[t].op)
                      /\ thread[t].rc # 20
    BY DEF BiasedCodesAreHandled
  <2>1. /\ Handler(thread[t].op) = OpcodeInfo(thread[t].op)
        /\ Handler(thread[t].op) # None
    BY CodesReachHandlers
  <2>2. thread[t].rc = 20 => Handler(thread[t].op) = None
    BY DEF ShellIInv, ThreadOk
  <2> QED
    BY <2>1, <2>2
<1> QED
  BY <1>1, ShellInvariant, PTL
=============================================================================
