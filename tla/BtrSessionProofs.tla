-------------------------- MODULE BtrSessionProofs --------------------------
(***************************************************************************)
(* Proofs about BtrSession, for any number of sessions, handles, rows and  *)
(* images and for each of the three servers.                               *)
(***************************************************************************)
EXTENDS BtrSession, TLAPS

\* Rows, record numbers and images, and the marks that stand apart from them.
LEMMA RowFacts ==
    /\ Row \subseteq RecNum
    /\ 0 \in RecNum
    /\ Absent \in Image
    /\ Clean \notin Image
    /\ Row \subseteq 1 .. MaxRow + 1
  BY MaxRowAssumption, MarkerAssumption DEF Row, RecNum, Image

\* No call in progress is one of the values of call.
LEMMA NoCallType == NoCall \in Call
  BY DEF Call

\* A call in progress names an open handle, and a return leaves none.
LEMMA CallFacts ==
    ASSUME NEW c \in Call
    PROVE  /\ c.pc \in Pc
           /\ c.row \in RecNum
           /\ c.img \in Image
           /\ c.pc # "idle" =>
                 c \in [pc : Pc \ {"idle"}, h : Handle, row : RecNum, img : Image]
  BY RowFacts DEF Call, NoCall, Pc

\* A call's next step changes only its pc.
LEMMA GoFacts ==
    ASSUME call \in [Session -> Call], NEW s \in Session, ~At(s, "idle"),
           NEW step \in Pc \ {"idle"}, Go(s, step)
    PROVE  /\ call' = [call EXCEPT ![s] = [pc  |-> step,        h   |-> call[s].h,
                                          row |-> call[s].row, img |-> call[s].img]]
           /\ call' \in [Session -> Call]
  <1> DEFINE Busy == [pc : Pc \ {"idle"}, h : Handle, row : RecNum, img : Image]
  <1>1. call[s] \in Busy
    BY CallFacts DEF At
  <1>2. [call[s] EXCEPT !.pc = step] = [pc  |-> step,        h   |-> call[s].h,
                                        row |-> call[s].row, img |-> call[s].img]
    BY <1>1
  <1>3. [pc  |-> step,        h   |-> call[s].h,
         row |-> call[s].row, img |-> call[s].img] \in Call
    BY <1>1 DEF Call
  <1>4. QED
    BY <1>2, <1>3 DEF Go

-----------------------------------------------------------------------------
(***************************************************************************)
(* What each server operation does to the types of the server's variables. *)
(***************************************************************************)
LEMMA UndoneType ==
    ASSUME ServerTypeOK, NEW s \in Session
    PROVE  Undone(s) \in [Row -> Image]
  BY DEF ServerTypeOK, Undone

\* The end of a transaction keeps the types of the server's variables;
LEMMA EndOfTxnTypes ==
    ASSUME ServerTypeOK, NEW s \in Session, NEW state \in TxnState, EndOfTxn(s, state)
    PROVE  /\ undo' \in [Session -> [Row -> Image \cup {Clean}]]
           /\ txn' \in [Session -> TxnState]
           /\ shared' \in [Session -> SUBSET Row]
  BY DEF ServerTypeOK, EndOfTxn, NoUndo

\* so does the release of a connection's locks,
LEMMA LocksWithoutType ==
    ASSUME ServerTypeOK, NEW s \in Session
    PROVE  LocksWithout(s) \in [RecNum -> Session \cup {Free}]
  BY DEF ServerTypeOK, LocksWithout

\* a disconnect,
LEMMA DisconnectTypes ==
    ASSUME ServerTypeOK, NEW s \in Session, Disconnect(s), nextId' = nextId
    PROVE  ServerTypeOK'
  <1>1. "none" \in TxnState
    BY DEF TxnState
  <1>2. QED
    BY <1>1, UndoneType, EndOfTxnTypes, LocksWithoutType DEF Disconnect, ServerTypeOK

\* a commit, a rollback and a failed statement,
LEMMA EndTypes ==
    ASSUME ServerTypeOK, NEW s \in Session,
           CommitTxn(s) \/ RollbackTxn(s) \/ FailTxn(s)
    PROVE  ServerTypeOK'
  <1>1. "none" \in TxnState /\ "aborted" \in TxnState
    BY DEF TxnState
  <1>2. CASE CommitTxn(s)
    BY <1>1, <1>2, EndOfTxnTypes DEF CommitTxn, ServerTypeOK
  <1>3. CASE RollbackTxn(s)
    BY <1>1, <1>3, EndOfTxnTypes, UndoneType DEF RollbackTxn, ServerTypeOK
  <1>4. CASE FailTxn(s)
    BY <1>1, <1>4, EndOfTxnTypes, UndoneType DEF FailTxn, ServerTypeOK
  <1>5. QED
    BY <1>2, <1>3, <1>4

\* a commit whose reply is lost,
LEMMA CommitThenDisconnectTypes ==
    ASSUME ServerTypeOK, NEW s \in Session, CommitThenDisconnect(s), nextId' = nextId
    PROVE  ServerTypeOK'
  <1>1. "none" \in TxnState
    BY DEF TxnState
  <1>2. QED
    BY <1>1, EndOfTxnTypes, LocksWithoutType DEF CommitThenDisconnect, ServerTypeOK

\* a write, its reply lost or not,
LEMMA PutTypes ==
    ASSUME ServerTypeOK, NEW s \in Session, NEW r \in Row, NEW img \in Image,
           Put(s, r, img) \/ PutThenDisconnect(s, r, img),
           nextId' \in 1 .. MaxRow + 1
    PROVE  ServerTypeOK'
  <1>1. CASE Put(s, r, img)
    BY <1>1 DEF Put, ServerTypeOK
  <1>2. CASE PutThenDisconnect(s, r, img)
    BY <1>2, LocksWithoutType DEF PutThenDisconnect, ServerTypeOK
  <1>3. QED
    BY <1>1, <1>2

\* a lock taken or returned,
LEMMA LockTypes ==
    ASSUME ServerTypeOK, NEW s \in Session, NEW n \in RecNum,
           TakeAppLock(s, n) \/ ReleaseAppLock(s, n)
    PROVE  ServerTypeOK'
  BY DEF TakeAppLock, ReleaseAppLock, ServerTypeOK

\* a begin and a read,
LEMMA TxnTypes ==
    ASSUME ServerTypeOK, NEW s \in Session,
           \/ \E level \in TxnState : BeginTxn(s, level)
           \/ \E r \in Row : ReadRow(s, r)
    PROVE  ServerTypeOK'
  BY DEF BeginTxn, ReadRow, ServerTypeOK

\* a step that leaves the server alone,
LEMMA UnchangedTypes ==
    ASSUME ServerTypeOK, UNCHANGED serverVars
    PROVE  ServerTypeOK'
  BY DEF ServerTypeOK, serverVars

\* and with_conn dropping the connection.
LEMMA DroppedTypes ==
    ASSUME TypeOK, NEW s \in Session, Dropped(s), nextId' = nextId
    PROVE  ServerTypeOK' /\ conn' \in [Session -> {"none", "live", "dead"}]
  BY DisconnectTypes DEF Dropped, ConnGone, TypeOK

-----------------------------------------------------------------------------
\* The initial states have the types.
LEMMA InitType == Init => TypeOK
  <1>1. SUFFICES ASSUME Init PROVE TypeOK
    OBVIOUS
  <1>2. ServerTypeOK
    BY <1>1, RowFacts DEF Init, ServerInit, ServerTypeOK, NoUndo, TxnState
  <1>3. QED
    BY <1>1, <1>2, NoCallType DEF Init, TypeOK, NoPos

(***************************************************************************)
(* One lemma per group of actions: each action preserves the types.        *)
(***************************************************************************)
LEMMA HandleOpType ==
    ASSUME TypeOK, NEW s \in Session, NEW h \in Handle, HandleOp(s, h)
    PROVE  TypeOK'
  <1>1. CASE Open(s, h)
    BY <1>1, UnchangedTypes DEF Open, TypeOK, history, At
  <1>2. CASE Close(s, h)
    BY <1>2, UnchangedTypes DEF Close, TypeOK, history, NoPos
  <1>3. CASE Read(s, h)
    <2>1. CASE \E r \in Row : /\ Connected(s)
                             /\ ReadRow(s, r)
                             /\ lastRecnum' = [lastRecnum EXCEPT ![s][h] = r]
                             /\ Rely(s, r)
      <3>1. PICK r \in Row : /\ Connected(s)
                             /\ ReadRow(s, r)
                             /\ lastRecnum' = [lastRecnum EXCEPT ![s][h] = r]
                             /\ Rely(s, r)
        BY <2>1
      <3>2. ServerTypeOK'
        BY <3>1, TxnTypes DEF TypeOK
      <3>3. QED
        BY <1>3, <3>1, <3>2, RowFacts DEF Read, Connected, Rely, TypeOK
    <2>2. CASE Connected(s) /\ Accepts(s) /\ UNCHANGED <<serverVars, lastRecnum, history>>
      BY <1>3, <2>2, UnchangedTypes DEF Read, Connected, TypeOK, history
    <2>3. CASE Dropped(s) /\ UNCHANGED <<nextId, lastRecnum, history>>
      BY <1>3, <2>3, DroppedTypes DEF Read, TypeOK, history
    <2>4. QED
      BY <1>3, <2>1, <2>2, <2>3 DEF Read
  <1>4. CASE Reset(s, h)
    BY <1>4, UnchangedTypes DEF Reset, TypeOK, history, NoPos
  <1>5. CASE \E v \in Val : Insert(s, h, v)
    <2>1. PICK v \in Val : Insert(s, h, v)
      BY <1>5
    <2>2. nextId \in Row /\ nextId + 1 \in 1 .. MaxRow + 1 /\ v \in Image
      BY <2>1, MaxRowAssumption DEF Insert, Row, Image
    <2>3. CASE /\ Connected(s)
               /\ InsertStatement(s, v)
               /\ Acknowledge(s, nextId)
               /\ call' = [call EXCEPT ![s] =
                              [pc |-> "lastid", h |-> h, row |-> nextId, img |-> v]]
      <3>1. ServerTypeOK'
        BY <2>2, <2>3, PutTypes DEF InsertStatement, TypeOK
      <3>2. [pc |-> "lastid", h |-> h, row |-> nextId, img |-> v] \in Call
        BY <2>2, RowFacts DEF Call, Pc
      <3>3. acked' \in [Session -> SUBSET Row] /\ UNCHANGED <<begun, relied>>
        BY <2>2, <2>3 DEF Acknowledge, TypeOK
      <3>4. QED
        BY <2>1, <2>3, <3>1, <3>2, <3>3 DEF Insert, Connected, TypeOK
    <2>4. CASE Dropped(s) /\ UNCHANGED <<nextId, call, history>>
      BY <2>1, <2>4, DroppedTypes DEF Insert, TypeOK, history
    <2>5. CASE /\ conn[s] # "dead"
               /\ ConnGone(s)
               /\ PutThenDisconnect(s, nextId, v)
               /\ nextId' = nextId + 1
               /\ UNCHANGED <<call, history>>
      <3>1. ServerTypeOK'
        BY <2>2, <2>5, PutTypes DEF TypeOK
      <3>2. QED
        BY <2>1, <2>5, <3>1 DEF Insert, ConnGone, TypeOK, history
    <2>6. QED
      BY <2>1, <2>3, <2>4, <2>5 DEF Insert
  <1>6. CASE \E img \in Image : Write(s, h, img)
    <2>1. PICK img \in Image : Write(s, h, img)
      BY <1>6
    <2>2. [pc  |-> IF NeedsPrefix(s, h) THEN "prefix" ELSE "lock",
           h   |-> h,
           row |-> lastRecnum[s][h],
           img |-> img] \in Call
      BY <2>1 DEF Write, Call, Pc, TypeOK, NoPos
    <2>3. QED
      BY <2>1, <2>2, UnchangedTypes DEF Write, TypeOK, history
  <1>7. QED
    BY <1>1, <1>2, <1>3, <1>4, <1>5, <1>6 DEF HandleOp

\* The history of Begin and End keeps its types.
LEMMA BegunType ==
    ASSUME TypeOK, NEW s \in Session, NEW op \in {0, 19, 1019}, Begun(s, op)
    PROVE  /\ begun' \in [Session -> {0, 19, 1019}]
           /\ acked' \in [Session -> SUBSET Row]
           /\ relied' \in [Session -> SUBSET Row]
  BY DEF Begun, TypeOK

\* Begin, End, Abort and Stop keep the types.
LEMMA TxnOpType ==
    ASSUME TypeOK, NEW s \in Session, TxnOp(s)
    PROVE  TypeOK'
  <1>1. CASE \E op \in {19, 1019} : BeginTran(s, op)
    <2>1. PICK op \in {19, 1019} : BeginTran(s, op)
      BY <1>1
    <2>2. CASE Connected(s) /\ BeginTxn(s, Isolation(op)) /\ Activate(s) /\ Begun(s, op)
      <3>1. Isolation(op) \in TxnState
        BY DEF Isolation, TxnState
      <3>2. ServerTypeOK'
        BY <2>2, <3>1, TxnTypes DEF TypeOK
      <3>3. QED
        BY <2>1, <2>2, <3>2, BegunType DEF BeginTran, Connected, Activate, TypeOK
    <2>3. CASE Dropped(s) /\ UNCHANGED <<nextId, txnActive, history>>
      BY <2>1, <2>3, DroppedTypes DEF BeginTran, TypeOK, history
    <2>4. QED
      BY <2>1, <2>2, <2>3 DEF BeginTran
  <1>2. CASE EndTran(s)
    <2>1. ServerTypeOK' /\ conn' \in [Session -> {"none", "live", "dead"}]
      <3>1. CASE EndTranOk(s)
        BY <3>1, EndTypes DEF EndTranOk, Connected, TypeOK
      <3>2. CASE Dropped(s) /\ UNCHANGED nextId
        BY <3>2, DroppedTypes
      <3>3. CASE ConnGone(s) /\ CommitThenDisconnect(s) /\ UNCHANGED nextId
        BY <3>3, CommitThenDisconnectTypes DEF ConnGone, TypeOK
      <3>4. QED
        BY <1>2, <3>1, <3>2, <3>3 DEF EndTran
    <2>2. Begun(s, 0) /\ UNCHANGED <<handles, lastRecnum, prefixed, call>>
      BY <1>2 DEF EndTran
    <2>3. txnActive' \in [Session -> BOOLEAN]
      BY <1>2 DEF EndTran, TypeOK
    <2>4. QED
      BY <2>1, <2>2, <2>3, BegunType DEF TypeOK
  <1>3. CASE AbortTran(s)
    <2>1. /\ ServerTypeOK'
          /\ conn' \in [Session -> {"none", "live", "dead"}]
          /\ lastRecnum' \in [Session -> [Handle -> RecNum \cup {NoPos}]]
      <3>1. CASE /\ AbortTranOk(s)
                 /\ lastRecnum' = [lastRecnum EXCEPT ![s] = [h \in Handle |-> NoPos]]
        BY <3>1, EndTypes DEF AbortTranOk, Connected, TypeOK, NoPos
      <3>2. CASE Dropped(s) /\ UNCHANGED <<nextId, lastRecnum>>
        BY <3>2, DroppedTypes DEF TypeOK
      <3>3. QED
        BY <1>3, <3>1, <3>2 DEF AbortTran
    <2>2. Begun(s, 0) /\ UNCHANGED <<handles, prefixed, call>>
      BY <1>3 DEF AbortTran
    <2>3. txnActive' \in [Session -> BOOLEAN]
      BY <1>3 DEF AbortTran, TypeOK
    <2>4. QED
      BY <2>1, <2>2, <2>3, BegunType DEF TypeOK
  <1>4. CASE Stop(s)
    BY <1>4, DroppedTypes, BegunType DEF Stop, TypeOK, NoPos
  <1>5. QED
    BY <1>1, <1>2, <1>3, <1>4 DEF TxnOp

\* Each statement of Insert, Update and Delete keeps the types.
LEMMA CallStepType ==
    ASSUME TypeOK, NEW s \in Session, CallStep(s)
    PROVE  TypeOK'
  <1>1. Return(s) => call' \in [Session -> Call]
    BY NoCallType DEF Return, TypeOK
  <1>2. ASSUME ~At(s, "idle"), NEW step \in Pc \ {"idle"}, Go(s, step)
        PROVE  call' \in [Session -> Call]
    BY <1>2, GoFacts DEF TypeOK
  <1>3. call[s].row \in RecNum /\ call[s].img \in Image
    BY CallFacts DEF TypeOK
  <1>4. CASE InsertId(s)
    <2>1. lastRecnum' \in [Session -> [Handle -> RecNum \cup {NoPos}]]
      <3>1. call[s].h \in Handle
        BY <1>4, CallFacts DEF InsertId, At, TypeOK
      <3>2. PICK n \in RecNum : lastRecnum' = [lastRecnum EXCEPT ![s][call[s].h] = n]
        BY <1>3, <1>4, RowFacts DEF InsertId
      <3>3. lastRecnum \in [Session -> [Handle -> RecNum \cup {NoPos}]]
        BY DEF TypeOK
      <3>4. QED
        BY <3>1, <3>2, <3>3
    <2>2. ServerTypeOK' /\ conn' \in [Session -> {"none", "live", "dead"}]
      BY <1>4, UnchangedTypes, DroppedTypes DEF InsertId, Connected, TypeOK
    <2>3. QED
      BY <1>1, <1>4, <2>1, <2>2 DEF InsertId, TypeOK, history
  <1>5. CASE ResolvePrefix(s)
    <2>1. ServerTypeOK' /\ conn' \in [Session -> {"none", "live", "dead"}]
      BY <1>5, UnchangedTypes, DroppedTypes DEF ResolvePrefix, Connected, TypeOK
    <2>2. call' \in [Session -> Call]
      BY <1>1, <1>2, <1>5 DEF ResolvePrefix, At, Pc
    <2>3. prefixed' \in [Session -> SUBSET Handle]
      <3>1. call[s].h \in Handle
        BY <1>5, CallFacts DEF ResolvePrefix, At, TypeOK
      <3>2. QED
        BY <1>5, <3>1 DEF ResolvePrefix, TypeOK
    <2>4. QED
      BY <1>5, <2>1, <2>2, <2>3 DEF ResolvePrefix, TypeOK, history
  <1>6. CASE LockRow(s)
    <2>1. ServerTypeOK' /\ conn' \in [Session -> {"none", "live", "dead"}]
      <3>1. CASE LockGranted(s)
        BY <1>3, <3>1, UnchangedTypes, LockTypes DEF LockGranted, Connected, TypeOK
      <3>2. CASE LockRefused(s)
        BY <3>2, UnchangedTypes, EndTypes DEF LockRefused, Connected, TypeOK
      <3>3. QED
        BY <1>6, <3>1, <3>2 DEF LockRow
    <2>2. call' \in [Session -> Call]
      BY <1>1, <1>2, <1>6 DEF LockRow, LockGranted, LockRefused, At, Pc
    <2>3. QED
      BY <1>6, <2>1, <2>2 DEF LockRow, TypeOK, history
  <1>7. CASE Execute(s)
    <2>1. /\ ServerTypeOK'
          /\ conn' \in [Session -> {"none", "live", "dead"}]
          /\ acked' \in [Session -> SUBSET Row]
          /\ UNCHANGED <<begun, relied>>
      <3>1. nextId \in 1 .. MaxRow + 1
        BY DEF TypeOK, ServerTypeOK
      <3>2. CASE Connected(s) /\ call[s].row \in Row /\ UNCHANGED nextId
                 /\ Put(s, call[s].row, call[s].img) /\ Acknowledge(s, call[s].row)
        BY <1>3, <3>1, <3>2, PutTypes DEF Connected, Acknowledge, TypeOK
      <3>3. CASE Connected(s) /\ UNCHANGED <<serverVars, history>>
        BY <3>3, UnchangedTypes DEF Connected, TypeOK, history
      <3>4. CASE Dropped(s) /\ UNCHANGED <<nextId, history>>
        BY <3>4, DroppedTypes DEF TypeOK, history
      <3>5. CASE /\ call[s].row \in Row /\ ConnGone(s)
                 /\ PutThenDisconnect(s, call[s].row, call[s].img)
                 /\ UNCHANGED <<nextId, history>>
        BY <1>3, <3>1, <3>5, PutTypes DEF ConnGone, TypeOK, history
      <3>6. QED
        BY <1>7, <3>2, <3>3, <3>4, <3>5 DEF Execute
    <2>2. call' \in [Session -> Call]
      BY <1>2, <1>7 DEF Execute, At, Pc
    <2>3. QED
      BY <1>7, <2>1, <2>2 DEF Execute, TypeOK
  <1>8. CASE Unlock(s)
    <2>1. ServerTypeOK' /\ conn' \in [Session -> {"none", "live", "dead"}]
      BY <1>3, <1>8, UnchangedTypes, LockTypes, DroppedTypes DEF Unlock, Connected, TypeOK
    <2>2. QED
      BY <1>1, <1>8, <2>1 DEF Unlock, TypeOK, history
  <1>9. QED
    BY <1>4, <1>5, <1>6, <1>7, <1>8 DEF CallStep

\* Every step keeps the types.
LEMMA TypeStep == TypeOK /\ [Next]_vars => TypeOK'
  <1>1. SUFFICES ASSUME TypeOK, [Next]_vars PROVE TypeOK'
    OBVIOUS
  <1>2. CASE UNCHANGED vars
    BY <1>1, <1>2, UnchangedTypes DEF vars, driverVars, history, TypeOK
  <1>3. CASE Next
    <2>1. PICK s \in Session : \/ \E h \in Handle : HandleOp(s, h)
                              \/ TxnOp(s) \/ CallStep(s)
                              \/ ConnectionLost(s) \/ Restart(s)
      BY <1>3 DEF Next
    <2>2. CASE ConnectionLost(s)
      BY <1>1, <2>2, DisconnectTypes DEF ConnectionLost, TypeOK, history
    <2>3. CASE Restart(s)
      BY <1>1, <2>3, DroppedTypes, BegunType, NoCallType
         DEF Restart, Return, TypeOK, NoPos
    <2>4. QED
      BY <1>1, <2>1, <2>2, <2>3, HandleOpType, TxnOpType, CallStepType
  <1>4. QED
    BY <1>1, <1>2, <1>3

\* The driver's and the server's variables keep their types, for any number of
\* sessions, handles, rows and images.
THEOREM TypeCorrect == Spec => []TypeOK
  BY InitType, TypeStep, PTL DEF Spec
-----------------------------------------------------------------------------
(***************************************************************************)
(* The invariant, one session at a time: its transaction and its locks.    *)
(***************************************************************************)
TxnPart(s) ==
    /\ txn[s] # "none" => conn[s] = "live" /\ txnActive[s]
    /\ InTxn(s) => acked[s] = Dirty(s) /\ begun[s] # 0
    /\ ~InTxn(s) => Dirty(s) = {}

TxnInv ==
    /\ \A s \in Session : TxnPart(s)
    /\ \A s, t \in Session : \A r \in Dirty(s) \cap Dirty(t) : s = t

LockPart(s) ==
    /\ \A n \in RecNum :
          appLock[n] = s => /\ Backend # "sqlite"
                            /\ conn[s] = "live"
                            /\ call[s].pc \in {"exec", "unlock"}
                            /\ call[s].row = n
    /\ call[s].pc = "exec" /\ Backend # "sqlite" =>
          \/ conn[s] = "dead"
          \/ conn[s] = "live" /\ appLock[call[s].row] = s

LockInv == \A s \in Session : LockPart(s)

\* The inductive invariant as types, transactions and locks.
LEMMA IInvParts == IInv <=> TypeOK /\ TxnInv /\ LockInv
  BY DEF IInv, OpenTxnIsFlagged, LocksHeldByCalls, TransactionKeepsItsWrites,
         WritesUnderLock, UndoBelongsToTxn, TxnInv, LockInv, TxnPart, LockPart

\* What the other sessions keep while s takes a step.
OthersKeepTxn(s) ==
    \A t \in Session \ {s} :
        txn'[t] = txn[t] /\ undo'[t] = undo[t]
        /\ conn'[t] = conn[t] /\ txnActive'[t] = txnActive[t]
        /\ acked'[t] = acked[t] /\ begun'[t] = begun[t]

OthersKeepLocks(s) ==
    \A t \in Session \ {s} :
        /\ conn'[t] = conn[t] /\ call'[t] = call[t]
        /\ \A n \in RecNum : appLock'[n] = t <=> appLock[n] = t

\* A step of s preserves the invariant when it does so for s.
LEMMA TxnLocal ==
    ASSUME TxnInv, NEW s \in Session, OthersKeepTxn(s), TxnPart(s)',
           \A t \in Session \ {s} : \A r \in Row :
               undo'[s][r] # Clean => undo[t][r] = Clean
    PROVE  TxnInv'
  <1>1. \A t \in Session \ {s} : TxnPart(t)' /\ Dirty(t)' = Dirty(t)
    BY DEF TxnInv, TxnPart, OthersKeepTxn, Dirty, InTxn
  <1>2. \A t, u \in Session : \A r \in Dirty(t)' \cap Dirty(u)' : t = u
    BY <1>1 DEF TxnInv, Dirty
  <1>3. QED
    BY <1>1, <1>2 DEF TxnInv

\* A step that leaves the others' locks alone has to be checked for one session.
LEMMA LockLocal ==
    ASSUME TypeOK, LockInv, NEW s \in Session, OthersKeepLocks(s), LockPart(s)'
    PROVE  LockInv'
  <1>1. ASSUME NEW t \in Session \ {s} PROVE LockPart(t)'
    <2>1. call[t].row \in RecNum
      BY CallFacts DEF TypeOK
    <2>2. QED
      BY <2>1 DEF LockInv, LockPart, OthersKeepLocks
  <1>2. QED
    BY <1>1 DEF LockInv

(***************************************************************************)
(* The kinds of step a transaction sees.                                   *)
(***************************************************************************)
\* A statement that writes nothing.
LEMMA TxnKept ==
    ASSUME TypeOK, TxnInv, NEW s \in Session,
           UNCHANGED <<txn, undo, txnActive, acked, begun>>,
           Connected(s) \/ UNCHANGED conn
    PROVE  TxnInv'
  <1>1. OthersKeepTxn(s)
    BY DEF OthersKeepTxn, Connected, TypeOK
  <1>2. TxnPart(s)'
    BY DEF TxnInv, TxnPart, Connected, InTxn, Dirty, TypeOK
  <1>3. QED
    BY <1>1, <1>2, TxnLocal DEF TxnInv, Dirty

\* The end of a transaction, however it comes about.
Ended(s) ==
    /\ txn'[s] = "none"
    /\ \A r \in Row : undo'[s][r] = Clean

\* A step that ends the transaction of s at the server keeps TxnInv.
LEMMA TxnEnded ==
    ASSUME TypeOK, TxnInv, NEW s \in Session, OthersKeepTxn(s), Ended(s)
    PROVE  TxnInv'
  <1>1. TxnPart(s)'
    BY DEF Ended, TxnPart, InTxn, Dirty
  <1>2. QED
    BY <1>1, TxnLocal DEF Ended

\* What the end of a transaction does to the session and to the others.
LEMMA EndOfTxnEffect ==
    ASSUME TypeOK, NEW s \in Session, EndOfTxn(s, "none")
    PROVE  /\ Ended(s)
           /\ \A t \in Session \ {s} : txn'[t] = txn[t] /\ undo'[t] = undo[t]
  BY DEF EndOfTxn, NoUndo, Ended, TypeOK, ServerTypeOK

\* The connection's locks are released, the others' are not.
LEMMA LocksWithoutEffect ==
    ASSUME TypeOK, NEW s \in Session, appLock' = LocksWithout(s)
    PROVE  /\ \A n \in RecNum : appLock'[n] # s
           /\ \A t \in Session \ {s} : \A n \in RecNum : appLock'[n] = t <=> appLock[n] = t
  BY MarkerAssumption DEF LocksWithout, TypeOK, ServerTypeOK

\* The connection goes, and the transaction and the locks of s with it.
LEMMA DroppedEffect ==
    ASSUME TypeOK, TxnInv, NEW s \in Session,
           \/ Dropped(s)
           \/ ConnGone(s) /\ CommitThenDisconnect(s)
           \/ \E r \in Row, img \in Image : ConnGone(s) /\ PutThenDisconnect(s, r, img)
    PROVE  /\ Ended(s)
           /\ conn'[s] = "none"
           /\ \A n \in RecNum : appLock'[n] # s
           /\ \A t \in Session \ {s} :
                 /\ txn'[t] = txn[t] /\ undo'[t] = undo[t] /\ conn'[t] = conn[t]
                 /\ \A n \in RecNum : appLock'[n] = t <=> appLock[n] = t
  <1>1. appLock' = LocksWithout(s) /\ ConnGone(s)
    BY DEF Dropped, Disconnect, CommitThenDisconnect, PutThenDisconnect
  <1>2. conn'[s] = "none" /\ \A t \in Session \ {s} : conn'[t] = conn[t]
    BY <1>1 DEF ConnGone, TypeOK
  <1>3. Ended(s) /\ \A t \in Session \ {s} : txn'[t] = txn[t] /\ undo'[t] = undo[t]
    <2>1. CASE EndOfTxn(s, "none")
      BY <2>1, EndOfTxnEffect
    <2>2. CASE \E r \in Row, img \in Image : PutThenDisconnect(s, r, img)
      BY <2>2 DEF PutThenDisconnect, Ended, TxnInv, TxnPart, InTxn, Dirty
    <2>3. QED
      BY <2>1, <2>2 DEF Dropped, Disconnect, CommitThenDisconnect
  <1>4. QED
    BY <1>1, <1>2, <1>3, LocksWithoutEffect

\* A write that the caller is told has succeeded.
LEMMA TxnWritten ==
    ASSUME TypeOK, TxnInv, NEW s \in Session, NEW r \in Row, NEW img \in Image,
           Connected(s), Put(s, r, img), Acknowledge(s, r), UNCHANGED txnActive
    PROVE  TxnInv'
  <1>1. db[r] # Clean
    BY RowFacts DEF TypeOK, ServerTypeOK
  <1>2. OthersKeepTxn(s)
    BY DEF OthersKeepTxn, Connected, Put, Acknowledge, TypeOK, ServerTypeOK
  <1>3. \A t \in Session \ {s} : \A q \in Row : undo'[s][q] # Clean => undo[t][q] = Clean
    BY DEF Put, Conflicts, TxnInv, Dirty, TypeOK, ServerTypeOK
  <1>4. TxnPart(s)'
    <2>1. CASE InTxn(s)
      <3>1. Dirty(s)' = Dirty(s) \cup {r}
        BY <1>1, <2>1 DEF Put, Dirty, TypeOK, ServerTypeOK
      <3>2. acked'[s] = acked[s] \cup {r}
        BY <2>1 DEF Acknowledge, TxnInv, TxnPart, TypeOK
      <3>3. QED
        BY <2>1, <3>1, <3>2
           DEF TxnInv, TxnPart, InTxn, Put, Acknowledge, Connected, TypeOK
    <2>2. CASE ~InTxn(s)
      BY <2>2 DEF TxnInv, TxnPart, InTxn, Put, Dirty, Connected, TypeOK
    <2>3. QED
      BY <2>1, <2>2
  <1>5. QED
    BY <1>2, <1>3, <1>4, TxnLocal

\* A failed statement on Postgres, where the connection survives.
LEMMA TxnFailed ==
    ASSUME TypeOK, TxnInv, NEW s \in Session,
           Connected(s), FailTxn(s), UNCHANGED <<txnActive, acked, begun>>
    PROVE  TxnInv'
  <1>1. \A r \in Row : undo'[s][r] = Clean
    BY DEF FailTxn, EndOfTxn, NoUndo, TypeOK, ServerTypeOK
  <1>2. OthersKeepTxn(s)
    BY DEF OthersKeepTxn, Connected, FailTxn, EndOfTxn, TypeOK, ServerTypeOK
  <1>3. txn'[s] = IF txn[s] = "none" THEN "none" ELSE "aborted"
    BY DEF FailTxn, EndOfTxn, TypeOK, ServerTypeOK
  <1>4. TxnPart(s)'
    BY <1>1, <1>3 DEF TxnInv, TxnPart, InTxn, Dirty, Connected, TypeOK
  <1>5. QED
    BY <1>1, <1>2, <1>4, TxnLocal

\* Begin keeps TxnInv.
LEMMA TxnBegun ==
    ASSUME TypeOK, TxnInv, NEW s \in Session, NEW op \in {19, 1019},
           ~txnActive[s], Connected(s), BeginTxn(s, Isolation(op)),
           Activate(s), Begun(s, op)
    PROVE  TxnInv'
  <1>1. \A r \in Row : undo'[s][r] = Clean
    BY DEF TxnInv, TxnPart, InTxn, Dirty, BeginTxn
  <1>2. OthersKeepTxn(s)
    BY DEF OthersKeepTxn, Connected, BeginTxn, Activate, Begun, TypeOK, ServerTypeOK
  <1>3. TxnPart(s)'
    BY <1>1 DEF TxnPart, InTxn, Dirty, Connected, BeginTxn, Activate, Begun,
                Isolation, TypeOK, ServerTypeOK
  <1>4. QED
    BY <1>1, <1>2, <1>3, TxnLocal
(***************************************************************************)
(* The kinds of step a lock sees.                                          *)
(***************************************************************************)
\* A step outside the locked part of a call.
LEMMA LockQuiet ==
    ASSUME TypeOK, LockInv, NEW s \in Session, OthersKeepLocks(s),
           call'[s].pc # "exec",
           \/ \A n \in RecNum : appLock'[n] # s
           \/ call[s].pc \notin {"exec", "unlock"} /\ UNCHANGED appLock
    PROVE  LockInv'
  <1>1. \A n \in RecNum : appLock'[n] # s
    BY DEF LockInv, LockPart
  <1>2. LockPart(s)'
    BY <1>1 DEF LockPart
  <1>3. QED
    BY <1>2, LockLocal

\* The connection goes.
LEMMA DroppedStep ==
    ASSUME TypeOK, TxnInv, LockInv, NEW s \in Session,
           \/ Dropped(s)
           \/ ConnGone(s) /\ CommitThenDisconnect(s)
           \/ \E r \in Row, img \in Image : ConnGone(s) /\ PutThenDisconnect(s, r, img),
           call'[s].pc # "exec",
           \A t \in Session \ {s} :
               /\ txnActive'[t] = txnActive[t]
               /\ acked'[t] = acked[t]
               /\ begun'[t] = begun[t]
               /\ call'[t] = call[t]
    PROVE  TxnInv' /\ LockInv'
  <1>1. OthersKeepTxn(s) /\ OthersKeepLocks(s)
    BY DroppedEffect DEF OthersKeepTxn, OthersKeepLocks
  <1>2. Ended(s) /\ \A n \in RecNum : appLock'[n] # s
    BY DroppedEffect
  <1>3. QED
    BY <1>1, <1>2, TxnEnded, LockQuiet

\* A call that returns is over, and the others' calls go on.
LEMMA ReturnFacts ==
    ASSUME TypeOK, NEW s \in Session, Return(s)
    PROVE  call'[s].pc = "idle" /\ \A t \in Session \ {s} : call'[t] = call[t]
  BY DEF Return, NoCall, TypeOK

\* A call that goes on keeps its row, and the others' calls go on.
LEMMA GoKeeps ==
    ASSUME TypeOK, NEW s \in Session, ~At(s, "idle"),
           NEW step \in Pc \ {"idle"}, Go(s, step)
    PROVE  /\ call'[s].pc = step /\ call'[s].row = call[s].row
           /\ \A t \in Session \ {s} : call'[t] = call[t]
  BY GoFacts DEF TypeOK

\* A statement on a working connection keeps the other sessions' connections.
LEMMA ConnectedFacts ==
    ASSUME TypeOK, NEW s \in Session, Connected(s) \/ UNCHANGED conn
    PROVE  /\ \A t \in Session \ {s} : conn'[t] = conn[t]
           /\ Connected(s) => conn[s] # "dead" /\ conn'[s] = "live"
  BY DEF Connected, TypeOK

(***************************************************************************)
(* One lemma per group of actions: each action preserves the invariant.    *)
(***************************************************************************)
LEMMA HandleOpInv ==
    ASSUME TypeOK, TxnInv, LockInv, NEW s \in Session, NEW h \in Handle, HandleOp(s, h)
    PROVE  TxnInv' /\ LockInv'
  <1>1. CASE Open(s, h) \/ Close(s, h) \/ Reset(s, h)
    <2>1. /\ UNCHANGED <<txn, undo, txnActive, acked, begun, conn, appLock, call>>
          /\ At(s, "idle")
      BY <1>1 DEF Open, Close, Reset, serverVars, history
    <2>2. QED
      BY <2>1, TxnKept, LockQuiet DEF OthersKeepLocks, At
  <1>2. CASE \E img \in Image : Write(s, h, img)
    <2>1. UNCHANGED <<txn, undo, txnActive, acked, begun, conn, appLock>>
      BY <1>2 DEF Write, serverVars, history
    <2>2. At(s, "idle") /\ call'[s].pc \in {"prefix", "lock"}
      BY <1>2 DEF Write, TypeOK
    <2>3. \A t \in Session \ {s} : call'[t] = call[t]
      BY <1>2 DEF Write, TypeOK
    <2>4. QED
      BY <2>1, <2>2, <2>3, TxnKept, LockQuiet DEF OthersKeepLocks, At
  <1>3. CASE Read(s, h)
    <2>1. At(s, "idle") /\ UNCHANGED <<call, txnActive>>
      BY <1>3 DEF Read
    <2>2. CASE Dropped(s) /\ UNCHANGED history
      BY <2>1, <2>2, DroppedStep DEF At, history
    <2>3. CASE Connected(s) /\ UNCHANGED <<txn, undo, appLock, acked, begun>>
      BY <2>1, <2>3, TxnKept, LockQuiet, ConnectedFacts DEF OthersKeepLocks, At
    <2>4. QED
      BY <1>3, <2>2, <2>3 DEF Read, ReadRow, Rely, serverVars, history
  <1>4. CASE \E v \in Val : Insert(s, h, v)
    <2>1. PICK v \in Val : Insert(s, h, v)
      BY <1>4
    <2>2. At(s, "idle") /\ nextId \in Row /\ v \in Image /\ UNCHANGED txnActive
      BY <2>1 DEF Insert, Image
    <2>3. CASE /\ Connected(s)
               /\ InsertStatement(s, v)
               /\ Acknowledge(s, nextId)
               /\ call' = [call EXCEPT ![s] =
                              [pc |-> "lastid", h |-> h, row |-> nextId, img |-> v]]
      <3>1. TxnInv'
        BY <2>2, <2>3, TxnWritten DEF InsertStatement
      <3>2. call'[s].pc = "lastid" /\ \A t \in Session \ {s} : call'[t] = call[t]
        BY <2>3 DEF TypeOK
      <3>3. UNCHANGED appLock
        BY <2>3 DEF InsertStatement, Put
      <3>4. LockInv'
        BY <2>2, <2>3, <3>2, <3>3, LockQuiet, ConnectedFacts DEF OthersKeepLocks, At
      <3>5. QED
        BY <3>1, <3>4
    <2>4. CASE Dropped(s) /\ UNCHANGED <<nextId, call, history>>
      BY <2>2, <2>4, DroppedStep DEF At, history
    <2>5. CASE /\ conn[s] # "dead"
               /\ ConnGone(s)
               /\ PutThenDisconnect(s, nextId, v)
               /\ nextId' = nextId + 1
               /\ UNCHANGED <<call, history>>
      BY <2>2, <2>5, DroppedStep DEF At, history
    <2>6. QED
      BY <2>1, <2>3, <2>4, <2>5 DEF Insert
  <1>5. QED
    BY <1>1, <1>2, <1>3, <1>4 DEF HandleOp

\* Begin and End leave the histories of the other sessions alone.
LEMMA BegunOthers ==
    ASSUME TypeOK, NEW s \in Session, NEW op, Begun(s, op)
    PROVE  \A t \in Session \ {s} : acked'[t] = acked[t] /\ begun'[t] = begun[t]
  BY DEF Begun, TypeOK

\* Begin, End, Abort and Stop keep the invariant.
LEMMA TxnOpInv ==
    ASSUME TypeOK, TxnInv, LockInv, NEW s \in Session, TxnOp(s)
    PROVE  TxnInv' /\ LockInv'
  <1>1. At(s, "idle") /\ UNCHANGED call
    BY DEF TxnOp, BeginTran, EndTran, AbortTran, Stop
  <1>2. CASE \E op \in {19, 1019} : BeginTran(s, op)
    <2>1. PICK op \in {19, 1019} : BeginTran(s, op)
      BY <1>2
    <2>2. CASE Connected(s) /\ BeginTxn(s, Isolation(op)) /\ Activate(s) /\ Begun(s, op)
      <3>1. TxnInv'
        BY <2>1, <2>2, TxnBegun DEF BeginTran
      <3>2. LockInv'
        BY <1>1, <2>2, LockQuiet, ConnectedFacts DEF OthersKeepLocks, BeginTxn, At
      <3>3. QED
        BY <3>1, <3>2
    <2>3. CASE Dropped(s) /\ UNCHANGED <<txnActive, history>>
      BY <1>1, <2>3, DroppedStep DEF At, history
    <2>4. QED
      BY <2>1, <2>2, <2>3 DEF BeginTran
  <1>3. CASE EndTran(s) \/ AbortTran(s)
    <2>1. /\ Begun(s, 0)
          /\ \A t \in Session \ {s} : txnActive'[t] = txnActive[t]
      BY <1>3 DEF EndTran, AbortTran, TypeOK
    <2>2. CASE EndTranOk(s) \/ AbortTranOk(s)
      <3>1. Connected(s) /\ EndOfTxn(s, "none") /\ UNCHANGED appLock
        BY <2>2 DEF EndTranOk, AbortTranOk, CommitTxn, RollbackTxn
      <3>2. OthersKeepTxn(s) /\ Ended(s)
        BY <2>1, <3>1, BegunOthers, EndOfTxnEffect, ConnectedFacts DEF OthersKeepTxn
      <3>3. OthersKeepLocks(s)
        BY <1>1, <3>1, ConnectedFacts DEF OthersKeepLocks
      <3>4. QED
        BY <1>1, <3>1, <3>2, <3>3, TxnEnded, LockQuiet DEF At
    <2>3. CASE Dropped(s) \/ (ConnGone(s) /\ CommitThenDisconnect(s))
      BY <1>1, <2>1, <2>3, BegunOthers, DroppedStep DEF At
    <2>4. EndTran(s) => \/ EndTranOk(s) \/ Dropped(s)
                        \/ ConnGone(s) /\ CommitThenDisconnect(s)
      BY DEF EndTran
    <2>5. AbortTran(s) => AbortTranOk(s) \/ Dropped(s)
      BY DEF AbortTran
    <2>6. QED
      BY <1>3, <2>2, <2>3, <2>4, <2>5
  <1>4. CASE Stop(s)
    BY <1>1, <1>4, BegunOthers, DroppedStep DEF Stop, At
  <1>5. QED
    BY <1>2, <1>3, <1>4 DEF TxnOp

\* Each statement of Insert, Update and Delete keeps the invariant.
LEMMA CallStepInv ==
    ASSUME TypeOK, TxnInv, LockInv, NEW s \in Session, CallStep(s)
    PROVE  TxnInv' /\ LockInv'
  <1>1. UNCHANGED txnActive
    BY DEF CallStep, InsertId, ResolvePrefix, LockRow, Execute, Unlock
  <1>2. call[s].row \in RecNum
    BY CallFacts DEF TypeOK
  <1>3. CASE InsertId(s)
    <2>1. Return(s) /\ UNCHANGED history /\ At(s, "lastid")
      BY <1>3 DEF InsertId
    <2>2. CASE Dropped(s)
      BY <1>1, <2>1, <2>2, ReturnFacts, DroppedStep DEF history
    <2>3. CASE Connected(s) /\ UNCHANGED serverVars
      BY <1>1, <2>1, <2>3, ReturnFacts, ConnectedFacts, TxnKept, LockQuiet
         DEF OthersKeepLocks, At, serverVars, history
    <2>4. QED
      BY <1>3, <2>2, <2>3 DEF InsertId
  <1>4. CASE ResolvePrefix(s)
    <2>1. UNCHANGED history /\ At(s, "prefix")
      BY <1>4 DEF ResolvePrefix
    <2>2. CASE Dropped(s) /\ Return(s)
      BY <1>1, <2>1, <2>2, ReturnFacts, DroppedStep DEF history
    <2>3. CASE Go(s, "lock") /\ UNCHANGED serverVars /\ (Connected(s) \/ UNCHANGED conn)
      <3>1. call'[s].pc = "lock" /\ \A t \in Session \ {s} : call'[t] = call[t]
        BY <2>1, <2>3, GoKeeps DEF At, Pc
      <3>2. QED
        BY <1>1, <2>1, <2>3, <3>1, ConnectedFacts, TxnKept, LockQuiet
           DEF OthersKeepLocks, At, serverVars, history
    <2>4. QED
      BY <1>4, <2>2, <2>3 DEF ResolvePrefix
  <1>5. CASE LockRow(s)
    <2>1. UNCHANGED history /\ At(s, "lock")
      BY <1>5 DEF LockRow
    <2>2. CASE LockGranted(s)
      <3>1. /\ call'[s].pc = "exec" /\ call'[s].row = call[s].row
            /\ \A t \in Session \ {s} : call'[t] = call[t]
        BY <2>1, <2>2, GoKeeps DEF LockGranted, At, Pc
      <3>2. Connected(s) \/ UNCHANGED conn
        BY <2>2 DEF LockGranted
      <3>3. UNCHANGED <<txn, undo>>
        BY <2>2 DEF LockGranted, TakeAppLock, serverVars
      <3>4. TxnInv'
        BY <1>1, <2>1, <3>2, <3>3, TxnKept DEF history
      <3>5. \A t \in Session \ {s} : \A n \in RecNum : appLock'[n] = t <=> appLock[n] = t
        BY <1>2, <2>2, MarkerAssumption
           DEF LockGranted, TakeAppLock, serverVars, TypeOK, ServerTypeOK
      <3>6. OthersKeepLocks(s)
        BY <3>1, <3>2, <3>5, ConnectedFacts DEF OthersKeepLocks
      <3>7. LockPart(s)'
        <4>1. \A n \in RecNum : appLock[n] # s
          BY <2>1 DEF LockInv, LockPart, At
        <4>2. CASE Backend = "sqlite"
          BY <2>2, <3>1, <4>1, <4>2 DEF LockGranted, LockPart, serverVars
        <4>3. CASE Backend # "sqlite"
          <5>1. appLock'[call[s].row] = s /\ conn'[s] = "live"
            BY <1>2, <2>2, <4>3, ConnectedFacts
               DEF LockGranted, TakeAppLock, TypeOK, ServerTypeOK
          <5>2. \A n \in RecNum : appLock'[n] = s => n = call[s].row
            BY <1>2, <2>2, <4>1, <4>3 DEF LockGranted, TakeAppLock, TypeOK, ServerTypeOK
          <5>3. QED
            BY <3>1, <4>3, <5>1, <5>2 DEF LockPart
        <4>4. QED
          BY <4>2, <4>3
      <3>8. QED
        BY <3>4, <3>6, <3>7, LockLocal
    <2>3. CASE LockRefused(s)
      <3>1. call'[s].pc = "idle" /\ \A t \in Session \ {s} : call'[t] = call[t]
        BY <2>3, ReturnFacts DEF LockRefused
      <3>2. (Connected(s) \/ UNCHANGED conn) /\ UNCHANGED appLock
        BY <2>3 DEF LockRefused, FailTxn, serverVars
      <3>3. LockInv'
        BY <2>1, <3>1, <3>2, ConnectedFacts, LockQuiet DEF OthersKeepLocks, At
      <3>4. CASE Connected(s) /\ FailTxn(s)
        BY <1>1, <2>1, <3>3, <3>4, TxnFailed DEF history
      <3>5. CASE UNCHANGED serverVars
        BY <1>1, <2>1, <3>2, <3>3, <3>5, TxnKept DEF serverVars, history
      <3>6. QED
        BY <2>3, <3>4, <3>5 DEF LockRefused
    <2>4. QED
      BY <1>5, <2>2, <2>3 DEF LockRow
  <1>6. CASE Execute(s)
    <2>1. /\ At(s, "exec") /\ call'[s].pc = "unlock" /\ call'[s].row = call[s].row
          /\ \A t \in Session \ {s} : call'[t] = call[t]
      BY <1>6, GoKeeps DEF Execute, At, Pc
    <2>2. ASSUME Connected(s), UNCHANGED appLock PROVE LockInv'
      <3>1. OthersKeepLocks(s)
        BY <2>1, <2>2, ConnectedFacts DEF OthersKeepLocks
      <3>2. LockPart(s)'
        BY <2>1, <2>2, ConnectedFacts DEF LockInv, LockPart, At
      <3>3. QED
        BY <3>1, <3>2, LockLocal
    <2>3. CASE Connected(s) /\ UNCHANGED <<serverVars, history>>
      BY <1>1, <2>2, <2>3, TxnKept DEF serverVars, history
    <2>4. CASE \E r \in Row, img \in Image :
                   Connected(s) /\ Put(s, r, img) /\ Acknowledge(s, r)
      BY <1>1, <2>2, <2>4, TxnWritten DEF Put
    <2>5. CASE /\ UNCHANGED history
               /\ \/ Dropped(s)
                  \/ \E r \in Row, img \in Image :
                         ConnGone(s) /\ PutThenDisconnect(s, r, img)
      BY <1>1, <2>1, <2>5, DroppedStep DEF history
    <2>6. call[s].img \in Image
      BY CallFacts DEF TypeOK
    <2>7. QED
      BY <1>6, <2>3, <2>4, <2>5, <2>6 DEF Execute
  <1>7. CASE Unlock(s)
    <2>1. Return(s) /\ UNCHANGED history /\ At(s, "unlock")
      BY <1>7 DEF Unlock
    <2>2. CASE Dropped(s)
      BY <1>1, <2>1, <2>2, ReturnFacts, DroppedStep DEF history
    <2>3. CASE ~Dropped(s)
      <3>1. (Connected(s) \/ UNCHANGED conn) /\ UNCHANGED <<txn, undo>>
        BY <1>7, <2>3 DEF Unlock, ReleaseAppLock, serverVars
      <3>2. \A n \in RecNum : appLock[n] = s => Backend # "sqlite" /\ n = call[s].row
        BY DEF LockInv, LockPart
      <3>3. /\ \A n \in RecNum : appLock'[n] # s
            /\ \A t \in Session \ {s} : \A n \in RecNum : appLock'[n] = t <=> appLock[n] = t
        <4>1. CASE ReleaseAppLock(s, call[s].row)
          BY <1>2, <3>2, <4>1, MarkerAssumption DEF ReleaseAppLock, TypeOK, ServerTypeOK
        <4>2. CASE UNCHANGED appLock /\ (Backend = "sqlite" \/ appLock[call[s].row] # s)
          BY <3>2, <4>2
        <4>3. QED
          BY <1>7, <2>3, <4>1, <4>2 DEF Unlock, serverVars
      <3>4. QED
        BY <1>1, <2>1, <3>1, <3>3, ReturnFacts, ConnectedFacts, TxnKept, LockQuiet
           DEF OthersKeepLocks, history
    <2>4. QED
      BY <2>2, <2>3
  <1>8. QED
    BY <1>3, <1>4, <1>5, <1>6, <1>7 DEF CallStep

\* ConnectionLost leaves the call where it is, also between lock and write.
LEMMA ConnectionLostInv ==
    ASSUME TypeOK, TxnInv, LockInv, NEW s \in Session, ConnectionLost(s)
    PROVE  TxnInv' /\ LockInv'
  <1>1. EndOfTxn(s, "none") /\ appLock' = LocksWithout(s)
        /\ UNCHANGED <<txnActive, call, acked, begun>>
    BY DEF ConnectionLost, Disconnect, history
  <1>2. conn'[s] = "dead" /\ \A t \in Session \ {s} : conn'[t] = conn[t]
    BY DEF ConnectionLost, TypeOK
  <1>3. TxnInv'
    BY <1>1, <1>2, EndOfTxnEffect, TxnEnded DEF OthersKeepTxn
  <1>4. OthersKeepLocks(s) /\ LockPart(s)'
    BY <1>1, <1>2, LocksWithoutEffect DEF OthersKeepLocks, LockPart
  <1>5. QED
    BY <1>3, <1>4, LockLocal

\* The initial states satisfy the invariant.
LEMMA InitInv == Init => TxnInv /\ LockInv
  <1>1. SUFFICES ASSUME Init PROVE TxnInv /\ LockInv
    OBVIOUS
  <1>2. TxnInv
    BY <1>1 DEF Init, ServerInit, NoUndo, TxnInv, TxnPart, InTxn, Dirty
  <1>3. LockInv
    BY <1>1, MarkerAssumption DEF Init, ServerInit, NoCall, LockInv, LockPart
  <1>4. QED
    BY <1>2, <1>3

\* Every step keeps the invariant.
LEMMA IInvStep == IInv /\ [Next]_vars => IInv'
  <1>1. SUFFICES ASSUME TypeOK, TxnInv, LockInv, [Next]_vars
                 PROVE  IInv'
    BY IInvParts
  <1>2. TypeOK'
    BY <1>1, TypeStep
  <1>3. CASE UNCHANGED vars
    BY <1>1, <1>2, <1>3, IInvParts
       DEF vars, serverVars, driverVars, history, TxnInv, TxnPart, LockInv, LockPart,
           InTxn, Dirty, IInv, OpenTxnIsFlagged, LocksHeldByCalls,
           TransactionKeepsItsWrites, WritesUnderLock, UndoBelongsToTxn
  <1>4. CASE Next
    <2>1. PICK s \in Session : \/ \E h \in Handle : HandleOp(s, h)
                              \/ TxnOp(s) \/ CallStep(s)
                              \/ ConnectionLost(s) \/ Restart(s)
      BY <1>4 DEF Next
    <2>2. TxnInv' /\ LockInv'
      <3>1. CASE Restart(s)
        <4>1. \A t \in Session \ {s} : txnActive'[t] = txnActive[t]
          BY <1>1, <3>1 DEF Restart, TypeOK
        <4>2. QED
          BY <1>1, <3>1, <4>1, ReturnFacts, BegunOthers, DroppedStep DEF Restart
      <3>2. QED
        BY <1>1, <2>1, <3>1, HandleOpInv, TxnOpInv, CallStepInv, ConnectionLostInv
    <2>3. QED
      BY <1>2, <2>2 DEF IInv, OpenTxnIsFlagged, LocksHeldByCalls,
         TransactionKeepsItsWrites, WritesUnderLock, UndoBelongsToTxn,
         TxnInv, LockInv, TxnPart, LockPart
  <1>5. QED
    BY <1>1, <1>3, <1>4

-----------------------------------------------------------------------------
\* IInv is inductive: it holds in every reachable state, on all three servers.
THEOREM InductiveInvariant == Spec => []IInv
  <1>1. Init => IInv
    BY InitType, InitInv, IInvParts
  <1>2. QED
    BY <1>1, IInvStep, PTL DEF Spec

\* No path of a connection, a commit or a restart leaves a transaction open at
\* the server that the driver believes is not there.
THEOREM OpenTxnFlagged == Spec => []OpenTxnIsFlagged
  <1>1. IInv => OpenTxnIsFlagged
    BY DEF IInv
  <1>2. QED
    BY <1>1, InductiveInvariant, PTL

\* No application lock outlives the Update or Delete that took it.
THEOREM LocksReturned == Spec => []LocksHeldByCalls
  <1>1. IInv => LocksHeldByCalls
    BY DEF IInv
  <1>2. QED
    BY <1>1, InductiveInvariant, PTL

\* Two sessions never both go on to write a row under its lock.
THEOREM WritersExcluded == Spec => []OneWriterPerRow
  <1>1. IInv => OneWriterPerRow
    BY DEF IInv, OneWriterPerRow, Writing, WritesUnderLock
  <1>2. QED
    BY <1>1, InductiveInvariant, PTL

\* What End will commit and Abort undo is what the caller was told was written.
THEOREM WritesKept == Spec => []TransactionKeepsItsWrites
  <1>1. IInv => TransactionKeepsItsWrites
    BY DEF IInv
  <1>2. QED
    BY <1>1, InductiveInvariant, PTL

-----------------------------------------------------------------------------
(***************************************************************************)
(* What a step does to the rows and to the transactions: five kinds, which *)
(* the refinement and the stability of reads are each proved for.          *)
(***************************************************************************)
Quiet == UNCHANGED <<db, undo, txn, shared, relied, begun>>

Reads(s) == \E r \in Row : ReadRow(s, r) /\ Rely(s, r)

Begins(s) ==
    /\ ~txnActive[s]
    /\ \E op \in {19, 1019} : BeginTxn(s, Isolation(op)) /\ Begun(s, op)

WritesTo(s, r, img) ==
    /\ ~Conflicts(s, r)
    /\ db' = [db EXCEPT ![r] = img]
    /\ undo' = IF InTxn(s) /\ undo[s][r] = Clean
               THEN [undo EXCEPT ![s][r] = db[r]]
               ELSE undo
    /\ UNCHANGED <<txn, shared, relied, begun>>

Writes(s) == \E r \in Row, img \in Image : WritesTo(s, r, img)

\* The reads an exclusive transaction relied on are forgotten with its Begin.
ForgetsAtMost(s) ==
    \/ UNCHANGED <<relied, begun>>
    \/ Begun(s, 0)

Ends(s) ==
    /\ \E state \in {"none", "aborted"} : EndOfTxn(s, state)
    /\ db' = db \/ db' = Undone(s)
    /\ ForgetsAtMost(s)

Kinds(s) == Quiet \/ Reads(s) \/ Begins(s) \/ Writes(s) \/ Ends(s)

\* A dropped connection ends the transaction, or has written outside one.
LEMMA DroppedKind ==
    ASSUME NEW s \in Session, ForgetsAtMost(s), Disconnect(s) \/ CommitThenDisconnect(s)
    PROVE  Ends(s)
  BY DEF Ends, Disconnect, CommitThenDisconnect

\* A write whose reply is lost is a write.
LEMMA LostPutKind ==
    ASSUME NEW s \in Session, NEW r \in Row, NEW img \in Image,
           PutThenDisconnect(s, r, img), UNCHANGED <<relied, begun>>
    PROVE  Writes(s)
  BY DEF Writes, WritesTo, PutThenDisconnect, InTxn

\* So is one that is acknowledged.
LEMMA PutKind ==
    ASSUME NEW s \in Session, NEW r \in Row, NEW img \in Image,
           Put(s, r, img), Acknowledge(s, r)
    PROVE  Writes(s)
  BY DEF Writes, WritesTo, Put, Acknowledge

\* A statement that leaves the server and the history alone is quiet.
LEMMA QuietKind ==
    ASSUME UNCHANGED serverVars, UNCHANGED history
    PROVE  Quiet
  BY DEF Quiet, serverVars, history

\* The operations on handles: of them only a read and Insert reach the rows.
LEMMA HandleOpKind ==
    ASSUME TypeOK, NEW s \in Session, NEW h \in Handle, HandleOp(s, h)
    PROVE  Kinds(s)
  <1>1. CASE Open(s, h) \/ Close(s, h) \/ Reset(s, h) \/ \E img \in Image : Write(s, h, img)
    <2>1. UNCHANGED serverVars /\ UNCHANGED history
      BY <1>1 DEF Open, Close, Reset, Write
    <2>2. QED
      BY <2>1, QuietKind DEF Kinds
  <1>2. CASE Read(s, h)
    <2>1. CASE \E r \in Row : ReadRow(s, r) /\ Rely(s, r)
      BY <2>1 DEF Kinds, Reads
    <2>2. CASE UNCHANGED serverVars /\ UNCHANGED history
      BY <2>2, QuietKind DEF Kinds
    <2>3. CASE Dropped(s) /\ UNCHANGED history
      BY <2>3, DroppedKind DEF Kinds, Dropped, ForgetsAtMost, history
    <2>4. QED
      BY <1>2, <2>1, <2>2, <2>3 DEF Read
  <1>3. CASE \E v \in Val : Insert(s, h, v)
    <2>1. PICK v \in Val : Insert(s, h, v)
      BY <1>3
    <2>2. nextId \in Row /\ v \in Image
      BY <2>1 DEF Insert, Image
    <2>3. CASE InsertStatement(s, v) /\ Acknowledge(s, nextId)
      BY <2>2, <2>3, PutKind DEF Kinds, InsertStatement
    <2>4. CASE Dropped(s) /\ UNCHANGED history
      BY <2>4, DroppedKind DEF Kinds, Dropped, ForgetsAtMost, history
    <2>5. CASE PutThenDisconnect(s, nextId, v) /\ UNCHANGED history
      BY <2>2, <2>5, LostPutKind DEF Kinds, history
    <2>6. QED
      BY <2>1, <2>3, <2>4, <2>5 DEF Insert
  <1>4. QED
    BY <1>1, <1>2, <1>3 DEF HandleOp

\* Begin, End, Abort and Stop.
LEMMA TxnOpKind ==
    ASSUME TypeOK, NEW s \in Session, TxnOp(s)
    PROVE  Kinds(s)
  <1>1. CASE \E op \in {19, 1019} : BeginTran(s, op)
    <2>1. PICK op \in {19, 1019} : BeginTran(s, op)
      BY <1>1
    <2>2. CASE BeginTxn(s, Isolation(op)) /\ Begun(s, op)
      BY <2>1, <2>2 DEF Kinds, Begins, BeginTran
    <2>3. CASE Dropped(s) /\ UNCHANGED history
      BY <2>3, DroppedKind DEF Kinds, Dropped, ForgetsAtMost, history
    <2>4. QED
      BY <2>1, <2>2, <2>3 DEF BeginTran
  <1>2. CASE EndTran(s) \/ AbortTran(s)
    <2>1. ForgetsAtMost(s)
      BY <1>2 DEF EndTran, AbortTran, ForgetsAtMost
    <2>2. \/ CommitTxn(s) \/ RollbackTxn(s)
          \/ Disconnect(s) \/ CommitThenDisconnect(s)
      BY <1>2 DEF EndTran, AbortTran, EndTranOk, AbortTranOk, Dropped
    <2>3. QED
      BY <2>1, <2>2, DroppedKind DEF Kinds, Ends, CommitTxn, RollbackTxn
  <1>3. CASE Stop(s)
    BY <1>3, DroppedKind DEF Kinds, Stop, Dropped, ForgetsAtMost
  <1>4. QED
    BY <1>1, <1>2, <1>3 DEF TxnOp

\* The statements of Insert, Update and Delete.
LEMMA CallStepKind ==
    ASSUME TypeOK, NEW s \in Session, CallStep(s)
    PROVE  Kinds(s)
  <1>1. call[s].row \in RecNum /\ call[s].img \in Image
    BY CallFacts DEF TypeOK
  <1>2. CASE Execute(s)
    <2>1. CASE \E r \in Row, img \in Image : Put(s, r, img) /\ Acknowledge(s, r)
      BY <2>1, PutKind DEF Kinds
    <2>2. CASE UNCHANGED serverVars /\ UNCHANGED history
      BY <2>2, QuietKind DEF Kinds
    <2>3. CASE Dropped(s) /\ UNCHANGED history
      BY <2>3, DroppedKind DEF Kinds, Dropped, ForgetsAtMost, history
    <2>4. CASE (\E r \in Row, img \in Image : PutThenDisconnect(s, r, img)) /\ UNCHANGED history
      BY <2>4, LostPutKind DEF Kinds, history
    <2>5. QED
      BY <1>1, <1>2, <2>1, <2>2, <2>3, <2>4 DEF Execute
  <1>3. CASE ~Execute(s)
    <2>1. UNCHANGED history
      BY <1>3 DEF CallStep, InsertId, ResolvePrefix, LockRow, Unlock
    <2>2. CASE UNCHANGED <<db, undo, txn, shared>>
      BY <2>1, <2>2 DEF Kinds, Quiet, history
    <2>3. CASE Dropped(s)
      BY <2>1, <2>3, DroppedKind DEF Kinds, Dropped, ForgetsAtMost, history
    <2>4. CASE FailTxn(s)
      BY <2>1, <2>4 DEF Kinds, Ends, FailTxn, ForgetsAtMost, history
    <2>5. QED
      BY <1>3, <2>2, <2>3, <2>4
         DEF CallStep, InsertId, ResolvePrefix, LockRow, LockGranted, LockRefused, Unlock,
             TakeAppLock, ReleaseAppLock, serverVars
  <1>4. QED
    BY <1>2, <1>3

\* Every step is of one of the five kinds.
LEMMA StepKinds ==
    ASSUME TypeOK, [Next]_vars
    PROVE  Quiet \/ \E s \in Session : Reads(s) \/ Begins(s) \/ Writes(s) \/ Ends(s)
  <1>1. CASE UNCHANGED vars
    BY <1>1 DEF vars, serverVars, history, Quiet
  <1>2. CASE Next
    <2>1. PICK s \in Session : \/ \E h \in Handle : HandleOp(s, h)
                              \/ TxnOp(s) \/ CallStep(s)
                              \/ ConnectionLost(s) \/ Restart(s)
      BY <1>2 DEF Next
    <2>2. CASE ConnectionLost(s) \/ Restart(s)
      <3>1. Disconnect(s) /\ ForgetsAtMost(s)
        BY <2>2 DEF ConnectionLost, Restart, Dropped, ForgetsAtMost, history
      <3>2. QED
        BY <3>1, DroppedKind
    <2>3. CASE \E h \in Handle : HandleOp(s, h)
      BY <2>3, HandleOpKind DEF Kinds
    <2>4. CASE TxnOp(s)
      BY <2>4, TxnOpKind DEF Kinds
    <2>5. CASE CallStep(s)
      BY <2>5, CallStepKind DEF Kinds
    <2>6. QED
      BY <2>1, <2>2, <2>3, <2>4, <2>5
  <1>3. QED
    BY <1>1, <1>2

-----------------------------------------------------------------------------
(***************************************************************************)
(* The reads of an exclusive transaction.  What a session has relied on is *)
(* in the set its serializable transaction holds shared locks on, and no   *)
(* other transaction has written a row of that set.                        *)
(***************************************************************************)
ReadPart(s) ==
    /\ begun[s] # 19 => relied[s] = {}
    /\ Backend = "mssql" /\ InTxn(s) =>
          /\ begun[s] = 19 => txn[s] = "serializable"
          /\ relied[s] \subseteq shared[s]

ReadInv ==
    /\ \A s \in Session : ReadPart(s)
    /\ Backend = "mssql" =>
          \A s, t \in Session : \A r \in shared[s] \cap Dirty(t) : s = t

\* A session outside a transaction has no before-images.
LEMMA NoneDirtyOutside ==
    ASSUME IInv, NEW s \in Session, ~InTxn(s)
    PROVE  Dirty(s) = {}
  BY DEF IInv, UndoBelongsToTxn

\* Every step keeps ReadInv.
LEMMA ReadInvStep ==
    ASSUME IInv, ReadInv, [Next]_vars
    PROVE  ReadInv'
  <1>1. TypeOK /\ ServerTypeOK
    BY DEF IInv, TypeOK
  <1>2. CASE Quiet
    BY <1>2 DEF Quiet, ReadInv, ReadPart, InTxn, Dirty
  <1>3. ASSUME NEW s \in Session, Reads(s) PROVE ReadInv'
    <2>1. PICK r \in Row : ReadRow(s, r) /\ Rely(s, r)
      BY <1>3 DEF Reads
    <2>2. UNCHANGED <<txn, undo, begun>>
      BY <2>1 DEF ReadRow, Rely
    <2>3. \A t \in Session \ {s} : shared'[t] = shared[t] /\ relied'[t] = relied[t]
      BY <1>1, <2>1 DEF ReadRow, Rely, ServerTypeOK, TypeOK
    <2>4. /\ begun[s] # 19 => relied'[s] = relied[s]
          /\ relied'[s] \subseteq relied[s] \cup {r}
          /\ shared[s] \subseteq shared'[s]
          /\ shared'[s] \subseteq shared[s] \cup {r}
          /\ txn[s] = "serializable" => r \in shared'[s]
      BY <1>1, <2>1 DEF ReadRow, Rely, ServerTypeOK, TypeOK
    <2>5. \A t \in Session : ReadPart(t)'
      BY <2>2, <2>3, <2>4 DEF ReadInv, ReadPart, InTxn
    <2>6. Backend = "mssql" => \A t \in Session \ {s} : r \notin Dirty(t)
      BY <2>1 DEF ReadRow
    <2>7. \A t \in Session : Dirty(t)' = Dirty(t)
      BY <2>2 DEF Dirty
    <2>8. Backend = "mssql" =>
              \A u, t \in Session : \A q \in shared'[u] \cap Dirty(t) : u = t
      BY <2>3, <2>4, <2>6 DEF ReadInv
    <2>9. QED
      BY <2>5, <2>7, <2>8 DEF ReadInv
  <1>4. ASSUME NEW s \in Session, Begins(s) PROVE ReadInv'
    <2>1. PICK op \in {19, 1019} : BeginTxn(s, Isolation(op)) /\ Begun(s, op)
      BY <1>4 DEF Begins
    <2>2. UNCHANGED <<undo, shared>>
      BY <2>1 DEF BeginTxn
    <2>3. \A t \in Session \ {s} :
              txn'[t] = txn[t] /\ relied'[t] = relied[t] /\ begun'[t] = begun[t]
      BY <1>1, <2>1 DEF BeginTxn, Begun, ServerTypeOK, TypeOK
    <2>4. /\ begun'[s] = op /\ relied'[s] = {} /\ txn'[s] = Isolation(op)
      BY <1>1, <2>1 DEF BeginTxn, Begun, ServerTypeOK, TypeOK
    <2>5. \A t \in Session : ReadPart(t)'
      BY <2>2, <2>3, <2>4 DEF ReadInv, ReadPart, InTxn, Isolation
    <2>6. QED
      BY <2>2, <2>5 DEF ReadInv, Dirty
  <1>5. ASSUME NEW s \in Session, Writes(s) PROVE ReadInv'
    <2>1. PICK r \in Row, img \in Image : WritesTo(s, r, img)
      BY <1>5 DEF Writes
    <2>2. UNCHANGED <<txn, shared, relied, begun>>
      BY <2>1 DEF WritesTo
    <2>3. \A t \in Session \ {s} : Dirty(t)' = Dirty(t)
      BY <1>1, <2>1 DEF WritesTo, Dirty, ServerTypeOK
    <2>4. Dirty(s)' \subseteq Dirty(s) \cup {r}
      BY <1>1, <2>1 DEF WritesTo, Dirty, ServerTypeOK
    <2>5. \A t \in Session \ {s} : r \notin shared[t]
      BY <2>1 DEF WritesTo, Conflicts
    <2>6. \A t \in Session : ReadPart(t)'
      BY <2>2 DEF ReadInv, ReadPart, InTxn
    <2>7. Backend = "mssql" =>
              \A u, t \in Session : \A q \in shared[u] \cap Dirty(t)' : u = t
      BY <2>3, <2>4, <2>5 DEF ReadInv
    <2>8. QED
      BY <2>2, <2>6, <2>7 DEF ReadInv
  <1>6. ASSUME NEW s \in Session, Ends(s) PROVE ReadInv'
    <2>1. PICK state \in {"none", "aborted"} : EndOfTxn(s, state)
      BY <1>6 DEF Ends
    <2>2. /\ txn'[s] = state /\ shared'[s] = {} /\ Dirty(s)' = {}
          /\ \A t \in Session \ {s} :
                txn'[t] = txn[t] /\ shared'[t] = shared[t] /\ Dirty(t)' = Dirty(t)
      BY <1>1, <2>1 DEF EndOfTxn, NoUndo, Dirty, ServerTypeOK
    <2>3. /\ \A t \in Session \ {s} : relied'[t] = relied[t] /\ begun'[t] = begun[t]
          /\ \/ relied'[s] = {}
             \/ relied'[s] = relied[s] /\ begun'[s] = begun[s]
      BY <1>1, <1>6 DEF Ends, ForgetsAtMost, Begun, TypeOK
    <2>4. \A t \in Session : ReadPart(t)'
      BY <2>2, <2>3 DEF ReadInv, ReadPart, InTxn
    <2>5. QED
      BY <2>2, <2>4 DEF ReadInv
  <1>7. QED
    BY <1>1, <1>2, <1>3, <1>4, <1>5, <1>6, StepKinds

\* A row that a session relied on is written by itself or not at all.
LEMMA RelyStep ==
    ASSUME IInv, ReadInv, [Next]_vars
    PROVE  \A s \in Session : \A r \in relied[s] :
               Backend = "mssql" /\ InTxn(s) /\ db'[r] # db[r]
                   => r \in Dirty(s) \cup Dirty(s)'
  <1>1. SUFFICES ASSUME NEW s \in Session, NEW r \in relied[s],
                        Backend = "mssql", InTxn(s), db'[r] # db[r]
                 PROVE  r \in Dirty(s) \cup Dirty(s)'
    OBVIOUS
  <1>2. TypeOK /\ ServerTypeOK /\ r \in Row /\ r \in shared[s]
    BY <1>1 DEF IInv, TypeOK, ReadInv, ReadPart
  <1>3. ASSUME NEW t \in Session, Writes(t) PROVE r \in Dirty(s) \cup Dirty(s)'
    <2>1. PICK q \in Row, img \in Image : WritesTo(t, q, img)
      BY <1>3 DEF Writes
    <2>2. q = r
      BY <1>1, <1>2, <2>1 DEF WritesTo, ServerTypeOK
    <2>3. t = s
      BY <1>2, <2>1, <2>2 DEF WritesTo, Conflicts
    <2>4. db[r] # Clean
      BY <1>2, RowFacts DEF ServerTypeOK
    <2>5. QED
      BY <1>1, <1>2, <2>1, <2>2, <2>3, <2>4 DEF WritesTo, Dirty, ServerTypeOK
  <1>4. ASSUME NEW t \in Session, Ends(t) PROVE r \in Dirty(s) \cup Dirty(s)'
    <2>1. db' = Undone(t)
      BY <1>1, <1>4 DEF Ends
    <2>2. r \in Dirty(t)
      BY <1>1, <1>2, <2>1 DEF Undone, Dirty, ServerTypeOK
    <2>3. QED
      BY <1>1, <1>2, <2>2 DEF ReadInv
  <1>5. QED
    BY <1>1, <1>2, <1>3, <1>4, StepKinds DEF Quiet, Reads, Begins, ReadRow, BeginTxn

\* Nobody changes a record that an exclusive transaction of SQL Server has
\* read, until that transaction is over.
THEOREM ExclusiveReads == Spec => ExclusiveReadsStable
  <1>1. Init => ReadInv
    BY DEF Init, ServerInit, ReadInv, ReadPart
  <1>2. IInv /\ ReadInv /\ [Next]_vars => ReadInv'
    BY ReadInvStep
  <1>3. IInv /\ ReadInv /\ [Next]_vars =>
            [\A s \in Session : \A r \in relied[s] :
                Backend = "mssql" /\ InTxn(s) /\ db'[r] # db[r]
                    => r \in Dirty(s) \cup Dirty(s)']_vars
    BY RelyStep
  <1>4. QED
    BY <1>1, <1>2, <1>3, InductiveInvariant, PTL DEF Spec, ExclusiveReadsStable

-----------------------------------------------------------------------------
(***************************************************************************)
(* The sessions implement the transactional store: each kind of step maps  *)
(* to a step of TxnStore or to a stutter.                                  *)
(***************************************************************************)
CommittedOk ==
    \A r \in Row :
        /\ \A t \in Session : r \in Dirty(t) => Committed(r) = undo[t][r]
        /\ (\A t \in Session : r \notin Dirty(t)) => Committed(r) = db[r]

\* The committed image of a row is its only writer's before-image.
LEMMA CommittedFacts ==
    /\ UndoBelongsToTxn => CommittedOk
    /\ UndoBelongsToTxn' => CommittedOk'
  <1>1. ASSUME UndoBelongsToTxn PROVE CommittedOk
    <2>1. ASSUME NEW r \in Row, NEW t \in Session, r \in Dirty(t)
          PROVE  Committed(r) = undo[t][r]
      <3>1. (CHOOSE u \in Session : r \in Dirty(u)) = t
        BY <1>1, <2>1 DEF UndoBelongsToTxn
      <3>2. QED
        BY <2>1, <3>1 DEF Committed
    <2>2. QED
      BY <2>1 DEF CommittedOk, Committed
  <1>2. ASSUME UndoBelongsToTxn' PROVE CommittedOk'
    <2>1. ASSUME NEW r \in Row, NEW t \in Session, r \in Dirty(t)'
          PROVE  Committed(r)' = undo'[t][r]
      <3>1. (CHOOSE u \in Session : r \in Dirty(u)') = t
        BY <1>2, <2>1 DEF UndoBelongsToTxn
      <3>2. QED
        BY <2>1, <3>1 DEF Committed
    <2>2. QED
      BY <2>1 DEF CommittedOk, Committed
  <1>3. QED
    BY <1>1, <1>2

\* What the store's variables are made of.
Stable  == [r \in Row |-> Committed(r)]
Writers == {s \in Session : InTxn(s)}

StoreStutter == UNCHANGED <<Stable, Draft, Writers>>

\* Begin opens an empty draft.
LEMMA BeginsRefines ==
    ASSUME IInv, NEW s \in Session, Begins(s)
    PROVE  Store!BeginDraft(s)
  <1>1. PICK op \in {19, 1019} : BeginTxn(s, Isolation(op))
    BY DEF Begins
  <1>2. UNCHANGED <<db, undo>> /\ txn' = [txn EXCEPT ![s] = Isolation(op)]
    BY <1>1 DEF BeginTxn
  <1>3. txn \in [Session -> TxnState]
    BY DEF IInv, TypeOK, ServerTypeOK
  <1>4. ~InTxn(s)
    BY DEF IInv, OpenTxnIsFlagged, InTxn, Begins
  <1>5. InTxn(s)' /\ \A t \in Session \ {s} : InTxn(t)' = InTxn(t)
    BY <1>2, <1>3 DEF InTxn, Isolation
  <1>6. UNCHANGED <<Stable, Draft>>
    BY <1>2 DEF Stable, Draft, Committed, Dirty
  <1>7. Writers' = Writers \cup {s}
    BY <1>5 DEF Writers
  <1>8. QED
    BY <1>4, <1>6, <1>7 DEF Store!BeginDraft, Stable, Writers

\* A write goes to the draft of a transaction, or outside one to the table.
LEMMA WritesRefines ==
    ASSUME IInv, IInv', NEW s \in Session, NEW r \in Row, NEW img \in Image,
           WritesTo(s, r, img)
    PROVE  Store!WriteDraft(s, r, img) \/ Store!WriteStable(s, r, img)
  <1>1. ServerTypeOK /\ CommittedOk /\ CommittedOk' /\ UndoBelongsToTxn
    BY CommittedFacts DEF IInv, TypeOK
  <1>2. db[r] # Clean /\ img # Clean
    BY <1>1, RowFacts DEF ServerTypeOK
  <1>3. \A t \in Session \ {s} : r \notin Dirty(t)
    BY DEF WritesTo, Conflicts
  <1>4. Store!Untouched(s, r)
    BY <1>3 DEF Store!Untouched, Draft
  <1>5. /\ db' = [db EXCEPT ![r] = img]
        /\ \A t \in Session : InTxn(t)' = InTxn(t)
    BY DEF WritesTo, InTxn
  <1>6. Writers' = Writers
    BY <1>5 DEF Writers
  <1>7. /\ db'[r] = img
        /\ \A q \in Row \ {r} : db'[q] = db[q]
        /\ \A t \in Session, q \in Row \ {r} : undo'[t][q] = undo[t][q]
        /\ \A t \in Session \ {s} : undo'[t] = undo[t]
        /\ undo'[s][r] = IF InTxn(s) /\ undo[s][r] = Clean THEN db[r] ELSE undo[s][r]
    BY <1>1, <1>5 DEF WritesTo, ServerTypeOK
  <1>8. ASSUME NEW q \in Row \ {r} PROVE Committed(q)' = Committed(q)
    <2>1. \A t \in Session : q \in Dirty(t)' <=> q \in Dirty(t)
      BY <1>7 DEF Dirty
    <2>2. QED
      BY <1>1, <1>7, <2>1 DEF CommittedOk
  <1>9. CASE InTxn(s)
    <2>1. r \in Dirty(s)'
      BY <1>2, <1>7, <1>9 DEF Dirty
    <2>2. Committed(r)' = Committed(r)
      <3>1. Committed(r)' = undo'[s][r]
        BY <1>1, <2>1 DEF CommittedOk
      <3>2. CASE r \in Dirty(s)
        BY <1>1, <1>7, <3>1, <3>2 DEF CommittedOk, Dirty
      <3>3. CASE r \notin Dirty(s)
        <4>1. Committed(r) = db[r]
          BY <1>1, <1>3, <3>3 DEF CommittedOk
        <4>2. QED
          BY <1>7, <1>9, <3>1, <3>3, <4>1 DEF Dirty
      <3>4. QED
        BY <3>2, <3>3
    <2>3. Stable' = Stable
      BY <1>8, <2>2 DEF Stable
    <2>4. Draft' = [Draft EXCEPT ![s][r] = img]
      <3>1. \A t \in Session, q \in Row :
                Draft'[t][q] = IF t = s /\ q = r THEN img ELSE Draft[t][q]
        BY <1>3, <1>7, <2>1 DEF Draft, Dirty
      <3>2. QED
        BY <3>1 DEF Draft
    <2>5. QED
      BY <1>4, <1>6, <1>9, <2>3, <2>4 DEF Store!WriteDraft, Stable, Writers
  <1>10. CASE ~InTxn(s)
    <2>1. Dirty(s) = {}
      BY <1>10, NoneDirtyOutside
    <2>2. \A t \in Session : Dirty(t)' = Dirty(t) /\ r \notin Dirty(t)
      BY <1>3, <1>10, <2>1 DEF WritesTo, Dirty
    <2>3. Committed(r)' = img
      BY <1>1, <1>7, <2>2 DEF CommittedOk
    <2>4. Stable' = [Stable EXCEPT ![r] = img]
      BY <1>8, <2>3 DEF Stable
    <2>5. Draft' = Draft
      BY <1>7, <2>2 DEF Draft, Dirty
    <2>6. QED
      BY <1>4, <1>6, <1>10, <2>4, <2>5 DEF Store!WriteStable, Stable, Writers
  <1>11. QED
    BY <1>9, <1>10

\* The end of a transaction publishes its draft or discards it.
LEMMA EndsRefines ==
    ASSUME IInv, IInv', NEW s \in Session, Ends(s)
    PROVE  Store!Publish(s) \/ Store!Discard(s) \/ StoreStutter
  <1>1. ServerTypeOK /\ CommittedOk /\ CommittedOk' /\ UndoBelongsToTxn
    BY CommittedFacts DEF IInv, TypeOK
  <1>2. PICK state \in {"none", "aborted"} : EndOfTxn(s, state)
    BY DEF Ends
  <1>3. /\ ~InTxn(s)' /\ Dirty(s)' = {}
        /\ \A t \in Session \ {s} : InTxn(t)' = InTxn(t) /\ Dirty(t)' = Dirty(t)
                                    /\ undo'[t] = undo[t]
    BY <1>1, <1>2 DEF EndOfTxn, NoUndo, Dirty, InTxn, ServerTypeOK
  <1>4. Writers' = Writers \ {s}
    BY <1>3 DEF Writers
  <1>5. \A q \in Row : q \notin Dirty(s) => db'[q] = db[q]
    BY <1>1 DEF Ends, Undone, Dirty, ServerTypeOK
  <1>6. Draft' = [Draft EXCEPT ![s] = Store!NoDraft]
    <2>1. \A t \in Session, q \in Row :
              Draft'[t][q] = IF t = s THEN Clean ELSE Draft[t][q]
      <3>1. ASSUME NEW t \in Session \ {s}, NEW q \in Row, q \in Dirty(t)
            PROVE  db'[q] = db[q]
        BY <1>1, <1>5, <3>1 DEF UndoBelongsToTxn
      <3>2. QED
        BY <1>3, <3>1 DEF Draft
    <2>2. QED
      BY <2>1 DEF Draft, Store!NoDraft
  <1>7. ASSUME NEW q \in Row, q \notin Dirty(s) PROVE Committed(q)' = Committed(q)
    <2>1. CASE \E t \in Session : q \in Dirty(t)
      BY <1>1, <1>3, <1>7, <2>1 DEF CommittedOk
    <2>2. CASE \A t \in Session : q \notin Dirty(t)
      BY <1>1, <1>3, <1>5, <1>7, <2>2 DEF CommittedOk
    <2>3. QED
      BY <2>1, <2>2
  <1>8. ASSUME NEW q \in Row, q \in Dirty(s) PROVE Committed(q)' = db'[q]
    <2>1. \A t \in Session : q \notin Dirty(t)'
      BY <1>1, <1>3, <1>8 DEF UndoBelongsToTxn
    <2>2. QED
      BY <1>1, <2>1 DEF CommittedOk
  <1>9. CASE ~InTxn(s)
    <2>1. Dirty(s) = {}
      BY <1>9, NoneDirtyOutside
    <2>2. Stable' = Stable
      BY <1>7, <2>1 DEF Stable
    <2>3. Draft' = Draft
      <3>1. \A q \in Row : Draft[s][q] = Clean
        BY <2>1 DEF Draft
      <3>2. Draft[s] = Store!NoDraft
        BY <3>1 DEF Draft, Store!NoDraft
      <3>3. QED
        BY <1>6, <3>2 DEF Draft
    <2>4. Writers' = Writers
      BY <1>4, <1>9 DEF Writers
    <2>5. QED
      BY <2>2, <2>3, <2>4 DEF StoreStutter
  <1>10. CASE InTxn(s) /\ db' = db
    <2>1. \A q \in Row : Committed(q)' = IF Draft[s][q] = Clean
                                        THEN Committed(q) ELSE Draft[s][q]
      <3>1. ASSUME NEW q \in Row, q \in Dirty(s)
            PROVE  Draft[s][q] = db[q] /\ db[q] # Clean
        BY <1>1, <3>1, RowFacts DEF Draft, ServerTypeOK
      <3>2. ASSUME NEW q \in Row, q \notin Dirty(s) PROVE Draft[s][q] = Clean
        BY <3>2 DEF Draft
      <3>3. QED
        BY <1>7, <1>8, <1>10, <3>1, <3>2
    <2>2. Stable' = [q \in Row |-> IF Draft[s][q] = Clean THEN Stable[q] ELSE Draft[s][q]]
      BY <2>1 DEF Stable
    <2>3. QED
      BY <1>4, <1>6, <1>10, <2>2 DEF Store!Publish, Store!EndDraft, Stable, Writers
  <1>11. CASE InTxn(s) /\ db' = Undone(s)
    <2>1. ASSUME NEW q \in Row, q \in Dirty(s) PROVE Committed(q)' = Committed(q)
      <3>1. db'[q] = undo[s][q]
        BY <1>11, <2>1 DEF Undone, Dirty
      <3>2. QED
        BY <1>1, <1>8, <2>1, <3>1 DEF CommittedOk
    <2>2. Stable' = Stable
      BY <1>7, <2>1 DEF Stable
    <2>3. QED
      BY <1>4, <1>6, <1>11, <2>2 DEF Store!Discard, Store!EndDraft, Stable, Writers
  <1>12. QED
    BY <1>9, <1>10, <1>11 DEF Ends

\* A step that leaves rows, before-images and transactions alone is a stutter.
LEMMA QuietRefines ==
    ASSUME UNCHANGED <<db, undo, txn>>
    PROVE  StoreStutter
  BY DEF StoreStutter, Stable, Draft, Writers, Committed, Dirty, InTxn

\* The tables start permanent, with no draft.
LEMMA InitRefines == Init => Store!StoreInit
  <1>1. SUFFICES ASSUME Init PROVE Store!StoreInit
    OBVIOUS
  <1>2. /\ ServerTypeOK /\ \A s \in Session : Dirty(s) = {} /\ ~InTxn(s)
    BY <1>1, InitType DEF Init, ServerInit, NoUndo, Dirty, InTxn, TypeOK
  <1>3. \A r \in Row : Committed(r) = db[r]
    BY <1>2 DEF Committed
  <1>4. Stable \in [Row -> Image]
    BY <1>2, <1>3 DEF Stable, ServerTypeOK
  <1>5. Draft = [s \in Session |-> Store!NoDraft]
    BY <1>2 DEF Draft, Store!NoDraft
  <1>6. Writers = {}
    BY <1>2 DEF Writers
  <1>7. QED
    BY <1>4, <1>5, <1>6 DEF Store!StoreInit, Stable, Writers

\* Every step of the sessions is a step of the store.
LEMMA StepRefines ==
    ASSUME IInv, IInv', [Next]_vars
    PROVE  [Store!StoreNext]_(Store!storeVars)
  <1>1. ASSUME StoreStutter PROVE UNCHANGED Store!storeVars
    BY <1>1 DEF StoreStutter, Store!storeVars, Stable, Writers
  <1>2. CASE Quiet
    BY <1>1, <1>2, QuietRefines DEF Quiet
  <1>3. ASSUME NEW s \in Session, Reads(s) PROVE UNCHANGED Store!storeVars
    BY <1>1, <1>3, QuietRefines DEF Reads, ReadRow
  <1>4. ASSUME NEW s \in Session, Begins(s) PROVE Store!StoreNext
    BY <1>4, BeginsRefines DEF Store!StoreNext
  <1>5. ASSUME NEW s \in Session, Writes(s) PROVE Store!StoreNext
    BY <1>5, WritesRefines DEF Writes, Store!StoreNext
  <1>6. ASSUME NEW s \in Session, Ends(s) PROVE [Store!StoreNext]_(Store!storeVars)
    BY <1>1, <1>6, EndsRefines DEF Store!StoreNext
  <1>7. TypeOK
    BY DEF IInv
  <1>8. QED
    BY <1>2, <1>3, <1>4, <1>5, <1>6, <1>7, StepKinds

\* The sessions together implement the transactional store: a transaction's
\* writes become permanent together or vanish together, whatever statement
\* fails and whenever the connection is lost.
THEOREM ImplementsStore == Spec => ImplementsTxnStore
  <1>1. IInv /\ IInv' /\ [Next]_vars => [Store!StoreNext]_(Store!storeVars)
    BY StepRefines
  <1>2. QED
    BY <1>1, InitRefines, InductiveInvariant, PTL
       DEF Spec, ImplementsTxnStore, Store!StoreSpec
=============================================================================
