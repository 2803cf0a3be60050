----------------------------- MODULE BtrHandle -----------------------------
(***************************************************************************)
(* The record calls of one open handle (ops/insert.rs, ops/update.rs,      *)
(* ops/delete.rs, ops/position.rs): the record that the next Update or     *)
(* Delete reaches, position tokens, and the two calls that are made of     *)
(* several statements, Insert Extended and Update Chunk.  Other handles    *)
(* and sessions write the table between any two statements.                *)
(*                                                                         *)
(* A write takes and returns its row lock around one statement, which      *)
(* BtrSession models; here lock, statement and unlock are one action.      *)
(***************************************************************************)
EXTENDS RecordFile, Sequences, FiniteSets

CONSTANTS
    NParts,     \* byte ranges of a record that chunks address
    Val,        \* contents of a byte range
    TokenRange, \* position tokens: 2^32
    MaxCount    \* bound: records of an Insert Extended, chunks of an Update Chunk

Part == 1..NParts

ASSUME HandleAssumption ==
    /\ NParts \in Nat \ {0}
    /\ Record = [Part -> Val]
    /\ TokenRange \in Nat \ {0}
    /\ MaxCount \in Nat \ {0}

VARIABLES
    isOpen,     \* the handle is in the handle table
    lastRec,    \* HandleEntry.last_recnum
    token,      \* the token the caller holds, from Get Position
    call,       \* the call in progress
    current,    \* history: the row the caller was given last, and may write
    deleted,    \* history: the rows deleted through this handle
    reply       \* history: the answer to the last write

posVars    == <<isOpen, lastRec, current>>
handleVars == <<fileVars, posVars, token, call, deleted, reply>>

NoCall  == [op |-> "none"]
NoReply == [op |-> "none"]

HandleInit ==
    /\ FileInit
    /\ isOpen  = FALSE
    /\ lastRec = NoPos
    /\ token   = 0
    /\ call    = NoCall
    /\ current = NoPos
    /\ deleted = {}
    /\ reply   = NoReply

Idle == call = NoCall

\* A call on an open handle, with none in progress.
Called == Idle /\ isOpen

-----------------------------------------------------------------------------
\* op_open and alloc_handle.
OpenHandle ==
    /\ Idle /\ ~isOpen
    /\ isOpen' = TRUE
    /\ UNCHANGED <<fileVars, lastRec, current, token, call, deleted, reply>>

\* Mutant: the record stays current.
KeepCurrency == UNCHANGED lastRec

\* last_recnum = None.
ClearCurrency == lastRec' = NoPos

\* Close and Stop drop the handle.
CloseHandle ==
    /\ Called
    /\ isOpen' = FALSE
    /\ lastRec' = NoPos
    /\ current' = NoPos
    /\ UNCHANGED <<fileVars, token, call, deleted, reply>>

\* Reset, and Abort through any handle of the process.
ForgetPosition ==
    /\ Called
    /\ ClearCurrency
    /\ current' = NoPos
    /\ UNCHANGED <<fileVars, isOpen, token, call, deleted, reply>>

\* Any Get or Step, with or without the record, returns a row; one from the
\* step cache may be gone by now.
Retrieve(r) ==
    /\ Called
    /\ r < nextRec
    /\ lastRec' = r
    /\ current' = r
    /\ UNCHANGED <<fileVars, isOpen, token, call, deleted, reply>>

\* Get Position: the number, of 64 bits at the server, as u32.
PositionToken(rn) == rn % TokenRange

\* Get Position answers 0 without a current record.
GetPosition ==
    /\ Called
    /\ token' = IF lastRec = NoPos THEN 0 ELSE PositionToken(lastRec)
    /\ UNCHANGED <<fileVars, posVars, call, deleted, reply>>

\* Get Direct with the token, now or later, through this handle.
GetByToken ==
    /\ Called
    /\ token \in Present
    /\ lastRec' = token
    /\ current' = token
    /\ UNCHANGED <<fileVars, isOpen, token, call, deleted, reply>>

-----------------------------------------------------------------------------
\* Mutant: the number of the next row.
InsertedNext == lastRec' \in {nextRec + 1, 0} /\ current' = nextRec

\* insert_one: the new row becomes current, or row 0 when its number could
\* not be read back.
InsertedRow == lastRec' \in {nextRec, 0} /\ current' = nextRec

\* Insert.  A failure answers 5, whatever it is and whether or not the row is
\* there.
InsertCall(rec) ==
    /\ Called
    /\ \/ /\ InsertRow(rec)
          /\ InsertedRow
          /\ reply' = [op |-> "insert", status |-> 0]
       \/ /\ InsertRow(rec) \/ UNCHANGED fileVars
          /\ UNCHANGED <<lastRec, current>>
          /\ reply' = [op |-> "insert", status |-> 5]
    /\ UNCHANGED <<isOpen, token, call, deleted>>

(***************************************************************************)
(* Update: the statement replaces the current row or, when there is none   *)
(* any more, does nothing; both answer 0.  An error, its reply lost or not,*)
(* answers with the error.                                                 *)
(***************************************************************************)
\* UPDATE ... WHERE recnum = rn: no row is changed when there is none.
UpdateWhere(rn, image) ==
    IF rn \in Present THEN WriteRow(rn, image) ELSE UNCHANGED fileVars

UpdateCall(rec) ==
    /\ Called
    /\ lastRec # NoPos
    /\ \/ /\ UpdateWhere(lastRec, rec)
          /\ reply' = [op |-> "update", status |-> 0]
       \/ /\ UpdateWhere(lastRec, rec) \/ UNCHANGED fileVars
          /\ reply' = [op |-> "update", status |-> 1]
    /\ UNCHANGED <<posVars, token, call, deleted>>

\* Delete: the position is kept.
DeleteCall ==
    /\ Called
    /\ lastRec # NoPos
    /\ \/ /\ UpdateWhere(lastRec, Absent)
          /\ current' = NoPos
          /\ deleted' = deleted \cup {lastRec}
          /\ reply'   = [op |-> "delete", status |-> 0]
       \/ /\ UpdateWhere(lastRec, Absent) \/ UNCHANGED fileVars
          /\ UNCHANGED <<current, deleted>>
          /\ reply' = [op |-> "delete", status |-> 1]
    /\ UNCHANGED <<isOpen, lastRec, token, call>>

-----------------------------------------------------------------------------
(***************************************************************************)
(* Update Chunk reads the current record, puts the chunks into the image   *)
(* and writes the image under the lock.  A rectangle is flattened into     *)
(* chunks; a truncation, like every descriptor that does not fit, changes  *)
(* nothing.                                                                *)
(***************************************************************************)
Rectangle(first, stride, n) == [i \in 1..n |-> first + (i - 1) * stride]

Descriptors ==
    UNION {[1..n -> Part] : n \in 1..MaxCount}
        \cup {Rectangle(first, stride, n) : first, stride \in Part, n \in 1..MaxCount}

Fits(chunks) == \A i \in DOMAIN chunks : chunks[i] \in Part

Covered(chunks) == {chunks[i] : i \in DOMAIN chunks}

\* Mutant: the chunks start one range too early.
PatchShifted(image, chunks, val) ==
    [p \in Part |-> IF p + 1 \in Covered(chunks) THEN val ELSE image[p]]

Patch(image, chunks, val) ==
    [p \in Part |-> IF p \in Covered(chunks) THEN val ELSE image[p]]

ChunkFetch(chunks, val) ==
    /\ Called
    /\ lastRec \in Present
    /\ Fits(chunks)
    /\ call' = [op |-> "chunk", row |-> lastRec, parts |-> Covered(chunks),
                image |-> Patch(file[lastRec], chunks, val), fresh |-> TRUE]
    /\ UNCHANGED <<fileVars, posVars, token, deleted, reply>>

ChunkStore ==
    /\ call.op = "chunk"
    /\ \/ /\ UpdateWhere(call.row, call.image)
          /\ reply' = [op |-> "chunk", status |-> 0]
       \/ /\ UpdateWhere(call.row, call.image) \/ UNCHANGED fileVars
          /\ reply' = [op |-> "chunk", status |-> 1]
    /\ call' = NoCall
    /\ UNCHANGED <<posVars, token, deleted>>

-----------------------------------------------------------------------------
(***************************************************************************)
(* Insert Extended inserts record by record and stops at the first that    *)
(* fails or does not fit in the buffer; it answers how many succeeded.     *)
(***************************************************************************)
BatchBegin(n) ==
    /\ Called
    /\ call' = [op |-> "batch", left |-> n, count |-> 0, added |-> {}]
    /\ UNCHANGED <<fileVars, posVars, token, deleted, reply>>

\* Mutant: the count is of the records tried.
CountTried(count) == count + 1

\* The count when a record fails.
CountOfFailed(count) == count

BatchInsert(rec) ==
    /\ call.op = "batch" /\ call.left > 0
    /\ InsertRow(rec)
    /\ InsertedRow
    /\ call' = [call EXCEPT !.left = @ - 1, !.count = @ + 1, !.added = @ \cup {nextRec}]
    /\ UNCHANGED <<isOpen, token, deleted, reply>>

BatchReply(status, count, added) ==
    /\ call'  = NoCall
    /\ reply' = [op |-> "batch", status |-> status, count |-> count, added |-> added]

\* 22 when the buffer ends too early, but 5 when records went in before.
BatchFail(rec) ==
    /\ call.op = "batch" /\ call.left > 0
    /\ \/ /\ InsertRow(rec)
          /\ BatchReply(5, CountOfFailed(call.count), call.added \cup {nextRec})
       \/ /\ UNCHANGED fileVars
          /\ \E status \in {5} \cup (IF call.count = 0 THEN {22} ELSE {}) :
                BatchReply(status, CountOfFailed(call.count), call.added)
    /\ UNCHANGED <<posVars, token, deleted>>

BatchEnd ==
    /\ call.op = "batch" /\ call.left = 0
    /\ BatchReply(0, call.count, call.added)
    /\ UNCHANGED <<fileVars, posVars, token, deleted>>

-----------------------------------------------------------------------------
\* Other handles and sessions, and rollbacks.  An image read before another
\* writes its row is no longer fresh.
Disturb(r) ==
    call' = IF call.op = "chunk" /\ call.row = r
            THEN [call EXCEPT !.fresh = FALSE] ELSE call

ElsewhereInsert(rec) ==
    /\ InsertRow(rec)
    /\ UNCHANGED <<posVars, token, call, deleted, reply>>

ElsewhereWrite(r, image) ==
    /\ WriteRow(r, image) \/ (image # Absent /\ RestoreRow(r, image))
    /\ Disturb(r)
    /\ UNCHANGED <<posVars, token, deleted, reply>>

PositionOp ==
    \/ OpenHandle \/ CloseHandle \/ ForgetPosition
    \/ GetPosition \/ GetByToken
    \/ \E r \in Row : Retrieve(r)

WriteOp ==
    \/ \E rec \in Record : InsertCall(rec) \/ UpdateCall(rec)
    \/ DeleteCall

BatchOp ==
    \/ \E chunks \in Descriptors, val \in Val : ChunkFetch(chunks, val)
    \/ ChunkStore
    \/ \E n \in 0..MaxCount : BatchBegin(n)
    \/ \E rec \in Record : BatchInsert(rec) \/ BatchFail(rec)
    \/ BatchEnd

Elsewhere ==
    \/ \E rec \in Record : ElsewhereInsert(rec)
    \/ \E r \in Row, image \in Record \cup {Absent} : ElsewhereWrite(r, image)

HandleNext == PositionOp \/ WriteOp \/ BatchOp \/ Elsewhere

HandleSpec == HandleInit /\ [][HandleNext]_handleVars

-----------------------------------------------------------------------------
(***************************************************************************)
(* The types of the handle's position and of the call in progress.         *)
(***************************************************************************)
CallType ==
    {NoCall}
        \cup [op : {"chunk"}, row : Row, parts : SUBSET Part, image : Record,
              fresh : BOOLEAN]
        \cup [op : {"batch"}, left : 0..MaxCount, count : 0..MaxCount, added : SUBSET Row]

HandleTypeOK ==
    /\ FileTypeOK
    /\ isOpen \in BOOLEAN
    /\ lastRec \in Row \cup {NoPos, 0}
    /\ current \in Row \cup {NoPos}
    /\ token \in 0 .. TokenRange - 1
    /\ deleted \subseteq Row \cup {0}
    /\ call \in CallType
    /\ ~isOpen => call = NoCall /\ lastRec = NoPos

(***************************************************************************)
(* A write never reaches a row behind the caller's back: the row that the  *)
(* next Update, Update Chunk or Delete changes is the one the caller was   *)
(* given last, or one it has deleted and a rollback has brought back.      *)
(***************************************************************************)
WritesReachCurrent ==
    lastRec \in Present => lastRec = current \/ lastRec \in deleted

(***************************************************************************)
(* Insert Extended reports the records it has inserted, give or take the   *)
(* one whose reply was lost, and all of them when it answers 0.            *)
(***************************************************************************)
BatchCounted ==
    reply.op = "batch" =>
        LET inserted == Cardinality(reply.added)
        IN  /\ inserted - reply.count \in {0, 1}
            /\ reply.status = 0 => inserted = reply.count

RestIsKept ==
    call.row \in Present =>
        \A p \in Part \ call.parts : file'[call.row][p] = file[call.row][p]

(***************************************************************************)
(* Update Chunk changes nothing but the chunks of a row nobody else has    *)
(* written since it was read.  (op_update_chunk: "Updates byte ranges      *)
(* within the current record without sending the whole record image".)     *)
(***************************************************************************)
FreshChunkKeepsTheRest == [][ChunkStore /\ call.fresh => RestIsKept]_handleVars
=============================================================================
