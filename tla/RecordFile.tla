----------------------------- MODULE RecordFile -----------------------------
(***************************************************************************)
(* The table behind an open file, as navigation sees it: numbered rows     *)
(* that this and other sessions insert, update and delete (ops/insert.rs,  *)
(* ops/update.rs, ops/delete.rs).  Record numbers are the identity column  *)
(* of the table: they grow.  A rollback takes back inserts and updates as  *)
(* deletes and updates; where SQLite then gives a number again, a row      *)
(* appears under it late.                                                  *)
(***************************************************************************)
EXTENDS Integers

CONSTANTS
    MaxRec,     \* bound: record numbers the table can hand out
    Record,     \* record images
    Absent      \* marks a record number without a row

ASSUME MaxRecAssumption == MaxRec \in Nat \ {0}
ASSUME AbsentAssumption == Absent \notin Record

Row   == 1..MaxRec
NoPos == -1     \* a recnum option that is None

VARIABLES
    file,       \* file[r]: the record in row r, or Absent
    nextRec     \* the next record number

fileVars == <<file, nextRec>>

Present == {r \in Row : file[r] # Absent}

FileInit ==
    /\ file \in [Row -> Record \cup {Absent}]
    /\ nextRec \in 1 .. MaxRec + 1
    /\ \A r \in Row : file[r] # Absent => r < nextRec

InsertRow(rec) ==
    /\ nextRec \in Row
    /\ file'    = [file EXCEPT ![nextRec] = rec]
    /\ nextRec' = nextRec + 1

\* An Update writes a record, a Delete writes Absent.  Neither succeeds in
\* changing a row that is not there.
WriteRow(r, image) ==
    /\ r \in Present
    /\ file' = [file EXCEPT ![r] = image]
    /\ UNCHANGED nextRec

\* A row appears under a number handed out before: a Delete is rolled back, an
\* Insert commits after one that took a later number, or SQLite gives the
\* number of an Insert that was rolled back again.
RestoreRow(r, rec) ==
    /\ r \in Row \ Present
    /\ r < nextRec
    /\ file' = [file EXCEPT ![r] = rec]
    /\ UNCHANGED nextRec

\* The types of the table's variables; rows not handed out yet are absent.
FileTypeOK ==
    /\ file \in [Row -> Record \cup {Absent}]
    /\ nextRec \in 1 .. MaxRec + 1
    /\ \A r \in Row : file[r] # Absent => r < nextRec
=============================================================================
