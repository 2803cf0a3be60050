----------------------------- MODULE KeyCursor -----------------------------
(***************************************************************************)
(* Key-ordered navigation (ops/get.rs, ops/get_ext.rs, Get Direct of       *)
(* ops/position.rs): the logical currency of one open handle over a table  *)
(* that this and other sessions write.                                     *)
(*                                                                         *)
(* A Get sends one query and then stores the new currency, so it is one    *)
(* action; an extended Get sends one query per record and is one action    *)
(* per query.  A Get that finds no row, or fails, stores nothing: it is a  *)
(* stuttering step.  Insert, Update and Delete, through this handle too,   *)
(* leave the logical currency alone, so here they only change rows, as     *)
(* rollbacks do.                                                           *)
(***************************************************************************)
EXTENDS KeyOrder, RecordFile, FiniteSets

CONSTANTS
    Indexes,        \* meta.indexes: a sequence of indexes
    NullWildcard,   \* meta.ignore_null_values
    Keys,           \* key buffers, as sequences of values
    Filters,        \* the sets of records that filters of extended Gets accept
    MaxBatch        \* bound: max_recs of an extended Get

Fields == UNION {{Indexes[i].segs[k] : k \in DOMAIN Indexes[i].segs} :
                     i \in DOMAIN Indexes}

ASSUME MaxBatchAssumption == MaxBatch \in Nat \ {0}
ASSUME IndexAssumption ==
    /\ Indexes # <<>>
    /\ Indexes \in Seq([num : Nat \ {0}, segs : Seq(Fields), desc : Seq(BOOLEAN)])
    /\ \A i \in DOMAIN Indexes : Indexes[i].segs # <<>>
    /\ \A i, j \in DOMAIN Indexes : Indexes[i].num = Indexes[j].num => i = j
ASSUME RecordAssumption ==
    /\ \A rec \in Record, f \in Fields : rec[f] \in Nat \cup {Null}
    /\ Keys \subseteq Seq(Nat)
    /\ NullWildcard \in BOOLEAN

None == 0       \* get_index_num that is None

VARIABLES
    getIndex,   \* HandleEntry.get_index_num
    getKeys,    \* HandleEntry.get_last_keys
    getDesc,    \* HandleEntry.get_last_desc
    getRn,      \* HandleEntry.get_last_recnum
    batch,      \* the extended Get in progress
    pos,        \* history: the record that established the logical currency
    walk        \* history: the walk since a Get by key, First or Last

cursorVars == <<getIndex, getKeys, getDesc, getRn>>
keyVars    == <<fileVars, cursorVars, batch, pos, walk>>

NoBatch == [dir |-> 0, left |-> 0, filter |-> {}]
NoFix   == [idx |-> None, rec |-> Absent, rn |-> NoPos]
NoWalk  == [dir |-> 0, todo |-> {}]

Idle == batch = NoBatch

IndexOf(num) == Indexes[CHOOSE i \in DOMAIN Indexes : Indexes[i].num = num]

IndexNums == {Indexes[i].num : i \in DOMAIN Indexes}

\* get_index_num.or_else(first)
ActiveIndex == IndexOf(IF getIndex = None THEN Indexes[1].num ELSE getIndex)

KeyInit ==
    /\ FileInit
    /\ getIndex = None
    /\ getKeys  = <<>>
    /\ getDesc  = <<>>
    /\ getRn    = NoPos
    /\ batch    = NoBatch
    /\ pos      = NoFix
    /\ walk     = NoWalk

-----------------------------------------------------------------------------
\* Rows of S that a query with ORDER BY and a limit of 1 may return.
Top(S, colRefs, dir, tieBreak) ==
    {r \in S : \A q \in S :
        ~OrderBefore(colRefs, dir, tieBreak, file[q], q, file[r], r)}

\* The stored currency after row r was returned on the index idx.
Fix(idx, r) ==
    /\ getKeys' = ExtractKeyVals(idx, file[r])
    /\ getRn'   = r
    /\ pos'     = [idx |-> idx.num, rec |-> file[r], rn |-> r]

\* A walk that starts at row r owes every row beyond it.
StartWalk(idx, dir, r) ==
    walk' = [dir  |-> dir,
             todo |-> {q \in Present : Beyond(idx, dir, file[r], r, file[q], q)}]

\* pick_index.  A key number with a high byte names a key length instead, and
\* finds the index with that length or the first one: some index again.
PickIndex(keyNum) ==
    IF keyNum = -1
    THEN IF getIndex = None THEN {} ELSE {IndexOf(getIndex)}
    ELSE {IndexOf(n) : n \in {keyNum + 1} \cap IndexNums}

\* Ops 5, 8, 9, 10 and 11 share op_get_by_key; each has one comparison and
\* one direction.
CmpDir == [c \in {"=", ">", ">=", "<", "<="} |-> IF c \in {"<", "<="} THEN -1 ELSE 1]

\* A blank segment of the key buffer is left out when nulls are ignored.
Kept(idx, key) == {k \in 1..Len(idx.segs) : NullWildcard => key[k] # Blank}

\* The i-th element of a set of positions.
Nth(S, i) == CHOOSE k \in S : Cardinality({j \in S : j <= k}) = i

KeyCols(idx, key) ==
    [i \in 1..Cardinality(Kept(idx, key)) |->
        LET k == Nth(Kept(idx, key), i) IN [field |-> idx.segs[k], val |-> key[k]]]

KeySearch(idx, key, cmp) ==
    Top({r \in Present : KeyWhere(KeyCols(idx, key), cmp, file[r])},
        IndexColRefs(idx), CmpDir[cmp], FALSE)

\* What op_get_by_key, op_get_first and op_get_last store.
Establish(idx, dir, r) ==
    /\ getIndex' = idx.num
    /\ getDesc'  = [k \in 1..Len(idx.segs) |-> Flag(idx.desc, k)]
    /\ Fix(idx, r)
    /\ StartWalk(idx, dir, r)
    /\ UNCHANGED <<fileVars, batch>>

GetByKey(keyNum, key, cmp) ==
    /\ Idle
    /\ \E idx \in PickIndex(keyNum) :
          /\ Len(key) = Len(idx.segs)
          /\ NullWildcard => Kept(idx, key) # {}
          /\ \E r \in KeySearch(idx, key, cmp) : Establish(idx, CmpDir[cmp], r)

\* Ops 12 and 13.
GetEnd(keyNum, dir) ==
    /\ Idle
    /\ \E idx \in PickIndex(keyNum) :
          \E r \in Top(Present, IndexColRefs(idx), dir, FALSE) : Establish(idx, dir, r)

-----------------------------------------------------------------------------
(***************************************************************************)
(* The query of Get Next and Get Previous, and of each step of an extended *)
(* Get: the order comes from the index, the predicate from what the handle *)
(* remembers.                                                              *)
(***************************************************************************)
\* Mutant: the descending flags are not passed on.
LastColsAscending ==
    [k \in 1..Len(getKeys) |->
        [field |-> ActiveIndex.segs[k], val |-> getKeys[k], desc |-> FALSE]]

LastCols ==
    [k \in 1..Len(getKeys) |->
        [field |-> ActiveIndex.segs[k], val |-> getKeys[k], desc |-> Flag(getDesc, k)]]

Positioned == getKeys # <<>> /\ getRn # NoPos

Selected(dir) ==
    {r \in Present :
        Positioned => ContinuationWhere(LastCols, dir, getRn, file[r], r)}

\* Mutant: the ORDER BY without its last column.
AdjacentTied(dir, F) ==
    Top({r \in Selected(dir) : file[r] \in F}, IndexColRefs(ActiveIndex), dir, FALSE)

Adjacent(dir, F) ==
    Top({r \in Selected(dir) : file[r] \in F}, IndexColRefs(ActiveIndex), dir, TRUE)

\* The walk goes on when the direction is its own; rows the filter rejects
\* and the walk has passed are not owed.
StepWalk(dir, F, r) ==
    walk' = IF walk.dir # dir THEN NoWalk
            ELSE [walk EXCEPT !.todo =
                    {q \in @ \ {r} : \/ file[q] \in F
                                     \/ Beyond(ActiveIndex, dir, file[r], r, file[q], q)}]

\* Ops 6 and 7, and the Get Keys 56 and 57.  The index and the flags are kept.
GetAdjacent(dir) ==
    /\ Idle
    /\ \E r \in Adjacent(dir, Record) :
          /\ Fix(ActiveIndex, r)
          /\ StepWalk(dir, Record, r)
    /\ UNCHANGED <<fileVars, getIndex, getDesc, batch>>

-----------------------------------------------------------------------------
\* Ops 36 and 37: run_extended.
ExtendedBegin(dir, n, F) ==
    /\ Idle
    /\ batch' = [dir |-> dir, left |-> n, filter |-> F]
    /\ UNCHANGED <<fileVars, cursorVars, pos, walk>>

\* One record of the batch.  Other sessions may write between two of them.
ExtendedFetch ==
    /\ ~Idle
    /\ \E r \in Adjacent(batch.dir, batch.filter) :
          /\ getIndex' = ActiveIndex.num
          /\ Fix(ActiveIndex, r)
          /\ StepWalk(batch.dir, batch.filter, r)
    /\ batch' = IF batch.left = 1 THEN NoBatch ELSE [batch EXCEPT !.left = @ - 1]
    /\ UNCHANGED <<fileVars, getDesc>>

\* No further record, or the next one does not fit in the buffer: the batch
\* is returned and the currency is that of its last record.
ExtendedEnd ==
    /\ ~Idle
    /\ batch' = NoBatch
    /\ UNCHANGED <<fileVars, cursorVars, pos, walk>>

\* A query fails: the call returns its error and none of the records, though
\* the currency has moved past them.
ExtendedFail ==
    /\ ~Idle
    /\ batch' = NoBatch
    /\ walk'  = NoWalk
    /\ UNCHANGED <<fileVars, cursorVars, pos>>

-----------------------------------------------------------------------------
\* Op 23: the key values are those of the index in use.
GetDirect(r) ==
    /\ Idle
    /\ r \in Present
    /\ Fix(ActiveIndex, r)
    /\ walk' = NoWalk
    /\ UNCHANGED <<fileVars, getIndex, getDesc, batch>>

\* Op 28.
KeyReset ==
    /\ Idle
    /\ getKeys' = <<>>
    /\ getRn'   = NoPos
    /\ pos'     = NoFix
    /\ walk'    = NoWalk
    /\ UNCHANGED <<fileVars, getIndex, getDesc, batch>>

\* Op 21, invalidate_all_currency.
KeyAbort ==
    /\ Idle
    /\ getKeys' = <<>>
    /\ getDesc' = <<>>
    /\ getRn'   = NoPos
    /\ pos'     = NoFix
    /\ walk'    = NoWalk
    /\ UNCHANGED <<fileVars, getIndex, batch>>

-----------------------------------------------------------------------------
\* Rows written by this or another session.  A changed row is no longer owed.
InsertAnywhere(rec) ==
    /\ InsertRow(rec)
    /\ UNCHANGED <<cursorVars, batch, pos, walk>>

WriteAnywhere(r, image) ==
    /\ WriteRow(r, image)
    /\ walk' = [walk EXCEPT !.todo = @ \ {r}]
    /\ UNCHANGED <<cursorVars, batch, pos>>

RestoreAnywhere(r, rec) ==
    /\ RestoreRow(r, rec)
    /\ UNCHANGED <<cursorVars, batch, pos, walk>>

FileOp ==
    \/ \E rec \in Record : InsertAnywhere(rec)
    \/ \E r \in Row, rec \in Record : RestoreAnywhere(r, rec)
    \/ \E r \in Row, image \in Record \cup {Absent} : WriteAnywhere(r, image)

KeyNums == {-1} \cup {n - 1 : n \in IndexNums}

GetOp ==
    \/ \E k \in KeyNums, key \in Keys, cmp \in DOMAIN CmpDir : GetByKey(k, key, cmp)
    \/ \E k \in KeyNums, dir \in {1, -1} : GetEnd(k, dir)
    \/ \E dir \in {1, -1} : GetAdjacent(dir)
    \/ \E r \in Row : GetDirect(r)

ExtendedOp ==
    \/ \E dir \in {1, -1}, n \in 1..MaxBatch, F \in Filters : ExtendedBegin(dir, n, F)
    \/ ExtendedFetch \/ ExtendedEnd \/ ExtendedFail

KeyNext == FileOp \/ GetOp \/ ExtendedOp \/ KeyReset \/ KeyAbort

KeySpec == KeyInit /\ [][KeyNext]_keyVars

-----------------------------------------------------------------------------
(***************************************************************************)
(* A walk by Get Next or Get Previous, single or extended, that began with *)
(* a Get by key, First or Last skips no record: every row that was beyond  *)
(* the start, has not been changed since and has not been returned is      *)
(* still ahead, whatever is inserted, updated or deleted meanwhile.        *)
(***************************************************************************)
WalkSkipsNothing ==
    \A q \in walk.todo :
        Beyond(IndexOf(pos.idx), walk.dir, pos.rec, pos.rn, file[q], q)

FlagsOfIndex ==
    \A k \in 1..Len(ActiveIndex.segs) : Flag(getDesc, k) = Flag(ActiveIndex.desc, k)

(***************************************************************************)
(* Get Next selects exactly the rows that follow the logical current       *)
(* record in the order of its key path and Get Previous exactly those that *)
(* precede it, and each returns the nearest, even when the current record  *)
(* has been deleted or moved since.  (op_get_next: "Retrieves the record   *)
(* that follows the logical current record in the key path's index order.")*)
(***************************************************************************)
NeighboursFromPosition ==
    pos # NoFix =>
        \A dir \in {1, -1} :
            LET idx   == IndexOf(pos.idx)
                ahead == {q \in Present : Beyond(idx, dir, pos.rec, pos.rn, file[q], q)}
            IN  Adjacent(dir, Record) =
                    {q \in ahead : \A p \in ahead \ {q} :
                        Beyond(idx, dir, file[q], q, file[p], p)}

\* The same for a handle whose flags are those of its index: they were set by
\* the Get by key, First or Last that chose the index.
NeighboursWhenFlagged == FlagsOfIndex => NeighboursFromPosition

(***************************************************************************)
(* "Tries equal first, else next greater": when a record has the key in    *)
(* the key buffer, Get Greater or Equal and Get Less or Equal return one   *)
(* with that key.  With a descending segment they do not: the comparison   *)
(* is the same and the order is turned around, so that the greatest key of *)
(* all is returned.  Nor with a wildcard: the segment is not compared, and *)
(* Get Less or Equal returns the greatest record that agrees in the others.*)
(***************************************************************************)
EqualFirst(idx) ==
    \A key \in Keys, cmp \in {">=", "<="} :
        Len(key) = Len(idx.segs) /\ Kept(idx, key) = 1..Len(key) =>
            LET Equals(r) == ExtractKeyVals(idx, file[r]) = key
            IN  (\E r \in Present : Equals(r)) =>
                    \A r \in KeySearch(idx, key, cmp) : Equals(r)

\* On the indexes without a descending segment, Get Greater or Equal and Get
\* Less or Equal return an equal key where there is one.
EqualFirstWhenAscending ==
    \A i \in DOMAIN Indexes :
        (\A k \in 1..Len(Indexes[i].segs) : ~Flag(Indexes[i].desc, k))
            => EqualFirst(Indexes[i])

(***************************************************************************)
(* Get Equal returns a record that agrees with the key buffer in every     *)
(* segment, but for blank ones where they are wildcards.                   *)
(***************************************************************************)
EqualMeansEqual ==
    \A i \in DOMAIN Indexes, key \in Keys :
        LET idx == Indexes[i]
        IN  Len(key) = Len(idx.segs) /\ Kept(idx, key) # {} =>
                \A r \in KeySearch(idx, key, "="), k \in 1..Len(key) :
                    \/ file[r][idx.segs[k]] = key[k]
                    \/ NullWildcard /\ key[k] = Blank
=============================================================================
