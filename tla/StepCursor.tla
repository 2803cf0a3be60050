----------------------------- MODULE StepCursor -----------------------------
(***************************************************************************)
(* Physical navigation (ops/step.rs, ops/step_ext.rs) and percentages      *)
(* (ops/position.rs): the physical position of one open handle, with the   *)
(* cache of rows that Step Next and Step Previous fetch ahead on tables    *)
(* with local_cache, over a table that this and other sessions write.      *)
(* The physical order is that of the record numbers.                       *)
(***************************************************************************)
EXTENDS RecordFile, Sequences, FiniteSets

CONSTANTS
    Chunk,      \* rows a Step fetches: STEP_CHUNK_SIZE, or 1 without local_cache
    StepFilters,\* the sets of records that filters of extended Steps accept
    MaxRecs     \* bound: max_recs of an extended Step

ASSUME ChunkAssumption   == Chunk \in Nat \ {0}
ASSUME MaxRecsAssumption == MaxRecs \in Nat \ {0}

VARIABLES
    stepLast,   \* HandleEntry.step_last_recnum
    cache,      \* HandleEntry.step_cache: rows as [rn, rec]
    cacheDir,   \* HandleEntry.step_cache_dir
    stepWalk,   \* history: the walk since the last Step in its direction began it
    late        \* history: rows that appeared late since the cached rows were fetched

stepVars == <<fileVars, stepLast, cache, cacheDir, stepWalk, late>>

NoStepWalk == [dir |-> 0, todo |-> {}]

StepInit ==
    /\ FileInit
    /\ stepLast = NoPos
    /\ cache    = <<>>
    /\ cacheDir = 1
    /\ stepWalk = NoStepWalk
    /\ late     = {}

-----------------------------------------------------------------------------
\* Row q lies beyond row r for a walk in direction dir; anything lies beyond
\* no position.
Past(dir, r, q) == IF dir = 1 THEN q > r ELSE q < r

BeyondLast(dir, last, q) == last = NoPos \/ Past(dir, last, q)

\* What a query for at most n rows of S in physical order returns: the nearest
\* ones, in order.
Query(S, dir, n) ==
    LET m == IF n < Cardinality(S) THEN n ELSE Cardinality(S)
    IN  {rns \in [1..m -> S] :
            /\ \A i, j \in 1..m : i < j => Past(dir, rns[i], rns[j])
            /\ \A q \in S : (\E i \in 1..m : rns[i] = q) \/ Past(dir, rns[m], q)}

RowsBeyond(dir, last, F) == {q \in Present : BeyondLast(dir, last, q) /\ file[q] \in F}

\* Mutants: one row too many; always ascending; in no order.
FetchOneMore(dir, last, n, F)   == Query(RowsBeyond(dir, last, F), dir, n + 1)
FetchAscending(dir, last, n, F) == Query(RowsBeyond(dir, last, F), 1, n)
FetchUnordered(dir, last, n, F) ==
    LET S == RowsBeyond(dir, last, F)
        m == IF n < Cardinality(S) THEN n ELSE Cardinality(S)
    IN  {rns \in [1..m -> S] : \A i, j \in 1..m : rns[i] = rns[j] => i = j}

\* build_step_select_n_params and the fetch.
FetchRows(dir, last, n, F) == Query(RowsBeyond(dir, last, F), dir, n)

\* Mutant: the position after a fetch is the last row fetched.
ServedLast(rns) == rns[Len(rns)]

\* The row a fetch serves; the rest is cached.
Served(rns) == rns[1]

Cached(rns) == [k \in 1 .. Len(rns) - 1 |-> [rn |-> rns[k + 1], rec |-> file[rns[k + 1]]]]

\* The rows owed after a Step returned r: a walk goes on in its direction,
\* and any other Step begins one with the rows of S beyond r.
StepWalkOn(dir, r, S) ==
    stepWalk' = IF stepWalk.dir = dir
                THEN [stepWalk EXCEPT !.todo = @ \ {r}]
                ELSE [dir |-> dir, todo |-> {q \in S : Past(dir, r, q)}]

\* The cache serves a Step in the direction it was filled in.  A walk that
\* begins so sees the file of the fetch: rows that appeared late are not owed.
CacheHit(dir) ==
    /\ cacheDir = dir
    /\ cache # <<>>
    /\ stepLast' = Head(cache).rn
    /\ cache'    = Tail(cache)
    /\ StepWalkOn(dir, Head(cache).rn, Present \ late)
    /\ UNCHANGED <<cacheDir, late>>

\* A fetch beyond last; what was cached is replaced or, when nothing is
\* found or the query fails, cleared.
Fetch(dir, last) ==
    /\ \/ \E rns \in FetchRows(dir, last, Chunk, Record) :
             /\ rns # <<>>
             /\ stepLast' = Served(rns)
             /\ cache'    = Cached(rns)
             /\ cacheDir' = dir
       \/ /\ stepLast' = last
          /\ cache'    = <<>>
          /\ UNCHANGED cacheDir
    /\ late' = {}

\* Ops 24 and 35.  Nothing found, or an error, ends no walk.
StepGet(dir) ==
    /\ \/ CacheHit(dir)
       \/ /\ cacheDir # dir \/ cache = <<>>
          /\ Fetch(dir, stepLast)
          /\ IF stepLast' = stepLast
             THEN UNCHANGED stepWalk
             ELSE StepWalkOn(dir, stepLast', Present)
    /\ UNCHANGED fileVars

\* Ops 33 and 34: the cache and the position are cleared first.  The walk
\* owes every row.
StepEnd(dir) ==
    /\ Fetch(dir, NoPos)
    /\ stepWalk' = IF stepLast' = NoPos THEN NoStepWalk
                   ELSE [dir |-> dir, todo |-> Present \ {stepLast'}]
    /\ UNCHANGED fileVars

-----------------------------------------------------------------------------
(***************************************************************************)
(* Ops 38 and 39: one query for up to n rows, of which as many are         *)
(* returned as the buffer holds.  The rows in between that the filter      *)
(* rejects are not owed.                                                   *)
(***************************************************************************)
StepExtended(dir, n, F) ==
    /\ \E rns \in FetchRows(dir, stepLast, n, F) : \E k \in 1..Len(rns) :
          /\ stepLast' = rns[k]
          /\ stepWalk' =
                IF stepWalk.dir # dir THEN NoStepWalk
                ELSE [stepWalk EXCEPT !.todo =
                        {q \in @ \ {rns[i] : i \in 1..k} :
                            file[q] \in F \/ Past(dir, rns[k], q)}]
    /\ cache' = <<>>
    /\ late'  = {}
    /\ UNCHANGED <<fileVars, cacheDir>>

\* The rank of row r, and the offset and the row that a percentage names.
Rank(r)          == Cardinality({q \in Present : q <= r})
Clamp(x, lo, hi) == IF x < lo THEN lo ELSE IF x > hi THEN hi ELSE x

\* op_get_percent, op 45 of the dispatcher.
GetPercent(r) == (Rank(r) * 10000) \div Cardinality(Present)

\* Mutant: the offset is not clamped.
PercentOffsetUnclamped(pct, total) == (pct * total) \div 10000

PercentOffset(pct, total) == Clamp((pct * total) \div 10000, 0, total - 1)

RowsAtOffset(offset) == {r \in Present : Rank(r) = offset + 1}

\* op_find_percent, op 44 of the dispatcher.  The count and the row are two
\* queries: total is a count that writes of other sessions may have outdated,
\* and then there may be no row at the offset.
FindPercent(pct, total) ==
    /\ stepLast' \in RowsAtOffset(PercentOffset(pct, total))
    /\ stepWalk' = NoStepWalk
    /\ UNCHANGED <<fileVars, cache, cacheDir, late>>

-----------------------------------------------------------------------------
\* Op 2 through this handle: the new row, or row 0 when its number could not
\* be read back, becomes the physical position; the cache stays.
StepInsert(rec) ==
    /\ InsertRow(rec)
    /\ stepLast' \in {nextRec, 0}
    /\ stepWalk' = NoStepWalk
    /\ UNCHANGED <<cache, cacheDir, late>>

\* Op 28: the cache stays.
StepReset ==
    /\ stepLast' = NoPos
    /\ stepWalk' = NoStepWalk
    /\ UNCHANGED <<fileVars, cache, cacheDir, late>>

\* Op 21: the cache is cleared.
StepAbort ==
    /\ stepLast' = NoPos
    /\ cache'    = <<>>
    /\ stepWalk' = NoStepWalk
    /\ late'     = {}
    /\ UNCHANGED <<fileVars, cacheDir>>

\* Other handles insert; this and other handles update and delete.
InsertElsewhere(rec) ==
    /\ InsertRow(rec)
    /\ UNCHANGED <<stepLast, cache, cacheDir, stepWalk, late>>

WriteElsewhere(r, image) ==
    /\ WriteRow(r, image)
    /\ stepWalk' = [stepWalk EXCEPT !.todo = @ \ {r}]
    /\ UNCHANGED <<stepLast, cache, cacheDir, late>>

\* A row appears late, perhaps between two cached ones.
RestoreElsewhere(r, rec) ==
    /\ RestoreRow(r, rec)
    /\ late' = IF cache = <<>> THEN {} ELSE late \cup {r}
    /\ UNCHANGED <<stepLast, cache, cacheDir, stepWalk>>

Directions == {1, -1}

\* Bound: the percentages asked for; 15000 is beyond the file.
Percentages == {0, 2500, 5000, 7500, 10000, 15000}

StepOp ==
    \/ \E dir \in Directions : StepGet(dir) \/ StepEnd(dir)
    \/ \E dir \in Directions, n \in 1..MaxRecs, F \in StepFilters : StepExtended(dir, n, F)
    \/ \E pct \in Percentages, total \in 1..MaxRec : FindPercent(pct, total)
    \/ StepReset \/ StepAbort

StepWrite ==
    \/ \E rec \in Record : StepInsert(rec) \/ InsertElsewhere(rec)
    \/ \E r \in Row, image \in Record \cup {Absent} : WriteElsewhere(r, image)
    \/ \E r \in Row, rec \in Record : RestoreElsewhere(r, rec)

StepNext == StepOp \/ StepWrite

StepSpec == StepInit /\ [][StepNext]_stepVars

-----------------------------------------------------------------------------
(***************************************************************************)
(* The types of the handle's physical position and of its cache.           *)
(***************************************************************************)
StepTypeOK ==
    /\ FileTypeOK
    /\ stepLast \in Row \cup {NoPos, 0}
    /\ cache \in Seq([rn : Row, rec : Record])
    /\ Len(cache) < Chunk
    /\ cacheDir \in Directions
    /\ stepWalk \in [dir : {0, 1, -1}, todo : SUBSET Row]
    /\ late \subseteq Row

(***************************************************************************)
(* A walk by Step operations in one direction skips no row, cached or not: *)
(* a row that was beyond the start (any row, after Step First and Last),   *)
(* has not been changed since and has not been returned is still ahead,    *)
(* and if the cache will serve the next Step it is in the cache or beyond  *)
(* its end.  A walk that begins in the cache, as it may after Insert,      *)
(* Reset and Find Percent, is owed no row that appeared late after the     *)
(* cached ones were fetched: between two of these it is never served.      *)
(***************************************************************************)
InCacheOrBeyond(q) ==
    \/ \E k \in 1..Len(cache) : cache[k].rn = q
    \/ Past(cacheDir, cache[Len(cache)].rn, q)

StepSkipsNothing ==
    \A q \in stepWalk.todo :
        /\ BeyondLast(stepWalk.dir, stepLast, q)
        /\ (cacheDir = stepWalk.dir /\ cache # <<>>) => InCacheOrBeyond(q)

(***************************************************************************)
(* Rows wait in the cache in the order of the walk that filled it, each    *)
(* once, so a walk never returns a row twice or goes back.                 *)
(***************************************************************************)
CacheIsSorted ==
    \A i, j \in 1..Len(cache) : i < j => Past(cacheDir, cache[i].rn, cache[j].rn)

(***************************************************************************)
(* The only gaps of the cache are late rows: any other row of the file     *)
(* beyond the first cached one, inserted before or after the fetch, is in  *)
(* the cache or beyond its end, so that the fetch that follows the last    *)
(* cached row misses none.                                                 *)
(***************************************************************************)
CacheHasNoGaps ==
    /\ \A k \in 1..Len(cache) : cache[k].rn < nextRec
    /\ cache # <<>> =>
          \A q \in Present \ late : Past(cacheDir, cache[1].rn, q) => InCacheOrBeyond(q)

(***************************************************************************)
(* The percentage of a record leads back to it or to the record after it,  *)
(* give or take the records in a hundredth of a percent, and never beyond  *)
(* the file.  The code counts the record itself going there and skips that *)
(* many coming back.                                                       *)
(***************************************************************************)
PercentRoundTrip ==
    \A r \in Present :
        LET total  == Cardinality(Present)
            offset == PercentOffset(GetPercent(r), total)
        IN  /\ offset \in 0 .. total - 1
            /\ Rank(r) - offset \in 0 .. 1 + total \div 10000
=============================================================================
