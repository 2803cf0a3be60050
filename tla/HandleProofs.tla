------------------------------- MODULE HandleProofs -------------------------
(***************************************************************************)
(* Proofs about a handle, for a table of any size.                         *)
(*                                                                         *)
(* StepCursor: for any records, filters, cache size and batch size, a walk *)
(* in physical order misses no row that it owes.                           *)
(*                                                                         *)
(* BtrHandle: for records of any number of byte ranges and any batch,      *)
(* writes reach the row that is current, batches are counted and chunks    *)
(* change no more than they say.                                           *)
(***************************************************************************)
EXTENDS StepCursor, BtrHandle, FiniteSetTheorems, TLAPS

-----------------------------------------------------------------------------
(***************************************************************************)
(* The walk in physical order.                                             *)
(***************************************************************************)
Position == Row \cup {NoPos, 0}

CacheRow == [rn : Row, rec : Record]

\* The inductive invariant: a row owed is in the file, so it is among those
\* that a query returns.
StepIInv ==
    /\ StepTypeOK
    /\ CacheIsSorted
    /\ CacheHasNoGaps
    /\ StepSkipsNothing
    /\ stepWalk.todo \subseteq Present

\* Record numbers start at 1; no position is a number of its own.
LEMMA RowIsNatural == Row \subseteq Nat \ {0} /\ NoPos = -1
  BY MaxRecAssumption DEF Row, NoPos

\* Rows of the file have records and numbers already given out.
LEMMA PresentFacts ==
    ASSUME FileTypeOK
    PROVE  /\ Present \subseteq Row
           /\ \A q \in Present : file[q] \in Record /\ q < nextRec
  BY DEF FileTypeOK, Present

\* There are finitely many rows.
LEMMA RowsAreFinite ==
    ASSUME NEW S \in SUBSET Row
    PROVE  IsFiniteSet(S) /\ Cardinality(S) \in Nat
  <1>1. IsFiniteSet(Row)
    BY MaxRecAssumption, FS_Interval DEF Row
  <1>2. IsFiniteSet(S)
    BY <1>1, FS_Subset
  <1>3. QED
    BY <1>2, FS_CardinalityType

\* What a query returns: a sequence of rows of S, at most n, in the order of
\* the walk, and it leaves out only rows beyond its end.
LEMMA QueryFacts ==
    ASSUME NEW S \in SUBSET Row, NEW dir \in Directions, NEW n \in Nat \ {0},
           NEW rns \in Query(S, dir, n)
    PROVE  /\ rns \in Seq(S)
           /\ Len(rns) <= n
           /\ \A i, j \in 1..Len(rns) : i < j => Past(dir, rns[i], rns[j])
           /\ \A q \in S : \/ \E i \in 1..Len(rns) : rns[i] = q
                           \/ Past(dir, rns[Len(rns)], q)
  <1> DEFINE m == IF n < Cardinality(S) THEN n ELSE Cardinality(S)
  <1>1. m \in Nat /\ m <= n
    BY RowsAreFinite
  <1>2. rns \in [1..m -> S]
    BY DEF Query
  <1>3. rns \in Seq(S) /\ Len(rns) = m
    BY <1>1, <1>2
  <1>4. QED
    BY <1>1, <1>3 DEF Query

-----------------------------------------------------------------------------
(***************************************************************************)
(* A fetch beyond last establishes the cache's part of the invariant and   *)
(* puts every row beyond last, but for the one served, beyond that one and *)
(* into the cache or beyond its end.                                       *)
(***************************************************************************)
LEMMA FetchFacts ==
    ASSUME FileTypeOK, UNCHANGED fileVars,
           NEW dir \in Directions, NEW last \in Position,
           NEW rns \in FetchRows(dir, last, Chunk, Record), rns # <<>>,
           stepLast' = Served(rns), cache' = Cached(rns), cacheDir' = dir, late' = {}
    PROVE  /\ stepLast' \in Row
           /\ BeyondLast(dir, last, stepLast')
           /\ cache' \in Seq(CacheRow)
           /\ Len(cache') < Chunk
           /\ CacheIsSorted'
           /\ CacheHasNoGaps'
           /\ \A q \in Present :
                 BeyondLast(dir, last, q) /\ q # stepLast' =>
                     /\ BeyondLast(dir, stepLast', q)
                     /\ cache' # <<>> => InCacheOrBeyond(q)'
  <1> DEFINE S == RowsBeyond(dir, last, Record)
             n == Len(rns)
  <1>1. /\ S \subseteq Present
        /\ \A q \in Present : q \in S <=> BeyondLast(dir, last, q)
    BY PresentFacts DEF RowsBeyond
  <1>2. S \in SUBSET Row
    BY <1>1, PresentFacts
  <1>3. /\ rns \in Seq(S)
        /\ n <= Chunk
        /\ \A i, j \in 1..n : i < j => Past(dir, rns[i], rns[j])
        /\ \A q \in S : (\E i \in 1..n : rns[i] = q) \/ Past(dir, rns[n], q)
    BY <1>2, QueryFacts, ChunkAssumption DEF FetchRows
  <1>4. n \in Nat \ {0}
    BY <1>3
  <1>5. \A i \in 1..n : rns[i] \in S /\ rns[i] \in Row /\ rns[i] \in Nat /\ file[rns[i]] \in Record
    <2>1. \A r \in Present : r \in Row /\ file[r] \in Record
      BY PresentFacts
    <2>2. \A i \in 1..n : rns[i] \in S
      BY <1>3, <1>4
    <2>3. QED
      BY <1>1, <2>1, <2>2, RowIsNatural
  <1>6. /\ stepLast' = rns[1]
        /\ stepLast' \in Row
        /\ BeyondLast(dir, last, stepLast')
    BY <1>1, <1>4, <1>5 DEF Served
  <1>7. /\ cache' \in Seq(CacheRow)
        /\ Len(cache') = n - 1
        /\ \A k \in 1 .. n - 1 : cache'[k].rn = rns[k + 1]
    <2>1. \A k \in 1 .. n - 1 : k + 1 \in 1..n
      BY <1>4
    <2>2. cache' = [k \in 1 .. n - 1 |-> [rn |-> rns[k + 1], rec |-> file[rns[k + 1]]]]
      BY DEF Cached
    <2>3. \A k \in 1 .. n - 1 : [rn |-> rns[k + 1], rec |-> file[rns[k + 1]]] \in CacheRow
      BY <1>5, <2>1 DEF CacheRow
    <2>4. n - 1 \in Nat
      BY <1>4
    <2>5. cache' \in [1 .. n - 1 -> CacheRow]
      BY <2>2, <2>3
    <2>6. cache' \in Seq(CacheRow) /\ Len(cache') = n - 1
      BY <2>4, <2>5
    <2>7. QED
      BY <2>2, <2>6
  <1>8. Len(cache') < Chunk
    BY <1>3, <1>4, <1>7, ChunkAssumption
  <1>9. CacheIsSorted'
    <2> SUFFICES ASSUME NEW i \in 1..Len(cache'), NEW j \in 1..Len(cache'), i < j
                 PROVE  Past(dir, cache'[i].rn, cache'[j].rn)
      BY DEF CacheIsSorted, Past
    <2>1. i + 1 \in 1..n /\ j + 1 \in 1..n /\ i + 1 < j + 1
      BY <1>4, <1>7
    <2>2. QED
      BY <1>3, <1>4, <1>7, <2>1
  \* A row of the query is served, cached, or beyond the last one.
  <1>10. ASSUME NEW q \in S, q # stepLast', cache' # <<>>
         PROVE  InCacheOrBeyond(q)'
    <2>1. n > 1
      BY <1>4, <1>7, <1>10
    <2>2. cache'[Len(cache')].rn = rns[n]
      BY <1>4, <1>7, <2>1
    <2>3. CASE \E i \in 1..n : rns[i] = q
      <3>1. PICK i \in 1..n : rns[i] = q
        BY <2>3
      <3>2. i - 1 \in 1..Len(cache') /\ cache'[i - 1].rn = q
        BY <1>4, <1>6, <1>7, <1>10, <3>1
      <3>3. QED
        BY <3>2 DEF InCacheOrBeyond
    <2>4. CASE Past(dir, rns[n], q)
      BY <2>2, <2>4 DEF InCacheOrBeyond, Past
    <2>5. QED
      BY <1>3, <2>3, <2>4
  <1>11. ASSUME NEW q \in S, q # stepLast'
         PROVE  BeyondLast(dir, stepLast', q)
    <2>1. q \in Nat
      BY <1>2, RowIsNatural
    <2>2. CASE \E i \in 1..n : rns[i] = q
      <3>1. PICK i \in 1..n : rns[i] = q
        BY <2>2
      <3>2. 1 \in 1..n /\ 1 < i
        BY <1>4, <1>6, <1>11, <3>1
      <3>3. Past(dir, rns[1], rns[i])
        BY <1>3, <3>1, <3>2
      <3>4. QED
        BY <1>6, <3>1, <3>3 DEF BeyondLast
    <2>3. CASE Past(dir, rns[n], q)
      <3>1. n = 1 \/ Past(dir, rns[1], rns[n])
        <4>1. \A k \in Nat \ {0} : 1 \in 1..k /\ k \in 1..k /\ (k = 1 \/ 1 < k)
          OBVIOUS
        <4>2. 1 \in 1..n /\ n \in 1..n /\ (n = 1 \/ 1 < n)
          BY <1>4, <4>1
        <4>3. QED
          BY <1>3, <4>2
      <3>2. rns[1] \in Nat /\ rns[n] \in Nat
        BY <1>4, <1>5
      <3>3. Past(dir, rns[1], q)
        BY <2>1, <2>3, <3>1, <3>2 DEF Past
      <3>4. QED
        BY <1>6, <3>3 DEF BeyondLast
    <2>4. QED
      BY <1>3, <2>2, <2>3
  <1>12. CacheHasNoGaps'
    <2>1. \A k \in 1..Len(cache') : cache'[k].rn < nextRec'
      <3>1. ASSUME NEW k \in 1..Len(cache') PROVE cache'[k].rn < nextRec
        <4>1. k + 1 \in 1..n /\ cache'[k].rn = rns[k + 1]
          BY <1>4, <1>7
        <4>2. QED
          BY <1>1, <1>5, <4>1, PresentFacts
      <3>2. QED
        BY <3>1 DEF fileVars
    <2>2. ASSUME cache' # <<>>, NEW q \in Present, Past(dir, cache'[1].rn, q)
          PROVE  InCacheOrBeyond(q)'
      <3>1. 1 \in 1..n /\ 2 \in 1..n /\ cache'[1].rn = rns[2]
        BY <1>4, <1>7, <2>2
      <3>2. Past(dir, rns[1], rns[2])
        BY <1>3, <3>1
      <3>3. q \in Nat /\ rns[1] \in Nat /\ rns[2] \in Nat /\ last \in Int
        <4>1. q \in Nat
          BY PresentFacts, RowIsNatural
        <4>2. rns[1] \in Nat /\ rns[2] \in Nat
          BY <1>5, <3>1
        <4>3. last \in Int
          BY RowIsNatural DEF Position
        <4>4. QED
          BY <4>1, <4>2, <4>3
      <3>4. q # stepLast'
        BY <1>6, <2>2, <3>1, <3>2, <3>3 DEF Past
      <3>5. BeyondLast(dir, last, rns[2])
        BY <1>1, <1>5, <3>1
      <3>6. BeyondLast(dir, last, q)
        BY <2>2, <3>1, <3>3, <3>5 DEF BeyondLast, Past
      <3>7. QED
        BY <1>1, <1>10, <2>2, <3>4, <3>6
    <2>3. Present' = Present
      BY DEF fileVars, Present
    <2>4. QED
      BY <2>1, <2>2, <2>3 DEF CacheHasNoGaps, Past
  <1>13. QED
    BY <1>1, <1>6, <1>7, <1>8, <1>9, <1>10, <1>11, <1>12

-----------------------------------------------------------------------------
(***************************************************************************)
(* The walk.                                                               *)
(***************************************************************************)
LEMMA StepTypes ==
    StepTypeOK <=>
        /\ FileTypeOK
        /\ stepLast \in Position
        /\ cache \in Seq(CacheRow)
        /\ Len(cache) < Chunk
        /\ cacheDir \in Directions
        /\ stepWalk \in [dir : {0, 1, -1}, todo : SUBSET Row]
        /\ late \subseteq Row
  BY DEF StepTypeOK, Position, CacheRow

\* What StepWalkOn leaves owed, the table not changing, when every row still
\* owed or beyond the row returned is where the invariant wants it.
LEMMA WalkOnFacts ==
    ASSUME StepTypeOK, stepWalk.todo \subseteq Present, UNCHANGED fileVars,
           NEW dir \in Directions, NEW r \in Row, NEW S \in SUBSET Present,
           StepWalkOn(dir, r, S)
    PROVE  /\ stepWalk' \in [dir : {0, 1, -1}, todo : SUBSET Row]
           /\ stepWalk'.todo \subseteq Present'
           /\ stepWalk'.dir = dir
           /\ \A q \in stepWalk'.todo :
                 /\ q \in Present
                 /\ q # r
                 /\ \/ q \in stepWalk.todo /\ stepWalk.dir = dir
                    \/ q \in S /\ Past(dir, r, q)
  <1>1. Present' = Present /\ Present \subseteq Row
    BY PresentFacts DEF StepTypeOK, fileVars, Present
  <1>2. \A q \in Present : Past(dir, r, q) => q # r
    BY <1>1, RowIsNatural DEF Past
  <1>3. CASE stepWalk.dir = dir
    <2>1. stepWalk' = [stepWalk EXCEPT !.todo = @ \ {r}]
      BY <1>3 DEF StepWalkOn
    <2>2. stepWalk \in [dir : {0, 1, -1}, todo : SUBSET Row]
      BY DEF StepTypeOK
    <2>3. stepWalk'.todo = stepWalk.todo \ {r} /\ stepWalk'.dir = dir
      BY <1>3, <2>1, <2>2
    <2>4. stepWalk' \in [dir : {0, 1, -1}, todo : SUBSET Row]
      BY <2>1, <2>2
    <2>5. QED
      BY <1>1, <1>3, <2>3, <2>4
  <1>4. CASE stepWalk.dir # dir
    <2>1. stepWalk' = [dir |-> dir, todo |-> {q \in S : Past(dir, r, q)}]
      BY <1>4 DEF StepWalkOn
    <2>2. stepWalk' \in [dir : {0, 1, -1}, todo : SUBSET Row]
      BY <1>1, <2>1 DEF Directions
    <2>3. QED
      BY <1>1, <1>2, <2>1, <2>2
  <1>5. QED
    BY <1>3, <1>4

\* Writing rows opens no gap in the cache that is not a late row: the number
\* of an inserted row is beyond those of all cached rows, and a row that
\* appears late is late.
LEMMA CacheOutlivesWrites ==
    ASSUME StepIInv, UNCHANGED <<cache, cacheDir>>,
           nextRec' = nextRec \/ nextRec' = nextRec + 1,
           Present' \ late' \subseteq (Present \ late) \cup {nextRec}
    PROVE  CacheHasNoGaps'
  <1>1. /\ nextRec \in Nat
        /\ cacheDir \in Directions
        /\ cache \in Seq(CacheRow)
    BY MaxRecAssumption, StepTypes DEF StepIInv, FileTypeOK
  <1>2. \A k \in 1..Len(cache) : cache[k].rn \in Nat /\ cache[k].rn < nextRec
    <2>1. \A k \in 1..Len(cache) : cache[k] \in CacheRow
      BY <1>1
    <2>2. \A k \in 1..Len(cache) : cache[k].rn \in Nat
      BY <2>1, RowIsNatural DEF CacheRow
    <2>3. QED
      BY <2>2 DEF StepIInv, CacheHasNoGaps
  <1>3. \A k \in 1..Len(cache') : cache'[k].rn < nextRec'
    BY <1>1, <1>2
  <1>4. ASSUME cache' # <<>>, NEW q \in Present' \ late', Past(cacheDir', cache'[1].rn, q)
        PROVE  InCacheOrBeyond(q)'
    <2>1. 1 \in 1..Len(cache) /\ Len(cache) \in 1..Len(cache)
      BY <1>1, <1>4
    <2>2. CASE q \in Present \ late
      <3>1. InCacheOrBeyond(q)
        BY <1>4, <2>2 DEF StepIInv, CacheHasNoGaps
      <3>2. QED
        BY <3>1 DEF InCacheOrBeyond, Past
    <2>3. CASE q = nextRec
      <3>1. cacheDir = 1
        BY <1>1, <1>2, <1>4, <2>1, <2>3 DEF Past, Directions
      <3>2. Past(cacheDir, cache[Len(cache)].rn, q)
        BY <1>1, <1>2, <2>1, <2>3, <3>1 DEF Past
      <3>3. QED
        BY <3>2 DEF InCacheOrBeyond, Past
    <2>4. QED
      BY <2>2, <2>3
  <1>5. QED
    BY <1>3, <1>4 DEF CacheHasNoGaps, Past

\* A step that leaves nothing owed and the cache empty or as it was.
LEMMA NothingOwed ==
    ASSUME StepIInv, StepTypeOK', stepWalk'.todo = {},
           nextRec' = nextRec \/ nextRec' = nextRec + 1,
           cache' = <<>> \/
               /\ UNCHANGED <<cache, cacheDir>>
               /\ Present' \ late' \subseteq (Present \ late) \cup {nextRec}
    PROVE  StepIInv'
  <1>1. CASE cache' = <<>>
    <2>1. Len(cache') = 0
      BY <1>1
    <2>2. CacheIsSorted' /\ CacheHasNoGaps'
      BY <1>1, <2>1 DEF CacheIsSorted, CacheHasNoGaps
    <2>3. QED
      BY <2>2 DEF StepIInv, StepSkipsNothing
  <1>2. CASE /\ UNCHANGED <<cache, cacheDir>>
             /\ Present' \ late' \subseteq (Present \ late) \cup {nextRec}
    <2>1. CacheIsSorted'
      BY <1>2 DEF StepIInv, CacheIsSorted, Past
    <2>2. CacheHasNoGaps'
      BY <1>2, CacheOutlivesWrites
    <2>3. QED
      BY <2>1, <2>2 DEF StepIInv, StepSkipsNothing
  <1>3. QED
    BY <1>1, <1>2

-----------------------------------------------------------------------------
(***************************************************************************)
(* Each operation preserves the invariant.                                 *)
(***************************************************************************)
LEMMA CacheHitStep ==
    ASSUME StepIInv, UNCHANGED fileVars, NEW dir \in Directions, CacheHit(dir)
    PROVE  StepIInv'
  <1> DEFINE n == Len(cache)
             r == Head(cache).rn
  <1>1. /\ FileTypeOK /\ FileTypeOK'
        /\ cache \in Seq(CacheRow)
        /\ n \in Nat \ {0}
        /\ cacheDir = dir
        /\ Present' = Present
    BY StepTypes DEF StepIInv, CacheHit, fileVars, Present, FileTypeOK
  <1>2. \A k \in 1..n : cache[k].rn \in Row /\ cache[k].rn \in Nat
    <2>1. \A k \in 1..n : cache[k] \in CacheRow
      BY <1>1
    <2>2. QED
      BY <2>1, RowIsNatural DEF CacheRow
  <1>3. r = cache[1].rn /\ r \in Row
    BY <1>1, <1>2
  <1>4. /\ cache' \in Seq(CacheRow)
        /\ Len(cache') = n - 1
        /\ \A k \in 1 .. n - 1 : cache'[k] = cache[k + 1]
    BY <1>1 DEF CacheHit
  <1>5. /\ stepLast' = r
        /\ cacheDir' = dir
        /\ late' = late /\ late \subseteq Row
        /\ StepWalkOn(dir, r, Present \ late)
    BY <1>1, StepTypes DEF StepIInv, CacheHit
  <1>6. /\ stepWalk' \in [dir : {0, 1, -1}, todo : SUBSET Row]
        /\ stepWalk'.todo \subseteq Present'
        /\ stepWalk'.dir = dir
        /\ \A q \in stepWalk'.todo :
              /\ q \in Present
              /\ q # r
              /\ \/ q \in stepWalk.todo /\ stepWalk.dir = dir
                 \/ q \in Present \ late /\ Past(dir, r, q)
    <2>1. Present \ late \in SUBSET Present
      OBVIOUS
    <2>2. QED
      BY <1>3, <1>5, <2>1, WalkOnFacts DEF StepIInv
  <1>7. \A i, j \in 1..n : i < j => Past(dir, cache[i].rn, cache[j].rn)
    BY <1>1 DEF StepIInv, CacheIsSorted
  <1>8. CacheIsSorted'
    <2> SUFFICES ASSUME NEW i \in 1..Len(cache'), NEW j \in 1..Len(cache'), i < j
                 PROVE  Past(dir, cache'[i].rn, cache'[j].rn)
      BY <1>5 DEF CacheIsSorted, Past
    <2>1. i + 1 \in 1..n /\ j + 1 \in 1..n /\ i + 1 < j + 1
      BY <1>1, <1>4
    <2>2. QED
      BY <1>4, <1>7, <2>1
  \* A row in the cache or beyond its end, but for the head, still is.
  <1>9. ASSUME NEW q \in Row, q # r, InCacheOrBeyond(q), cache' # <<>>
        PROVE  InCacheOrBeyond(q)'
    <2>1. n > 1 /\ cache'[Len(cache')] = cache[n]
      BY <1>1, <1>4, <1>9
    <2>2. CASE \E k \in 1..n : cache[k].rn = q
      <3>1. PICK k \in 1..n : cache[k].rn = q
        BY <2>2
      <3>2. k # 1
        BY <1>3, <1>9, <3>1
      <3>3. k - 1 \in 1..Len(cache') /\ cache'[k - 1] = cache[k]
        BY <1>1, <1>4, <3>1, <3>2
      <3>4. QED
        BY <3>1, <3>3 DEF InCacheOrBeyond
    <2>3. CASE Past(cacheDir, cache[n].rn, q)
      BY <1>1, <1>5, <2>1, <2>3 DEF InCacheOrBeyond, Past
    <2>4. QED
      BY <1>9, <2>2, <2>3 DEF InCacheOrBeyond
  <1>10. ASSUME NEW q \in Row, q # r, InCacheOrBeyond(q)
         PROVE  Past(dir, r, q)
    <2>1. q \in Nat /\ r \in Nat
      BY <1>3, RowIsNatural
    <2>2. CASE \E k \in 1..n : cache[k].rn = q
      <3>1. PICK k \in 1..n : cache[k].rn = q
        BY <2>2
      <3>2. 1 \in 1..n /\ 1 < k
        BY <1>1, <1>3, <1>10, <3>1
      <3>3. QED
        BY <1>3, <1>7, <3>1, <3>2
    <2>3. CASE Past(cacheDir, cache[n].rn, q)
      <3>1. 1 \in 1..n /\ n \in 1..n /\ cache[n].rn \in Nat
        BY <1>1, <1>2
      <3>2. n = 1 \/ Past(dir, r, cache[n].rn)
        BY <1>1, <1>3, <1>7, <3>1, SMTT(30)
      <3>3. QED
        BY <1>1, <1>3, <2>1, <2>3, <3>1, <3>2 DEF Past
    <2>4. QED
      BY <1>10, <2>2, <2>3 DEF InCacheOrBeyond
  \* A row of the file beyond the head that is not late is in the cache or
  \* beyond its end.
  <1>11. \A q \in Present \ late : Past(dir, r, q) => InCacheOrBeyond(q)
    BY <1>1, <1>3 DEF StepIInv, CacheHasNoGaps
  <1>12. CacheHasNoGaps'
    <2>1. \A k \in 1..Len(cache') : cache'[k].rn < nextRec'
      <3>1. ASSUME NEW k \in 1..Len(cache') PROVE cache'[k].rn < nextRec
        <4>1. k + 1 \in 1..n /\ cache'[k] = cache[k + 1]
          BY <1>1, <1>4
        <4>2. QED
          BY <4>1 DEF StepIInv, CacheHasNoGaps
      <3>2. QED
        BY <3>1 DEF fileVars
    <2>2. ASSUME cache' # <<>>, NEW q \in Present \ late, Past(dir, cache'[1].rn, q)
          PROVE  InCacheOrBeyond(q)'
      <3>1. 1 \in 1..n /\ 2 \in 1..n /\ cache'[1] = cache[2]
        BY <1>1, <1>4, <2>2
      <3>2. q \in Row /\ q \in Nat /\ r \in Nat /\ cache[2].rn \in Nat
        BY <1>1, <1>2, <1>3, <3>1, PresentFacts, RowIsNatural
      <3>3. Past(dir, r, cache[2].rn)
        BY <1>3, <1>7, <3>1
      <3>4. Past(dir, r, q) /\ q # r
        BY <2>2, <3>1, <3>2, <3>3 DEF Past
      <3>5. QED
        BY <1>9, <1>11, <2>2, <3>2, <3>4
    <2>3. QED
      BY <1>1, <1>5, <2>1, <2>2 DEF CacheHasNoGaps, Past
  <1>13. StepSkipsNothing'
    <2> SUFFICES ASSUME NEW q \in stepWalk'.todo
                 PROVE  /\ BeyondLast(dir, r, q)
                        /\ cache' # <<>> => InCacheOrBeyond(q)'
      BY <1>5, <1>6 DEF StepSkipsNothing, BeyondLast, Past
    <2>1. q \in Present /\ q \in Row /\ q # r
      BY <1>1, <1>6, PresentFacts
    <2>2. InCacheOrBeyond(q)
      <3>1. CASE q \in stepWalk.todo /\ stepWalk.dir = dir
        BY <1>1, <3>1 DEF StepIInv, StepSkipsNothing
      <3>2. CASE q \in Present \ late /\ Past(dir, r, q)
        BY <1>11, <3>2
      <3>3. QED
        BY <1>6, <3>1, <3>2
    <2>3. QED
      BY <1>9, <1>10, <2>1, <2>2 DEF BeyondLast
  <1>14. Len(cache') < Chunk
    BY <1>1, <1>4, ChunkAssumption, StepTypes DEF StepIInv
  <1>15. StepTypeOK'
    BY <1>1, <1>3, <1>4, <1>5, <1>6, <1>14 DEF StepTypeOK, CacheRow
  <1>16. QED
    BY <1>6, <1>8, <1>12, <1>13, <1>15 DEF StepIInv

\* A fetch preserves the invariant when only rows beyond last are owed.
LEMMA FetchStep ==
    ASSUME StepIInv, UNCHANGED fileVars,
           NEW dir \in Directions, NEW last \in Position,
           NEW rns \in FetchRows(dir, last, Chunk, Record), rns # <<>>,
           stepLast' = Served(rns), cache' = Cached(rns), cacheDir' = dir, late' = {},
           stepWalk' \in [dir : {0, 1, -1}, todo : SUBSET Row],
           stepWalk'.dir = dir,
           \A q \in stepWalk'.todo :
               q \in Present /\ q # stepLast' /\ BeyondLast(dir, last, q)
    PROVE  StepIInv'
  <1>1. /\ FileTypeOK /\ FileTypeOK'
        /\ Present' = Present
    BY DEF StepIInv, StepTypeOK, FileTypeOK, fileVars, Present
  <1>2. /\ stepLast' \in Row
        /\ cache' \in Seq(CacheRow)
        /\ Len(cache') < Chunk
        /\ CacheIsSorted'
        /\ CacheHasNoGaps'
        /\ \A q \in Present :
              BeyondLast(dir, last, q) /\ q # stepLast' =>
                  /\ BeyondLast(dir, stepLast', q)
                  /\ cache' # <<>> => InCacheOrBeyond(q)'
    BY <1>1, FetchFacts
  <1>3. StepSkipsNothing'
    <2> SUFFICES ASSUME NEW q \in stepWalk'.todo
                 PROVE  /\ BeyondLast(dir, stepLast', q)
                        /\ cache' # <<>> => InCacheOrBeyond(q)'
      BY DEF StepSkipsNothing, BeyondLast, Past
    <2>1. QED
      BY <1>2
  <1>4. StepTypeOK'
    BY <1>1, <1>2 DEF StepTypeOK, CacheRow
  <1>5. QED
    BY <1>1, <1>2, <1>3, <1>4 DEF StepIInv

\* A fetch that finds nothing, or fails, empties the cache.
LEMMA FetchNothing ==
    ASSUME StepIInv, UNCHANGED fileVars, UNCHANGED <<cacheDir, stepWalk, stepLast>>,
           cache' = <<>>, late' = {}
    PROVE  StepIInv'
  <1>1. Len(cache') = 0 /\ cache' \in Seq(CacheRow)
    OBVIOUS
  <1>2. StepTypeOK'
    BY <1>1, ChunkAssumption DEF StepIInv, StepTypeOK, FileTypeOK, fileVars, CacheRow
  <1>3. CacheIsSorted' /\ CacheHasNoGaps'
    BY <1>1 DEF CacheIsSorted, CacheHasNoGaps
  <1>4. StepSkipsNothing'
    BY DEF StepIInv, StepSkipsNothing, BeyondLast, Past
  <1>5. Present' = Present
    BY DEF fileVars, Present
  <1>6. QED
    BY <1>2, <1>3, <1>4, <1>5 DEF StepIInv

\* Step Next and Step Previous keep the invariant.
LEMMA StepGetStep ==
    ASSUME StepIInv, NEW dir \in Directions, StepGet(dir)
    PROVE  StepIInv'
  <1>1. UNCHANGED fileVars
    BY DEF StepGet
  <1>2. CASE CacheHit(dir)
    BY <1>1, <1>2, CacheHitStep
  <1>3. ASSUME Fetch(dir, stepLast),
               IF stepLast' = stepLast
               THEN UNCHANGED stepWalk
               ELSE StepWalkOn(dir, stepLast', Present)
        PROVE  StepIInv'
    <2>1. FileTypeOK /\ stepLast \in Position
      BY StepTypes DEF StepIInv
    <2>2. ASSUME NEW rns \in FetchRows(dir, stepLast, Chunk, Record), rns # <<>>,
                 stepLast' = Served(rns), cache' = Cached(rns), cacheDir' = dir
          PROVE  StepIInv'
      <3>1. late' = {}
        BY <1>3 DEF Fetch
      <3>2. stepLast' \in Row /\ BeyondLast(dir, stepLast, stepLast')
        BY <1>1, <2>1, <2>2, <3>1, FetchFacts
      <3>3. stepLast' # stepLast
        BY <3>2, RowIsNatural DEF BeyondLast, Past
      <3>4. /\ stepWalk' \in [dir : {0, 1, -1}, todo : SUBSET Row]
            /\ stepWalk'.dir = dir
            /\ \A q \in stepWalk'.todo :
                  /\ q \in Present
                  /\ q # stepLast'
                  /\ \/ q \in stepWalk.todo /\ stepWalk.dir = dir
                     \/ q \in Present /\ Past(dir, stepLast', q)
        BY <1>1, <1>3, <3>2, <3>3, WalkOnFacts DEF StepIInv
      <3>5. ASSUME NEW q \in stepWalk'.todo
            PROVE  BeyondLast(dir, stepLast, q)
        <4>1. CASE q \in stepWalk.todo /\ stepWalk.dir = dir
          BY <4>1 DEF StepIInv, StepSkipsNothing
        <4>2. CASE Past(dir, stepLast', q)
          <5>1. q \in Nat /\ stepLast' \in Nat /\ stepLast \in Int
            BY <2>1, <3>2, <3>4, PresentFacts, RowIsNatural DEF Position
          <5>2. QED
            BY <3>2, <4>2, <5>1 DEF BeyondLast, Past
        <4>3. QED
          BY <3>4, <4>1, <4>2
      <3>6. QED
        BY <1>1, <2>1, <2>2, <3>1, <3>4, <3>5, FetchStep
    <2>3. CASE stepLast' = stepLast /\ cache' = <<>> /\ UNCHANGED cacheDir
      BY <1>1, <1>3, <2>3, FetchNothing DEF Fetch
    <2>4. QED
      BY <1>3, <2>2, <2>3 DEF Fetch
  <1>4. QED
    BY <1>2, <1>3 DEF StepGet

\* Step First and Step Last keep the invariant.
LEMMA StepEndStep ==
    ASSUME StepIInv, NEW dir \in Directions, StepEnd(dir)
    PROVE  StepIInv'
  <1>1. /\ UNCHANGED fileVars
        /\ FileTypeOK /\ FileTypeOK'
        /\ Present' = Present
        /\ NoPos \in Position
        /\ late' = {}
    BY DEF StepEnd, Fetch, StepIInv, StepTypeOK, FileTypeOK, fileVars, Present, Position
  <1>2. ASSUME NEW rns \in FetchRows(dir, NoPos, Chunk, Record), rns # <<>>,
               stepLast' = Served(rns), cache' = Cached(rns), cacheDir' = dir
        PROVE  StepIInv'
    <2>1. stepLast' \in Row /\ stepLast' # NoPos
      BY <1>1, <1>2, FetchFacts, RowIsNatural
    <2>2. stepWalk' = [dir |-> dir, todo |-> Present \ {stepLast'}]
      BY <2>1 DEF StepEnd
    <2>3. stepWalk' \in [dir : {0, 1, -1}, todo : SUBSET Row]
      BY <1>1, <2>2, PresentFacts DEF Directions
    <2>4. QED
      BY <1>1, <1>2, <2>2, <2>3, FetchStep DEF BeyondLast
  <1>3. CASE stepLast' = NoPos /\ cache' = <<>> /\ UNCHANGED cacheDir
    <2>1. stepWalk' = NoStepWalk
      BY <1>3 DEF StepEnd
    <2>2. StepTypeOK'
      BY <1>1, <1>3, <2>1, ChunkAssumption DEF StepIInv, StepTypeOK, NoStepWalk
    <2>3. nextRec' = nextRec
      BY <1>1 DEF fileVars
    <2>4. QED
      BY <1>1, <1>3, <2>1, <2>2, <2>3, NothingOwed DEF NoStepWalk
  <1>4. QED
    BY <1>2, <1>3 DEF StepEnd, Fetch

\* Extended Steps keep the invariant: the cache goes, and the rows passed are
\* returned or rejected by the filter.
LEMMA StepExtendedStep ==
    ASSUME StepIInv, NEW dir \in Directions, NEW n \in 1..MaxRecs,
           NEW F, StepExtended(dir, n, F)
    PROVE  StepIInv'
  <1>1. /\ UNCHANGED fileVars
        /\ FileTypeOK /\ FileTypeOK'
        /\ Present' = Present
        /\ stepLast \in Position
        /\ stepWalk \in [dir : {0, 1, -1}, todo : SUBSET Row]
        /\ stepWalk.todo \subseteq Present
        /\ n \in Nat \ {0}
    BY MaxRecsAssumption, StepTypes
       DEF StepExtended, StepIInv, FileTypeOK, fileVars, Present
  <1> DEFINE S == RowsBeyond(dir, stepLast, F)
  <1>2. PICK rns \in Query(S, dir, n) : \E k \in 1..Len(rns) :
            /\ stepLast' = rns[k]
            /\ stepWalk' =
                  IF stepWalk.dir # dir THEN NoStepWalk
                  ELSE [stepWalk EXCEPT !.todo =
                          {q \in @ \ {rns[i] : i \in 1..k} :
                              file[q] \in F \/ Past(dir, rns[k], q)}]
    BY DEF StepExtended, FetchRows
  <1>3. PICK k \in 1..Len(rns) :
            /\ stepLast' = rns[k]
            /\ stepWalk' =
                  IF stepWalk.dir # dir THEN NoStepWalk
                  ELSE [stepWalk EXCEPT !.todo =
                          {q \in @ \ {rns[i] : i \in 1..k} :
                              file[q] \in F \/ Past(dir, rns[k], q)}]
    BY <1>2
  <1>4. S \in SUBSET Row
    BY <1>1, PresentFacts DEF RowsBeyond
  <1>5. /\ rns \in Seq(S)
        /\ \A i, j \in 1..Len(rns) : i < j => Past(dir, rns[i], rns[j])
        /\ \A q \in S : (\E i \in 1..Len(rns) : rns[i] = q) \/ Past(dir, rns[Len(rns)], q)
    BY <1>1, <1>2, <1>4, QueryFacts
  <1>6. \A i \in 1..Len(rns) : rns[i] \in Row /\ rns[i] \in Nat
    <2>1. ASSUME NEW i \in 1..Len(rns)
          PROVE  rns[i] \in Row /\ rns[i] \in Nat
      <3>1. rns[i] \in S
        BY <1>5, <2>1
      <3>2. rns[i] \in Row
        BY <1>4, <3>1
      <3>3. QED
        BY <3>2, RowIsNatural
    <2>2. QED
      BY <2>1
  <1>7. cache' = <<>> /\ cacheDir' = cacheDir /\ late' = {}
    BY DEF StepExtended
  <1>8. /\ CacheIsSorted' /\ CacheHasNoGaps'
        /\ cache' \in Seq(CacheRow) /\ Len(cache') < Chunk
    BY <1>7, ChunkAssumption DEF CacheIsSorted, CacheHasNoGaps
  <1>9. CASE stepWalk.dir # dir
    <2>1. stepWalk' = NoStepWalk
      BY <1>3, <1>9
    <2>2. StepTypeOK'
      BY <1>1, <1>3, <1>6, <1>7, <1>8, <2>1
         DEF StepIInv, StepTypeOK, NoStepWalk, CacheRow
    <2>3. QED
      BY <1>8, <2>1, <2>2 DEF StepIInv, StepSkipsNothing, NoStepWalk
  <1>10. CASE stepWalk.dir = dir
    <2>1. stepWalk' = [stepWalk EXCEPT !.todo =
                          {q \in @ \ {rns[i] : i \in 1..k} :
                              file[q] \in F \/ Past(dir, rns[k], q)}]
      BY <1>3, <1>10
    <2>2. /\ stepWalk' \in [dir : {0, 1, -1}, todo : SUBSET Row]
          /\ stepWalk'.dir = dir
          /\ stepWalk'.todo = {q \in stepWalk.todo \ {rns[i] : i \in 1..k} :
                                  file[q] \in F \/ Past(dir, rns[k], q)}
      BY <1>1, <1>10, <2>1
    <2>3. StepTypeOK'
      BY <1>1, <1>3, <1>6, <1>7, <1>8, <2>2 DEF StepIInv, StepTypeOK, CacheRow
    <2>4. ASSUME NEW q \in stepWalk'.todo PROVE BeyondLast(dir, stepLast', q)
      <3>1. /\ q \in stepWalk.todo /\ q \in Present /\ q \in Nat
            /\ \A i \in 1..k : q # rns[i]
            /\ file[q] \in F \/ Past(dir, rns[k], q)
        BY <1>1, <2>2, PresentFacts, RowIsNatural
      <3>2. BeyondLast(dir, stepLast, q)
        BY <1>10, <3>1 DEF StepIInv, StepSkipsNothing
      <3>3. CASE file[q] \in F
        <4>1. q \in S
          BY <3>1, <3>2, <3>3 DEF RowsBeyond
        <4>2. CASE \E i \in 1..Len(rns) : rns[i] = q
          <5>1. PICK i \in 1..Len(rns) : rns[i] = q
            BY <4>2
          <5>2. k < i
            BY <1>3, <3>1, <5>1
          <5>3. QED
            BY <1>3, <1>5, <5>1, <5>2 DEF BeyondLast
        <4>3. CASE Past(dir, rns[Len(rns)], q)
          <5>1. Len(rns) \in 1..Len(rns) /\ (k = Len(rns) \/ k < Len(rns))
            BY <1>3, <1>5
          <5>2. k = Len(rns) \/ Past(dir, rns[k], rns[Len(rns)])
            BY <1>3, <1>5, <5>1
          <5>3. Past(dir, rns[k], q)
            BY <1>3, <1>6, <3>1, <4>3, <5>1, <5>2 DEF Past
          <5>4. QED
            BY <1>3, <5>3 DEF BeyondLast
        <4>4. QED
          BY <1>5, <4>1, <4>2, <4>3
      <3>4. CASE Past(dir, rns[k], q)
        BY <1>3, <3>4 DEF BeyondLast
      <3>5. QED
        BY <3>1, <3>3, <3>4
    <2>5. StepSkipsNothing'
      BY <1>7, <2>2, <2>4 DEF StepSkipsNothing, BeyondLast, Past
    <2>6. QED
      BY <1>1, <1>8, <2>2, <2>3, <2>5 DEF StepIInv
  <1>11. QED
    BY <1>9, <1>10

\* Find Percent, Reset, Abort and the Insert of this handle end the walk.
LEMMA EndOfWalkStep ==
    ASSUME StepIInv,
           \/ \E pct \in Percentages, total \in 1..MaxRec : FindPercent(pct, total)
           \/ StepReset
           \/ StepAbort
    PROVE  StepIInv'
  <1>1. stepWalk' = NoStepWalk /\ UNCHANGED fileVars
    BY DEF FindPercent, StepReset, StepAbort
  <1>2. Present' = Present /\ Present \subseteq Row
    BY <1>1, PresentFacts DEF StepIInv, StepTypeOK, fileVars, Present
  <1>3. stepLast' \in Position
    BY <1>2 DEF FindPercent, RowsAtOffset, StepReset, StepAbort, Position
  <1>4. cache' = <<>> \/ (UNCHANGED <<cache, late>>)
    BY DEF FindPercent, StepReset, StepAbort
  <1>5. cacheDir' = cacheDir /\ late' \subseteq Row
    BY StepTypes DEF StepIInv, FindPercent, StepReset, StepAbort
  <1>6. cache' \in Seq(CacheRow) /\ Len(cache') < Chunk
    <2>1. CASE cache' = <<>>
      BY <2>1, ChunkAssumption
    <2>2. CASE UNCHANGED cache
      BY <2>2, StepTypes DEF StepIInv
    <2>3. QED
      BY <1>4, <2>1, <2>2
  <1>7. StepTypeOK'
    BY <1>1, <1>3, <1>5, <1>6
       DEF StepIInv, StepTypeOK, FileTypeOK, fileVars, NoStepWalk, CacheRow, Position
  <1>8. QED
    BY <1>1, <1>2, <1>4, <1>5, <1>7, NothingOwed DEF NoStepWalk, fileVars

\* An insert adds a row with the next number;
LEMMA InsertFacts ==
    ASSUME FileTypeOK, NEW rec \in Record, InsertRow(rec)
    PROVE  /\ FileTypeOK'
           /\ nextRec \in Row
           /\ nextRec' = nextRec + 1
           /\ Present \subseteq Present'
           /\ Present' \subseteq Present \cup {nextRec}
  BY MaxRecAssumption, AbsentAssumption DEF FileTypeOK, InsertRow, Present, Row

\* an update or delete adds none and disturbs one.
LEMMA WriteFacts ==
    ASSUME FileTypeOK, NEW r \in Row, NEW image \in Record \cup {Absent}, WriteRow(r, image)
    PROVE  /\ FileTypeOK'
           /\ nextRec' = nextRec
           /\ Present' \subseteq Present
           /\ Present \ {r} \subseteq Present'
  BY MaxRecAssumption, AbsentAssumption DEF FileTypeOK, WriteRow, Present, Row

\* An Insert through this handle keeps the invariant.
LEMMA StepInsertStep ==
    ASSUME StepIInv, NEW rec \in Record, StepInsert(rec)
    PROVE  StepIInv'
  <1>1. FileTypeOK /\ InsertRow(rec)
    BY DEF StepIInv, StepTypeOK, StepInsert
  <1>2. /\ FileTypeOK'
        /\ nextRec \in Row
        /\ nextRec' = nextRec + 1
        /\ Present' \subseteq Present \cup {nextRec}
    BY <1>1, InsertFacts
  <1>3. StepTypeOK'
    BY <1>2 DEF StepIInv, StepTypeOK, StepInsert, NoStepWalk
  <1>4. UNCHANGED <<cache, cacheDir, late>>
    BY DEF StepInsert
  <1>5. QED
    BY <1>2, <1>3, <1>4, NothingOwed DEF StepInsert, NoStepWalk

\* An Insert elsewhere does: its row is beyond what is cached going up, and
\* not beyond what is cached going down.
LEMMA InsertElsewhereStep ==
    ASSUME StepIInv, NEW rec \in Record, InsertElsewhere(rec)
    PROVE  StepIInv'
  <1>1. FileTypeOK /\ InsertRow(rec)
    BY DEF StepIInv, StepTypeOK, InsertElsewhere
  <1>2. /\ FileTypeOK'
        /\ nextRec' = nextRec + 1
        /\ Present \subseteq Present'
        /\ Present' \subseteq Present \cup {nextRec}
    BY <1>1, InsertFacts
  <1>3. UNCHANGED <<stepLast, cache, cacheDir, stepWalk, late>>
    BY DEF InsertElsewhere
  <1>4. CacheHasNoGaps'
    BY <1>2, <1>3, CacheOutlivesWrites
  <1>5. StepTypeOK' /\ CacheIsSorted'
    BY <1>2, <1>3 DEF StepIInv, StepTypeOK, CacheIsSorted, Past
  <1>6. StepSkipsNothing' /\ stepWalk'.todo \subseteq Present'
    BY <1>2, <1>3 DEF StepIInv, StepSkipsNothing, BeyondLast, InCacheOrBeyond, Past
  <1>7. QED
    BY <1>4, <1>5, <1>6 DEF StepIInv

\* An Update or Delete does: the walk no longer owes the row.
LEMMA WriteElsewhereStep ==
    ASSUME StepIInv, NEW r \in Row, NEW image \in Record \cup {Absent},
           WriteElsewhere(r, image)
    PROVE  StepIInv'
  <1>1. FileTypeOK /\ WriteRow(r, image)
    BY DEF StepIInv, StepTypeOK, WriteElsewhere
  <1>2. /\ FileTypeOK'
        /\ nextRec' = nextRec
        /\ Present' \subseteq Present
        /\ Present \ {r} \subseteq Present'
    BY <1>1, WriteFacts
  <1>3. /\ UNCHANGED <<stepLast, cache, cacheDir, late>>
        /\ stepWalk' = [stepWalk EXCEPT !.todo = @ \ {r}]
    BY DEF WriteElsewhere
  <1>4. /\ stepWalk \in [dir : {0, 1, -1}, todo : SUBSET Row]
        /\ stepWalk.todo \subseteq Present
    BY StepTypes DEF StepIInv
  <1>5. /\ stepWalk' \in [dir : {0, 1, -1}, todo : SUBSET Row]
        /\ stepWalk'.dir = stepWalk.dir
        /\ stepWalk'.todo = stepWalk.todo \ {r}
    BY <1>3, <1>4
  <1>6. CacheHasNoGaps'
    BY <1>2, <1>3, CacheOutlivesWrites
  <1>7. StepTypeOK' /\ CacheIsSorted'
    BY <1>2, <1>3, <1>5 DEF StepIInv, StepTypeOK, CacheIsSorted, Past
  <1>8. StepSkipsNothing'
    BY <1>3, <1>5 DEF StepIInv, StepSkipsNothing, BeyondLast, InCacheOrBeyond, Past
  <1>9. QED
    BY <1>2, <1>4, <1>5, <1>6, <1>7, <1>8 DEF StepIInv

\* A row that appears late does: while rows are cached it is one of the late
\* ones, which are not owed.
LEMMA RestoreElsewhereStep ==
    ASSUME StepIInv, NEW r \in Row, NEW rec \in Record, RestoreElsewhere(r, rec)
    PROVE  StepIInv'
  <1>1. /\ FileTypeOK /\ RestoreRow(r, rec)
        /\ late \subseteq Row
        /\ late' = IF cache = <<>> THEN {} ELSE late \cup {r}
        /\ UNCHANGED <<stepLast, cache, cacheDir, stepWalk>>
    BY DEF StepIInv, StepTypeOK, RestoreElsewhere
  <1>2. /\ FileTypeOK'
        /\ nextRec' = nextRec
        /\ Present \subseteq Present'
        /\ Present' \subseteq Present \cup {r}
    BY <1>1, MaxRecAssumption, AbsentAssumption DEF FileTypeOK, RestoreRow, Present, Row
  <1>3. CacheHasNoGaps'
    <2>1. CASE cache = <<>>
      BY <1>1, <2>1 DEF CacheHasNoGaps
    <2>2. CASE cache # <<>>
      <3>1. Present' \ late' \subseteq (Present \ late) \cup {nextRec}
        BY <1>1, <1>2, <2>2
      <3>2. QED
        BY <1>1, <1>2, <3>1, CacheOutlivesWrites
    <2>3. QED
      BY <2>1, <2>2
  <1>4. StepTypeOK' /\ CacheIsSorted'
    BY <1>1, <1>2 DEF StepIInv, StepTypeOK, CacheIsSorted, Past
  <1>5. StepSkipsNothing' /\ stepWalk'.todo \subseteq Present'
    BY <1>1, <1>2 DEF StepIInv, StepSkipsNothing, BeyondLast, InCacheOrBeyond, Past
  <1>6. QED
    BY <1>3, <1>4, <1>5 DEF StepIInv

-----------------------------------------------------------------------------
\* The initial states satisfy the invariant.
THEOREM StepInitially == StepInit => StepIInv
  <1> SUFFICES ASSUME StepInit PROVE StepIInv
    OBVIOUS
  <1>1. FileTypeOK
    BY DEF StepInit, FileInit, FileTypeOK
  <1>2. /\ cache = <<>> /\ Len(cache) = 0
        /\ cache \in Seq([rn : Row, rec : Record])
        /\ stepWalk = NoStepWalk
        /\ late = {}
    BY DEF StepInit
  <1>3. StepTypeOK
    BY <1>1, <1>2, ChunkAssumption DEF StepInit, StepTypeOK, NoStepWalk, Directions
  <1>4. QED
    BY <1>2, <1>3 DEF StepIInv, CacheIsSorted, CacheHasNoGaps, StepSkipsNothing, NoStepWalk

\* Every step keeps the invariant, one case per action.
THEOREM StepPreserves == StepIInv /\ [StepNext]_stepVars => StepIInv'
  <1> SUFFICES ASSUME StepIInv, [StepNext]_stepVars PROVE StepIInv'
    OBVIOUS
  <1>1. ASSUME NEW dir \in Directions, StepGet(dir) \/ StepEnd(dir) PROVE StepIInv'
    BY <1>1, StepGetStep, StepEndStep
  <1>2. ASSUME NEW dir \in Directions, NEW n \in 1..MaxRecs, NEW F \in StepFilters,
               StepExtended(dir, n, F)
        PROVE  StepIInv'
    BY <1>2, StepExtendedStep
  <1>3. ASSUME \/ \E pct \in Percentages, total \in 1..MaxRec : FindPercent(pct, total)
               \/ StepReset
               \/ StepAbort
        PROVE  StepIInv'
    BY <1>3, EndOfWalkStep
  <1>4. ASSUME NEW rec \in Record, StepInsert(rec) \/ InsertElsewhere(rec) PROVE StepIInv'
    BY <1>4, StepInsertStep, InsertElsewhereStep
  <1>5. ASSUME NEW r \in Row, NEW image \in Record \cup {Absent}, WriteElsewhere(r, image)
        PROVE  StepIInv'
    BY <1>5, WriteElsewhereStep
  <1>6. ASSUME NEW r \in Row, NEW rec \in Record, RestoreElsewhere(r, rec) PROVE StepIInv'
    BY <1>6, RestoreElsewhereStep
  <1>7. CASE UNCHANGED stepVars
    BY <1>7 DEF stepVars, fileVars, StepIInv, StepTypeOK, FileTypeOK, CacheIsSorted,
               CacheHasNoGaps, StepSkipsNothing, InCacheOrBeyond, BeyondLast, Past, Present
  <1>8. QED
    BY <1>1, <1>2, <1>3, <1>4, <1>5, <1>6, <1>7 DEF StepNext, StepOp, StepWrite

\* The invariant holds of every execution.
THEOREM StepInvariant == StepSpec => []StepIInv
  BY StepInitially, StepPreserves, PTL DEF StepSpec

\* The position and the cache of a handle keep their types.
THEOREM StepTypeCorrect == StepSpec => []StepTypeOK
  <1>1. StepIInv => StepTypeOK
    BY DEF StepIInv
  <1>2. QED
    BY <1>1, StepInvariant, PTL

\* A walk by Step operations misses no row that it owes, whatever the size of
\* the cache and of extended Steps, and whatever is written meanwhile, rows
\* that appear late among the cached ones included.  Late rows are owed by
\* the walks whose first Step fetches, not by one that begins in the cache.
THEOREM StepWalkComplete == StepSpec => []StepSkipsNothing
  <1>1. StepIInv => StepSkipsNothing
    BY DEF StepIInv
  <1>2. QED
    BY <1>1, StepInvariant, PTL

\* The cache is in the order of the walk.
THEOREM CacheInOrder == StepSpec => []CacheIsSorted
  <1>1. StepIInv => CacheIsSorted
    BY DEF StepIInv
  <1>2. QED
    BY <1>1, StepInvariant, PTL

\* What the cache does not hold between its rows is not in the file, or
\* appeared late after the fetch; so the fetch that follows the last cached
\* row misses none but late ones.
THEOREM CacheComplete == StepSpec => []CacheHasNoGaps
  <1>1. StepIInv => CacheHasNoGaps
    BY DEF StepIInv
  <1>2. QED
    BY <1>1, StepInvariant, PTL

-----------------------------------------------------------------------------
(***************************************************************************)
(* Percentages.                                                            *)
(***************************************************************************)
\* The quotient of a division.
LEMMA Quotient ==
    ASSUME NEW X \in Nat, NEW B \in Nat \ {0}
    PROVE  /\ X \div B \in Nat
           /\ B * (X \div B) <= X /\ X < B * (X \div B) + B
  <1>1. X \div B \in Nat
    BY SMTT(30)
  <1>2. X = B * (X \div B) + (X % B) /\ X % B \in 0 .. B-1
    BY SMTT(30)
  <1>3. QED
    BY <1>1, <1>2, SMTT(30)

\* Going from the k-th of T to a percentage and back.
LEMMA ThereAndBack ==
    ASSUME NEW T \in Nat, NEW k \in 1..T
    PROVE  LET p == (k * 10000) \div T
               o == (p * T) \div 10000
           IN  /\ p \in Nat /\ o \in Nat /\ o <= k
               /\ k - o <= 1 + T \div 10000
               /\ o >= T => k = T
  <1> DEFINE p == (k * 10000) \div T
             P == p * T
             o == P \div 10000
             c == T \div 10000
  <1>1. k * 10000 \in Nat /\ T \in Nat \ {0}
    OBVIOUS
  <1>2. p \in Nat /\ T * p <= k * 10000 /\ k * 10000 < T * p + T
    BY <1>1, Quotient
  <1> HIDE DEF p
  <1>3. P \in Nat /\ P = T * p
    BY <1>1, <1>2, SMTT(30)
  <1>4. P <= k * 10000 /\ k * 10000 < P + T
    BY <1>2, <1>3
  <1> HIDE DEF P
  <1>5. o \in Nat /\ 10000 * o <= P /\ P < 10000 * o + 10000
    BY <1>3, Quotient
  <1>6. c \in Nat /\ 10000 * c <= T /\ T < 10000 * c + 10000
    BY <1>1, Quotient
  <1> HIDE DEF o, c
  <1>7. o <= k /\ k - o <= 1 + c /\ (o >= T => k = T)
    <2>1. k \in Nat /\ k <= T
      OBVIOUS
    <2>2. 10000 * o <= 10000 * k /\ 10000 * k < 10000 * (o + c) + 19999
      BY <1>4, <1>5, <1>6, <1>3, <2>1
    <2>3. o <= k
      BY <1>5, <2>1, <2>2
    <2>4. k - (o + c) <= 1
      BY <1>5, <1>6, <2>1, <2>2
    <2>5. QED
      BY <1>5, <1>6, <2>1, <2>3, <2>4
  <1>8. QED
    BY <1>2, <1>5, <1>7 DEF p, P, o, c

\* Find Percent of a record's Get Percent finds it or the record after it,
\* give or take a hundredth of a percent of the file, and never runs past its
\* end.
THEOREM PercentagesLeadBack == StepSpec => []PercentRoundTrip
  <1>1. PercentRoundTrip
    <2> SUFFICES ASSUME NEW r \in Present
                 PROVE  LET total  == Cardinality(Present)
                            offset == PercentOffset(GetPercent(r), total)
                        IN  /\ offset \in 0 .. total - 1
                            /\ Rank(r) - offset \in 0 .. 1 + total \div 10000
      BY DEF PercentRoundTrip
    <2> DEFINE T == Cardinality(Present)
               k == Rank(r)
               p == (k * 10000) \div T
               o == (p * T) \div 10000
    <2>1. T \in Nat /\ k \in 1..T
      <3> DEFINE S == {q \in Present : q <= r}
      <3>1. Present \in SUBSET Row /\ S \in SUBSET Row /\ S \subseteq Present
        BY DEF Present
      <3>2. IsFiniteSet(Present) /\ T \in Nat /\ Cardinality(S) \in Nat
        BY <3>1, RowsAreFinite
      <3>3. Cardinality(S) <= T
        BY <3>1, <3>2, FS_Subset
      <3>4. Cardinality(S) # 0
        <4>1. r \in S
          BY <3>1, RowIsNatural
        <4>2. IsFiniteSet(S)
          BY <3>1, RowsAreFinite
        <4>3. QED
          BY <4>1, <4>2, FS_EmptySet
      <3>5. QED
        BY <3>2, <3>3, <3>4 DEF Rank
    <2> HIDE DEF T, k
    <2>2. /\ p \in Nat /\ o \in Nat /\ o <= k
          /\ k - o <= 1 + T \div 10000
          /\ o >= T => k = T
      BY <2>1, ThereAndBack
    <2>3. GetPercent(r) = p /\ PercentOffset(p, T) = Clamp(o, 0, T - 1)
      BY DEF GetPercent, PercentOffset, T, k
    <2>4. T \div 10000 \in Nat
      BY <2>1, Quotient
    <2> HIDE DEF p, o
    <2>5. /\ Clamp(o, 0, T - 1) \in 0 .. T - 1
          /\ k - Clamp(o, 0, T - 1) \in 0 .. 1 + T \div 10000
      BY <2>1, <2>2, <2>4 DEF Clamp
    <2>6. QED
      BY <2>3, <2>5 DEF T, k
  <1>2. QED
    BY <1>1, PTL

-----------------------------------------------------------------------------
(***************************************************************************)
(* Position, writes, batches and chunks.                                   *)
(***************************************************************************)
\* The row that is named by the handle is one the caller knows of, present or
\* not.
PositionKnown == lastRec \in Row => lastRec = current \/ lastRec \in deleted


\* A batch counts the rows it has added.
BatchConsistent ==
    call.op = "batch" =>
        /\ call.left + call.count <= MaxCount
        /\ IsFiniteSet(call.added)
        /\ Cardinality(call.added) = call.count
        /\ \A a \in call.added : a < nextRec

\* The image of a chunk differs from a row nobody has written in the chunks
\* only.
ChunkConsistent ==
    call.op = "chunk" =>
        /\ call.row < nextRec
        /\ call.fresh /\ call.row \in Present =>
              \A p \in Part \ call.parts : call.image[p] = file[call.row][p]

\* The inductive invariant.
HandleIInv ==
    /\ HandleTypeOK
    /\ PositionKnown
    /\ BatchConsistent
    /\ ChunkConsistent
    /\ BatchCounted

-----------------------------------------------------------------------------
\* Record numbers are positive; no position is a number of its own.
LEMMA RowIsNumber == Row \subseteq Nat \ {0} /\ NoPos = -1
  BY MaxRecAssumption DEF Row, NoPos

\* A token is a number in the range of tokens.
LEMMA TokenOfRow ==
    ASSUME NEW r \in Row \cup {0}
    PROVE  PositionToken(r) \in 0 .. TokenRange - 1
  <1>1. r \in Nat /\ TokenRange \in Nat \ {0}
    BY RowIsNumber, HandleAssumption
  <1>2. \A a \in Nat, b \in Nat \ {0} : a % b \in 0 .. b - 1
    OBVIOUS
  <1>3. QED
    BY <1>1, <1>2 DEF PositionToken

\* An Insert keeps the table's types and changes no other row.
LEMMA BatchInsertFacts ==
    ASSUME FileTypeOK, NEW rec \in Record, InsertRow(rec)
    PROVE  /\ FileTypeOK'
           /\ nextRec \in Row
           /\ nextRec' = nextRec + 1
           /\ \A r \in Row : r # nextRec => file'[r] = file[r]
  BY MaxRecAssumption DEF FileTypeOK, InsertRow, Row

\* So does a write.
LEMMA WritesFacts ==
    ASSUME FileTypeOK, NEW r \in Row, NEW image \in Record \cup {Absent},
           \/ WriteRow(r, image)
           \/ image # Absent /\ RestoreRow(r, image)
    PROVE  /\ FileTypeOK'
           /\ nextRec' = nextRec
           /\ \A q \in Row : q # r => file'[q] = file[q]
  BY AbsentAssumption DEF FileTypeOK, WriteRow, RestoreRow, Present

\* A statement with a record number writes that row or nothing.
LEMMA UpdateWhereFacts ==
    ASSUME FileTypeOK, NEW rn, NEW image \in Record \cup {Absent},
           UpdateWhere(rn, image) \/ UNCHANGED fileVars
    PROVE  FileTypeOK' /\ nextRec' = nextRec
  <1>1. CASE rn \in Present /\ WriteRow(rn, image)
    <2>1. rn \in Row
      BY <1>1 DEF Present
    <2>2. QED
      BY <1>1, <2>1, WritesFacts
  <1>2. CASE UNCHANGED fileVars
    BY <1>2 DEF FileTypeOK, fileVars
  <1>3. QED
    BY <1>1, <1>2 DEF UpdateWhere

\* What a call in progress looks like.
LEMMA CallFacts ==
    ASSUME call \in CallType
    PROVE  /\ call.op = "chunk" =>
                  call \in [op : {"chunk"}, row : Row, parts : SUBSET Part,
                            image : Record, fresh : BOOLEAN]
           /\ call.op = "batch" =>
                  call \in [op : {"batch"}, left : 0..MaxCount, count : 0..MaxCount,
                            added : SUBSET Row]
           /\ call.op \in {"chunk", "batch"} => call # NoCall
  BY DEF CallType, NoCall

-----------------------------------------------------------------------------
(***************************************************************************)
(* Each operation keeps the invariant.                                     *)
(***************************************************************************)
\* The calls that only move the position.
LEMMA PositionStep ==
    ASSUME HandleIInv, PositionOp
    PROVE  HandleIInv'
  <1> USE DEF HandleIInv, HandleTypeOK, FileTypeOK, PositionKnown,
              BatchConsistent, ChunkConsistent, BatchCounted, fileVars, Present
  <1>1. CASE OpenHandle
    BY <1>1 DEF OpenHandle, Idle
  <1>2. CASE CloseHandle
    BY <1>2, RowIsNumber DEF CloseHandle, Called, Idle
  <1>3. CASE ForgetPosition
    BY <1>3, RowIsNumber DEF ForgetPosition, ClearCurrency, Called, Idle
  <1>4. CASE GetPosition
    <2>1. token' \in 0 .. TokenRange - 1
      <3>1. lastRec \in Row \cup {NoPos, 0}
        OBVIOUS
      <3>2. CASE lastRec = NoPos
        BY <1>4, <3>2, HandleAssumption DEF GetPosition
      <3>3. CASE lastRec # NoPos
        <4>1. token' = PositionToken(lastRec)
          BY <1>4, <3>3 DEF GetPosition
        <4>2. QED
          BY <3>1, <3>3, <4>1, TokenOfRow
      <3>4. QED
        BY <3>2, <3>3
    <2>2. QED
      BY <1>4, <2>1 DEF GetPosition, posVars, Called, Idle
  <1>5. CASE GetByToken
    BY <1>5 DEF GetByToken, Called, Idle
  <1>6. CASE \E r \in Row : Retrieve(r)
    BY <1>6 DEF Retrieve, Called, Idle
  <1>7. QED
    BY <1>1, <1>2, <1>3, <1>4, <1>5, <1>6 DEF PositionOp

\* The calls that write one row.
LEMMA WriteStep ==
    ASSUME HandleIInv, WriteOp
    PROVE  HandleIInv'
  <1> USE DEF HandleIInv, HandleTypeOK, PositionKnown,
              BatchConsistent, ChunkConsistent, BatchCounted
  <1>1. ASSUME NEW rec \in Record, InsertCall(rec)
        PROVE  HandleIInv'
    <2>1. CASE InsertRow(rec) /\ InsertedRow
      <3>1. FileTypeOK' /\ nextRec \in Row
        BY <2>1, BatchInsertFacts
      <3>2. lastRec' \in Row \cup {0} /\ current' \in Row
            /\ (lastRec' # 0 => lastRec' = current')
        BY <2>1, <3>1 DEF InsertedRow
      <3>3. QED
        BY <1>1, <3>1, <3>2, RowIsNumber DEF InsertCall, Called, Idle, NoCall
    <2>2. CASE (InsertRow(rec) \/ UNCHANGED fileVars) /\ UNCHANGED <<lastRec, current>>
      <3>1. FileTypeOK'
        BY <2>2, BatchInsertFacts DEF FileTypeOK, fileVars
      <3>2. QED
        BY <1>1, <2>2, <3>1 DEF InsertCall, Called, Idle, NoCall
    <2>3. QED
      BY <1>1, <2>1, <2>2 DEF InsertCall
  <1>2. ASSUME NEW rec \in Record, UpdateCall(rec)
        PROVE  HandleIInv'
    <2>1. FileTypeOK'
      BY <1>2, UpdateWhereFacts DEF UpdateCall
    <2>2. QED
      BY <1>2, <2>1 DEF UpdateCall, posVars, Called, Idle, NoCall
  <1>3. ASSUME DeleteCall
        PROVE  HandleIInv'
    <2>1. FileTypeOK'
      BY <1>3, UpdateWhereFacts DEF DeleteCall
    <2>2. QED
      BY <1>3, <2>1 DEF DeleteCall, Called, Idle, NoCall
  <1>4. QED
    BY <1>1, <1>2, <1>3 DEF WriteOp

\* The image that a chunk call will write: a record that differs from the row
\* in the chunks only.
LEMMA PatchFacts ==
    ASSUME NEW image \in Record, NEW chunks \in Descriptors, NEW val \in Val, Fits(chunks)
    PROVE  /\ Covered(chunks) \subseteq Part
           /\ Patch(image, chunks, val) \in Record
           /\ \A p \in Part \ Covered(chunks) : Patch(image, chunks, val)[p] = image[p]
  BY HandleAssumption DEF Covered, Fits, Patch

\* Update Chunk: its read and its write.
LEMMA ChunkStep ==
    ASSUME HandleIInv,
           ChunkStore \/ \E chunks \in Descriptors, val \in Val : ChunkFetch(chunks, val)
    PROVE  HandleIInv'
  <1> USE DEF HandleIInv, HandleTypeOK, PositionKnown,
              BatchConsistent, ChunkConsistent, BatchCounted
  <1>1. ASSUME NEW chunks \in Descriptors, NEW val \in Val, ChunkFetch(chunks, val)
        PROVE  HandleIInv'
    <2> DEFINE image == Patch(file[lastRec], chunks, val)
    <2>1. /\ lastRec \in Row /\ lastRec < nextRec
          /\ file[lastRec] \in Record
      BY <1>1 DEF ChunkFetch, Present, FileTypeOK
    <2>2. /\ Covered(chunks) \subseteq Part
          /\ image \in Record
          /\ \A p \in Part \ Covered(chunks) : image[p] = file[lastRec][p]
      BY <1>1, <2>1, PatchFacts DEF ChunkFetch
    <2>3. call' = [op |-> "chunk", row |-> lastRec, parts |-> Covered(chunks),
                   image |-> image, fresh |-> TRUE]
      BY <1>1 DEF ChunkFetch
    <2>4. call' \in CallType
      BY <2>1, <2>2, <2>3 DEF CallType
    <2>5. ChunkConsistent' /\ BatchConsistent'
      BY <1>1, <2>1, <2>2, <2>3 DEF ChunkFetch, fileVars
    <2>6. HandleTypeOK'
      BY <1>1, <2>4 DEF ChunkFetch, FileTypeOK, fileVars, posVars, Called
    <2>7. QED
      BY <1>1, <2>5, <2>6 DEF ChunkFetch, posVars
  <1>2. ASSUME ChunkStore
        PROVE  HandleIInv'
    <2>1. call.image \in Record
      BY <1>2 DEF ChunkStore, CallType, NoCall
    <2>2. FileTypeOK'
      BY <1>2, <2>1, UpdateWhereFacts DEF ChunkStore
    <2>3. QED
      BY <1>2, <2>2 DEF ChunkStore, posVars, NoCall, CallType
  <1>3. QED
    BY <1>1, <1>2

\* Insert Extended: its records and its end.
LEMMA BatchStep ==
    ASSUME HandleIInv,
           \/ \E n \in 0..MaxCount : BatchBegin(n)
           \/ \E rec \in Record : BatchInsert(rec) \/ BatchFail(rec)
           \/ BatchEnd
    PROVE  HandleIInv'
  <1> USE DEF HandleIInv, HandleTypeOK, PositionKnown,
              BatchConsistent, ChunkConsistent, BatchCounted
  <1>1. ASSUME NEW n \in 0..MaxCount, BatchBegin(n)
        PROVE  HandleIInv'
    <2>1. call' = [op |-> "batch", left |-> n, count |-> 0, added |-> {}]
      BY <1>1 DEF BatchBegin
    <2>2. call' \in CallType
      BY <2>1, HandleAssumption DEF CallType
    <2>3. BatchConsistent' /\ ChunkConsistent'
      BY <2>1, FS_EmptySet, HandleAssumption
    <2>4. QED
      BY <1>1, <2>2, <2>3 DEF BatchBegin, FileTypeOK, fileVars, posVars, Called
  \* The batch in progress, and the row that the next record takes.
  <1>2. ASSUME call.op = "batch"
        PROVE  /\ call \in [op : {"batch"}, left : 0..MaxCount, count : 0..MaxCount,
                            added : SUBSET Row]
               /\ IsFiniteSet(call.added) /\ Cardinality(call.added) = call.count
               /\ nextRec \notin call.added
               /\ IsFiniteSet(call.added \cup {nextRec})
               /\ Cardinality(call.added \cup {nextRec}) = call.count + 1
    <2>1. call \in [op : {"batch"}, left : 0..MaxCount, count : 0..MaxCount, added : SUBSET Row]
      BY <1>2, CallFacts
    <2>2. IsFiniteSet(call.added) /\ Cardinality(call.added) = call.count
      BY <1>2
    <2>3. nextRec \notin call.added
      BY <1>2, MaxRecAssumption DEF FileTypeOK
    <2>4. QED
      BY <2>1, <2>2, <2>3, FS_AddElement
  <1>3. ASSUME NEW rec \in Record, BatchInsert(rec)
        PROVE  HandleIInv'
    <2>1. FileTypeOK' /\ nextRec \in Row /\ nextRec' = nextRec + 1
      BY <1>3, BatchInsertFacts DEF BatchInsert
    <2>2. lastRec' \in Row \cup {0} /\ current' \in Row /\ (lastRec' # 0 => lastRec' = current')
      BY <1>3, <2>1 DEF BatchInsert, InsertedRow
    <2>3. call' = [call EXCEPT !.left = @ - 1, !.count = @ + 1, !.added = @ \cup {nextRec}]
          /\ call.op = "batch" /\ call.left > 0
      BY <1>3 DEF BatchInsert
    <2>4. /\ call'.op = "batch" /\ call'.left = call.left - 1
          /\ call'.count = call.count + 1 /\ call'.added = call.added \cup {nextRec}
      BY <1>2, <2>3
    <2>8. call' \in CallType
      <3>1. call'.left \in 0..MaxCount /\ call'.count \in 0..MaxCount
        BY <1>2, <2>3, <2>4, HandleAssumption
      <3>2. call'.added \in SUBSET Row
        BY <1>2, <2>1, <2>3, <2>4
      <3>3. QED
        BY <1>2, <2>3, <3>1, <3>2 DEF CallType
    <2>5. BatchConsistent' /\ ChunkConsistent'
      <3>1. \A a \in call'.added : a < nextRec'
        BY <2>1, <2>3, <2>4, <1>2, RowIsNumber
      <3>2. QED
        BY <1>2, <2>3, <2>4, <3>1, HandleAssumption
    <2>6. isOpen' = isOpen /\ isOpen
      BY <1>3, <2>3 DEF BatchInsert, NoCall
    <2>7. QED
      BY <1>3, <2>1, <2>2, <2>8, <2>5, <2>6, RowIsNumber DEF BatchInsert
  <1>4. ASSUME NEW rec \in Record, BatchFail(rec)
        PROVE  HandleIInv'
    <2>1. FileTypeOK'
      BY <1>4, BatchInsertFacts DEF BatchFail, FileTypeOK, fileVars
    <2>2. BatchCounted' /\ call' = NoCall
      <3>1. CASE \E added \in {call.added, call.added \cup {nextRec}} :
                    BatchReply(5, call.count, added)
        <4>1. PICK added \in {call.added, call.added \cup {nextRec}} :
                BatchReply(5, call.count, added)
          BY <3>1
        <4>2. call.op = "batch"
          BY <1>4 DEF BatchFail
        <4>3. Cardinality(added) - call.count \in {0, 1}
          <5>1. call.count \in Nat
            BY <1>2, <4>2, HandleAssumption
          <5>2. Cardinality(added) \in {call.count, call.count + 1}
            BY <1>2, <4>1, <4>2
          <5>3. QED
            BY <5>1, <5>2
        <4>4. reply' = [op |-> "batch", status |-> 5, count |-> call.count, added |-> added]
          BY <4>1 DEF BatchReply
        <4>5. call' = NoCall
          BY <4>1 DEF BatchReply
        <4>6. QED
          BY <4>3, <4>4, <4>5
      <3>2. CASE BatchReply(22, call.count, call.added)
        BY <1>2, <1>4, <3>2 DEF BatchFail, BatchReply
      <3>3. QED
        BY <1>4, <3>1, <3>2 DEF BatchFail, CountOfFailed
    <2>3. QED
      BY <1>4, <2>1, <2>2 DEF BatchFail, posVars, CallType, NoCall
  <1>5. ASSUME BatchEnd
        PROVE  HandleIInv'
    <2>1. BatchCounted' /\ call' = NoCall
      BY <1>2, <1>5 DEF BatchEnd, BatchReply
    <2>2. QED
      BY <1>5, <2>1 DEF BatchEnd, FileTypeOK, fileVars, posVars, CallType, NoCall
  <1>6. QED
    BY <1>1, <1>3, <1>4, <1>5

\* Writes of others.
LEMMA ElsewhereStep ==
    ASSUME HandleIInv, Elsewhere
    PROVE  HandleIInv'
  <1> USE DEF HandleIInv, HandleTypeOK, PositionKnown,
              BatchConsistent, ChunkConsistent, BatchCounted
  <1>1. ASSUME NEW rec \in Record, ElsewhereInsert(rec)
        PROVE  HandleIInv'
    <2>1. /\ FileTypeOK' /\ nextRec \in Row /\ nextRec' = nextRec + 1
          /\ \A r \in Row : r # nextRec => file'[r] = file[r]
      BY <1>1, BatchInsertFacts DEF ElsewhereInsert
    <2>2. BatchConsistent'
      <3>1. CASE call.op = "batch"
        <4>1. \A a \in call.added : a \in Nat /\ a < nextRec
          BY <3>1, CallFacts, RowIsNumber
        <4>2. \A a \in call.added : a < nextRec'
          BY <2>1, <4>1, RowIsNumber
        <4>3. QED
          BY <1>1, <3>1, <4>2 DEF ElsewhereInsert
      <3>2. QED
        BY <1>1, <3>1 DEF ElsewhereInsert
    <2>3. ChunkConsistent'
      <3>1. CASE call.op = "chunk"
        <4>1. call.row \in Row /\ call.row \in Nat /\ call.row < nextRec
          BY <3>1, CallFacts, RowIsNumber
        <4>2. nextRec \in Nat /\ call.row # nextRec /\ call.row < nextRec'
          BY <2>1, <4>1, RowIsNumber
        <4>3. file'[call.row] = file[call.row]
          BY <2>1, <4>1, <4>2
        <4>4. QED
          BY <1>1, <3>1, <4>1, <4>2, <4>3 DEF ElsewhereInsert, Present
      <3>2. QED
        BY <1>1, <3>1 DEF ElsewhereInsert
    <2>4. QED
      BY <1>1, <2>1, <2>2, <2>3 DEF ElsewhereInsert, posVars
  <1>2. ASSUME NEW r \in Row, NEW image \in Record \cup {Absent}, ElsewhereWrite(r, image)
        PROVE  HandleIInv'
    <2>1. /\ FileTypeOK' /\ nextRec' = nextRec
          /\ \A q \in Row : q # r => file'[q] = file[q]
      BY <1>2, WritesFacts DEF ElsewhereWrite
    <2>2. CASE call.op = "chunk" /\ call.row = r
      <3>1. call' = [call EXCEPT !.fresh = FALSE]
        BY <1>2, <2>2 DEF ElsewhereWrite, Disturb
      <3>2. /\ call' \in CallType /\ call'.op = "chunk" /\ call'.row = call.row
            /\ ~call'.fresh
        <4>1. call \in [op : {"chunk"}, row : Row, parts : SUBSET Part,
                        image : Record, fresh : BOOLEAN]
          BY <2>2, CallFacts
        <4>2. QED
          BY <2>2, <3>1, <4>1 DEF CallType
      <3>3. isOpen
        BY <2>2 DEF NoCall
      <3>4. QED
        BY <1>2, <2>1, <2>2, <3>2, <3>3 DEF ElsewhereWrite, posVars
    <2>3. CASE call' = call /\ ~(call.op = "chunk" /\ call.row = r)
      <3>1. ChunkConsistent'
        BY <2>1, <2>3 DEF Present, CallType, NoCall
      <3>2. BatchConsistent'
        BY <2>1, <2>3
      <3>3. QED
        BY <1>2, <2>1, <2>3, <3>1, <3>2 DEF ElsewhereWrite, posVars
    <2>4. QED
      BY <1>2, <2>2, <2>3 DEF ElsewhereWrite, Disturb
  <1>3. QED
    BY <1>1, <1>2 DEF Elsewhere

-----------------------------------------------------------------------------
\* The invariant holds initially.
LEMMA HandleInitFacts == HandleInit => HandleIInv
  <1> SUFFICES ASSUME HandleInit
               PROVE  HandleIInv
    OBVIOUS
  <1>1. HandleTypeOK
    <2>1. 0 \in 0 .. TokenRange - 1
      BY HandleAssumption
    <2>2. QED
      BY <2>1 DEF HandleInit, FileInit, HandleTypeOK, FileTypeOK, CallType
  <1>2. PositionKnown
    BY RowIsNumber DEF HandleInit, PositionKnown
  <1>3. BatchConsistent /\ ChunkConsistent /\ BatchCounted
    BY DEF HandleInit, BatchConsistent, ChunkConsistent, BatchCounted, NoCall, NoReply
  <1>4. QED
    BY <1>1, <1>2, <1>3 DEF HandleIInv

\* Every step keeps it.
LEMMA HandleStep == HandleIInv /\ [HandleNext]_handleVars => HandleIInv'
  <1> SUFFICES ASSUME HandleIInv, [HandleNext]_handleVars
               PROVE  HandleIInv'
    OBVIOUS
  <1>1. CASE PositionOp
    BY <1>1, PositionStep
  <1>2. CASE WriteOp
    BY <1>2, WriteStep
  <1>3. CASE BatchOp
    BY <1>3, ChunkStep, BatchStep DEF BatchOp
  <1>4. CASE Elsewhere
    BY <1>4, ElsewhereStep
  <1>5. CASE UNCHANGED handleVars
    BY <1>5 DEF handleVars, fileVars, posVars, HandleIInv, HandleTypeOK, FileTypeOK,
                PositionKnown, BatchConsistent, ChunkConsistent,
                BatchCounted, Present
  <1>6. QED
    BY <1>1, <1>2, <1>3, <1>4, <1>5 DEF HandleNext

(***************************************************************************)
(* The position, the token and the call in progress of a handle stay       *)
(* consistent with the table on every path of ops/insert.rs, update.rs,    *)
(* delete.rs and position.rs.                                              *)
(***************************************************************************)
THEOREM HandleInvariant == HandleSpec => []HandleIInv
  BY HandleInitFacts, HandleStep, PTL DEF HandleSpec

(***************************************************************************)
(* The variables of a handle keep their types.                             *)
(***************************************************************************)
THEOREM HandleTypeCorrect == HandleSpec => []HandleTypeOK
  <1>1. HandleIInv => HandleTypeOK
    BY DEF HandleIInv
  <1>2. QED
    BY <1>1, HandleInvariant, PTL

(***************************************************************************)
(* An Update, Update Chunk or Delete reaches the row the caller was given  *)
(* last, or one it deleted and a rollback brought back.                    *)
(***************************************************************************)
THEOREM WritesAimed == HandleSpec => []WritesReachCurrent
  <1>1. HandleIInv => WritesReachCurrent
    BY DEF HandleIInv, PositionKnown, WritesReachCurrent, Present
  <1>2. QED
    BY <1>1, HandleInvariant, PTL


(***************************************************************************)
(* Insert Extended answers with the number of records it inserted, give or *)
(* take the one whose reply was lost.                                      *)
(***************************************************************************)
THEOREM BatchesCounted == HandleSpec => []BatchCounted
  <1>1. HandleIInv => BatchCounted
    BY DEF HandleIInv
  <1>2. QED
    BY <1>1, HandleInvariant, PTL

(***************************************************************************)
(* Update Chunk keeps the rest of a record that nobody else has written    *)
(* since it was read.                                                      *)
(***************************************************************************)
THEOREM ChunksKeepTheRest == HandleSpec => FreshChunkKeepsTheRest
  <1>1. HandleIInv /\ [HandleNext]_handleVars
          => [ChunkStore /\ call.fresh => RestIsKept]_handleVars
    <2> SUFFICES ASSUME HandleIInv, ChunkStore, call.fresh, call.row \in Present
                 PROVE  \A p \in Part \ call.parts : file'[call.row][p] = file[call.row][p]
      BY DEF RestIsKept
    <2>1. \A p \in Part \ call.parts : call.image[p] = file[call.row][p]
      BY DEF HandleIInv, ChunkConsistent, ChunkStore
    <2>2. CASE WriteRow(call.row, call.image)
      <3>1. file'[call.row] = call.image
        BY <2>2 DEF WriteRow, HandleIInv, HandleTypeOK, FileTypeOK, Present
      <3>2. QED
        BY <2>1, <3>1
    <2>3. CASE UNCHANGED fileVars
      BY <2>3 DEF fileVars
    <2>4. QED
      BY <2>2, <2>3 DEF ChunkStore, UpdateWhere
  <1>2. QED
    BY <1>1, HandleInvariant, PTL DEF HandleSpec, FreshChunkKeepsTheRest
=============================================================================
