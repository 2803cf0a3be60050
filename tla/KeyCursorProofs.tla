-------------------------- MODULE KeyCursorProofs --------------------------
(***************************************************************************)
(* Proofs about KeyCursor, for any table, indexes, key buffers, filters    *)
(* and batch size.  The properties of walks need a table without NULL in   *)
(* the columns of its indexes: with one they do not hold (NULL is          *)
(* remembered as a blank, with which no comparison finds it again).        *)
(***************************************************************************)
EXTENDS KeyCursor, FiniteSetTheorems, SequenceTheorems, WellFoundedInduction, TLAPS

NoNulls == \A rec \in Record, f \in Fields : rec[f] # Null

(***************************************************************************)
(* The order of an index.                                                  *)
(***************************************************************************)
\* A set of natural numbers has a least element.
LEMMA LeastExists ==
    ASSUME NEW T \in SUBSET Nat, T # {}
    PROVE  Least(T) \in T /\ \A m \in T : Least(T) <= m
  <1>1. PICK n \in T : \A m \in T : ~ (<<m, n>> \in OpToRel(<, Nat))
    BY NatLessThanWellFounded, WFMin
  <1>2. \A m \in T : ~ (m < n)
    BY <1>1 DEF OpToRel
  <1>3. \E k \in T : \A m \in T : k <= m
    BY <1>2
  <1>4. QED
    BY <1>3 DEF Least

\* An index of the table, found by its number.
LEMMA IndexFacts ==
    ASSUME NEW i \in DOMAIN Indexes
    PROVE  /\ IndexOf(Indexes[i].num) = Indexes[i]
           /\ Indexes[i].num \in IndexNums /\ Indexes[i].num \in Nat \ {0}
           /\ Indexes[i].segs \in Seq(Fields) /\ Indexes[i].segs # <<>>
           /\ Indexes[i].desc \in Seq(BOOLEAN)
  <1>1. \A j \in DOMAIN Indexes : Indexes[j].num = Indexes[i].num => j = i
    BY IndexAssumption
  <1>2. (CHOOSE j \in DOMAIN Indexes : Indexes[j].num = Indexes[i].num) = i
    BY <1>1
  <1>3. Indexes[i] \in [num : Nat \ {0}, segs : Seq(Fields), desc : Seq(BOOLEAN)]
    <2> DEFINE S == [num : Nat \ {0}, segs : Seq(Fields), desc : Seq(BOOLEAN)]
    <2>1. Indexes \in Seq(S)
      BY IndexAssumption
    <2> HIDE DEF S
    <2>2. Indexes[i] \in S
      BY <2>1
    <2>3. QED
      BY <2>2 DEF S
  <1>4. QED
    BY <1>2, <1>3, IndexAssumption DEF IndexOf, IndexNums

\* The index of a number in use, and its segments.
LEMMA IndexOfFacts ==
    ASSUME NEW n \in IndexNums
    PROVE  /\ IndexOf(n).num = n
           /\ Len(IndexOf(n).segs) \in Nat \ {0}
           /\ \A k \in 1..Len(IndexOf(n).segs) : IndexOf(n).segs[k] \in Fields
           /\ \A k \in Nat : Flag(IndexOf(n).desc, k) \in BOOLEAN
  <1>1. PICK i \in DOMAIN Indexes : n = Indexes[i].num
    BY DEF IndexNums
  <1>2. IndexOf(n) = Indexes[i]
    BY <1>1, IndexFacts
  <1>3. Len(Indexes[i].segs) \in Nat \ {0}
    BY IndexFacts
  <1>4. \A k \in 1..Len(Indexes[i].segs) : Indexes[i].segs[k] \in Fields
    BY IndexFacts
  <1>5. \A k \in Nat : Flag(Indexes[i].desc, k) \in BOOLEAN
    BY IndexFacts DEF Flag
  <1>6. QED
    BY <1>1, <1>2, <1>3, <1>4, <1>5

\* Segment k of two records is the same; it has moved in direction dir.
SameSeg(idx, a, b, k) == a[idx.segs[k]] = b[idx.segs[k]]

Farther(idx, dir, a, b, k) ==
    IF (dir = 1) # Flag(idx.desc, k) THEN a[idx.segs[k]] < b[idx.segs[k]]
                                     ELSE a[idx.segs[k]] > b[idx.segs[k]]

\* (b, bn) is beyond (a, an) when the first segments agree and the next one has
\* grown, or shrunk where it descends; or all agree and the number has grown.
LEMMA BeyondMeans ==
    ASSUME NEW n \in IndexNums, NEW a \in Record, NEW b \in Record,
           NEW an \in Int, NEW bn \in Int, NEW dir \in {1, -1}
    PROVE  Beyond(IndexOf(n), dir, a, an, b, bn) <=>
               \/ \E i \in 1..Len(IndexOf(n).segs) :
                     /\ \A k \in 1 .. i-1 : SameSeg(IndexOf(n), a, b, k)
                     /\ Farther(IndexOf(n), dir, a, b, i)
               \/ /\ \A k \in 1..Len(IndexOf(n).segs) : SameSeg(IndexOf(n), a, b, k)
                  /\ IF dir = 1 THEN an < bn ELSE an > bn
  <1> DEFINE idx     == IndexOf(n)
             N       == Len(idx.segs)
             A(k)    == a[idx.segs[k]]
             B(k)    == b[idx.segs[k]]
             D       == {k \in 1..N : A(k) # B(k)}
             Down(k) == Flag(idx.desc, k)
             Next1(i) == IF (dir = 1) # Down(i) THEN A(i) < B(i) ELSE A(i) > B(i)
  <1> SUFFICES Beyond(idx, dir, a, an, b, bn) <=>
                   \/ \E i \in 1..N : (\A k \in 1 .. i-1 : A(k) = B(k)) /\ Next1(i)
                   \/ (\A k \in 1..N : A(k) = B(k)) /\ IF dir = 1 THEN an < bn ELSE an > bn
    BY DEF SameSeg, Farther
  <1>1. N \in Nat
    BY IndexOfFacts
  <1>2. \A k \in 1..N : A(k) \in Int /\ B(k) \in Int
    BY IndexOfFacts, RecordAssumption DEF Null
  <1>3. \A k \in 1..N : Down(k) \in BOOLEAN
    BY IndexOfFacts, <1>1
  <1>4. Differ(idx, a, b) = D /\ Differ(idx, b, a) = D
    BY DEF Differ
  <1>5. Beyond(idx, dir, a, an, b, bn) <=>
            IF D = {} THEN IF dir = 1 THEN an < bn ELSE bn < an
            ELSE IF dir = 1
                 THEN IF Down(Least(D)) THEN A(Least(D)) > B(Least(D))
                                        ELSE A(Least(D)) < B(Least(D))
                 ELSE IF Down(Least(D)) THEN B(Least(D)) > A(Least(D))
                                        ELSE B(Least(D)) < A(Least(D))
    BY <1>4 DEF Beyond, IndexLess
  <1>6. CASE D = {}
    <2>1. \A k \in 1..N : A(k) = B(k)
      BY <1>6
    <2>2. \A i \in 1..N : ~ Next1(i)
      BY <2>1, <1>2
    <2>3. QED
      BY <1>5, <1>6, <2>1, <2>2
  <1>7. CASE D # {}
    <2> DEFINE m == Least(D)
    <2>1. D \in SUBSET Nat
      BY <1>1
    <2>2. m \in D /\ \A k \in D : m <= k
      BY <2>1, <1>7, LeastExists
    <2> HIDE DEF m
    <2>3. m \in 1..N /\ A(m) # B(m) /\ \A k \in 1 .. m-1 : A(k) = B(k)
      <3>1. m \in 1..N /\ A(m) # B(m)
        BY <2>2
      <3>2. ASSUME NEW k \in 1 .. m-1 PROVE A(k) = B(k)
        <4>1. k \in 1..N /\ ~ (m <= k)
          BY <3>1, <1>1
        <4>2. QED
          BY <4>1, <2>2
      <3>3. QED
        BY <3>1, <3>2
    <2>4. ASSUME NEW i \in 1..N, \A k \in 1 .. i-1 : A(k) = B(k), Next1(i)
          PROVE  i = m
      <3>1. A(i) # B(i)
        BY <2>4, <1>2
      <3>2. m <= i
        BY <3>1, <2>2
      <3>3. ~ (m < i)
        <4>1. m < i => m \in 1 .. i-1
          BY <2>3, <1>1
        <4>2. QED
          BY <4>1, <2>3, <2>4
      <3>4. QED
        BY <3>2, <3>3, <2>3, <1>1
    <2>5. Beyond(idx, dir, a, an, b, bn) <=> Next1(m)
      <3>1. A(m) \in Int /\ B(m) \in Int /\ Down(m) \in BOOLEAN
        BY <2>3, <1>2, <1>3
      <3>2. CASE dir = 1
        BY <1>5, <1>7, <3>1, <3>2 DEF m
      <3>3. CASE dir = -1
        BY <1>5, <1>7, <3>1, <3>3 DEF m
      <3>4. QED
        BY <3>2, <3>3
    <2>6. ~ \A k \in 1..N : A(k) = B(k)
      BY <2>3
    <2>7. (\E i \in 1..N : (\A k \in 1 .. i-1 : A(k) = B(k)) /\ Next1(i)) <=> Next1(m)
      BY <2>3, <2>4
    <2>8. QED
      BY <2>5, <2>6, <2>7
  <1>8. QED
    BY <1>6, <1>7

\* The ORDER BY with the record number last is the order of the index.
LEMMA OrderIsIndexOrder ==
    ASSUME NEW n \in IndexNums, NEW a \in Record, NEW b \in Record,
           NEW an \in Int, NEW bn \in Int, NEW dir \in {1, -1}
    PROVE  OrderBefore(IndexColRefs(IndexOf(n)), dir, TRUE, a, an, b, bn)
               <=> Beyond(IndexOf(n), dir, a, an, b, bn)
  <1> DEFINE idx  == IndexOf(n)
             refs == IndexColRefs(idx)
  <1>1. Len(idx.segs) \in Nat
    BY IndexOfFacts
  <1>2. /\ Len(refs) = Len(idx.segs)
        /\ \A k \in 1..Len(idx.segs) : /\ refs[k].field = idx.segs[k]
                                       /\ refs[k].desc = Flag(idx.desc, k)
    BY <1>1 DEF IndexColRefs
  <1> DEFINE N        == Len(idx.segs)
             Same(k)  == SameSeg(idx, a, b, k)
             Next1(i) == Farther(idx, dir, a, b, i)
             After    == IF dir = 1 THEN an < bn ELSE an > bn
  <1>3. \A i \in 1..N : \A k \in 1 .. i-1 : k \in 1..N
    BY <1>1
  <1>4. Beyond(idx, dir, a, an, b, bn) <=>
            \/ \E i \in 1..N : (\A k \in 1 .. i-1 : Same(k)) /\ Next1(i)
            \/ (\A k \in 1..N : Same(k)) /\ After
    BY BeyondMeans
  <1>5. OrderBefore(refs, dir, TRUE, a, an, b, bn) <=>
            \/ \E i \in 1..N : (\A k \in 1 .. i-1 : Same(k)) /\ Next1(i)
            \/ (\A k \in 1..N : Same(k)) /\ After
    <2> HIDE DEF refs
    <2>1. QED
      BY <1>2, <1>3 DEF OrderBefore, SameSeg, Farther
  <1>6. QED
    BY <1>4, <1>5

\* Where nothing is NULL, the predicate of Get Next and Get Previous selects the
\* rows beyond the remembered record.
LEMMA ContinuationIsBeyond ==
    ASSUME NoNulls,
           NEW n \in IndexNums, NEW a \in Record, NEW b \in Record,
           NEW an \in Int, NEW bn \in Int, NEW dir \in {1, -1}, NEW cols,
           Len(cols) = Len(IndexOf(n).segs),
           \A k \in 1..Len(cols) : /\ cols[k].field = IndexOf(n).segs[k]
                                   /\ cols[k].val = a[IndexOf(n).segs[k]]
                                   /\ cols[k].desc = Flag(IndexOf(n).desc, k)
    PROVE  ContinuationWhere(cols, dir, an, b, bn)
               <=> Beyond(IndexOf(n), dir, a, an, b, bn)
  <1> DEFINE idx     == IndexOf(n)
             N       == Len(idx.segs)
             A(k)    == a[idx.segs[k]]
             B(k)    == b[idx.segs[k]]
             Down(k) == Flag(idx.desc, k)
             Next1(i) == IF (dir = 1) # Down(i) THEN A(i) < B(i) ELSE A(i) > B(i)
  <1>1. N \in Nat /\ Len(cols) = N
    BY IndexOfFacts
  <1>2. \A k \in 1..N : A(k) \in Nat /\ B(k) \in Nat
    BY IndexOfFacts, RecordAssumption DEF NoNulls
  <1>3. \A k \in 1..N : SqlEq(b[cols[k].field], cols[k].val) <=> A(k) = B(k)
    BY <1>1, <1>2 DEF SqlEq, Null
  <1>4. \A i \in 1..N :
            SqlCompare(SegCmp(dir, cols[i].desc), b[cols[i].field], cols[i].val)
                <=> Next1(i)
    <2> SUFFICES ASSUME NEW i \in 1..N
                 PROVE  SqlCompare(SegCmp(dir, cols[i].desc), B(i), A(i)) <=> Next1(i)
      BY <1>1
    <2>1. A(i) \in Nat /\ B(i) \in Nat
      BY <1>2
    <2>2. cols[i].desc = Down(i) /\ Down(i) \in BOOLEAN
      BY <1>1, IndexOfFacts
    <2>3. CASE (dir = 1) # Down(i)
      <3>1. SegCmp(dir, cols[i].desc) = ">"
        BY <2>2, <2>3 DEF SegCmp
      <3>2. QED
        BY <3>1, <2>1, <2>3 DEF SqlCompare, SqlLess, Null
    <2>4. CASE ~ ((dir = 1) # Down(i))
      <3>1. SegCmp(dir, cols[i].desc) = "<"
        BY <2>2, <2>4 DEF SegCmp
      <3>2. QED
        BY <3>1, <2>1, <2>4 DEF SqlCompare, SqlLess, Null
    <2>5. QED
      BY <2>3, <2>4
  <1>5. \A i \in 1..N : \A k \in 1 .. i-1 : k \in 1..N
    BY <1>1
  <1>6. ContinuationWhere(cols, dir, an, b, bn) <=>
            \/ \E i \in 1..N : (\A k \in 1 .. i-1 : A(k) = B(k)) /\ Next1(i)
            \/ (\A k \in 1..N : A(k) = B(k)) /\ IF dir = 1 THEN an < bn ELSE an > bn
    BY <1>1, <1>3, <1>4, <1>5 DEF ContinuationWhere
  <1>7. Beyond(idx, dir, a, an, b, bn) <=>
            \/ \E i \in 1..N : /\ \A k \in 1 .. i-1 : SameSeg(idx, a, b, k)
                               /\ Farther(idx, dir, a, b, i)
            \/ /\ \A k \in 1..N : SameSeg(idx, a, b, k)
               /\ IF dir = 1 THEN an < bn ELSE an > bn
    BY BeyondMeans
  <1>8. QED
    BY <1>6, <1>7 DEF SameSeg, Farther

\* Of two rows with different numbers exactly one is beyond the other, and
\* none is beyond itself.
LEMMA BeyondIsTotal ==
    ASSUME NEW n \in IndexNums, NEW a \in Record, NEW b \in Record,
           NEW an \in Int, NEW bn \in Int, NEW dir \in {1, -1}
    PROVE  /\ an # bn => \/ Beyond(IndexOf(n), dir, a, an, b, bn)
                         \/ Beyond(IndexOf(n), dir, b, bn, a, an)
           /\ ~ (/\ Beyond(IndexOf(n), dir, a, an, b, bn)
                 /\ Beyond(IndexOf(n), dir, b, bn, a, an))
  <1> DEFINE idx  == IndexOf(n)
             N    == Len(idx.segs)
             A(k) == a[idx.segs[k]]
             B(k) == b[idx.segs[k]]
             D    == {k \in 1..N : A(k) # B(k)}
  <1>1. N \in Nat
    BY IndexOfFacts
  <1>2. \A k \in 1..N : A(k) \in Int /\ B(k) \in Int
    BY IndexOfFacts, RecordAssumption DEF Null
  <1>3. Differ(idx, a, b) = D /\ Differ(idx, b, a) = D
    BY DEF Differ
  <1>4. CASE D = {}
    BY <1>3, <1>4 DEF Beyond, IndexLess
  <1>5. CASE D # {}
    <2>1. D \in SUBSET Nat
      BY <1>1
    <2>2. Least(D) \in D
      BY <2>1, <1>5, LeastExists
    <2>3. /\ A(Least(D)) \in Int /\ B(Least(D)) \in Int
          /\ A(Least(D)) # B(Least(D))
      BY <2>2, <1>2
    <2>4. Flag(idx.desc, Least(D)) \in BOOLEAN
      BY <2>2, <2>1, IndexOfFacts
    <2> DEFINE x == A(Least(D))
               y == B(Least(D))
               down == Flag(idx.desc, Least(D))
    <2>5. IndexLess(idx, a, an, b, bn) <=> IF down THEN x > y ELSE x < y
      BY <1>3, <1>5 DEF IndexLess
    <2>6. IndexLess(idx, b, bn, a, an) <=> IF down THEN y > x ELSE y < x
      BY <1>3, <1>5 DEF IndexLess
    <2> HIDE DEF x, y, down
    <2>7. x \in Int /\ y \in Int /\ x # y /\ down \in BOOLEAN
      BY <2>3, <2>4 DEF x, y, down
    <2>8. QED
      BY <2>5, <2>6, <2>7 DEF Beyond
  <1>6. QED
    BY <1>4, <1>5

-----------------------------------------------------------------------------
(***************************************************************************)
(* The inductive invariant.  The query of a Get takes its columns and the  *)
(* order from the index in use, and its values and flags from what the     *)
(* handle remembers: they must be of one index and one record.  The flags  *)
(* are those of the index only after a Get by key, First or Last, which is *)
(* where walks begin.                                                      *)
(***************************************************************************)
KeyTypeOK ==
    /\ FileTypeOK
    /\ getIndex \in {None} \cup IndexNums
    /\ batch = NoBatch \/ batch \in [dir : {1, -1}, left : 1..MaxBatch, filter : Filters]
    /\ walk \in [dir : {0, 1, -1}, todo : SUBSET Row]

\* The values remembered are the key of the current record in the index in use.
CurrencyHolds ==
    IF pos = NoFix THEN getKeys = <<>> /\ walk = NoWalk
    ELSE /\ pos \in [idx : {ActiveIndex.num}, rec : Record, rn : Row]
         /\ getKeys = ExtractKeyVals(ActiveIndex, pos.rec)
         /\ getRn = pos.rn

\* A walk owes rows that are there, and goes by the flags of its index.
WalkHolds ==
    /\ walk # NoWalk => walk.dir # 0 /\ FlagsOfIndex
    /\ walk.todo \subseteq Present

KeyInv == KeyTypeOK /\ CurrencyHolds /\ WalkHolds /\ WalkSkipsNothing

\* The index in use is one of the table's.
LEMMA ActiveFacts ==
    ASSUME KeyTypeOK
    PROVE  /\ ActiveIndex.num \in IndexNums
           /\ ActiveIndex = IndexOf(ActiveIndex.num)
           /\ getIndex # None => ActiveIndex.num = getIndex
  <1>1. 1 \in DOMAIN Indexes
    <2> DEFINE S == [num : Nat \ {0}, segs : Seq(Fields), desc : Seq(BOOLEAN)]
    <2>1. Indexes \in Seq(S) /\ Indexes # <<>>
      BY IndexAssumption
    <2> HIDE DEF S
    <2>2. QED
      BY <2>1
  <1>2. Indexes[1].num \in IndexNums
    BY <1>1, IndexFacts
  <1> DEFINE n == IF getIndex = None THEN Indexes[1].num ELSE getIndex
  <1>3. n \in IndexNums
    BY <1>2 DEF KeyTypeOK
  <1>4. ActiveIndex = IndexOf(n)
    BY DEF ActiveIndex
  <1>5. IndexOf(n).num = n
    BY <1>3, IndexOfFacts
  <1>6. QED
    BY <1>3, <1>4, <1>5

\* Rows that are there hold records.
LEMMA PresentFacts ==
    ASSUME KeyTypeOK
    PROVE  \A q \in Present : q \in Row /\ q \in Int /\ file[q] \in Record
  BY MaxRecAssumption DEF KeyTypeOK, FileTypeOK, Present, Row

\* When the flags are those of the index, Get Next and Get Previous select the
\* rows beyond the current record.
LEMMA SelectedIsAhead ==
    ASSUME NoNulls, KeyTypeOK, CurrencyHolds, FlagsOfIndex, pos # NoFix,
           NEW dir \in {1, -1}
    PROVE  Selected(dir) = {q \in Present :
               Beyond(ActiveIndex, dir, pos.rec, pos.rn, file[q], q)}
  <1> DEFINE idx == ActiveIndex
             n   == idx.num
             N   == Len(idx.segs)
  <1>1. n \in IndexNums /\ idx = IndexOf(n)
    BY ActiveFacts
  <1>2. /\ N \in Nat \ {0}
        /\ \A k \in 1..N : idx.segs[k] \in Fields
    BY <1>1, IndexOfFacts
  <1>3. pos.rec \in Record /\ pos.rn \in Row /\ getRn = pos.rn
        /\ getKeys = ExtractKeyVals(idx, pos.rec)
    BY DEF CurrencyHolds
  <1>4. Len(getKeys) = N /\ \A k \in 1..N : getKeys[k] = pos.rec[idx.segs[k]]
    <2>1. \A k \in 1..N : pos.rec[idx.segs[k]] # Null
      BY <1>2, <1>3 DEF NoNulls
    <2>2. getKeys = [k \in 1..N |-> IF pos.rec[idx.segs[k]] = Null
                                    THEN Blank ELSE pos.rec[idx.segs[k]]]
      BY <1>3 DEF ExtractKeyVals
    <2>3. N \in Nat
      BY <1>2
    <2> HIDE DEF idx, N
    <2>4. QED
      BY <2>1, <2>2, <2>3
  <1>5. Positioned
    <2>1. getKeys # <<>>
      BY <1>2, <1>4
    <2>2. pos.rn # NoPos
      BY <1>3, MaxRecAssumption DEF Row, NoPos
    <2>3. QED
      BY <2>1, <2>2, <1>3 DEF Positioned
  <1>6. /\ Len(LastCols) = N
        /\ \A k \in 1..N : /\ LastCols[k].field = idx.segs[k]
                           /\ LastCols[k].val = pos.rec[idx.segs[k]]
                           /\ LastCols[k].desc = Flag(idx.desc, k)
    <2>1. LastCols = [k \in 1..N |-> [field |-> idx.segs[k], val |-> getKeys[k],
                                      desc |-> Flag(getDesc, k)]]
      BY <1>4 DEF LastCols
    <2>2. \A k \in 1..N : Flag(getDesc, k) = Flag(idx.desc, k)
      BY DEF FlagsOfIndex
    <2>3. QED
      BY <2>1, <2>2, <1>2, <1>4
  <1>7. pos.rn \in Int
    BY <1>3, MaxRecAssumption DEF Row
  <1>8. \A q \in Present :
            ContinuationWhere(LastCols, dir, pos.rn, file[q], q)
                <=> Beyond(idx, dir, pos.rec, pos.rn, file[q], q)
    <2> SUFFICES ASSUME NEW q \in Present
                 PROVE  ContinuationWhere(LastCols, dir, pos.rn, file[q], q)
                            <=> Beyond(IndexOf(n), dir, pos.rec, pos.rn, file[q], q)
      BY <1>1
    <2>1. file[q] \in Record /\ q \in Int
      BY PresentFacts
    <2>2. /\ Len(LastCols) = Len(IndexOf(n).segs)
          /\ \A k \in 1..Len(LastCols) :
                /\ LastCols[k].field = IndexOf(n).segs[k]
                /\ LastCols[k].val = pos.rec[IndexOf(n).segs[k]]
                /\ LastCols[k].desc = Flag(IndexOf(n).desc, k)
      BY <1>1, <1>6
    <2> DEFINE cols == LastCols
               a    == pos.rec
               b    == file[q]
               an   == pos.rn
    <2>3. /\ a \in Record /\ b \in Record /\ an \in Int
          /\ Len(cols) = Len(IndexOf(n).segs)
          /\ \A k \in 1..Len(cols) :
                /\ cols[k].field = IndexOf(n).segs[k]
                /\ cols[k].val = a[IndexOf(n).segs[k]]
                /\ cols[k].desc = Flag(IndexOf(n).desc, k)
      BY <1>3, <1>7, <2>1, <2>2
    <2> HIDE DEF n, cols, a, b, an
    <2>4. ContinuationWhere(cols, dir, an, b, q)
              <=> Beyond(IndexOf(n), dir, a, an, b, q)
      BY <1>1, <2>1, <2>3, ContinuationIsBeyond
    <2>5. QED
      BY <2>4 DEF cols, a, b, an
  <1>9. Selected(dir) = {q \in Present :
                            ContinuationWhere(LastCols, dir, pos.rn, file[q], q)}
    BY <1>3, <1>5 DEF Selected
  <1>10. QED
    BY <1>8, <1>9

\* The row returned is the nearest of those selected, in the order of the index.
LEMMA AdjacentIsNearest ==
    ASSUME KeyTypeOK, NEW dir \in {1, -1}, NEW F
    PROVE  Adjacent(dir, F) = {r \in Selected(dir) :
               /\ file[r] \in F
               /\ \A q \in Selected(dir) \ {r} :
                     file[q] \in F => Beyond(ActiveIndex, dir, file[r], r, file[q], q)}
  <1> DEFINE idx == ActiveIndex
             n   == idx.num
             S   == {r \in Selected(dir) : file[r] \in F}
  <1>1. n \in IndexNums /\ idx = IndexOf(n)
    BY ActiveFacts
  <1>2. \A q \in S : q \in Int /\ file[q] \in Record
    BY PresentFacts DEF Selected
  <1>3. ASSUME NEW q \in S, NEW r \in S
        PROVE  /\ OrderBefore(IndexColRefs(idx), dir, TRUE, file[q], q, file[r], r)
                      <=> Beyond(idx, dir, file[q], q, file[r], r)
               /\ ~ Beyond(idx, dir, file[q], q, file[r], r) =>
                      q = r \/ Beyond(idx, dir, file[r], r, file[q], q)
               /\ Beyond(idx, dir, file[r], r, file[q], q) =>
                      ~ Beyond(idx, dir, file[q], q, file[r], r)
    <2>1. /\ q \in Int /\ file[q] \in Record
          /\ r \in Int /\ file[r] \in Record
      BY <1>2
    <2>2. OrderBefore(IndexColRefs(idx), dir, TRUE, file[q], q, file[r], r)
              <=> Beyond(idx, dir, file[q], q, file[r], r)
      <3> HIDE DEF idx, n
      <3>1. QED
        BY <1>1, <2>1, OrderIsIndexOrder
    <2>3. /\ q # r => \/ Beyond(idx, dir, file[q], q, file[r], r)
                      \/ Beyond(idx, dir, file[r], r, file[q], q)
          /\ ~ (/\ Beyond(idx, dir, file[q], q, file[r], r)
                /\ Beyond(idx, dir, file[r], r, file[q], q))
      <3> HIDE DEF idx, n
      <3>1. QED
        BY <1>1, <2>1, BeyondIsTotal
    <2>4. QED
      BY <2>2, <2>3
  <1>4. Adjacent(dir, F) = {r \in S : \A q \in S :
            ~ OrderBefore(IndexColRefs(idx), dir, TRUE, file[q], q, file[r], r)}
    BY DEF Adjacent, Top
  <1>5. \A r \in S :
            (\A q \in S : ~ OrderBefore(IndexColRefs(idx), dir, TRUE, file[q], q, file[r], r))
                <=> \A q \in S \ {r} : Beyond(idx, dir, file[r], r, file[q], q)
    <2> SUFFICES ASSUME NEW r \in S
                 PROVE (\A q \in S : ~ OrderBefore(IndexColRefs(idx), dir, TRUE,
                                                   file[q], q, file[r], r))
                           <=> \A q \in S \ {r} : Beyond(idx, dir, file[r], r, file[q], q)
      OBVIOUS
    <2>1. ~ Beyond(idx, dir, file[r], r, file[r], r)
      BY <1>3
    <2> HIDE DEF idx, S
    <2>2. QED
      BY <1>3, <2>1
  <1>6. QED
    BY <1>4, <1>5

-----------------------------------------------------------------------------
(***************************************************************************)
(* One lemma for each way the currency changes.                            *)
(***************************************************************************)
\* A new current record: the values remembered are its key.
LEMMA FixHolds ==
    ASSUME KeyTypeOK, NEW n \in IndexNums, NEW r \in Present, Fix(IndexOf(n), r),
           ActiveIndex' = IndexOf(n)
    PROVE  pos' # NoFix /\ CurrencyHolds'
  <1>1. pos' = [idx |-> n, rec |-> file[r], rn |-> r]
    BY IndexOfFacts DEF Fix
  <1>2. n # None
    <2>1. PICK i \in DOMAIN Indexes : n = Indexes[i].num
      BY DEF IndexNums
    <2>2. QED
      BY <2>1, IndexFacts DEF None
  <1>3. pos' # NoFix
    <2>1. pos'.idx = n /\ NoFix.idx = None
      BY <1>1 DEF NoFix
    <2>2. QED
      BY <2>1, <1>2
  <1>4. pos' \in [idx : {ActiveIndex'.num}, rec : Record, rn : Row]
    <2>1. ActiveIndex'.num = n
      BY IndexOfFacts
    <2>2. file[r] \in Record /\ r \in Row
      BY PresentFacts
    <2>3. QED
      BY <1>1, <2>1, <2>2
  <1>5. getKeys' = ExtractKeyVals(ActiveIndex', pos'.rec) /\ getRn' = pos'.rn
    BY <1>1 DEF Fix
  <1>6. QED
    BY <1>3, <1>4, <1>5 DEF CurrencyHolds

\* Get by key, First and Last begin a walk, with the flags of its index.
LEMMA EstablishHolds ==
    ASSUME KeyInv, NEW n \in IndexNums, NEW dir \in {1, -1}, NEW r \in Present,
           Establish(IndexOf(n), dir, r)
    PROVE  KeyInv'
  <1> DEFINE idx == IndexOf(n)
  <1> USE DEF KeyInv
  <1>1. /\ getIndex' = n
        /\ getDesc' = [k \in 1..Len(idx.segs) |-> Flag(idx.desc, k)]
        /\ Fix(idx, r) /\ StartWalk(idx, dir, r)
        /\ UNCHANGED <<file, nextRec, batch>>
    BY IndexOfFacts DEF Establish, fileVars
  <1>2. ActiveIndex' = idx
    <2>1. n # None
      <3>1. PICK i \in DOMAIN Indexes : n = Indexes[i].num
        BY DEF IndexNums
      <3>2. QED
        BY <3>1, IndexFacts DEF None
    <2>2. QED
      BY <1>1, <2>1 DEF ActiveIndex
  <1>3. pos' # NoFix /\ CurrencyHolds'
    BY <1>1, <1>2, FixHolds
  <1>4. walk' = [dir |-> dir, todo |-> {q \in Present : Beyond(idx, dir, file[r], r, file[q], q)}]
    BY <1>1 DEF StartWalk
  <1>5. Present' = Present /\ Present \subseteq Row
    BY <1>1 DEF Present
  <1>6. KeyTypeOK'
    BY <1>1, <1>4, <1>5 DEF KeyTypeOK, FileTypeOK
  <1>7. WalkHolds'
    <2>1. walk'.dir # 0
      BY <1>4
    <2>2. FlagsOfIndex'
      <3>1. Len(idx.segs) \in Nat
        BY IndexOfFacts
      <3>2. \A k \in 1..Len(idx.segs) : Flag(getDesc', k) = Flag(idx.desc, k)
        <4> SUFFICES ASSUME NEW k \in 1..Len(idx.segs)
                     PROVE  Flag(getDesc', k) = Flag(idx.desc, k)
          OBVIOUS
        <4>1. Flag(idx.desc, k) \in BOOLEAN
          BY IndexOfFacts, <3>1
        <4>2. Len(getDesc') = Len(idx.segs) /\ getDesc'[k] = Flag(idx.desc, k)
          BY <1>1, <3>1
        <4>3. Flag(getDesc', k) <=> Flag(idx.desc, k)
          BY <4>2 DEF Flag
        <4>4. Flag(getDesc', k) \in BOOLEAN
          BY <4>1, <4>2 DEF Flag
        <4>5. QED
          BY <4>1, <4>3, <4>4
      <3>3. QED
        BY <3>2, <1>2 DEF FlagsOfIndex
    <2>3. QED
      BY <2>1, <2>2, <1>4, <1>5 DEF WalkHolds
  <1>8. WalkSkipsNothing'
    <2>1. /\ pos'.idx = n /\ pos'.rec = file[r] /\ pos'.rn = r
          /\ walk'.dir = dir
          /\ \A q \in walk'.todo : Beyond(idx, dir, file[r], r, file[q], q)
      BY <1>1, <1>4, IndexOfFacts DEF Fix
    <2>2. QED
      BY <1>1, <2>1 DEF WalkSkipsNothing
  <1>9. QED
    BY <1>3, <1>6, <1>7, <1>8

\* Get Next, Get Previous and a step of an extended Get: what the walk still
\* owes lies beyond the row returned, because it was selected and not nearer.
LEMMA ReturnHolds ==
    ASSUME NoNulls, KeyInv, NEW dir \in {1, -1}, NEW F, NEW r \in Adjacent(dir, F),
           Fix(ActiveIndex, r), StepWalk(dir, F, r),
           ActiveIndex' = ActiveIndex, getDesc' = getDesc, UNCHANGED fileVars
    PROVE  /\ CurrencyHolds' /\ WalkHolds' /\ WalkSkipsNothing'
           /\ walk' \in [dir : {0, 1, -1}, todo : SUBSET Row]
  <1> DEFINE idx == ActiveIndex
             n   == idx.num
  <1>1. KeyTypeOK /\ CurrencyHolds /\ WalkHolds /\ WalkSkipsNothing
    BY DEF KeyInv
  <1>2. n \in IndexNums /\ idx = IndexOf(n)
    BY <1>1, ActiveFacts
  <1>3. r \in Present
    BY DEF Adjacent, Top, Selected
  <1>4. pos' # NoFix /\ CurrencyHolds'
    <2> HIDE DEF idx, n
    <2>1. Fix(IndexOf(n), r) /\ ActiveIndex' = IndexOf(n)
      BY <1>2 DEF idx
    <2>2. QED
      BY <1>1, <1>2, <1>3, <2>1, FixHolds
  <1>5. pos'.idx = n /\ pos'.rec = file[r] /\ pos'.rn = r
    BY DEF Fix
  <1>6. file' = file /\ Present' = Present /\ FlagsOfIndex' = FlagsOfIndex
    BY DEF fileVars, Present, FlagsOfIndex
  <1>7. CASE walk.dir # dir
    <2>1. walk' = NoWalk
      BY <1>7 DEF StepWalk
    <2>2. walk'.todo = {} /\ walk' \in [dir : {0, 1, -1}, todo : SUBSET Row]
      BY <2>1 DEF NoWalk
    <2>3. QED
      BY <1>4, <2>1, <2>2 DEF WalkHolds, WalkSkipsNothing
  <1>8. CASE walk.dir = dir
    <2> DEFINE owed == {q \in walk.todo \ {r} :
                           \/ file[q] \in F
                           \/ Beyond(idx, dir, file[r], r, file[q], q)}
    <2>1. walk \in [dir : {0, 1, -1}, todo : SUBSET Row]
      BY <1>1 DEF KeyTypeOK
    <2>2. walk' = [dir |-> dir, todo |-> owed]
      BY <1>8, <2>1 DEF StepWalk
    <2>3. walk # NoWalk /\ FlagsOfIndex
      BY <1>1, <1>8 DEF WalkHolds, NoWalk
    <2>4. pos # NoFix /\ pos.idx = n
      BY <1>1, <2>3 DEF CurrencyHolds
    <2>5. walk.todo \subseteq Selected(dir)
      <3>1. Selected(dir) = {q \in Present :
                 Beyond(ActiveIndex, dir, pos.rec, pos.rn, file[q], q)}
        BY <1>1, <2>3, <2>4, SelectedIsAhead
      <3>2. \A q \in walk.todo : Beyond(idx, dir, pos.rec, pos.rn, file[q], q)
        BY <1>1, <1>2, <1>8, <2>4 DEF WalkSkipsNothing
      <3>3. QED
        BY <3>1, <3>2, <1>1 DEF WalkHolds
    <2>6. \A q \in owed : Beyond(idx, dir, file[r], r, file[q], q)
      <3>1. \A q \in Selected(dir) \ {r} :
                file[q] \in F => Beyond(ActiveIndex, dir, file[r], r, file[q], q)
        BY <1>1, AdjacentIsNearest
      <3>2. QED
        BY <3>1, <2>5
    <2>7. WalkSkipsNothing'
      <3>1. walk'.dir = dir /\ walk'.todo = owed
        BY <2>2
      <3>2. IndexOf(pos'.idx) = idx
        BY <1>2, <1>5
      <3> HIDE DEF idx, n, owed
      <3>3. QED
        BY <1>5, <1>6, <2>6, <3>1, <3>2 DEF WalkSkipsNothing
    <2>8. WalkHolds'
      <3>1. owed \subseteq Present
        BY <1>1 DEF WalkHolds
      <3>2. walk'.dir # 0 /\ walk'.todo = owed
        BY <2>2
      <3>3. QED
        BY <3>1, <3>2, <1>6, <2>3 DEF WalkHolds
    <2>9. walk' \in [dir : {0, 1, -1}, todo : SUBSET Row]
      BY <2>1, <2>2
    <2>10. QED
      BY <1>4, <2>7, <2>8, <2>9
  <1>9. QED
    BY <1>7, <1>8

\* Rows written by any session: a row that is owed stays as it was, because an
\* insert takes a number never used, a rollback one without a row, and a row
\* that is written is owed no longer.
LEMMA FileOpHolds ==
    ASSUME KeyInv, FileOp
    PROVE  KeyInv'
  <1>1. /\ FileTypeOK /\ walk \in [dir : {0, 1, -1}, todo : SUBSET Row]
        /\ walk.todo \subseteq Present
    BY DEF KeyInv, KeyTypeOK, WalkHolds
  <1>2. ASSUME UNCHANGED <<cursorVars, batch, pos>>, FileTypeOK',
               walk'.dir = walk.dir, walk'.todo \subseteq walk.todo,
               walk = NoWalk => walk' = NoWalk,
               walk' \in [dir : {0, 1, -1}, todo : SUBSET Row],
               \A q \in walk'.todo : file'[q] = file[q]
        PROVE  KeyInv'
    <2>1. /\ getIndex' = getIndex /\ getKeys' = getKeys /\ getDesc' = getDesc
          /\ getRn' = getRn /\ batch' = batch /\ pos' = pos
          /\ ActiveIndex' = ActiveIndex
      BY <1>2 DEF cursorVars, ActiveIndex
    <2>2. KeyTypeOK'
      BY <1>2, <2>1 DEF KeyInv, KeyTypeOK
    <2>3. CurrencyHolds'
      BY <1>2, <2>1 DEF KeyInv, CurrencyHolds
    <2>4. WalkHolds'
      <3>1. walk'.todo \subseteq Present'
        BY <1>1, <1>2 DEF Present
      <3>2. walk' # NoWalk => walk'.dir # 0 /\ FlagsOfIndex'
        BY <1>2, <2>1 DEF KeyInv, WalkHolds, FlagsOfIndex
      <3>3. QED
        BY <3>1, <3>2 DEF WalkHolds
    <2>5. WalkSkipsNothing'
      BY <1>2, <2>1 DEF KeyInv, WalkSkipsNothing
    <2>6. QED
      BY <2>2, <2>3, <2>4, <2>5 DEF KeyInv
  <1>3. CASE \E rec \in Record : InsertAnywhere(rec)
    <2>1. PICK rec \in Record : InsertAnywhere(rec)
      BY <1>3
    <2>2. /\ nextRec \in Row
          /\ file' = [file EXCEPT ![nextRec] = rec] /\ nextRec' = nextRec + 1
          /\ UNCHANGED <<cursorVars, batch, pos>> /\ walk' = walk
      BY <2>1 DEF InsertAnywhere, InsertRow
    <2>3. nextRec \notin Present
      BY <1>1, <2>2, MaxRecAssumption DEF FileTypeOK, Present, Row
    <2>4. \A q \in walk.todo : q # nextRec
      BY <1>1, <2>3
    <2>5. \A q \in walk'.todo : file'[q] = file[q]
      BY <1>1, <2>2, <2>4 DEF FileTypeOK
    <2>6. FileTypeOK'
      <3>1. nextRec' \in 1 .. MaxRec + 1
        BY <2>2, MaxRecAssumption DEF Row
      <3>2. file' \in [Row -> Record \cup {Absent}]
        BY <1>1, <2>2 DEF FileTypeOK
      <3>3. \A q \in Row : file'[q] # Absent => q < nextRec'
        BY <1>1, <2>2, MaxRecAssumption DEF FileTypeOK, Row
      <3>4. QED
        BY <3>1, <3>2, <3>3 DEF FileTypeOK
    <2>7. QED
      BY <1>1, <1>2, <2>2, <2>5, <2>6
  <1>4. CASE \E r \in Row, rec \in Record : RestoreAnywhere(r, rec)
    <2>1. PICK r \in Row, rec \in Record : RestoreAnywhere(r, rec)
      BY <1>4
    <2>2. /\ r \notin Present /\ r < nextRec
          /\ file' = [file EXCEPT ![r] = rec] /\ nextRec' = nextRec
          /\ UNCHANGED <<cursorVars, batch, pos>> /\ walk' = walk
      BY <2>1 DEF RestoreAnywhere, RestoreRow
    <2>3. \A q \in walk'.todo : file'[q] = file[q]
      BY <1>1, <2>2 DEF FileTypeOK
    <2>4. FileTypeOK'
      BY <1>1, <2>2 DEF FileTypeOK
    <2>5. QED
      BY <1>1, <1>2, <2>2, <2>3, <2>4
  <1>5. CASE \E r \in Row, image \in Record \cup {Absent} : WriteAnywhere(r, image)
    <2>1. PICK r \in Row, image \in Record \cup {Absent} : WriteAnywhere(r, image)
      BY <1>5
    <2>2. /\ r \in Present
          /\ file' = [file EXCEPT ![r] = image] /\ nextRec' = nextRec
          /\ UNCHANGED <<cursorVars, batch, pos>>
          /\ walk' = [walk EXCEPT !.todo = walk.todo \ {r}]
      BY <2>1 DEF WriteAnywhere, WriteRow
    <2>3. /\ walk'.dir = walk.dir /\ walk'.todo = walk.todo \ {r}
          /\ walk' \in [dir : {0, 1, -1}, todo : SUBSET Row]
      BY <1>1, <2>2
    <2>4. \A q \in walk'.todo : file'[q] = file[q]
      BY <1>1, <2>2, <2>3 DEF FileTypeOK
    <2>5. FileTypeOK'
      BY <1>1, <2>2 DEF FileTypeOK, Present
    <2>6. walk = NoWalk => walk' = NoWalk
      BY <2>2 DEF NoWalk
    <2>7. QED
      BY <1>2, <2>2, <2>3, <2>4, <2>5, <2>6
  <1>6. QED
    BY <1>3, <1>4, <1>5 DEF FileOp

\* Get by key, First and Last.
LEMMA SearchHolds ==
    ASSUME KeyInv,
           \/ \E k \in KeyNums, key \in Keys, cmp \in DOMAIN CmpDir : GetByKey(k, key, cmp)
           \/ \E k \in KeyNums, dir \in {1, -1} : GetEnd(k, dir)
    PROVE  KeyInv'
  <1>1. \A k \in KeyNums : \A idx \in PickIndex(k) : \E n \in IndexNums : idx = IndexOf(n)
    BY DEF PickIndex, KeyInv, KeyTypeOK
  <1>2. CASE \E k \in KeyNums, key \in Keys, cmp \in DOMAIN CmpDir : GetByKey(k, key, cmp)
    <2>1. PICK k \in KeyNums, key \in Keys, cmp \in DOMAIN CmpDir : GetByKey(k, key, cmp)
      BY <1>2
    <2>2. PICK idx \in PickIndex(k) : \E r \in Present : Establish(idx, CmpDir[cmp], r)
      BY <2>1 DEF GetByKey, KeySearch, Top
    <2>3. PICK n \in IndexNums : idx = IndexOf(n)
      BY <1>1
    <2>4. CmpDir[cmp] \in {1, -1}
      BY DEF CmpDir
    <2>6. QED
      BY <2>2, <2>3, <2>4, EstablishHolds
  <1>3. CASE \E k \in KeyNums, dir \in {1, -1} : GetEnd(k, dir)
    <2>1. PICK k \in KeyNums, dir \in {1, -1} : GetEnd(k, dir)
      BY <1>3
    <2>2. PICK idx \in PickIndex(k) : \E r \in Present : Establish(idx, dir, r)
      BY <2>1 DEF GetEnd, Top
    <2>3. PICK n \in IndexNums : idx = IndexOf(n)
      BY <1>1
    <2>4. QED
      BY <2>2, <2>3, EstablishHolds
  <1>4. QED
    BY <1>2, <1>3

\* A walk that ends without a new position.
LEMMA WalkEndHolds ==
    ASSUME KeyInv, UNCHANGED <<fileVars, cursorVars, pos>>, batch' = NoBatch,
           walk' = NoWalk
    PROVE  KeyInv'
  <1>1. /\ getIndex' = getIndex /\ getKeys' = getKeys /\ getDesc' = getDesc
        /\ getRn' = getRn /\ pos' = pos /\ file' = file /\ nextRec' = nextRec
        /\ ActiveIndex' = ActiveIndex
    BY DEF cursorVars, fileVars, ActiveIndex
  <1>2. NoWalk \in [dir : {0, 1, -1}, todo : SUBSET Row] /\ NoWalk.todo = {}
    BY DEF NoWalk
  <1>3. KeyTypeOK'
    BY <1>1, <1>2 DEF KeyInv, KeyTypeOK, FileTypeOK
  <1>4. CurrencyHolds'
    BY <1>1 DEF KeyInv, CurrencyHolds
  <1>5. WalkHolds' /\ WalkSkipsNothing'
    BY <1>2 DEF WalkHolds, WalkSkipsNothing
  <1>6. QED
    BY <1>3, <1>4, <1>5 DEF KeyInv

\* Reset and Abort: no record, no walk.
LEMMA ForgetHolds ==
    ASSUME KeyInv, KeyReset \/ KeyAbort
    PROVE  KeyInv'
  <1>1. /\ getKeys' = <<>> /\ pos' = NoFix /\ walk' = NoWalk
        /\ UNCHANGED <<file, nextRec, getIndex, batch>>
    BY DEF KeyReset, KeyAbort, fileVars
  <1>2. NoWalk \in [dir : {0, 1, -1}, todo : SUBSET Row] /\ NoWalk.todo = {}
    BY DEF NoWalk
  <1>3. KeyTypeOK'
    BY <1>1, <1>2 DEF KeyInv, KeyTypeOK, FileTypeOK
  <1>4. CurrencyHolds'
    BY <1>1 DEF CurrencyHolds
  <1>5. WalkHolds' /\ WalkSkipsNothing'
    BY <1>1, <1>2 DEF WalkHolds, WalkSkipsNothing
  <1>6. QED
    BY <1>3, <1>4, <1>5 DEF KeyInv

\* Get Direct: a new position, and no walk.
LEMMA GetDirectHolds ==
    ASSUME KeyInv, NEW r \in Row, GetDirect(r)
    PROVE  KeyInv'
  <1>1. /\ r \in Present /\ Fix(ActiveIndex, r) /\ walk' = NoWalk
        /\ UNCHANGED <<file, nextRec, getIndex, getDesc, batch>>
        /\ ActiveIndex' = ActiveIndex
    BY DEF GetDirect, fileVars, ActiveIndex
  <1>2. NoWalk \in [dir : {0, 1, -1}, todo : SUBSET Row] /\ NoWalk.todo = {}
    BY DEF NoWalk
  <1>3. KeyTypeOK /\ KeyTypeOK'
    BY <1>1, <1>2 DEF KeyInv, KeyTypeOK, FileTypeOK
  <1>4. CurrencyHolds'
    <2>1. PICK n \in IndexNums : ActiveIndex = IndexOf(n)
      BY <1>3, ActiveFacts
    <2>2. QED
      BY <1>1, <1>3, <2>1, FixHolds
  <1>5. WalkHolds' /\ WalkSkipsNothing'
    BY <1>1, <1>2 DEF WalkHolds, WalkSkipsNothing
  <1>6. QED
    BY <1>3, <1>4, <1>5 DEF KeyInv

\* Get Next and Get Previous.
LEMMA GetAdjacentHolds ==
    ASSUME NoNulls, KeyInv, NEW dir \in {1, -1}, GetAdjacent(dir)
    PROVE  KeyInv'
  <1>1. PICK r \in Adjacent(dir, Record) : Fix(ActiveIndex, r) /\ StepWalk(dir, Record, r)
    BY DEF GetAdjacent
  <1>2. /\ UNCHANGED fileVars /\ getIndex' = getIndex /\ getDesc' = getDesc
        /\ batch' = batch /\ ActiveIndex' = ActiveIndex
    BY DEF GetAdjacent, ActiveIndex
  <1>3. /\ CurrencyHolds' /\ WalkHolds' /\ WalkSkipsNothing'
        /\ walk' \in [dir : {0, 1, -1}, todo : SUBSET Row]
    BY <1>1, <1>2, ReturnHolds
  <1>4. KeyTypeOK'
    BY <1>2, <1>3 DEF KeyInv, KeyTypeOK, FileTypeOK, fileVars
  <1>5. QED
    BY <1>3, <1>4 DEF KeyInv

\* One record of an extended Get.
LEMMA ExtendedFetchHolds ==
    ASSUME NoNulls, KeyInv, ExtendedFetch
    PROVE  KeyInv'
  <1>1. /\ KeyTypeOK /\ batch # NoBatch
        /\ batch \in [dir : {1, -1}, left : 1..MaxBatch, filter : Filters]
    BY DEF KeyInv, KeyTypeOK, ExtendedFetch, Idle
  <1>2. PICK r \in Adjacent(batch.dir, batch.filter) :
            /\ getIndex' = ActiveIndex.num /\ Fix(ActiveIndex, r)
            /\ StepWalk(batch.dir, batch.filter, r)
    BY DEF ExtendedFetch
  <1>3. /\ UNCHANGED fileVars /\ getDesc' = getDesc
        /\ batch' = IF batch.left = 1 THEN NoBatch
                                      ELSE [batch EXCEPT !.left = batch.left - 1]
    BY DEF ExtendedFetch
  <1>4. ActiveIndex.num \in IndexNums /\ ActiveIndex = IndexOf(ActiveIndex.num)
    BY <1>1, ActiveFacts
  <1>5. ActiveIndex' = ActiveIndex
    <2>1. ActiveIndex.num # None
      <3>1. PICK i \in DOMAIN Indexes : ActiveIndex.num = Indexes[i].num
        BY <1>4 DEF IndexNums
      <3>2. QED
        BY <3>1, IndexFacts DEF None
    <2> DEFINE a == ActiveIndex
    <2>2. ActiveIndex' = IndexOf(IF getIndex' = None THEN Indexes[1].num ELSE getIndex')
      BY DEF ActiveIndex
    <2>3. QED
      BY <1>2, <1>4, <2>1, <2>2
  <1>6. batch.dir \in {1, -1}
    BY <1>1
  <1>7. /\ CurrencyHolds' /\ WalkHolds' /\ WalkSkipsNothing'
        /\ walk' \in [dir : {0, 1, -1}, todo : SUBSET Row]
    BY <1>2, <1>3, <1>5, <1>6, ReturnHolds
  <1>8. batch' = NoBatch \/ batch' \in [dir : {1, -1}, left : 1..MaxBatch, filter : Filters]
    <2>1. CASE batch.left = 1
      BY <1>3, <2>1
    <2>2. CASE batch.left # 1
      <3>1. batch.left - 1 \in 1..MaxBatch
        BY <1>1, <2>2, MaxBatchAssumption
      <3>2. QED
        BY <1>1, <1>3, <2>2, <3>1
    <2>3. QED
      BY <2>1, <2>2
  <1>9. KeyTypeOK'
    BY <1>1, <1>2, <1>3, <1>4, <1>7, <1>8 DEF KeyTypeOK, FileTypeOK, fileVars
  <1>10. QED
    BY <1>7, <1>9 DEF KeyInv

\* Only the batch changes.
LEMMA BatchHolds ==
    ASSUME KeyInv, UNCHANGED <<fileVars, cursorVars, pos, walk>>,
           \/ batch' = batch \/ batch' = NoBatch
           \/ batch' \in [dir : {1, -1}, left : 1..MaxBatch, filter : Filters]
    PROVE  KeyInv'
  <1>1. /\ getIndex' = getIndex /\ getKeys' = getKeys /\ getDesc' = getDesc
        /\ getRn' = getRn /\ pos' = pos /\ file' = file /\ nextRec' = nextRec
        /\ walk' = walk /\ ActiveIndex' = ActiveIndex
    BY DEF cursorVars, fileVars, ActiveIndex
  <1>2. KeyTypeOK'
    BY <1>1 DEF KeyInv, KeyTypeOK, FileTypeOK
  <1>3. CurrencyHolds'
    BY <1>1 DEF KeyInv, CurrencyHolds
  <1>4. WalkHolds' /\ WalkSkipsNothing'
    BY <1>1 DEF KeyInv, WalkHolds, WalkSkipsNothing, Present, FlagsOfIndex
  <1>5. QED
    BY <1>2, <1>3, <1>4 DEF KeyInv

-----------------------------------------------------------------------------
\* The invariant holds at first: no currency, no walk.
LEMMA KeyInitHolds ==
    ASSUME KeyInit PROVE KeyInv
  <1>1. FileTypeOK
    BY DEF KeyInit, FileInit, FileTypeOK
  <1>2. /\ getIndex = None /\ getKeys = <<>> /\ pos = NoFix
        /\ batch = NoBatch /\ walk = NoWalk
    BY DEF KeyInit
  <1>3. walk \in [dir : {0, 1, -1}, todo : SUBSET Row] /\ walk.todo = {}
    BY <1>2 DEF NoWalk
  <1>4. QED
    BY <1>1, <1>2, <1>3
    DEF KeyInv, KeyTypeOK, CurrencyHolds, WalkHolds, WalkSkipsNothing

\* Every step keeps the invariant.
LEMMA KeyStepHolds ==
    ASSUME NoNulls, KeyInv, [KeyNext]_keyVars PROVE KeyInv'
  <1>1. CASE FileOp
    BY <1>1, FileOpHolds
  <1>2. CASE GetOp
    <2>1. CASE \/ \E k \in KeyNums, key \in Keys, cmp \in DOMAIN CmpDir : GetByKey(k, key, cmp)
               \/ \E k \in KeyNums, dir \in {1, -1} : GetEnd(k, dir)
      BY <2>1, SearchHolds
    <2>2. CASE \E dir \in {1, -1} : GetAdjacent(dir)
      BY <2>2, GetAdjacentHolds
    <2>3. CASE \E r \in Row : GetDirect(r)
      BY <2>3, GetDirectHolds
    <2>4. QED
      BY <1>2, <2>1, <2>2, <2>3 DEF GetOp
  <1>3. CASE ExtendedOp
    <2>1. CASE \E dir \in {1, -1}, n \in 1..MaxBatch, F \in Filters : ExtendedBegin(dir, n, F)
      BY <2>1, BatchHolds DEF ExtendedBegin
    <2>2. CASE ExtendedFetch
      BY <2>2, ExtendedFetchHolds
    <2>3. CASE ExtendedEnd
      BY <2>3, BatchHolds DEF ExtendedEnd
    <2>4. CASE ExtendedFail
      BY <2>4, WalkEndHolds DEF ExtendedFail
    <2>5. QED
      BY <1>3, <2>1, <2>2, <2>3, <2>4 DEF ExtendedOp
  <1>4. CASE KeyReset \/ KeyAbort
    BY <1>4, ForgetHolds
  <1>5. CASE UNCHANGED keyVars
    BY <1>5, BatchHolds DEF keyVars
  <1>6. QED
    BY <1>1, <1>2, <1>3, <1>4, <1>5 DEF KeyNext

\* On a table without NULL in its indexed columns: the currency of the handle
\* is the key of one record in the index in use, and walks hold.
THEOREM KeyInvariant == NoNulls => (KeySpec => []KeyInv)
  <1> SUFFICES ASSUME NoNulls PROVE KeySpec => []KeyInv
    OBVIOUS
  <1>1. KeyInit => KeyInv
    BY KeyInitHolds
  <1>2. KeyInv /\ [KeyNext]_keyVars => KeyInv'
    BY KeyStepHolds
  <1>3. QED
    BY <1>1, <1>2, PTL DEF KeySpec

\* A walk by Get Next or Get Previous, single or extended, skips no record that
\* was there when it began and has not been changed (op_get_next, op_get_prev,
\* run_extended), whatever other sessions write.
THEOREM WalksSkipNothing == NoNulls => (KeySpec => []WalkSkipsNothing)
  <1>1. KeyInv => WalkSkipsNothing
    BY DEF KeyInv
  <1>2. QED
    BY <1>1, KeyInvariant, PTL

\* With the flags of its index Get Next returns the record that follows the
\* current one in the order of the index, and Get Previous the one before it.
THEOREM GetsReturnNeighbours == NoNulls => (KeySpec => []NeighboursWhenFlagged)
  <1> SUFFICES ASSUME NoNulls PROVE KeySpec => []NeighboursWhenFlagged
    OBVIOUS
  <1>1. ASSUME KeyInv PROVE NeighboursWhenFlagged
    <2> SUFFICES ASSUME FlagsOfIndex, pos # NoFix, NEW dir \in {1, -1}
                 PROVE  LET idx   == IndexOf(pos.idx)
                            ahead == {q \in Present :
                                Beyond(idx, dir, pos.rec, pos.rn, file[q], q)}
                        IN  Adjacent(dir, Record) =
                                {q \in ahead : \A p \in ahead \ {q} :
                                    Beyond(idx, dir, file[q], q, file[p], p)}
      BY DEF NeighboursWhenFlagged, NeighboursFromPosition
    <2>1. KeyTypeOK /\ CurrencyHolds
      BY <1>1 DEF KeyInv
    <2>2. IndexOf(pos.idx) = ActiveIndex
      BY <2>1, ActiveFacts DEF CurrencyHolds
    <2>3. Selected(dir) = {q \in Present :
              Beyond(ActiveIndex, dir, pos.rec, pos.rn, file[q], q)}
      BY <2>1, SelectedIsAhead
    <2>4. Adjacent(dir, Record) = {r \in Selected(dir) :
               /\ file[r] \in Record
               /\ \A q \in Selected(dir) \ {r} :
                     file[q] \in Record => Beyond(ActiveIndex, dir, file[r], r, file[q], q)}
      BY <2>1, AdjacentIsNearest
    <2>5. \A q \in Selected(dir) : file[q] \in Record
      BY <2>1, PresentFacts DEF Selected
    <2>6. QED
      BY <2>2, <2>3, <2>4, <2>5
  <1>2. QED
    BY <1>1, KeyInvariant, PTL

-----------------------------------------------------------------------------
(***************************************************************************)
(* The searches by key.                                                    *)
(***************************************************************************)
\* Each element of a finite set of positions has a place in its order.
LEMMA NthFacts ==
    ASSUME NEW S \in SUBSET Nat, IsFiniteSet(S), NEW k \in S
    PROVE  LET place == Cardinality({j \in S : j <= k})
           IN  place \in 1..Cardinality(S) /\ Nth(S, place) = k
  <1> DEFINE Upto(m) == {j \in S : j <= m}
             place   == Cardinality(Upto(k))
  <1>0. \A m \in S : m \in Nat
    OBVIOUS
  <1>1. \A m \in S : IsFiniteSet(Upto(m)) /\ Cardinality(Upto(m)) \in Nat
    BY FS_Subset, FS_CardinalityType
  <1>2. ASSUME NEW l \in S, NEW m \in S, l < m
        PROVE  Cardinality(Upto(l)) < Cardinality(Upto(m))
    <2>1. Upto(l) \subseteq Upto(m)
      <3>1. \A j \in S : j <= l => j <= m
        BY <1>0, <1>2
      <3>2. QED
        BY <3>1
    <2>2. m \in Upto(m) /\ m \notin Upto(l)
      BY <1>0, <1>2
    <2>3. QED
      BY <1>1, <2>1, <2>2, FS_Subset
  <1>3. place \in 1..Cardinality(S)
    <2>1. Upto(k) \subseteq S /\ k \in Upto(k)
      BY <1>0
    <2>2. Cardinality(S) \in Nat /\ place <= Cardinality(S)
      BY <2>1, FS_Subset, FS_CardinalityType
    <2>3. place # 0
      BY <1>1, <2>1, FS_EmptySet
    <2>4. QED
      BY <1>1, <2>2, <2>3
  <1>4. \A m \in S : Cardinality(Upto(m)) = place => m = k
    <2> SUFFICES ASSUME NEW m \in S, Cardinality(Upto(m)) = place, m # k PROVE FALSE
      OBVIOUS
    <2>1. m < k \/ k < m
      BY <1>0
    <2>2. Cardinality(Upto(m)) \in Nat /\ place \in Nat
      BY <1>1
    <2>3. CASE m < k
      BY <1>2, <2>2, <2>3
    <2>4. CASE k < m
      BY <1>2, <2>2, <2>4
    <2>5. QED
      BY <2>1, <2>3, <2>4
  <1>5. Nth(S, place) = k
    BY <1>4 DEF Nth
  <1>6. QED
    BY <1>3, <1>5

\* The segments that are kept: finitely many positions.
LEMMA KeptFacts ==
    ASSUME NEW i \in DOMAIN Indexes, NEW key
    PROVE  /\ Kept(Indexes[i], key) \in SUBSET Nat
           /\ IsFiniteSet(Kept(Indexes[i], key))
           /\ Cardinality(Kept(Indexes[i], key)) \in Nat
  <1>1. Len(Indexes[i].segs) \in Nat
    BY IndexFacts
  <1>2. IsFiniteSet(1..Len(Indexes[i].segs))
    BY <1>1, FS_Interval
  <1>3. Kept(Indexes[i], key) \subseteq 1..Len(Indexes[i].segs)
    BY DEF Kept
  <1>4. QED
    BY <1>1, <1>2, <1>3, FS_Subset, FS_CardinalityType

\* Every segment that is kept is a column of the query.
LEMMA KeyColsFacts ==
    ASSUME NEW i \in DOMAIN Indexes, NEW key, NEW k \in Kept(Indexes[i], key)
    PROVE  \E c \in 1..Len(KeyCols(Indexes[i], key)) :
              /\ KeyCols(Indexes[i], key)[c].field = Indexes[i].segs[k]
              /\ KeyCols(Indexes[i], key)[c].val = key[k]
  <1> DEFINE idx  == Indexes[i]
             S    == Kept(idx, key)
             cols == KeyCols(idx, key)
             c    == Cardinality({j \in S : j <= k})
  <1>1. c \in 1..Cardinality(S) /\ Nth(S, c) = k
    BY KeptFacts, NthFacts
  <1>2. cols = [n \in 1..Cardinality(S) |->
                   [field |-> idx.segs[Nth(S, n)], val |-> key[Nth(S, n)]]]
    BY DEF KeyCols
  <1>3. Len(cols) = Cardinality(S)
    BY <1>2, KeptFacts
  <1>4. cols[c].field = idx.segs[k] /\ cols[c].val = key[k]
    BY <1>1, <1>2
  <1>5. QED
    BY <1>1, <1>3, <1>4

\* Get Equal returns a record with the key in the key buffer, in every segment
\* but the wildcards (op_get_equal, build_key_where).
THEOREM EqualIsEqual == KeySpec => []EqualMeansEqual
  <1>1. EqualMeansEqual
    <2> SUFFICES ASSUME NEW i \in DOMAIN Indexes, NEW key \in Keys,
                        Len(key) = Len(Indexes[i].segs), Kept(Indexes[i], key) # {},
                        NEW r \in KeySearch(Indexes[i], key, "="), NEW k \in 1..Len(key)
                 PROVE  \/ file[r][Indexes[i].segs[k]] = key[k]
                        \/ NullWildcard /\ key[k] = Blank
      BY DEF EqualMeansEqual
    <2> DEFINE idx  == Indexes[i]
               cols == KeyCols(idx, key)
    <2>1. CASE k \in Kept(idx, key)
      <3>1. PICK c \in 1..Len(cols) : /\ cols[c].field = idx.segs[k]
                                      /\ cols[c].val = key[k]
        BY <2>1, KeyColsFacts
      <3>2. KeyWhere(cols, "=", file[r])
        BY DEF KeySearch, Top
      <3> HIDE DEF cols
      <3>3. Len(cols) # 0
        <4>1. Len(cols) \in Nat
          <5>1. cols = [n \in 1..Cardinality(Kept(idx, key)) |->
                           LET l == Nth(Kept(idx, key), n)
                           IN  [field |-> idx.segs[l], val |-> key[l]]]
            BY DEF KeyCols, cols
          <5>2. QED
            BY <5>1, KeptFacts
        <4>2. QED
          BY <4>1
      <3>4. SqlEq(file[r][cols[c].field], cols[c].val)
        BY <3>2, <3>3 DEF KeyWhere
      <3>5. QED
        BY <3>1, <3>4 DEF SqlEq
    <2>2. CASE k \notin Kept(idx, key)
      BY <2>2 DEF Kept
    <2>3. QED
      BY <2>1, <2>2
  <1>2. QED
    BY <1>1, PTL

\* Without wildcards the columns of the query are the segments in their order.
LEMMA WholeKeyCols ==
    ASSUME NEW i \in DOMAIN Indexes, NEW key,
           Kept(Indexes[i], key) = 1..Len(Indexes[i].segs)
    PROVE  /\ Len(KeyCols(Indexes[i], key)) = Len(Indexes[i].segs)
           /\ \A k \in 1..Len(Indexes[i].segs) :
                 /\ KeyCols(Indexes[i], key)[k].field = Indexes[i].segs[k]
                 /\ KeyCols(Indexes[i], key)[k].val = key[k]
  <1> DEFINE idx  == Indexes[i]
             N    == Len(idx.segs)
             cols == KeyCols(idx, key)
  <1>1. N \in Nat
    BY IndexFacts
  <1>2. \A k \in 1..N : IsFiniteSet(1..k) /\ Cardinality(1..k) = k
    <2> SUFFICES ASSUME NEW k \in 1..N PROVE IsFiniteSet(1..k) /\ Cardinality(1..k) = k
      OBVIOUS
    <2>1. k \in Int /\ 1 \in Int
      BY <1>1
    <2>2. /\ IsFiniteSet(1..k)
          /\ Cardinality(1..k) = IF 1 > k THEN 0 ELSE k - 1 + 1
      BY <2>1, FS_Interval
    <2>3. QED
      BY <2>2, <1>1
  <1>3. \A k \in 1..N : Nth(1..N, k) = k
    <2> SUFFICES ASSUME NEW k \in 1..N PROVE Nth(1..N, k) = k
      OBVIOUS
    <2>1. 1..N \in SUBSET Nat /\ IsFiniteSet(1..N)
      BY <1>1, KeptFacts
    <2>2. {j \in 1..N : j <= k} = 1..k
      BY <1>1
    <2>3. Nth(1..N, Cardinality({j \in 1..N : j <= k})) = k
      BY <2>1, NthFacts
    <2>4. QED
      BY <1>2, <2>2, <2>3
  <1>4. Cardinality(1..N) = N
    <2>1. CASE N = 0
      BY <2>1, FS_EmptySet
    <2>2. CASE N # 0
      BY <1>1, <1>2, <2>2
    <2>3. QED
      BY <2>1, <2>2
  <1>5. cols = [n \in 1..N |-> [field |-> idx.segs[Nth(1..N, n)], val |-> key[Nth(1..N, n)]]]
    BY <1>4 DEF KeyCols
  <1> HIDE DEF idx, N, cols
  <1>6. Len(cols) = N /\ \A k \in 1..N : cols[k].field = idx.segs[k] /\ cols[k].val = key[k]
    BY <1>1, <1>3, <1>5
  <1>7. QED
    BY <1>6 DEF idx, N, cols

\* A row that has the key comes first among those a search by >= or <= selects:
\* one that exceeds the key in some segment comes after it.
LEMMA EqualComesFirst ==
    ASSUME NoNulls, KeyTypeOK, NEW i \in DOMAIN Indexes, NEW key \in Keys,
           NEW cmp \in {">=", "<="},
           \A k \in 1..Len(Indexes[i].segs) : ~ Flag(Indexes[i].desc, k),
           Len(key) = Len(Indexes[i].segs),
           Kept(Indexes[i], key) = 1..Len(Indexes[i].segs),
           NEW e \in Present,
           \A k \in 1..Len(Indexes[i].segs) : file[e][Indexes[i].segs[k]] = key[k],
           NEW r \in KeySearch(Indexes[i], key, cmp)
    PROVE  \A k \in 1..Len(Indexes[i].segs) : file[r][Indexes[i].segs[k]] = key[k]
  <1> DEFINE idx  == Indexes[i]
             N    == Len(idx.segs)
             cols == KeyCols(idx, key)
             refs == IndexColRefs(idx)
             dir  == CmpDir[cmp]
             E(k) == file[e][idx.segs[k]]
             R(k) == file[r][idx.segs[k]]
  <1>1. N \in Nat \ {0} /\ \A k \in 1..N : idx.segs[k] \in Fields
    BY IndexFacts
  <1>2. r \in Present /\ KeyWhere(cols, cmp, file[r])
    BY DEF KeySearch, Top
  <1>3. \A k \in 1..N : R(k) \in Nat /\ E(k) \in Nat /\ key[k] \in Nat /\ E(k) = key[k]
    <2>1. file[r] \in Record /\ file[e] \in Record
      BY <1>2, PresentFacts
    <2>2. \A k \in 1..N : R(k) \in Nat /\ E(k) \in Nat
      BY <1>1, <2>1, RecordAssumption DEF NoNulls
    <2>3. QED
      BY <2>2
  <1>4. Len(cols) = N /\ \A k \in 1..N : cols[k].field = idx.segs[k] /\ cols[k].val = key[k]
    BY WholeKeyCols
  <1>5. Len(refs) = N /\ \A k \in 1..N : refs[k].field = idx.segs[k] /\ refs[k].desc = FALSE
    <2>1. refs = [k \in 1..N |-> [field |-> idx.segs[k], desc |-> Flag(idx.desc, k)]]
      BY DEF IndexColRefs
    <2>2. \A k \in 1..N : Flag(idx.desc, k) \in BOOLEAN
      BY <1>1, IndexFacts DEF Flag
    <2>3. \A k \in 1..N : Flag(idx.desc, k) = FALSE
      BY <2>2
    <2>4. QED
      BY <1>1, <2>1, <2>3
  <1>6. dir = IF cmp = ">=" THEN 1 ELSE -1
    BY DEF CmpDir
  <1>7. KeyWhere(cols, cmp, file[e])
    <2>1. \A k \in 1..N : SqlEq(file[e][cols[k].field], cols[k].val)
      BY <1>3, <1>4 DEF SqlEq, Null
    <2>2. SqlCompare(cmp, file[e][cols[N].field], cols[N].val)
      <3>1. N \in 1..N
        BY <1>1
      <3>2. SqlEq(file[e][cols[N].field], cols[N].val)
        BY <2>1, <3>1
      <3>3. QED
        BY <3>2 DEF SqlCompare
    <2>3. N \in 1..N /\ \A k \in 1 .. N-1 : k \in 1..N
      BY <1>1
    <2> HIDE DEF N, cols
    <2>4. QED
      BY <1>4, <2>1, <2>2, <2>3 DEF KeyWhere
  <1>8. ~ OrderBefore(refs, dir, FALSE, file[e], e, file[r], r)
    BY <1>7 DEF KeySearch, Top
  <1>9. \A m \in 1..N : \A k \in 1 .. m-1 : k \in 1..N
    BY <1>1
  <1>10. ASSUME NEW m \in 1..N, \A k \in 1 .. m-1 : R(k) = key[k],
                IF cmp = ">=" THEN key[m] < R(m) ELSE R(m) < key[m]
         PROVE  FALSE
    <2>1. \A k \in 1 .. m-1 : file[e][refs[k].field] = file[r][refs[k].field]
      BY <1>3, <1>5, <1>9, <1>10
    <2>2. IF (dir = 1) # refs[m].desc
          THEN file[e][refs[m].field] < file[r][refs[m].field]
          ELSE file[e][refs[m].field] > file[r][refs[m].field]
      <3>1. (dir = 1) <=> (cmp = ">=")
        BY <1>6
      <3>2. refs[m].field = idx.segs[m] /\ refs[m].desc = FALSE
        BY <1>5
      <3>3. E(m) = key[m] /\ E(m) \in Nat /\ R(m) \in Nat
        BY <1>3
      <3> HIDE DEF dir, refs, idx
      <3>4. QED
        BY <1>10, <3>1, <3>2, <3>3
    <2> HIDE DEF refs, dir
    <2>3. QED
      BY <1>5, <1>8, <2>1, <2>2 DEF OrderBefore
  <1>11. PICK m \in 1..N :
            /\ \A k \in 1 .. m-1 : SqlEq(file[r][cols[k].field], cols[k].val)
            /\ SqlCompare(IF m = N THEN cmp ELSE Strict(cmp),
                          file[r][cols[m].field], cols[m].val)
    <2> HIDE DEF cols
    <2>1. QED
      BY <1>1, <1>2, <1>4 DEF KeyWhere
  <1>12. \A k \in 1 .. m-1 : R(k) = key[k]
    BY <1>4, <1>9, <1>11 DEF SqlEq
  <1>13. /\ SqlCompare(IF m = N THEN cmp ELSE Strict(cmp), R(m), key[m])
         /\ R(m) \in Nat /\ key[m] \in Nat
    BY <1>3, <1>4, <1>11
  <1>14. m = N /\ R(m) = key[m]
    <2>1. ~ (IF cmp = ">=" THEN key[m] < R(m) ELSE R(m) < key[m])
      BY <1>10, <1>12
    <2> DEFINE x == R(m)
               y == key[m]
    <2>2. /\ SqlCompare(IF m = N THEN cmp ELSE Strict(cmp), x, y)
          /\ x \in Nat /\ y \in Nat
          /\ ~ (IF cmp = ">=" THEN y < x ELSE x < y)
      BY <1>13, <2>1
    <2> HIDE DEF x, y
    <2>3. /\ SqlCompare(">", x, y) => y < x
          /\ SqlCompare("<", x, y) => x < y
          /\ SqlCompare(">=", x, y) => y < x \/ x = y
          /\ SqlCompare("<=", x, y) => x < y \/ x = y
      BY DEF SqlCompare, SqlLess, SqlEq
    <2>4. CASE m = N
      <3>1. SqlCompare(cmp, x, y)
        BY <2>2, <2>4
      <3>2. x = y
        <4>1. CASE cmp = ">="
          BY <3>1, <4>1, <2>2, <2>3
        <4>2. CASE cmp = "<="
          BY <3>1, <4>2, <2>2, <2>3
        <4>3. QED
          BY <4>1, <4>2
      <3>3. QED
        BY <3>2, <2>4 DEF x, y
    <2>5. CASE m # N
      <3>1. SqlCompare(Strict(cmp), x, y)
        BY <2>2, <2>5
      <3>2. Strict(cmp) = IF cmp = ">=" THEN ">" ELSE "<"
        BY DEF Strict
      <3>3. QED
        BY <3>1, <3>2, <2>2, <2>3
    <2>6. QED
      BY <2>4, <2>5 DEF x, y
  <1>15. \A k \in 1..N : k = N \/ k \in 1 .. N-1
    BY <1>1
  <1>16. QED
    BY <1>12, <1>14, <1>15

\* Get Greater or Equal and Get Less or Equal return an equal key where there is
\* one, on an index without a descending segment and with a key buffer without
\* wildcards (op_get_greater_or_equal, op_get_less_or_equal).
THEOREM EqualIsFirst == NoNulls => (KeySpec => []EqualFirstWhenAscending)
  <1> SUFFICES ASSUME NoNulls PROVE KeySpec => []EqualFirstWhenAscending
    OBVIOUS
  <1>1. ASSUME KeyInv PROVE EqualFirstWhenAscending
    <2> SUFFICES ASSUME NEW i \in DOMAIN Indexes,
                        \A k \in 1..Len(Indexes[i].segs) : ~ Flag(Indexes[i].desc, k),
                        NEW key \in Keys, NEW cmp \in {">=", "<="},
                        Len(key) = Len(Indexes[i].segs),
                        Kept(Indexes[i], key) = 1..Len(key),
                        NEW e \in Present, ExtractKeyVals(Indexes[i], file[e]) = key,
                        NEW r \in KeySearch(Indexes[i], key, cmp)
                 PROVE  ExtractKeyVals(Indexes[i], file[r]) = key
      BY DEF EqualFirstWhenAscending, EqualFirst
    <2> DEFINE idx == Indexes[i]
               N   == Len(idx.segs)
    <2>1. KeyTypeOK
      BY <1>1 DEF KeyInv
    <2>2. N \in Nat /\ \A k \in 1..N : idx.segs[k] \in Fields
      BY IndexFacts
    <2>3. r \in Present
      BY DEF KeySearch, Top
    <2>4. \A k \in 1..N : file[e][idx.segs[k]] # Null /\ file[r][idx.segs[k]] # Null
      BY <2>1, <2>2, <2>3, PresentFacts DEF NoNulls
    <2>5. \A k \in 1..N : file[e][idx.segs[k]] = key[k]
      BY <2>2, <2>4 DEF ExtractKeyVals
    <2>6. \A k \in 1..N : file[r][idx.segs[k]] = key[k]
      BY <2>1, <2>5, EqualComesFirst
    <2>7. key = [k \in 1..N |-> key[k]]
      BY DEF ExtractKeyVals
    <2>8. ExtractKeyVals(idx, file[r]) = [k \in 1..N |-> key[k]]
      BY <2>4, <2>6 DEF ExtractKeyVals
    <2>9. QED
      BY <2>7, <2>8
  <1>2. QED
    BY <1>1, KeyInvariant, PTL
=============================================================================
