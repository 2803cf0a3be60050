------------------------------ MODULE KeyOrder ------------------------------
(***************************************************************************)
(* The WHERE and ORDER BY clauses that ops/sql_helpers.rs builds for key-  *)
(* ordered navigation, as predicates and orders on records.                *)
(*                                                                         *)
(* A record is a function from field numbers to values; the values of one  *)
(* field are ordered, so they are integers here.  An index is              *)
(* [num, segs, desc]: its number, the field of each segment, and for each  *)
(* segment whether it is descending.  desc may be shorter than segs.       *)
(***************************************************************************)
EXTENDS Integers, Sequences

Null  == -1     \* SQL NULL: sorts before every value, compares with none
Blank == 0      \* what a NULL is read back as, and the least value

\* Flag k of a list of flags, false beyond its end.
Flag(flags, k) == k \in 1..Len(flags) /\ flags[k]

\* index_col_refs: the segments as [field, desc].
IndexColRefs(idx) ==
    [k \in 1..Len(idx.segs) |-> [field |-> idx.segs[k], desc |-> Flag(idx.desc, k)]]

\* extract_key_vals with col_to_sql_param: what a handle remembers of a row.
ExtractKeyVals(idx, rec) ==
    [k \in 1..Len(idx.segs) |-> IF rec[idx.segs[k]] = Null THEN Blank
                                                           ELSE rec[idx.segs[k]]]

-----------------------------------------------------------------------------
\* The comparisons of SQL: not true of NULL.
SqlEq(a, b)   == a = b /\ a # Null
SqlLess(a, b) == a < b /\ a # Null /\ b # Null

SqlCompare(cmp, a, b) ==
    CASE cmp = "="  -> SqlEq(a, b)
      [] cmp = ">"  -> SqlLess(b, a)
      [] cmp = "<"  -> SqlLess(a, b)
      [] cmp = ">=" -> SqlLess(b, a) \/ SqlEq(a, b)
      [] cmp = "<=" -> SqlLess(a, b) \/ SqlEq(a, b)

Strict(cmp) == IF cmp \in {">", ">="} THEN ">" ELSE "<"

\* Mutants: the last segment is not compared; it is compared without equality.
KeyWherePrefix(keyCols, cmp, rec) ==
    \A k \in 1 .. Len(keyCols) - 1 : SqlEq(rec[keyCols[k].field], keyCols[k].val)

KeyWhereStrict(keyCols, cmp, rec) ==
    \E i \in 1..Len(keyCols) :
        /\ \A k \in 1 .. i-1 : SqlEq(rec[keyCols[k].field], keyCols[k].val)
        /\ SqlCompare(Strict(cmp), rec[keyCols[i].field], keyCols[i].val)

\* build_key_where: keyCols is a sequence of [field, val].
KeyWhere(keyCols, cmp, rec) ==
    LET n == Len(keyCols)
        Equal(k) == SqlEq(rec[keyCols[k].field], keyCols[k].val)
    IN  \/ n = 0
        \/ cmp = "=" /\ \A k \in 1..n : Equal(k)
        \/ /\ cmp # "="
           /\ \E i \in 1..n :
                 /\ \A k \in 1 .. i-1 : Equal(k)
                 /\ SqlCompare(IF i = n THEN cmp ELSE Strict(cmp),
                               rec[keyCols[i].field], keyCols[i].val)

\* Forward, an ascending segment grows and a descending one shrinks.
SegCmp(dir, desc) == IF (dir = 1) # desc THEN ">" ELSE "<"

\* Mutant: an OR over the segments that forgets the equality of those before.
ContinuationFlat(keyCols, dir, lastRn, rec, rn) ==
    \/ \E i \in 1..Len(keyCols) :
          SqlCompare(SegCmp(dir, keyCols[i].desc), rec[keyCols[i].field], keyCols[i].val)
    \/ /\ \A k \in 1..Len(keyCols) : SqlEq(rec[keyCols[k].field], keyCols[k].val)
       /\ IF dir = 1 THEN rn > lastRn ELSE rn < lastRn

\* build_continuation_where_marker, for the row numbered rn with record rec:
\* keyCols is a sequence of [field, val, desc], lastRn the current row.
ContinuationWhere(keyCols, dir, lastRn, rec, rn) ==
    LET n == Len(keyCols)
        Equal(k) == SqlEq(rec[keyCols[k].field], keyCols[k].val)
    IN  \/ \E i \in 1..n :
              /\ \A k \in 1 .. i-1 : Equal(k)
              /\ SqlCompare(SegCmp(dir, keyCols[i].desc),
                            rec[keyCols[i].field], keyCols[i].val)
        \/ /\ \A k \in 1..n : Equal(k)
           /\ IF dir = 1 THEN rn > lastRn ELSE rn < lastRn

\* build_order_by_cols: does the row (a, an) come before the row (b, bn)?
OrderBefore(colRefs, dir, tieBreak, a, an, b, bn) ==
    LET n == Len(colRefs)
        Same(k) == a[colRefs[k].field] = b[colRefs[k].field]
    IN  \/ \E i \in 1..n :
              /\ \A k \in 1 .. i-1 : Same(k)
              /\ IF (dir = 1) # colRefs[i].desc
                 THEN a[colRefs[i].field] < b[colRefs[i].field]
                 ELSE a[colRefs[i].field] > b[colRefs[i].field]
        \/ /\ n = 0 \/ tieBreak
           /\ \A k \in 1..n : Same(k)
           /\ IF dir = 1 THEN an < bn ELSE an > bn

-----------------------------------------------------------------------------
(***************************************************************************)
(* The order of an index, for reference: the first segment that differs    *)
(* decides, and records with equal keys are in the order of insertion.     *)
(***************************************************************************)
Differ(idx, a, b) == {k \in 1..Len(idx.segs) : a[idx.segs[k]] # b[idx.segs[k]]}

Least(S) == CHOOSE k \in S : \A j \in S : k <= j

IndexLess(idx, a, an, b, bn) ==
    LET d == Differ(idx, a, b)
        k == Least(d)
        x == a[idx.segs[k]]
        y == b[idx.segs[k]]
    IN  IF d = {} THEN an < bn ELSE IF Flag(idx.desc, k) THEN x > y ELSE x < y

\* (b, bn) lies beyond (a, an) for a walk in direction dir.
Beyond(idx, dir, a, an, b, bn) ==
    IF dir = 1 THEN IndexLess(idx, a, an, b, bn) ELSE IndexLess(idx, b, bn, a, an)

SameKey(idx, a, b) == Differ(idx, a, b) = {}
=============================================================================
