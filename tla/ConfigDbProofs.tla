-------------------------- MODULE ConfigDbProofs --------------------------
(***************************************************************************)
(* Proofs about ConfigDb, for any processes, files, batches and tables:    *)
(* what an import leaves in a table nobody else works on, and that what    *)
(* has been migrated is remembered.                                        *)
(***************************************************************************)
EXTENDS ConfigDb, FiniteSetTheorems, SequenceTheorems, WellFoundedInduction, TLAPS

FieldNumbers == Numbers \cup UNION {DOMAIN f.fields : f \in Files}
IndexNumbers == Numbers \cup UNION {DOMAIN f.indexes : f \in Files}
FieldDefs    == Definitions \cup UNION {Range(f.fields) : f \in Files}
SegmentsOf(lists) == UNION {Range(list) : list \in lists}
Segments     == SegmentsOf(SegmentLists) \cup UNION {SegmentsOf(Range(f.indexes)) : f \in Files}

Statements ==
    UNION {[do : {"find", "clearFields", "clearIndexes", "dropTables", "upgrade", "mark", "unmark"}],
           [do : {"upsert"}, file : Files],
           [do : {"field", "putField"}, num : FieldNumbers, def : FieldDefs],
           [do : {"dropField"}, num : FieldNumbers \cup IndexNumbers],
           [do : {"index", "clearIndex", "dropIndex"}, num : IndexNumbers],
           [do : {"segment"}, def : Segments],
           [do : {"setDatabase"}, db : Databases],
           [do : {"set"}, of : Settings, value : Values]}

JobType == [todo : Seq(Statements), aim : SUBSET Key, file : Files \cup {None},
            id : 0..MaxId, ix : 0..MaxId, alone : BOOLEAN, stale : BOOLEAN]

DatabaseTypeOK ==
    /\ tables \in [Id -> TableRow \cup {None}]
    /\ fields \in [Id -> {fields[i] : i \in Id}]
    /\ indexes \in [Id -> IndexRow \cup {None}]
    /\ segs \in [Id -> Seq(Segments)]

ConfigTypeOK ==
    /\ DatabaseTypeOK
    /\ job \in [Proc -> JobType]
    /\ trusted \in [Key -> Files \cup {None}]

\* UNIQUE(table_name, db_name, source_dir).
KeysAreUnique ==
    \A i, j \in Id : tables[i] # None /\ tables[j] # None /\ tables[i].key = tables[j].key => i = j

NoStraySegments == \A i \in Id : indexes[i] = None => segs[i] = <<>>

\* What is left to do of the file f: so many of the three statements after the
\* row, some fields, segments and indexes, and the files that follow.
Opening(left) ==
    CASE left = 3 -> <<Do("find"), Do("clearFields"), Do("clearIndexes")>>
      [] left = 2 -> <<Do("clearFields"), Do("clearIndexes")>>
      [] left = 1 -> <<Do("clearIndexes")>>
      [] OTHER    -> <<>>

Remaining(f, left, fs, ss, xs, us) ==
    Opening(left) \o (FieldStatements(f, fs)
        \o (SegmentStatements(ss) \o (IndexesStatements(f, xs) \o Importing(us))))

\* The indexes of table t are those of f but for xs, the last of them but for ss.
IndexesStored(t, f, ix, ss, xs) ==
    /\ \A i, j \in IndexesOf(t) : indexes[i].number = indexes[j].number => i = j
    /\ {indexes[i].number : i \in IndexesOf(t)} = DOMAIN f.indexes \ Range(xs)
    /\ \A i \in IndexesOf(t) :
           f.indexes[indexes[i].number] = IF i = ix THEN segs[i] \o ss ELSE segs[i]
    /\ ss # <<>> => ix \in IndexesOf(t)

Without(g, nums) == [n \in DOMAIN g \ Range(nums) |-> g[n]]

\* The table t is the file of the job j but for what is left to do.
StoredIn(t, j, left, fs, ss, xs) ==
    /\ tables[t] # None /\ tables[t].key = j.file.key
    /\ tables[t].header = j.file.header
    /\ tables[t].schema \in {j.file.schema, ""}
    /\ left < 3 => j.id = t
    /\ left < 2 => fields[t] = Without(j.file.fields, fs)
    /\ left = 0 => IndexesStored(t, j.file, j.ix, ss, xs)

Numbering(nums, D) == nums \in Seq(D) /\ IsInjective(nums)

\* A job that imports has this left to do,
Plan(j, left, fs, ss, xs, us) ==
    /\ j.todo = Remaining(j.file, left, fs, ss, xs, us)
    /\ left > 0 \/ fs # <<>> => ss = <<>>
    /\ j.file = None => left = 0 /\ fs = <<>> /\ ss = <<>> /\ xs = <<>>
    /\ j.file # None =>
          /\ j.aim = {j.file.key}
          /\ Numbering(fs, DOMAIN j.file.fields) /\ Numbering(xs, DOMAIN j.file.indexes)
          /\ left > 0 => Range(fs) = DOMAIN j.file.fields /\ Range(xs) = DOMAIN j.file.indexes

\* and while it is alone it has done the rest.
Planned(j, left, fs, ss, xs, us) ==
    /\ Plan(j, left, fs, ss, xs, us)
    /\ j.alone => j.file # None /\ \E t \in Id : StoredIn(t, j, left, fs, ss, xs)

Imports(j) ==
    \E left \in 0..3, fs \in Seq(FieldNumbers), ss \in Seq(Segments),
       xs \in Seq(IndexNumbers), us \in Seq(Files) : Planned(j, left, fs, ss, xs, us)

\* A job of any other command.
Follows ==
    {<<"find", "putField">>, <<"find", "dropField">>, <<"find", "dropIndex">>,
     <<"find", "clearIndex">>, <<"clearIndex", "index">>, <<"index", "segment">>,
     <<"segment", "segment">>, <<"upgrade", "mark">>, <<"upgrade", "unmark">>, <<"set", "set">>}

Edits(j) ==
    /\ j.file = None /\ ~j.alone
    /\ j.aim \in {Called(name) : name \in Names} \cup {{}}
    /\ \A k \in DOMAIN j.todo :
           j.todo[k].do \notin {"upsert", "clearFields", "clearIndexes", "field"}
    /\ \A k \in 2..Len(j.todo) : <<j.todo[k-1].do, j.todo[k].do>> \in Follows

\* Statements about the table that was found.
OfTable == {"clearFields", "clearIndexes", "field", "putField", "dropField",
            "index", "clearIndex", "dropIndex", "segment"}

\* Until the ids may stand for something else, they are those of a table the
\* job is about and of an index of it.
IdsHold(j) ==
    j.todo # <<>> =>
        /\ Head(j.todo).do \in OfTable =>
               /\ j.id \in Id
               /\ ~j.stale => tables[j.id] # None /\ tables[j.id].key \in j.aim
        /\ Head(j.todo).do = "segment" =>
               /\ j.ix \in Id
               /\ ~j.stale => indexes[j.ix] # None /\ indexes[j.ix].table = j.id

JobHolds(j) == (Imports(j) \/ Edits(j)) /\ IdsHold(j)

IsTheFile(k) ==
    \E t \in Rows({k}) :
        /\ tables[t].header = trusted[k].header
        /\ tables[t].schema \in {trusted[k].schema, ""}
        /\ fields[t] = trusted[k].fields
        /\ IndexesStored(t, trusted[k], 0, <<>>, <<>>)

ConfigInv ==
    /\ ConfigTypeOK
    /\ KeysAreUnique
    /\ NoStraySegments
    /\ \A p \in Proc : JobHolds(job[p])
    /\ \A k \in Key : trusted[k] # None => IsTheFile(k)

-----------------------------------------------------------------------------
(***************************************************************************)
(* Least and greatest elements, and sequences.                             *)
(***************************************************************************)
\* A set of natural numbers has a least element.
LEMMA LeastExists ==
    ASSUME NEW T \in SUBSET Nat, T # {}
    PROVE  \E n \in T : \A m \in T : n <= m
  <1>1. PICK n \in T : \A m \in T : ~ (<<m, n>> \in OpToRel(<, Nat))
    BY NatLessThanWellFounded, WFMin
  <1>2. \A m \in T : ~ (m < n)
    BY <1>1 DEF OpToRel
  <1>3. QED
    BY <1>2

\* A finite set of natural numbers has a greatest element: the one with the
\* fewest above it.
LEMMA GreatestExists ==
    ASSUME NEW T \in SUBSET Nat, T # {}, IsFiniteSet(T)
    PROVE  \E n \in T : \A m \in T : m <= n
  <1> DEFINE Above(n) == {m \in T : n < m}
  <1>1. \A n \in T : IsFiniteSet(Above(n)) /\ Cardinality(Above(n)) \in Nat
    BY FS_Subset, FS_CardinalityType
  <1>2. PICK c \in {Cardinality(Above(n)) : n \in T} :
            \A d \in {Cardinality(Above(n)) : n \in T} : c <= d
    <2>1. {Cardinality(Above(n)) : n \in T} \in SUBSET Nat
      BY <1>1
    <2>2. {Cardinality(Above(n)) : n \in T} # {}
      OBVIOUS
    <2>3. QED
      BY <2>1, <2>2, LeastExists
  <1>3. PICK n \in T : c = Cardinality(Above(n))
    BY <1>2
  <1>4. ASSUME NEW m \in T, n < m PROVE FALSE
    <2>1. Above(m) \in SUBSET Above(n)
      <3>1. n \in Nat /\ m \in Nat /\ \A k \in T : k \in Nat
        BY <1>3, <1>4
      <3>2. \A k \in T : m < k => n < k
        BY <1>4, <3>1
      <3>3. QED
        BY <3>2
    <2>2. m \in Above(n) /\ m \notin Above(m)
      BY <1>4
    <2>3. Cardinality(Above(m)) < Cardinality(Above(n))
      BY <1>1, <2>1, <2>2, FS_Subset
    <2>4. c <= Cardinality(Above(m))
      BY <1>2, <1>4
    <2>5. QED
      BY <1>1, <1>3, <1>4, <2>3, <2>4
  <1>5. QED
    <2>1. \A k \in T : k \in Nat
      OBVIOUS
    <2>2. QED
      BY <1>3, <1>4, <2>1

\* The recursive function a concatenation is defined by exists.
LEMMA FlattenDef ==
    ASSUME NEW S, NEW seqs \in Seq(Seq(S)), seqs # <<>>
    PROVE  \E f : /\ f = [i \in 1..Len(seqs) |-> IF i = 1 THEN seqs[i] ELSE f[i-1] \o seqs[i]]
                  /\ FlattenSeq(seqs) = f[Len(seqs)]
  <1> DEFINE Good(n, f) == f = [i \in 1..n |-> IF i = 1 THEN seqs[i] ELSE f[i-1] \o seqs[i]]
             Bad == {n \in Nat : ~ \E f : Good(n, f)}
  <1>1. Bad = {}
    <2> SUFFICES ASSUME Bad # {} PROVE FALSE
      OBVIOUS
    <2>1. PICK n \in Bad : \A m \in Bad : n <= m
      BY LeastExists
    <2>2. n # 0
      <3>1. Good(0, [i \in {} |-> 0])
        OBVIOUS
      <3>2. QED
        BY <3>1, <2>1
    <2>3. n - 1 \in Nat /\ n - 1 \notin Bad
      <3>1. n \in Nat
        OBVIOUS
      <3>2. n - 1 \in Nat /\ ~ (n <= n - 1)
        BY <2>2, <3>1
      <3>3. QED
        BY <2>1, <3>2
    <2>4. PICK g : Good(n - 1, g)
      BY <2>3
    <2> DEFINE f == [i \in 1..n |-> IF i = 1 THEN seqs[i] ELSE g[i-1] \o seqs[i]]
    <2>5. \A i \in 1 .. n-1 : f[i] = g[i]
      <3>1. \A i \in 1 .. n-1 : i \in 1..n
        BY <2>3
      <3>2. \A i \in 1 .. n-1 : g[i] = IF i = 1 THEN seqs[i] ELSE g[i-1] \o seqs[i]
        BY <2>4
      <3>3. QED
        BY <3>1, <3>2
    <2>6. Good(n, f)
      <3>1. \A i \in 1..n : i = 1 \/ i-1 \in 1 .. n-1
        BY <2>3
      <3>2. QED
        BY <3>1, <2>5
    <2>7. QED
      BY <2>6, <2>1
  <1> DEFINE flatten == CHOOSE f : Good(Len(seqs), f)
  <1>2. Good(Len(seqs), flatten)
    <2>1. Len(seqs) \in Nat
      OBVIOUS
    <2>2. \E f : Good(Len(seqs), f)
      BY <2>1, <1>1
    <2>3. QED
      BY <2>2
  <1>3. FlattenSeq(seqs) = flatten[Len(seqs)]
    <2>1. Len(seqs) # 0
      OBVIOUS
    <2>2. QED
      BY <2>1 DEF FlattenSeq
  <1>4. QED
    BY <1>2, <1>3

\* A concatenation is a sequence.
LEMMA FlattenIsSeq ==
    ASSUME NEW S, NEW seqs \in Seq(Seq(S))
    PROVE  FlattenSeq(seqs) \in Seq(S)
  <1>1. CASE seqs = <<>>
    BY <1>1 DEF FlattenSeq
  <1>2. CASE seqs # <<>>
    <2> DEFINE n == Len(seqs)
    <2>1. PICK f : /\ f = [i \in 1..n |-> IF i = 1 THEN seqs[i] ELSE f[i-1] \o seqs[i]]
                   /\ FlattenSeq(seqs) = f[n]
      BY <1>2, FlattenDef
    <2>2. n \in Nat \ {0}
      BY <1>2
    <2> HIDE DEF n
    <2> DEFINE T == {i \in 1..n : f[i] \notin Seq(S)}
    <2>3. T = {}
      <3> SUFFICES ASSUME T # {} PROVE FALSE
        OBVIOUS
      <3>1. T \in SUBSET Nat
        BY <2>2
      <3>2. PICK i \in T : \A j \in T : i <= j
        BY <3>1, LeastExists
      <3>3. i \in 1..n /\ seqs[i] \in Seq(S)
        BY DEF n
      <3>4. f[i] = IF i = 1 THEN seqs[i] ELSE f[i-1] \o seqs[i]
        BY <2>1, <3>3
      <3>5. i # 1 => f[i-1] \in Seq(S)
        <4>1. i # 1 => i-1 \in 1..n /\ ~ (i <= i-1)
          BY <2>2, <3>3
        <4>2. QED
          BY <4>1, <3>2
      <3>6. f[i] \in Seq(S)
        BY <3>3, <3>4, <3>5
      <3>7. QED
        BY <3>6
    <2>4. n \in 1..n
      BY <2>2
    <2>5. QED
      BY <2>1, <2>3, <2>4
  <1>3. QED
    BY <1>1, <1>2

\* Concatenation is associative.
LEMMA Associative ==
    ASSUME NEW S, NEW x \in Seq(S), NEW y \in Seq(S), NEW z \in Seq(S)
    PROVE  (x \o y) \o z = x \o (y \o z)
  BY ConcatAssociative

\* It begins with the first sequence and goes on with the others'.
LEMMA FlattenHead ==
    ASSUME NEW S, NEW seqs \in Seq(Seq(S)), seqs # <<>>
    PROVE  FlattenSeq(seqs) = Head(seqs) \o FlattenSeq(Tail(seqs))
  <1>0. \A x, y, z \in Seq(S) : (x \o y) \o z = x \o (y \o z)
    BY Associative
  <1> DEFINE n == Len(seqs)
             rest == Tail(seqs)
  <1>1. n \in Nat \ {0} /\ rest \in Seq(Seq(S)) /\ Len(rest) = n - 1
    OBVIOUS
  <1>2. \A i \in 1..n-1 : rest[i] = seqs[i+1]
    OBVIOUS
  <1>3. PICK f : /\ f = [i \in 1..n |-> IF i = 1 THEN seqs[i] ELSE f[i-1] \o seqs[i]]
                 /\ FlattenSeq(seqs) = f[n]
    BY FlattenDef
  <1>4. seqs[1] \in Seq(S) /\ Head(seqs) = seqs[1] /\ \A i \in 1..n : seqs[i] \in Seq(S)
    OBVIOUS
  <1>5. CASE n = 1
    <2>1. rest = <<>>
      <3>1. Len(rest) = 0
        BY <1>1, <1>5
      <3> HIDE DEF rest
      <3>2. QED
        BY <1>1, <3>1, EmptySeq
    <2>2. FlattenSeq(rest) = <<>>
      BY <2>1 DEF FlattenSeq
    <2>3. f[1] = seqs[1]
      BY <1>3, <1>1, <1>5
    <2>4. QED
      BY <1>3, <1>4, <1>5, <2>2, <2>3
  <1>6. CASE n # 1
    <2>1. rest # <<>>
      <3>1. Len(rest) # 0
        BY <1>1, <1>6
      <3> HIDE DEF rest
      <3>2. QED
        BY <3>1
    <2>2. PICK g : /\ g = [i \in 1..Len(rest) |-> IF i = 1 THEN rest[i] ELSE g[i-1] \o rest[i]]
                   /\ FlattenSeq(rest) = g[Len(rest)]
      BY <1>1, <2>1, FlattenDef
    <2> HIDE DEF n, rest
    <2> DEFINE T == {i \in 1..n-1 : ~ (g[i] \in Seq(S) /\ f[i+1] = seqs[1] \o g[i])}
    <2>3. T = {}
      <3> SUFFICES ASSUME T # {} PROVE FALSE
        OBVIOUS
      <3>1. T \in SUBSET Nat
        <4>1. \A i \in 1..n-1 : i \in Nat
          BY <1>1
        <4>2. QED
          BY <4>1
      <3>2. PICK i \in T : \A j \in T : i <= j
        BY <3>1, LeastExists
      <3>3. i \in 1..n-1 /\ i + 1 \in 1..n /\ i + 1 # 1 /\ (i + 1) - 1 = i /\ 1 \in 1..n
        BY <1>1
      <3>4. rest[i] = seqs[i+1] /\ rest[i] \in Seq(S)
        BY <3>3, <1>2, <1>4
      <3>5. f[i+1] = f[i] \o seqs[i+1] /\ f[1] = seqs[1]
        BY <3>3, <1>3
      <3>6. g[i] = IF i = 1 THEN rest[i] ELSE g[i-1] \o rest[i]
        BY <3>3, <2>2, <1>1
      <3>7. CASE i = 1
        BY <3>4, <3>5, <3>6, <3>7
      <3>8. CASE i # 1
        <4>1. i-1 \in 1..n-1 /\ ~ (i <= i-1) /\ (i-1)+1 = i
          BY <3>3, <3>8, <1>1
        <4>2. g[i-1] \in Seq(S) /\ f[i] = seqs[1] \o g[i-1]
          BY <4>1, <3>2
        <4>3. (seqs[1] \o g[i-1]) \o rest[i] = seqs[1] \o (g[i-1] \o rest[i])
          BY <1>0, <1>4, <3>4, <4>2
        <4>4. g[i] \in Seq(S)
          BY <3>4, <3>6, <3>8, <4>2
        <4>5. QED
          BY <3>4, <3>5, <3>6, <3>8, <4>2, <4>3, <4>4
      <3>9. QED
        BY <3>7, <3>8
    <2>4. n - 1 \in 1..n-1 /\ (n - 1) + 1 = n
      BY <1>1, <1>6
    <2>5. f[n] = seqs[1] \o g[n-1]
      BY <2>3, <2>4
    <2>6. QED
      BY <1>1, <1>3, <1>4, <2>2, <2>5 DEF n, rest
  <1>7. QED
    BY <1>5, <1>6

\* The members of a finite set, each once.
LEMMA SetToSeqFacts ==
    ASSUME NEW S, IsFiniteSet(S)
    PROVE  SetToSeq(S) \in Seq(S) /\ IsInjective(SetToSeq(S)) /\ Range(SetToSeq(S)) = S
  <1> DEFINE n == Cardinality(S)
  <1>1. n \in Nat
    BY FS_CardinalityType
  <1>2. \E f \in [1..n -> S] : IsInjective(f) /\ Range(f) = S
    <2>1. ExistsBijection(1..n, S)
      BY FS_CardinalityType
    <2>2. PICK f \in Bijection(1..n, S) : TRUE
      BY <2>1 DEF ExistsBijection
    <2>3. f \in [1..n -> S] /\ IsInjective(f) /\ f \in Surjection(1..n, S)
      BY <2>2 DEF Bijection, Injection
    <2>4. \A x \in S : \E k \in 1..n : f[k] = x
      BY <2>3 DEF Surjection
    <2>5. Range(f) = S
      BY <2>3, <2>4 DEF Range
    <2>6. QED
      BY <2>3, <2>5
  <1>3. SetToSeq(S) \in [1..n -> S] /\ IsInjective(SetToSeq(S))
    BY <1>2 DEF SetToSeq
  <1> HIDE DEF n
  <1>4. Range(SetToSeq(S)) = S
    <2> DEFINE f == SetToSeq(S)
               R == Range(f)
    <2>1. R \subseteq S
      BY <1>3 DEF Range
    <2>2. f \in Bijection(1..n, R)
      BY <1>3 DEF Bijection, Injection, Surjection, IsInjective, Range
    <2>3. IsFiniteSet(R) /\ Cardinality(R) = n
      <3>1. ExistsBijection(1..n, R)
        BY <2>2 DEF ExistsBijection
      <3>2. QED
        BY <1>1, <3>1, FS_NatBijection, FS_CountingElements
    <2>4. QED
      BY <2>1, <2>3, FS_Subset DEF n
  <1>5. QED
    BY <1>1, <1>3, <1>4

\* A function on 1..n is a sequence of length n.
LEMMA TupleIsSeq ==
    ASSUME NEW S, NEW n \in Nat, NEW a \in [1..n -> S]
    PROVE  a \in Seq(S) /\ Len(a) = n
  OBVIOUS

\* A sequence of one and another.
LEMMA OneAndRest ==
    ASSUME NEW S, NEW x \in S, NEW s \in Seq(S)
    PROVE  /\ <<x>> \o s \in Seq(S)
           /\ <<x>> \o s # <<>>
           /\ Head(<<x>> \o s) = x
           /\ Tail(<<x>> \o s) = s
  <1>1. <<x>> \in Seq(S) /\ Len(<<x>>) = 1
    OBVIOUS
  <1>2. /\ <<x>> \o s \in Seq(S)
        /\ Len(<<x>> \o s) = 1 + Len(s)
        /\ (<<x>> \o s)[1] = x
        /\ \A i \in 1..Len(s) : (<<x>> \o s)[i + 1] = s[i]
    BY <1>1
  <1>3. Tail(<<x>> \o s) \in Seq(S) /\ Len(Tail(<<x>> \o s)) = Len(s)
    BY <1>2
  <1>4. \A i \in 1..Len(s) : Tail(<<x>> \o s)[i] = s[i]
    BY <1>2, <1>3
  <1>5. QED
    BY <1>2, <1>3, <1>4, SeqEqual

\* What comes after the first member.
LEMMA TailFacts ==
    ASSUME NEW S, NEW s \in Seq(S), s # <<>>
    PROVE  /\ Len(s) = 1 => Tail(s) = <<>>
           /\ Len(s) # 1 => Tail(s) # <<>> /\ s[2] = Head(Tail(s))
  <1>1. Len(s) \in Nat \ {0}
    OBVIOUS
  <1>2. PICK t \in Seq(S) : t = Tail(s) /\ Len(t) = Len(s) - 1 /\ \A i \in 1..Len(t) : t[i] = s[i+1]
    BY HeadTailProperties
  <1>3. Len(s) = 1 => t = <<>>
    BY <1>1, <1>2, EmptySeq
  <1>4. Len(s) # 1 => t # <<>> /\ s[2] = Head(t)
    <2> SUFFICES ASSUME Len(s) # 1 PROVE t # <<>> /\ s[2] = Head(t)
      OBVIOUS
    <2>1. Len(t) \in Nat \ {0} /\ 1 \in 1..Len(t)
      BY <1>1, <1>2
    <2>2. t[1] = s[2]
      <3>1. t[1] = s[1+1]
        BY <1>2, <2>1
      <3>2. QED
        BY <3>1
    <2>3. t # <<>>
      BY <2>1
    <2>4. Head(t) = t[1]
      BY <2>3
    <2>5. QED
      BY <2>2, <2>3, <2>4
  <1>5. QED
    BY <1>2, <1>3, <1>4

-----------------------------------------------------------------------------
(***************************************************************************)
(* What an import has to do.                                               *)
(***************************************************************************)
\* The parts of an INT file, as an import takes them.
LEMMA FileFacts ==
    ASSUME NEW f \in Files
    PROVE  /\ f.key \in Key /\ f # None
           /\ IsFiniteSet(DOMAIN f.fields) /\ IsFiniteSet(DOMAIN f.indexes)
           /\ f.fields = [n \in DOMAIN f.fields |-> f.fields[n]]
           /\ f.indexes = [n \in DOMAIN f.indexes |-> f.indexes[n]]
           /\ \A n \in DOMAIN f.fields : n \in FieldNumbers /\ f.fields[n] \in FieldDefs
           /\ \A n \in DOMAIN f.indexes : n \in IndexNumbers /\ f.indexes[n] \in Seq(Segments)
  <1>1. /\ f.key \in Key /\ f # None
        /\ IsFiniteSet(DOMAIN f.fields) /\ IsFiniteSet(DOMAIN f.indexes)
        /\ f.fields = [n \in DOMAIN f.fields |-> f.fields[n]]
        /\ f.indexes = [n \in DOMAIN f.indexes |-> f.indexes[n]]
        /\ \A n \in DOMAIN f.indexes : f.indexes[n] \in Seq(Range(f.indexes[n]))
    BY ConfigAssumption
  <1>2. \A n \in DOMAIN f.fields : n \in FieldNumbers /\ f.fields[n] \in FieldDefs
    BY DEF FieldNumbers, FieldDefs, Range
  <1>3. ASSUME NEW n \in DOMAIN f.indexes
        PROVE  n \in IndexNumbers /\ f.indexes[n] \in Seq(Segments)
    <2>1. n \in IndexNumbers
      BY DEF IndexNumbers
    <2>2. Range(f.indexes[n]) \subseteq Segments
      <3>1. f.indexes[n] \in Range(f.indexes)
        BY DEF Range
      <3>2. Range(f.indexes[n]) \subseteq SegmentsOf(Range(f.indexes))
        BY <3>1 DEF SegmentsOf
      <3>3. SegmentsOf(Range(f.indexes)) \subseteq Segments
        BY DEF Segments
      <3>4. QED
        BY <3>2, <3>3
    <2>3. QED
      BY <1>1, <2>1, <2>2, SeqMonotonic
  <1>4. QED
    BY <1>1, <1>2, <1>3

\* The statements there are.
LEMMA StatementForms ==
    /\ \A w \in {"find", "clearFields", "clearIndexes", "dropTables", "upgrade", "mark", "unmark"} :
           Do(w) \in Statements
    /\ \A f \in Files : [do |-> "upsert", file |-> f] \in Statements
    /\ \A n \in FieldNumbers, d \in FieldDefs :
           /\ [do |-> "field", num |-> n, def |-> d] \in Statements
           /\ [do |-> "putField", num |-> n, def |-> d] \in Statements
    /\ \A n \in FieldNumbers \cup IndexNumbers : [do |-> "dropField", num |-> n] \in Statements
    /\ \A n \in IndexNumbers :
           /\ [do |-> "index", num |-> n] \in Statements
           /\ [do |-> "clearIndex", num |-> n] \in Statements
           /\ [do |-> "dropIndex", num |-> n] \in Statements
    /\ \A d \in Segments : [do |-> "segment", def |-> d] \in Statements
    /\ \A d \in Databases : [do |-> "setDatabase", db |-> d] \in Statements
    /\ \A s \in Settings, v \in Values : [do |-> "set", of |-> s, value |-> v] \in Statements
  BY DEF Statements, Do

\* Fields.
LEMMA FieldPart ==
    ASSUME NEW f \in Files, NEW fs \in Seq(DOMAIN f.fields)
    PROVE  /\ FieldStatements(f, fs) \in Seq(Statements)
           /\ fs = <<>> => FieldStatements(f, fs) = <<>>
           /\ fs # <<>> =>
                 /\ Head(fs) \in DOMAIN f.fields /\ Tail(fs) \in Seq(DOMAIN f.fields)
                 /\ [do |-> "field", num |-> Head(fs), def |-> f.fields[Head(fs)]] \in Statements
                 /\ FieldStatements(f, fs) =
                       <<[do |-> "field", num |-> Head(fs), def |-> f.fields[Head(fs)]]>>
                          \o FieldStatements(f, Tail(fs))
  <1> DEFINE St(n) == [do |-> "field", num |-> n, def |-> f.fields[n]]
  <1>1. \A n \in DOMAIN f.fields : St(n) \in Statements
    BY FileFacts, StatementForms
  <1>2. ASSUME NEW ns \in Seq(DOMAIN f.fields)
        PROVE  /\ FieldStatements(f, ns) \in Seq(Statements)
               /\ Len(FieldStatements(f, ns)) = Len(ns)
               /\ \A k \in 1..Len(ns) : FieldStatements(f, ns)[k] = St(ns[k])
    <2>1. FieldStatements(f, ns) = [k \in 1..Len(ns) |-> St(ns[k])]
      BY DEF FieldStatements
    <2>2. \A k \in 1..Len(ns) : St(ns[k]) \in Statements
      BY <1>1
    <2> HIDE DEF St
    <2>3. QED
      BY <2>1, <2>2
  <1> HIDE DEF St
  <1>3. CASE fs = <<>>
    <2>1. Len(FieldStatements(f, fs)) = 0
      BY <1>2, <1>3
    <2>2. QED
      BY <1>2, <1>3, <2>1, EmptySeq
  <1>4. CASE fs # <<>>
    <2>1. Head(fs) \in DOMAIN f.fields /\ Tail(fs) \in Seq(DOMAIN f.fields)
          /\ Len(fs) = Len(Tail(fs)) + 1 /\ fs[1] = Head(fs)
          /\ \A k \in 1..Len(Tail(fs)) : Tail(fs)[k] = fs[k+1]
      BY <1>4
    <2> DEFINE a == FieldStatements(f, fs)
               b == FieldStatements(f, Tail(fs))
    <2>2. /\ a \in Seq(Statements) /\ Len(a) = Len(fs)
          /\ \A k \in 1..Len(fs) : a[k] = St(fs[k])
      BY <1>2
    <2>3. /\ b \in Seq(Statements) /\ Len(b) = Len(Tail(fs))
          /\ \A k \in 1..Len(Tail(fs)) : b[k] = St(Tail(fs)[k])
      BY <1>2, <2>1
    <2>4. St(Head(fs)) \in Statements
      BY <1>1, <2>1
    <2> HIDE DEF a, b
    <2>5. a = <<St(Head(fs))>> \o b
      <3> DEFINE c == <<St(Head(fs))>> \o b
      <3>1. /\ c \in Seq(Statements) /\ Len(c) = Len(b) + 1 /\ c[1] = St(Head(fs))
            /\ \A k \in 2..Len(b)+1 : c[k] = b[k-1]
        BY <2>3, <2>4
      <3>2. ASSUME NEW k \in 1..Len(a) PROVE a[k] = c[k]
        <4>1. CASE k = 1
          BY <4>1, <2>1, <2>2, <3>1
        <4>2. CASE k # 1
          <5>1. k \in 2..Len(b)+1 /\ k-1 \in 1..Len(Tail(fs)) /\ (k-1)+1 = k /\ k \in 1..Len(fs)
            BY <4>2, <2>1, <2>2, <2>3
          <5>2. c[k] = St(Tail(fs)[k-1]) /\ Tail(fs)[k-1] = fs[k]
            BY <5>1, <2>1, <2>3, <3>1
          <5>3. QED
            BY <5>1, <5>2, <2>2
        <4>3. QED
          BY <4>1, <4>2
      <3>3. Len(a) = Len(c)
        BY <2>1, <2>2, <2>3, <3>1
      <3> HIDE DEF c
      <3>4. a = c
        BY <2>2, <3>1, <3>2, <3>3, SeqEqual
      <3>5. QED
        BY <3>4 DEF c
    <2>6. QED
      BY <1>4, <2>1, <2>2, <2>4, <2>5 DEF a, b, St
  <1>5. QED
    BY <1>3, <1>4

\* Segments.
LEMMA SegmentPart ==
    ASSUME NEW ss \in Seq(Segments)
    PROVE  /\ SegmentStatements(ss) \in Seq(Statements)
           /\ ss = <<>> => SegmentStatements(ss) = <<>>
           /\ ss # <<>> =>
                 /\ Head(ss) \in Segments /\ Tail(ss) \in Seq(Segments)
                 /\ [do |-> "segment", def |-> Head(ss)] \in Statements
                 /\ SegmentStatements(ss) =
                       <<[do |-> "segment", def |-> Head(ss)]>> \o SegmentStatements(Tail(ss))
  <1> DEFINE St(d) == [do |-> "segment", def |-> d]
  <1>1. \A d \in Segments : St(d) \in Statements
    BY StatementForms
  <1>2. ASSUME NEW ns \in Seq(Segments)
        PROVE  /\ SegmentStatements(ns) \in Seq(Statements)
               /\ Len(SegmentStatements(ns)) = Len(ns)
               /\ \A k \in 1..Len(ns) : SegmentStatements(ns)[k] = St(ns[k])
    <2>1. SegmentStatements(ns) = [k \in 1..Len(ns) |-> St(ns[k])]
      BY DEF SegmentStatements
    <2>2. \A k \in 1..Len(ns) : St(ns[k]) \in Statements
      BY <1>1
    <2> HIDE DEF St
    <2>3. QED
      BY <2>1, <2>2
  <1> HIDE DEF St
  <1>3. CASE ss = <<>>
    <2>1. Len(SegmentStatements(ss)) = 0
      BY <1>2, <1>3
    <2>2. QED
      BY <1>2, <1>3, <2>1, EmptySeq
  <1>4. CASE ss # <<>>
    <2>1. Head(ss) \in Segments /\ Tail(ss) \in Seq(Segments)
          /\ Len(ss) = Len(Tail(ss)) + 1 /\ ss[1] = Head(ss)
          /\ \A k \in 1..Len(Tail(ss)) : Tail(ss)[k] = ss[k+1]
      BY <1>4
    <2> DEFINE a == SegmentStatements(ss)
               b == SegmentStatements(Tail(ss))
    <2>2. /\ a \in Seq(Statements) /\ Len(a) = Len(ss)
          /\ \A k \in 1..Len(ss) : a[k] = St(ss[k])
      BY <1>2
    <2>3. /\ b \in Seq(Statements) /\ Len(b) = Len(Tail(ss))
          /\ \A k \in 1..Len(Tail(ss)) : b[k] = St(Tail(ss)[k])
      BY <1>2, <2>1
    <2>4. St(Head(ss)) \in Statements
      BY <1>1, <2>1
    <2> HIDE DEF a, b
    <2>5. a = <<St(Head(ss))>> \o b
      <3> DEFINE c == <<St(Head(ss))>> \o b
      <3>1. /\ c \in Seq(Statements) /\ Len(c) = Len(b) + 1 /\ c[1] = St(Head(ss))
            /\ \A k \in 2..Len(b)+1 : c[k] = b[k-1]
        BY <2>3, <2>4
      <3>2. ASSUME NEW k \in 1..Len(a) PROVE a[k] = c[k]
        <4>1. CASE k = 1
          BY <4>1, <2>1, <2>2, <3>1
        <4>2. CASE k # 1
          <5>1. k \in 2..Len(b)+1 /\ k-1 \in 1..Len(Tail(ss)) /\ (k-1)+1 = k /\ k \in 1..Len(ss)
            BY <4>2, <2>1, <2>2, <2>3
          <5>2. c[k] = St(Tail(ss)[k-1]) /\ Tail(ss)[k-1] = ss[k]
            BY <5>1, <2>1, <2>3, <3>1
          <5>3. QED
            BY <5>1, <5>2, <2>2
        <4>3. QED
          BY <4>1, <4>2
      <3>3. Len(a) = Len(c)
        BY <2>1, <2>2, <2>3, <3>1
      <3> HIDE DEF c
      <3>4. a = c
        BY <2>2, <3>1, <3>2, <3>3, SeqEqual
      <3>5. QED
        BY <3>4 DEF c
    <2>6. QED
      BY <1>4, <2>1, <2>2, <2>4, <2>5 DEF a, b, St
  <1>5. QED
    BY <1>3, <1>4

\* What is done for each member of a sequence, one after the other.
LEMMA EachInTurn ==
    ASSUME NEW D, NEW xs \in Seq(D), NEW part \in [D -> Seq(Statements)]
    PROVE  /\ FlattenSeq([k \in DOMAIN xs |-> part[xs[k]]]) \in Seq(Statements)
           /\ xs = <<>> => FlattenSeq([k \in DOMAIN xs |-> part[xs[k]]]) = <<>>
           /\ xs # <<>> =>
                 /\ Head(xs) \in D /\ Tail(xs) \in Seq(D)
                 /\ FlattenSeq([k \in DOMAIN xs |-> part[xs[k]]]) =
                       part[Head(xs)] \o FlattenSeq([k \in DOMAIN Tail(xs) |-> part[Tail(xs)[k]]])
  <1>1. ASSUME NEW ns \in Seq(D)
        PROVE  LET a == [k \in DOMAIN ns |-> part[ns[k]]]
               IN  /\ a \in Seq(Seq(Statements)) /\ Len(a) = Len(ns)
                   /\ \A k \in 1..Len(ns) : a[k] = part[ns[k]]
    <2> DEFINE a == [k \in DOMAIN ns |-> part[ns[k]]]
    <2>1. DOMAIN ns = 1..Len(ns) /\ Len(ns) \in Nat
      OBVIOUS
    <2>2. \A k \in 1..Len(ns) : part[ns[k]] \in Seq(Statements)
      OBVIOUS
    <2>3. a \in [1..Len(ns) -> Seq(Statements)]
      BY <2>1, <2>2
    <2>4. \A k \in 1..Len(ns) : a[k] = part[ns[k]]
      BY <2>1
    <2> HIDE DEF a
    <2>5. a \in Seq(Seq(Statements)) /\ Len(a) = Len(ns)
      BY <2>1, <2>3, TupleIsSeq
    <2>6. QED
      BY <2>4, <2>5 DEF a
  <1> DEFINE a == [k \in DOMAIN xs |-> part[xs[k]]]
  <1>2. a \in Seq(Seq(Statements)) /\ Len(a) = Len(xs) /\ \A k \in 1..Len(xs) : a[k] = part[xs[k]]
    BY <1>1
  <1>3. CASE xs = <<>>
    <2>1. a = <<>>
      BY <1>2, <1>3, EmptySeq
    <2>2. FlattenSeq(a) = <<>>
      BY <2>1 DEF FlattenSeq
    <2> HIDE DEF a
    <2>3. FlattenSeq(a) \in Seq(Statements)
      BY <2>2
    <2>4. QED
      BY <1>3, <2>2, <2>3 DEF a
  <1>4. CASE xs # <<>>
    <2> DEFINE b == [k \in DOMAIN Tail(xs) |-> part[Tail(xs)[k]]]
    <2>1. Head(xs) \in D /\ Tail(xs) \in Seq(D)
          /\ Len(xs) = Len(Tail(xs)) + 1 /\ xs[1] = Head(xs)
          /\ \A k \in 1..Len(Tail(xs)) : Tail(xs)[k] = xs[k+1]
      BY <1>4
    <2>2. b \in Seq(Seq(Statements)) /\ Len(b) = Len(Tail(xs))
          /\ \A k \in 1..Len(Tail(xs)) : b[k] = part[Tail(xs)[k]]
      BY <1>1, <2>1
    <2> HIDE DEF a, b
    <2>3. a # <<>> /\ Head(a) = part[Head(xs)]
      BY <1>2, <2>1
    <2>4. Tail(a) = b
      <3>1. Tail(a) \in Seq(Seq(Statements)) /\ Len(Tail(a)) = Len(Tail(xs))
            /\ \A k \in 1..Len(Tail(xs)) : Tail(a)[k] = a[k+1]
        BY <1>2, <2>1, <2>3
      <3>2. \A k \in 1..Len(Tail(xs)) : k+1 \in 1..Len(xs)
        BY <2>1
      <3>3. \A k \in 1..Len(Tail(xs)) : Tail(a)[k] = b[k]
        BY <1>2, <2>1, <2>2, <3>1, <3>2
      <3>4. QED
        BY <2>2, <3>1, <3>3, SeqEqual
    <2>5. FlattenSeq(a) = part[Head(xs)] \o FlattenSeq(b)
      BY <1>2, <2>3, <2>4, FlattenHead
    <2>6. FlattenSeq(a) \in Seq(Statements)
      BY <1>2, FlattenIsSeq
    <2>7. QED
      BY <1>4, <2>1, <2>5, <2>6 DEF a, b
  <1>5. QED
    BY <1>3, <1>4

\* Indexes.
LEMMA IndexPart ==
    ASSUME NEW f \in Files, NEW xs \in Seq(DOMAIN f.indexes)
    PROVE  /\ IndexesStatements(f, xs) \in Seq(Statements)
           /\ xs = <<>> => IndexesStatements(f, xs) = <<>>
           /\ xs # <<>> =>
                 /\ Head(xs) \in DOMAIN f.indexes /\ Tail(xs) \in Seq(DOMAIN f.indexes)
                 /\ f.indexes[Head(xs)] \in Seq(Segments)
                 /\ [do |-> "index", num |-> Head(xs)] \in Statements
                 /\ IndexesStatements(f, xs) =
                       <<[do |-> "index", num |-> Head(xs)]>>
                          \o (SegmentStatements(f.indexes[Head(xs)])
                               \o IndexesStatements(f, Tail(xs)))
  <1> DEFINE D == DOMAIN f.indexes
             part == [n \in D |-> IndexStatements(n, f.indexes[n])]
             St(n) == [do |-> "index", num |-> n]
  <1>1. ASSUME NEW n \in D
        PROVE  /\ f.indexes[n] \in Seq(Segments) /\ St(n) \in Statements
               /\ SegmentStatements(f.indexes[n]) \in Seq(Statements)
               /\ IndexStatements(n, f.indexes[n]) = <<St(n)>> \o SegmentStatements(f.indexes[n])
               /\ IndexStatements(n, f.indexes[n]) \in Seq(Statements)
    <2>1. f.indexes[n] \in Seq(Segments) /\ St(n) \in Statements
      BY FileFacts, StatementForms
    <2>2. SegmentStatements(f.indexes[n]) \in Seq(Statements)
      BY <2>1, SegmentPart
    <2>3. IndexStatements(n, f.indexes[n]) = <<St(n)>> \o SegmentStatements(f.indexes[n])
      BY DEF IndexStatements
    <2> HIDE DEF St
    <2>4. QED
      BY <2>1, <2>2, <2>3, OneAndRest
  <1>2. part \in [D -> Seq(Statements)]
    BY <1>1
  <1>3. ASSUME NEW ns \in Seq(D)
        PROVE  /\ IndexesStatements(f, ns) = FlattenSeq([k \in DOMAIN ns |-> part[ns[k]]])
               /\ IndexesStatements(f, ns) \in Seq(Statements)
    <2>1. \A k \in DOMAIN ns : ns[k] \in D
      OBVIOUS
    <2>2. [k \in DOMAIN ns |-> IndexStatements(ns[k], f.indexes[ns[k]])]
             = [k \in DOMAIN ns |-> part[ns[k]]]
      BY <2>1
    <2>3. IndexesStatements(f, ns) = FlattenSeq([k \in DOMAIN ns |-> part[ns[k]]])
      BY <2>2 DEF IndexesStatements
    <2> HIDE DEF part
    <2>4. FlattenSeq([k \in DOMAIN ns |-> part[ns[k]]]) \in Seq(Statements)
      BY <1>2, EachInTurn
    <2>5. QED
      BY <2>3, <2>4
  <1> HIDE DEF St, part
  <1>4. /\ FlattenSeq([k \in DOMAIN xs |-> part[xs[k]]]) \in Seq(Statements)
        /\ xs = <<>> => FlattenSeq([k \in DOMAIN xs |-> part[xs[k]]]) = <<>>
        /\ xs # <<>> =>
              /\ Head(xs) \in D /\ Tail(xs) \in Seq(D)
              /\ FlattenSeq([k \in DOMAIN xs |-> part[xs[k]]]) =
                    part[Head(xs)] \o FlattenSeq([k \in DOMAIN Tail(xs) |-> part[Tail(xs)[k]]])
    BY <1>2, EachInTurn
  <1>5. IndexesStatements(f, xs) \in Seq(Statements)
    BY <1>3, <1>4
  <1>6. ASSUME xs # <<>>
        PROVE  /\ Head(xs) \in D /\ Tail(xs) \in Seq(D)
               /\ IndexesStatements(f, xs) =
                    <<St(Head(xs))>> \o (SegmentStatements(f.indexes[Head(xs)])
                                          \o IndexesStatements(f, Tail(xs)))
    <2> DEFINE h == Head(xs)
               t == Tail(xs)
    <2>1. h \in D /\ t \in Seq(D)
      BY <1>4, <1>6
    <2>2. IndexesStatements(f, xs) = part[h] \o IndexesStatements(f, t)
      BY <1>3, <1>4, <1>6, <2>1
    <2>3. IndexesStatements(f, t) \in Seq(Statements)
      BY <1>3, <2>1
    <2>4. part[h] = <<St(h)>> \o SegmentStatements(f.indexes[h])
      BY <1>1, <2>1 DEF part
    <2> HIDE DEF h, t
    <2>5. <<St(h)>> \in Seq(Statements) /\ SegmentStatements(f.indexes[h]) \in Seq(Statements)
      <3>1. St(h) \in Statements /\ SegmentStatements(f.indexes[h]) \in Seq(Statements)
        BY <1>1, <2>1
      <3>2. QED
        BY <3>1
    <2>6. (<<St(h)>> \o SegmentStatements(f.indexes[h])) \o IndexesStatements(f, t)
            = <<St(h)>> \o (SegmentStatements(f.indexes[h]) \o IndexesStatements(f, t))
      BY <2>3, <2>5, Associative
    <2>7. QED
      BY <2>1, <2>2, <2>4, <2>6 DEF h, t
  <1>7. QED
    BY <1>1, <1>3, <1>4, <1>5, <1>6 DEF St

\* The three statements after the row.
LEMMA OpeningPart ==
    ASSUME NEW left \in 0..3
    PROVE  /\ Opening(left) \in Seq(Statements)
           /\ left = 0 => Opening(left) = <<>>
           /\ left = 1 => Opening(left) = <<Do("clearIndexes")>> \o Opening(0)
           /\ left = 2 => Opening(left) = <<Do("clearFields")>> \o Opening(1)
           /\ left = 3 => Opening(left) = <<Do("find")>> \o Opening(2)
  <1> DEFINE a == Do("find")   b == Do("clearFields")   c == Do("clearIndexes")
  <1>1. a \in Statements /\ b \in Statements /\ c \in Statements
    BY StatementForms
  <1>2. /\ left = 3 => Opening(left) = <<a, b, c>>
        /\ left = 2 => Opening(left) = <<b, c>>
        /\ left = 1 => Opening(left) = <<c>>
        /\ left = 0 => Opening(left) = <<>>
        /\ Opening(0) = <<>> /\ Opening(1) = <<c>> /\ Opening(2) = <<b, c>>
    BY DEF Opening
  <1> HIDE DEF a, b, c
  <1>3. <<a, b, c>> \in Seq(Statements) /\ <<b, c>> \in Seq(Statements) /\ <<c>> \in Seq(Statements)
    BY <1>1
  <1>4. <<a, b, c>> = <<a>> \o <<b, c>> /\ <<b, c>> = <<b>> \o <<c>> /\ <<c>> = <<c>> \o <<>>
    <2>1. <<a, b, c>> = <<a>> \o <<b, c>>
      OBVIOUS
    <2>2. <<b, c>> = <<b>> \o <<c>>
      <3> DEFINE d == <<b>> \o <<c>>
      <3>1. d \in Seq(Statements) /\ Len(d) = 2 /\ d[1] = b /\ d[2] = c
        BY <1>1
      <3> HIDE DEF d
      <3>2. d = <<b, c>>
        BY <3>1
      <3>3. QED
        BY <3>2 DEF d
    <2>3. <<c>> = <<c>> \o <<>>
      BY <1>3, ConcatEmptySeq
    <2>4. QED
      BY <2>1, <2>2, <2>3
  <1>5. left = 0 \/ left = 1 \/ left = 2 \/ left = 3
    OBVIOUS
  <1>6. Opening(left) \in Seq(Statements)
    <2>1. <<>> \in Seq(Statements)
      OBVIOUS
    <2>2. QED
      BY <1>2, <1>3, <1>5, <2>1
  <1>7. QED
    BY <1>2, <1>4, <1>6 DEF a, b, c

\* Files.
LEMMA ImportPart ==
    ASSUME NEW us \in Seq(Files)
    PROVE  /\ Importing(us) \in Seq(Statements)
           /\ us = <<>> => Importing(us) = <<>>
           /\ us # <<>> =>
                 /\ Head(us) \in Files /\ Tail(us) \in Seq(Files)
                 /\ [do |-> "upsert", file |-> Head(us)] \in Statements
                 /\ Importing(us) =
                       <<[do |-> "upsert", file |-> Head(us)]>>
                          \o Remaining(Head(us), 3, SetToSeq(DOMAIN Head(us).fields), <<>>,
                                       SetToSeq(DOMAIN Head(us).indexes), Tail(us))
  <1> DEFINE part == [f \in Files |-> UpsertStatements(f)]
             St(f) == [do |-> "upsert", file |-> f]
             F(f) == FieldStatements(f, SetToSeq(DOMAIN f.fields))
             I(f) == IndexesStatements(f, SetToSeq(DOMAIN f.indexes))
             O == Opening(3)
  <1>0. \A x, y, z \in Seq(Statements) : (x \o y) \o z = x \o (y \o z)
    BY Associative
  <1>1. ASSUME NEW f \in Files
        PROVE  /\ St(f) \in Statements /\ <<St(f)>> \in Seq(Statements)
               /\ F(f) \in Seq(Statements) /\ I(f) \in Seq(Statements)
               /\ UpsertStatements(f) = <<St(f)>> \o (O \o (F(f) \o I(f)))
               /\ UpsertStatements(f) \in Seq(Statements)
    <2>1. St(f) \in Statements
      BY StatementForms
    <2>2. SetToSeq(DOMAIN f.fields) \in Seq(DOMAIN f.fields)
          /\ SetToSeq(DOMAIN f.indexes) \in Seq(DOMAIN f.indexes)
      BY FileFacts, SetToSeqFacts
    <2>3. F(f) \in Seq(Statements) /\ I(f) \in Seq(Statements)
      BY <2>2, FieldPart, IndexPart
    <2> DEFINE a == Do("find")   b == Do("clearFields")   c == Do("clearIndexes")
               u == St(f)
    <2>4. a \in Statements /\ b \in Statements /\ c \in Statements
      BY StatementForms
    <2>5. UpsertStatements(f) = <<u, a, b, c>> \o (F(f) \o I(f))
      BY DEF UpsertStatements
    <2>6. O = <<a, b, c>>
      BY DEF Opening
    <2> HIDE DEF a, b, c, u, F, I, O
    <2>7. <<u, a, b, c>> = <<u>> \o O
      BY <2>6
    <2>8. <<u>> \in Seq(Statements) /\ O \in Seq(Statements) /\ F(f) \o I(f) \in Seq(Statements)
      BY <2>1, <2>3, <2>4, <2>6 DEF u
    <2>9. UpsertStatements(f) = <<u>> \o (O \o (F(f) \o I(f)))
      <3>1. (<<u>> \o O) \o (F(f) \o I(f)) = <<u>> \o (O \o (F(f) \o I(f)))
        BY <1>0, <2>8
      <3>2. QED
        BY <2>5, <2>7, <3>1
    <2>10. <<u>> \o (O \o (F(f) \o I(f))) \in Seq(Statements)
      BY <2>8
    <2>11. QED
      BY <2>1, <2>3, <2>8, <2>9, <2>10 DEF u
  <1>2. part \in [Files -> Seq(Statements)]
    BY <1>1
  <1>3. ASSUME NEW gs \in Seq(Files)
        PROVE  /\ Importing(gs) = FlattenSeq([k \in DOMAIN gs |-> part[gs[k]]])
               /\ Importing(gs) \in Seq(Statements)
    <2>1. \A k \in DOMAIN gs : gs[k] \in Files
      OBVIOUS
    <2>2. [k \in DOMAIN gs |-> UpsertStatements(gs[k])] = [k \in DOMAIN gs |-> part[gs[k]]]
      BY <2>1
    <2>3. Importing(gs) = FlattenSeq([k \in DOMAIN gs |-> part[gs[k]]])
      BY <2>2 DEF Importing
    <2> HIDE DEF part
    <2>4. FlattenSeq([k \in DOMAIN gs |-> part[gs[k]]]) \in Seq(Statements)
      BY <1>2, EachInTurn
    <2>5. QED
      BY <2>3, <2>4
  <1> HIDE DEF St, part
  <1>4. /\ us = <<>> => FlattenSeq([k \in DOMAIN us |-> part[us[k]]]) = <<>>
        /\ us # <<>> =>
              /\ Head(us) \in Files /\ Tail(us) \in Seq(Files)
              /\ FlattenSeq([k \in DOMAIN us |-> part[us[k]]]) =
                    part[Head(us)] \o FlattenSeq([k \in DOMAIN Tail(us) |-> part[Tail(us)[k]]])
    BY <1>2, EachInTurn
  <1>5. O \in Seq(Statements)
    BY OpeningPart
  <1> HIDE DEF F, I, O
  <1>6. ASSUME us # <<>>
        PROVE  LET f == Head(us)
               IN  Importing(us) = <<St(f)>> \o (O \o (F(f) \o (<<>> \o (I(f) \o Importing(Tail(us))))))
    <2> DEFINE f == Head(us)
               M == Importing(Tail(us))
    <2>1. f \in Files /\ M \in Seq(Statements) /\ Importing(us) = UpsertStatements(f) \o M
      BY <1>3, <1>4, <1>6 DEF part
    <2> HIDE DEF f, M
    <2>2. <<St(f)>> \in Seq(Statements) /\ F(f) \in Seq(Statements) /\ I(f) \in Seq(Statements)
      BY <1>1, <2>1
    <2>3. F(f) \o I(f) \in Seq(Statements) /\ O \o (F(f) \o I(f)) \in Seq(Statements)
          /\ I(f) \o M \in Seq(Statements)
      BY <1>5, <2>2, <2>1
    <2>4. (<<St(f)>> \o (O \o (F(f) \o I(f)))) \o M = <<St(f)>> \o ((O \o (F(f) \o I(f))) \o M)
      BY <1>0, <2>1, <2>2, <2>3
    <2>5. (O \o (F(f) \o I(f))) \o M = O \o ((F(f) \o I(f)) \o M)
      BY <1>0, <1>5, <2>1, <2>3
    <2>6. (F(f) \o I(f)) \o M = F(f) \o (I(f) \o M)
      BY <1>0, <2>1, <2>2
    <2>7. <<>> \o (I(f) \o M) = I(f) \o M
      BY <2>3, ConcatEmptySeq
    <2>8. Importing(us) = <<St(f)>> \o (O \o (F(f) \o (<<>> \o (I(f) \o M))))
      BY <1>1, <2>1, <2>4, <2>5, <2>6, <2>7
    <2>9. QED
      BY <2>8 DEF f, M
  <1>7. SegmentStatements(<<>>) = <<>>
    <2>1. <<>> \in Seq(Segments)
      OBVIOUS
    <2>2. QED
      BY <2>1, SegmentPart
  <1>8. QED
    BY <1>1, <1>3, <1>4, <1>6, <1>7 DEF Remaining, St, F, I, O

\* The next statement of a file, and what is left after it.
LEMMA RemainingFacts ==
    ASSUME NEW f \in Files, NEW left \in 0..3, NEW fs \in Seq(DOMAIN f.fields),
           NEW ss \in Seq(Segments), NEW xs \in Seq(DOMAIN f.indexes), NEW us \in Seq(Files)
    PROVE  LET R == Remaining(f, left, fs, ss, xs, us)
           IN  /\ R \in Seq(Statements)
               /\ left = 3 => /\ R # <<>> /\ Head(R) = Do("find")
                              /\ Tail(R) = Remaining(f, 2, fs, ss, xs, us)
               /\ left = 2 => /\ R # <<>> /\ Head(R) = Do("clearFields")
                              /\ Tail(R) = Remaining(f, 1, fs, ss, xs, us)
               /\ left = 1 => /\ R # <<>> /\ Head(R) = Do("clearIndexes")
                              /\ Tail(R) = Remaining(f, 0, fs, ss, xs, us)
               /\ left = 0 /\ fs # <<>> =>
                    /\ R # <<>>
                    /\ Head(R) = [do |-> "field", num |-> Head(fs), def |-> f.fields[Head(fs)]]
                    /\ Tail(R) = Remaining(f, 0, Tail(fs), ss, xs, us)
               /\ left = 0 /\ fs = <<>> /\ ss # <<>> =>
                    /\ R # <<>>
                    /\ Head(R) = [do |-> "segment", def |-> Head(ss)]
                    /\ Tail(R) = Remaining(f, 0, fs, Tail(ss), xs, us)
               /\ left = 0 /\ fs = <<>> /\ ss = <<>> /\ xs # <<>> =>
                    /\ R # <<>>
                    /\ Head(R) = [do |-> "index", num |-> Head(xs)]
                    /\ Tail(R) = Remaining(f, 0, fs, f.indexes[Head(xs)], Tail(xs), us)
               /\ left = 0 /\ fs = <<>> /\ ss = <<>> /\ xs = <<>> => R = Importing(us)
  <1> DEFINE Q == Seq(Statements)
             R == Remaining(f, left, fs, ss, xs, us)
             F(ns) == FieldStatements(f, ns)
             S(ns) == SegmentStatements(ns)
             X(ns) == IndexesStatements(f, ns)
             M == Importing(us)
  <1>0. \A x, y, z \in Q : (x \o y) \o z = x \o (y \o z)
    BY Associative
  <1>1. \A a \in Statements, s \in Q :
            <<a>> \o s # <<>> /\ Head(<<a>> \o s) = a /\ Tail(<<a>> \o s) = s
    BY OneAndRest
  <1>11. \A a \in Statements, s, t \in Q : (<<a>> \o s) \o t = <<a>> \o (s \o t)
    <2>1. \A a \in Statements : <<a>> \in Q
      OBVIOUS
    <2>2. QED
      BY <1>0, <2>1
  <1>2. \A s \in Q : <<>> \o s = s
    BY ConcatEmptySeq
  <1>3. F(fs) \in Q /\ S(ss) \in Q /\ X(xs) \in Q /\ M \in Q
    BY FieldPart, SegmentPart, IndexPart, ImportPart
  <1>4. \A l \in 0..3 : Opening(l) \in Q
    BY OpeningPart
  <1>5. R = Opening(left) \o (F(fs) \o (S(ss) \o (X(xs) \o M)))
    BY DEF Remaining
  <1> DEFINE R3 == X(xs) \o M
             R2 == S(ss) \o R3
             R1 == F(fs) \o R2
  <1> HIDE DEF Q, F, S, X, M, R
  <1>6. R3 \in Q /\ R2 \in Q /\ R1 \in Q /\ R \in Q
    <2>1. \A x, y \in Q : x \o y \in Q
      BY DEF Q
    <2>2. QED
      BY <1>3, <1>4, <1>5, <2>1
  <1> HIDE DEF R1, R2, R3
  <1>7. ASSUME NEW a \in Statements, NEW l \in 0..3, Opening(left) = <<a>> \o Opening(l)
        PROVE  R # <<>> /\ Head(R) = a /\ Tail(R) = Remaining(f, l, fs, ss, xs, us)
    <2>1. R = <<a>> \o (Opening(l) \o R1)
      <3>1. R = (<<a>> \o Opening(l)) \o R1
        BY <1>5, <1>7 DEF R1, R2, R3
      <3>2. QED
        BY <1>4, <1>6, <1>11, <3>1
    <2>2. Opening(l) \o R1 = Remaining(f, l, fs, ss, xs, us)
      BY DEF Remaining, R1, R2, R3, F, S, X, M
    <2>3. Opening(l) \o R1 \in Q
      BY <1>4, <1>6 DEF Q
    <2>4. QED
      BY <1>1, <2>1, <2>2, <2>3
  <1>8. CASE left # 0
    <2>1. Do("find") \in Statements /\ Do("clearFields") \in Statements /\ Do("clearIndexes") \in Statements
      BY StatementForms
    <2>2. left = 3 => R # <<>> /\ Head(R) = Do("find") /\ Tail(R) = Remaining(f, 2, fs, ss, xs, us)
      <3>1. left = 3 => Opening(left) = <<Do("find")>> \o Opening(2)
        BY OpeningPart
      <3>2. 2 \in 0..3
        OBVIOUS
      <3>3. QED
        BY <1>7, <2>1, <3>1, <3>2
    <2>3. left = 2 => R # <<>> /\ Head(R) = Do("clearFields") /\ Tail(R) = Remaining(f, 1, fs, ss, xs, us)
      <3>1. left = 2 => Opening(left) = <<Do("clearFields")>> \o Opening(1)
        BY OpeningPart
      <3>2. 1 \in 0..3
        OBVIOUS
      <3>3. QED
        BY <1>7, <2>1, <3>1, <3>2
    <2>4. left = 1 => R # <<>> /\ Head(R) = Do("clearIndexes") /\ Tail(R) = Remaining(f, 0, fs, ss, xs, us)
      <3>1. left = 1 => Opening(left) = <<Do("clearIndexes")>> \o Opening(0)
        BY OpeningPart
      <3>2. 0 \in 0..3
        OBVIOUS
      <3>3. QED
        BY <1>7, <2>1, <3>1, <3>2
    <2>5. QED
      BY <1>6, <1>8, <2>2, <2>3, <2>4 DEF R, Q
  <1>9. CASE left = 0
    <2>1. Opening(0) = <<>>
      BY DEF Opening
    <2>2. R = R1
      BY <1>2, <1>5, <1>6, <1>9, <2>1 DEF R1, R2, R3
    <2>3. ASSUME fs # <<>>
          PROVE  LET a == [do |-> "field", num |-> Head(fs), def |-> f.fields[Head(fs)]]
                 IN  R # <<>> /\ Head(R) = a /\ Tail(R) = Remaining(f, 0, Tail(fs), ss, xs, us)
      <3> DEFINE a == [do |-> "field", num |-> Head(fs), def |-> f.fields[Head(fs)]]
      <3>1. a \in Statements /\ F(fs) = <<a>> \o F(Tail(fs)) /\ F(Tail(fs)) \in Q
        BY <2>3, FieldPart DEF F, Q
      <3> HIDE DEF a
      <3>2. R = <<a>> \o (F(Tail(fs)) \o R2)
        BY <1>6, <1>11, <2>2, <3>1 DEF R1
      <3>3. F(Tail(fs)) \o R2 \in Q
        BY <1>6, <3>1 DEF Q
      <3>4. F(Tail(fs)) \o R2 = Remaining(f, 0, Tail(fs), ss, xs, us)
        BY <1>2, <2>1, <3>3 DEF Remaining, R2, R3, F, S, X, M
      <3>5. QED
        BY <1>1, <3>1, <3>2, <3>3, <3>4 DEF a
    <2>4. ASSUME fs = <<>> PROVE R = R2
      <3>1. F(fs) = <<>>
        BY <2>4, FieldPart DEF F
      <3>2. QED
        BY <1>2, <1>6, <2>2, <3>1 DEF R1
    <2>5. ASSUME fs = <<>>, ss # <<>>
          PROVE  LET a == [do |-> "segment", def |-> Head(ss)]
                 IN  R # <<>> /\ Head(R) = a /\ Tail(R) = Remaining(f, 0, fs, Tail(ss), xs, us)
      <3> DEFINE a == [do |-> "segment", def |-> Head(ss)]
      <3>1. a \in Statements /\ S(ss) = <<a>> \o S(Tail(ss)) /\ S(Tail(ss)) \in Q
        <4>1. Tail(ss) \in Seq(Segments)
          BY <2>5
        <4>2. QED
          BY <2>5, <4>1, SegmentPart DEF S, Q
      <3> HIDE DEF a
      <3>2. R = <<a>> \o (S(Tail(ss)) \o R3)
        <4>1. R = (<<a>> \o S(Tail(ss))) \o R3
          BY <2>4, <2>5, <3>1 DEF R2
        <4>2. QED
          BY <1>6, <1>11, <3>1, <4>1
      <3>3. S(Tail(ss)) \o R3 \in Q
        BY <1>6, <3>1 DEF Q
      <3>4. S(Tail(ss)) \o R3 = Remaining(f, 0, fs, Tail(ss), xs, us)
        <4>1. F(fs) = <<>>
          BY <2>5, FieldPart DEF F
        <4>2. QED
          BY <1>2, <2>1, <3>3, <4>1 DEF Remaining, R3, F, S, X, M
      <3>5. QED
        BY <1>1, <3>1, <3>2, <3>3, <3>4 DEF a
    <2>6. ASSUME fs = <<>>, ss = <<>> PROVE R = R3
      <3>1. S(ss) = <<>>
        BY <2>6, SegmentPart DEF S
      <3>2. QED
        BY <1>2, <1>6, <2>4, <2>6, <3>1 DEF R2
    <2>7. ASSUME fs = <<>>, ss = <<>>, xs # <<>>
          PROVE  LET a == [do |-> "index", num |-> Head(xs)]
                 IN  R # <<>> /\ Head(R) = a
                     /\ Tail(R) = Remaining(f, 0, fs, f.indexes[Head(xs)], Tail(xs), us)
      <3> DEFINE a == [do |-> "index", num |-> Head(xs)]
                 l == f.indexes[Head(xs)]
      <3>1. a \in Statements /\ X(xs) = <<a>> \o (S(l) \o X(Tail(xs)))
            /\ l \in Seq(Segments) /\ Tail(xs) \in Seq(DOMAIN f.indexes)
        BY <2>7, IndexPart DEF X, S
      <3>2. X(Tail(xs)) \in Q /\ S(l) \in Q
        BY <3>1, IndexPart, SegmentPart DEF X, S, Q
      <3> HIDE DEF a, l
      <3>3. S(l) \o X(Tail(xs)) \in Q /\ X(Tail(xs)) \o M \in Q /\ S(l) \o (X(Tail(xs)) \o M) \in Q
        <4>1. \A x, y \in Q : x \o y \in Q
          BY DEF Q
        <4>2. QED
          BY <1>3, <3>2, <4>1
      <3>4. R = <<a>> \o (S(l) \o (X(Tail(xs)) \o M))
        <4>1. R = (<<a>> \o (S(l) \o X(Tail(xs)))) \o M
          BY <2>6, <2>7, <3>1 DEF R3
        <4>2. (<<a>> \o (S(l) \o X(Tail(xs)))) \o M = <<a>> \o ((S(l) \o X(Tail(xs))) \o M)
          BY <1>3, <1>11, <3>1, <3>3
        <4>3. (S(l) \o X(Tail(xs))) \o M = S(l) \o (X(Tail(xs)) \o M)
          BY <1>0, <1>3, <3>2
        <4>4. QED
          BY <4>1, <4>2, <4>3
      <3>5. S(l) \o (X(Tail(xs)) \o M) = Remaining(f, 0, fs, l, Tail(xs), us)
        <4>1. F(fs) = <<>>
          BY <2>7, FieldPart DEF F
        <4>2. QED
          BY <1>2, <2>1, <3>3, <4>1 DEF Remaining, F, S, X, M
      <3>6. QED
        BY <1>1, <3>1, <3>3, <3>4, <3>5 DEF a, l
    <2>8. ASSUME fs = <<>>, ss = <<>>, xs = <<>> PROVE R = M
      <3>1. X(xs) = <<>>
        BY <2>8, IndexPart DEF X
      <3>2. QED
        BY <1>2, <1>3, <2>6, <2>8, <3>1 DEF R3
    <2>9. QED
      BY <1>6, <1>9, <2>3, <2>5, <2>7, <2>8 DEF R, Q, M
  <1>10. QED
    BY <1>8, <1>9

\* Before the first file.
LEMMA NoFileFacts ==
    ASSUME NEW us
    PROVE  Remaining(None, 0, <<>>, <<>>, <<>>, us) = <<>> \o (<<>> \o (<<>> \o (<<>> \o Importing(us))))
  <1>1. FieldStatements(None, <<>>) = <<>>
    BY DEF FieldStatements
  <1>2. SegmentStatements(<<>>) = <<>>
    BY DEF SegmentStatements
  <1>3. IndexesStatements(None, <<>>) = <<>>
    <2> DEFINE a == [k \in DOMAIN <<>> |-> IndexStatements(<<>>[k], None.indexes[<<>>[k]])]
    <2>1. a = <<>>
      OBVIOUS
    <2> HIDE DEF a
    <2>2. FlattenSeq(a) = <<>>
      BY <2>1 DEF FlattenSeq
    <2>3. QED
      BY <2>2 DEF IndexesStatements, a
  <1>4. Opening(0) = <<>>
    BY DEF Opening
  <1>5. QED
    BY <1>1, <1>2, <1>3, <1>4 DEF Remaining

\* The next statement of a job that imports, and what is left then.
LEMMA NextStatement ==
    ASSUME NEW j \in JobType, NEW left \in 0..3, NEW fs \in Seq(FieldNumbers),
           NEW ss \in Seq(Segments), NEW xs \in Seq(IndexNumbers), NEW us \in Seq(Files),
           Plan(j, left, fs, ss, xs, us)
    PROVE  /\ j.file # None => /\ j.file \in Files
                               /\ fs \in Seq(DOMAIN j.file.fields)
                               /\ xs \in Seq(DOMAIN j.file.indexes)
           /\ left = 3 => /\ j.file # None /\ j.todo # <<>> /\ Head(j.todo).do = "find"
                          /\ Tail(j.todo) = Remaining(j.file, 2, fs, ss, xs, us)
           /\ left = 2 => /\ j.file # None /\ j.todo # <<>> /\ Head(j.todo).do = "clearFields"
                          /\ Tail(j.todo) = Remaining(j.file, 1, fs, ss, xs, us)
           /\ left = 1 => /\ j.file # None /\ j.todo # <<>> /\ Head(j.todo).do = "clearIndexes"
                          /\ Tail(j.todo) = Remaining(j.file, 0, fs, ss, xs, us)
           /\ left = 0 /\ fs # <<>> =>
                /\ j.file # None /\ j.todo # <<>> /\ Head(j.todo).do = "field"
                /\ Head(j.todo).num = Head(fs) /\ Head(j.todo).def = j.file.fields[Head(fs)]
                /\ Tail(j.todo) = Remaining(j.file, 0, Tail(fs), ss, xs, us)
           /\ left = 0 /\ fs = <<>> /\ ss # <<>> =>
                /\ j.file # None /\ j.todo # <<>> /\ Head(j.todo).do = "segment"
                /\ Head(j.todo).def = Head(ss)
                /\ Tail(j.todo) = Remaining(j.file, 0, fs, Tail(ss), xs, us)
           /\ left = 0 /\ fs = <<>> /\ ss = <<>> /\ xs # <<>> =>
                /\ j.file # None /\ j.todo # <<>> /\ Head(j.todo).do = "index"
                /\ Head(j.todo).num = Head(xs)
                /\ Tail(j.todo) = Remaining(j.file, 0, fs, j.file.indexes[Head(xs)], Tail(xs), us)
           /\ left = 0 /\ fs = <<>> /\ ss = <<>> /\ xs = <<>> /\ us # <<>> =>
                /\ Head(us) \in Files /\ Tail(us) \in Seq(Files)
                /\ j.todo # <<>> /\ Head(j.todo).do = "upsert" /\ Head(j.todo).file = Head(us)
                /\ Tail(j.todo) = Remaining(Head(us), 3, SetToSeq(DOMAIN Head(us).fields), <<>>,
                                            SetToSeq(DOMAIN Head(us).indexes), Tail(us))
           /\ left = 0 /\ fs = <<>> /\ ss = <<>> /\ xs = <<>> /\ us = <<>> => j.todo = <<>>
  <1> DEFINE R == Remaining(j.file, left, fs, ss, xs, us)
             a == [do |-> "upsert", file |-> Head(us)]
  <1>1. j.todo = R
    BY DEF Plan
  <1>2. ASSUME us # <<>>
        PROVE  /\ Head(us) \in Files /\ Tail(us) \in Seq(Files)
               /\ Importing(us) # <<>> /\ Head(Importing(us)) = a
               /\ Tail(Importing(us)) = Remaining(Head(us), 3, SetToSeq(DOMAIN Head(us).fields), <<>>,
                                                  SetToSeq(DOMAIN Head(us).indexes), Tail(us))
    <2> DEFINE r == Remaining(Head(us), 3, SetToSeq(DOMAIN Head(us).fields), <<>>,
                              SetToSeq(DOMAIN Head(us).indexes), Tail(us))
    <2>1. /\ Head(us) \in Files /\ Tail(us) \in Seq(Files) /\ a \in Statements
          /\ Importing(us) = <<a>> \o r
      BY <1>2, ImportPart
    <2>2. r \in Seq(Statements)
      <3>1. SetToSeq(DOMAIN Head(us).fields) \in Seq(DOMAIN Head(us).fields)
            /\ SetToSeq(DOMAIN Head(us).indexes) \in Seq(DOMAIN Head(us).indexes)
        BY <2>1, FileFacts, SetToSeqFacts
      <3>2. <<>> \in Seq(Segments) /\ 3 \in 0..3
        OBVIOUS
      <3>3. QED
        BY <2>1, <3>1, <3>2, RemainingFacts
    <2> HIDE DEF a, r
    <2>3. <<a>> \o r # <<>> /\ Head(<<a>> \o r) = a /\ Tail(<<a>> \o r) = r
      BY <2>1, <2>2, OneAndRest
    <2>4. QED
      BY <2>1, <2>3 DEF r
  <1>3. us = <<>> => Importing(us) = <<>>
    BY ImportPart
  <1>4. CASE j.file = None
    <2>1. left = 0 /\ fs = <<>> /\ ss = <<>> /\ xs = <<>>
      BY <1>4 DEF Plan
    <2>2. Importing(us) \in Seq(Statements)
      BY ImportPart
    <2>3. R = Importing(us)
      <3>1. \A s \in Seq(Statements) : <<>> \o s = s
        BY ConcatEmptySeq
      <3>2. R = <<>> \o (<<>> \o (<<>> \o (<<>> \o Importing(us))))
        BY <1>4, <2>1, NoFileFacts
      <3>3. QED
        BY <2>2, <3>1, <3>2
    <2> HIDE DEF R
    <2>4. QED
      BY <1>1, <1>2, <1>3, <1>4, <2>1, <2>3
  <1>5. CASE j.file # None
    <2>1. /\ j.file \in Files
          /\ fs \in Seq(DOMAIN j.file.fields) /\ xs \in Seq(DOMAIN j.file.indexes)
      BY <1>5 DEF Plan, JobType, Numbering
    <2>2. /\ left = 3 => /\ R # <<>> /\ Head(R) = Do("find")
                         /\ Tail(R) = Remaining(j.file, 2, fs, ss, xs, us)
          /\ left = 2 => /\ R # <<>> /\ Head(R) = Do("clearFields")
                         /\ Tail(R) = Remaining(j.file, 1, fs, ss, xs, us)
          /\ left = 1 => /\ R # <<>> /\ Head(R) = Do("clearIndexes")
                         /\ Tail(R) = Remaining(j.file, 0, fs, ss, xs, us)
          /\ left = 0 /\ fs # <<>> =>
               /\ R # <<>>
               /\ Head(R) = [do |-> "field", num |-> Head(fs), def |-> j.file.fields[Head(fs)]]
               /\ Tail(R) = Remaining(j.file, 0, Tail(fs), ss, xs, us)
          /\ left = 0 /\ fs = <<>> /\ ss # <<>> =>
               /\ R # <<>>
               /\ Head(R) = [do |-> "segment", def |-> Head(ss)]
               /\ Tail(R) = Remaining(j.file, 0, fs, Tail(ss), xs, us)
          /\ left = 0 /\ fs = <<>> /\ ss = <<>> /\ xs # <<>> =>
               /\ R # <<>>
               /\ Head(R) = [do |-> "index", num |-> Head(xs)]
               /\ Tail(R) = Remaining(j.file, 0, fs, j.file.indexes[Head(xs)], Tail(xs), us)
          /\ left = 0 /\ fs = <<>> /\ ss = <<>> /\ xs = <<>> => R = Importing(us)
      BY <2>1, RemainingFacts
    <2> HIDE DEF R
    <2>3. CASE left = 3
      BY <1>1, <1>5, <2>1, <2>2, <2>3 DEF Do
    <2>4. CASE left = 2
      BY <1>1, <1>5, <2>1, <2>2, <2>4 DEF Do
    <2>5. CASE left = 1
      BY <1>1, <1>5, <2>1, <2>2, <2>5 DEF Do
    <2>6. CASE left = 0 /\ fs # <<>>
      BY <1>1, <1>5, <2>1, <2>2, <2>6
    <2>7. CASE left = 0 /\ fs = <<>> /\ ss # <<>>
      BY <1>1, <1>5, <2>1, <2>2, <2>7
    <2>8. CASE left = 0 /\ fs = <<>> /\ ss = <<>> /\ xs # <<>>
      BY <1>1, <1>5, <2>1, <2>2, <2>8
    <2>9. CASE left = 0 /\ fs = <<>> /\ ss = <<>> /\ xs = <<>>
      <3>1. j.todo = Importing(us)
        BY <1>1, <2>2, <2>9
      <3>2. CASE us = <<>>
        BY <1>3, <1>5, <2>1, <2>9, <3>1, <3>2
      <3>3. CASE us # <<>>
        BY <1>2, <1>5, <2>1, <2>9, <3>1, <3>3
      <3>4. QED
        BY <3>2, <3>3
    <2>10. QED
      <3>1. left = 0 \/ left = 1 \/ left = 2 \/ left = 3
        OBVIOUS
      <3>2. QED
        BY <2>3, <2>4, <2>5, <2>6, <2>7, <2>8, <2>9, <3>1
  <1>6. QED
    BY <1>4, <1>5

\* Where the next file begins, the last has been stored.
LEMMA FileIsStored ==
    ASSUME NEW j \in JobType, NEW left \in 0..3, NEW fs \in Seq(FieldNumbers),
           NEW ss \in Seq(Segments), NEW xs \in Seq(IndexNumbers), NEW us \in Seq(Files),
           Plan(j, left, fs, ss, xs, us), j.todo = <<>> \/ Head(j.todo).do = "upsert"
    PROVE  left = 0 /\ fs = <<>> /\ ss = <<>> /\ xs = <<>>
  <1>1. /\ left = 3 => j.todo # <<>> /\ Head(j.todo).do = "find"
        /\ left = 2 => j.todo # <<>> /\ Head(j.todo).do = "clearFields"
        /\ left = 1 => j.todo # <<>> /\ Head(j.todo).do = "clearIndexes"
        /\ left = 0 /\ fs # <<>> => j.todo # <<>> /\ Head(j.todo).do = "field"
        /\ left = 0 /\ fs = <<>> /\ ss # <<>> => j.todo # <<>> /\ Head(j.todo).do = "segment"
        /\ left = 0 /\ fs = <<>> /\ ss = <<>> /\ xs # <<>> =>
              j.todo # <<>> /\ Head(j.todo).do = "index"
    BY NextStatement
  <1>2. left = 0 \/ left = 1 \/ left = 2 \/ left = 3
    OBVIOUS
  <1>3. QED
    BY <1>1, <1>2

-----------------------------------------------------------------------------
(***************************************************************************)
(* What a step leaves alone.                                               *)
(***************************************************************************)
\* The step does nothing to the table t, or takes its schema off.
Same(t) ==
    /\ tables'[t] # None /\ tables'[t].key = tables[t].key
    /\ tables'[t].header = tables[t].header
    /\ tables'[t].schema \in {tables[t].schema, ""}
    /\ fields'[t] = fields[t]
    /\ IndexesOf(t)' = IndexesOf(t)
    /\ \A i \in IndexesOf(t) : indexes'[i] = indexes[i] /\ segs'[i] = segs[i]

\* Then its indexes stay as complete as they are,
LEMMA SameIndexes ==
    ASSUME NEW t, NEW f, NEW ix, NEW ss, NEW xs, Same(t), IndexesStored(t, f, ix, ss, xs)
    PROVE  IndexesStored(t, f, ix, ss, xs)'
  <1>1. IndexesOf(t)' = IndexesOf(t) /\ \A i \in IndexesOf(t) : indexes'[i] = indexes[i] /\ segs'[i] = segs[i]
    BY DEF Same
  <1> DEFINE I == IndexesOf(t)
  <1> USE DEF IndexesStored
  <1>2. \A i, j \in IndexesOf(t) : indexes[i].number = indexes[j].number => i = j
    OBVIOUS
  <1>3. \A i, j \in IndexesOf(t)' : indexes'[i].number = indexes'[j].number => i = j
    BY <1>1, <1>2
  <1>4. {indexes'[i].number : i \in IndexesOf(t)'} = DOMAIN f.indexes \ Range(xs)
    BY <1>1
  <1>5. \A i \in IndexesOf(t)' :
            f.indexes[indexes'[i].number] = IF i = ix THEN segs'[i] \o ss ELSE segs'[i]
    BY <1>1
  <1>6. ss # <<>> => ix \in IndexesOf(t)'
    BY <1>1
  <1>7. QED
    BY <1>3, <1>4, <1>5, <1>6

\* and it as much of its file as it is.
LEMMA SameStored ==
    ASSUME NEW t, NEW j, NEW left, NEW fs, NEW ss, NEW xs,
           Same(t), StoredIn(t, j, left, fs, ss, xs)
    PROVE  StoredIn(t, j, left, fs, ss, xs)'
  <1>1. left = 0 => IndexesStored(t, j.file, j.ix, ss, xs)'
    BY SameIndexes DEF StoredIn
  <1>2. /\ tables'[t] # None /\ tables'[t].key = j.file.key
        /\ tables'[t].header = j.file.header
        /\ tables'[t].schema \in {j.file.schema, ""}
    BY DEF Same, StoredIn
  <1>3. left < 2 => fields'[t] = Without(j.file.fields, fs)
    BY DEF Same, StoredIn
  <1>4. left < 3 => j.id = t
    BY DEF StoredIn
  <1>5. QED
    BY <1>1, <1>2, <1>3, <1>4 DEF StoredIn

\* The job k2 of a process that was at k: somebody else may have met it, or
\* taken away the table or the index its ids stood for.
LEMMA KeptJob ==
    ASSUME NEW k \in JobType, NEW k2 \in JobType, JobHolds(k),
           /\ k2.todo = k.todo /\ k2.aim = k.aim /\ k2.file = k.file
           /\ k2.id = k.id /\ k2.ix = k.ix
           /\ k2.alone => k.alone
           /\ k.stale => k2.stale,
           ~k2.stale => /\ \A t \in Id : tables[t] # None =>
                               tables'[t] # None /\ tables'[t].key = tables[t].key
                        /\ k.ix \in Id /\ indexes[k.ix] # None => indexes'[k.ix] = indexes[k.ix],
           k2.alone => \A t \in Id : tables[t] # None /\ tables[t].key \in k.aim => Same(t)
    PROVE  JobHolds(k2)'
  <1>1. IdsHold(k2)'
    BY DEF JobHolds, IdsHold
  <1>2. CASE Edits(k)
    <2>1. Edits(k2)
      BY <1>2 DEF Edits, JobType
    <2>2. Edits(k2)'
      BY <2>1 DEF Edits
    <2>3. QED
      BY <1>1, <2>2 DEF JobHolds
  <1>3. CASE Imports(k)
    <2>1. PICK left \in 0..3, fs \in Seq(FieldNumbers), ss \in Seq(Segments),
               xs \in Seq(IndexNumbers), us \in Seq(Files) : Planned(k, left, fs, ss, xs, us)
      BY <1>3 DEF Imports
    <2>2. k2.alone => \E t \in Id : StoredIn(t, k2, left, fs, ss, xs)'
      <3> SUFFICES ASSUME k2.alone PROVE \E t \in Id : StoredIn(t, k2, left, fs, ss, xs)'
        OBVIOUS
      <3>1. PICK t \in Id : StoredIn(t, k, left, fs, ss, xs)
        BY <2>1 DEF Planned, Plan
      <3>2. tables[t] # None /\ tables[t].key \in k.aim
        <4>1. k.file # None
          BY <2>1 DEF Planned, Plan
        <4>2. QED
          BY <2>1, <3>1, <4>1 DEF Planned, Plan, StoredIn
      <3>3. StoredIn(t, k2, left, fs, ss, xs)
        BY <3>1 DEF StoredIn
      <3>4. StoredIn(t, k2, left, fs, ss, xs)'
        BY <3>2, <3>3, SameStored
      <3>5. QED
        BY <3>4
    <2>3. Planned(k2, left, fs, ss, xs, us)'
      BY <2>1, <2>2 DEF Planned, Plan
    <2>4. Imports(k2)'
      BY <2>3 DEF Imports
    <2>5. QED
      BY <1>1, <2>4 DEF JobHolds
  <1>4. QED
    BY <1>2, <1>3 DEF JobHolds

\* A table that is trusted and stays the same stays trusted.
LEMMA KeptTrust ==
    ASSUME NEW k \in Key, IsTheFile(k), trusted'[k] = trusted[k],
           \A t \in Id : tables[t] # None /\ tables[t].key = k => Same(t)
    PROVE  IsTheFile(k)'
  <1>1. PICK t \in Rows({k}) :
            /\ tables[t].header = trusted[k].header
            /\ tables[t].schema \in {trusted[k].schema, ""}
            /\ fields[t] = trusted[k].fields
            /\ IndexesStored(t, trusted[k], 0, <<>>, <<>>)
    BY DEF IsTheFile
  <1>2. t \in Id /\ tables[t] # None /\ tables[t].key = k /\ Same(t)
    BY <1>1 DEF Rows
  <1>3. PICK f : f = trusted[k]
    OBVIOUS
  <1>4. IndexesStored(t, f, 0, <<>>, <<>>)'
    BY <1>1, <1>2, <1>3, SameIndexes
  <1>5. t \in Rows({k})'
    BY <1>2 DEF Same, Rows
  <1>6. /\ tables'[t].header = f.header
        /\ tables'[t].schema \in {f.schema, ""}
        /\ fields'[t] = f.fields
    BY <1>1, <1>2, <1>3 DEF Same
  <1>7. trusted'[k] = f
    BY <1>3
  <1>8. IndexesStored(t, trusted[k], 0, <<>>, <<>>)'
    BY <1>4, <1>7
  <1>9. QED
    BY <1>5, <1>6, <1>7, <1>8 DEF IsTheFile

-----------------------------------------------------------------------------
(***************************************************************************)
(* Jobs.                                                                   *)
(***************************************************************************)
\* What the invariant says of a process's job.
LEMMA JobFields ==
    ASSUME ConfigInv, NEW p \in Proc
    PROVE  job[p] \in JobType /\ JobHolds(job[p])
  BY DEF ConfigInv, ConfigTypeOK

\* A process that does nothing has nothing to keep.
LEMMA IdleHolds ==
    Idle \in JobType /\ Idle.todo = <<>> /\ JobHolds(Idle) /\ JobHolds(Idle)'
  <1>1. Idle \in JobType
    <2>1. <<>> \in Seq(Statements) /\ 0 \in 0..MaxId
      BY ConfigAssumption
    <2>2. QED
      BY <2>1 DEF Idle, JobType
  <1>2. Idle.todo = <<>> /\ Idle.file = None /\ Idle.aim = {} /\ ~Idle.alone
    BY DEF Idle
  <1>3. DOMAIN Idle.todo = {} /\ 2..Len(Idle.todo) = {}
    BY <1>2
  <1>4. Edits(Idle) /\ Edits(Idle)'
    BY <1>2, <1>3 DEF Edits
  <1>5. IdsHold(Idle) /\ IdsHold(Idle)'
    BY <1>2 DEF IdsHold
  <1>6. QED
    BY <1>1, <1>2, <1>4, <1>5 DEF JobHolds

\* A job after its next statement.
LEMMA NextJob ==
    ASSUME NEW j \in JobType, j.todo # <<>>, NEW k, k = [j EXCEPT !.todo = Tail(@)]
    PROVE  /\ k \in JobType /\ k.todo = Tail(j.todo)
           /\ k.aim = j.aim /\ k.file = j.file /\ k.id = j.id /\ k.ix = j.ix
           /\ k.alone = j.alone /\ k.stale = j.stale
           /\ Len(j.todo) = 1 => k.todo = <<>>
           /\ Len(j.todo) # 1 => k.todo # <<>> /\ j.todo[2] = Head(k.todo)
  <1>1. j.todo \in Seq(Statements)
    BY DEF JobType
  <1>2. Tail(j.todo) \in Seq(Statements) /\ Len(Tail(j.todo)) = Len(j.todo) - 1 /\ Len(j.todo) \in Nat \ {0}
    BY <1>1
  <1>3. k \in JobType /\ k.todo = Tail(j.todo)
        /\ k.aim = j.aim /\ k.file = j.file /\ k.id = j.id /\ k.ix = j.ix
        /\ k.alone = j.alone /\ k.stale = j.stale
    BY <1>2 DEF JobType
  <1>4. /\ Len(j.todo) = 1 => Tail(j.todo) = <<>>
        /\ Len(j.todo) # 1 => Tail(j.todo) # <<>> /\ j.todo[2] = Head(Tail(j.todo))
    BY <1>1, TailFacts
  <1>5. QED
    BY <1>3, <1>4

\* The rest of a command that is not an import; what its statements come after.
LEMMA EditsGoOn ==
    ASSUME NEW j \in JobType, Edits(j), j.todo # <<>>, NEW k, k = [j EXCEPT !.todo = Tail(@)]
    PROVE  /\ Edits(k)
           /\ k.todo # <<>> => <<Head(j.todo).do, Head(k.todo).do>> \in Follows
           /\ Head(j.todo).do \notin {"upsert", "clearFields", "clearIndexes", "field"}
  <1>1. j.todo \in Seq(Statements) /\ Len(j.todo) \in Nat \ {0} /\ DOMAIN j.todo = 1..Len(j.todo)
    BY DEF JobType
  <1>2. k \in JobType /\ k.todo = Tail(j.todo) /\ k.aim = j.aim /\ k.file = j.file /\ k.alone = j.alone
    BY NextJob
  <1>3. Len(k.todo) = Len(j.todo) - 1 /\ DOMAIN k.todo = 1..Len(k.todo)
        /\ \A i \in 1..Len(k.todo) : k.todo[i] = j.todo[i+1]
    BY <1>1, <1>2
  <1>4. \A i \in DOMAIN k.todo : k.todo[i].do \notin {"upsert", "clearFields", "clearIndexes", "field"}
    <2>1. \A i \in 1..Len(k.todo) : i + 1 \in DOMAIN j.todo
      BY <1>1, <1>3
    <2>2. QED
      BY <1>3, <2>1 DEF Edits
  <1>5. \A i \in 2..Len(k.todo) : <<k.todo[i-1].do, k.todo[i].do>> \in Follows
    <2> SUFFICES ASSUME NEW i \in 2..Len(k.todo) PROVE <<k.todo[i-1].do, k.todo[i].do>> \in Follows
      OBVIOUS
    <2>1. i + 1 \in 2..Len(j.todo) /\ (i+1) - 1 = i /\ i - 1 \in 1..Len(k.todo) /\ (i-1) + 1 = i
          /\ i \in 1..Len(k.todo)
      BY <1>1, <1>3
    <2>2. <<j.todo[i].do, j.todo[i+1].do>> \in Follows
      BY <2>1 DEF Edits
    <2>3. QED
      BY <1>3, <2>1, <2>2
  <1>6. Edits(k)
    BY <1>2, <1>4, <1>5 DEF Edits
  <1>7. k.todo # <<>> => <<Head(j.todo).do, Head(k.todo).do>> \in Follows
    <2> SUFFICES ASSUME k.todo # <<>> PROVE <<Head(j.todo).do, Head(k.todo).do>> \in Follows
      OBVIOUS
    <2>1. Len(j.todo) # 1 /\ j.todo[2] = Head(k.todo)
      BY NextJob
    <2>2. 2 \in 2..Len(j.todo) /\ 2 - 1 = 1
      BY <1>1, <2>1
    <2>3. <<j.todo[1].do, j.todo[2].do>> \in Follows
      BY <2>2 DEF Edits
    <2>4. QED
      BY <1>1, <2>1, <2>3
  <1>8. Head(j.todo).do \notin {"upsert", "clearFields", "clearIndexes", "field"}
    <2>1. 1 \in DOMAIN j.todo /\ Head(j.todo) = j.todo[1]
      BY <1>1
    <2>2. QED
      BY <2>1 DEF Edits
  <1>9. QED
    BY <1>6, <1>7, <1>8

\* A step of one process that leaves the others to their work.
LEMMA OneJobHolds ==
    ASSUME ConfigInv, NEW p \in Proc, NEW k \in JobType, JobHolds(k)',
           job' = [job EXCEPT ![p] = k], trusted' = trusted,
           DatabaseTypeOK', KeysAreUnique', indexes' = indexes, segs' = segs,
           \A t \in Id : tables[t] # None => Same(t)
    PROVE  ConfigInv'
  <1>1. ConfigTypeOK'
    BY DEF ConfigInv, ConfigTypeOK
  <1>2. NoStraySegments'
    BY DEF ConfigInv, NoStraySegments
  <1>3. ASSUME NEW q \in Proc PROVE JobHolds(job[q])'
    <2>1. CASE q = p
      <3>1. job'[q] = k
        BY <2>1 DEF ConfigInv, ConfigTypeOK
      <3>2. QED
        BY <3>1
    <2>2. CASE q # p
      <3>1. PICK k1 \in JobType : k1 = job[q] /\ JobHolds(k1)
        BY JobFields
      <3>2. job'[q] = k1
        BY <2>2, <3>1 DEF ConfigInv, ConfigTypeOK
      <3>3. \A t \in Id : tables[t] # None => tables'[t] # None /\ tables'[t].key = tables[t].key
        BY DEF Same
      <3>4. JobHolds(k1)'
        BY <3>1, <3>3, KeptJob
      <3>5. QED
        BY <3>2, <3>4
    <2>3. QED
      BY <2>1, <2>2
  <1>4. ASSUME NEW c \in Key, trusted'[c] # None PROVE IsTheFile(c)'
    <2>1. IsTheFile(c) /\ trusted'[c] = trusted[c]
      BY <1>4 DEF ConfigInv
    <2>2. QED
      BY <2>1, KeptTrust
  <1>5. QED
    BY <1>1, <1>2, <1>3, <1>4 DEF ConfigInv

\* Nothing but one process's job changes.
LEMMA QuietHolds ==
    ASSUME ConfigInv, NEW p \in Proc, NEW k \in JobType, JobHolds(k)',
           job' = [job EXCEPT ![p] = k], UNCHANGED <<database, trusted>>
    PROVE  ConfigInv'
  <1>1. tables' = tables /\ fields' = fields /\ indexes' = indexes /\ segs' = segs /\ trusted' = trusted
    BY DEF database
  <1>2. DatabaseTypeOK' /\ KeysAreUnique'
    BY <1>1 DEF ConfigInv, ConfigTypeOK, DatabaseTypeOK, KeysAreUnique
  <1>3. \A t \in Id : tables[t] # None => Same(t)
    BY <1>1 DEF Same, IndexesOf
  <1>4. QED
    BY <1>1, <1>2, <1>3, OneJobHolds

\* A statement that writes to a table, with the job j it is told, of which k is
\* left: it does nothing to a table the job is not about.
LEMMA WroteHolds ==
    ASSUME ConfigInv, NEW p \in Proc, NEW j \in JobType, j.todo # <<>>, j.todo = job[p].todo,
           Wrote(p, j), FileStored(p) => job[p].file = j.file,
           NEW k, k = [j EXCEPT !.todo = Tail(@)], IdsHold(k)', Imports(k)' \/ Edits(k),
           DatabaseTypeOK', KeysAreUnique', NoStraySegments',
           \A t \in Id : tables[t] # None => tables'[t] # None /\ tables'[t].key = tables[t].key,
           \A i \in Id : indexes[i] # None /\ i \notin Deleted(p) => indexes'[i] = indexes[i],
           ~j.stale => \A t \in Id : tables[t] # None /\ tables[t].key \notin j.aim => Same(t)
    PROVE  ConfigInv'
  <1> DEFINE n == IF Len(j.todo) = 1 THEN Idle ELSE [j EXCEPT !.todo = Tail(@)]
             met == {q \in Proc \ {p} : job[q].aim \cap j.aim # {} \/ j.stale}
             Other(q) == [job[q] EXCEPT !.alone = @ /\ q \notin met,
                                        !.stale = @ \/ job[q].ix \in Deleted(p)]
  <1>1. job' = [q \in Proc |-> IF q = p THEN n ELSE Other(q)]
    BY DEF Wrote
  <1>2. trusted' = [c \in Key |->
                      IF FileStored(p) /\ j.alone /\ c = j.file.key THEN j.file
                      ELSE IF c \in j.aim \/ j.stale THEN None ELSE trusted[c]]
    BY DEF Wrote
  <1>3. /\ k \in JobType /\ k.todo = Tail(j.todo)
        /\ k.aim = j.aim /\ k.file = j.file /\ k.id = j.id /\ k.ix = j.ix
        /\ k.alone = j.alone /\ k.stale = j.stale
        /\ Len(j.todo) = 1 => k.todo = <<>>
        /\ Len(j.todo) # 1 => k.todo # <<>> /\ j.todo[2] = Head(k.todo)
    BY NextJob
  <1>4. JobHolds(k)'
    BY DEF JobHolds, Edits
  <1>5. n = Idle \/ n = k
    OBVIOUS
  <1>6. PICK m : m = n
    OBVIOUS
  <1>7. m \in JobType /\ JobHolds(m)'
    BY <1>3, <1>4, <1>5, <1>6, IdleHolds
  <1> HIDE DEF n, met
  <1>8. ASSUME NEW q \in Proc, q # p
        PROVE  /\ Other(q) \in JobType
               /\ Other(q).todo = job[q].todo /\ Other(q).aim = job[q].aim
               /\ Other(q).file = job[q].file /\ Other(q).id = job[q].id /\ Other(q).ix = job[q].ix
               /\ Other(q).alone => job[q].alone /\ q \notin met
               /\ job[q].stale \/ job[q].ix \in Deleted(p) => Other(q).stale
    <2>1. job[q] \in JobType
      BY JobFields
    <2>2. PICK a \in BOOLEAN : a = (job[q].alone /\ q \notin met)
      OBVIOUS
    <2>3. PICK s \in BOOLEAN : s = (job[q].stale \/ job[q].ix \in Deleted(p))
      OBVIOUS
    <2>4. Other(q) = [job[q] EXCEPT !.alone = a, !.stale = s]
      BY <2>2, <2>3
    <2> HIDE DEF Other
    <2>5. /\ Other(q) \in JobType
          /\ Other(q).todo = job[q].todo /\ Other(q).aim = job[q].aim
          /\ Other(q).file = job[q].file /\ Other(q).id = job[q].id /\ Other(q).ix = job[q].ix
          /\ Other(q).alone = a /\ Other(q).stale = s
      BY <2>1, <2>4 DEF JobType
    <2>6. QED
      BY <2>2, <2>3, <2>5
  <1> HIDE DEF Other
  <1>9. ConfigTypeOK'
    <2>1. job' \in [Proc -> JobType]
      BY <1>1, <1>6, <1>7, <1>8
    <2>2. trusted' \in [Key -> Files \cup {None}]
      <3>1. j.file \in Files \cup {None}
        BY DEF JobType
      <3>2. trusted \in [Key -> Files \cup {None}]
        BY DEF ConfigInv, ConfigTypeOK
      <3>3. QED
        BY <1>2, <3>1, <3>2
    <2>3. QED
      BY <2>1, <2>2 DEF ConfigTypeOK
  <1>10. ASSUME NEW q \in Proc PROVE JobHolds(job[q])'
    <2>1. CASE q = p
      <3>1. job'[q] = m
        BY <1>1, <1>6, <2>1
      <3>2. QED
        BY <1>7, <3>1
    <2>2. CASE q # p
      <3>1. PICK k1 \in JobType : k1 = job[q] /\ JobHolds(k1)
        BY JobFields
      <3>2. PICK k2 \in JobType : k2 = Other(q)
        BY <1>8, <2>2
      <3>3. /\ k2.todo = k1.todo /\ k2.aim = k1.aim /\ k2.file = k1.file
            /\ k2.id = k1.id /\ k2.ix = k1.ix
            /\ k2.alone => k1.alone /\ q \notin met
            /\ k1.stale \/ k1.ix \in Deleted(p) => k2.stale
        BY <1>8, <2>2, <3>1, <3>2
      <3>4. ~k2.stale => /\ \A t \in Id : tables[t] # None =>
                                   tables'[t] # None /\ tables'[t].key = tables[t].key
                         /\ k1.ix \in Id /\ indexes[k1.ix] # None => indexes'[k1.ix] = indexes[k1.ix]
        BY <3>3
      <3>5. k2.alone => \A t \in Id : tables[t] # None /\ tables[t].key \in k1.aim => Same(t)
        <4> SUFFICES ASSUME k2.alone, NEW t \in Id, tables[t] # None, tables[t].key \in k1.aim
                     PROVE  Same(t)
          OBVIOUS
        <4>1. k1.aim \cap j.aim = {} /\ ~j.stale
          BY <2>2, <3>1, <3>3 DEF met
        <4>2. QED
          BY <4>1
      <3>6. JobHolds(k2)'
        BY <3>1, <3>3, <3>4, <3>5, KeptJob
      <3>7. job'[q] = k2
        BY <1>1, <2>2, <3>2
      <3>8. QED
        BY <3>6, <3>7
    <2>3. QED
      BY <2>1, <2>2
  <1>11. ASSUME NEW c \in Key, trusted'[c] # None PROVE IsTheFile(c)'
    <2>1. CASE FileStored(p) /\ j.alone /\ c = j.file.key
      <3>1. trusted'[c] = j.file /\ j.file # None /\ k.file = j.file /\ k.alone
        BY <1>2, <1>3, <2>1 DEF FileStored
      <3>2. k.todo = <<>> \/ (k.todo # <<>> /\ Head(k.todo).do = "upsert")
        <4>1. Len(job[p].todo) = 1 \/ job[p].todo[2].do = "upsert"
          BY <2>1 DEF FileStored
        <4>2. QED
          BY <1>3, <4>1
      <3>3. ~Edits(k)
        BY <3>1 DEF Edits
      <3>4. PICK left \in 0..3, fs \in Seq(FieldNumbers), ss \in Seq(Segments),
                 xs \in Seq(IndexNumbers), us \in Seq(Files) : Planned(k, left, fs, ss, xs, us)'
        BY <3>3 DEF Imports
      <3>5. Plan(k, left, fs, ss, xs, us)
        BY <3>4 DEF Planned, Plan
      <3>6. left = 0 /\ fs = <<>> /\ ss = <<>> /\ xs = <<>>
        BY <1>3, <3>2, <3>5, FileIsStored
      <3>7. PICK t \in Id : StoredIn(t, k, 0, <<>>, <<>>, <<>>)'
        BY <3>1, <3>4, <3>6 DEF Planned
      <3>8. PICK f : f = k.file
        OBVIOUS
      <3>9. f \in Files
        BY <3>1, <3>8, <1>3 DEF JobType
      <3>10. /\ tables'[t] # None /\ tables'[t].key = c
             /\ tables'[t].header = f.header /\ tables'[t].schema \in {f.schema, ""}
             /\ fields'[t] = Without(f.fields, <<>>)
        <4>1. /\ tables'[t] # None /\ tables'[t].key = k.file.key
              /\ tables'[t].header = k.file.header /\ tables'[t].schema \in {k.file.schema, ""}
          BY <3>7 DEF StoredIn
        <4>2. fields'[t] = Without(k.file.fields, <<>>)
          <5>1. 0 < 2 => fields'[t] = Without(k.file.fields, <<>>)
            BY <3>7 DEF StoredIn
          <5>2. QED
            BY <5>1
        <4>3. QED
          BY <2>1, <3>1, <3>8, <4>1, <4>2
      <3>11. fields'[t] = f.fields
        <4>1. DOMAIN f.fields \ Range(<<>>) = DOMAIN f.fields
          BY DEF Range
        <4>2. f.fields = [x \in DOMAIN f.fields |-> f.fields[x]]
          BY <3>9, FileFacts
        <4>3. Without(f.fields, <<>>) = f.fields
          BY <4>1, <4>2 DEF Without
        <4>4. QED
          BY <3>10, <4>3
      <3>12. IndexesStored(t, f, 0, <<>>, <<>>)'
        <4>1. \A i \in Id : segs'[i] \o <<>> = segs'[i]
          <5>1. \A i \in Id : segs'[i] \in Seq(Segments)
            BY DEF DatabaseTypeOK
          <5>2. \A s \in Seq(Segments) : s \o <<>> = s
            BY ConcatEmptySeq
          <5>3. QED
            BY <5>1, <5>2
        <4>2. \A i \in IndexesOf(t)' : i \in Id
          BY DEF IndexesOf
        <4>3. IndexesStored(t, k.file, k.ix, <<>>, <<>>)'
          BY <3>7 DEF StoredIn
        <4>4. /\ \A i, i2 \in IndexesOf(t)' : indexes'[i].number = indexes'[i2].number => i = i2
              /\ {indexes'[i].number : i \in IndexesOf(t)'} = DOMAIN f.indexes \ Range(<<>>)
              /\ \A i \in IndexesOf(t)' :
                     f.indexes[indexes'[i].number] = IF i = k.ix THEN segs'[i] \o <<>> ELSE segs'[i]
          BY <3>8, <4>3 DEF IndexesStored
        <4>5. \A i \in IndexesOf(t)' : f.indexes[indexes'[i].number] = segs'[i]
          BY <4>1, <4>2, <4>4
        <4>6. \A i \in IndexesOf(t)' :
                  f.indexes[indexes'[i].number] = IF i = 0 THEN segs'[i] \o <<>> ELSE segs'[i]
          BY <4>1, <4>2, <4>5
        <4>7. QED
          BY <4>4, <4>6 DEF IndexesStored
      <3>13. t \in Rows({c})'
        BY <3>10 DEF Rows
      <3>14. trusted'[c] = f
        BY <3>1, <3>8
      <3>15. IndexesStored(t, trusted[c], 0, <<>>, <<>>)'
        BY <3>12, <3>14
      <3>16. QED
        BY <3>10, <3>11, <3>13, <3>14, <3>15 DEF IsTheFile
    <2>2. CASE ~(FileStored(p) /\ j.alone /\ c = j.file.key)
      <3>1. c \notin j.aim /\ ~j.stale /\ trusted'[c] = trusted[c]
        BY <1>2, <1>11, <2>2
      <3>2. IsTheFile(c)
        BY <1>11, <3>1 DEF ConfigInv
      <3>3. \A t \in Id : tables[t] # None /\ tables[t].key = c => Same(t)
        BY <3>1
      <3>4. QED
        BY <3>1, <3>2, <3>3, KeptTrust
    <2>3. QED
      BY <2>1, <2>2
  <1>12. QED
    BY <1>9, <1>10, <1>11 DEF ConfigInv

-----------------------------------------------------------------------------
(***************************************************************************)
(* The statements of an import.                                            *)
(***************************************************************************)
\* All but the first of some numbers, each once.
LEMMA NumberingTail ==
    ASSUME NEW D, NEW s, Numbering(s, D), s # <<>>
    PROVE  /\ Numbering(Tail(s), D) /\ Head(s) \in D /\ Head(s) \in Range(s)
           /\ Range(Tail(s)) = Range(s) \ {Head(s)}
  <1>1. s \in Seq(D) /\ \A a, b \in DOMAIN s : s[a] = s[b] => a = b
    BY DEF Numbering, IsInjective
  <1>2. PICK t \in Seq(D) : t = Tail(s) /\ Len(t) = Len(s) - 1 /\ \A i \in 1..Len(t) : t[i] = s[i+1]
    BY <1>1, HeadTailProperties
  <1>3. /\ DOMAIN s = 1..Len(s) /\ DOMAIN t = 1..Len(t)
        /\ Len(s) \in Nat \ {0} /\ Head(s) = s[1] /\ Len(t) \in Nat
    BY <1>1, <1>2
  <1>4. \A i \in 1..Len(t) : i + 1 \in 1..Len(s) /\ i + 1 # 1
    BY <1>2, <1>3
  <1>5. ASSUME NEW a \in DOMAIN t, NEW b \in DOMAIN t, t[a] = t[b] PROVE a = b
    <2>1. s[a+1] = s[b+1] /\ a + 1 \in DOMAIN s /\ b + 1 \in DOMAIN s
      BY <1>2, <1>3, <1>4, <1>5
    <2>2. a + 1 = b + 1
      BY <1>1, <2>1
    <2>3. QED
      BY <1>3, <2>2
  <1>6. 1 \in DOMAIN s
    BY <1>3
  <1>7. Head(s) \in D /\ Head(s) \in Range(s)
    BY <1>1, <1>3, <1>6 DEF Range
  <1>8. \A x : x \in Range(t) => x \in Range(s) \ {Head(s)}
    <2> SUFFICES ASSUME NEW i \in 1..Len(t) PROVE t[i] \in Range(s) /\ t[i] # Head(s)
      BY <1>3 DEF Range
    <2>1. t[i] = s[i+1] /\ i + 1 \in DOMAIN s /\ i + 1 # 1
      BY <1>2, <1>3, <1>4
    <2>2. t[i] \in Range(s)
      BY <2>1 DEF Range
    <2>3. t[i] # Head(s)
      BY <1>1, <1>3, <1>6, <2>1
    <2>4. QED
      BY <2>2, <2>3
  <1>9. \A x : x \in Range(s) \ {Head(s)} => x \in Range(t)
    <2> SUFFICES ASSUME NEW i \in 1..Len(s), s[i] # Head(s) PROVE s[i] \in Range(t)
      BY <1>3 DEF Range
    <2>1. i # 1 /\ i - 1 \in 1..Len(t) /\ (i - 1) + 1 = i
      BY <1>2, <1>3
    <2>2. s[i] = t[i-1] /\ i - 1 \in DOMAIN t
      <3>1. t[i-1] = s[(i-1)+1]
        BY <1>2, <2>1
      <3>2. QED
        BY <1>3, <2>1, <3>1
    <2>3. QED
      BY <2>2 DEF Range
  <1>10. Numbering(t, D)
    BY <1>5 DEF Numbering, IsInjective
  <1>11. QED
    BY <1>2, <1>7, <1>8, <1>9, <1>10

\* The job j imports; k is what is left of it after its next statement.
GoesOn(j, k, left, fs, ss, xs, us) ==
    /\ j.file \in Files /\ j.file # None
    /\ fs \in Seq(DOMAIN j.file.fields) /\ xs \in Seq(DOMAIN j.file.indexes)
    /\ \/ /\ Head(j.todo).do = "find" /\ left = 3 /\ Plan(k, 2, fs, ss, xs, us)
       \/ /\ Head(j.todo).do = "clearFields" /\ left = 2 /\ Plan(k, 1, fs, ss, xs, us)
       \/ /\ Head(j.todo).do = "clearIndexes" /\ left = 1 /\ Plan(k, 0, fs, ss, xs, us)
       \/ /\ Head(j.todo).do = "field" /\ left = 0 /\ fs # <<>>
          /\ Head(j.todo).num = Head(fs) /\ Head(j.todo).def = j.file.fields[Head(fs)]
          /\ Tail(fs) \in Seq(FieldNumbers)
          /\ Plan(k, 0, Tail(fs), ss, xs, us)
       \/ /\ Head(j.todo).do = "segment" /\ left = 0 /\ fs = <<>> /\ ss # <<>>
          /\ Head(j.todo).def = Head(ss) /\ Tail(ss) \in Seq(Segments)
          /\ Plan(k, 0, fs, Tail(ss), xs, us)
       \/ /\ Head(j.todo).do = "index" /\ left = 0 /\ fs = <<>> /\ ss = <<>> /\ xs # <<>>
          /\ Head(j.todo).num = Head(xs) /\ Tail(xs) \in Seq(IndexNumbers)
          /\ j.file.indexes[Head(xs)] \in Seq(Segments)
          /\ Plan(k, 0, fs, j.file.indexes[Head(xs)], Tail(xs), us)

\* Each statement of an import leaves the plan without it.
LEMMA ImportStep ==
    ASSUME NEW j \in JobType, NEW left \in 0..3, NEW fs \in Seq(FieldNumbers),
           NEW ss \in Seq(Segments), NEW xs \in Seq(IndexNumbers), NEW us \in Seq(Files),
           Plan(j, left, fs, ss, xs, us), j.todo # <<>>, Head(j.todo).do # "upsert",
           NEW k \in JobType, k.todo = Tail(j.todo), k.file = j.file, k.aim = j.aim
    PROVE  GoesOn(j, k, left, fs, ss, xs, us)
  <1> USE DEF GoesOn
  <1> DEFINE f == j.file
             R(l, a, b, c) == Remaining(f, l, a, b, c, us)
  <1>1. /\ f # None => /\ f \in Files
                       /\ fs \in Seq(DOMAIN f.fields)
                       /\ xs \in Seq(DOMAIN f.indexes)
        /\ left = 3 => /\ f # None /\ Head(j.todo).do = "find" /\ Tail(j.todo) = R(2, fs, ss, xs)
        /\ left = 2 => /\ f # None /\ Head(j.todo).do = "clearFields" /\ Tail(j.todo) = R(1, fs, ss, xs)
        /\ left = 1 => /\ f # None /\ Head(j.todo).do = "clearIndexes" /\ Tail(j.todo) = R(0, fs, ss, xs)
        /\ left = 0 /\ fs # <<>> =>
             /\ f # None /\ Head(j.todo).do = "field"
             /\ Head(j.todo).num = Head(fs) /\ Head(j.todo).def = f.fields[Head(fs)]
             /\ Tail(j.todo) = R(0, Tail(fs), ss, xs)
        /\ left = 0 /\ fs = <<>> /\ ss # <<>> =>
             /\ f # None /\ Head(j.todo).do = "segment" /\ Head(j.todo).def = Head(ss)
             /\ Tail(j.todo) = R(0, fs, Tail(ss), xs)
        /\ left = 0 /\ fs = <<>> /\ ss = <<>> /\ xs # <<>> =>
             /\ f # None /\ Head(j.todo).do = "index" /\ Head(j.todo).num = Head(xs)
             /\ Tail(j.todo) = R(0, fs, f.indexes[Head(xs)], Tail(xs))
        /\ left = 0 /\ fs = <<>> /\ ss = <<>> /\ xs = <<>> /\ us # <<>> => Head(j.todo).do = "upsert"
        /\ left = 0 /\ fs = <<>> /\ ss = <<>> /\ xs = <<>> /\ us = <<>> => j.todo = <<>>
    BY NextStatement
  <1>2. left = 0 \/ left = 1 \/ left = 2 \/ left = 3
    OBVIOUS
  <1>3. f \in Files /\ f # None
    BY <1>1, <1>2
  <1>4. /\ j.aim = {f.key}
        /\ Numbering(fs, DOMAIN f.fields) /\ Numbering(xs, DOMAIN f.indexes)
        /\ left > 0 => Range(fs) = DOMAIN f.fields /\ Range(xs) = DOMAIN f.indexes
        /\ left > 0 \/ fs # <<>> => ss = <<>>
    BY <1>3 DEF Plan
  <1>5. fs \in Seq(DOMAIN f.fields) /\ xs \in Seq(DOMAIN f.indexes)
    BY <1>1, <1>3
  <1> HIDE DEF R
  <1>6. CASE left = 3
    <2>1. Plan(k, 2, fs, ss, xs, us)
      BY <1>1, <1>3, <1>4, <1>6 DEF Plan, R
    <2>2. QED
      BY <1>1, <1>3, <1>5, <1>6, <2>1
  <1>7. CASE left = 2
    <2>1. Plan(k, 1, fs, ss, xs, us)
      BY <1>1, <1>3, <1>4, <1>7 DEF Plan, R
    <2>2. QED
      BY <1>1, <1>3, <1>5, <1>7, <2>1
  <1>8. CASE left = 1
    <2>1. Plan(k, 0, fs, ss, xs, us)
      BY <1>1, <1>3, <1>4, <1>8 DEF Plan, R
    <2>2. QED
      BY <1>1, <1>3, <1>5, <1>8, <2>1
  <1>9. CASE left = 0 /\ fs # <<>>
    <2>1. Numbering(Tail(fs), DOMAIN f.fields) /\ Tail(fs) \in Seq(FieldNumbers)
      BY <1>4, <1>9, NumberingTail
    <2>2. Plan(k, 0, Tail(fs), ss, xs, us)
      BY <1>1, <1>3, <1>4, <1>9, <2>1 DEF Plan, R
    <2>3. QED
      BY <1>1, <1>3, <1>5, <1>9, <2>1, <2>2
  <1>10. CASE left = 0 /\ fs = <<>> /\ ss # <<>>
    <2>1. Tail(ss) \in Seq(Segments)
      BY <1>10
    <2>2. Plan(k, 0, fs, Tail(ss), xs, us)
      BY <1>1, <1>3, <1>4, <1>10 DEF Plan, R
    <2>3. QED
      BY <1>1, <1>3, <1>5, <1>10, <2>1, <2>2
  <1>11. CASE left = 0 /\ fs = <<>> /\ ss = <<>> /\ xs # <<>>
    <2>1. Numbering(Tail(xs), DOMAIN f.indexes) /\ Head(xs) \in DOMAIN f.indexes
      BY <1>4, <1>11, NumberingTail
    <2>2. f.indexes[Head(xs)] \in Seq(Segments)
      BY <1>3, <2>1, FileFacts
    <2>3. Tail(xs) \in Seq(IndexNumbers)
      BY <1>11
    <2>4. Plan(k, 0, fs, f.indexes[Head(xs)], Tail(xs), us)
      BY <1>1, <1>3, <1>4, <1>11, <2>1 DEF Plan, R
    <2>5. QED
      BY <1>1, <1>3, <1>5, <1>11, <2>2, <2>3, <2>4
  <1>12. QED
    BY <1>1, <1>2, <1>6, <1>7, <1>8, <1>9, <1>10, <1>11

\* Segments come after their index.
LEMMA BeforeSegments ==
    ASSUME NEW j \in JobType, Imports(j) \/ Edits(j), j.todo # <<>>, Head(j.todo).do # "upsert",
           NEW k, k = [j EXCEPT !.todo = Tail(@)], k.todo # <<>>, Head(k.todo).do = "segment"
    PROVE  Head(j.todo).do \in {"index", "segment"}
  <1>1. k \in JobType /\ k.todo = Tail(j.todo) /\ k.file = j.file /\ k.aim = j.aim
    BY NextJob
  <1>2. CASE Edits(j)
    BY <1>2, EditsGoOn DEF Follows
  <1>3. CASE Imports(j)
    <2>1. PICK left \in 0..3, fs \in Seq(FieldNumbers), ss \in Seq(Segments),
               xs \in Seq(IndexNumbers), us \in Seq(Files) : Plan(j, left, fs, ss, xs, us)
      BY <1>3 DEF Imports, Planned
    <2> SUFFICES ASSUME Head(j.todo).do \notin {"index", "segment"} PROVE FALSE
      OBVIOUS
    <2>0. GoesOn(j, k, left, fs, ss, xs, us)
      BY <1>1, <2>1, ImportStep
    <2>2. ss = <<>>
      <3>1. left > 0 \/ fs # <<>>
        BY <2>0 DEF GoesOn
      <3>2. QED
        BY <2>1, <3>1 DEF Plan
    <2>3. PICK l \in 0..3, gs \in Seq(FieldNumbers) : Plan(k, l, gs, <<>>, xs, us)
      <3>1. \/ Plan(k, 2, fs, ss, xs, us) \/ Plan(k, 1, fs, ss, xs, us) \/ Plan(k, 0, fs, ss, xs, us)
            \/ (Tail(fs) \in Seq(FieldNumbers) /\ Plan(k, 0, Tail(fs), ss, xs, us))
        BY <2>0 DEF GoesOn
      <3>2. 2 \in 0..3 /\ 1 \in 0..3 /\ 0 \in 0..3
        OBVIOUS
      <3>3. QED
        BY <2>2, <3>1, <3>2
    <2>4. <<>> \in Seq(Segments)
      OBVIOUS
    <2>5. /\ l = 3 => Head(k.todo).do = "find"
          /\ l = 2 => Head(k.todo).do = "clearFields"
          /\ l = 1 => Head(k.todo).do = "clearIndexes"
          /\ l = 0 /\ gs # <<>> => Head(k.todo).do = "field"
          /\ l = 0 /\ gs = <<>> /\ xs # <<>> => Head(k.todo).do = "index"
          /\ l = 0 /\ gs = <<>> /\ xs = <<>> /\ us # <<>> => Head(k.todo).do = "upsert"
          /\ l = 0 /\ gs = <<>> /\ xs = <<>> /\ us = <<>> => k.todo = <<>>
      BY <1>1, <2>3, <2>4, NextStatement
    <2>6. l = 0 \/ l = 1 \/ l = 2 \/ l = 3
      OBVIOUS
    <2>7. QED
      BY <2>5, <2>6
  <1>4. QED
    BY <1>2, <1>3

-----------------------------------------------------------------------------
(***************************************************************************)
(* Statements about one table.                                             *)
(***************************************************************************)
\* What a statement does to one table is nothing to another.
LEMMA TouchSame ==
    ASSUME tables' = tables, NEW id,
           \A t \in Id : t # id => fields'[t] = fields[t],
           \A i \in Id : \/ indexes'[i] = indexes[i] /\ segs'[i] = segs[i]
                         \/ /\ indexes[i] # None => indexes[i].table = id
                            /\ indexes'[i] # None => indexes'[i].table = id,
           NEW t \in Id, t # id, tables[t] # None
    PROVE  Same(t)
  <1>1. IndexesOf(t)' = {i \in Id : indexes'[i] # None /\ indexes'[i].table = t}
    BY DEF IndexesOf
  <1>2. ASSUME NEW i \in Id
        PROVE  /\ i \in IndexesOf(t) <=> i \in IndexesOf(t)'
               /\ i \in IndexesOf(t) => indexes'[i] = indexes[i] /\ segs'[i] = segs[i]
    BY <1>1 DEF IndexesOf
  <1>3. \A i : i \in IndexesOf(t) \/ i \in IndexesOf(t)' => i \in Id
    BY <1>1 DEF IndexesOf
  <1>4. IndexesOf(t)' = IndexesOf(t)
    BY <1>2, <1>3
  <1>5. \A i \in IndexesOf(t) : indexes'[i] = indexes[i] /\ segs'[i] = segs[i]
    BY <1>2, <1>3
  <1>6. fields'[t] = fields[t]
    OBVIOUS
  <1>7. QED
    BY <1>4, <1>5, <1>6 DEF Same

\* The largest of some ids is one of them, and an id above all that are taken
\* is free.
LEMMA FreshIsFree ==
    ASSUME NEW rows
    PROVE  /\ \A I \in SUBSET Id : I # {} => Max(I) \in I
           /\ FreshId(rows) \in Id => rows[FreshId(rows)] = None
  <1>1. IsFiniteSet(0..MaxId) /\ MaxId \in Nat
    BY ConfigAssumption, FS_Interval
  <1>2. ASSUME NEW I \in SUBSET (0..MaxId), I # {}
        PROVE  Max(I) \in I /\ \A m \in I : m <= Max(I)
    <2>0. \A m \in 0..MaxId : m \in Nat
      BY <1>1
    <2>1. I \in SUBSET Nat /\ IsFiniteSet(I)
      <3>1. IsFiniteSet(I)
        BY <1>1, FS_Subset
      <3>2. QED
        BY <2>0, <3>1
    <2>2. \E n \in I : \A m \in I : m <= n
      BY <1>2, <2>1, GreatestExists
    <2>3. \E n \in I : \A m \in I : n >= m
      BY <2>1, <2>2
    <2>4. Max(I) \in I /\ \A m \in I : Max(I) >= m
      BY <2>3 DEF Max
    <2>5. QED
      BY <2>1, <2>4
  <1>3. \A I \in SUBSET Id : I \in SUBSET (0..MaxId)
    BY <1>1 DEF Id
  <1>4. ASSUME FreshId(rows) \in Id, rows[FreshId(rows)] # None PROVE FALSE
    <2> DEFINE I == {0} \cup {i \in Id : rows[i] # None}
    <2>1. I \in SUBSET (0..MaxId) /\ I # {} /\ FreshId(rows) \in I
      BY <1>1, <1>4 DEF Id
    <2>2. Max(I) \in I /\ FreshId(rows) <= Max(I)
      BY <1>2, <2>1
    <2>3. FreshId(rows) = 1 + Max(I)
      BY DEF FreshId
    <2> HIDE DEF I
    <2>4. Max(I) \in Nat
      <3>1. Max(I) \in 0..MaxId
        BY <2>1, <2>2
      <3>2. QED
        BY <1>1, <3>1
    <2>5. QED
      BY <2>2, <2>3, <2>4
  <1>5. QED
    BY <1>2, <1>3, <1>4

\* What an import may do next.
LEMMA ImportHeads ==
    ASSUME NEW j \in JobType, Imports(j), j.todo # <<>>
    PROVE  Head(j.todo).do \in {"upsert", "find", "clearFields", "clearIndexes", "field", "segment", "index"}
  <1>1. CASE Head(j.todo).do = "upsert"
    BY <1>1
  <1>2. CASE Head(j.todo).do # "upsert"
    <2>1. PICK left \in 0..3, fs \in Seq(FieldNumbers), ss \in Seq(Segments),
               xs \in Seq(IndexNumbers), us \in Seq(Files) : Plan(j, left, fs, ss, xs, us)
      BY DEF Imports, Planned
    <2>2. PICK k : k = [j EXCEPT !.todo = Tail(@)]
      OBVIOUS
    <2>3. k \in JobType /\ k.todo = Tail(j.todo) /\ k.file = j.file /\ k.aim = j.aim
      BY <2>2, NextJob
    <2>4. GoesOn(j, k, left, fs, ss, xs, us)
      BY <1>2, <2>1, <2>3, ImportStep
    <2>5. QED
      BY <2>4 DEF GoesOn
  <1>3. QED
    BY <1>1, <1>2

\* A statement of p touches the table its job j has found, whose index it may
\* have been told of.
Touches(p, j) ==
    /\ tables' = tables
    /\ \A t \in Id : t # j.id => fields'[t] = fields[t]
    /\ ~j.stale => \A i \in Id :
          \/ indexes'[i] = indexes[i] /\ segs'[i] = segs[i]
          \/ /\ indexes[i] # None => indexes[i].table = j.id
             /\ indexes'[i] # None => indexes'[i].table = j.id
    /\ \A i \in Id : indexes[i] # None /\ i \notin Deleted(p) => indexes'[i] = indexes[i]
    /\ Head(job[p].todo).do \in {"index", "segment"} =>
          j.ix \in Id /\ (~j.stale => indexes'[j.ix] # None /\ indexes'[j.ix].table = j.id)

\* Whatever it tells the job; k is what is left of that.
LEMMA TableStatement ==
    ASSUME ConfigInv, NEW p \in Proc, job[p].todo # <<>>, Head(job[p].todo).do \in OfTable,
           NEW x \in 0..MaxId, NEW j, j = [job[p] EXCEPT !.ix = x],
           Wrote(p, j), NEW k, k = [j EXCEPT !.todo = Tail(@)],
           Touches(p, j), DatabaseTypeOK', NoStraySegments',
           Imports(job[p]) => Imports(k)'
    PROVE  ConfigInv'
  <1>1. PICK j0 : j0 = job[p]
    OBVIOUS
  <1>2. j0 \in JobType /\ JobHolds(j0)
    BY <1>1, JobFields
  <1>3. /\ j \in JobType /\ j.todo = j0.todo /\ j.aim = j0.aim /\ j.file = j0.file
        /\ j.id = j0.id /\ j.ix = x /\ j.alone = j0.alone /\ j.stale = j0.stale
    BY <1>1, <1>2 DEF JobType
  <1>4. /\ k \in JobType /\ k.todo = Tail(j.todo)
        /\ k.aim = j.aim /\ k.file = j.file /\ k.id = j.id /\ k.ix = j.ix
        /\ k.alone = j.alone /\ k.stale = j.stale
    BY <1>1, <1>3, NextJob
  <1>5. j0.id \in Id /\ (~j0.stale => tables[j0.id] # None /\ tables[j0.id].key \in j0.aim)
    BY <1>1, <1>2 DEF JobHolds, IdsHold
  <1>6. Imports(k)' \/ Edits(k)
    <2>1. CASE Imports(j0)
      BY <1>1, <2>1
    <2>2. CASE Edits(j0)
      <3>1. Edits(j)
        BY <1>3, <2>2 DEF Edits
      <3>2. QED
        BY <1>1, <1>3, <3>1, EditsGoOn
    <2>3. QED
      BY <1>2, <2>1, <2>2 DEF JobHolds
  <1> USE DEF Touches
  <1>7. IdsHold(k)'
    <2> SUFFICES ASSUME k.todo # <<>> PROVE IdsHold(k)'
      BY DEF IdsHold
    <2>1. k.id \in Id /\ (~k.stale => tables'[k.id] # None /\ tables'[k.id].key \in k.aim)
      BY <1>3, <1>4, <1>5
    <2>2. ASSUME Head(k.todo).do = "segment"
          PROVE  k.ix \in Id /\ (~k.stale => indexes'[k.ix] # None /\ indexes'[k.ix].table = k.id)
      <3>1. PICK k0 : k0 = [j0 EXCEPT !.todo = Tail(@)]
        OBVIOUS
      <3>2. k0.todo = k.todo
        BY <1>1, <1>2, <1>3, <1>4, <3>1, NextJob
      <3>3. Head(j0.todo).do # "upsert"
        BY <1>1 DEF OfTable
      <3>4. Head(j0.todo).do \in {"index", "segment"}
        <4>1. (Imports(j0) \/ Edits(j0)) /\ j0.todo # <<>>
          BY <1>1, <1>2 DEF JobHolds
        <4>2. k0.todo # <<>> /\ Head(k0.todo).do = "segment"
          BY <2>2, <3>2
        <4>3. QED
          BY <1>2, <3>1, <3>3, <4>1, <4>2, BeforeSegments
      <3>5. QED
        BY <1>1, <1>3, <1>4, <3>4
    <2>3. QED
      BY <2>1, <2>2 DEF IdsHold
  <1>8. \A t \in Id : tables[t] # None => tables'[t] # None /\ tables'[t].key = tables[t].key
    OBVIOUS
  <1>9. ~j.stale => \A t \in Id : tables[t] # None /\ tables[t].key \notin j.aim => Same(t)
    <2> SUFFICES ASSUME ~j.stale, NEW t \in Id, tables[t] # None, tables[t].key \notin j.aim
                 PROVE  Same(t)
      OBVIOUS
    <2>1. t # j.id
      BY <1>3, <1>5
    <2>2. QED
      BY <2>1, TouchSame
  <1>10. FileStored(p) => job[p].file = j.file
    BY <1>1, <1>3
  <1>11. KeysAreUnique'
    BY DEF ConfigInv, KeysAreUnique
  <1>12. j.todo # <<>> /\ j.todo = job[p].todo
    BY <1>1, <1>3
  <1> HIDE DEF Same, FileStored, Deleted
  <1>13. QED
    BY <1>3, <1>6, <1>7, <1>8, <1>9, <1>10, <1>11, <1>12, WroteHolds

\* A job at a statement, and what is left of it afterwards.
LEMMA AtStatement ==
    ASSUME ConfigInv, NEW p \in Proc, NEW what, Doing(p, what),
           NEW j, j = job[p], NEW k, k = [j EXCEPT !.todo = Tail(@)]
    PROVE  /\ j \in JobType /\ JobHolds(j) /\ j.todo # <<>> /\ Head(j.todo).do = what
           /\ k \in JobType /\ k.todo = Tail(j.todo)
           /\ k.aim = j.aim /\ k.file = j.file /\ k.id = j.id /\ k.ix = j.ix
           /\ k.alone = j.alone /\ k.stale = j.stale
           /\ j.ix \in 0..MaxId /\ j = [j EXCEPT !.ix = j.ix]
  <1>1. j \in JobType /\ JobHolds(j) /\ j.todo # <<>> /\ Head(j.todo).do = what
    BY JobFields DEF Doing, Now
  <1>2. /\ k \in JobType /\ k.todo = Tail(j.todo)
        /\ k.aim = j.aim /\ k.file = j.file /\ k.id = j.id /\ k.ix = j.ix
        /\ k.alone = j.alone /\ k.stale = j.stale
    BY <1>1, NextJob
  <1>3. j.ix \in 0..MaxId /\ j = [j EXCEPT !.ix = j.ix]
    BY <1>1 DEF JobType
  <1>4. QED
    BY <1>1, <1>2, <1>3

\* A statement about the fields of the table.
LEMMA FieldStatement ==
    ASSUME ConfigInv, NEW p \in Proc, NEW what \in {"clearFields", "field", "putField", "dropField"},
           Doing(p, what), Wrote(p, job[p]), tables' = tables, indexes' = indexes, segs' = segs,
           NEW v, fields' = [fields EXCEPT ![job[p].id] = v],
           NEW k, k = [job[p] EXCEPT !.todo = Tail(@)],
           Imports(job[p]) => Imports(k)'
    PROVE  ConfigInv'
  <1>1. PICK j : j = job[p]
    OBVIOUS
  <1>2. /\ j \in JobType /\ j.todo # <<>> /\ Head(j.todo).do = what
        /\ j.ix \in 0..MaxId /\ j = [j EXCEPT !.ix = j.ix]
    BY <1>1, AtStatement
  <1>3. what \in OfTable /\ what \notin {"index", "segment"}
    BY DEF OfTable
  <1>4. fields \in [Id -> {fields[i] : i \in Id}]
    BY DEF ConfigInv, ConfigTypeOK, DatabaseTypeOK
  <1>5. fields' \in [Id -> {fields'[i] : i \in Id}]
    BY <1>4
  <1>6. \A t \in Id : t # j.id => fields'[t] = fields[t]
    BY <1>1, <1>4
  <1>7. DatabaseTypeOK' /\ NoStraySegments'
    BY <1>5 DEF ConfigInv, ConfigTypeOK, DatabaseTypeOK, NoStraySegments
  <1>8. /\ Wrote(p, j) /\ k = [j EXCEPT !.todo = Tail(@)]
        /\ job[p].todo # <<>> /\ Head(job[p].todo).do \in OfTable
        /\ Head(job[p].todo).do \notin {"index", "segment"}
        /\ j = [job[p] EXCEPT !.ix = j.ix] /\ (Imports(job[p]) => Imports(k)')
    BY <1>1, <1>2, <1>3
  <1>9. PICK x \in 0..MaxId : j = [job[p] EXCEPT !.ix = x]
    BY <1>2, <1>8
  <1>10. Touches(p, j)
    BY <1>6, <1>8 DEF Touches
  <1> HIDE DEF Deleted, Wrote, Imports, ConfigInv, DatabaseTypeOK, NoStraySegments
  <1>11. QED
    BY <1>7, <1>8, <1>9, <1>10, TableStatement

\* Out with the old fields.
LEMMA ClearFieldsHolds ==
    ASSUME ConfigInv, NEW p \in Proc, ClearFields(p)
    PROVE  ConfigInv'
  <1>1. PICK j, k : j = job[p] /\ k = [j EXCEPT !.todo = Tail(@)]
    OBVIOUS
  <1>2. Doing(p, "clearFields")
    BY DEF ClearFields
  <1>3. /\ j \in JobType /\ j.todo # <<>> /\ Head(j.todo).do = "clearFields"
        /\ k \in JobType /\ k.todo = Tail(j.todo)
        /\ k.aim = j.aim /\ k.file = j.file /\ k.id = j.id /\ k.ix = j.ix
        /\ k.alone = j.alone /\ k.stale = j.stale
    BY <1>1, <1>2, AtStatement
  <1>4. Imports(j) => Imports(k)'
    <2> SUFFICES ASSUME Imports(j) PROVE Imports(k)'
      OBVIOUS
    <2>1. PICK left \in 0..3, fs \in Seq(FieldNumbers), ss \in Seq(Segments),
               xs \in Seq(IndexNumbers), us \in Seq(Files) : Planned(j, left, fs, ss, xs, us)
      BY DEF Imports
    <2>2. Plan(j, left, fs, ss, xs, us)
      BY <2>1 DEF Planned
    <2>3. GoesOn(j, k, left, fs, ss, xs, us)
      BY <1>3, <2>2, ImportStep
    <2>4. left = 2 /\ Plan(k, 1, fs, ss, xs, us) /\ j.file # None /\ j.file \in Files
      BY <1>3, <2>3 DEF GoesOn
    <2>5. ASSUME k.alone PROVE k.file # None /\ \E t \in Id : StoredIn(t, k, 1, fs, ss, xs)'
      <3>1. PICK t \in Id : StoredIn(t, j, 2, fs, ss, xs)
        BY <1>3, <2>1, <2>4, <2>5 DEF Planned
      <3>2. /\ tables[t] # None /\ tables[t].key = j.file.key
            /\ tables[t].header = j.file.header /\ tables[t].schema \in {j.file.schema, ""}
        BY <3>1 DEF StoredIn
      <3>3. j.id = t
        <4>1. 2 < 3 => j.id = t
          BY <3>1 DEF StoredIn
        <4>2. QED
          BY <4>1
      <3>4. DOMAIN j.file.fields \ Range(fs) = {}
        BY <2>2, <2>4 DEF Plan
      <3>5. Without(j.file.fields, fs) = <<>>
        BY <3>4 DEF Without
      <3>6. fields'[t] = <<>> /\ tables' = tables
        BY <1>1, <3>3 DEF ClearFields, Nothing, ConfigInv, ConfigTypeOK, DatabaseTypeOK
      <3>7. ~(1 = 0)
        OBVIOUS
      <3>8. StoredIn(t, k, 1, fs, ss, xs)'
        BY <1>3, <3>2, <3>3, <3>5, <3>6, <3>7 DEF StoredIn
      <3>9. QED
        BY <1>3, <2>4, <3>8
    <2>6. Plan(k, 1, fs, ss, xs, us)' /\ 1 \in 0..3
      BY <2>4 DEF Plan
    <2>7. Planned(k, 1, fs, ss, xs, us)'
      BY <2>5, <2>6 DEF Planned
    <2>8. QED
      BY <2>6, <2>7 DEF Imports
  <1>5. PICK v : v = Nothing
    OBVIOUS
  <1>6. /\ Wrote(p, job[p]) /\ tables' = tables /\ indexes' = indexes /\ segs' = segs
        /\ fields' = [fields EXCEPT ![job[p].id] = v]
    BY <1>5 DEF ClearFields
  <1>7. QED
    BY <1>1, <1>2, <1>4, <1>6, FieldStatement

\* One field more.
LEMMA InsertFieldHolds ==
    ASSUME ConfigInv, NEW p \in Proc, InsertField(p)
    PROVE  ConfigInv'
  <1>1. PICK j, k : j = job[p] /\ k = [j EXCEPT !.todo = Tail(@)]
    OBVIOUS
  <1>2. Doing(p, "field")
    BY DEF InsertField
  <1>3. /\ j \in JobType /\ j.todo # <<>> /\ Head(j.todo).do = "field"
        /\ k \in JobType /\ k.todo = Tail(j.todo)
        /\ k.aim = j.aim /\ k.file = j.file /\ k.id = j.id /\ k.ix = j.ix
        /\ k.alone = j.alone /\ k.stale = j.stale
    BY <1>1, <1>2, AtStatement
  <1>4. PICK v : v = Defined(fields[j.id], Head(j.todo).num, Head(j.todo).def)
    OBVIOUS
  <1>5. /\ Wrote(p, job[p]) /\ tables' = tables /\ indexes' = indexes /\ segs' = segs
        /\ fields' = [fields EXCEPT ![job[p].id] = v]
    BY <1>1, <1>4 DEF InsertField, Now
  <1>6. Imports(j) => Imports(k)'
    <2> SUFFICES ASSUME Imports(j) PROVE Imports(k)'
      OBVIOUS
    <2>1. PICK left \in 0..3, fs \in Seq(FieldNumbers), ss \in Seq(Segments),
               xs \in Seq(IndexNumbers), us \in Seq(Files) : Planned(j, left, fs, ss, xs, us)
      BY DEF Imports
    <2>2. Plan(j, left, fs, ss, xs, us)
      BY <2>1 DEF Planned
    <2>3. GoesOn(j, k, left, fs, ss, xs, us)
      BY <1>3, <2>2, ImportStep
    <2>4. /\ left = 0 /\ fs # <<>> /\ j.file # None /\ j.file \in Files
          /\ Head(j.todo).num = Head(fs) /\ Head(j.todo).def = j.file.fields[Head(fs)]
          /\ Tail(fs) \in Seq(FieldNumbers) /\ Plan(k, 0, Tail(fs), ss, xs, us)
      BY <1>3, <2>3 DEF GoesOn
    <2>5. ASSUME k.alone PROVE k.file # None /\ \E t \in Id : StoredIn(t, k, 0, Tail(fs), ss, xs)'
      <3>1. PICK t \in Id : StoredIn(t, j, 0, fs, ss, xs)
        BY <1>3, <2>1, <2>4, <2>5 DEF Planned
      <3>2. /\ tables[t] # None /\ tables[t].key = j.file.key
            /\ tables[t].header = j.file.header /\ tables[t].schema \in {j.file.schema, ""}
        BY <3>1 DEF StoredIn
      <3>3. j.id = t /\ fields[t] = Without(j.file.fields, fs) /\ IndexesStored(t, j.file, j.ix, ss, xs)
        <4>1. /\ 0 < 3 => j.id = t
              /\ 0 < 2 => fields[t] = Without(j.file.fields, fs)
              /\ 0 = 0 => IndexesStored(t, j.file, j.ix, ss, xs)
          BY <3>1 DEF StoredIn
        <4>2. QED
          BY <4>1
      <3>4. /\ Head(fs) \in DOMAIN j.file.fields /\ Head(fs) \in Range(fs)
            /\ Range(Tail(fs)) = Range(fs) \ {Head(fs)}
        BY <2>2, <2>4, NumberingTail DEF Plan
      <3>5. v = Without(j.file.fields, Tail(fs))
        <4> DEFINE A == DOMAIN j.file.fields \ Range(fs)
                   B == DOMAIN j.file.fields \ Range(Tail(fs))
                   g == Without(j.file.fields, fs)
        <4>1. g = [n \in A |-> j.file.fields[n]]
          BY DEF Without
        <4>2. B = A \cup {Head(fs)} /\ Head(fs) \notin A
          BY <3>4
        <4> HIDE DEF A, B, g
        <4>3. v = [n \in DOMAIN g \cup {Head(fs)} |-> IF n = Head(fs) THEN j.file.fields[Head(fs)] ELSE g[n]]
          BY <1>4, <2>4, <3>3 DEF Defined, g
        <4>4. v = [n \in B |-> j.file.fields[n]]
          BY <4>1, <4>2, <4>3
        <4>5. QED
          BY <4>4 DEF Without, B
      <3>6. fields'[t] = v
        BY <1>1, <1>5, <3>3 DEF ConfigInv, ConfigTypeOK, DatabaseTypeOK
      <3>7. IndexesStored(t, k.file, k.ix, ss, xs)'
        BY <1>3, <1>5, <3>3 DEF IndexesStored, IndexesOf
      <3>8. StoredIn(t, k, 0, Tail(fs), ss, xs)'
        BY <1>3, <1>5, <3>2, <3>3, <3>5, <3>6, <3>7 DEF StoredIn
      <3>9. QED
        BY <1>3, <2>4, <3>8
    <2>6. Plan(k, 0, Tail(fs), ss, xs, us)' /\ 0 \in 0..3
      BY <2>4 DEF Plan
    <2>7. Planned(k, 0, Tail(fs), ss, xs, us)'
      BY <2>5, <2>6 DEF Planned
    <2>8. QED
      BY <2>4, <2>6, <2>7 DEF Imports
  <1>7. QED
    BY <1>1, <1>2, <1>5, <1>6, FieldStatement

\* add-field and rm-field import nothing.
LEMMA PutFieldHolds ==
    ASSUME ConfigInv, NEW p \in Proc, UpsertField(p) \/ DeleteField(p)
    PROVE  ConfigInv'
  <1>1. PICK j, k : j = job[p] /\ k = [j EXCEPT !.todo = Tail(@)]
    OBVIOUS
  <1>2. PICK what \in {"putField", "dropField"} : Doing(p, what)
    BY DEF UpsertField, DeleteField
  <1>3. j \in JobType /\ j.todo # <<>> /\ Head(j.todo).do = what
    BY <1>1, <1>2, AtStatement
  <1>4. ~Imports(j)
    BY <1>2, <1>3, ImportHeads
  <1>5. PICK v : fields' = [fields EXCEPT ![job[p].id] = v]
    BY DEF UpsertField, DeleteField
  <1>6. Wrote(p, job[p]) /\ tables' = tables /\ indexes' = indexes /\ segs' = segs
    BY DEF UpsertField, DeleteField
  <1>7. QED
    BY <1>1, <1>2, <1>4, <1>5, <1>6, FieldStatement

\* Indexes are deleted with their segments, and no others.
LEMMA IndexesGo ==
    ASSUME ConfigInv, NEW p \in Proc, NEW what \in {"clearIndexes", "clearIndex", "dropIndex"},
           Doing(p, what), WithoutIndexes(Deleted(p)), Wrote(p, job[p]),
           tables' = tables, fields' = fields,
           NEW k, k = [job[p] EXCEPT !.todo = Tail(@)],
           Imports(job[p]) => Imports(k)'
    PROVE  ConfigInv'
  <1>1. PICK j : j = job[p]
    OBVIOUS
  <1>2. /\ j \in JobType /\ j.todo # <<>> /\ Head(j.todo).do = what
        /\ j.ix \in 0..MaxId /\ j = [j EXCEPT !.ix = j.ix]
    BY <1>1, AtStatement
  <1>3. PICK I : I = Deleted(p)
    OBVIOUS
  <1>4. \A i \in I : i \in Id /\ indexes[i] # None /\ indexes[i].table = j.id
    <2>1. I = IndexesOf(j.id) \/ I = Numbered(p)
      BY <1>1, <1>2, <1>3 DEF Deleted, Doing, Now
    <2>2. \A i \in I : i \in IndexesOf(j.id)
      BY <1>1, <2>1 DEF Numbered
    <2>3. QED
      BY <2>2 DEF IndexesOf
  <1>5. /\ indexes' = [i \in Id |-> IF i \in I THEN None ELSE indexes[i]]
        /\ segs' = [i \in Id |-> IF i \in I THEN <<>> ELSE segs[i]]
    BY <1>3 DEF WithoutIndexes
  <1>6. Touches(p, j)
    <2>1. what \notin {"index", "segment"}
      OBVIOUS
    <2>2. ASSUME NEW i \in Id
          PROVE  /\ \/ indexes'[i] = indexes[i] /\ segs'[i] = segs[i]
                    \/ /\ indexes[i] # None => indexes[i].table = j.id
                       /\ indexes'[i] # None => indexes'[i].table = j.id
                 /\ indexes[i] # None /\ i \notin Deleted(p) => indexes'[i] = indexes[i]
      BY <1>3, <1>4, <1>5
    <2> HIDE DEF Deleted
    <2>3. QED
      BY <1>1, <1>2, <2>1, <2>2 DEF Touches
  <1>7. DatabaseTypeOK' /\ NoStraySegments'
    <2>1. /\ tables \in [Id -> TableRow \cup {None}] /\ fields \in [Id -> {fields[i] : i \in Id}]
          /\ indexes \in [Id -> IndexRow \cup {None}] /\ segs \in [Id -> Seq(Segments)]
      BY DEF ConfigInv, ConfigTypeOK, DatabaseTypeOK
    <2>2. <<>> \in Seq(Segments)
      OBVIOUS
    <2>3. indexes' \in [Id -> IndexRow \cup {None}] /\ segs' \in [Id -> Seq(Segments)]
      BY <1>5, <2>1, <2>2
    <2>4. NoStraySegments'
      BY <1>5 DEF ConfigInv, NoStraySegments
    <2>5. QED
      BY <2>1, <2>3, <2>4 DEF DatabaseTypeOK
  <1>8. /\ Wrote(p, j) /\ k = [j EXCEPT !.todo = Tail(@)]
        /\ job[p].todo # <<>> /\ Head(job[p].todo).do \in OfTable
        /\ (Imports(job[p]) => Imports(k)')
    BY <1>1, <1>2 DEF OfTable
  <1>9. PICK x \in 0..MaxId : j = [job[p] EXCEPT !.ix = x]
    BY <1>1, <1>2
  <1> HIDE DEF Deleted, Wrote, Imports, ConfigInv, DatabaseTypeOK, NoStraySegments
  <1>10. QED
    BY <1>6, <1>7, <1>8, <1>9, TableStatement

\* Out with the old indexes.
LEMMA ClearIndexesHolds ==
    ASSUME ConfigInv, NEW p \in Proc, ClearIndexes(p)
    PROVE  ConfigInv'
  <1>1. PICK j, k : j = job[p] /\ k = [j EXCEPT !.todo = Tail(@)]
    OBVIOUS
  <1>2. Doing(p, "clearIndexes")
    BY DEF ClearIndexes
  <1>3. /\ j \in JobType /\ j.todo # <<>> /\ Head(j.todo).do = "clearIndexes"
        /\ k \in JobType /\ k.todo = Tail(j.todo)
        /\ k.aim = j.aim /\ k.file = j.file /\ k.id = j.id /\ k.ix = j.ix
        /\ k.alone = j.alone /\ k.stale = j.stale
    BY <1>1, <1>2, AtStatement
  <1>4. WithoutIndexes(Deleted(p)) /\ Wrote(p, job[p]) /\ tables' = tables /\ fields' = fields
    BY DEF ClearIndexes
  <1>5. Deleted(p) = IndexesOf(j.id)
    BY <1>1, <1>2 DEF Deleted, Doing, Now
  <1>6. Imports(j) => Imports(k)'
    <2> SUFFICES ASSUME Imports(j) PROVE Imports(k)'
      OBVIOUS
    <2>1. PICK left \in 0..3, fs \in Seq(FieldNumbers), ss \in Seq(Segments),
               xs \in Seq(IndexNumbers), us \in Seq(Files) : Planned(j, left, fs, ss, xs, us)
      BY DEF Imports
    <2>2. Plan(j, left, fs, ss, xs, us)
      BY <2>1 DEF Planned
    <2>3. GoesOn(j, k, left, fs, ss, xs, us)
      BY <1>3, <2>2, ImportStep
    <2>4. left = 1 /\ Plan(k, 0, fs, ss, xs, us) /\ j.file # None /\ j.file \in Files
      BY <1>3, <2>3 DEF GoesOn
    <2>5. ASSUME k.alone PROVE k.file # None /\ \E t \in Id : StoredIn(t, k, 0, fs, ss, xs)'
      <3>1. PICK t \in Id : StoredIn(t, j, 1, fs, ss, xs)
        BY <1>3, <2>1, <2>4, <2>5 DEF Planned
      <3>2. /\ tables[t] # None /\ tables[t].key = j.file.key
            /\ tables[t].header = j.file.header /\ tables[t].schema \in {j.file.schema, ""}
        BY <3>1 DEF StoredIn
      <3>3. j.id = t /\ fields[t] = Without(j.file.fields, fs)
        <4>1. (1 < 3 => j.id = t) /\ (1 < 2 => fields[t] = Without(j.file.fields, fs))
          BY <3>1 DEF StoredIn
        <4>2. QED
          BY <4>1
      <3>4. ss = <<>> /\ DOMAIN j.file.indexes \ Range(xs) = {}
        BY <2>2, <2>4 DEF Plan
      <3>5. IndexesOf(t)' = {}
        <4>1. \A i \in Id : i \in IndexesOf(t) => indexes'[i] = None
          BY <1>4, <1>5, <3>3 DEF WithoutIndexes
        <4>2. \A i \in Id : i \notin IndexesOf(t) => indexes'[i] = indexes[i]
          BY <1>4, <1>5, <3>3 DEF WithoutIndexes
        <4>3. QED
          BY <4>1, <4>2 DEF IndexesOf
      <3>6. IndexesStored(t, k.file, k.ix, ss, xs)'
        BY <1>3, <3>4, <3>5 DEF IndexesStored
      <3>7. StoredIn(t, k, 0, fs, ss, xs)'
        BY <1>3, <1>4, <3>2, <3>3, <3>6 DEF StoredIn
      <3>8. QED
        BY <1>3, <2>4, <3>7
    <2>6. Plan(k, 0, fs, ss, xs, us)' /\ 0 \in 0..3
      BY <2>4 DEF Plan
    <2>7. Planned(k, 0, fs, ss, xs, us)'
      BY <2>5, <2>6 DEF Planned
    <2>8. QED
      BY <2>6, <2>7 DEF Imports
  <1>7. QED
    BY <1>1, <1>2, <1>4, <1>6, IndexesGo

\* add-index and rm-index import nothing.
LEMMA DeleteIndexHolds ==
    ASSUME ConfigInv, NEW p \in Proc, DeleteIndex(p)
    PROVE  ConfigInv'
  <1>1. PICK j, k : j = job[p] /\ k = [j EXCEPT !.todo = Tail(@)]
    OBVIOUS
  <1>2. PICK what \in {"clearIndex", "dropIndex"} : Doing(p, what)
    BY DEF DeleteIndex
  <1>3. j \in JobType /\ j.todo # <<>> /\ Head(j.todo).do = what
    BY <1>1, <1>2, AtStatement
  <1>4. ~Imports(j)
    BY <1>2, <1>3, ImportHeads
  <1>5. WithoutIndexes(Deleted(p)) /\ Wrote(p, job[p]) /\ tables' = tables /\ fields' = fields
    BY DEF DeleteIndex
  <1>6. QED
    BY <1>1, <1>2, <1>4, <1>5, IndexesGo

\* One index more, under an id that is free.
LEMMA InsertIndexHolds ==
    ASSUME ConfigInv, NEW p \in Proc, InsertIndex(p)
    PROVE  ConfigInv'
  <1>1. Doing(p, "index")
    BY DEF InsertIndex
  <1>2. PICK j0, k0 : j0 = job[p] /\ k0 = [j0 EXCEPT !.todo = Tail(@)]
    OBVIOUS
  <1>3. /\ j0 \in JobType /\ JobHolds(j0) /\ j0.todo # <<>> /\ Head(j0.todo).do = "index"
        /\ k0 \in JobType /\ k0.todo = Tail(j0.todo) /\ k0.aim = j0.aim /\ k0.file = j0.file
    BY <1>1, <1>2, AtStatement
  <1>4. PICK x : x = FreshId(indexes)
    OBVIOUS
  <1>5. PICK n : n = Head(j0.todo).num
    OBVIOUS
  <1>6. /\ x \in Id /\ Numbered(p) = {}
        /\ indexes' = [indexes EXCEPT ![x] = [table |-> j0.id, number |-> n]]
        /\ Wrote(p, [job[p] EXCEPT !.ix = x])
        /\ tables' = tables /\ fields' = fields /\ segs' = segs
    BY <1>2, <1>4, <1>5 DEF InsertIndex, Now
  <1>7. x \in 0..MaxId
    BY <1>6, ConfigAssumption DEF Id
  <1>8. PICK j, k : j = [j0 EXCEPT !.ix = x] /\ k = [j EXCEPT !.todo = Tail(@)]
    OBVIOUS
  <1>9. /\ j \in JobType /\ j.todo = j0.todo /\ j.aim = j0.aim /\ j.file = j0.file
        /\ j.id = j0.id /\ j.ix = x /\ j.alone = j0.alone /\ j.stale = j0.stale
    BY <1>3, <1>7, <1>8 DEF JobType
  <1>10. /\ k \in JobType /\ k.todo = Tail(j.todo)
         /\ k.aim = j.aim /\ k.file = j.file /\ k.id = j.id /\ k.ix = j.ix
         /\ k.alone = j.alone /\ k.stale = j.stale
    BY <1>3, <1>8, <1>9, NextJob
  <1>11. indexes[x] = None /\ segs[x] = <<>>
    <2>1. indexes[x] = None
      BY <1>4, <1>6, FreshIsFree
    <2>2. QED
      BY <1>6, <2>1 DEF ConfigInv, NoStraySegments
  <1>12. /\ tables \in [Id -> TableRow \cup {None}] /\ fields \in [Id -> {fields[i] : i \in Id}]
         /\ indexes \in [Id -> IndexRow \cup {None}] /\ segs \in [Id -> Seq(Segments)]
    BY DEF ConfigInv, ConfigTypeOK, DatabaseTypeOK
  <1>13. j0.id \in Id
    BY <1>3 DEF JobHolds, IdsHold, OfTable
  <1>14. n \in IndexNumbers
    <2>1. Head(j0.todo) \in Statements
      BY <1>3 DEF JobType
    <2>2. QED
      BY <1>3, <1>5, <2>1 DEF Statements
  <1>15. PICK row : row = [table |-> j0.id, number |-> n]
    OBVIOUS
  <1>16. row \in IndexRow /\ row # None /\ row.table = j0.id /\ row.number = n
    <2>1. row \in IndexRow
      BY <1>13, <1>14, <1>15 DEF IndexRow, IndexNumbers
    <2>2. QED
      BY <1>15, <2>1, ConfigAssumption
  <1>17. indexes' = [indexes EXCEPT ![x] = row]
    BY <1>6, <1>15
  <1>18. indexes'[x] = row /\ \A i \in Id : i # x => indexes'[i] = indexes[i]
    BY <1>6, <1>12, <1>17
  <1>19. Touches(p, j)
    BY <1>2, <1>3, <1>6, <1>9, <1>11, <1>16, <1>18 DEF Touches
  <1>20. DatabaseTypeOK' /\ NoStraySegments'
    <2>1. indexes' \in [Id -> IndexRow \cup {None}]
      BY <1>12, <1>16, <1>17
    <2>2. \A i \in Id : indexes'[i] = None => segs'[i] = <<>>
      BY <1>6, <1>16, <1>18 DEF ConfigInv, NoStraySegments
    <2>3. QED
      BY <1>6, <1>12, <2>1, <2>2 DEF DatabaseTypeOK, NoStraySegments
  <1>21. Imports(j0) => Imports(k)'
    <2> SUFFICES ASSUME Imports(j0) PROVE Imports(k)'
      OBVIOUS
    <2>1. PICK left \in 0..3, fs \in Seq(FieldNumbers), ss \in Seq(Segments),
               xs \in Seq(IndexNumbers), us \in Seq(Files) : Planned(j0, left, fs, ss, xs, us)
      BY DEF Imports
    <2>2. Plan(j0, left, fs, ss, xs, us)
      BY <2>1 DEF Planned
    <2>3. GoesOn(j0, k, left, fs, ss, xs, us)
      BY <1>3, <1>9, <1>10, <2>2, ImportStep
    <2>4. PICK new : new = j0.file.indexes[Head(xs)]
      OBVIOUS
    <2>5. /\ left = 0 /\ fs = <<>> /\ ss = <<>> /\ xs # <<>> /\ j0.file # None /\ j0.file \in Files
          /\ n = Head(xs) /\ Tail(xs) \in Seq(IndexNumbers)
          /\ new \in Seq(Segments) /\ Plan(k, 0, fs, new, Tail(xs), us)
      BY <1>3, <1>5, <2>3, <2>4 DEF GoesOn
    <2>6. ASSUME k.alone PROVE k.file # None /\ \E t \in Id : StoredIn(t, k, 0, fs, new, Tail(xs))'
      <3>1. PICK t \in Id : StoredIn(t, j0, 0, fs, ss, xs)
        BY <1>9, <1>10, <2>1, <2>5, <2>6 DEF Planned
      <3>2. /\ tables[t] # None /\ tables[t].key = j0.file.key
            /\ tables[t].header = j0.file.header /\ tables[t].schema \in {j0.file.schema, ""}
        BY <3>1 DEF StoredIn
      <3>3. j0.id = t /\ fields[t] = Without(j0.file.fields, fs)
            /\ IndexesStored(t, j0.file, j0.ix, <<>>, xs)
        <4>1. /\ 0 < 3 => j0.id = t
              /\ 0 < 2 => fields[t] = Without(j0.file.fields, fs)
              /\ 0 = 0 => IndexesStored(t, j0.file, j0.ix, <<>>, xs)
          BY <2>5, <3>1 DEF StoredIn
        <4>2. QED
          BY <4>1
      <3>4. PICK f : f = j0.file
        OBVIOUS
      <3>5. /\ n \in DOMAIN f.indexes /\ n \in Range(xs)
            /\ Range(Tail(xs)) = Range(xs) \ {n}
        BY <2>2, <2>5, <3>4, NumberingTail DEF Plan
      <3>6. PICK I : I = IndexesOf(t)
        OBVIOUS
      <3>7. /\ \A i1, i2 \in I : indexes[i1].number = indexes[i2].number => i1 = i2
            /\ {indexes[i].number : i \in I} = DOMAIN f.indexes \ Range(xs)
            /\ \A i \in I : f.indexes[indexes[i].number] = IF i = j0.ix THEN segs[i] \o <<>> ELSE segs[i]
        BY <3>3, <3>4, <3>6 DEF IndexesStored
      <3>8. I \subseteq Id /\ x \notin I
        BY <1>11, <3>6 DEF IndexesOf
      <3>9. IndexesOf(t)' = I \cup {x}
        <4>1. \A i \in Id : i \in IndexesOf(t)' <=> i \in I \cup {x}
          BY <1>16, <1>18, <3>3, <3>6 DEF IndexesOf
        <4>2. \A i : i \in IndexesOf(t)' => i \in Id
          BY DEF IndexesOf
        <4>3. QED
          BY <1>6, <3>8, <4>1, <4>2
      <3>10. \A i \in I : indexes'[i] = indexes[i] /\ indexes[i].number # n
        <4>1. \A i \in I : indexes[i].number \in {indexes[i2].number : i2 \in I}
          OBVIOUS
        <4>2. \A i \in I : indexes[i].number \notin Range(xs)
          BY <3>7, <4>1
        <4>3. QED
          BY <1>18, <3>5, <3>8, <4>2
      <3>11. \A i1, i2 \in I \cup {x} : indexes'[i1].number = indexes'[i2].number => i1 = i2
        BY <1>16, <1>18, <3>7, <3>10
      <3>12. {indexes'[i].number : i \in I \cup {x}} = DOMAIN f.indexes \ Range(Tail(xs))
        <4>1. {indexes'[i].number : i \in I \cup {x}} = {indexes[i].number : i \in I} \cup {n}
          BY <1>16, <1>18, <3>10
        <4>2. QED
          BY <3>5, <3>7, <4>1
      <3>13. \A i \in I \cup {x} :
                 f.indexes[indexes'[i].number] = IF i = x THEN segs'[i] \o new ELSE segs'[i]
        <4>1. f.indexes[indexes'[x].number] = segs'[x] \o new
          <5>1. segs'[x] \o new = new
            <6>1. \A s \in Seq(Segments) : <<>> \o s = s
              BY ConcatEmptySeq
            <6>2. QED
              BY <1>6, <1>11, <2>5, <6>1
          <5>2. QED
            BY <1>16, <1>18, <2>4, <2>5, <3>4, <5>1
        <4>2. ASSUME NEW i \in I PROVE f.indexes[indexes'[i].number] = segs'[i]
          <5>1. segs[i] \o <<>> = segs[i]
            <6>1. segs[i] \in Seq(Segments)
              BY <1>12, <3>8
            <6>2. \A s \in Seq(Segments) : s \o <<>> = s
              BY ConcatEmptySeq
            <6>3. QED
              BY <6>1, <6>2
          <5>2. QED
            BY <1>6, <3>7, <3>10, <5>1
        <4>3. QED
          BY <3>8, <4>1, <4>2
      <3>14. IndexesStored(t, f, x, new, Tail(xs))'
        BY <3>9, <3>11, <3>12, <3>13 DEF IndexesStored
      <3>15. StoredIn(t, k, 0, fs, new, Tail(xs))'
        BY <1>6, <1>9, <1>10, <3>2, <3>3, <3>4, <3>14 DEF StoredIn
      <3>16. QED
        BY <1>9, <1>10, <2>5, <3>15
    <2>7. Plan(k, 0, fs, new, Tail(xs), us)' /\ 0 \in 0..3
      BY <2>5 DEF Plan
    <2>8. Planned(k, 0, fs, new, Tail(xs), us)'
      BY <2>6, <2>7 DEF Planned
    <2>9. QED
      BY <2>5, <2>7, <2>8 DEF Imports
  <1>22. /\ Wrote(p, j) /\ j = [job[p] EXCEPT !.ix = x]
         /\ job[p].todo # <<>> /\ Head(job[p].todo).do \in OfTable
         /\ (Imports(job[p]) => Imports(k)')
    BY <1>2, <1>3, <1>6, <1>8, <1>21 DEF OfTable
  <1> HIDE DEF Deleted, Wrote, Imports, ConfigInv, DatabaseTypeOK, NoStraySegments
  <1>23. QED
    BY <1>7, <1>8, <1>19, <1>20, <1>22, TableStatement

\* One segment more, of the index that was inserted.
LEMMA InsertSegmentHolds ==
    ASSUME ConfigInv, NEW p \in Proc, InsertSegment(p)
    PROVE  ConfigInv'
  <1>1. Doing(p, "segment")
    BY DEF InsertSegment
  <1>2. PICK j, k : j = job[p] /\ k = [j EXCEPT !.todo = Tail(@)]
    OBVIOUS
  <1>3. /\ j \in JobType /\ JobHolds(j) /\ j.todo # <<>> /\ Head(j.todo).do = "segment"
        /\ k \in JobType /\ k.todo = Tail(j.todo)
        /\ k.aim = j.aim /\ k.file = j.file /\ k.id = j.id /\ k.ix = j.ix
        /\ k.alone = j.alone /\ k.stale = j.stale
        /\ j.ix \in 0..MaxId /\ j = [j EXCEPT !.ix = j.ix]
    BY <1>1, <1>2, AtStatement
  <1>4. PICK x, d : x = j.ix /\ d = Head(j.todo).def
    OBVIOUS
  <1>5. /\ indexes[x] # None /\ segs' = [segs EXCEPT ![x] = Append(@, d)]
        /\ Wrote(p, j) /\ tables' = tables /\ fields' = fields /\ indexes' = indexes
    BY <1>2, <1>4 DEF InsertSegment, Now
  <1>6. x \in Id /\ (~j.stale => indexes[x].table = j.id)
    BY <1>3, <1>4 DEF JobHolds, IdsHold
  <1>7. d \in Segments
    <2>1. Head(j.todo) \in Statements
      BY <1>3 DEF JobType
    <2>2. QED
      BY <1>3, <1>4, <2>1 DEF Statements
  <1>8. /\ tables \in [Id -> TableRow \cup {None}] /\ fields \in [Id -> {fields[i] : i \in Id}]
        /\ indexes \in [Id -> IndexRow \cup {None}] /\ segs \in [Id -> Seq(Segments)]
    BY DEF ConfigInv, ConfigTypeOK, DatabaseTypeOK
  <1>9. segs'[x] = Append(segs[x], d) /\ \A i \in Id : i # x => segs'[i] = segs[i]
    BY <1>5, <1>6, <1>8
  <1>10. Touches(p, j)
    BY <1>2, <1>3, <1>4, <1>5, <1>6, <1>9 DEF Touches
  <1>11. DatabaseTypeOK' /\ NoStraySegments'
    <2>1. Append(segs[x], d) \in Seq(Segments)
      BY <1>6, <1>7, <1>8
    <2>2. segs' \in [Id -> Seq(Segments)]
      BY <1>5, <1>8, <2>1
    <2>3. \A i \in Id : indexes'[i] = None => segs'[i] = <<>>
      BY <1>5, <1>9 DEF ConfigInv, NoStraySegments
    <2>4. QED
      BY <1>5, <1>8, <2>2, <2>3 DEF DatabaseTypeOK, NoStraySegments
  <1>12. Imports(j) => Imports(k)'
    <2> SUFFICES ASSUME Imports(j) PROVE Imports(k)'
      OBVIOUS
    <2>1. PICK left \in 0..3, fs \in Seq(FieldNumbers), ss \in Seq(Segments),
               xs \in Seq(IndexNumbers), us \in Seq(Files) : Planned(j, left, fs, ss, xs, us)
      BY DEF Imports
    <2>2. Plan(j, left, fs, ss, xs, us)
      BY <2>1 DEF Planned
    <2>3. GoesOn(j, k, left, fs, ss, xs, us)
      BY <1>3, <2>2, ImportStep
    <2>4. /\ left = 0 /\ ss # <<>> /\ d = Head(ss) /\ j.file # None /\ j.file \in Files
          /\ Tail(ss) \in Seq(Segments) /\ Plan(k, 0, fs, Tail(ss), xs, us)
      BY <1>3, <1>4, <2>3 DEF GoesOn
    <2>5. ASSUME k.alone PROVE k.file # None /\ \E t \in Id : StoredIn(t, k, 0, fs, Tail(ss), xs)'
      <3>1. PICK t \in Id : StoredIn(t, j, 0, fs, ss, xs)
        BY <1>3, <2>1, <2>4, <2>5 DEF Planned
      <3>2. /\ tables[t] # None /\ tables[t].key = j.file.key
            /\ tables[t].header = j.file.header /\ tables[t].schema \in {j.file.schema, ""}
        BY <3>1 DEF StoredIn
      <3>3. j.id = t /\ fields[t] = Without(j.file.fields, fs)
            /\ IndexesStored(t, j.file, x, ss, xs)
        <4>1. /\ 0 < 3 => j.id = t
              /\ 0 < 2 => fields[t] = Without(j.file.fields, fs)
              /\ 0 = 0 => IndexesStored(t, j.file, x, ss, xs)
          BY <1>4, <3>1 DEF StoredIn
        <4>2. QED
          BY <4>1
      <3>4. PICK f : f = j.file
        OBVIOUS
      <3>5. /\ \A i1, i2 \in IndexesOf(t) : indexes[i1].number = indexes[i2].number => i1 = i2
            /\ {indexes[i].number : i \in IndexesOf(t)} = DOMAIN f.indexes \ Range(xs)
            /\ \A i \in IndexesOf(t) : f.indexes[indexes[i].number] = IF i = x THEN segs[i] \o ss ELSE segs[i]
            /\ x \in IndexesOf(t)
        BY <2>4, <3>3, <3>4 DEF IndexesStored
      <3>6. IndexesOf(t)' = IndexesOf(t) /\ \A i \in IndexesOf(t) : i \in Id
        BY <1>5 DEF IndexesOf
      <3>7. segs'[x] \o Tail(ss) = segs[x] \o ss
        <4>1. \A a, b, c \in Seq(Segments) : (a \o b) \o c = a \o (b \o c)
          BY Associative
        <4>2. PICK s \in Seq(Segments) : s = segs[x]
          BY <1>6, <1>8
        <4>3. Append(s, d) = s \o <<d>> /\ <<d>> \in Seq(Segments)
          BY <1>7
        <4>4. ss = <<d>> \o Tail(ss)
          BY <2>4
        <4>5. (s \o <<d>>) \o Tail(ss) = s \o (<<d>> \o Tail(ss))
          BY <2>4, <4>1, <4>3
        <4>6. QED
          BY <1>9, <4>2, <4>3, <4>4, <4>5
      <3>8. \A i \in IndexesOf(t)' :
                f.indexes[indexes'[i].number] = IF i = x THEN segs'[i] \o Tail(ss) ELSE segs'[i]
        BY <1>5, <1>9, <3>5, <3>6, <3>7
      <3>9. IndexesStored(t, f, x, Tail(ss), xs)'
        BY <1>5, <3>5, <3>6, <3>8 DEF IndexesStored
      <3>10. StoredIn(t, k, 0, fs, Tail(ss), xs)'
        BY <1>3, <1>4, <1>5, <3>2, <3>3, <3>4, <3>9 DEF StoredIn
      <3>11. QED
        BY <1>3, <2>4, <3>10
    <2>6. Plan(k, 0, fs, Tail(ss), xs, us)' /\ 0 \in 0..3
      BY <2>4 DEF Plan
    <2>7. Planned(k, 0, fs, Tail(ss), xs, us)'
      BY <2>5, <2>6 DEF Planned
    <2>8. QED
      BY <2>4, <2>6, <2>7 DEF Imports
  <1>13. PICK y \in 0..MaxId : j = [job[p] EXCEPT !.ix = y]
    BY <1>2, <1>3
  <1>14. /\ Wrote(p, j)
         /\ job[p].todo # <<>> /\ Head(job[p].todo).do \in OfTable
         /\ (Imports(job[p]) => Imports(k)')
    BY <1>2, <1>3, <1>5, <1>12 DEF OfTable
  <1> HIDE DEF Deleted, Wrote, Imports, ConfigInv, DatabaseTypeOK, NoStraySegments
  <1>15. QED
    BY <1>2, <1>10, <1>11, <1>13, <1>14, TableStatement

-----------------------------------------------------------------------------
(***************************************************************************)
(* Statements about the rows of btr_tables.                                *)
(***************************************************************************)
\* A file's row: the one of its key, or a new one.
LEMMA UpsertTableHolds ==
    ASSUME ConfigInv, NEW p \in Proc, UpsertTable(p)
    PROVE  ConfigInv'
  <1>1. Doing(p, "upsert")
    BY DEF UpsertTable
  <1>2. PICK j0, k0 : j0 = job[p] /\ k0 = [j0 EXCEPT !.todo = Tail(@)]
    OBVIOUS
  <1>3. /\ j0 \in JobType /\ JobHolds(j0) /\ j0.todo # <<>> /\ Head(j0.todo).do = "upsert"
        /\ k0 \in JobType /\ k0.todo = Tail(j0.todo)
    BY <1>1, <1>2, AtStatement
  <1>4. PICK f, i : /\ f = Now(p).file
                    /\ i = IF Rows({f.key}) # {} THEN Max(Rows({f.key})) ELSE FreshId(tables)
    OBVIOUS
  <1>5. PICK j : j = [j0 EXCEPT !.aim = {f.key}, !.file = f, !.alone = TRUE, !.stale = FALSE]
    OBVIOUS
  <1>6. /\ i \in Id
        /\ tables' = [tables EXCEPT ![i] = Upserted(@, f)]
        /\ fields' = [fields EXCEPT ![i] = IF Rows({f.key}) = {} THEN Nothing ELSE @]
        /\ Wrote(p, j) /\ indexes' = indexes /\ segs' = segs
    BY <1>2, <1>4, <1>5 DEF UpsertTable
  <1>7. PICK left \in 0..3, fs0 \in Seq(FieldNumbers), ss \in Seq(Segments),
             xs0 \in Seq(IndexNumbers), us0 \in Seq(Files) : Plan(j0, left, fs0, ss, xs0, us0)
    <2>1. ~Edits(j0)
      BY <1>3, EditsGoOn, <1>2
    <2>2. QED
      BY <1>3, <2>1 DEF JobHolds, Imports, Planned
  <1>8. PICK us : us = Tail(us0)
    OBVIOUS
  <1>9. /\ f \in Files /\ us \in Seq(Files)
        /\ Tail(j0.todo) = Remaining(f, 3, SetToSeq(DOMAIN f.fields), <<>>,
                                     SetToSeq(DOMAIN f.indexes), us)
    <2>1. left = 0 /\ fs0 = <<>> /\ ss = <<>> /\ xs0 = <<>>
      BY <1>3, <1>7, FileIsStored
    <2>2. us0 # <<>>
      BY <1>3, <1>7, <2>1, NextStatement
    <2>3. f = Head(j0.todo).file
      BY <1>2, <1>4 DEF Now
    <2>4. /\ Head(us0) \in Files /\ Tail(us0) \in Seq(Files)
          /\ Head(j0.todo).file = Head(us0)
          /\ Tail(j0.todo) = Remaining(Head(us0), 3, SetToSeq(DOMAIN Head(us0).fields), <<>>,
                                       SetToSeq(DOMAIN Head(us0).indexes), Tail(us0))
      BY <1>3, <1>7, <2>1, <2>2, NextStatement
    <2>5. QED
      BY <1>8, <2>3, <2>4
  <1>10. f # None /\ f.key \in Key
    BY <1>9, ConfigAssumption
  <1>11. /\ j \in JobType /\ j.todo = j0.todo /\ j.aim = {f.key} /\ j.file = f
         /\ j.alone /\ ~j.stale
    <2>1. {f.key} \in SUBSET Key /\ f \in Files \cup {None}
      BY <1>9, <1>10
    <2>2. QED
      BY <1>3, <1>5, <2>1 DEF JobType
  <1>12. PICK k : k = [j EXCEPT !.todo = Tail(@)]
    OBVIOUS
  <1>13. /\ k \in JobType /\ k.todo = Tail(j.todo) /\ k.aim = j.aim /\ k.file = j.file
         /\ k.alone = j.alone
    BY <1>3, <1>11, <1>12, NextJob
  <1>14. PICK fs, xs : fs = SetToSeq(DOMAIN f.fields) /\ xs = SetToSeq(DOMAIN f.indexes)
    OBVIOUS
  <1>15. /\ Numbering(fs, DOMAIN f.fields) /\ Range(fs) = DOMAIN f.fields
         /\ Numbering(xs, DOMAIN f.indexes) /\ Range(xs) = DOMAIN f.indexes
         /\ fs \in Seq(FieldNumbers) /\ xs \in Seq(IndexNumbers)
    <2>1. /\ IsFiniteSet(DOMAIN f.fields) /\ IsFiniteSet(DOMAIN f.indexes)
          /\ DOMAIN f.fields \subseteq FieldNumbers /\ DOMAIN f.indexes \subseteq IndexNumbers
      BY <1>9, ConfigAssumption DEF FieldNumbers, IndexNumbers
    <2>2. /\ fs \in Seq(DOMAIN f.fields) /\ IsInjective(fs) /\ Range(fs) = DOMAIN f.fields
          /\ xs \in Seq(DOMAIN f.indexes) /\ IsInjective(xs) /\ Range(xs) = DOMAIN f.indexes
      BY <1>14, <2>1, SetToSeqFacts
    <2>3. fs \in Seq(FieldNumbers) /\ xs \in Seq(IndexNumbers)
      BY <2>1, <2>2
    <2>4. QED
      BY <2>2, <2>3 DEF Numbering
  <1>16. Plan(k, 3, fs, <<>>, xs, us)
    BY <1>9, <1>10, <1>11, <1>13, <1>14, <1>15 DEF Plan
  <1>17. <<>> \in Seq(Segments) /\ 3 \in 0..3
    OBVIOUS
  <1>18. k.todo # <<>> /\ Head(k.todo).do = "find"
    BY <1>9, <1>13, <1>15, <1>16, <1>17, NextStatement
  <1>19. /\ tables \in [Id -> TableRow \cup {None}] /\ fields \in [Id -> {fields[n] : n \in Id}]
         /\ indexes \in [Id -> IndexRow \cup {None}] /\ segs \in [Id -> Seq(Segments)]
    BY DEF ConfigInv, ConfigTypeOK, DatabaseTypeOK
  <1>20. /\ tables[i] # None => tables[i].key = f.key
         /\ \A t \in Id : tables[t] # None /\ tables[t].key = f.key => t = i
    <2>1. CASE Rows({f.key}) # {}
      <3>1. Rows({f.key}) \in SUBSET Id
        BY DEF Rows
      <3>2. i \in Rows({f.key})
        BY <1>4, <2>1, <3>1, FreshIsFree
      <3>3. tables[i] # None /\ tables[i].key = f.key
        BY <3>2 DEF Rows
      <3>4. QED
        BY <1>6, <3>3 DEF ConfigInv, KeysAreUnique
    <2>2. CASE Rows({f.key}) = {}
      <3>1. tables[i] = None
        BY <1>4, <1>6, <2>2, FreshIsFree
      <3>2. \A t \in Id : ~(tables[t] # None /\ tables[t].key = f.key)
        BY <2>2 DEF Rows
      <3>3. QED
        BY <3>1, <3>2
    <2>3. QED
      BY <2>1, <2>2
  <1>21. PICK row : row = Upserted(tables[i], f)
    OBVIOUS
  <1>22. /\ row \in TableRow /\ row # None
         /\ row.key = f.key /\ row.header = f.header /\ row.schema = f.schema
    <2>1. /\ row.key = f.key /\ row.header = f.header /\ row.schema = f.schema
          /\ row = [key |-> f.key, header |-> f.header, schema |-> f.schema, migrated |-> row.migrated]
      BY <1>21 DEF Upserted
    <2>2. row.migrated \in {Never, DaysToYmd(Today)}
      <3>1. row.migrated = IF tables[i] = None THEN Never ELSE tables[i].migrated
        BY <1>21 DEF Upserted
      <3>2. tables[i] # None => tables[i].migrated \in {Never, DaysToYmd(Today)}
        BY <1>6, <1>19 DEF TableRow
      <3>3. QED
        BY <3>1, <3>2
    <2>3. row \in TableRow
      BY <1>9, <1>10, <2>1, <2>2 DEF TableRow
    <2>4. QED
      BY <2>1, <2>3, ConfigAssumption
  <1>23. tables' = [tables EXCEPT ![i] = row]
    BY <1>6, <1>21
  <1>24. tables'[i] = row /\ \A t \in Id : t # i => tables'[t] = tables[t] /\ fields'[t] = fields[t]
    BY <1>6, <1>19, <1>23
  <1>25. DatabaseTypeOK'
    <2>1. tables' \in [Id -> TableRow \cup {None}]
      BY <1>19, <1>22, <1>23
    <2>2. fields' \in [Id -> {fields'[n] : n \in Id}]
      BY <1>6, <1>19
    <2>3. QED
      BY <1>6, <1>19, <2>1, <2>2 DEF DatabaseTypeOK
  <1>26. KeysAreUnique'
    <2>1. \A a, b \in Id : tables[a] # None /\ tables[b] # None /\ tables[a].key = tables[b].key => a = b
      BY DEF ConfigInv, KeysAreUnique
    <2>2. ASSUME NEW a \in Id, NEW b \in Id, tables'[a] # None, tables'[b] # None,
                 tables'[a].key = tables'[b].key
          PROVE  a = b
      BY <1>20, <1>22, <1>24, <2>1, <2>2
    <2>3. QED
      BY <2>2 DEF KeysAreUnique
  <1>27. NoStraySegments'
    BY <1>6 DEF ConfigInv, NoStraySegments
  <1>28. Imports(k)'
    <2>1. StoredIn(i, k, 3, fs, <<>>, xs)'
      <3>1. ~(3 < 3) /\ ~(3 < 2) /\ ~(3 = 0)
        OBVIOUS
      <3>2. QED
        BY <1>11, <1>13, <1>22, <1>24, <3>1 DEF StoredIn
    <2>2. Plan(k, 3, fs, <<>>, xs, us)'
      BY <1>16 DEF Plan
    <2>3. Planned(k, 3, fs, <<>>, xs, us)'
      BY <1>6, <1>10, <1>11, <1>13, <2>1, <2>2 DEF Planned
    <2>4. QED
      BY <1>9, <1>15, <1>17, <2>3 DEF Imports
  <1>29. IdsHold(k)'
    BY <1>18 DEF IdsHold, OfTable
  <1>30. ~FileStored(p)
    <2>1. Len(j0.todo) # 1 /\ j0.todo[2] = Head(k0.todo)
      <3>1. k0.todo # <<>>
        BY <1>3, <1>11, <1>13, <1>18
      <3>2. QED
        BY <1>2, <1>3, <3>1, NextJob
    <2>2. k0.todo = k.todo
      BY <1>3, <1>11, <1>13
    <2>3. QED
      BY <1>2, <1>18, <2>1, <2>2 DEF FileStored
  <1>31. ASSUME NEW t \in Id, tables[t] # None
         PROVE  /\ tables'[t] # None /\ tables'[t].key = tables[t].key
                /\ tables[t].key # f.key => Same(t)
    <2>1. CASE t = i
      BY <1>20, <1>22, <1>24, <1>31, <2>1
    <2>2. CASE t # i
      <3>1. tables'[t] = tables[t] /\ fields'[t] = fields[t]
        BY <1>24, <2>2
      <3>2. IndexesOf(t)' = IndexesOf(t)
        BY <1>6 DEF IndexesOf
      <3>3. Same(t)
        BY <1>6, <1>31, <3>1, <3>2 DEF Same
      <3>4. QED
        BY <1>31, <3>1, <3>3
    <2>3. QED
      BY <2>1, <2>2
  <1>32. /\ j.todo # <<>> /\ j.todo = job[p].todo
         /\ \A t \in Id : tables[t] # None => tables'[t] # None /\ tables'[t].key = tables[t].key
         /\ \A n \in Id : indexes[n] # None /\ n \notin Deleted(p) => indexes'[n] = indexes[n]
         /\ ~j.stale => \A t \in Id : tables[t] # None /\ tables[t].key \notin j.aim => Same(t)
    BY <1>2, <1>3, <1>6, <1>11, <1>31
  <1> HIDE DEF ConfigInv, Wrote, FileStored, Deleted, Same, Imports, Edits, IdsHold
  <1>33. QED
    BY <1>6, <1>11, <1>12, <1>25, <1>26, <1>27, <1>28, <1>29, <1>30, <1>32, WroteHolds

\* A table is found: for a file, the one its row was written to.
LEMMA FindTableHolds ==
    ASSUME ConfigInv, NEW p \in Proc, FindTable(p)
    PROVE  ConfigInv'
  <1>1. Doing(p, "find")
    BY DEF FindTable
  <1>2. PICK j0, k0 : j0 = job[p] /\ k0 = [j0 EXCEPT !.todo = Tail(@)]
    OBVIOUS
  <1>3. /\ j0 \in JobType /\ JobHolds(j0) /\ j0.todo # <<>> /\ Head(j0.todo).do = "find"
        /\ k0 \in JobType /\ k0.todo = Tail(j0.todo)
    BY <1>1, <1>2, AtStatement
  <1>4. PICK i \in Rows(j0.aim) : Advance(p, [j0 EXCEPT !.id = i, !.stale = FALSE])
    BY <1>2 DEF FindTable
  <1>5. i \in Id /\ i \in 0..MaxId /\ tables[i] # None /\ tables[i].key \in j0.aim
    BY <1>4, ConfigAssumption DEF Rows, Id
  <1>6. PICK j : j = [j0 EXCEPT !.id = i, !.stale = FALSE]
    OBVIOUS
  <1>7. /\ j \in JobType /\ j.todo = j0.todo /\ j.aim = j0.aim /\ j.file = j0.file
        /\ j.id = i /\ j.alone = j0.alone
    BY <1>3, <1>5, <1>6 DEF JobType
  <1>8. PICK k : k = [j EXCEPT !.todo = Tail(@)]
    OBVIOUS
  <1>9. /\ k \in JobType /\ k.todo = Tail(j.todo) /\ k.aim = j.aim /\ k.file = j.file
        /\ k.id = i /\ k.alone = j.alone
    BY <1>3, <1>7, <1>8, NextJob
  <1>10. /\ tables' = tables /\ fields' = fields /\ indexes' = indexes /\ segs' = segs
         /\ trusted' = trusted
    BY DEF FindTable, database
  <1>11. Imports(k)' \/ Edits(k)
    <2>1. CASE Imports(j0)
      <3>1. PICK left \in 0..3, fs \in Seq(FieldNumbers), ss \in Seq(Segments),
                 xs \in Seq(IndexNumbers), us \in Seq(Files) : Planned(j0, left, fs, ss, xs, us)
        BY <2>1 DEF Imports
      <3>2. Plan(j0, left, fs, ss, xs, us)
        BY <3>1 DEF Planned
      <3>3. GoesOn(j0, k, left, fs, ss, xs, us)
        BY <1>3, <1>7, <1>9, <3>2, ImportStep
      <3>4. left = 3 /\ Plan(k, 2, fs, ss, xs, us) /\ j0.file # None /\ j0.file \in Files
        BY <1>3, <3>3 DEF GoesOn
      <3>5. ASSUME k.alone PROVE k.file # None /\ \E t \in Id : StoredIn(t, k, 2, fs, ss, xs)'
        <4>1. PICK t \in Id : StoredIn(t, j0, 3, fs, ss, xs)
          BY <1>7, <1>9, <3>1, <3>4, <3>5 DEF Planned
        <4>2. /\ tables[t] # None /\ tables[t].key = j0.file.key
              /\ tables[t].header = j0.file.header /\ tables[t].schema \in {j0.file.schema, ""}
          BY <4>1 DEF StoredIn
        <4>3. t = i
          <5>1. tables[i].key = j0.file.key
            BY <1>5, <3>2, <3>4 DEF Plan
          <5>2. QED
            BY <1>5, <4>2, <5>1 DEF ConfigInv, KeysAreUnique
        <4>4. ~(2 < 2) /\ ~(2 = 0)
          OBVIOUS
        <4>5. StoredIn(t, k, 2, fs, ss, xs)'
          BY <1>7, <1>9, <1>10, <4>2, <4>3, <4>4 DEF StoredIn
        <4>6. QED
          BY <1>7, <1>9, <3>4, <4>5
      <3>6. Plan(k, 2, fs, ss, xs, us)' /\ 2 \in 0..3
        BY <3>4 DEF Plan
      <3>7. Planned(k, 2, fs, ss, xs, us)'
        BY <3>5, <3>6 DEF Planned
      <3>8. QED
        BY <3>6, <3>7 DEF Imports
    <2>2. CASE Edits(j0)
      <3>1. Edits(j)
        BY <1>7, <2>2 DEF Edits
      <3>2. QED
        BY <1>3, <1>7, <1>8, <3>1, EditsGoOn
    <2>3. QED
      BY <1>3, <2>1, <2>2 DEF JobHolds
  <1>12. IdsHold(k)'
    <2> SUFFICES ASSUME k.todo # <<>> PROVE IdsHold(k)'
      BY DEF IdsHold
    <2>1. Head(k.todo).do # "segment"
      <3>1. k0.todo = k.todo
        BY <1>3, <1>7, <1>9
      <3>2. (Imports(j0) \/ Edits(j0)) /\ Head(j0.todo).do # "upsert"
            /\ Head(j0.todo).do \notin {"index", "segment"}
        BY <1>3 DEF JobHolds
      <3>3. QED
        BY <1>2, <1>3, <3>1, <3>2, BeforeSegments
    <2>2. QED
      BY <1>5, <1>7, <1>9, <1>10, <2>1 DEF IdsHold
  <1>13. JobHolds(k)'
    BY <1>11, <1>12 DEF JobHolds, Edits
  <1>14. PICK m : m = IF Len(j.todo) = 1 THEN Idle ELSE k
    OBVIOUS
  <1>15. m \in JobType /\ JobHolds(m)'
    BY <1>9, <1>13, <1>14, IdleHolds
  <1>16. job' = [job EXCEPT ![p] = m]
    BY <1>4, <1>6, <1>8, <1>14 DEF Advance
  <1>17. UNCHANGED <<database, trusted>>
    BY <1>10 DEF database
  <1> HIDE DEF ConfigInv, JobHolds
  <1>18. QED
    BY <1>15, <1>16, <1>17, QuietHolds

\* A statement after which ids may stand for other tables: nobody is alone any
\* more, and nothing about the tables the job is about is trusted.
LEMMA UnsettledHolds ==
    ASSUME ConfigInv, NEW p \in Proc, Unsettled(p),
           DatabaseTypeOK', KeysAreUnique', NoStraySegments',
           \A t \in Id : tables[t] # None /\ tables[t].key \notin job[p].aim => Same(t)
    PROVE  ConfigInv'
  <1>1. /\ job' = [q \in Proc |->
                      IF q = p \/ job[q] = Idle THEN Idle
                      ELSE [job[q] EXCEPT !.alone = FALSE, !.stale = TRUE]]
        /\ trusted' = [c \in Key |-> IF c \in job[p].aim THEN None ELSE trusted[c]]
    BY DEF Unsettled
  <1>2. ASSUME NEW q \in Proc PROVE job'[q] \in JobType /\ JobHolds(job[q])'
    <2>1. CASE q = p \/ job[q] = Idle
      <3>1. PICK m : m = Idle
        OBVIOUS
      <3>2. m \in JobType /\ JobHolds(m)'
        BY <3>1, IdleHolds
      <3>3. job'[q] = m
        BY <1>1, <2>1, <3>1
      <3>4. QED
        BY <3>2, <3>3
    <2>2. CASE ~(q = p \/ job[q] = Idle)
      <3>1. PICK k1 \in JobType : k1 = job[q] /\ JobHolds(k1)
        BY JobFields
      <3>2. PICK k2 : k2 = [k1 EXCEPT !.alone = FALSE, !.stale = TRUE]
        OBVIOUS
      <3>3. /\ k2 \in JobType /\ k2.todo = k1.todo /\ k2.aim = k1.aim /\ k2.file = k1.file
            /\ k2.id = k1.id /\ k2.ix = k1.ix /\ ~k2.alone /\ k2.stale
        BY <3>1, <3>2 DEF JobType
      <3>4. JobHolds(k2)'
        BY <3>1, <3>3, KeptJob
      <3>5. job'[q] = k2
        BY <1>1, <2>2, <3>1, <3>2
      <3>6. QED
        BY <3>3, <3>4, <3>5
    <2>3. QED
      BY <2>1, <2>2
  <1>3. ConfigTypeOK'
    <2>1. job' \in [Proc -> JobType]
      BY <1>1, <1>2
    <2>2. trusted' \in [Key -> Files \cup {None}]
      BY <1>1 DEF ConfigInv, ConfigTypeOK
    <2>3. QED
      BY <2>1, <2>2 DEF ConfigTypeOK
  <1>4. ASSUME NEW c \in Key, trusted'[c] # None PROVE IsTheFile(c)'
    <2>1. c \notin job[p].aim /\ trusted'[c] = trusted[c]
      BY <1>1, <1>4
    <2>2. IsTheFile(c)
      BY <1>4, <2>1 DEF ConfigInv
    <2>3. \A t \in Id : tables[t] # None /\ tables[t].key = c => Same(t)
      BY <2>1
    <2>4. QED
      BY <2>1, <2>2, <2>3, KeptTrust
  <1>5. QED
    BY <1>2, <1>3, <1>4 DEF ConfigInv

\* Tables go, with all that is theirs.
LEMMA DeleteTablesHolds ==
    ASSUME ConfigInv, NEW p \in Proc, DeleteTables(p)
    PROVE  ConfigInv'
  <1>1. PICK gone, I : gone = Rows(job[p].aim) /\ I = UNION {IndexesOf(t) : t \in gone}
    OBVIOUS
  <1>2. /\ tables' = [i \in Id |-> IF i \in gone THEN None ELSE tables[i]]
        /\ fields' = [i \in Id |-> IF i \in gone THEN Nothing ELSE fields[i]]
        /\ indexes' = [i \in Id |-> IF i \in I THEN None ELSE indexes[i]]
        /\ segs' = [i \in Id |-> IF i \in I THEN <<>> ELSE segs[i]]
        /\ Unsettled(p)
    BY <1>1 DEF DeleteTables, WithoutIndexes
  <1>3. /\ tables \in [Id -> TableRow \cup {None}] /\ fields \in [Id -> {fields[n] : n \in Id}]
        /\ indexes \in [Id -> IndexRow \cup {None}] /\ segs \in [Id -> Seq(Segments)]
    BY DEF ConfigInv, ConfigTypeOK, DatabaseTypeOK
  <1>4. DatabaseTypeOK'
    <2>1. fields' \in [Id -> {fields'[n] : n \in Id}]
      BY <1>2
    <2>2. <<>> \in Seq(Segments)
      OBVIOUS
    <2>3. QED
      BY <1>2, <1>3, <2>1, <2>2 DEF DatabaseTypeOK
  <1>5. KeysAreUnique'
    BY <1>2 DEF ConfigInv, KeysAreUnique
  <1>6. NoStraySegments'
    BY <1>2 DEF ConfigInv, NoStraySegments
  <1>7. ASSUME NEW t \in Id, tables[t] # None, tables[t].key \notin job[p].aim PROVE Same(t)
    <2>1. t \notin gone
      BY <1>1, <1>7 DEF Rows
    <2>2. tables'[t] = tables[t] /\ fields'[t] = fields[t]
      BY <1>2, <2>1
    <2>3. \A i \in Id : i \in I => indexes[i].table \in gone
      BY <1>1 DEF IndexesOf
    <2>4. \A i \in Id : i \in IndexesOf(t) => i \notin I
      BY <2>1, <2>3 DEF IndexesOf
    <2>5. \A i \in Id : i \in IndexesOf(t) =>
              indexes'[i] = indexes[i] /\ segs'[i] = segs[i] /\ i \in IndexesOf(t)'
      BY <1>2, <2>4 DEF IndexesOf
    <2>6. \A i \in Id : i \in IndexesOf(t)' => i \in IndexesOf(t)
      BY <1>2 DEF IndexesOf
    <2>7. \A i : i \in IndexesOf(t) \/ i \in IndexesOf(t)' => i \in Id
      BY DEF IndexesOf
    <2>8. IndexesOf(t)' = IndexesOf(t)
      BY <2>5, <2>6, <2>7
    <2>9. \A i \in IndexesOf(t) : indexes'[i] = indexes[i] /\ segs'[i] = segs[i]
      BY <2>5, <2>7
    <2>10. QED
      BY <1>7, <2>2, <2>8, <2>9 DEF Same
  <1>8. QED
    BY <1>2, <1>4, <1>5, <1>6, <1>7, UnsettledHolds

\* A statement no import has: the job's command, and what is left of it.
LEMMA AtEdit ==
    ASSUME ConfigInv, NEW p \in Proc,
           NEW what \in {"dropTables", "setDatabase", "upgrade", "mark", "unmark", "set"},
           Doing(p, what), NEW k, k = [job[p] EXCEPT !.todo = Tail(@)]
    PROVE  /\ job[p] \in JobType /\ Edits(job[p]) /\ k \in JobType /\ Edits(k)
           /\ Head(job[p].todo).do = what /\ Head(job[p].todo) \in Statements
           /\ k.todo # <<>> => <<what, Head(k.todo).do>> \in Follows
           /\ Len(job[p].todo) # 1 => k.todo # <<>>
  <1>1. PICK j : j = job[p]
    OBVIOUS
  <1>2. /\ j \in JobType /\ JobHolds(j) /\ j.todo # <<>> /\ Head(j.todo).do = what
        /\ k \in JobType
    BY <1>1, AtStatement
  <1>3. Edits(j)
    BY <1>2, ImportHeads DEF JobHolds
  <1>4. Edits(k) /\ (k.todo # <<>> => <<what, Head(k.todo).do>> \in Follows)
    BY <1>1, <1>2, <1>3, EditsGoOn
  <1>5. Head(j.todo) \in Statements
    BY <1>2 DEF JobType
  <1>6. Len(j.todo) # 1 => k.todo # <<>>
    BY <1>1, <1>2, NextJob
  <1>7. QED
    BY <1>1, <1>2, <1>3, <1>4, <1>5, <1>6

\* Tables move to another database, all of a name or none.
LEMMA UpdateTablesHolds ==
    ASSUME ConfigInv, NEW p \in Proc, UpdateTables(p)
    PROVE  ConfigInv'
  <1>1. PICK moved : moved = Rows(job[p].aim)
    OBVIOUS
  <1>2. PICK To : To = [i \in Id |-> [tables[i].key EXCEPT !.db = Now(p).db]]
    OBVIOUS
  <1>3. \A i \in moved : i \in Id /\ tables[i] # None /\ tables[i].key \in job[p].aim
    BY <1>1 DEF Rows
  <1>4. /\ moved # {} /\ \A i \in moved : To[i] \in Key
        /\ \A i, j \in moved : i # j => To[i] # To[j]
        /\ tables' = [i \in Id |-> IF i \in moved THEN [tables[i] EXCEPT !.key = To[i]]
                                   ELSE tables[i]]
    BY <1>1, <1>2, <1>3 DEF UpdateTables
  <1>5. fields' = fields /\ indexes' = indexes /\ segs' = segs /\ Unsettled(p)
    BY DEF UpdateTables
  <1>6. /\ tables \in [Id -> TableRow \cup {None}] /\ fields \in [Id -> {fields[n] : n \in Id}]
        /\ indexes \in [Id -> IndexRow \cup {None}] /\ segs \in [Id -> Seq(Segments)]
    BY DEF ConfigInv, ConfigTypeOK, DatabaseTypeOK
  <1>7. ASSUME NEW i \in moved
        PROVE  tables'[i] \in TableRow /\ tables'[i] # None /\ tables'[i].key = To[i]
    <2>1. tables[i] \in TableRow /\ tables'[i] = [tables[i] EXCEPT !.key = To[i]] /\ To[i] \in Key
      BY <1>3, <1>4, <1>6
    <2>2. tables'[i] \in TableRow /\ tables'[i].key = To[i]
      BY <2>1 DEF TableRow
    <2>3. QED
      BY <2>2, ConfigAssumption
  <1>8. \A i \in Id : i \notin moved => tables'[i] = tables[i]
    BY <1>4
  <1>9. DatabaseTypeOK'
    <2>1. \A i \in Id : tables'[i] \in TableRow \cup {None}
      BY <1>6, <1>7, <1>8
    <2>2. tables' \in [Id -> TableRow \cup {None}]
      BY <1>4, <2>1
    <2>3. QED
      BY <1>5, <1>6, <2>2 DEF DatabaseTypeOK
  <1>10. NoStraySegments'
    BY <1>5 DEF ConfigInv, NoStraySegments
  <1>11. \A i \in moved, n \in Id : tables[n] # None /\ tables[n].key = To[i] => n \in moved
    <2>1. PICK name : job[p].aim = Called(name)
      <3>1. PICK k : k = [job[p] EXCEPT !.todo = Tail(@)]
        OBVIOUS
      <3>2. Edits(job[p])
        BY <3>1, AtEdit DEF UpdateTables
      <3>3. job[p].aim # {}
        BY <1>3, <1>4
      <3>4. QED
        BY <3>2, <3>3 DEF Edits
    <2>2. ASSUME NEW i \in moved, NEW n \in Id, tables[n] # None, tables[n].key = To[i]
          PROVE  n \in moved
      <3>1. tables[i].key \in Key /\ tables[i].key.name = name
        BY <1>3, <2>1 DEF Called
      <3>2. tables[i].key \in [name : STRING, db : STRING, dir : STRING]
        BY <3>1, ConfigAssumption
      <3>3. To[i].name = name
        BY <1>2, <1>3, <3>1, <3>2
      <3>4. To[i] \in Called(name)
        BY <1>4, <3>3 DEF Called
      <3>5. QED
        BY <1>1, <2>1, <2>2, <3>4 DEF Rows
    <2>3. QED
      BY <2>2
  <1>12. KeysAreUnique'
    <2>1. \A a, b \in Id : tables[a] # None /\ tables[b] # None /\ tables[a].key = tables[b].key => a = b
      BY DEF ConfigInv, KeysAreUnique
    <2>2. ASSUME NEW a \in Id, NEW b \in Id, tables'[a] # None, tables'[b] # None,
                 tables'[a].key = tables'[b].key
          PROVE  a = b
      <3>1. CASE a \in moved /\ b \in moved
        BY <1>4, <1>7, <2>2, <3>1
      <3>2. CASE a \in moved /\ b \notin moved
        BY <1>7, <1>8, <1>11, <2>2, <3>2
      <3>3. CASE a \notin moved /\ b \in moved
        BY <1>7, <1>8, <1>11, <2>2, <3>3
      <3>4. CASE a \notin moved /\ b \notin moved
        BY <1>8, <2>1, <2>2, <3>4
      <3>5. QED
        BY <3>1, <3>2, <3>3, <3>4
    <2>3. QED
      BY <2>2 DEF KeysAreUnique
  <1>13. ASSUME NEW t \in Id, tables[t] # None, tables[t].key \notin job[p].aim PROVE Same(t)
    <2>1. t \notin moved
      BY <1>3, <1>13
    <2>2. tables'[t] = tables[t]
      BY <1>8, <2>1
    <2>3. IndexesOf(t)' = IndexesOf(t)
      BY <1>5 DEF IndexesOf
    <2>4. QED
      BY <1>5, <1>13, <2>2, <2>3 DEF Same
  <1>14. QED
    BY <1>5, <1>9, <1>10, <1>12, <1>13, UnsettledHolds

\* A statement of a command that is no import and writes to no table in
\* particular: the other jobs may go on, whatever becomes of schema and stamp.
LEMMA EditAdvances ==
    ASSUME ConfigInv, NEW p \in Proc, NEW what \in {"upgrade", "mark", "unmark", "set"},
           Doing(p, what), Advance(p, job[p]), trusted' = trusted,
           DatabaseTypeOK', fields' = fields, indexes' = indexes, segs' = segs,
           \A t \in Id :
              /\ tables[t] = None => tables'[t] = None
              /\ tables[t] # None =>
                    /\ tables'[t] # None /\ tables'[t].key = tables[t].key
                    /\ tables'[t].header = tables[t].header
                    /\ tables'[t].schema \in {tables[t].schema, ""}
    PROVE  ConfigInv'
  <1>1. PICK k : k = [job[p] EXCEPT !.todo = Tail(@)]
    OBVIOUS
  <1>2. /\ k \in JobType /\ Edits(k)
        /\ k.todo # <<>> => <<what, Head(k.todo).do>> \in Follows
    BY <1>1, AtEdit
  <1>3. IdsHold(k)'
    BY <1>2 DEF IdsHold, Follows, OfTable
  <1>4. JobHolds(k)'
    BY <1>2, <1>3 DEF JobHolds, Edits
  <1>5. PICK m : m = IF Len(job[p].todo) = 1 THEN Idle ELSE k
    OBVIOUS
  <1>6. m \in JobType /\ JobHolds(m)'
    BY <1>2, <1>4, <1>5, IdleHolds
  <1>7. job' = [job EXCEPT ![p] = m]
    BY <1>1, <1>5 DEF Advance
  <1>8. KeysAreUnique'
    BY DEF ConfigInv, KeysAreUnique
  <1>9. \A t \in Id : tables[t] # None => Same(t)
    BY DEF Same, IndexesOf
  <1> HIDE DEF ConfigInv, JobHolds, Same, DatabaseTypeOK, KeysAreUnique
  <1>10. QED
    BY <1>6, <1>7, <1>8, <1>9, OneJobHolds

\* Schemas are taken off.
LEMMA UpgradeHolds ==
    ASSUME ConfigInv, NEW p \in Proc, UpgradeSchema(p)
    PROVE  ConfigInv'
  <1>1. /\ Doing(p, "upgrade") /\ Advance(p, job[p]) /\ trusted' = trusted
        /\ fields' = fields /\ indexes' = indexes /\ segs' = segs
    BY DEF UpgradeSchema
  <1>2. PICK T \in SUBSET Id :
            /\ \A i \in T : tables[i] # None /\ tables[i].schema = "dbo"
            /\ tables' = [i \in Id |-> IF i \in T THEN [tables[i] EXCEPT !.schema = ""] ELSE tables[i]]
    <2> DEFINE T == {i \in Id :
                       tables[i] # None /\ tables[i].schema = "dbo"
                       /\ ~(<<"config", "SCHEMA">> \in Settings /\ config[<<"config", "SCHEMA">>] = "dbo")}
    <2>1. tables' = [i \in Id |-> IF i \in T THEN [tables[i] EXCEPT !.schema = ""] ELSE tables[i]]
      BY DEF UpgradeSchema
    <2>2. \A i \in T : tables[i] # None /\ tables[i].schema = "dbo"
      OBVIOUS
    <2>3. T \in SUBSET Id
      OBVIOUS
    <2> HIDE DEF T
    <2>4. QED
      BY <2>1, <2>2, <2>3
  <1>3. /\ tables \in [Id -> TableRow \cup {None}] /\ fields \in [Id -> {fields[n] : n \in Id}]
        /\ indexes \in [Id -> IndexRow \cup {None}] /\ segs \in [Id -> Seq(Segments)]
    BY DEF ConfigInv, ConfigTypeOK, DatabaseTypeOK
  <1>4. ASSUME NEW t \in T
        PROVE  /\ tables'[t] \in TableRow /\ tables'[t] # None
               /\ tables'[t].key = tables[t].key /\ tables'[t].header = tables[t].header
               /\ tables'[t].schema = ""
    <2>1. tables[t] \in TableRow /\ tables'[t] = [tables[t] EXCEPT !.schema = ""]
      BY <1>2, <1>3
    <2>2. /\ tables'[t] \in TableRow
          /\ tables'[t].key = tables[t].key /\ tables'[t].header = tables[t].header
          /\ tables'[t].schema = ""
      BY <2>1 DEF TableRow
    <2>3. QED
      BY <2>2, ConfigAssumption
  <1>5. \A t \in Id : t \notin T => tables'[t] = tables[t]
    BY <1>2
  <1>6. DatabaseTypeOK'
    <2>1. \A t \in Id : tables'[t] \in TableRow \cup {None}
      BY <1>3, <1>4, <1>5
    <2>2. tables' \in [Id -> TableRow \cup {None}]
      BY <1>2, <2>1
    <2>3. QED
      BY <1>1, <1>3, <2>2 DEF DatabaseTypeOK
  <1>7. ASSUME NEW t \in Id
        PROVE  /\ tables[t] = None => tables'[t] = None
               /\ tables[t] # None =>
                     /\ tables'[t] # None /\ tables'[t].key = tables[t].key
                     /\ tables'[t].header = tables[t].header
                     /\ tables'[t].schema \in {tables[t].schema, ""}
    BY <1>2, <1>4, <1>5
  <1>8. QED
    BY <1>1, <1>6, <1>7, EditAdvances

\* Stamps are set or cleared.
LEMMA SetMigratedHolds ==
    ASSUME ConfigInv, NEW p \in Proc, Mark(p) \/ Unmark(p)
    PROVE  ConfigInv'
  <1>1. PICK what \in {"mark", "unmark"}, stamp \in {Never, DaysToYmd(Today)} :
            Doing(p, what) /\ SetMigrated(p, stamp)
    BY DEF Mark, Unmark
  <1>2. PICK T : T = Rows(job[p].aim)
    OBVIOUS
  <1>3. /\ tables' = [i \in Id |-> IF i \in T THEN [tables[i] EXCEPT !.migrated = stamp] ELSE tables[i]]
        /\ Advance(p, job[p]) /\ trusted' = trusted
        /\ fields' = fields /\ indexes' = indexes /\ segs' = segs
    BY <1>1, <1>2 DEF SetMigrated
  <1>4. \A i \in T : i \in Id /\ tables[i] # None
    BY <1>2 DEF Rows
  <1>5. /\ tables \in [Id -> TableRow \cup {None}] /\ fields \in [Id -> {fields[n] : n \in Id}]
        /\ indexes \in [Id -> IndexRow \cup {None}] /\ segs \in [Id -> Seq(Segments)]
    BY DEF ConfigInv, ConfigTypeOK, DatabaseTypeOK
  <1>6. ASSUME NEW t \in T
        PROVE  /\ tables'[t] \in TableRow /\ tables'[t] # None
               /\ tables'[t].key = tables[t].key /\ tables'[t].header = tables[t].header
               /\ tables'[t].schema = tables[t].schema
    <2>1. tables[t] \in TableRow /\ tables'[t] = [tables[t] EXCEPT !.migrated = stamp]
      BY <1>3, <1>4, <1>5
    <2>2. /\ tables'[t] \in TableRow
          /\ tables'[t].key = tables[t].key /\ tables'[t].header = tables[t].header
          /\ tables'[t].schema = tables[t].schema
      BY <1>1, <2>1 DEF TableRow
    <2>3. QED
      BY <2>2, ConfigAssumption
  <1>7. \A t \in Id : t \notin T => tables'[t] = tables[t]
    BY <1>3
  <1>8. DatabaseTypeOK'
    <2>1. \A t \in Id : tables'[t] \in TableRow \cup {None}
      BY <1>5, <1>6, <1>7
    <2>2. tables' \in [Id -> TableRow \cup {None}]
      BY <1>3, <2>1
    <2>3. QED
      BY <1>3, <1>5, <2>2 DEF DatabaseTypeOK
  <1>9. ASSUME NEW t \in Id
        PROVE  /\ tables[t] = None => tables'[t] = None
               /\ tables[t] # None =>
                     /\ tables'[t] # None /\ tables'[t].key = tables[t].key
                     /\ tables'[t].header = tables[t].header
                     /\ tables'[t].schema \in {tables[t].schema, ""}
    BY <1>4, <1>6, <1>7
  <1>10. QED
    BY <1>1, <1>3, <1>8, <1>9, EditAdvances

\* A setting says something else.
LEMMA UpsertConfigHolds ==
    ASSUME ConfigInv, NEW p \in Proc, UpsertConfig(p)
    PROVE  ConfigInv'
  <1>1. /\ Doing(p, "set") /\ Advance(p, job[p]) /\ trusted' = trusted /\ tables' = tables
        /\ fields' = fields /\ indexes' = indexes /\ segs' = segs
    BY DEF UpsertConfig, database
  <1>2. DatabaseTypeOK'
    BY <1>1 DEF ConfigInv, ConfigTypeOK, DatabaseTypeOK
  <1>3. QED
    BY <1>1, <1>2, EditAdvances

\* An operation ends early.
LEMMA FailHolds ==
    ASSUME ConfigInv, NEW p \in Proc, Fail(p)
    PROVE  ConfigInv'
  <1>1. job' = [job EXCEPT ![p] = Idle] /\ UNCHANGED <<database, trusted>>
    BY DEF Fail
  <1>2. QED
    BY <1>1, IdleHolds, QuietHolds

-----------------------------------------------------------------------------
(***************************************************************************)
(* Operations begin.                                                       *)
(***************************************************************************)
ImportsOnly == {"upsert", "clearFields", "clearIndexes", "field"}

\* Statements of a command that is no import, each after one it may follow.
Chained(s) ==
    /\ s \in Seq(Statements)
    /\ \A k \in DOMAIN s : s[k].do \notin ImportsOnly
    /\ \A k \in 2..Len(s) : <<s[k-1].do, s[k].do>> \in Follows

\* One statement, or any number of one kind that may follow itself.
LEMMA ChainOfOneKind ==
    ASSUME NEW s \in Seq(Statements), NEW what, what \notin ImportsOnly,
           \A k \in DOMAIN s : s[k].do = what,
           Len(s) > 1 => <<what, what>> \in Follows
    PROVE  Chained(s)
  <1>1. Len(s) \in Nat /\ DOMAIN s = 1..Len(s)
    OBVIOUS
  <1>2. ASSUME NEW k \in 2..Len(s) PROVE <<s[k-1].do, s[k].do>> \in Follows
    <2>1. k-1 \in DOMAIN s /\ k \in DOMAIN s /\ Len(s) > 1
      BY <1>1
    <2>2. s[k-1].do = what /\ s[k].do = what
      BY <2>1
    <2>3. QED
      BY <2>1, <2>2
  <1>3. QED
    BY <1>2 DEF Chained

\* A statement before others.
LEMMA ChainGrows ==
    ASSUME NEW a \in Statements, NEW s, Chained(s), a.do \notin ImportsOnly,
           s # <<>> => <<a.do, Head(s).do>> \in Follows
    PROVE  Chained(<<a>> \o s) /\ <<a>> \o s # <<>> /\ Head(<<a>> \o s) = a
  <1>1. s \in Seq(Statements) /\ Len(s) \in Nat /\ DOMAIN s = 1..Len(s)
    BY DEF Chained
  <1>2. PICK c \in Seq(Statements) : c = <<a>> \o s /\ c # <<>> /\ Head(c) = a
    BY <1>1, OneAndRest
  <1>3. Len(c) = Len(s) + 1 /\ DOMAIN c = 1..Len(s)+1 /\ c[1] = a
        /\ \A k \in 2..Len(s)+1 : c[k] = s[k-1]
    BY <1>1, <1>2
  <1>4. ASSUME NEW k \in DOMAIN c PROVE c[k].do \notin ImportsOnly
    <2>1. CASE k = 1
      BY <1>3, <2>1
    <2>2. CASE k # 1
      <3>1. k \in 2..Len(s)+1 /\ k-1 \in DOMAIN s
        BY <1>1, <1>3, <2>2
      <3>2. QED
        BY <1>3, <3>1 DEF Chained
    <2>3. QED
      BY <2>1, <2>2
  <1>5. ASSUME NEW k \in 2..Len(c) PROVE <<c[k-1].do, c[k].do>> \in Follows
    <2>1. CASE k = 2
      <3>1. s # <<>> /\ Head(s) = s[1] /\ c[2] = s[2-1] /\ 2-1 = 1
        BY <1>1, <1>3, <2>1
      <3>2. QED
        BY <1>3, <2>1, <3>1
    <2>2. CASE k # 2
      <3>1. k-1 \in 2..Len(s) /\ k-1 \in 2..Len(s)+1 /\ k \in 2..Len(s)+1
        BY <1>1, <1>3, <2>2
      <3>2. c[k-1] = s[(k-1)-1] /\ c[k] = s[k-1]
        BY <1>3, <3>1
      <3>3. QED
        BY <3>1, <3>2 DEF Chained
    <2>3. QED
      BY <2>1, <2>2
  <1>6. Chained(c)
    BY <1>4, <1>5 DEF Chained
  <1>7. QED
    BY <1>2, <1>6

\* Two statements.
LEMMA ChainOfTwo ==
    ASSUME NEW a \in Statements, NEW b \in Statements, a.do \notin ImportsOnly, b.do \notin ImportsOnly,
           <<a.do, b.do>> \in Follows
    PROVE  Chained(<<a, b>>) /\ <<a, b>> # <<>> /\ Head(<<a, b>>) = a
  <1>1. PICK s : s = <<a, b>>
    OBVIOUS
  <1>2. s \in Seq(Statements) /\ Len(s) = 2 /\ s[1] = a /\ s[2] = b /\ DOMAIN s = {1, 2} /\ Head(s) = a
    BY <1>1
  <1>3. ASSUME NEW k \in 2..Len(s) PROVE <<s[k-1].do, s[k].do>> \in Follows
    <2>1. k = 2 /\ 2-1 = 1
      BY <1>2
    <2>2. QED
      BY <1>2, <2>1
  <1>4. Chained(s)
    BY <1>2, <1>3 DEF Chained
  <1>5. QED
    BY <1>1, <1>2, <1>4

\* A job that begins holds.
LEMMA BeginHolds ==
    ASSUME ConfigInv, NEW p \in Proc, NEW aim \in SUBSET Key, NEW st \in Seq(Statements),
           Begin(p, aim, st), NEW k, k = [Idle EXCEPT !.aim = aim, !.todo = st],
           Imports(k) \/ Edits(k), st # <<>> => Head(st).do \notin OfTable
    PROVE  ConfigInv'
  <1>1. /\ k \in JobType /\ k.todo = st /\ ~k.alone
    BY IdleHolds DEF JobType, Idle
  <1>2. IdsHold(k)'
    BY <1>1 DEF IdsHold, OfTable
  <1>3. Imports(k)' \/ Edits(k)'
    <2>1. CASE Imports(k)
      <3>1. PICK left \in 0..3, fs \in Seq(FieldNumbers), ss \in Seq(Segments),
                 xs \in Seq(IndexNumbers), us \in Seq(Files) : Plan(k, left, fs, ss, xs, us)
        BY <2>1 DEF Imports, Planned
      <3>2. Planned(k, left, fs, ss, xs, us)'
        BY <1>1, <3>1 DEF Planned, Plan
      <3>3. QED
        BY <3>2 DEF Imports
    <2>2. CASE Edits(k)
      BY <2>2 DEF Edits
    <2>3. QED
      BY <2>1, <2>2
  <1>4. JobHolds(k)'
    BY <1>2, <1>3 DEF JobHolds
  <1>5. job' = [job EXCEPT ![p] = k] /\ UNCHANGED <<database, trusted>>
    BY DEF Begin
  <1>6. QED
    BY <1>1, <1>4, <1>5, QuietHolds

\* An import begins.
LEMMA ImportBegins ==
    ASSUME ConfigInv, NEW p \in Proc, NEW batch \in Batches, Begin(p, {}, Importing(batch))
    PROVE  ConfigInv'
  <1>1. batch \in Seq(Files)
    <2>1. batch \in Seq(Range(batch)) /\ Range(batch) \subseteq Files
      BY ConfigAssumption DEF Files
    <2>2. QED
      BY <2>1, SeqMonotonic
  <1>2. PICK st \in Seq(Statements) : st = Importing(batch)
    BY <1>1, ImportPart
  <1>3. PICK k : k = [Idle EXCEPT !.aim = {}, !.todo = st]
    OBVIOUS
  <1>4. k \in JobType /\ k.todo = st /\ k.file = None /\ ~k.alone
    BY <1>3, IdleHolds DEF JobType, Idle
  <1>5. Remaining(None, 0, <<>>, <<>>, <<>>, batch) = st
    <2>1. \A s \in Seq(Statements) : <<>> \o s = s
      BY ConcatEmptySeq
    <2>2. Remaining(None, 0, <<>>, <<>>, <<>>, batch) = <<>> \o (<<>> \o (<<>> \o (<<>> \o st)))
      BY <1>2, NoFileFacts
    <2>3. QED
      BY <2>1, <2>2
  <1>6. Plan(k, 0, <<>>, <<>>, <<>>, batch)
    BY <1>4, <1>5 DEF Plan
  <1>7. /\ 0 \in 0..3 /\ <<>> \in Seq(FieldNumbers) /\ <<>> \in Seq(Segments)
        /\ <<>> \in Seq(IndexNumbers)
    OBVIOUS
  <1>8. Imports(k)
    <2>1. Planned(k, 0, <<>>, <<>>, <<>>, batch)
      BY <1>4, <1>6 DEF Planned
    <2>2. QED
      BY <1>1, <1>7, <2>1 DEF Imports
  <1>9. st # <<>> => Head(st).do \notin OfTable
    BY <1>1, <1>4, <1>6, <1>7, NextStatement DEF OfTable
  <1>10. Begin(p, {}, st) /\ {} \in SUBSET Key
    BY <1>2
  <1>11. QED
    BY <1>3, <1>8, <1>9, <1>10, BeginHolds

\* Any other command begins.
LEMMA EditBegins ==
    ASSUME ConfigInv, NEW p \in Proc, NEW st, Chained(st), st # <<>> => Head(st).do \notin OfTable,
           NEW aim, aim = {} \/ \E name \in Names : aim = Called(name), Begin(p, aim, st)
    PROVE  ConfigInv'
  <1>1. PICK k : k = [Idle EXCEPT !.aim = aim, !.todo = st]
    OBVIOUS
  <1>2. st \in Seq(Statements) /\ aim \in SUBSET Key
    BY DEF Chained, Called
  <1>3. k.aim = aim /\ k.todo = st /\ k.file = None /\ ~k.alone
    BY <1>1 DEF Idle
  <1>4. Edits(k)
    BY <1>3 DEF Edits, Chained, ImportsOnly
  <1>5. QED
    BY <1>1, <1>2, <1>4, BeginHolds

\* A command about the tables of a name begins by finding one.
LEMMA ByNameBegins ==
    ASSUME ConfigInv, NEW p \in Proc, NEW name \in Names, NEW st, Chained(st), st # <<>>,
           Head(st).do \in {"putField", "dropField", "dropIndex", "clearIndex"},
           ByName(p, name, st)
    PROVE  ConfigInv'
  <1>1. PICK a \in Statements : a = Do("find") /\ a.do = "find"
    BY StatementForms DEF Do
  <1>2. <<a.do, Head(st).do>> \in Follows /\ a.do \notin ImportsOnly
    BY <1>1 DEF Follows, ImportsOnly
  <1>3. PICK s : s = <<a>> \o st
    OBVIOUS
  <1>4. Chained(s) /\ s # <<>> /\ Head(s) = a
    BY <1>2, <1>3, ChainGrows
  <1>5. Begin(p, Called(name), s)
    BY <1>1, <1>3 DEF ByName
  <1>6. "find" \notin OfTable
    BY DEF OfTable
  <1>7. QED
    BY <1>1, <1>4, <1>5, <1>6, EditBegins

\* So does a command of one statement about such a table.
LEMMA OneStatementBegins ==
    ASSUME ConfigInv, NEW p \in Proc, NEW name \in Names, NEW a \in Statements,
           a.do \in {"putField", "dropField", "dropIndex"}, ByName(p, name, <<a>>)
    PROVE  ConfigInv'
  <1>1. PICK st : st = <<a>>
    OBVIOUS
  <1>2. st \in Seq(Statements) /\ Len(st) = 1 /\ st # <<>> /\ Head(st) = a /\ \A k \in DOMAIN st : st[k] = a
    BY <1>1
  <1>3. a.do \notin ImportsOnly
    BY DEF ImportsOnly
  <1>4. PICK what : what = a.do
    OBVIOUS
  <1>5. what \notin ImportsOnly /\ ~(Len(st) > 1) /\ \A k \in DOMAIN st : st[k].do = what
    BY <1>2, <1>3, <1>4
  <1>6. Chained(st)
    BY <1>2, <1>5, ChainOfOneKind
  <1>7. QED
    BY <1>1, <1>2, <1>6, ByNameBegins

\* The statements of a command that sets settings.
LEMMA SetAllBegins ==
    ASSUME ConfigInv, NEW p \in Proc, NEW S \in SUBSET Settings, NEW v \in Values,
           Begin(p, {}, SetAll(S, v))
    PROVE  ConfigInv'
  <1>1. PICK X : X = {[do |-> "set", of |-> s, value |-> v] : s \in S}
    OBVIOUS
  <1>2. IsFiniteSet(X)
    <2>1. IsFiniteSet(S)
      BY ConfigAssumption, FS_Subset
    <2>2. PICK f : f = [s \in S |-> [do |-> "set", of |-> s, value |-> v]]
      OBVIOUS
    <2>3. X = {f[s] : s \in S}
      BY <1>1, <2>2
    <2>4. f \in Surjection(S, X)
      BY <2>2, <2>3 DEF Surjection
    <2>5. QED
      BY <2>1, <2>4, FS_Surjection
  <1>3. PICK st : st = SetToSeq(X)
    OBVIOUS
  <1>4. st \in Seq(X) /\ X \subseteq Statements
    <2>1. \A x \in X : x \in Statements
      BY <1>1, StatementForms
    <2>2. QED
      BY <1>2, <1>3, <2>1, SetToSeqFacts
  <1>5. st \in Seq(Statements) /\ \A k \in DOMAIN st : st[k].do = "set"
    <2>1. \A x \in X : x.do = "set"
      BY <1>1
    <2>2. QED
      BY <1>4, <2>1
  <1>6. Chained(st)
    <2>1. "set" \notin ImportsOnly /\ <<"set", "set">> \in Follows
      BY DEF ImportsOnly, Follows
    <2>2. QED
      BY <1>5, <2>1, ChainOfOneKind
  <1>7. st # <<>> => Head(st).do = "set" /\ "set" \notin OfTable
    BY <1>5 DEF OfTable
  <1>8. Begin(p, {}, st)
    BY <1>1, <1>3 DEF SetAll
  <1>9. QED
    BY <1>6, <1>7, <1>8, EditBegins

\* An index is put in its place.
LEMMA AddIndexBegins ==
    ASSUME ConfigInv, NEW p \in Proc, AddIndex(p)
    PROVE  ConfigInv'
  <1>1. PICK name \in Names, n \in Numbers, list \in SegmentLists :
            ByName(p, name, <<[do |-> "clearIndex", num |-> n]>> \o IndexStatements(n, list))
    BY DEF AddIndex
  <1>2. list \in Seq(Segments)
    <2>1. list \in Seq(Range(list)) /\ Range(list) \subseteq Segments
      BY ConfigAssumption DEF Segments, SegmentsOf
    <2>2. QED
      BY <2>1, SeqMonotonic
  <1>3. PICK a, b, st : /\ a = [do |-> "clearIndex", num |-> n] /\ b = [do |-> "index", num |-> n]
                        /\ st = SegmentStatements(list)
    OBVIOUS
  <1>4. a \in Statements /\ b \in Statements /\ a.do = "clearIndex" /\ b.do = "index"
    <2>1. n \in IndexNumbers
      BY DEF IndexNumbers
    <2>2. QED
      BY <1>3, <2>1, StatementForms
  <1>5. st \in Seq(Statements) /\ \A k \in DOMAIN st : st[k].do = "segment"
    <2>1. st \in Seq(Statements)
      BY <1>2, <1>3, SegmentPart
    <2>2. QED
      BY <1>3, <2>1 DEF SegmentStatements
  <1>6. /\ \A w \in {"segment", "index", "clearIndex"} : w \notin ImportsOnly
        /\ <<"segment", "segment">> \in Follows /\ <<"index", "segment">> \in Follows
        /\ <<"clearIndex", "index">> \in Follows
    BY DEF ImportsOnly, Follows
  <1>7. Chained(st)
    BY <1>5, <1>6, ChainOfOneKind
  <1>8. PICK st1 : st1 = <<b>> \o st
    OBVIOUS
  <1>9. Chained(st1) /\ st1 # <<>> /\ Head(st1) = b
    <2>1. st # <<>> => <<b.do, Head(st).do>> \in Follows
      BY <1>4, <1>5, <1>6
    <2>2. QED
      BY <1>4, <1>6, <1>7, <1>8, <2>1, ChainGrows
  <1>10. PICK st2 : st2 = <<a>> \o st1
    OBVIOUS
  <1>11. Chained(st2) /\ st2 # <<>> /\ Head(st2) = a
    BY <1>4, <1>6, <1>9, <1>10, ChainGrows
  <1>12. ByName(p, name, st2)
    BY <1>1, <1>3, <1>8, <1>10 DEF IndexStatements
  <1>13. QED
    BY <1>4, <1>11, <1>12, ByNameBegins

\* A command of one statement about all tables of a name.
LEMMA NameStatementBegins ==
    ASSUME ConfigInv, NEW p \in Proc, NEW a \in Statements,
           a.do \in {"dropTables", "setDatabase", "upgrade"},
           NEW aim, aim = {} \/ \E name \in Names : aim = Called(name), Begin(p, aim, <<a>>)
    PROVE  ConfigInv'
  <1>1. PICK st : st = <<a>>
    OBVIOUS
  <1>2. st \in Seq(Statements) /\ Len(st) = 1 /\ st # <<>> /\ Head(st) = a /\ \A k \in DOMAIN st : st[k] = a
    BY <1>1
  <1>3. PICK what : what = a.do
    OBVIOUS
  <1>4. /\ what \notin ImportsOnly /\ ~(Len(st) > 1) /\ \A k \in DOMAIN st : st[k].do = what
        /\ Head(st).do \notin OfTable
    BY <1>2, <1>3 DEF ImportsOnly, OfTable
  <1>5. Chained(st)
    BY <1>2, <1>4, ChainOfOneKind
  <1>6. Begin(p, aim, st)
    BY <1>1
  <1>7. QED
    BY <1>4, <1>5, <1>6, EditBegins

\* A stamp is set or cleared once the schema has been brought up to date.
LEMMA StampBegins ==
    ASSUME ConfigInv, NEW p \in Proc, MarkMigrated(p) \/ ClearMigrated(p)
    PROVE  ConfigInv'
  <1>1. PICK name \in Names, w \in {"mark", "unmark"} : Begin(p, Called(name), <<Do("upgrade"), Do(w)>>)
    BY DEF MarkMigrated, ClearMigrated
  <1>2. PICK a, b : a = Do("upgrade") /\ b = Do(w)
    OBVIOUS
  <1>3. a \in Statements /\ b \in Statements /\ a.do = "upgrade" /\ b.do = w
    BY <1>2, StatementForms DEF Do
  <1>4. a.do \notin ImportsOnly /\ b.do \notin ImportsOnly /\ <<a.do, b.do>> \in Follows
        /\ a.do \notin OfTable
    BY <1>3 DEF ImportsOnly, Follows, OfTable
  <1>5. PICK st : st = <<a, b>>
    OBVIOUS
  <1>6. Chained(st) /\ st # <<>> /\ Head(st) = a
    BY <1>3, <1>4, <1>5, ChainOfTwo
  <1>7. Begin(p, Called(name), st)
    BY <1>1, <1>2, <1>5
  <1>8. QED
    BY <1>4, <1>6, <1>7, EditBegins

-----------------------------------------------------------------------------
(***************************************************************************)
(* The invariant.                                                          *)
(***************************************************************************)
\* It holds in an empty database.
LEMMA InitHolds == Init => ConfigInv
  <1> SUFFICES ASSUME Init PROVE ConfigInv
    OBVIOUS
  <1>1. \A i \in Id : tables[i] = None /\ indexes[i] = None /\ segs[i] = <<>>
    BY DEF Init
  <1>2. DatabaseTypeOK
    <2>1. <<>> \in Seq(Segments)
      OBVIOUS
    <2>2. fields \in [Id -> {fields[i] : i \in Id}]
      BY DEF Init
    <2>3. QED
      BY <2>1, <2>2 DEF Init, DatabaseTypeOK
  <1>3. ConfigTypeOK
    BY <1>2, IdleHolds DEF Init, ConfigTypeOK
  <1>4. KeysAreUnique /\ NoStraySegments
    BY <1>1 DEF KeysAreUnique, NoStraySegments
  <1>5. \A p \in Proc : job[p] = Idle /\ JobHolds(job[p])
    BY IdleHolds DEF Init
  <1>6. \A k \in Key : trusted[k] = None
    BY DEF Init
  <1>7. QED
    BY <1>3, <1>4, <1>5, <1>6 DEF ConfigInv

\* An operation that begins preserves it.
LEMMA OperationHolds ==
    ASSUME ConfigInv, NEW p \in Proc, Operation(p)
    PROVE  ConfigInv'
  <1>1. CASE ImportInt(p) \/ AnalyzeB(p) \/ SaveSchema(p)
    BY <1>1, ImportBegins DEF ImportInt, AnalyzeB, SaveSchema
  <1>2. CASE AddField(p)
    <2>1. PICK name \in Names, n \in Numbers, d \in Definitions :
              ByName(p, name, <<[do |-> "putField", num |-> n, def |-> d]>>)
      BY <1>2 DEF AddField
    <2>2. [do |-> "putField", num |-> n, def |-> d] \in Statements
      BY StatementForms DEF FieldNumbers, FieldDefs
    <2>3. QED
      BY <2>1, <2>2, OneStatementBegins
  <1>3. CASE RmField(p)
    <2>1. PICK name \in Names, n \in Numbers : ByName(p, name, <<[do |-> "dropField", num |-> n]>>)
      BY <1>3 DEF RmField
    <2>2. [do |-> "dropField", num |-> n] \in Statements
      BY StatementForms DEF FieldNumbers
    <2>3. QED
      BY <2>1, <2>2, OneStatementBegins
  <1>4. CASE RmIndex(p)
    <2>1. PICK name \in Names, n \in Numbers : ByName(p, name, <<[do |-> "dropIndex", num |-> n]>>)
      BY <1>4 DEF RmIndex
    <2>2. [do |-> "dropIndex", num |-> n] \in Statements
      BY StatementForms DEF IndexNumbers
    <2>3. QED
      BY <2>1, <2>2, OneStatementBegins
  <1>5. CASE RmTable(p)
    <2>1. PICK name \in Names : Begin(p, Called(name), <<Do("dropTables")>>)
      BY <1>5 DEF RmTable
    <2>2. Do("dropTables") \in Statements /\ Do("dropTables").do = "dropTables"
      BY StatementForms DEF Do
    <2>3. QED
      BY <2>1, <2>2, NameStatementBegins
  <1>6. CASE SetTable(p)
    <2>1. PICK name \in Names, d \in Databases :
              Begin(p, Called(name), <<[do |-> "setDatabase", db |-> d]>>)
      BY <1>6 DEF SetTable
    <2>2. [do |-> "setDatabase", db |-> d] \in Statements
      BY StatementForms
    <2>3. QED
      BY <2>1, <2>2, NameStatementBegins
  <1>7. CASE MigrationStatus(p)
    <2>1. Begin(p, {}, <<Do("upgrade")>>)
      BY <1>7 DEF MigrationStatus
    <2>2. Do("upgrade") \in Statements /\ Do("upgrade").do = "upgrade"
      BY StatementForms DEF Do
    <2>3. QED
      BY <2>1, <2>2, NameStatementBegins
  <1>8. CASE SetConnection(p)
    <2>1. PICK S \in SUBSET Settings, v \in Values : Begin(p, {}, SetAll(S, v))
      BY <1>8 DEF SetConnection
    <2>2. QED
      BY <2>1, SetAllBegins
  <1>9. CASE ImportMds(p)
    <2>1. PICK S \in SUBSET Settings, v \in Values : Begin(p, {}, SetAll(S, v))
      BY <1>9 DEF ImportMds
    <2>2. QED
      BY <2>1, SetAllBegins
  <1>10. CASE SetConfig(p)
    <2>1. PICK S \in SUBSET Settings, v \in Values : Begin(p, {}, SetAll(S, v))
      BY <1>10 DEF SetConfig
    <2>2. QED
      BY <2>1, SetAllBegins
  <1>11. QED
    BY <1>1, <1>2, <1>3, <1>4, <1>5, <1>6, <1>7, <1>8, <1>9, <1>10, AddIndexBegins, StampBegins
       DEF Operation

\* So does every step.
LEMMA StepHolds == ConfigInv /\ [Next]_vars => ConfigInv'
  <1> SUFFICES ASSUME ConfigInv, [Next]_vars PROVE ConfigInv'
    OBVIOUS
  <1>1. CASE UNCHANGED vars
    <2>1. /\ tables' = tables /\ fields' = fields /\ indexes' = indexes /\ segs' = segs
          /\ job' = job /\ trusted' = trusted
      BY <1>1 DEF vars
    <2>2. ConfigTypeOK' /\ KeysAreUnique' /\ NoStraySegments'
      BY <2>1 DEF ConfigInv, ConfigTypeOK, DatabaseTypeOK, KeysAreUnique, NoStraySegments
    <2>3. \A t \in Id : tables[t] # None => Same(t)
      BY <2>1 DEF Same, IndexesOf
    <2>4. ASSUME NEW p \in Proc PROVE JobHolds(job[p])'
      <3>1. PICK k \in JobType : k = job[p] /\ JobHolds(k)
        BY JobFields
      <3>2. \A t \in Id : tables[t] # None => tables'[t] # None /\ tables'[t].key = tables[t].key
        BY <2>1
      <3>3. JobHolds(k)'
        BY <2>1, <2>3, <3>1, <3>2, KeptJob
      <3>4. job'[p] = k
        BY <2>1, <3>1
      <3>5. QED
        BY <3>3, <3>4
    <2>5. ASSUME NEW k \in Key, trusted'[k] # None PROVE IsTheFile(k)'
      <3>1. IsTheFile(k) /\ trusted'[k] = trusted[k]
        BY <2>1, <2>5 DEF ConfigInv
      <3>2. QED
        BY <2>3, <3>1, KeptTrust
    <2>6. QED
      BY <2>2, <2>4, <2>5 DEF ConfigInv
  <1>2. CASE Next
    <2>1. PICK p \in Proc : Operation(p) \/ Statement(p) \/ Fail(p)
      BY <1>2 DEF Next
    <2>2. CASE Operation(p)
      BY <2>2, OperationHolds
    <2>3. CASE Statement(p)
      <3>1. CASE UpsertTable(p) \/ FindTable(p) \/ ClearFields(p) \/ ClearIndexes(p)
        BY <3>1, UpsertTableHolds, FindTableHolds, ClearFieldsHolds, ClearIndexesHolds
      <3>2. CASE InsertField(p) \/ UpsertField(p) \/ DeleteField(p)
        BY <3>2, InsertFieldHolds, PutFieldHolds
      <3>3. CASE InsertIndex(p) \/ InsertSegment(p) \/ DeleteIndex(p)
        BY <3>3, InsertIndexHolds, InsertSegmentHolds, DeleteIndexHolds
      <3>4. CASE DeleteTables(p) \/ UpdateTables(p) \/ UpgradeSchema(p)
        BY <3>4, DeleteTablesHolds, UpdateTablesHolds, UpgradeHolds
      <3>5. CASE Mark(p) \/ Unmark(p) \/ UpsertConfig(p)
        BY <3>5, SetMigratedHolds, UpsertConfigHolds
      <3>6. QED
        BY <2>3, <3>1, <3>2, <3>3, <3>4, <3>5 DEF Statement
    <2>4. CASE Fail(p)
      BY <2>4, FailHolds
    <2>5. QED
      BY <2>1, <2>2, <2>3, <2>4
  <1>3. QED
    BY <1>1, <1>2

\* The database and the jobs stay as the invariant says, whatever processes,
\* files, tables and settings there are.
THEOREM ConfigInvariant == Spec => []ConfigInv
  <1>1. QED
    BY InitHolds, StepHolds, PTL DEF Spec

-----------------------------------------------------------------------------
(***************************************************************************)
(* What it is for.                                                         *)
(***************************************************************************)
\* What is loaded of a table whose indexes are all the file's is what the file
\* says.
LEMMA LoadedIsTheFile ==
    ASSUME ConfigInv
    PROVE  ImportedTablesAreComplete
  <1> SUFFICES ASSUME NEW k \in Key, trusted[k] # None
               PROVE  \E t \in Rows({k}) :
                         /\ tables[t].header = trusted[k].header
                         /\ tables[t].schema \in {trusted[k].schema, ""}
                         /\ LoadedFields(t) = trusted[k].fields
                         /\ LoadedIndexes(t) = trusted[k].indexes
    BY DEF ImportedTablesAreComplete
  <1>1. PICK f : f = trusted[k]
    OBVIOUS
  <1>2. f \in Files
    BY <1>1 DEF ConfigInv, ConfigTypeOK
  <1>3. PICK t \in Rows({k}) :
            /\ tables[t].header = f.header
            /\ tables[t].schema \in {f.schema, ""}
            /\ fields[t] = f.fields
            /\ IndexesStored(t, f, 0, <<>>, <<>>)
    BY <1>1 DEF ConfigInv, IsTheFile
  <1>4. \A i \in IndexesOf(t) : i \in Id /\ i # 0
    BY ConfigAssumption DEF IndexesOf, Id
  <1>5. /\ \A i, j \in IndexesOf(t) : indexes[i].number = indexes[j].number => i = j
        /\ {indexes[i].number : i \in IndexesOf(t)} = DOMAIN f.indexes \ Range(<<>>)
        /\ \A i \in IndexesOf(t) : f.indexes[indexes[i].number] = segs[i]
    BY <1>3, <1>4 DEF IndexesStored
  <1>6. {indexes[i].number : i \in IndexesOf(t)} = DOMAIN f.indexes
    <2>1. Range(<<>>) = {}
      BY DEF Range
    <2>2. QED
      BY <1>5, <2>1
  <1>7. ASSUME NEW n \in DOMAIN f.indexes
        PROVE  segs[CHOOSE i \in IndexesOf(t) : indexes[i].number = n] = f.indexes[n]
    <2>1. \E i \in IndexesOf(t) : indexes[i].number = n
      BY <1>6
    <2>2. PICK i \in IndexesOf(t) : i = (CHOOSE c \in IndexesOf(t) : indexes[c].number = n)
                                    /\ indexes[i].number = n
      BY <2>1
    <2>3. QED
      BY <1>5, <2>2
  <1>8. LoadedIndexes(t) = [n \in DOMAIN f.indexes |-> f.indexes[n]]
    BY <1>6, <1>7 DEF LoadedIndexes
  <1>9. LoadedIndexes(t) = f.indexes
    BY <1>2, <1>8, FileFacts
  <1>10. QED
    BY <1>1, <1>3, <1>9 DEF LoadedFields

\* A table imported to its end while nobody else worked on it is what its INT
\* file says, until somebody works on it: upsert_table, its statements one by
\* one, and everything else that goes on in the database between them.
THEOREM ImportsAreComplete == Spec => []ImportedTablesAreComplete
  <1>1. QED
    BY ConfigInvariant, LoadedIsTheFile, PTL

\* A stamp changes only where it is set or cleared.
LEMMA StampsStay ==
    ASSUME ConfigInv, Next, NEW i \in Id,
           tables[i] # None, tables'[i] # None, tables'[i].migrated # tables[i].migrated
    PROVE  \E p \in Proc : /\ Doing(p, "mark") \/ Doing(p, "unmark")
                           /\ tables[i].key \in job[p].aim
                           /\ job'[p] = Idle
  <1>1. PICK p \in Proc : Operation(p) \/ Statement(p) \/ Fail(p)
    BY DEF Next
  <1>2. tables \in [Id -> TableRow \cup {None}] /\ tables[i] \in TableRow
    BY DEF ConfigInv, ConfigTypeOK, DatabaseTypeOK
  <1>3. tables' # tables
    OBVIOUS
  <1>4. ~Operation(p) /\ ~Fail(p)
    <2>1. \A q, aim, st : Begin(q, aim, st) => tables' = tables
      BY DEF Begin, database
    <2>2. Operation(p) => \E aim, st : Begin(p, aim, st)
      BY DEF Operation, ImportInt, AnalyzeB, SaveSchema, AddField, RmField, AddIndex, RmIndex,
             RmTable, SetTable, MarkMigrated, ClearMigrated, MigrationStatus, SetConnection,
             ImportMds, SetConfig, ByName
    <2>3. Fail(p) => tables' = tables
      BY DEF Fail, database
    <2>4. QED
      BY <1>3, <2>1, <2>2, <2>3
  <1>5. ~UpsertTable(p)
    <2> SUFFICES ASSUME UpsertTable(p) PROVE FALSE
      OBVIOUS
    <2>1. PICK t, f : tables' = [tables EXCEPT ![t] = Upserted(@, f)]
      BY DEF UpsertTable
    <2>2. tables'[i] = tables[i] \/ tables'[i] = Upserted(tables[i], f)
      BY <1>2, <2>1
    <2>3. QED
      BY <2>2 DEF Upserted
  <1>6. ~DeleteTables(p)
    BY DEF DeleteTables
  <1>7. ~UpdateTables(p)
    <2> SUFFICES ASSUME UpdateTables(p) PROVE FALSE
      OBVIOUS
    <2>1. PICK v : tables'[i] = tables[i] \/ tables'[i] = [tables[i] EXCEPT !.key = v]
      BY DEF UpdateTables
    <2>2. QED
      BY <1>2, <2>1 DEF TableRow
  <1>8. ~UpgradeSchema(p)
    <2> SUFFICES ASSUME UpgradeSchema(p) PROVE FALSE
      OBVIOUS
    <2>1. tables'[i] = tables[i] \/ tables'[i] = [tables[i] EXCEPT !.schema = ""]
      BY DEF UpgradeSchema
    <2>2. QED
      BY <1>2, <2>1 DEF TableRow
  <1>9. Mark(p) \/ Unmark(p)
    <2>1. /\ FindTable(p) => tables' = tables
          /\ ClearFields(p) => tables' = tables
          /\ ClearIndexes(p) => tables' = tables
      BY DEF FindTable, ClearFields, ClearIndexes, database
    <2>2. /\ InsertField(p) => tables' = tables
          /\ UpsertField(p) => tables' = tables
          /\ DeleteField(p) => tables' = tables
      BY DEF InsertField, UpsertField, DeleteField
    <2>3. /\ InsertIndex(p) => tables' = tables
          /\ InsertSegment(p) => tables' = tables
          /\ DeleteIndex(p) => tables' = tables
          /\ UpsertConfig(p) => tables' = tables
          /\ ClearIndexes(p) => tables' = tables
          /\ ClearFields(p) => tables' = tables
      BY DEF InsertIndex, InsertSegment, DeleteIndex, UpsertConfig, ClearIndexes, ClearFields, database
    <2>4. Statement(p)
      BY <1>1, <1>4
    <2>5. QED
      BY <1>3, <1>5, <1>6, <1>7, <1>8, <2>1, <2>2, <2>3, <2>4 DEF Statement
  <1>10. PICK what \in {"mark", "unmark"}, stamp \in {Never, DaysToYmd(Today)} :
            Doing(p, what) /\ SetMigrated(p, stamp)
    BY <1>9 DEF Mark, Unmark
  <1>11. tables[i].key \in job[p].aim
    <2>1. i \in Rows(job[p].aim)
      BY <1>10 DEF SetMigrated
    <2>2. QED
      BY <2>1 DEF Rows
  <1>12. job'[p] = Idle
    <2>1. PICK k : k = [job[p] EXCEPT !.todo = Tail(@)]
      OBVIOUS
    <2>2. Len(job[p].todo) = 1
      <3>1. k.todo # <<>> => <<what, Head(k.todo).do>> \in Follows
        BY <1>10, <2>1, AtEdit
      <3>2. Len(job[p].todo) # 1 => k.todo # <<>>
        BY <1>10, <2>1, AtEdit
      <3>3. QED
        BY <3>1, <3>2 DEF Follows
    <2>3. job' = [job EXCEPT ![p] = Idle]
      BY <1>10, <2>2 DEF SetMigrated, Advance
    <2>4. QED
      BY <2>3 DEF ConfigInv, ConfigTypeOK
  <1>13. QED
    BY <1>10, <1>11, <1>12

\* mark-migrated is forgotten only by clear-migrated or with the table: the
\* upserts of later imports and the upgrades of the schema keep the stamp.
THEOREM MigrationRemembered == Spec => MigrationIsRemembered
  <1>1. ConfigInv /\ [Next]_vars =>
          [\A i \in Id :
             tables[i] # None /\ tables'[i] # None /\ tables'[i].migrated # tables[i].migrated =>
                \E p \in Proc :
                   /\ Doing(p, "mark") \/ Doing(p, "unmark")
                   /\ tables[i].key \in job[p].aim
                   /\ job'[p] = Idle]_vars
    BY StampsStay
  <1>2. QED
    BY <1>1, ConfigInvariant, PTL DEF Spec, MigrationIsRemembered
=============================================================================
