-------------------------- MODULE ImportRunProofs --------------------------
(***************************************************************************)
(* Proofs about ImportRun, for any jobs, projects, files, requests and     *)
(* tables: what an import leaves in a table it has emptied.                *)
(***************************************************************************)
EXTENDS ImportRun, FiniteSetTheorems, SequenceTheorems, WellFoundedInduction, TLAPS

\* The records of the files.
Value == UNION {Range(ReadFrom[f]) \cup Range(LiveIn[f]) : f \in DOMAIN File}

Kinds  == {"cli", "dir", "web", "stream"}
Phases == {"idle", "start", "schema", "open", "create", "truncate", "rows", "over"}

\* A request; its stream may have lost its client.
RequestType ==
    [kind : Kinds, project : Project, files : Seq(DOMAIN File),
     table : {r.table : r \in Requests}, create : BOOLEAN, truncate : BOOLEAN,
     dry : BOOLEAN, auto : BOOLEAN, save : BOOLEAN, batch : Nat]

JobType ==
    [at : Phases, req : RequestType \cup {None}, project : Project \cup {None},
     file : Nat \ {0}, db : Databases \cup {None}, left : Seq(Value),
     ok : Nat, skipped : Nat, died : BOOLEAN]

ImportTypeOK ==
    /\ job \in [Job -> JobType]
    /\ DOMAIN known = Project
    /\ \A p \in Project : \A name \in DOMAIN known[p] : known[p][name] \in Databases
    /\ DOMAIN rows \subseteq Locations
    /\ \A t \in DOMAIN rows : rows[t] \in Seq(Value)
    /\ emptied \in [Locations -> (Job \X (Nat \ {0})) \cup {None}]

\* Where a job stands in its request.
JobHolds(j) ==
    /\ job[j].at # "idle" => job[j].req \in RequestType /\ job[j].project \in Project
    /\ job[j].at \in {"open", "create", "truncate", "rows"} =>
           job[j].file <= Len(job[j].req.files) /\ job[j].db \in Databases
    /\ job[j].at \in {"create", "truncate"} => job[j].left = ReadFrom[FileOf(j)]
    /\ job[j].at = "truncate" => ~job[j].req.dry

\* What was reported lies behind the job.
ReportedHolds == \A j \in Job, n \in Nat : <<j, n>> \in reported => n < job[j].file

\* The table t was emptied by job j for its n-th file.
EmptiedHolds(t, j, n) ==
    LET live == LiveIn[WrittenBy(t)]
    IN  /\ t \in DOMAIN rows
        /\ job[j].at # "idle" /\ n <= job[j].file /\ n <= Len(job[j].req.files)
        /\ n = job[j].file =>
               \/ job[j].at = "over"
               \/ job[j].at = "rows" /\ t = Target(j) /\ ~job[j].req.dry
        /\ WrittenBy(t) \in RightFiles =>
               /\ n = job[j].file /\ job[j].at = "rows" => rows[t] \o job[j].left = live
               /\ <<j, n>> \in reported => rows[t] = live
               /\ IsPrefix(rows[t], live)
               /\ Backend[job[j].project] = "mssql" =>
                      Len(rows[t]) % BatchSize(job[j].req) = 0 \/ rows[t] = live

ImportInv ==
    /\ ImportTypeOK
    /\ \A j \in Job : JobHolds(j)
    /\ ReportedHolds
    /\ \A t \in Locations, j \in Job, n \in Nat \ {0} :
           emptied[t] # None /\ emptied[t] = <<j, n>> => EmptiedHolds(t, j, n)

-----------------------------------------------------------------------------
(***************************************************************************)
(* What is read from a file.                                               *)
(***************************************************************************)
\* A set of natural numbers has a least element.
LEMMA LeastExists ==
    ASSUME NEW T \in SUBSET Nat, T # {}
    PROVE  \E n \in T : \A m \in T : n <= m
  <1>1. PICK n \in T : \A m \in T : ~ (<<m, n>> \in OpToRel(<, Nat))
    BY NatLessThanWellFounded, WFMin
  <1>2. \A m \in T : ~ (m < n)
    BY <1>1 DEF OpToRel
  <1>3. QED
    BY <1>2

\* The concatenation of sequences is a sequence: the recursive function it is
\* defined by exists, and each of its values is one.
LEMMA FlattenIsSeq ==
    ASSUME NEW S, NEW seqs \in Seq(Seq(S))
    PROVE  FlattenSeq(seqs) \in Seq(S)
  <1> DEFINE Good(n, f) == f = [i \in 1..n |-> IF i = 1 THEN seqs[i] ELSE f[i-1] \o seqs[i]]
             Bad == {n \in Nat : ~ \E f : Good(n, f)}
  <1>1. Bad = {}
    <2> SUFFICES ASSUME Bad # {} PROVE FALSE
      OBVIOUS
    <2>1. PICK n \in Bad : \A m \in Bad : n <= m
      BY LeastExists
    <2>2. n # 0
      <3>1. Good(0, [i \in {} |-> 0])
        OBVIOUS
      <3>2. QED
        BY <3>1, <2>1
    <2>3. n - 1 \in Nat /\ n - 1 \notin Bad
      <3>1. n \in Nat
        OBVIOUS
      <3>2. n - 1 \in Nat /\ ~ (n <= n - 1)
        BY <2>2, <3>1
      <3>3. QED
        BY <2>1, <3>2
    <2>4. PICK g : Good(n - 1, g)
      BY <2>3
    <2> DEFINE f == [i \in 1..n |-> IF i = 1 THEN seqs[i] ELSE g[i-1] \o seqs[i]]
    <2>5. \A i \in 1 .. n-1 : f[i] = g[i]
      <3>1. \A i \in 1 .. n-1 : i \in 1..n
        BY <2>3
      <3>2. \A i \in 1 .. n-1 : g[i] = IF i = 1 THEN seqs[i] ELSE g[i-1] \o seqs[i]
        BY <2>4
      <3>3. QED
        BY <3>1, <3>2
    <2>6. Good(n, f)
      <3>1. \A i \in 1..n : i = 1 \/ i-1 \in 1 .. n-1
        BY <2>3
      <3>2. QED
        BY <3>1, <2>5
    <2>7. QED
      BY <2>6, <2>1
  <1>2. ASSUME NEW n \in Nat, NEW f, Good(n, f), n <= Len(seqs)
        PROVE  \A i \in 1..n : f[i] \in Seq(S)
    <2> DEFINE T == {i \in 1..n : f[i] \notin Seq(S)}
    <2> SUFFICES ASSUME T # {} PROVE FALSE
      OBVIOUS
    <2>1. T \in SUBSET Nat
      BY <1>2
    <2>2. PICK i \in T : \A j \in T : i <= j
      BY <2>1, LeastExists
    <2>3. i \in 1..n /\ seqs[i] \in Seq(S)
      BY <1>2
    <2>4. f[i] = IF i = 1 THEN seqs[i] ELSE f[i-1] \o seqs[i]
      BY <1>2, <2>3
    <2>5. i # 1 => f[i-1] \in Seq(S)
      <3>1. i # 1 => i-1 \in 1..n /\ ~ (i <= i-1)
        BY <2>3
      <3>2. QED
        BY <3>1, <2>2
    <2>6. f[i] \in Seq(S)
      BY <2>3, <2>4, <2>5
    <2>7. QED
      BY <2>6
  <1>3. CASE Len(seqs) = 0
    BY <1>3 DEF FlattenSeq
  <1>4. CASE Len(seqs) # 0
    <2> DEFINE flatten == CHOOSE f : Good(Len(seqs), f)
    <2>1. Good(Len(seqs), flatten)
      <3>1. Len(seqs) \in Nat
        OBVIOUS
      <3>2. \E f : Good(Len(seqs), f)
        BY <3>1, <1>1
      <3>3. QED
        BY <3>2
    <2>2. FlattenSeq(seqs) = flatten[Len(seqs)]
      BY <1>4 DEF FlattenSeq
    <2>3. Len(seqs) \in Nat /\ Len(seqs) <= Len(seqs) /\ Len(seqs) \in 1..Len(seqs)
      BY <1>4
    <2> HIDE DEF Good, flatten
    <2>4. \A i \in 1..Len(seqs) : flatten[i] \in Seq(S)
      BY <2>1, <2>3, <1>2
    <2>5. QED
      BY <2>2, <2>3, <2>4
  <1>5. QED
    BY <1>3, <1>4

\* The slots of a file, and the records at some of them, are sequences.
LEMMA PickFacts ==
    ASSUME NEW f \in Range(File), NEW S \in SUBSET DOMAIN Slots(f)
    PROVE  /\ DOMAIN Slots(f) = 1..Len(Slots(f)) /\ Len(Slots(f)) \in Nat
           /\ Cardinality(S) \in Nat
           /\ Pick(Slots(f), S) \in Seq(Range(Pick(Slots(f), S)))
           /\ Len(Pick(Slots(f), S)) = Cardinality(S)
  <1> DEFINE Slot == [id : Nat, usage : Nat]
             Page == [data : BOOLEAN, slots : Seq(Slot)]
             lists == [p \in DOMAIN f.pages |->
                          IF f.pages[p].data THEN f.pages[p].slots ELSE <<>>]
  <1>1. f.pages \in Seq(Page)
    BY FileAssumption
  <1>2. lists \in Seq(Seq(Slot))
    <2>1. \A p \in 1..Len(f.pages) : f.pages[p] \in Page
      <3> HIDE DEF Page
      <3>1. QED
        BY <1>1
    <2>2. \A p \in 1..Len(f.pages) :
              (IF f.pages[p].data THEN f.pages[p].slots ELSE <<>>) \in Seq(Slot)
      BY <2>1
    <2>3. DOMAIN f.pages = 1..Len(f.pages) /\ Len(f.pages) \in Nat
      BY <1>1
    <2> HIDE DEF Slot, Page
    <2>4. QED
      BY <2>2, <2>3
  <1>3. Slots(f) \in Seq(Slot)
    BY <1>2, FlattenIsSeq DEF Slots
  <1>4. DOMAIN Slots(f) = 1..Len(Slots(f)) /\ Len(Slots(f)) \in Nat
    BY <1>3
  <1>5. IsFiniteSet(S) /\ Cardinality(S) \in Nat
    <2>1. 1 \in Int /\ Len(Slots(f)) \in Int
      BY <1>4
    <2>2. IsFiniteSet(1..Len(Slots(f)))
      BY <2>1, FS_Interval
    <2>3. QED
      BY <1>4, <2>2, FS_Subset, FS_CardinalityType
  <1> DEFINE P == Pick(Slots(f), S)
             elem(n) == Slots(f)[CHOOSE i \in S : Cardinality({j \in S : j <= i}) = n].id
  <1>6. P = [n \in 1..Cardinality(S) |-> elem(n)]
    BY DEF Pick
  <1> HIDE DEF P, elem
  <1>7. P \in Seq(Range(P)) /\ Len(P) = Cardinality(S)
    BY <1>5, <1>6 DEF Range
  <1>8. QED
    BY <1>4, <1>5, <1>7 DEF P

\* Of a file that is read right the records read are those that are in it.
LEMMA ReadingFacts ==
    ASSUME NEW n \in DOMAIN File
    PROVE  /\ ReadFrom[n] \in Seq(Value) /\ LiveIn[n] \in Seq(Value)
           /\ n \in RightFiles => ReadFrom[n] = LiveIn[n]
  <1> DEFINE f    == File[n]
             A    == {i \in DOMAIN Slots(f) : ~Gone(f, Slots(f)[i])}
             B    == {i \in DOMAIN Slots(f) : Slots(f)[i].usage # 0}
             left == Pick(Slots(f), A)
             live == Pick(Slots(f), B)
  <1>1. f \in Range(File)
    BY DEF Range
  <1>2. left \in Seq(Range(left)) /\ live \in Seq(Range(live))
    BY <1>1, PickFacts
  <1>3. f.declared \in Nat
    BY <1>1, FileAssumption
  <1>4. Records(f) = IF f.declared = 0 \/ f.declared > Len(left) THEN left
                     ELSE SubSeq(left, 1, f.declared)
    BY DEF Records
  <1>5. Live(f) = live
    BY DEF Live
  <1>6. Records(f) \in Seq(Range(Records(f)))
    <2> DEFINE s == SubSeq(left, 1, f.declared)
    <2>1. CASE f.declared = 0 \/ f.declared > Len(left)
      BY <1>2, <1>4, <2>1
    <2>2. CASE ~ (f.declared = 0 \/ f.declared > Len(left))
      <3>1. Records(f) = s
        BY <1>4, <2>2
      <3>2. s = [i \in 1..f.declared |-> left[i]]
        <4> HIDE DEF left
        <4>1. f.declared \in 1..Len(left)
          BY <1>2, <1>3, <2>2
        <4>2. s \in Seq(Range(left)) /\ Len(s) = f.declared
              /\ \A i \in 1..f.declared : s[i] = left[i]
          BY <1>2, <4>1
        <4>3. QED
          BY <4>2
      <3> HIDE DEF s, left
      <3>3. s \in Seq(Range(s))
        BY <1>3, <3>2 DEF Range
      <3>4. QED
        BY <3>1, <3>3
    <2>3. QED
      BY <2>1, <2>2
  <1>7. ReadFrom[n] = Records(f) /\ LiveIn[n] = Live(f)
    BY DEF ReadFrom, LiveIn
  <1>8. ReadFrom[n] \in Seq(Value) /\ LiveIn[n] \in Seq(Value)
    <2>1. Range(Records(f)) \subseteq Value /\ Range(Live(f)) \subseteq Value
      BY <1>7 DEF Value
    <2>2. \A S, s : s \in Seq(S) /\ S \subseteq Value => s \in Seq(Value)
      OBVIOUS
    <2>3. QED
      BY <1>2, <1>5, <1>6, <1>7, <2>1, <2>2
  <1>9. ASSUME n \in RightFiles PROVE Records(f) = Live(f)
    <2>1. ReadRight(f)
      BY <1>9 DEF RightFiles
    <2>2. A = B
      <3>1. \A i \in DOMAIN Slots(f) : Slots(f)[i] \in Range(Slots(f))
        BY DEF Range
      <3>2. QED
        BY <2>1, <3>1 DEF ReadRight, Gone
    <2>3. f.declared = 0 \/ f.declared >= Len(left)
      BY <1>5, <2>1, <2>2 DEF ReadRight
    <2>4. SubSeq(left, 1, Len(left)) = left
      BY <1>2, SubSeqFull
    <2> HIDE DEF A, B, left, live
    <2>5. left = live
      BY <2>2 DEF left, live
    <2>6. Len(left) \in Nat
      BY <1>2
    <2>7. f.declared = 0 \/ f.declared > Len(left) \/ f.declared = Len(left)
      BY <1>3, <2>3, <2>6
    <2>8. QED
      BY <1>4, <1>5, <2>4, <2>5, <2>7
  <1>10. QED
    BY <1>7, <1>8, <1>9

-----------------------------------------------------------------------------
(***************************************************************************)
(* Batches.                                                                *)
(***************************************************************************)
\* The quotient and the rest of a division.
LEMMA DivMod ==
    ASSUME NEW X \in Nat, NEW B \in Nat \ {0}
    PROVE  X \div B \in Int /\ X % B \in 0 .. B-1 /\ X = B * (X \div B) + (X % B)
  <1>1. X % B \in 0 .. B-1
    BY SMTT(30)
  <1>2. X \div B \in Int
    BY SMTT(30)
  <1>3. X = B * (X \div B) + (X % B)
    BY SMTT(30)
  <1>4. QED
    BY <1>1, <1>2, <1>3

\* A multiple of B that is less than B is 0.
LEMMA SmallMultiple ==
    ASSUME NEW B \in Nat \ {0}, NEW d \in Int, B * d \in 0 .. B-1 PROVE d = 0
  <1>1. CASE d >= 1
    <2>1. B * d >= B
      BY <1>1, SMTT(30)
    <2>2. QED
      BY <2>1
  <1>2. CASE d <= -1
    <2>1. B * d <= -B
      BY <1>2, SMTT(30)
    <2>2. QED
      BY <2>1
  <1>3. QED
    BY <1>1, <1>2

\* One more batch on whole batches.
LEMMA OneMoreBatch ==
    ASSUME NEW L \in Nat, NEW B \in Nat \ {0}, L % B = 0 PROVE (L + B) % B = 0
  <1> DEFINE q == L \div B
             k == (L + B) \div B
             r == (L + B) % B
  <1>1. q \in Int /\ L = B * q
    BY DivMod
  <1>2. k \in Int /\ r \in 0 .. B-1 /\ L + B = B * k + r
    <2>1. L + B \in Nat
      OBVIOUS
    <2>2. QED
      BY <2>1, DivMod
  <1> HIDE DEF q, k, r
  <1>3. r = B * (q + 1 - k)
    BY <1>1, <1>2, SMTT(30)
  <1>4. q + 1 - k = 0
    <2>1. q + 1 - k \in Int
      BY <1>1, <1>2
    <2>2. B * (q + 1 - k) \in 0 .. B-1
      BY <1>2, <1>3
    <2> DEFINE d == q + 1 - k
    <2>3. d \in Int /\ B * d \in 0 .. B-1
      BY <2>1, <2>2
    <2> HIDE DEF d
    <2>4. d = 0
      BY <2>3, SmallMultiple
    <2>5. QED
      BY <2>4 DEF d
  <1>5. r = 0
    BY <1>3, <1>4, <1>1, <1>2
  <1>6. QED
    BY <1>5 DEF r

\* The records that have been sent and those that are left make up the file.
LEMMA SentAndLeft ==
    ASSUME NEW s \in Seq(Value), NEW l \in Seq(Value)
    PROVE  IsPrefix(s, s \o l)
  <1>1. Len(s \o l) = Len(s) + Len(l) /\ s \o l \in Seq(Value)
        /\ Len(s) \in Nat /\ Len(l) \in Nat
    BY ConcatProperties
  <1>2. SubSeq(s \o l, 1, Len(s)) = SubSeq(s, 1, Len(s))
    <2>1. CASE Len(s) = 0
      <3>1. \A x \in Seq(Value) : SubSeq(x, 1, 0) = <<>>
        BY SubSeqEmpty
      <3>2. QED
        BY <1>1, <2>1, <3>1
    <2>2. CASE Len(s) # 0
      <3>1. 1 \in 1..Len(s) /\ Len(s) \in 1..Len(s)
        BY <1>1, <2>2
      <3>2. QED
        BY <3>1, SubSeqOfConcat1
    <2>3. QED
      BY <2>1, <2>2
  <1>3. QED
    BY <1>1, <1>2 DEF IsPrefix

\* Concatenation of records is associative.
LEMMA Associative ==
    ASSUME NEW x \in Seq(Value), NEW y \in Seq(Value), NEW z \in Seq(Value)
    PROVE  (x \o y) \o z = x \o (y \o z)
  BY ConcatAssociative

\* After a batch it is still so; and it is whole batches or everything.
LEMMA BatchKeeps ==
    ASSUME NEW s \in Seq(Value), NEW l \in Seq(Value), l # <<>>,
           NEW n \in 1..Len(l), NEW B \in Nat \ {0}, NEW live, s \o l = live
    PROVE  /\ s \o SubSeq(l, 1, n) \in Seq(Value)
           /\ SubSeq(l, n + 1, Len(l)) \in Seq(Value)
           /\ (s \o SubSeq(l, 1, n)) \o SubSeq(l, n + 1, Len(l)) = live
           /\ IsPrefix(s \o SubSeq(l, 1, n), live)
           /\ (n = B \/ n = Len(l)) /\ (Len(s) % B = 0 \/ s = live) =>
                  Len(s \o SubSeq(l, 1, n)) % B = 0 \/ s \o SubSeq(l, 1, n) = live
  <1> DEFINE a == SubSeq(l, 1, n)
             b == SubSeq(l, n + 1, Len(l))
  <1>1. Len(l) \in Nat /\ n \in Nat /\ n <= Len(l) /\ n >= 1 /\ Len(s) \in Nat
    OBVIOUS
  <1>2. a \in Seq(Value) /\ Len(a) = n /\ b \in Seq(Value)
    BY <1>1
  <1>3. a \o b = l
    <2>1. 1 \in 1 .. Len(l)+1 /\ n \in 1-1 .. Len(l) /\ Len(l) \in n .. Len(l)
      BY <1>1
    <2>2. SubSeq(l, 1, n) \o SubSeq(l, n+1, Len(l)) = SubSeq(l, 1, Len(l))
      BY <2>1, ConcatAdjacentSubSeq
    <2>3. QED
      BY <2>2, SubSeqFull
  <1> HIDE DEF a, b
  <1>4. s \o a \in Seq(Value) /\ Len(s \o a) = Len(s) + n
    BY <1>2, ConcatProperties
  <1>5. (s \o a) \o b = live
    <2>1. (s \o a) \o b = s \o (a \o b)
      BY <1>2, Associative
    <2>2. QED
      BY <1>3, <2>1
  <1>6. IsPrefix(s \o a, live)
    BY <1>2, <1>4, <1>5, SentAndLeft
  <1>7. ASSUME n = Len(l) PROVE s \o a = live
    <2>1. a = l
      BY <1>7, SubSeqFull DEF a
    <2>2. QED
      BY <2>1
  <1>8. ASSUME n = B, Len(s) % B = 0 PROVE Len(s \o a) % B = 0
    <2>1. (Len(s) + B) % B = 0
      BY <1>1, <1>8, OneMoreBatch
    <2>2. QED
      BY <1>4, <1>8, <2>1
  <1>9. s # live
    BY ConcatEqualIffEmpty
  <1>10. QED
    BY <1>2, <1>4, <1>5, <1>6, <1>7, <1>8, <1>9 DEF a, b

\* The number of records a statement sends.
LEMMA SentFacts ==
    ASSUME NEW j \in Job, job[j].req \in RequestType,
           job[j].left \in Seq(Value), job[j].left # <<>>
    PROVE  /\ BatchSize(job[j].req) \in Nat \ {0}
           /\ Sent(j) \in 1..Len(job[j].left)
           /\ Backend[job[j].project] = "mssql" =>
                  Sent(j) = BatchSize(job[j].req) \/ Sent(j) = Len(job[j].left)
  <1> DEFINE a == BatchSize(job[j].req)
             b == Len(job[j].left)
  <1>1. a \in Nat \ {0}
    BY DEF BatchSize, RequestType
  <1>2. b \in Nat \ {0}
    OBVIOUS
  <1> HIDE DEF a, b
  <1>3. \E x \in {a, b} : \A y \in {a, b} : x =< y
    BY <1>1, <1>2
  <1>4. Min({a, b}) \in {a, b} /\ \A y \in {a, b} : Min({a, b}) =< y
    BY <1>3 DEF Min
  <1>5. Batch(j) = Min({a, b})
    BY DEF Batch, a, b
  <1>6. QED
    BY <1>1, <1>2, <1>4, <1>5 DEF Sent, a, b

-----------------------------------------------------------------------------
(***************************************************************************)
(* A step that writes to no table: what it may do with its job.            *)
(***************************************************************************)
SameRequest(j) ==
    /\ job'[j].project = job[j].project
    /\ job'[j].req.files = job[j].req.files /\ job'[j].req.table = job[j].req.table
    /\ job'[j].req.dry = job[j].req.dry /\ job'[j].req.batch = job[j].req.batch

\* The job goes on with its file, or on to another one, or ends.
GoesOn(j) ==
    /\ job[j].at # "idle" => SameRequest(j)
    /\ job'[j].at # "idle"
    /\ job[j].file <= job'[j].file
    /\ job'[j].file = job[j].file =>
           /\ job[j].at = "over" => job'[j].at = "over"
           /\ job[j].at = "rows" =>
                  \/ job'[j].at = "over"
                  \/ /\ job'[j].at = "rows" /\ job'[j].db = job[j].db
                     /\ job[j].req.dry \/ job'[j].left = job[j].left

\* A file is reported when all of it has been sent, and left behind.
ReportsOnly(j) ==
    \A i \in Job, n \in Nat :
        <<i, n>> \in reported' =>
            \/ <<i, n>> \in reported
            \/ /\ i = j /\ n = job[j].file /\ job'[j].file = n + 1
               /\ job[j].at = "rows" /\ job[j].left = <<>>

\* A table stays as it is if it was emptied.
TableKept(t) ==
    /\ emptied'[t] = emptied[t]
    /\ emptied[t] # None /\ t \in DOMAIN rows => t \in DOMAIN rows' /\ rows'[t] = rows[t]

TablesKept == emptied' = emptied /\ \A t \in Locations : TableKept(t)

\* The facts about the tables emptied survive such a step.
LEMMA EmptiedKept ==
    ASSUME ImportInv, NEW j \in Job, job' \in [Job -> JobType],
           \A i \in Job \ {j} : job'[i] = job[i],
           ReportsOnly(j),
           NEW t \in Locations, TableKept(t), NEW i \in Job, NEW n \in Nat \ {0},
           emptied'[t] # None, emptied'[t] = <<i, n>>, i = j => GoesOn(j)
    PROVE  EmptiedHolds(t, i, n)'
  <1>1. emptied[t] # None /\ emptied[t] = <<i, n>>
    BY DEF TableKept
  <1>2. EmptiedHolds(t, i, n)
    BY <1>1 DEF ImportInv
  <1>3. t \in DOMAIN rows' /\ rows'[t] = rows[t]
    BY <1>1, <1>2 DEF TableKept, EmptiedHolds
  <1>4. <<i, n>> \in reported' =>
            \/ <<i, n>> \in reported
            \/ /\ i = j /\ n = job[j].file /\ job'[j].file = n + 1
               /\ job[j].at = "rows" /\ job[j].left = <<>>
    BY DEF ReportsOnly
  <1>5. WrittenBy(t) = job[i].req.files[n] /\ WrittenBy(t)' = job'[i].req.files[n]
    BY <1>1 DEF WrittenBy, TableKept
  <1> DEFINE live == LiveIn[job[i].req.files[n]]
  <1>6. CASE i # j
    <2>1. job'[i] = job[i]
      BY <1>6
    <2>2. Target(i)' = Target(i)
      BY <2>1 DEF Target
    <2>3. <<i, n>> \in reported' => <<i, n>> \in reported
      BY <1>4, <1>6
    <2>4. WrittenBy(t)' = WrittenBy(t)
      BY <1>5, <2>1
    <2>5. QED
      BY <1>2, <1>3, <2>1, <2>2, <2>3, <2>4 DEF EmptiedHolds
  <1>7. CASE i = j
    <2> GoesOn(j)
      BY <1>7
    <2>1. /\ job[j].at # "idle" /\ n <= job[j].file /\ n <= Len(job[j].req.files)
          /\ n = job[j].file => \/ job[j].at = "over"
                                \/ job[j].at = "rows" /\ t = Target(j) /\ ~job[j].req.dry
      BY <1>2, <1>7 DEF EmptiedHolds
    <2>2. SameRequest(j) /\ job'[j].at # "idle" /\ job[j].file <= job'[j].file
      BY <2>1 DEF GoesOn
    <2>3. job[j].file \in Nat /\ job'[j].file \in Nat
      BY DEF ImportInv, ImportTypeOK, JobType
    <2>4. WrittenBy(t)' = WrittenBy(t)
      BY <1>5, <1>7, <2>2 DEF SameRequest
    <2>5. n <= job'[j].file /\ n <= Len(job'[j].req.files)
      BY <2>1, <2>2, <2>3 DEF SameRequest
    <2>6. n = job'[j].file =>
              /\ n = job[j].file
              /\ \/ job'[j].at = "over"
                 \/ /\ job[j].at = "rows" /\ job'[j].at = "rows" /\ t = Target(j)'
                    /\ ~job'[j].req.dry /\ job'[j].left = job[j].left
      <3> SUFFICES ASSUME n = job'[j].file, job'[j].at # "over"
                   PROVE  /\ n = job[j].file
                          /\ job[j].at = "rows" /\ job'[j].at = "rows" /\ t = Target(j)'
                          /\ ~job'[j].req.dry /\ job'[j].left = job[j].left
        BY <2>1, <2>2, <2>3
      <3>1. n = job[j].file
        BY <2>1, <2>2, <2>3
      <3>2. job[j].at = "rows" /\ t = Target(j) /\ ~job[j].req.dry
        BY <2>1, <3>1 DEF GoesOn
      <3>3. job'[j].at = "rows" /\ job'[j].db = job[j].db /\ job'[j].left = job[j].left
        BY <3>1, <3>2 DEF GoesOn
      <3>4. Target(j)' = Target(j)
        BY <2>2, <3>1, <3>3 DEF Target, SameRequest, Name
      <3>5. QED
        BY <2>2, <3>1, <3>2, <3>3, <3>4 DEF SameRequest
    <2>7. ASSUME WrittenBy(t) \in RightFiles
          PROVE  /\ n = job'[j].file /\ job'[j].at = "rows" =>
                        rows'[t] \o job'[j].left = LiveIn[WrittenBy(t)]
                 /\ <<j, n>> \in reported' => rows'[t] = LiveIn[WrittenBy(t)]
                 /\ IsPrefix(rows'[t], LiveIn[WrittenBy(t)])
                 /\ Backend[job'[j].project] = "mssql" =>
                        \/ Len(rows'[t]) % BatchSize(job'[j].req) = 0
                        \/ rows'[t] = LiveIn[WrittenBy(t)]
      <3>1. /\ n = job[j].file /\ job[j].at = "rows" =>
                   rows[t] \o job[j].left = LiveIn[WrittenBy(t)]
            /\ <<j, n>> \in reported => rows[t] = LiveIn[WrittenBy(t)]
            /\ IsPrefix(rows[t], LiveIn[WrittenBy(t)])
            /\ Backend[job[j].project] = "mssql" =>
                   \/ Len(rows[t]) % BatchSize(job[j].req) = 0
                   \/ rows[t] = LiveIn[WrittenBy(t)]
        BY <1>2, <1>7, <2>7 DEF EmptiedHolds
      <3>2. BatchSize(job'[j].req) = BatchSize(job[j].req)
        BY <2>2 DEF SameRequest, BatchSize
      <3>3. <<j, n>> \in reported' => rows[t] = LiveIn[WrittenBy(t)]
        <4> SUFFICES ASSUME n = job[j].file, job[j].at = "rows", job[j].left = <<>>
                     PROVE  rows[t] = LiveIn[WrittenBy(t)]
          BY <1>4, <1>7, <3>1
        <4>1. rows[t] \o <<>> = LiveIn[WrittenBy(t)]
          BY <3>1
        <4>2. rows[t] \in Seq(Value)
          BY <1>2 DEF EmptiedHolds, ImportInv, ImportTypeOK
        <4>3. QED
          BY <4>1, <4>2, ConcatEmptySeq
      <3>4. n = job'[j].file /\ job'[j].at = "rows" =>
                rows[t] \o job'[j].left = LiveIn[WrittenBy(t)]
        BY <2>6, <3>1
      <3>5. Backend[job'[j].project] = "mssql" =>
                   \/ Len(rows[t]) % BatchSize(job'[j].req) = 0
                   \/ rows[t] = LiveIn[WrittenBy(t)]
        BY <2>2, <3>1, <3>2 DEF SameRequest
      <3>6. QED
        BY <1>3, <3>1, <3>3, <3>4, <3>5
    <2>8. QED
      BY <1>3, <1>7, <2>2, <2>4, <2>5, <2>6, <2>7 DEF EmptiedHolds
  <1>8. QED
    BY <1>6, <1>7

\* The other jobs stand where they stood.
LEMMA OthersHold ==
    ASSUME ImportInv, NEW j \in Job, \A i \in Job \ {j} : job'[i] = job[i], JobHolds(j)'
    PROVE  \A i \in Job : JobHolds(i)'
  <1> SUFFICES ASSUME NEW i \in Job, i # j PROVE JobHolds(i)'
    OBVIOUS
  <1>1. job'[i] = job[i]
    OBVIOUS
  <1>2. JobHolds(i)
    BY DEF ImportInv
  <1>3. FileOf(i)' = FileOf(i)
    BY <1>1 DEF FileOf
  <1>4. QED
    BY <1>1, <1>2, <1>3 DEF JobHolds

\* The whole invariant does.
LEMMA Frame ==
    ASSUME ImportInv, NEW j \in Job, job' \in [Job -> JobType],
           \A i \in Job \ {j} : job'[i] = job[i],
           GoesOn(j), JobHolds(j)', ReportsOnly(j), TablesKept,
           DOMAIN known' = Project,
           \A p \in Project : \A name \in DOMAIN known'[p] : known'[p][name] \in Databases,
           DOMAIN rows' \subseteq Locations, \A t \in DOMAIN rows' : rows'[t] \in Seq(Value)
    PROVE  ImportInv'
  <1>1. ImportTypeOK'
    BY DEF ImportInv, ImportTypeOK, TablesKept
  <1>2. \A i \in Job : JobHolds(i)'
    BY OthersHold
  <1>3. ReportedHolds'
    <2> SUFFICES ASSUME NEW i \in Job, NEW n \in Nat, <<i, n>> \in reported'
                 PROVE  n < job'[i].file
      BY DEF ReportedHolds
    <2>1. job[i].file \in Nat /\ job'[i].file \in Nat
      BY DEF ImportInv, ImportTypeOK, JobType
    <2>2. <<i, n>> \in reported => n < job[i].file
      BY DEF ImportInv, ReportedHolds
    <2>3. job[i].file <= job'[i].file
      <3>1. CASE i = j
        BY <3>1 DEF GoesOn
      <3>2. CASE i # j
        BY <3>2, <2>1
      <3>3. QED
        BY <3>1, <3>2
    <2>4. CASE <<i, n>> \in reported
      BY <2>1, <2>2, <2>3, <2>4
    <2>5. CASE <<i, n>> \notin reported
      BY <2>5 DEF ReportsOnly
    <2>6. QED
      BY <2>4, <2>5
  <1>4. \A t \in Locations, i \in Job, n \in Nat \ {0} :
            emptied'[t] # None /\ emptied'[t] = <<i, n>> => EmptiedHolds(t, i, n)'
    BY EmptiedKept DEF TablesKept
  <1>5. QED
    BY <1>1, <1>2, <1>3, <1>4 DEF ImportInv

-----------------------------------------------------------------------------
(***************************************************************************)
(* The steps of a job.                                                     *)
(***************************************************************************)
\* The fields of a job, one by one.
LEMMA JobFields ==
    ASSUME ImportTypeOK, NEW j \in Job
    PROVE  /\ job[j].at \in Phases /\ job[j].req \in RequestType \cup {None}
           /\ job[j].project \in Project \cup {None} /\ job[j].file \in Nat \ {0}
           /\ job[j].db \in Databases \cup {None} /\ job[j].left \in Seq(Value)
           /\ job[j].ok \in Nat /\ job[j].skipped \in Nat /\ job[j].died \in BOOLEAN
  BY DEF ImportTypeOK, JobType

\* A job with other fields, and the other jobs as they were.
LEMMA JobUpdate ==
    ASSUME ImportTypeOK, NEW j \in Job, NEW v \in JobType, job' = [job EXCEPT ![j] = v]
    PROVE  /\ job' \in [Job -> JobType] /\ job'[j] = v
           /\ \A i \in Job \ {j} : job'[i] = job[i]
  BY DEF ImportTypeOK

\* A step that writes to no table and reports nothing.
LEMMA QuietHolds ==
    ASSUME ImportInv, NEW j \in Job, NEW v \in JobType, job' = [job EXCEPT ![j] = v],
           GoesOn(j), JobHolds(j)', UNCHANGED <<known, rows, emptied, reported>>
    PROVE  ImportInv'
  <1>1. ImportTypeOK
    BY DEF ImportInv
  <1>2. job' \in [Job -> JobType] /\ \A i \in Job \ {j} : job'[i] = job[i]
    BY <1>1, JobUpdate
  <1>3. ReportsOnly(j) /\ TablesKept
    BY DEF ReportsOnly, TablesKept, TableKept
  <1>4. QED
    BY <1>1, <1>2, <1>3, Frame DEF ImportTypeOK

\* The end of a job.
LEMMA EndHolds ==
    ASSUME ImportInv, NEW j \in Job, job[j].at # "idle",
           NEW v \in JobType, job' = [job EXCEPT ![j] = v],
           v.at = "over", v.req = job[j].req, v.project = job[j].project,
           v.file = job[j].file, UNCHANGED <<known, rows, emptied, reported>>
    PROVE  ImportInv'
  <1>1. ImportTypeOK /\ JobHolds(j)
    BY DEF ImportInv
  <1>2. job'[j] = v
    BY <1>1, JobUpdate
  <1>3. GoesOn(j)
    BY <1>1, <1>2, JobFields DEF GoesOn, SameRequest
  <1>4. JobHolds(j)'
    BY <1>1, <1>2 DEF JobHolds
  <1>5. QED
    BY <1>3, <1>4, QuietHolds

\* What Ended and Died make of a job.
LEMMA EndedFacts ==
    ASSUME ImportTypeOK, NEW j \in Job
    PROVE  LET v == [job[j] EXCEPT !.at = "over", !.left = <<>>]
               w == [job[j] EXCEPT !.at = "over", !.died = TRUE, !.left = <<>>]
           IN  /\ v \in JobType /\ v.at = "over" /\ v.req = job[j].req
               /\ v.project = job[j].project /\ v.file = job[j].file
               /\ w \in JobType /\ w.at = "over" /\ w.req = job[j].req
               /\ w.project = job[j].project /\ w.file = job[j].file
               /\ [job EXCEPT ![j].at = "over", ![j].left = <<>>] = [job EXCEPT ![j] = v]
               /\ [job EXCEPT ![j].at = "over", ![j].died = TRUE, ![j].left = <<>>]
                      = [job EXCEPT ![j] = w]
  <1>1. job[j] \in JobType /\ "over" \in Phases /\ <<>> \in Seq(Value)
    BY DEF ImportTypeOK, Phases
  <1>2. QED
    BY <1>1 DEF ImportTypeOK, JobType

\* The job gives up: an error before the first file, or on the command line.
LEMMA EndedHolds ==
    ASSUME ImportInv, NEW j \in Job, NEW how, job[j].at # "idle", Ended(j, how),
           UNCHANGED <<known, rows, emptied, reported>>
    PROVE  ImportInv'
  <1> DEFINE v == [job[j] EXCEPT !.at = "over", !.left = <<>>]
  <1>1. ImportTypeOK
    BY DEF ImportInv
  <1>2. /\ v \in JobType /\ v.at = "over" /\ v.req = job[j].req
        /\ v.project = job[j].project /\ v.file = job[j].file
        /\ job' = [job EXCEPT ![j] = v]
    BY <1>1, EndedFacts DEF Ended
  <1> HIDE DEF v
  <1>3. QED
    BY <1>2, EndHolds

\* The process or the worker dies.
LEMMA DiedHolds ==
    ASSUME ImportInv, NEW j \in Job, job[j].at # "idle", Died(j),
           UNCHANGED <<known, rows, emptied, reported>>
    PROVE  ImportInv'
  <1> DEFINE w == [job[j] EXCEPT !.at = "over", !.died = TRUE, !.left = <<>>]
  <1>1. ImportTypeOK
    BY DEF ImportInv
  <1>2. /\ w \in JobType /\ w.at = "over" /\ w.req = job[j].req
        /\ w.project = job[j].project /\ w.file = job[j].file
        /\ job' = [job EXCEPT ![j] = w]
    BY <1>1, EndedFacts DEF Died
  <1> HIDE DEF w
  <1>3. QED
    BY <1>2, EndHolds

\* A file is left behind, with or without success.
LEMMA NextFileHolds ==
    ASSUME ImportInv, NEW j \in Job, job[j].at # "idle",
           NEW v \in JobType, job' = [job EXCEPT ![j] = v],
           v.at = "schema", v.req = job[j].req, v.project = job[j].project,
           v.file = job[j].file + 1, UNCHANGED <<known, rows, emptied>>,
           \A i \in Job, n \in Nat :
               <<i, n>> \in reported' =>
                   \/ <<i, n>> \in reported
                   \/ i = j /\ n = job[j].file /\ job[j].at = "rows" /\ job[j].left = <<>>
    PROVE  ImportInv'
  <1>1. ImportTypeOK /\ JobHolds(j)
    BY DEF ImportInv
  <1>2. /\ job'[j] = v /\ job' \in [Job -> JobType]
        /\ \A i \in Job \ {j} : job'[i] = job[i]
    BY <1>1, JobUpdate
  <1>3. job[j].file \in Nat
    BY <1>1, JobFields
  <1>4. GoesOn(j)
    BY <1>2, <1>3 DEF GoesOn, SameRequest
  <1>5. JobHolds(j)'
    BY <1>1, <1>2 DEF JobHolds
  <1>6. ReportsOnly(j)
    BY <1>2 DEF ReportsOnly
  <1>7. TablesKept
    BY DEF TablesKept, TableKept
  <1>8. QED
    BY <1>1, <1>2, <1>4, <1>5, <1>6, <1>7, Frame DEF ImportTypeOK

\* Fail: the next file, or the end.
LEMMA FailHolds ==
    ASSUME ImportInv, NEW j \in Job, Fail(j)
    PROVE  ImportInv'
  <1>1. /\ job[j].at # "idle" /\ Skipped(j)
        /\ UNCHANGED <<known, rows, emptied, reported>>
    BY DEF Fail, backend
  <1>2. ImportTypeOK
    BY DEF ImportInv
  <1> DEFINE v == [job[j] EXCEPT !.at = "schema", !.file = job[j].file + 1, !.left = <<>>,
                                 !.skipped = job[j].skipped + 1]
  <1>3. CASE job' = [job EXCEPT ![j].at = "schema", ![j].file = @ + 1, ![j].left = <<>>,
                                ![j].skipped = @ + 1]
    <2>1. job[j] \in JobType /\ "schema" \in Phases /\ <<>> \in Seq(Value)
      BY <1>2 DEF ImportTypeOK, Phases
    <2>2. job[j].file + 1 \in Nat \ {0} /\ job[j].skipped + 1 \in Nat
      BY <1>2, JobFields
    <2>3. v \in JobType
      BY <2>1, <2>2 DEF JobType
    <2>4. /\ v.at = "schema" /\ v.req = job[j].req /\ v.project = job[j].project
          /\ v.file = job[j].file + 1
      BY <2>1 DEF JobType
    <2>5. job' = [job EXCEPT ![j] = v]
      BY <1>3, <2>1, <1>2 DEF JobType, ImportTypeOK
    <2> HIDE DEF v
    <2>6. QED
      BY <1>1, <2>3, <2>4, <2>5, NextFileHolds
  <1>4. CASE Ended(j, "error")
    BY <1>1, <1>4, EndedHolds
  <1>5. QED
    BY <1>1, <1>3, <1>4 DEF Skipped

\* Report: the file has been sent.
LEMMA ReportHolds ==
    ASSUME ImportInv, NEW j \in Job, Report(j)
    PROVE  ImportInv'
  <1>1. /\ job[j].at = "rows" /\ job[j].left = <<>>
        /\ UNCHANGED <<known, rows, emptied>>
        /\ job' = [job EXCEPT ![j].at = "schema", ![j].file = @ + 1, ![j].ok = @ + 1]
        /\ reported' = IF job[j].req.dry THEN reported ELSE reported \cup {<<j, job[j].file>>}
    BY DEF Report, Flushed, Source, backend
  <1>2. ImportTypeOK
    BY DEF ImportInv
  <1> DEFINE v == [job[j] EXCEPT !.at = "schema", !.file = job[j].file + 1,
                                 !.ok = job[j].ok + 1]
  <1>3. job[j] \in JobType /\ "schema" \in Phases
    BY <1>2 DEF ImportTypeOK, Phases
  <1>4. job[j].file + 1 \in Nat \ {0} /\ job[j].ok + 1 \in Nat
    BY <1>2, JobFields
  <1>5. v \in JobType
    BY <1>3, <1>4 DEF JobType
  <1>6. /\ v.at = "schema" /\ v.req = job[j].req /\ v.project = job[j].project
        /\ v.file = job[j].file + 1
    BY <1>3 DEF JobType
  <1>7. job' = [job EXCEPT ![j] = v]
    BY <1>1, <1>3, <1>2 DEF JobType, ImportTypeOK
  <1>8. \A i \in Job, n \in Nat :
            <<i, n>> \in reported' =>
                \/ <<i, n>> \in reported
                \/ i = j /\ n = job[j].file /\ job[j].at = "rows" /\ job[j].left = <<>>
    BY <1>1
  <1> HIDE DEF v
  <1>9. QED
    BY <1>1, <1>5, <1>6, <1>7, <1>8, NextFileHolds

\* A request comes.
LEMMA RequestHolds ==
    ASSUME ImportInv, NEW j \in Job, NEW r \in Requests, Request(j, r)
    PROVE  ImportInv'
  <1> DEFINE v == [Idle EXCEPT !.at = "start", !.req = r, !.project = r.project]
  <1>1. /\ job[j] = Idle /\ job' = [job EXCEPT ![j] = v]
        /\ UNCHANGED <<known, rows, emptied, reported>>
    BY DEF Request, backend
  <1>2. /\ v.at = "start" /\ v.req = r /\ v.project = r.project /\ v.file = 1
        /\ job[j].at = "idle" /\ job[j].file = 1
    BY <1>1 DEF Idle
  <1>3. r \in RequestType /\ r.project \in Project
    BY RequestAssumption DEF RequestType, Kinds
  <1>4. v \in JobType
    <2>1. "start" \in Phases /\ <<>> \in Seq(Value) /\ 1 \in Nat \ {0} /\ 0 \in Nat
      BY DEF Phases
    <2>2. QED
      BY <1>3, <2>1 DEF Idle, JobType
  <1> HIDE DEF v
  <1>5. job'[j] = v
    BY <1>1, <1>4, JobUpdate DEF ImportInv
  <1>6. GoesOn(j)
    BY <1>2, <1>5 DEF GoesOn
  <1>7. JobHolds(j)'
    BY <1>2, <1>3, <1>5 DEF JobHolds
  <1>8. QED
    BY <1>1, <1>4, <1>6, <1>7, QuietHolds

\* A job that is not yet sending records moves on with its file.
LEMMA MovesOn ==
    ASSUME ImportTypeOK, NEW j \in Job, job[j].at \notin {"idle", "rows", "over"},
           NEW v \in JobType, job' = [job EXCEPT ![j] = v], v.at # "idle",
           v.req = job[j].req, v.project = job[j].project, v.file = job[j].file
    PROVE  GoesOn(j) /\ job'[j] = v /\ FileOf(j)' = FileOf(j)
  <1>1. job'[j] = v
    BY JobUpdate
  <1>2. job[j].file \in Nat
    BY JobFields
  <1>3. QED
    BY <1>1, <1>2 DEF GoesOn, SameRequest, FileOf

\* The job reaches the backend.
LEMMA ConnectHolds ==
    ASSUME ImportInv, NEW j \in Job, Connect(j)
    PROVE  ImportInv'
  <1> DEFINE v == [job[j] EXCEPT !.at = "schema"]
  <1>1. ImportTypeOK /\ JobHolds(j)
    BY DEF ImportInv
  <1>2. /\ job[j].at = "start" /\ job' = [job EXCEPT ![j].at = "schema"]
        /\ UNCHANGED <<known, rows, emptied, reported>>
    BY DEF Connect, backend
  <1>3. job[j] \in JobType /\ "schema" \in Phases
    BY <1>1 DEF ImportTypeOK, Phases
  <1>4. /\ v \in JobType /\ v.at = "schema" /\ v.req = job[j].req
        /\ v.project = job[j].project /\ v.file = job[j].file
    BY <1>3 DEF JobType
  <1>5. job' = [job EXCEPT ![j] = v]
    BY <1>1, <1>2, <1>3 DEF JobType, ImportTypeOK
  <1> HIDE DEF v
  <1>6. GoesOn(j) /\ job'[j] = v
    BY <1>1, <1>2, <1>4, <1>5, MovesOn
  <1>7. JobHolds(j)'
    BY <1>1, <1>2, <1>4, <1>6 DEF JobHolds
  <1>8. QED
    BY <1>2, <1>4, <1>5, <1>6, <1>7, QuietHolds

\* The table is found in wxbtrv.db, or made from the file and perhaps saved.
LEMMA LoadSchemaHolds ==
    ASSUME ImportInv, NEW j \in Job, LoadSchema(j)
    PROVE  ImportInv'
  <1> DEFINE p    == job[j].project
             name == Name(job[j].req, job[j].file)
             v(d) == [job[j] EXCEPT !.at = "open", !.db = d]
  <1>1. ImportTypeOK /\ JobHolds(j)
    BY DEF ImportInv
  <1>2. /\ job[j].at = "schema" /\ job[j].file <= Len(job[j].req.files)
        /\ UNCHANGED <<rows, emptied, reported>>
    BY DEF LoadSchema, backend
  <1>3. p \in Project /\ job[j].req \in RequestType
    BY <1>1, <1>2 DEF JobHolds
  <1>4. PICK d \in Databases :
            /\ job' = [job EXCEPT ![j].at = "open", ![j].db = d]
            /\ known' = known \/ known' = [known EXCEPT ![p] = Put(known[p], name, "")]
    <2>1. CASE name \in DOMAIN known[p] /\ known' = known
               /\ job' = [job EXCEPT ![j].at = "open", ![j].db = known[p][name]]
      BY <1>1, <1>3, <2>1 DEF ImportTypeOK
    <2>2. CASE /\ job' = [job EXCEPT ![j].at = "open", ![j].db = ""]
               /\ known' = known \/ known' = [known EXCEPT ![p] = Put(known[p], name, "")]
      <3>1. "" \in Databases
        BY DEF Databases
      <3>2. QED
        BY <2>2, <3>1
    <2>3. QED
      BY <2>1, <2>2 DEF LoadSchema
  <1>5. /\ DOMAIN known' = Project
        /\ \A q \in Project : \A x \in DOMAIN known'[q] : known'[q][x] \in Databases
    <2>1. CASE known' = known
      BY <1>1, <2>1 DEF ImportTypeOK
    <2>2. CASE known' = [known EXCEPT ![p] = Put(known[p], name, "")]
      <3>1. "" \in Databases
        BY DEF Databases
      <3>2. DOMAIN known = Project /\ \A q \in Project : \A x \in DOMAIN known[q] :
                                          known[q][x] \in Databases
        BY <1>1 DEF ImportTypeOK
      <3> DEFINE g == Put(known[p], name, "")
      <3>3. \A x \in DOMAIN g : g[x] \in Databases
        BY <1>3, <3>1, <3>2 DEF Put
      <3> HIDE DEF g
      <3>4. known' = [known EXCEPT ![p] = g]
        BY <2>2 DEF g
      <3>5. QED
        BY <1>3, <3>2, <3>3, <3>4
    <2>3. QED
      BY <1>4, <2>1, <2>2
  <1>6. job[j] \in JobType /\ "open" \in Phases
    BY <1>1 DEF ImportTypeOK, Phases
  <1>7. /\ v(d) \in JobType /\ v(d).at = "open" /\ v(d).req = job[j].req /\ v(d).db = d
        /\ v(d).project = job[j].project /\ v(d).file = job[j].file
    BY <1>6 DEF JobType
  <1>8. job' = [job EXCEPT ![j] = v(d)]
    BY <1>1, <1>4, <1>6 DEF JobType, ImportTypeOK
  <1> HIDE DEF v
  <1>9. GoesOn(j) /\ job'[j] = v(d)
    BY <1>1, <1>2, <1>7, <1>8, MovesOn
  <1>10. JobHolds(j)'
    BY <1>1, <1>2, <1>7, <1>9 DEF JobHolds
  <1>11. job' \in [Job -> JobType] /\ \A i \in Job \ {j} : job'[i] = job[i]
    BY <1>1, <1>7, <1>8, JobUpdate
  <1>12. ReportsOnly(j) /\ TablesKept
    BY <1>2 DEF ReportsOnly, TablesKept, TableKept
  <1>13. DOMAIN rows' \subseteq Locations /\ \A t \in DOMAIN rows' : rows'[t] \in Seq(Value)
    BY <1>1, <1>2 DEF ImportTypeOK
  <1>14. QED
    BY <1>5, <1>9, <1>10, <1>11, <1>12, <1>13, Frame

\* The file is read: its records are what is left to send.
LEMMA ReadFileHolds ==
    ASSUME ImportInv, NEW j \in Job, ReadFile(j)
    PROVE  ImportInv'
  <1> DEFINE at == AfterOpen(j)
             left == ReadFrom[FileOf(j)]
             v == [job[j] EXCEPT !.at = at, !.left = left]
  <1>1. ImportTypeOK /\ JobHolds(j)
    BY DEF ImportInv
  <1>2. /\ job[j].at = "open" /\ UNCHANGED <<known, rows, emptied, reported>>
        /\ job' = [job EXCEPT ![j].at = at, ![j].left = left]
    BY DEF ReadFile, backend
  <1>3. /\ at \in {"create", "truncate", "rows"}
        /\ at = "truncate" => ~job[j].req.dry
    BY DEF AfterOpen, AfterCreate, Asked
  <1>4. left \in Seq(Value)
    <2>1. job[j].req.files \in Seq(DOMAIN File) /\ job[j].file \in 1..Len(job[j].req.files)
      BY <1>1, <1>2, JobFields DEF JobHolds, RequestType
    <2>2. FileOf(j) \in DOMAIN File
      BY <2>1 DEF FileOf
    <2>3. QED
      BY <2>2, ReadingFacts
  <1>5. job[j] \in JobType /\ at \in Phases /\ at # "idle"
    BY <1>1, <1>3 DEF ImportTypeOK, Phases
  <1> HIDE DEF at, left
  <1>6. /\ v \in JobType /\ v.at = at /\ v.req = job[j].req /\ v.left = left
        /\ v.project = job[j].project /\ v.file = job[j].file /\ v.db = job[j].db
    BY <1>4, <1>5 DEF JobType
  <1>7. job' = [job EXCEPT ![j] = v]
    BY <1>1, <1>2, <1>5 DEF JobType, ImportTypeOK
  <1> HIDE DEF v
  <1>8. GoesOn(j) /\ job'[j] = v /\ FileOf(j)' = FileOf(j)
    BY <1>1, <1>2, <1>5, <1>6, <1>7, MovesOn
  <1>9. JobHolds(j)'
    BY <1>1, <1>2, <1>3, <1>6, <1>8 DEF JobHolds, left
  <1>10. QED
    BY <1>2, <1>6, <1>7, <1>8, <1>9, QuietHolds

\* The table a job works on is one of those there may be.
LEMMA TargetIsLocation ==
    ASSUME NEW j \in Job, JobHolds(j), ImportTypeOK,
           job[j].at \in {"open", "create", "truncate", "rows"}
    PROVE  Target(j) \in Locations
  <1> DEFINE r == job[j].req
             names == {f.name : f \in Range(File)} \cup ({s.table : s \in Requests} \ {None})
  <1>1. /\ job[j].project \in Project /\ job[j].db \in Databases /\ r \in RequestType
        /\ job[j].file \in 1..Len(r.files)
    BY JobFields DEF JobHolds
  <1>2. r.files \in Seq(DOMAIN File) /\ r.table \in {s.table : s \in Requests}
    BY <1>1 DEF RequestType
  <1>3. Name(r, job[j].file) \in names
    <2>1. r.files[job[j].file] \in DOMAIN File
      BY <1>1, <1>2
    <2>2. File[r.files[job[j].file]] \in Range(File)
      BY <2>1 DEF Range
    <2>3. QED
      BY <1>2, <2>2 DEF Name
  <1> HIDE DEF names
  <1>4. \A n \in names : TableRef(job[j].project, job[j].db, n) \in Locations
    BY <1>1 DEF Locations, names
  <1>5. QED
    BY <1>3, <1>4 DEF Target

\* The table is there, or is made, empty.
LEMMA CreateHolds ==
    ASSUME ImportInv, NEW j \in Job, Create(j)
    PROVE  ImportInv'
  <1> DEFINE at == AfterCreate(j)
             t == Target(j)
             v == [job[j] EXCEPT !.at = at]
  <1>1. ImportTypeOK /\ JobHolds(j)
    BY DEF ImportInv
  <1>2. /\ job[j].at = "create" /\ UNCHANGED <<known, emptied, reported>>
        /\ job' = [job EXCEPT ![j].at = at]
        /\ rows' = rows \/ (t \notin DOMAIN rows /\ rows' = Put(rows, t, <<>>))
    <2>1. /\ Found(j) \/ t \notin DOMAIN rows
          /\ rows' = IF Found(j) THEN rows ELSE Put(rows, t, <<>>)
      BY DEF Create, Exists
    <2>2. rows' = rows \/ (t \notin DOMAIN rows /\ rows' = Put(rows, t, <<>>))
      <3>1. CASE Found(j)
        BY <2>1, <3>1
      <3>2. CASE ~Found(j)
        BY <2>1, <3>2
      <3>3. QED
        BY <3>1, <3>2
    <2>3. QED
      BY <2>2 DEF Create, Moved
  <1>3. at \in {"truncate", "rows"} /\ (at = "truncate" => ~job[j].req.dry)
    BY DEF AfterCreate, Asked
  <1>4. job[j] \in JobType /\ at \in Phases /\ at # "idle"
    BY <1>1, <1>3 DEF ImportTypeOK, Phases
  <1>5. t \in Locations
    BY <1>1, <1>2, TargetIsLocation
  <1> HIDE DEF at, t
  <1>6. /\ v \in JobType /\ v.at = at /\ v.req = job[j].req /\ v.left = job[j].left
        /\ v.project = job[j].project /\ v.file = job[j].file /\ v.db = job[j].db
    BY <1>4 DEF JobType
  <1>7. job' = [job EXCEPT ![j] = v]
    BY <1>1, <1>2, <1>4 DEF JobType, ImportTypeOK
  <1> HIDE DEF v
  <1>8. GoesOn(j) /\ job'[j] = v /\ FileOf(j)' = FileOf(j)
    BY <1>1, <1>2, <1>4, <1>6, <1>7, MovesOn
  <1>9. JobHolds(j)'
    BY <1>1, <1>2, <1>3, <1>6, <1>8 DEF JobHolds
  <1>10. job' \in [Job -> JobType] /\ \A i \in Job \ {j} : job'[i] = job[i]
    BY <1>1, <1>6, <1>7, JobUpdate
  <1>11. ReportsOnly(j)
    BY <1>2 DEF ReportsOnly
  <1>12. /\ TablesKept
         /\ DOMAIN rows' \subseteq Locations /\ \A u \in DOMAIN rows' : rows'[u] \in Seq(Value)
    <2>1. <<>> \in Seq(Value)
      OBVIOUS
    <2>2. CASE rows' = rows
      BY <1>1, <1>2, <2>2 DEF TablesKept, TableKept, ImportTypeOK
    <2>3. CASE t \notin DOMAIN rows /\ rows' = Put(rows, t, <<>>)
      BY <1>1, <1>2, <1>5, <2>1, <2>3 DEF TablesKept, TableKept, ImportTypeOK, Put
    <2>4. QED
      BY <1>2, <2>2, <2>3
  <1>13. QED
    BY <1>1, <1>2, <1>8, <1>9, <1>10, <1>11, <1>12, Frame DEF ImportTypeOK

\* The table is emptied: all of the file is still to come.
LEMMA TruncateHolds ==
    ASSUME ImportInv, NEW j \in Job, Truncate(j)
    PROVE  ImportInv'
  <1> DEFINE t == Target(j)
             v == [job[j] EXCEPT !.at = "rows"]
  <1>1. ImportTypeOK /\ JobHolds(j) /\ ReportedHolds
    BY DEF ImportInv
  <1>2. /\ job[j].at = "truncate" /\ UNCHANGED <<known, reported>>
        /\ job' = [job EXCEPT ![j].at = "rows"]
        /\ t \in DOMAIN rows /\ rows' = Put(rows, t, <<>>)
        /\ emptied' = [emptied EXCEPT ![t] = <<j, job[j].file>>]
    BY DEF Truncate, Moved, Exists, Source
  <1>3. job[j] \in JobType /\ "rows" \in Phases /\ <<>> \in Seq(Value)
    BY <1>1 DEF ImportTypeOK, Phases
  <1>4. t \in Locations
    BY <1>1, <1>2, TargetIsLocation
  <1>5. /\ v \in JobType /\ v.at = "rows" /\ v.req = job[j].req /\ v.left = job[j].left
        /\ v.project = job[j].project /\ v.file = job[j].file /\ v.db = job[j].db
    BY <1>3 DEF JobType
  <1>6. job' = [job EXCEPT ![j] = v]
    BY <1>1, <1>2, <1>3 DEF JobType, ImportTypeOK
  <1> HIDE DEF v, t
  <1>7. GoesOn(j) /\ job'[j] = v /\ FileOf(j)' = FileOf(j)
    BY <1>1, <1>2, <1>5, <1>6, MovesOn
  <1>8. /\ job' \in [Job -> JobType]
        /\ \A i \in Job \ {j} : job'[i] = job[i]
    BY <1>1, <1>5, <1>6, JobUpdate
  <1>9. JobHolds(j)'
    BY <1>1, <1>2, <1>5, <1>7 DEF JobHolds
  <1>10. ReportsOnly(j)
    BY <1>2 DEF ReportsOnly
  <1>11. job[j].file \in Nat \ {0} /\ job[j].req.dry = FALSE
    BY <1>1, <1>2, JobFields DEF JobHolds, RequestType
  <1>12. ImportTypeOK'
    <2>1. \A u \in DOMAIN rows' : u \in Locations /\ rows'[u] \in Seq(Value)
      BY <1>1, <1>2, <1>3, <1>4 DEF ImportTypeOK, Put
    <2>2. emptied' \in [Locations -> (Job \X (Nat \ {0})) \cup {None}]
      <3>1. <<j, job[j].file>> \in Job \X (Nat \ {0})
        BY <1>11
      <3>2. QED
        BY <1>1, <1>2, <1>4, <3>1 DEF ImportTypeOK
    <2>3. QED
      BY <1>1, <1>2, <1>8, <2>1, <2>2 DEF ImportTypeOK
  <1>13. \A i \in Job : JobHolds(i)'
    BY <1>8, <1>9, OthersHold
  <1>14. ReportedHolds'
    BY <1>1, <1>2, <1>5, <1>7, <1>8 DEF ReportedHolds
  <1>15. ASSUME NEW u \in Locations, NEW i \in Job, NEW n \in Nat \ {0},
                emptied'[u] # None, emptied'[u] = <<i, n>>
         PROVE  EmptiedHolds(u, i, n)'
    <2>1. CASE u # t
      <3>1. TableKept(u)
        BY <1>1, <1>2, <1>4, <2>1 DEF TableKept, ImportTypeOK, Put
      <3>2. QED
        BY <1>7, <1>8, <1>10, <1>15, <3>1, EmptiedKept
    <2>2. CASE u = t
      <3>1. emptied'[t] = <<j, job[j].file>>
        BY <1>1, <1>2, <1>4 DEF ImportTypeOK
      <3>2. i = j /\ n = job[j].file
        BY <1>15, <2>2, <3>1
      <3>3. rows'[t] = <<>> /\ t \in DOMAIN rows'
        BY <1>2 DEF Put
      <3>4. WrittenBy(u)' = FileOf(j)
        BY <1>5, <1>7, <2>2, <3>1 DEF WrittenBy, FileOf
      <3>5. Target(j)' = t
        BY <1>5, <1>7 DEF Target, t
      <3>6. /\ job'[j].at = "rows" /\ job'[j].file = job[j].file
            /\ job'[j].left = ReadFrom[FileOf(j)] /\ ~job'[j].req.dry
            /\ job[j].file <= Len(job'[j].req.files) /\ job'[j].req \in RequestType
        BY <1>1, <1>2, <1>5, <1>7, <1>11 DEF JobHolds
      <3>7. <<j, n>> \notin reported'
        BY <1>1, <1>2, <1>11, <3>2 DEF ReportedHolds
      <3>8. FileOf(j) \in DOMAIN File
        <4>1. job'[j].req.files \in Seq(DOMAIN File) /\ job[j].file \in 1..Len(job'[j].req.files)
          BY <1>11, <3>6 DEF RequestType
        <4>2. QED
          BY <1>5, <1>7, <4>1 DEF FileOf
      <3>9. ASSUME FileOf(j) \in RightFiles
            PROVE  /\ rows'[t] \o job'[j].left = LiveIn[FileOf(j)]
                   /\ IsPrefix(rows'[t], LiveIn[FileOf(j)])
                   /\ Len(rows'[t]) % BatchSize(job'[j].req) = 0
        <4>1. ReadFrom[FileOf(j)] = LiveIn[FileOf(j)] /\ LiveIn[FileOf(j)] \in Seq(Value)
          BY <3>8, <3>9, ReadingFacts
        <4>2. <<>> \o LiveIn[FileOf(j)] = LiveIn[FileOf(j)]
          BY <4>1, ConcatEmptySeq
        <4>3. IsPrefix(<<>>, LiveIn[FileOf(j)])
          BY <1>3, <4>1, <4>2, SentAndLeft
        <4>4. 0 % BatchSize(job'[j].req) = 0
          <5>1. BatchSize(job'[j].req) \in Nat \ {0}
            BY <3>6 DEF BatchSize, RequestType
          <5>2. \A B \in Nat \ {0} : 0 % B = 0
            OBVIOUS
          <5>3. QED
            BY <5>1, <5>2
        <4>5. QED
          BY <3>3, <3>6, <4>1, <4>2, <4>3, <4>4
      <3>10. QED
        BY <1>11, <2>2, <3>2, <3>3, <3>4, <3>5, <3>6, <3>7, <3>9 DEF EmptiedHolds
    <2>3. QED
      BY <2>1, <2>2
  <1>16. QED
    BY <1>12, <1>13, <1>14, <1>15 DEF ImportInv

\* A batch, or a row, is sent, or in a dry run dropped.
LEMMA InsertHolds ==
    ASSUME ImportInv, NEW j \in Job, Insert(j)
    PROVE  ImportInv'
  <1> DEFINE t == Target(j)
             n == Sent(j)
             left == SubSeq(job[j].left, n + 1, Len(job[j].left))
             v == [job[j] EXCEPT !.left = left]
  <1>1. ImportTypeOK /\ JobHolds(j) /\ ReportedHolds
    BY DEF ImportInv
  <1>2. /\ job[j].at = "rows" /\ job[j].left # <<>> /\ UNCHANGED <<known, reported>>
        /\ job' = [job EXCEPT ![j].left = SubSeq(@, n + 1, Len(@))]
    BY DEF Insert
  <1>3. /\ job[j].req \in RequestType /\ job[j].left \in Seq(Value) /\ job[j] \in JobType
        /\ job[j].file \in Nat \ {0}
    BY <1>1, <1>2, JobFields DEF JobHolds, ImportTypeOK
  <1>4. n \in 1..Len(job[j].left) /\ BatchSize(job[j].req) \in Nat \ {0}
        /\ (Backend[job[j].project] = "mssql" =>
                n = BatchSize(job[j].req) \/ n = Len(job[j].left))
    BY <1>2, <1>3, SentFacts
  <1>5. left \in Seq(Value)
    <2> HIDE DEF n
    <2>1. n + 1 \in Nat /\ Len(job[j].left) \in Nat
      BY <1>3, <1>4
    <2>2. QED
      BY <1>3, <1>4, <2>1
  <1>6. t \in Locations
    BY <1>1, <1>2, TargetIsLocation
  <1> HIDE DEF t, n, left
  <1>7. /\ v \in JobType /\ v.at = "rows" /\ v.req = job[j].req /\ v.left = left
        /\ v.project = job[j].project /\ v.file = job[j].file /\ v.db = job[j].db
    BY <1>2, <1>3, <1>5 DEF JobType
  <1>8. job' = [job EXCEPT ![j] = v]
    BY <1>1, <1>2, <1>3 DEF JobType, ImportTypeOK, left
  <1> HIDE DEF v
  <1>9. /\ job' \in [Job -> JobType] /\ job'[j] = v
        /\ \A i \in Job \ {j} : job'[i] = job[i]
    BY <1>1, <1>7, <1>8, JobUpdate
  <1>10. JobHolds(j)'
    BY <1>1, <1>2, <1>7, <1>9 DEF JobHolds
  <1>11. ReportsOnly(j)
    BY <1>2 DEF ReportsOnly
  <1>12. CASE job[j].req.dry
    <2>1. UNCHANGED <<rows, emptied>>
      BY <1>12 DEF Insert, backend
    <2>2. GoesOn(j)
      <3>1. SameRequest(j) /\ job'[j].at = "rows" /\ job'[j].db = job[j].db
        BY <1>7, <1>9 DEF SameRequest
      <3>2. job[j].file <= job'[j].file
        BY <1>3, <1>7, <1>9
      <3>3. job[j].at # "over" /\ job'[j].at # "idle"
        BY <1>2, <3>1
      <3>4. QED
        BY <1>12, <3>1, <3>2, <3>3, Zenon DEF GoesOn
    <2>3. QED
      BY <1>2, <1>7, <1>8, <1>10, <2>1, <2>2, QuietHolds
  <1>13. CASE ~job[j].req.dry
    <2> DEFINE sent == SubSeq(job[j].left, 1, n)
    <2>1. /\ t \in DOMAIN rows /\ rows' = Put(rows, t, rows[t] \o sent)
          /\ emptied' = [emptied EXCEPT ![t] = IF @ = <<j, job[j].file>> THEN @ ELSE None]
      BY <1>13 DEF Insert, Exists, Source, t, n
    <2>2. rows[t] \in Seq(Value) /\ sent \in Seq(Value)
      <3>1. 1 \in 1..Len(job[j].left) /\ n \in 1..Len(job[j].left)
        BY <1>3, <1>4
      <3>2. QED
        BY <1>1, <1>3, <2>1, <3>1 DEF ImportTypeOK
    <2>3. rows[t] \o sent \in Seq(Value)
      BY <2>2, ConcatProperties
    <2> HIDE DEF sent
    <2>4. ImportTypeOK'
      <3>1. \A u \in DOMAIN rows' : u \in Locations /\ rows'[u] \in Seq(Value)
        BY <1>1, <1>6, <2>1, <2>3 DEF ImportTypeOK, Put
      <3>2. emptied' \in [Locations -> (Job \X (Nat \ {0})) \cup {None}]
        BY <1>1, <1>6, <2>1 DEF ImportTypeOK
      <3>3. QED
        BY <1>1, <1>2, <1>9, <3>1, <3>2 DEF ImportTypeOK
    <2>5. \A i \in Job : JobHolds(i)'
      BY <1>9, <1>10, OthersHold
    <2>6. ReportedHolds'
      BY <1>1, <1>2, <1>7, <1>9 DEF ReportedHolds
    <2>7. ASSUME NEW u \in Locations, NEW i \in Job, NEW m \in Nat \ {0},
                 emptied'[u] # None, emptied'[u] = <<i, m>>
          PROVE  EmptiedHolds(u, i, m)'
      <3>1. CASE u # t /\ i # j
        <4>1. TableKept(u)
          BY <1>1, <1>6, <2>1, <3>1 DEF TableKept, ImportTypeOK, Put
        <4>2. QED
          BY <1>9, <1>11, <2>7, <3>1, <4>1, EmptiedKept
      <3>2. CASE u # t /\ i = j
        <4>1. emptied[u] = emptied'[u]
          BY <1>1, <1>6, <2>1, <3>2 DEF ImportTypeOK
        <4>2. EmptiedHolds(u, j, m)
          BY <2>7, <3>2, <4>1 DEF ImportInv
        <4>3. m # job[j].file
          BY <1>2, <3>2, <4>2 DEF EmptiedHolds, t
        <4>4. u \in DOMAIN rows' /\ rows'[u] = rows[u]
          BY <2>1, <3>2, <4>2 DEF Put, EmptiedHolds
        <4>5. WrittenBy(u)' = WrittenBy(u)
          BY <1>7, <1>9, <2>7, <3>2, <4>1 DEF WrittenBy
        <4>6. QED
          BY <1>2, <1>7, <1>9, <3>2, <4>2, <4>3, <4>4, <4>5 DEF EmptiedHolds
      <3>3. CASE u = t
        <4>1. emptied[t] = <<j, job[j].file>> /\ emptied'[t] = emptied[t] /\ emptied[t] # None
          BY <1>1, <1>6, <2>1, <2>7, <3>3 DEF ImportTypeOK
        <4>2. i = j /\ m = job[j].file
          BY <2>7, <3>3, <4>1
        <4>3. EmptiedHolds(t, j, m)
          BY <1>6, <4>1, <4>2, <2>7 DEF ImportInv
        <4>4. u \in DOMAIN rows' /\ rows'[u] = rows[u] \o sent
          BY <2>1, <3>3 DEF Put
        <4>5. WrittenBy(u)' = WrittenBy(u)
          <5>1. WrittenBy(u) = job[j].req.files[job[j].file]
            BY <3>3, <4>1 DEF WrittenBy
          <5>2. WrittenBy(u)' = job'[j].req.files[job[j].file]
            BY <3>3, <4>1 DEF WrittenBy
          <5>3. QED
            BY <1>7, <1>9, <5>1, <5>2
        <4>6. Target(j)' = u
          BY <1>7, <1>9, <3>3 DEF Target, t
        <4>7. <<j, m>> \notin reported'
          BY <1>1, <1>2, <1>3, <4>2 DEF ReportedHolds
        <4>8. ASSUME WrittenBy(u) \in RightFiles
              PROVE  /\ rows'[u] \o left = LiveIn[WrittenBy(u)]
                     /\ IsPrefix(rows'[u], LiveIn[WrittenBy(u)])
                     /\ Backend[job[j].project] = "mssql" =>
                            \/ Len(rows'[u]) % BatchSize(job[j].req) = 0
                            \/ rows'[u] = LiveIn[WrittenBy(u)]
          <5> DEFINE live == LiveIn[WrittenBy(u)]
                     s == rows[u]
                     l == job[j].left
                     B == BatchSize(job[j].req)
          <5>1. /\ s \o l = live
                /\ Backend[job[j].project] = "mssql" => Len(s) % B = 0 \/ s = live
            BY <1>2, <3>3, <4>2, <4>3, <4>8 DEF EmptiedHolds
          <5>2. s \in Seq(Value) /\ l \in Seq(Value) /\ l # <<>>
                /\ n \in 1..Len(l) /\ B \in Nat \ {0}
            BY <1>2, <1>3, <1>4, <2>2, <3>3
          <5>3. Backend[job[j].project] = "mssql" => n = B \/ n = Len(l)
            BY <1>4
          <5>4. sent = SubSeq(l, 1, n) /\ left = SubSeq(l, n + 1, Len(l))
            BY DEF sent, left
          <5> HIDE DEF live, s, l, B
          <5>5. /\ (s \o sent) \o left = live /\ IsPrefix(s \o sent, live)
                /\ (n = B \/ n = Len(l)) /\ (Len(s) % B = 0 \/ s = live) =>
                       Len(s \o sent) % B = 0 \/ s \o sent = live
            <6>1. /\ (s \o SubSeq(l, 1, n)) \o SubSeq(l, n + 1, Len(l)) = live
                  /\ IsPrefix(s \o SubSeq(l, 1, n), live)
                  /\ (n = B \/ n = Len(l)) /\ (Len(s) % B = 0 \/ s = live) =>
                         \/ Len(s \o SubSeq(l, 1, n)) % B = 0
                         \/ s \o SubSeq(l, 1, n) = live
              BY <5>1, <5>2, BatchKeeps
            <6>2. QED
              BY <5>4, <6>1, Zenon
          <5>6. rows'[u] = s \o sent
            BY <4>4 DEF s
          <5>7. QED
            BY <5>1, <5>3, <5>5, <5>6 DEF live, B
        <4>9. /\ job'[j].at = "rows" /\ job'[j].file = m /\ job'[j].left = left
              /\ job'[j].req = job[j].req /\ job'[j].project = job[j].project
              /\ m <= Len(job'[j].req.files) /\ m <= job'[j].file
          BY <1>3, <1>7, <1>9, <3>3, <4>2, <4>3 DEF EmptiedHolds
        <4>10. ~job'[j].req.dry
          BY <1>13, <4>9
        <4>11. EmptiedHolds(u, j, m)'
          BY <4>4, <4>5, <4>6, <4>7, <4>8, <4>9, <4>10 DEF EmptiedHolds
        <4>12. QED
          BY <3>3, <4>2, <4>11
      <3>4. QED
        BY <3>1, <3>2, <3>3
    <2>8. QED
      BY <2>4, <2>5, <2>6, <2>7 DEF ImportInv
  <1>14. QED
    BY <1>12, <1>13

\* The client of a stream goes away: the request is what it was otherwise.
LEMMA LeaveHolds ==
    ASSUME ImportInv, NEW j \in Job, Leave(j)
    PROVE  ImportInv'
  <1> DEFINE r == [job[j].req EXCEPT !.kind = "web"]
             v == [job[j] EXCEPT !.req = r]
  <1>1. ImportTypeOK /\ JobHolds(j)
    BY DEF ImportInv
  <1>2. /\ job[j].at \notin {"idle", "over"} /\ UNCHANGED <<known, rows, emptied, reported>>
        /\ job' = [job EXCEPT ![j].req.kind = "web"]
    BY DEF Leave, backend
  <1>3. job[j] \in JobType /\ job[j].req \in RequestType
    BY <1>1, <1>2 DEF ImportTypeOK, JobHolds
  <1>4. /\ r \in RequestType /\ r.files = job[j].req.files /\ r.table = job[j].req.table
        /\ r.dry = job[j].req.dry /\ r.batch = job[j].req.batch
    <2>1. "web" \in Kinds
      BY DEF Kinds
    <2>2. QED
      BY <1>3, <2>1 DEF RequestType
  <1>5. job' = [job EXCEPT ![j] = v]
    BY <1>1, <1>2, <1>3 DEF JobType, ImportTypeOK
  <1> HIDE DEF r
  <1>6. /\ v \in JobType /\ v.at = job[j].at /\ v.req = r /\ v.left = job[j].left
        /\ v.project = job[j].project /\ v.file = job[j].file /\ v.db = job[j].db
    BY <1>3, <1>4 DEF JobType
  <1> HIDE DEF v
  <1>7. job'[j] = v
    BY <1>1, <1>5, <1>6, JobUpdate
  <1>8. GoesOn(j)
    <2>1. job[j].file \in Nat
      BY <1>1, JobFields
    <2>2. QED
      BY <1>2, <1>4, <1>6, <1>7, <2>1 DEF GoesOn, SameRequest
  <1>9. JobHolds(j)'
    <2>1. FileOf(j)' = FileOf(j)
      BY <1>4, <1>6, <1>7 DEF FileOf
    <2>2. QED
      BY <1>1, <1>4, <1>6, <1>7, <2>1 DEF JobHolds
  <1>10. QED
    BY <1>2, <1>5, <1>6, <1>8, <1>9, QuietHolds

\* The job and the tables stay as they are.
LEMMA NothingHappens ==
    ASSUME ImportInv, UNCHANGED <<known, rows, job, emptied, reported>>
    PROVE  ImportInv'
  <1>1. ImportTypeOK'
    BY DEF ImportInv, ImportTypeOK
  <1>2. ASSUME NEW i \in Job PROVE JobHolds(i)' /\ FileOf(i)' = FileOf(i)
    <2>1. FileOf(i)' = FileOf(i)
      BY DEF FileOf
    <2>2. QED
      BY <2>1 DEF ImportInv, JobHolds
  <1>3. ReportedHolds'
    BY DEF ImportInv, ReportedHolds
  <1>4. ASSUME NEW u \in Locations, NEW i \in Job, NEW n \in Nat \ {0},
               emptied'[u] # None, emptied'[u] = <<i, n>>
        PROVE  EmptiedHolds(u, i, n)'
    <2>1. EmptiedHolds(u, i, n)
      BY <1>4 DEF ImportInv
    <2>2. Target(i)' = Target(i) /\ WrittenBy(u)' = WrittenBy(u)
      BY DEF Target, WrittenBy
    <2>3. QED
      BY <2>1, <2>2 DEF EmptiedHolds
  <1>5. QED
    BY <1>1, <1>2, <1>3, <1>4 DEF ImportInv

-----------------------------------------------------------------------------
(***************************************************************************)
(* The theorems.                                                           *)
(***************************************************************************)
\* At first no job runs and no table has been emptied.
LEMMA ImportInitHolds ==
    ASSUME Init
    PROVE  ImportInv
  <1>1. ImportTypeOK
    <2>1. Idle \in JobType
      BY DEF Idle, JobType, Phases
    <2>2. \A j \in Job : job[j] = Idle
      BY DEF Init
    <2>3. \A p \in Project : \A name \in DOMAIN known[p] : known[p][name] \in Databases
      <3> SUFFICES ASSUME NEW p \in Project, NEW name \in DOMAIN Saved[p]
                   PROVE  Saved[p][name] \in Databases
        BY DEF Init
      <3>1. Saved[p][name] \in Range(Saved[p])
        BY DEF Range
      <3>2. QED
        BY <3>1 DEF Databases
    <2>4. DOMAIN rows \subseteq Locations /\ \A t \in DOMAIN rows : rows[t] \in Seq(Value)
      BY DEF Init, Locations
    <2>5. QED
      BY SavedAssumption, <2>1, <2>3, <2>4 DEF Init, ImportTypeOK
  <1>2. \A j \in Job : JobHolds(j)
    BY DEF Init, Idle, JobHolds
  <1>3. QED
    BY <1>1, <1>2 DEF Init, ImportInv, ReportedHolds

\* Every step keeps the invariant.
LEMMA ImportStepHolds ==
    ASSUME ImportInv, [Next]_vars
    PROVE  ImportInv'
  <1>1. CASE UNCHANGED vars
    BY <1>1, NothingHappens DEF vars
  <1>2. ASSUME NEW j \in Job, NEW r \in Requests, Request(j, r) PROVE ImportInv'
    BY <1>2, RequestHolds
  <1>3. ASSUME NEW j \in Job, Works(j) PROVE ImportInv'
    <2>1. CASE Connect(j)
      BY <2>1, ConnectHolds
    <2>2. CASE Refuse(j)
      BY <2>2, EndedHolds DEF Refuse, backend
    <2>3. CASE LoadSchema(j)
      BY <2>3, LoadSchemaHolds
    <2>4. CASE ReadFile(j)
      BY <2>4, ReadFileHolds
    <2>5. CASE Create(j)
      BY <2>5, CreateHolds
    <2>6. CASE Truncate(j)
      BY <2>6, TruncateHolds
    <2>7. CASE Insert(j)
      BY <2>7, InsertHolds
    <2>8. CASE Report(j)
      BY <2>8, ReportHolds
    <2>9. CASE Finish(j)
      BY <2>9, EndedHolds DEF Finish, backend
    <2>10. CASE Fail(j)
      BY <2>10, FailHolds
    <2>11. CASE Panic(j)
      BY <2>11, DiedHolds DEF Panic, backend
    <2>12. QED
      BY <1>3, <2>1, <2>2, <2>3, <2>4, <2>5, <2>6, <2>7, <2>8, <2>9, <2>10, <2>11 DEF Works
  <1>4. ASSUME NEW j \in Job, Crash(j) PROVE ImportInv'
    BY <1>4, DiedHolds DEF Crash, backend
  <1>5. ASSUME NEW j \in Job, Deliver(j) PROVE ImportInv'
    BY <1>5, NothingHappens DEF Deliver, backend
  <1>6. ASSUME NEW j \in Job, Leave(j) PROVE ImportInv'
    BY <1>6, LeaveHolds
  <1>7. QED
    BY <1>1, <1>2, <1>3, <1>4, <1>5, <1>6 DEF Next

\* Jobs, tables and what was reported stay consistent, in every behaviour.
THEOREM ImportInvariant == Spec => []ImportInv
  <1>1. Init => ImportInv
    BY ImportInitHolds
  <1>2. ImportInv /\ [Next]_vars => ImportInv'
    BY ImportStepHolds
  <1>3. QED
    BY <1>1, <1>2, PTL DEF Spec

\* A table that an import has emptied, alone, and reported holds the file.
THEOREM ReportedIsComplete == Spec => []ReportedTableIsTheFile
  <1>1. ImportInv => ReportedTableIsTheFile
    <2> SUFFICES ASSUME ImportInv, NEW t \in DOMAIN rows, emptied[t] # None,
                        emptied[t] \in reported, WrittenBy(t) \in RightFiles
                 PROVE  rows[t] = LiveIn[WrittenBy(t)]
      BY DEF ReportedTableIsTheFile
    <2>1. t \in Locations /\ emptied[t] \in Job \X (Nat \ {0})
      BY DEF ImportInv, ImportTypeOK
    <2>2. PICK j \in Job, n \in Nat \ {0} : emptied[t] = <<j, n>>
      BY <2>1
    <2>3. EmptiedHolds(t, j, n)
      BY <2>1, <2>2 DEF ImportInv
    <2>4. QED
      BY <2>2, <2>3 DEF EmptiedHolds
  <1>2. QED
    BY <1>1, ImportInvariant, PTL

\* An import cut short leaves the first records of the file, on SQL Server
\* whole batches of them.
THEOREM CutShortLeavesAPrefix == Spec => []CutShortIsAPrefix
  <1>1. ImportInv => CutShortIsAPrefix
    <2> SUFFICES ASSUME ImportInv, NEW t \in DOMAIN rows, emptied[t] # None,
                        WrittenBy(t) \in RightFiles
                 PROVE  LET live == LiveIn[WrittenBy(t)]
                            j == emptied[t][1]
                        IN  /\ IsPrefix(rows[t], live)
                            /\ Backend[job[j].project] = "mssql" =>
                                \/ Len(rows[t]) % BatchSize(job[j].req) = 0
                                \/ rows[t] = live
      BY DEF CutShortIsAPrefix
    <2>1. t \in Locations /\ emptied[t] \in Job \X (Nat \ {0})
      BY DEF ImportInv, ImportTypeOK
    <2>2. PICK j \in Job, n \in Nat \ {0} : emptied[t] = <<j, n>>
      BY <2>1
    <2>3. EmptiedHolds(t, j, n) /\ emptied[t][1] = j
      BY <2>1, <2>2 DEF ImportInv
    <2>4. QED
      BY <2>3 DEF EmptiedHolds
  <1>2. QED
    BY <1>1, ImportInvariant, PTL
=============================================================================
