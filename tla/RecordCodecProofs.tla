------------------------- MODULE RecordCodecProofs -------------------------
(***************************************************************************)
(* Proofs about RecordCodec: for record layouts of any number of fields,   *)
(* of any types, lengths and offsets, and for any bytes, a record reads    *)
(* back as it was inserted, an Update changes only what was edited, and    *)
(* keys of any number of fields find the record they were built from.      *)
(*                                                                         *)
(* The order is that of the argument: digits and sequences; the branches   *)
(* of the codec, type by type; a column's way to bytes and back, and       *)
(* bytes' way to a column and back; fields in their slots; keys; and the   *)
(* inductive invariant.                                                    *)
(***************************************************************************)
EXTENDS RecordCodec, FiniteSetTheorems, SequenceTheorems, WellFoundedInduction, TLAPS

-----------------------------------------------------------------------------
(***************************************************************************)
(* Division, and the digits of a time.                                     *)
(***************************************************************************)
\* Quotient and remainder.
LEMMA Division ==
    ASSUME NEW x \in Nat, NEW b \in Nat \ {0}
    PROVE  x \div b \in Nat /\ x % b \in 0 .. b-1 /\ x = b * (x \div b) + (x % b)
  <1>1. x \div b \in Nat
    BY SMTT(30)
  <1>2. x = b * (x \div b) + (x % b) /\ x % b \in 0 .. b-1
    BY SMTT(30)
  <1>3. QED
    BY <1>1, <1>2

\* They are the only ones.
LEMMA DivisionUnique ==
    ASSUME NEW x \in Nat, NEW b \in Nat \ {0}, NEW q \in Nat, NEW r \in 0 .. b-1, x = b * q + r
    PROVE  x \div b = q /\ x % b = r
  <1> DEFINE p == x \div b
             t == x % b
  <1>1. p \in Nat /\ t \in 0 .. b-1 /\ x = b * p + t
    BY Division
  <1> HIDE DEF p, t
  <1>2. b * (p - q) = r - t
    BY <1>1, SMT
  <1>3. r - t < b /\ t - r < b
    BY <1>1
  <1>4. p - q >= 1 => b * (p - q) >= b
    BY <1>1, SMT
  <1>5. q - p >= 1 => b * (q - p) >= b
    BY <1>1, SMT
  <1>6. p = q
    BY <1>1, <1>2, <1>3, <1>4, <1>5, SMT
  <1>7. QED
    BY <1>1, <1>6 DEF p, t

\* What is below a product has a quotient below the other factor.
LEMMA QuotientBound ==
    ASSUME NEW x \in Nat, NEW b \in Nat \ {0}, NEW m \in Nat, x < b * m
    PROVE  x \div b < m
  <1> DEFINE q == x \div b
             d == x % b
  <1>1. q \in Nat /\ d \in 0 .. b-1 /\ x = b * q + d
    BY Division
  <1> HIDE DEF q, d
  <1>2. q >= m => b * q >= b * m
    BY <1>1, SMT
  <1>3. QED
    BY <1>1, <1>2 DEF q

\* Bytes and hundredths.
LEMMA Bytewise ==
    ASSUME NEW x \in Nat
    PROVE  x \div 256 \in Nat /\ x % 256 \in 0..255 /\ x = 256 * (x \div 256) + (x % 256)
  <1>1. 256 \in Nat \ {0}
    OBVIOUS
  <1>2. QED
    BY <1>1, Division

\* The two parts of a number that is put together from them.
LEMMA BytewiseUnique ==
    ASSUME NEW x, NEW q \in Nat, NEW r \in 0..255, x = 256 * q + r
    PROVE  x \in Nat /\ x \div 256 = q /\ x % 256 = r
  <1>1. 256 \in Nat \ {0} /\ x \in Nat /\ r \in 0 .. 256-1
    OBVIOUS
  <1>2. QED
    BY <1>1, DivisionUnique

\* The two bytes of a word.
LEMMA WordSplit ==
    ASSUME NEW a \in 0..255, NEW b \in 0..255
    PROVE  (a + 256 * b) % 256 = a /\ (a + 256 * b) \div 256 = b
  <1>1. b \in Nat /\ a + 256 * b = 256 * b + a
    OBVIOUS
  <1>2. QED
    BY <1>1, BytewiseUnique

\* The same of hundreds.
LEMMA Hundredwise ==
    ASSUME NEW x \in Nat
    PROVE  /\ x \div 100 \in Nat /\ x % 100 \in 0..99 /\ x = 100 * (x \div 100) + (x % 100)
           /\ x < 100 => x % 100 = x
  <1>1. 100 \in Nat \ {0}
    OBVIOUS
  <1>2. x \div 100 \in Nat /\ x % 100 \in 0..99 /\ x = 100 * (x \div 100) + (x % 100)
    BY <1>1, Division
  <1>3. QED
    BY <1>2

\* The same of hundreds.
LEMMA HundredwiseUnique ==
    ASSUME NEW x, NEW q \in Nat, NEW r \in 0..99, x = 100 * q + r
    PROVE  x \in Nat /\ x \div 100 = q /\ x % 100 = r
  <1>1. 100 \in Nat \ {0} /\ x \in Nat /\ r \in 0 .. 100-1
    OBVIOUS
  <1>2. QED
    BY <1>1, DivisionUnique

\* A time is what its bytes say.
LEMMA TimeIsItsBytes ==
    ASSUME NEW h \in 0..99, NEW m \in 0..99, NEW s \in 0..99
    PROVE  /\ TimeBytes(h, m, s) \in [1..4 -> Byte]
           /\ TimeOf(TimeBytes(h, m, s)) = Value("time", <<h, m, s>>)
           /\ (h # 0 \/ m # 0 \/ s # 0) => ~AllAre(TimeBytes(h, m, s), 0)
  <1> DEFINE mins == h * 100 + m
             secs == mins * 100 + s
             t1   == secs * 100
             t2   == t1 \div 256
             t3   == t2 \div 256
             t4   == t3 \div 256
             b    == <<t1 % 256, t2 % 256, t3 % 256, t4>>
  <1>1. mins \in Nat /\ secs \in Nat /\ t1 \in Nat
    OBVIOUS
  <1>2. mins < 10000 /\ secs < 10000 * 100 /\ mins \div 100 = h /\ mins % 100 = m
    <2>1. mins = 100 * h + m /\ h \in Nat
      OBVIOUS
    <2>2. mins \div 100 = h /\ mins % 100 = m
      BY <2>1, HundredwiseUnique
    <2>3. QED
      BY <2>1, <2>2
  <1> HIDE DEF mins
  <1>3. secs \div 100 = mins /\ secs % 100 = s
    <2>1. secs = 100 * mins + s
      BY <1>1
    <2>2. QED
      BY <1>1, <2>1, HundredwiseUnique
  <1> HIDE DEF secs
  <1>4. t1 \div 100 = secs
    <2>1. t1 = 100 * secs + 0
      BY <1>1
    <2>2. QED
      BY <1>1, <2>1, HundredwiseUnique
  <1>5. h % 100 = h
    BY Hundredwise
  <1> HIDE DEF t1
  <1>6. t2 \in Nat /\ t1 % 256 \in 0..255 /\ t1 = 256 * t2 + (t1 % 256)
    BY <1>1, Bytewise
  <1> HIDE DEF t2
  <1>7. t3 \in Nat /\ t2 % 256 \in 0..255 /\ t2 = 256 * t3 + (t2 % 256)
    BY <1>6, Bytewise
  <1> HIDE DEF t3
  <1>8. t4 \in Nat /\ t3 % 256 \in 0..255 /\ t3 = 256 * t4 + (t3 % 256)
    BY <1>7, Bytewise
  <1> HIDE DEF t4
  <1>9. t1 < 256 * (256 * (256 * 256))
    BY <1>1, <1>2 DEF t1
  <1>10. t4 < 256
    BY <1>6, <1>7, <1>8, <1>9
  <1>11. TimeBytes(h, m, s) = b
    BY DEF TimeBytes, mins, secs, t1, t2, t3, t4
  <1>12. b \in [1..4 -> Byte] /\ Len(b) = 4
    BY <1>6, <1>7, <1>8, <1>10 DEF Byte
  <1>13. Hhmmsscc(b) = t1
    BY <1>6, <1>7, <1>8 DEF Hhmmsscc
  <1>14. TimeOf(b) = Value("time", <<h, m, s>>)
    BY <1>2, <1>3, <1>4, <1>5, <1>12, <1>13 DEF TimeOf
  <1>15. AllAre(b, 0) => t1 = 0
    BY <1>12, <1>13 DEF AllAre, Hhmmsscc
  <1>16. t1 = 0 => h = 0 /\ m = 0 /\ s = 0
    BY <1>1 DEF t1, secs, mins
  <1>17. QED
    BY <1>11, <1>12, <1>14, <1>15, <1>16

\* Whole seconds of less than a hundred hours are packed as they were.
LEMMA BytesAreTheTime ==
    ASSUME NEW s \in [1..4 -> Byte], Hhmmsscc(s) % 100 = 0, Hhmmsscc(s) < 100 * 100 * 100 * 100
    PROVE  LET t == TimeOf(s).v IN t \in (0..99) \X (0..99) \X (0..99) /\ TimeBytes(t[1], t[2], t[3]) = s
  <1>0. Len(s) = 4 /\ s = <<s[1], s[2], s[3], s[4]>>
    OBVIOUS
  <1>01. \A k \in 1..4 : s[k] \in 0..255
    BY DEF Byte
  <1>02. s[1] \in 0..255 /\ s[2] \in 0..255 /\ s[3] \in 0..255 /\ s[4] \in 0..255
    BY <1>01
  <1>03. \E b \in 0..255 : b = s[1]
    BY <1>02
  <1>04. PICK b1 \in 0..255 : b1 = s[1]
    BY <1>03
  <1>05. PICK b2 \in 0..255 : b2 = s[2]
    BY <1>02
  <1>06. PICK b3 \in 0..255 : b3 = s[3]
    BY <1>02
  <1>07. PICK b4 \in 0..255 : b4 = s[4]
    BY <1>02
  <1>1. b1 = s[1] /\ b2 = s[2] /\ b3 = s[3] /\ b4 = s[4]
    BY <1>04, <1>05, <1>06, <1>07
  <1> DEFINE t3    == b3 + 256 * b4
             t2    == b2 + 256 * t3
             t1    == b1 + 256 * t2
             secs  == t1 \div 100
             mins  == secs \div 100
             hours == mins \div 100
  <1>a. Hhmmsscc(s) = t1
    BY <1>1 DEF Hhmmsscc
  <1>2. t3 \in Nat /\ t3 \div 256 = b4 /\ t3 % 256 = b3
    <2>1. t3 = 256 * b4 + b3 /\ b4 \in Nat
      OBVIOUS
    <2>2. QED
      BY <2>1, BytewiseUnique
  <1> HIDE DEF t3
  <1>3. t2 \in Nat /\ t2 \div 256 = t3 /\ t2 % 256 = b2
    <2>1. t2 = 256 * t3 + b2
      BY <1>2
    <2>2. QED
      BY <1>2, <2>1, BytewiseUnique
  <1> HIDE DEF t2
  <1>4. t1 \in Nat /\ t1 \div 256 = t2 /\ t1 % 256 = b1
    <2>1. t1 = 256 * t2 + b1
      BY <1>3
    <2>2. QED
      BY <1>3, <2>1, BytewiseUnique
  <1> HIDE DEF t1
  <1>5. t1 < 100 * (100 * (100 * 100)) /\ t1 % 100 = 0
    BY <1>4, <1>a
  <1>6. secs \in Nat /\ t1 = 100 * secs
    BY <1>4, <1>5, Hundredwise
  <1> HIDE DEF secs
  <1>7. mins \in Nat /\ secs % 100 \in 0..99 /\ secs = 100 * mins + (secs % 100)
    BY <1>6, Hundredwise
  <1> HIDE DEF mins
  <1>8. hours \in Nat /\ mins % 100 \in 0..99 /\ mins = 100 * hours + (mins % 100)
    BY <1>7, Hundredwise
  <1> HIDE DEF hours
  <1>10. hours < 100
    BY <1>5, <1>6, <1>7, <1>8
  <1>11. hours % 100 = hours
    BY <1>8, <1>10, Hundredwise
  <1>12. TimeOf(s).v = <<hours, mins % 100, secs % 100>>
    BY <1>0, <1>a, <1>11 DEF TimeOf, Value, secs, mins, hours
  <1>13. ((hours * 100 + (mins % 100)) * 100 + (secs % 100)) * 100 = t1
    BY <1>6, <1>7, <1>8
  <1>14. TimeBytes(hours, mins % 100, secs % 100) = <<b1, b2, b3, b4>>
    BY <1>2, <1>3, <1>4, <1>13 DEF TimeBytes
  <1>15. QED
    BY <1>0, <1>1, <1>7, <1>8, <1>10, <1>12, <1>14

-----------------------------------------------------------------------------
(***************************************************************************)
(* Least and greatest elements, and sequences.                             *)
(***************************************************************************)
\* A set of natural numbers has a least element.
LEMMA LeastExists ==
    ASSUME NEW T \in SUBSET Nat, T # {}
    PROVE  \E n \in T : \A m \in T : n <= m
  <1>1. PICK n \in T : \A m \in T : ~ (<<m, n>> \in OpToRel(<, Nat))
    BY NatLessThanWellFounded, WFMin
  <1>2. \A m \in T : ~ (m < n)
    BY <1>1 DEF OpToRel
  <1>3. QED
    BY <1>2

\* A finite set of natural numbers has a greatest element: the one with the
\* fewest above it.
LEMMA GreatestExists ==
    ASSUME NEW T \in SUBSET Nat, T # {}, IsFiniteSet(T)
    PROVE  \E n \in T : \A m \in T : m <= n
  <1> DEFINE Above(n) == {m \in T : n < m}
  <1>1. \A n \in T : IsFiniteSet(Above(n)) /\ Cardinality(Above(n)) \in Nat
    BY FS_Subset, FS_CardinalityType
  <1>2. PICK c \in {Cardinality(Above(n)) : n \in T} :
            \A d \in {Cardinality(Above(n)) : n \in T} : c <= d
    <2>1. {Cardinality(Above(n)) : n \in T} \in SUBSET Nat
      BY <1>1
    <2>2. {Cardinality(Above(n)) : n \in T} # {}
      OBVIOUS
    <2>3. QED
      BY <2>1, <2>2, LeastExists
  <1>3. PICK n \in T : c = Cardinality(Above(n))
    BY <1>2
  <1>4. ASSUME NEW m \in T, n < m PROVE FALSE
    <2>1. Above(m) \in SUBSET Above(n)
      <3>1. n \in Nat /\ m \in Nat /\ \A k \in T : k \in Nat
        BY <1>3, <1>4
      <3>2. \A k \in T : m < k => n < k
        BY <1>4, <3>1
      <3>3. QED
        BY <3>2
    <2>2. m \in Above(n) /\ m \notin Above(m)
      BY <1>4
    <2>3. Cardinality(Above(m)) < Cardinality(Above(n))
      BY <1>1, <2>1, <2>2, FS_Subset
    <2>4. c <= Cardinality(Above(m))
      BY <1>2, <1>4
    <2>5. QED
      BY <1>1, <1>3, <1>4, <2>3, <2>4
  <1>5. QED
    <2>1. \A k \in T : k \in Nat
      OBVIOUS
    <2>2. QED
      BY <1>3, <1>4, <2>1

\* The recursive function a concatenation is defined by exists.
LEMMA FlattenDef ==
    ASSUME NEW S, NEW seqs \in Seq(Seq(S)), seqs # <<>>
    PROVE  \E f : /\ f = [i \in 1..Len(seqs) |-> IF i = 1 THEN seqs[i] ELSE f[i-1] \o seqs[i]]
                  /\ FlattenSeq(seqs) = f[Len(seqs)]
  <1> DEFINE Good(n, f) == f = [i \in 1..n |-> IF i = 1 THEN seqs[i] ELSE f[i-1] \o seqs[i]]
             Bad == {n \in Nat : ~ \E f : Good(n, f)}
  <1>1. Bad = {}
    <2> SUFFICES ASSUME Bad # {} PROVE FALSE
      OBVIOUS
    <2>1. PICK n \in Bad : \A m \in Bad : n <= m
      BY LeastExists
    <2>2. n # 0
      <3>1. Good(0, [i \in {} |-> 0])
        OBVIOUS
      <3>2. QED
        BY <3>1, <2>1
    <2>3. n - 1 \in Nat /\ n - 1 \notin Bad
      <3>1. n \in Nat
        OBVIOUS
      <3>2. n - 1 \in Nat /\ ~ (n <= n - 1)
        BY <2>2, <3>1
      <3>3. QED
        BY <2>1, <3>2
    <2>4. PICK g : Good(n - 1, g)
      BY <2>3
    <2> DEFINE f == [i \in 1..n |-> IF i = 1 THEN seqs[i] ELSE g[i-1] \o seqs[i]]
    <2>5. \A i \in 1 .. n-1 : f[i] = g[i]
      <3>1. \A i \in 1 .. n-1 : i \in 1..n
        BY <2>3
      <3>2. \A i \in 1 .. n-1 : g[i] = IF i = 1 THEN seqs[i] ELSE g[i-1] \o seqs[i]
        BY <2>4
      <3>3. QED
        BY <3>1, <3>2
    <2>6. Good(n, f)
      <3>1. \A i \in 1..n : i = 1 \/ i-1 \in 1 .. n-1
        BY <2>3
      <3>2. QED
        BY <3>1, <2>5
    <2>7. QED
      BY <2>6, <2>1
  <1> DEFINE flatten == CHOOSE f : Good(Len(seqs), f)
  <1>2. Good(Len(seqs), flatten)
    <2>1. Len(seqs) \in Nat
      OBVIOUS
    <2>2. \E f : Good(Len(seqs), f)
      BY <2>1, <1>1
    <2>3. QED
      BY <2>2, Zenon
  <1>3. FlattenSeq(seqs) = flatten[Len(seqs)]
    <2>1. Len(seqs) # 0
      OBVIOUS
    <2>2. QED
      BY <2>1 DEF FlattenSeq
  <1>4. QED
    BY <1>2, <1>3, Zenon

\* A concatenation is a sequence.
LEMMA FlattenIsSeq ==
    ASSUME NEW S, NEW seqs \in Seq(Seq(S))
    PROVE  FlattenSeq(seqs) \in Seq(S)
  <1>1. CASE seqs = <<>>
    BY <1>1 DEF FlattenSeq
  <1>2. CASE seqs # <<>>
    <2> DEFINE n == Len(seqs)
    <2>1. PICK f : /\ f = [i \in 1..n |-> IF i = 1 THEN seqs[i] ELSE f[i-1] \o seqs[i]]
                   /\ FlattenSeq(seqs) = f[n]
      BY <1>2, FlattenDef
    <2>2. n \in Nat \ {0}
      BY <1>2
    <2> HIDE DEF n
    <2> DEFINE T == {i \in 1..n : f[i] \notin Seq(S)}
    <2>3. T = {}
      <3> SUFFICES ASSUME T # {} PROVE FALSE
        OBVIOUS
      <3>1. T \in SUBSET Nat
        BY <2>2
      <3>2. PICK i \in T : \A j \in T : i <= j
        BY <3>1, LeastExists
      <3>3. i \in 1..n /\ seqs[i] \in Seq(S)
        BY DEF n
      <3>4. f[i] = IF i = 1 THEN seqs[i] ELSE f[i-1] \o seqs[i]
        BY <2>1, <3>3
      <3>5. i # 1 => f[i-1] \in Seq(S)
        <4>1. i # 1 => i-1 \in 1..n /\ ~ (i <= i-1)
          BY <2>2, <3>3
        <4>2. QED
          BY <4>1, <3>2
      <3>6. f[i] \in Seq(S)
        BY <3>3, <3>4, <3>5
      <3>7. QED
        BY <3>6
    <2>4. n \in 1..n
      BY <2>2
    <2>5. QED
      BY <2>1, <2>3, <2>4, ZenonT(40)
  <1>3. QED
    BY <1>1, <1>2

\* Sequences of one length that agree everywhere.
LEMMA SameSeq ==
    ASSUME NEW S, NEW T, NEW s \in Seq(S), NEW t \in Seq(T), Len(s) = Len(t),
           \A k \in 1 .. Len(s) : s[k] = t[k]
    PROVE  s = t
  <1>1. s \in Seq(S \cup T) /\ t \in Seq(S \cup T)
    BY SeqMonotonic
  <1>2. QED
    BY <1>1, SeqEqual

\* What is padded or cut to a length.
LEMMA FillFacts ==
    ASSUME NEW S, NEW s \in Seq(S), NEW n \in Nat, NEW b \in S
    PROVE  /\ Fill(s, n, b) \in [1..n -> S]
           /\ Fill(s, n, b) \in Seq(S)
           /\ Len(Fill(s, n, b)) = n
           /\ \A k \in 1..n : Fill(s, n, b)[k] = IF k <= Len(s) THEN s[k] ELSE b
           /\ Len(s) = n => Fill(s, n, b) = s
  <1>1. /\ Fill(s, n, b) \in [1..n -> S] /\ Fill(s, n, b) \in Seq(S)
        /\ Len(Fill(s, n, b)) = n
        /\ \A k \in 1..n : Fill(s, n, b)[k] = IF k <= Len(s) THEN s[k] ELSE b
    BY DEF Fill
  <1>2. Len(s) = n => Fill(s, n, b) = s
    BY <1>1, SeqEqual
  <1>3. QED
    BY <1>1, <1>2

\* The text before the first NUL.
LEMMA UntilNulFacts ==
    ASSUME NEW S, NEW s \in Seq(S)
    PROVE  /\ UntilNul(s) \in Seq(S)
           /\ Len(UntilNul(s)) <= Len(s)
           /\ \A k \in 1 .. Len(UntilNul(s)) : UntilNul(s)[k] = s[k] /\ s[k] # 0
           /\ Len(UntilNul(s)) < Len(s) => s[Len(UntilNul(s)) + 1] = 0
  <1> DEFINE I == {i \in 1..Len(s) : s[i] = 0}
  <1>1. CASE I = {}
    <2>1. UntilNul(s) = s
      BY <1>1 DEF UntilNul, SelectInSeq
    <2>2. QED
      BY <1>1, <2>1
  <1>2. CASE I # {}
    <2>1. I \in SUBSET Nat
      OBVIOUS
    <2>2. Min(I) \in I /\ \A m \in I : Min(I) <= m
      BY <1>2, <2>1, LeastExists DEF Min
    <2> DEFINE k == Min(I)
    <2>3. k \in 1..Len(s) /\ s[k] = 0
      BY <2>2
    <2>4. ASSUME NEW m \in 1 .. k-1 PROVE m \in 1..Len(s) /\ s[m] # 0
      <3>1. m \in 1..Len(s) /\ m < k
        BY <2>3
      <3>2. m \notin I
        BY <2>2, <2>3, <3>1
      <3>3. QED
        BY <3>1, <3>2
    <2>8. k # 0
      BY <2>3
    <2>9. UntilNul(s) = SubSeq(s, 1, k - 1)
      BY <1>2, <2>8 DEF UntilNul, SelectInSeq
    <2> HIDE DEF k, I
    <2>5. SubSeq(s, 1, k-1) \in Seq(S) /\ Len(SubSeq(s, 1, k-1)) = k - 1
      BY <2>3
    <2>6. \A m \in 1..k-1 : SubSeq(s, 1, k-1)[m] = s[m]
      BY <2>3
    <2>7. QED
      BY <2>3, <2>4, <2>5, <2>6, <2>9
  <1>3. QED
    BY <1>1, <1>2

\* It is the prefix that has no NUL and is followed by one or by nothing.
LEMMA UntilNulIs ==
    ASSUME NEW S, NEW s \in Seq(S), NEW T, NEW p \in Seq(T), Len(p) <= Len(s),
           \A k \in 1 .. Len(p) : p[k] = s[k] /\ s[k] # 0,
           Len(p) < Len(s) => s[Len(p) + 1] = 0
    PROVE  UntilNul(s) = p
  <1> DEFINE u == UntilNul(s)
  <1>1. /\ u \in Seq(S) /\ Len(u) <= Len(s)
        /\ \A k \in 1 .. Len(u) : u[k] = s[k] /\ s[k] # 0
        /\ Len(u) < Len(s) => s[Len(u) + 1] = 0
    BY UntilNulFacts
  <1> HIDE DEF u
  <1>2. Len(u) \in Nat /\ Len(p) \in Nat /\ Len(s) \in Nat
    BY <1>1
  <1>3. Len(u) < Len(p) => FALSE
    BY <1>1, <1>2
  <1>4. Len(p) < Len(u) => FALSE
    BY <1>1, <1>2
  <1>5. Len(u) = Len(p)
    BY <1>2, <1>3, <1>4
  <1>6. u = p
    BY <1>1, <1>5, SameSeq
  <1>7. QED
    BY <1>6 DEF u

\* A text without the white space at its end is a prefix of it.
LEMMA TrimEndFacts ==
    ASSUME NEW S, NEW s \in Seq(S)
    PROVE  /\ TrimEnd(s) \in Seq(S)
           /\ \A k \in 1 .. Len(TrimEnd(s)) : k \in 1..Len(s) /\ TrimEnd(s)[k] = s[k]
  <1> DEFINE I == {i \in 1..Len(s) : s[i] \notin White}
             n == IF I # {} THEN Max(I) ELSE 0
  <1>1. TrimEnd(s) = SubSeq(s, 1, n)
    BY DEF TrimEnd, SelectLastInSeq
  <1>2. n \in 0..Len(s)
    <2>1. IsFiniteSet(I) /\ I \in SUBSET Nat
      <3>1. IsFiniteSet(1..Len(s))
        BY FS_Interval
      <3>2. QED
        BY <3>1, FS_Subset
    <2>2. I # {} => Max(I) \in I
      BY <2>1, GreatestExists DEF Max
    <2>3. QED
      BY <2>2
  <1> HIDE DEF n, I
  <1>3. SubSeq(s, 1, n) \in Seq(S) /\ Len(SubSeq(s, 1, n)) = n /\ \A k \in 1..n : SubSeq(s, 1, n)[k] = s[k]
    BY <1>2
  <1>4. QED
    BY <1>1, <1>2, <1>3

\* Where the two parts of a concatenation lie.
LEMMA ConcatParts ==
    ASSUME NEW S, NEW u \in Seq(S), NEW v \in Seq(S)
    PROVE  /\ u \o v \in Seq(S) /\ Len(u \o v) = Len(u) + Len(v)
           /\ \A k \in 1 .. Len(v) : (u \o v)[Len(u) + k] = v[k]
           /\ \A a \in Nat, m \in Nat : a + m <= Len(u) =>
                /\ a + m <= Len(u \o v)
                /\ \A k \in 1..m : (u \o v)[a + k] = u[a + k]
  <1>1. /\ u \o v \in Seq(S) /\ Len(u \o v) = Len(u) + Len(v)
        /\ \A k \in 1 .. Len(u) + Len(v) : (u \o v)[k] = IF k <= Len(u) THEN u[k] ELSE v[k - Len(u)]
    BY ConcatProperties
  <1>2. Len(u) \in Nat /\ Len(v) \in Nat
    OBVIOUS
  <1>3. ASSUME NEW k \in 1 .. Len(v) PROVE (u \o v)[Len(u) + k] = v[k]
    <2>1. Len(u) + k \in 1 .. Len(u) + Len(v) /\ ~ (Len(u) + k <= Len(u)) /\ Len(u) + k - Len(u) = k
      BY <1>2
    <2>2. QED
      BY <1>1, <2>1
  <1>4. ASSUME NEW a \in Nat, NEW m \in Nat, a + m <= Len(u), NEW k \in 1..m
        PROVE  (u \o v)[a + k] = u[a + k]
    <2>1. a + k \in 1 .. Len(u) + Len(v) /\ a + k <= Len(u)
      BY <1>2, <1>4
    <2>2. QED
      BY <1>1, <2>1
  <1>5. QED
    BY <1>1, <1>2, <1>3, <1>4

\* Each piece begins where the one before it ends.
Offsets(at, seqs) ==
    /\ at \in [1 .. Len(seqs) -> Nat]
    /\ \A i \in 1 .. Len(seqs) : at[i] = IF i = 1 THEN 0 ELSE at[i-1] + Len(seqs[i-1])

\* The pieces up to the i-th one are found in flat.
Placed(at, seqs, i, flat) ==
    \A j \in 1..i : /\ at[j] + Len(seqs[j]) <= Len(flat)
                    /\ \A k \in 1 .. Len(seqs[j]) : flat[at[j] + k] = seqs[j][k]

\* Where each piece of a concatenation lies.
LEMMA FlattenPieces ==
    ASSUME NEW S, NEW seqs \in Seq(Seq(S)), NEW at, Offsets(at, seqs)
    PROVE  LET flat == FlattenSeq(seqs)
           IN  /\ flat \in Seq(S)
               /\ Len(flat) = IF seqs = <<>> THEN 0 ELSE at[Len(seqs)] + Len(seqs[Len(seqs)])
               /\ Placed(at, seqs, Len(seqs), flat)
  <1> DEFINE n == Len(seqs)
             flat == FlattenSeq(seqs)
  <1>1. CASE seqs = <<>>
    <2>1. flat = <<>> /\ n = 0
      BY <1>1 DEF FlattenSeq
    <2>2. flat \in Seq(S) /\ Len(flat) = 0 /\ 1..n = {}
      BY <2>1
    <2>3. QED
      BY <1>1, <2>2 DEF Placed
  <1>2. CASE seqs # <<>>
    <2>1. PICK f : /\ f = [i \in 1..n |-> IF i = 1 THEN seqs[i] ELSE f[i-1] \o seqs[i]]
                   /\ flat = f[n]
      BY <1>2, FlattenDef
    <2>2. n \in Nat \ {0} /\ \A i \in 1..n : seqs[i] \in Seq(S) /\ Len(seqs[i]) \in Nat
      BY <1>2
    <2>3. \A i \in 1..n : at[i] \in Nat /\ at[i] = IF i = 1 THEN 0 ELSE at[i-1] + Len(seqs[i-1])
      BY DEF Offsets
    <2>4. \A i \in 1..n : f[i] = IF i = 1 THEN seqs[i] ELSE f[i-1] \o seqs[i]
      BY <2>1
    <2> HIDE DEF n
    <2> DEFINE Good(i) == /\ f[i] \in Seq(S) /\ Len(f[i]) = at[i] + Len(seqs[i])
                          /\ Placed(at, seqs, i, f[i])
               Bad == {i \in 1..n : ~ Good(i)}
    <2>5. Bad \in SUBSET Nat
      BY <2>2
    <2>6. Good(1)
      <3>1. 1 \in 1..n /\ \A j \in 1..1 : j = 1
        BY <2>2
      <3>2. f[1] = seqs[1] /\ at[1] = 0 /\ seqs[1] \in Seq(S) /\ Len(seqs[1]) \in Nat
        BY <2>2, <2>3, <2>4, <3>1
      <3>3. QED
        BY <3>1, <3>2 DEF Placed
    <2>7. ASSUME NEW i \in 1..n, i # 1, Good(i-1) PROVE Good(i)
      <3>1. i-1 \in 1..n /\ i-1 \in Nat /\ i \in Nat /\ \A j \in 1..i : j = i \/ (j \in 1..i-1 /\ j \in 1..n)
        BY <2>2, <2>7
      <3> DEFINE u == f[i-1]
                 v == seqs[i]
      <3>2. u \in Seq(S) /\ Placed(at, seqs, i-1, u) /\ Len(u) = at[i-1] + Len(seqs[i-1])
        BY <2>7
      <3>3. v \in Seq(S) /\ f[i] = u \o v /\ at[i] = at[i-1] + Len(seqs[i-1])
        BY <2>2, <2>3, <2>4, <2>7
      <3> HIDE DEF u, Good
      <3>4. /\ u \o v \in Seq(S) /\ Len(u \o v) = Len(u) + Len(v)
            /\ \A k \in 1 .. Len(v) : (u \o v)[Len(u) + k] = v[k]
            /\ \A a \in Nat, m \in Nat : a + m <= Len(u) =>
                 /\ a + m <= Len(u \o v)
                 /\ \A k \in 1..m : (u \o v)[a + k] = u[a + k]
        <4>1. u \in Seq(S) /\ v \in Seq(S)
          BY <3>2, <3>3
        <4> HIDE DEF v
        <4>2. QED
          BY <4>1, ConcatParts
      <3>5. ASSUME NEW j \in 1..i-1, j \in 1..n
            PROVE  /\ at[j] + Len(seqs[j]) <= Len(u \o v)
                   /\ \A k \in 1 .. Len(seqs[j]) : (u \o v)[at[j] + k] = seqs[j][k]
        <4>1. at[j] \in Nat /\ Len(seqs[j]) \in Nat
          BY <2>2, <2>3, <3>5
        <4>2. at[j] + Len(seqs[j]) <= Len(u) /\ \A k \in 1 .. Len(seqs[j]) : u[at[j] + k] = seqs[j][k]
          BY <3>2, <3>5 DEF Placed
        <4>3. QED
          BY <3>4, <4>1, <4>2
      <3>6. Placed(at, seqs, i, u \o v)
        <4>1. at[i] + Len(v) <= Len(u \o v) /\ \A k \in 1 .. Len(v) : (u \o v)[at[i] + k] = v[k]
          <5>1. at[i] = Len(u) /\ Len(u) \in Nat /\ Len(v) \in Nat
            BY <2>2, <3>2, <3>3
          <5>2. QED
            BY <3>4, <5>1
        <4>2. QED
          BY <3>1, <3>5, <4>1 DEF Placed
      <3>7. Len(u \o v) = at[i] + Len(seqs[i])
        BY <3>2, <3>3, <3>4
      <3>8. QED
        BY <3>3, <3>4, <3>6, <3>7 DEF Good
    <2>8. Bad = {}
      <3> HIDE DEF Good
      <3> SUFFICES ASSUME Bad # {} PROVE FALSE
        OBVIOUS
      <3>1. \E i \in Bad : \A j \in Bad : i <= j
        <4> HIDE DEF Bad
        <4>1. QED
          BY <2>5, LeastExists
      <3>2. PICK i \in 1..n : ~ Good(i) /\ \A j \in 1..n : ~ Good(j) => i <= j
        BY <3>1
      <3>3. i # 1
        BY <2>6, <3>2
      <3>4. i-1 \in 1..n /\ ~ (i <= i-1)
        BY <2>2, <3>3
      <3>5. QED
        BY <2>7, <3>2, <3>3, <3>4
    <2>9. Good(n)
      <3>1. n \in 1..n
        BY <2>2
      <3> HIDE DEF Good
      <3>2. QED
        BY <2>8, <3>1
    <2>10. QED
      BY <1>2, <2>1, <2>9 DEF n
  <1>3. QED
    BY <1>1, <1>2

\* The bytes of a text are bytes, those of an ASCII text its characters.
LEMMA Utf8Facts ==
    ASSUME NEW s \in Seq(Word)
    PROVE  Utf8(s) \in Seq(Byte) /\ (Ascii(s) => Utf8(s) = s)
  <1> DEFINE bytes(c) == IF c < 128 THEN <<c>>
                         ELSE IF c < 2048 THEN <<192 + c \div 64, 128 + (c % 64)>>
                         ELSE <<224 + c \div 4096, 128 + ((c \div 64) % 64), 128 + (c % 64)>>
             pieces == [k \in DOMAIN s |-> bytes(s[k])]
  <1>1. Utf8(s) = FlattenSeq(pieces)
    BY DEF Utf8
  <1>2. ASSUME NEW c \in Word PROVE bytes(c) \in Seq(Byte)
    <2>1. c \in Nat /\ c \div 256 \in 0..255 /\ c % 256 \in 0..255 /\ c = 256 * (c \div 256) + (c % 256)
      BY Bytewise DEF Word, Byte
    <2>2. c < 256 * 256
      BY <2>1
    <2>3. \A x \in Nat : x \div 64 \in Nat /\ x % 64 \in 0..63 /\ x = 64 * (x \div 64) + (x % 64)
      <3>1. 64 \in Nat \ {0} /\ 64-1 = 63
        OBVIOUS
      <3>2. QED
        BY <3>1, Division
    <2>4. c \div 64 \in Nat /\ c % 64 \in 0..63 /\ c = 64 * (c \div 64) + (c % 64)
      BY <2>1, <2>3
    <2>5. (c \div 64) % 64 \in 0..63
      BY <2>3, <2>4
    <2>6. c \div 4096 \in Nat /\ c % 4096 \in 0..4095 /\ c = 4096 * (c \div 4096) + (c % 4096)
      <3>1. 4096 \in Nat \ {0} /\ 4096-1 = 4095
        OBVIOUS
      <3>2. QED
        BY <2>1, <3>1, Division
    <2>7. CASE c < 128
      BY <2>1, <2>7 DEF Byte
    <2> DEFINE q64 == c \div 64
               r64 == c % 64
               m64 == q64 % 64
               q4096 == c \div 4096
               r4096 == c % 4096
    <2>a. c \in Nat /\ q64 \in Nat /\ r64 \in 0..63 /\ c = 64 * q64 + r64 /\ m64 \in 0..63
      BY <2>1, <2>4, <2>5
    <2>b. q4096 \in Nat /\ r4096 \in 0..4095 /\ c = 4096 * q4096 + r4096
      BY <2>6
    <2>c. c \in Nat
      BY <2>a
    <2>8. CASE ~ (c < 128) /\ c < 2048
      <3>3. bytes(c) = <<192 + q64, 128 + r64>>
        BY <2>8
      <3> HIDE DEF q64, r64, m64, q4096, r4096, bytes
      <3>1. q64 <= 31
        BY <2>a, <2>8
      <3>2. 192 + q64 \in Byte /\ 128 + r64 \in Byte
        BY <2>a, <3>1 DEF Byte
      <3>4. QED
        BY <3>2, <3>3
    <2>9. CASE ~ (c < 128) /\ ~ (c < 2048)
      <3>3. bytes(c) = <<224 + q4096, 128 + m64, 128 + r64>>
        BY <2>9
      <3> HIDE DEF q64, r64, m64, q4096, r4096, bytes
      <3>1. q4096 <= 15
        <4>1. c < 4096 * 16
          BY <2>c, <2>2
        <4>2. 4096 \in Nat \ {0} /\ 16 \in Nat
          OBVIOUS
        <4>3. q4096 < 16
          BY <2>c, <4>1, <4>2, QuotientBound DEF q4096
        <4>4. QED
          BY <2>b, <4>3
      <3>2. 224 + q4096 \in Byte /\ 128 + m64 \in Byte /\ 128 + r64 \in Byte
        BY <2>a, <2>b, <3>1 DEF Byte
      <3>4. QED
        BY <3>2, <3>3
    <2>10. QED
      BY <2>7, <2>8, <2>9
  <1>3. DOMAIN s = 1..Len(s) /\ Len(s) \in Nat /\ \A k \in 1..Len(s) : s[k] \in Word
    OBVIOUS
  <1>4. pieces \in Seq(Seq(Byte)) /\ Len(pieces) = Len(s) /\ \A k \in 1..Len(s) : pieces[k] = bytes(s[k])
    <2> HIDE DEF bytes
    <2>1. \A k \in 1..Len(s) : bytes(s[k]) \in Seq(Byte)
      BY <1>2, <1>3
    <2>2. pieces \in [1..Len(s) -> Seq(Byte)]
      BY <1>3, <2>1
    <2>3. QED
      BY <1>3, <2>2
  <1>5. ASSUME Ascii(s) PROVE FlattenSeq(pieces) = s
    <2>1. \A k \in 1..Len(s) : pieces[k] = <<s[k]>> /\ Len(pieces[k]) = 1 /\ pieces[k][1] = s[k]
      BY <1>3, <1>4, <1>5, SMTT(30) DEF Ascii
    <2> DEFINE at == [k \in 1..Len(pieces) |-> k - 1]
    <2> HIDE DEF pieces
    <2>3. Offsets(at, pieces)
      <3>1. Len(pieces) \in Nat /\ at \in [1..Len(pieces) -> Nat]
        BY <1>3, <1>4
      <3>2. ASSUME NEW i \in 1 .. Len(pieces), i # 1 PROVE at[i] = at[i-1] + Len(pieces[i-1])
        <4>1. i-1 \in 1..Len(pieces)
          BY <3>1, <3>2
        <4>2. Len(pieces[i-1]) = 1
          BY <1>4, <2>1, <4>1
        <4>3. at[i] = i - 1 /\ at[i-1] = i - 1 - 1
          BY <4>1
        <4>4. QED
          BY <4>2, <4>3
      <3>3. \A i \in 1 .. Len(pieces) : i = 1 => at[i] = 0
        OBVIOUS
      <3> HIDE DEF at
      <3>4. QED
        BY <3>1, <3>2, <3>3 DEF Offsets
    <2> DEFINE flat == FlattenSeq(pieces)
    <2>4. /\ flat \in Seq(Byte)
          /\ Len(flat) = IF pieces = <<>> THEN 0 ELSE at[Len(pieces)] + Len(pieces[Len(pieces)])
          /\ \A j \in 1 .. Len(pieces) :
                \A k \in 1 .. Len(pieces[j]) : flat[at[j] + k] = pieces[j][k]
      <3> HIDE DEF at
      <3>1. QED
        BY <1>4, <2>3, FlattenPieces DEF Placed
    <2> HIDE DEF flat
    <2>5. Len(flat) = Len(s)
      <3>1. CASE Len(s) = 0
        <4>1. pieces = <<>>
          BY <1>4, <3>1, EmptySeq
        <4>2. QED
          BY <2>4, <3>1, <4>1
      <3>2. CASE Len(s) # 0
        <4>1. Len(s) \in 1..Len(s) /\ Len(s) = Len(pieces)
          BY <1>3, <1>4, <3>2
        <4>2. at[Len(s)] = Len(s) - 1 /\ Len(pieces[Len(s)]) = 1
          BY <2>1, <4>1
        <4>3. pieces # <<>>
          BY <1>4, <3>2
        <4>4. QED
          BY <1>3, <2>4, <4>1, <4>2, <4>3
      <3>3. QED
        BY <3>1, <3>2
    <2>6. \A j \in 1..Len(s) : flat[j] = s[j]
      <3>1. ASSUME NEW j \in 1..Len(s) PROVE flat[j] = s[j]
        <4>1. 1 \in 1..Len(pieces[j]) /\ at[j] + 1 = j
          <5>1. j \in 1..Len(pieces) /\ j \in Int
            BY <1>4
          <5>2. at[j] = j - 1
            BY <5>1 DEF at
          <5>3. Len(pieces[j]) = 1
            BY <2>1
          <5>4. QED
            BY <5>1, <5>2, <5>3
        <4>2. flat[at[j] + 1] = pieces[j][1]
          BY <1>4, <2>4, <4>1
        <4>3. QED
          BY <2>1, <4>1, <4>2
      <3>2. QED
        BY <3>1
    <2>7. flat = s
      BY <2>4, <2>5, <2>6, SameSeq
    <2>8. QED
      BY <2>7 DEF flat
  <1>6. QED
    BY <1>1, <1>4, <1>5, FlattenIsSeq

-----------------------------------------------------------------------------
(***************************************************************************)
(* What the codec does with a field of each type.                          *)
(***************************************************************************)
\* STRING.
LEMMA TypeString ==
    ASSUME NEW f, f.type = 0, f.length \in Nat, NEW s, NEW c
    PROVE  /\ UnpackField(f, s) = Text(s)
           /\ KeyValue(f, s) = Text(UntilNul(s))
           /\ ImportField(f, s) = Text(TrimEnd(s))
           /\ PackField(f, c) = IF f.length = 0 THEN <<>> ELSE Fill(IF c.kind = "text" THEN Utf8(c.v) ELSE <<>>, f.length, 32)
           /\ Settled(f, c) <=> (c.kind = "text" /\ Ascii(c.v) /\ Len(c.v) = f.length)
           /\ Canonical(f, s) <=> (Ascii(s))
  <1>1. UnpackField(f, s) = Text(s)
    BY DEF UnpackField
  <1>2. KeyValue(f, s) = Text(UntilNul(s))
    BY <1>1 DEF KeyValue
  <1>3. ImportField(f, s) = Text(TrimEnd(s))
    BY <1>1 DEF ImportField, ImportText
  <1>4. PackField(f, c) = IF f.length = 0 THEN <<>> ELSE Fill(IF c.kind = "text" THEN Utf8(c.v) ELSE <<>>, f.length, 32)
    BY DEF PackField
  <1>5. (Settled(f, c) <=> (c.kind = "text" /\ Ascii(c.v) /\ Len(c.v) = f.length)) /\ (Canonical(f, s) <=> (Ascii(s)))
    BY DEF Settled, Canonical
  <1>6. QED
    BY <1>1, <1>2, <1>3, <1>4, <1>5

\* ZSTRING.
LEMMA TypeZstring ==
    ASSUME NEW f, f.type = 11, f.length \in Nat, NEW s, NEW c
    PROVE  /\ UnpackField(f, s) = Text(Lossy(UntilNul(s)))
           /\ KeyValue(f, s) = Text(UntilNul(s))
           /\ ImportField(f, s) = Text(TrimEnd(Lossy(UntilNul(s))))
           /\ PackField(f, c) = IF f.length = 0 THEN <<>> ELSE Fill(IF c.kind = "text" THEN Utf8(c.v) ELSE <<>>, f.length - 1, 0) \o <<0>>
           /\ Settled(f, c) <=> (c.kind = "text" /\ Ascii(c.v) /\ Len(c.v) < f.length)
           /\ Canonical(f, s) <=> (Ascii(s) /\ Last(s) = 0 /\ \A j, k \in DOMAIN s : j < k /\ s[j] = 0 => s[k] = 0)
  <1>1. UnpackField(f, s) = Text(Lossy(UntilNul(s)))
    BY DEF UnpackField
  <1>2. KeyValue(f, s) = Text(UntilNul(s))
    BY <1>1 DEF KeyValue
  <1>3. ImportField(f, s) = Text(TrimEnd(Lossy(UntilNul(s))))
    BY <1>1 DEF ImportField, ImportText
  <1>4. PackField(f, c) = IF f.length = 0 THEN <<>> ELSE Fill(IF c.kind = "text" THEN Utf8(c.v) ELSE <<>>, f.length - 1, 0) \o <<0>>
    BY DEF PackField
  <1>5. (Settled(f, c) <=> (c.kind = "text" /\ Ascii(c.v) /\ Len(c.v) < f.length)) /\ (Canonical(f, s) <=> (Ascii(s) /\ Last(s) = 0 /\ \A j, k \in DOMAIN s : j < k /\ s[j] = 0 => s[k] = 0))
    BY DEF Settled, Canonical
  <1>6. QED
    BY <1>1, <1>2, <1>3, <1>4, <1>5

\* INTEGER.
LEMMA TypeInteger ==
    ASSUME NEW f, f.type = 1, f.length \in Nat, NEW s, NEW c
    PROVE  /\ UnpackField(f, s) = IntOf(s)
           /\ KeyValue(f, s) = IntOf(s)
           /\ ImportField(f, s) = IntOf(s)
           /\ PackField(f, c) = IF f.length = 0 THEN <<>> ELSE Fill(IF c.kind = "int" THEN c.v ELSE <<>>, f.length, 0)
           /\ Settled(f, c) <=> (f.length \in {1, 2, 4, 8})
           /\ Canonical(f, s) <=> (Len(s) \in {1, 2, 4, 8})
  <1>1. UnpackField(f, s) = IntOf(s)
    BY DEF UnpackField
  <1>2. KeyValue(f, s) = IntOf(s)
    BY <1>1 DEF KeyValue
  <1>3. ImportField(f, s) = IntOf(s)
    BY <1>1 DEF ImportField, ImportText
  <1>4. PackField(f, c) = IF f.length = 0 THEN <<>> ELSE Fill(IF c.kind = "int" THEN c.v ELSE <<>>, f.length, 0)
    BY DEF PackField
  <1>5. (Settled(f, c) <=> (f.length \in {1, 2, 4, 8})) /\ (Canonical(f, s) <=> (Len(s) \in {1, 2, 4, 8}))
    BY DEF Settled, Canonical
  <1>6. QED
    BY <1>1, <1>2, <1>3, <1>4, <1>5

\* FLOAT.
LEMMA TypeFloat ==
    ASSUME NEW f, f.type = 2, f.length \in Nat, NEW s, NEW c
    PROVE  /\ UnpackField(f, s) = FloatOr(s, IF f.default = Null THEN FloatZero ELSE f.default)
           /\ KeyValue(f, s) = IF AllAre(s, 0) \/ Len(s) \notin {4, 8} THEN FloatZero ELSE Value("float", s)
           /\ ImportField(f, s) \in {FloatOr(s, IF f.default = Null THEN FloatZero ELSE f.default), FloatOr(<<>>, IF f.default = Null THEN FloatZero ELSE f.default)}
           /\ PackField(f, c) = IF f.length = 0 THEN <<>> ELSE Fill(IF c.kind = "float" /\ f.length \in {4, 8} THEN c.v ELSE <<>>, f.length, 0)
           /\ Settled(f, c) <=> (Len(c.v) \in {0, f.length})
           /\ Canonical(f, s) <=> (Len(s) \in {4, 8} /\ Finite(s) /\ ~Subnormal(s) /\ (AllAre(s, 0) => f.default = Null))
  <1>1. UnpackField(f, s) = FloatOr(s, IF f.default = Null THEN FloatZero ELSE f.default)
    BY DEF UnpackField
  <1>2. KeyValue(f, s) = IF AllAre(s, 0) \/ Len(s) \notin {4, 8} THEN FloatZero ELSE Value("float", s)
    BY <1>1 DEF KeyValue
  <1>3. ImportField(f, s) \in {FloatOr(s, IF f.default = Null THEN FloatZero ELSE f.default), FloatOr(<<>>, IF f.default = Null THEN FloatZero ELSE f.default)}
    <2>1. UnpackField(f, <<>>) = FloatOr(<<>>, IF f.default = Null THEN FloatZero ELSE f.default)
      BY DEF UnpackField
    <2>2. ImportField(f, s) \in {UnpackField(f, s), UnpackField(f, <<>>)}
      BY DEF ImportField
    <2>3. QED
      BY <1>1, <2>1, <2>2
  <1>4. PackField(f, c) = IF f.length = 0 THEN <<>> ELSE Fill(IF c.kind = "float" /\ f.length \in {4, 8} THEN c.v ELSE <<>>, f.length, 0)
    BY DEF PackField
  <1>5. (Settled(f, c) <=> (Len(c.v) \in {0, f.length})) /\ (Canonical(f, s) <=> (Len(s) \in {4, 8} /\ Finite(s) /\ ~Subnormal(s) /\ (AllAre(s, 0) => f.default = Null)))
    BY DEF Settled, Canonical
  <1>6. QED
    BY <1>1, <1>2, <1>3, <1>4, <1>5

\* DATE.
LEMMA TypeDate ==
    ASSUME NEW f, f.type = 3, f.length \in Nat, NEW s, NEW c
    PROVE  /\ UnpackField(f, s) = DateOr(s, f.default)
           /\ KeyValue(f, s) = DateOr(s, Null)
           /\ ImportField(f, s) = DateOr(s, f.default)
           /\ PackField(f, c) = IF f.length = 0 THEN <<>> ELSE Fill(IF c.kind = "date" /\ f.length >= 4 THEN DateBytes(c.v[1], c.v[2], c.v[3]) ELSE <<>>, f.length, 0)
           /\ Settled(f, c) <=> (c.kind = "date" => c.v[3] < 10000 /\ f.length >= 4)
  <1>1. UnpackField(f, s) = DateOr(s, f.default)
    BY DEF UnpackField
  <1>2. KeyValue(f, s) = DateOr(s, Null)
    BY <1>1 DEF KeyValue
  <1>3. ImportField(f, s) = DateOr(s, f.default)
    BY <1>1 DEF ImportField, ImportText
  <1>4. PackField(f, c) = IF f.length = 0 THEN <<>> ELSE Fill(IF c.kind = "date" /\ f.length >= 4 THEN DateBytes(c.v[1], c.v[2], c.v[3]) ELSE <<>>, f.length, 0)
    BY DEF PackField
  <1>5. Settled(f, c) <=> (c.kind = "date" => c.v[3] < 10000 /\ f.length >= 4)
    BY DEF Settled
  <1>6. QED
    BY <1>1, <1>2, <1>3, <1>4, <1>5

\* TIME.
LEMMA TypeTime ==
    ASSUME NEW f, f.type = 4, f.length \in Nat, NEW s, NEW c
    PROVE  /\ UnpackField(f, s) = TimeOf(s)
           /\ KeyValue(f, s) = IF AllAre(s, 0) \/ Len(s) < 4 THEN Null ELSE TimeOf(s)
           /\ ImportField(f, s) = TimeOf(s)
           /\ PackField(f, c) = IF f.length = 0 THEN <<>> ELSE Fill(IF c.kind = "time" /\ f.length >= 4 THEN TimeBytes(c.v[1], c.v[2], c.v[3]) ELSE <<>>, f.length, 0)
           /\ Settled(f, c) <=> (TRUE)
           /\ Canonical(f, s) <=> (Len(s) = 4 /\ Hhmmsscc(s) % 100 = 0 /\ Hhmmsscc(s) < 100 * 100 * 100 * 100)
  <1>1. UnpackField(f, s) = TimeOf(s)
    BY DEF UnpackField
  <1>2. KeyValue(f, s) = IF AllAre(s, 0) \/ Len(s) < 4 THEN Null ELSE TimeOf(s)
    BY <1>1 DEF KeyValue
  <1>3. ImportField(f, s) = TimeOf(s)
    BY <1>1 DEF ImportField, ImportText
  <1>4. PackField(f, c) = IF f.length = 0 THEN <<>> ELSE Fill(IF c.kind = "time" /\ f.length >= 4 THEN TimeBytes(c.v[1], c.v[2], c.v[3]) ELSE <<>>, f.length, 0)
    BY DEF PackField
  <1>5. (Settled(f, c) <=> (TRUE)) /\ (Canonical(f, s) <=> (Len(s) = 4 /\ Hhmmsscc(s) % 100 = 0 /\ Hhmmsscc(s) < 100 * 100 * 100 * 100))
    BY DEF Settled, Canonical
  <1>6. QED
    BY <1>1, <1>2, <1>3, <1>4, <1>5

\* DECIMAL.
LEMMA TypeDecimal ==
    ASSUME NEW f, f.type = 5, f.length \in Nat, NEW s, NEW c
    PROVE  /\ UnpackField(f, s) = I64(s)
           /\ KeyValue(f, s) = I64(s)
           /\ ImportField(f, s) = I64(s)
           /\ PackField(f, c) = IF f.length = 0 THEN <<>> ELSE Fill(IF c.kind = "int" THEN c.v ELSE <<>>, f.length, 0)
           /\ Settled(f, c) <=> (TRUE)
           /\ Canonical(f, s) <=> (Len(s) <= 8)
  <1>1. UnpackField(f, s) = I64(s)
    BY DEF UnpackField
  <1>2. KeyValue(f, s) = I64(s)
    BY <1>1 DEF KeyValue
  <1>3. ImportField(f, s) = I64(s)
    BY <1>1 DEF ImportField, ImportText
  <1>4. PackField(f, c) = IF f.length = 0 THEN <<>> ELSE Fill(IF c.kind = "int" THEN c.v ELSE <<>>, f.length, 0)
    BY DEF PackField
  <1>5. (Settled(f, c) <=> (TRUE)) /\ (Canonical(f, s) <=> (Len(s) <= 8))
    BY DEF Settled, Canonical
  <1>6. QED
    BY <1>1, <1>2, <1>3, <1>4, <1>5

\* What is read of a LOGICAL field.
LEMMA LogicalReads ==
    ASSUME NEW f, f.type = 7, NEW s
    PROVE  /\ UnpackField(f, s) = Value("bool", <<IF s # <<>> /\ s[1] # 0 THEN 1 ELSE 0>>)
           /\ KeyValue(f, s) = Value("bool", <<IF s # <<>> /\ s[1] # 0 THEN 1 ELSE 0>>)
           /\ ImportField(f, s) = I64(<<IF s # <<>> /\ s[1] # 0 THEN 1 ELSE 0>>)
  <1>1. UnpackField(f, s) = Value("bool", <<IF s # <<>> /\ s[1] # 0 THEN 1 ELSE 0>>)
    BY DEF UnpackField
  <1>2. KeyValue(f, s) = Value("bool", <<IF s # <<>> /\ s[1] # 0 THEN 1 ELSE 0>>)
    BY <1>1 DEF KeyValue
  <1>3. ImportField(f, s) = I64(<<IF s # <<>> /\ s[1] # 0 THEN 1 ELSE 0>>)
    BY <1>1 DEF ImportField, Bound, Value
  <1>4. QED
    BY <1>1, <1>2, <1>3

\* LOGICAL.
LEMMA TypeLogical ==
    ASSUME NEW f, f.type = 7, f.length \in Nat, NEW s, NEW c
    PROVE  /\ UnpackField(f, s) = Value("bool", <<IF s # <<>> /\ s[1] # 0 THEN 1 ELSE 0>>)
           /\ KeyValue(f, s) = Value("bool", <<IF s # <<>> /\ s[1] # 0 THEN 1 ELSE 0>>)
           /\ ImportField(f, s) = I64(<<IF s # <<>> /\ s[1] # 0 THEN 1 ELSE 0>>)
           /\ PackField(f, c) = IF f.length = 0 THEN <<>> ELSE Fill(IF c = I64(<<1>>) THEN <<255>> ELSE <<>>, f.length, 0)
           /\ Settled(f, c) <=> (TRUE)
           /\ Canonical(f, s) <=> (s \in {<<0>>, <<255>>})
  <1>1. PackField(f, c) = IF f.length = 0 THEN <<>> ELSE Fill(IF c = I64(<<1>>) THEN <<255>> ELSE <<>>, f.length, 0)
    BY DEF PackField
  <1>2. (Settled(f, c) <=> (TRUE)) /\ (Canonical(f, s) <=> (s \in {<<0>>, <<255>>}))
    BY DEF Settled, Canonical
  <1>3. UnpackField(f, s) = Value("bool", <<IF s # <<>> /\ s[1] # 0 THEN 1 ELSE 0>>)
    BY LogicalReads, Zenon
  <1>4. KeyValue(f, s) = Value("bool", <<IF s # <<>> /\ s[1] # 0 THEN 1 ELSE 0>>)
    BY LogicalReads, Zenon
  <1>5. ImportField(f, s) = I64(<<IF s # <<>> /\ s[1] # 0 THEN 1 ELSE 0>>)
    BY LogicalReads, Zenon
  <1>6. QED
    BY <1>1, <1>2, <1>3, <1>4, <1>5

-----------------------------------------------------------------------------
(***************************************************************************)
(* Every value is one of these.                                            *)
(***************************************************************************)
Bytes(n) == [1..n -> Byte]

IsDate(v) == \E d \in 1..31 : \E m \in 1..12 : \E y \in Word \ {0} : v = Value("date", <<d, m, y>>)
IsTime(v) == \E h \in 0..99 : \E m \in 0..99 : \E n \in 0..99 : v = Value("time", <<h, m, n>>)

IsValue(v) ==
    \/ v = Null
    \/ \E t \in Seq(Word) : v = Text(t)
    \/ \E x \in Bytes(8) : v = Value("int", x) \/ v = Value("money", x)
    \/ \E x \in Seq(Byte) : v = Value("float", x)
    \/ \E b \in {0, 1} : v = Value("bool", <<b>>)
    \/ IsDate(v)
    \/ IsTime(v)

\* Words of one and of two bytes.
LEMMA WordFacts ==
    /\ Byte \subseteq Word
    /\ Replacement \in Word
    /\ \A a \in Byte, b \in Byte : a + 256 * b \in Word
  <1>1. \A a \in Byte, b \in Byte : a + 256 * b \in Word
    <2> TAKE a \in Byte, b \in Byte
    <2>1. a + 256 * b = 256 * b + a /\ b \in Nat /\ a \in 0..255
      BY DEF Byte
    <2>2. a + 256 * b \in Nat /\ (a + 256 * b) \div 256 = b
      BY <2>1, BytewiseUnique
    <2>3. QED
      BY <2>2 DEF Word
  <1>2. ASSUME NEW a \in Byte PROVE a \in Word
    <2>1. 0 \in Byte /\ a + 256 * 0 = a
      BY DEF Byte
    <2>2. QED
      BY <1>1, <2>1
  <1>3. Replacement \in Word
    <2>1. 253 \in Byte /\ 255 \in Byte /\ 253 + 256 * 255 = 255 * 256 + 253
      BY DEF Byte
    <2>2. 253 + 256 * 255 \in Word
      BY <1>1, <2>1
    <2>3. QED
      BY <2>1, <2>2 DEF Replacement
  <1>4. QED
    BY <1>1, <1>2, <1>3

\* Bytes are sequences, and the other way round.
LEMMA BytesAreSeqs ==
    ASSUME NEW n \in Nat, NEW s
    PROVE  s \in Bytes(n) <=> s \in Seq(Byte) /\ Len(s) = n
  BY DEF Bytes

\* Bytes padded or cut to a length.
LEMMA FillBytes ==
    ASSUME NEW s \in Seq(Byte), NEW n \in Nat, NEW b \in Byte
    PROVE  /\ Fill(s, n, b) \in Bytes(n) /\ Fill(s, n, b) \in Seq(Byte) /\ Len(Fill(s, n, b)) = n
           /\ \A k \in 1..n : Fill(s, n, b)[k] = IF k <= Len(s) THEN s[k] ELSE b
           /\ Len(s) = n => Fill(s, n, b) = s
  BY FillFacts DEF Bytes

\* The same, of the padded bytes as a sequence.
LEMMA FillSeq ==
    ASSUME NEW s \in Seq(Byte), NEW n \in Nat, NEW b \in Byte
    PROVE  /\ Fill(s, n, b) \in Seq(Byte) /\ Len(Fill(s, n, b)) = n
           /\ \A k \in 1..n : Fill(s, n, b)[k] = IF k <= Len(s) THEN s[k] ELSE b
           /\ Len(s) = n => Fill(s, n, b) = s
  BY FillBytes

\* x is s, padded with b or cut to length n.
Padded(x, s, n, b) ==
    /\ x \in Seq(Byte) /\ Len(x) = n
    /\ \A k \in 1..n : x[k] = IF k <= Len(s) THEN s[k] ELSE b

\* The same, under one name.
LEMMA FillPadded ==
    ASSUME NEW s \in Seq(Byte), NEW n \in Nat, NEW b \in Byte
    PROVE  Padded(Fill(s, n, b), s, n, b)
  BY FillSeq DEF Padded

\* An integer's bytes.
LEMMA I64Facts ==
    ASSUME NEW s \in Seq(Byte)
    PROVE  /\ Fill(s, 8, 0) \in Bytes(8) /\ Fill(s, 8, 255) \in Bytes(8)
           /\ I64(s) = Value("int", Fill(s, 8, 0))
  <1>1. 0 \in Byte /\ 255 \in Byte /\ 8 \in Nat
    BY DEF Byte
  <1>2. Fill(s, 8, 0) \in Bytes(8)
    BY <1>1, FillBytes
  <1>3. Fill(s, 8, 255) \in Bytes(8)
    <2>1. \A b \in Byte : Fill(s, 8, b) \in Bytes(8)
      BY <1>1, FillBytes
    <2>2. QED
      BY <1>1, <2>1
  <1>4. QED
    BY <1>2, <1>3 DEF I64

\* Whatever its width, an integer is eight bytes.
LEMMA IntIsValue ==
    ASSUME NEW s \in Seq(Byte)
    PROVE  \E x \in Bytes(8) : IntOf(s) = Value("int", x)
  <1>1. IntOf(s) \in {I64(s), Value("int", Fill(s, 8, 255)), I64(<<>>)}
    BY DEF IntOf
  <1>2. <<>> \in Seq(Byte)
    OBVIOUS
  <1>3. I64(<<>>) = Value("int", Fill(<<>>, 8, 0)) /\ Fill(<<>>, 8, 0) \in Bytes(8)
    BY <1>2, I64Facts
  <1>4. QED
    BY <1>1, <1>3, I64Facts

\* A text with its bytes outside ASCII replaced.
LEMMA LossyFacts ==
    ASSUME NEW s \in Seq(Byte)
    PROVE  /\ Lossy(s) \in Seq(Word) /\ Len(Lossy(s)) = Len(s)
           /\ \A k \in 1..Len(s) : Lossy(s)[k] = IF s[k] < 128 THEN s[k] ELSE Replacement
           /\ Ascii(s) => Lossy(s) = s
  <1>1. \A k \in 1..Len(s) : s[k] \in Byte
    OBVIOUS
  <1>2. Lossy(s) \in [1..Len(s) -> Word]
    BY <1>1, WordFacts DEF Lossy
  <1>3. Lossy(s) \in Seq(Word) /\ Len(Lossy(s)) = Len(s)
    BY <1>2
  <1>4. \A k \in 1..Len(s) : Lossy(s)[k] = IF s[k] < 128 THEN s[k] ELSE Replacement
    BY DEF Lossy
  <1>5. ASSUME Ascii(s) PROVE Lossy(s) = s
    <2>1. \A k \in 1..Len(s) : Lossy(s)[k] = s[k]
      BY <1>4, <1>5 DEF Ascii
    <2>2. QED
      BY <1>3, <2>1, SameSeq
  <1>6. QED
    BY <1>3, <1>4, <1>5

\* The parts of a valid date are in their ranges.
LEMMA DateIsValue ==
    ASSUME NEW s \in Seq(Byte), ValidDate(s)
    PROVE  /\ s[1] \in 1..31 /\ s[2] \in 1..12 /\ s[3] + 256 * s[4] \in Word \ {0}
           /\ s[3] \in Byte /\ s[4] \in Byte
  <1>1. Len(s) >= 4 /\ s[1] \in 1..31 /\ s[2] \in 1..12 /\ s[3] + 256 * s[4] > 0
    BY DEF ValidDate
  <1>2. s[3] \in Byte /\ s[4] \in Byte
    BY <1>1
  <1>3. QED
    BY <1>1, <1>2, WordFacts

\* A time is three numbers of two digits; too few bytes are midnight.
LEMMA TimeIsValue ==
    ASSUME NEW s \in Seq(Byte)
    PROVE  /\ \E h \in 0..99 : \E m \in 0..99 : \E n \in 0..99 : TimeOf(s) = Value("time", <<h, m, n>>)
           /\ Len(s) < 4 => TimeOf(s) = Value("time", <<0, 0, 0>>)
  <1> DEFINE t     == IF Len(s) < 4 THEN 0 ELSE Hhmmsscc(s)
             secs  == t \div 100
             mins  == secs \div 100
             hours == mins \div 100
  <1>1. t \in Nat
    <2>1. CASE Len(s) < 4
      BY <2>1
    <2>2. CASE ~ (Len(s) < 4)
      <3>1. \A k \in 1..4 : k \in 1..Len(s)
        BY <2>2
      <3>2. \A k \in 1..4 : s[k] \in Nat
        <4>1. \A k \in 1..Len(s) : s[k] \in Byte
          OBVIOUS
        <4>2. Byte \subseteq Nat
          BY DEF Byte
        <4>3. QED
          BY <3>1, <4>1, <4>2
      <3>3. s[1] \in Nat /\ s[2] \in Nat /\ s[3] \in Nat /\ s[4] \in Nat
        BY <3>2
      <3>4. s[3] + 256 * s[4] \in Nat
        BY <3>3
      <3>5. s[2] + 256 * (s[3] + 256 * s[4]) \in Nat
        BY <3>3, <3>4, SMTT(30)
      <3>6. Hhmmsscc(s) \in Nat
        <4> DEFINE a == s[1]
                   b == s[2] + 256 * (s[3] + 256 * s[4])
        <4>1. Hhmmsscc(s) = a + 256 * b
          BY DEF Hhmmsscc
        <4>2. a \in Nat /\ b \in Nat
          BY <3>3, <3>5
        <4> HIDE DEF a, b
        <4>3. a + 256 * b \in Nat
          BY <4>2
        <4>4. QED
          BY <4>1, <4>3
      <3>7. QED
        BY <2>2, <3>6
    <2>3. QED
      BY <2>1, <2>2
  <1>2. TimeOf(s) = Value("time", <<hours % 100, mins % 100, secs % 100>>)
    BY DEF TimeOf
  <1>3. Len(s) < 4 => t = 0
    OBVIOUS
  <1> HIDE DEF t
  <1>4. secs \in Nat /\ (t = 0 => secs = 0)
    BY <1>1, Hundredwise
  <1> HIDE DEF secs
  <1>5. mins \in Nat /\ secs % 100 \in 0..99 /\ (secs = 0 => mins = 0 /\ secs % 100 = 0)
    BY <1>4, Hundredwise
  <1> HIDE DEF mins
  <1>6. hours \in Nat /\ mins % 100 \in 0..99 /\ (mins = 0 => hours = 0 /\ mins % 100 = 0)
    BY <1>5, Hundredwise
  <1> HIDE DEF hours
  <1>7. hours % 100 \in 0..99 /\ (hours = 0 => hours % 100 = 0)
    BY <1>6, Hundredwise
  <1>8. \E h \in 0..99 : \E m \in 0..99 : \E n \in 0..99 : TimeOf(s) = Value("time", <<h, m, n>>)
    <2>1. hours % 100 \in 0..99 /\ mins % 100 \in 0..99 /\ secs % 100 \in 0..99
      BY <1>5, <1>6, <1>7
    <2> DEFINE hh == hours % 100
               mm == mins % 100
               ss == secs % 100
    <2>2. hh \in 0..99 /\ mm \in 0..99 /\ ss \in 0..99 /\ TimeOf(s) = Value("time", <<hh, mm, ss>>)
      BY <1>2, <2>1
    <2> HIDE DEF hh, mm, ss
    <2>3. QED
      BY <2>2, Zenon
  <1>9. ASSUME Len(s) < 4 PROVE TimeOf(s) = Value("time", <<0, 0, 0>>)
    <2>1. hours % 100 = 0 /\ mins % 100 = 0 /\ secs % 100 = 0
      BY <1>3, <1>4, <1>5, <1>6, <1>7, <1>9
    <2>2. QED
      BY <1>2, <2>1
  <1>10. QED
    BY <1>8, <1>9, Zenon

\* A default is a value.
LEMMA DefaultIsValue ==
    ASSUME NEW f, FieldOK(f)
    PROVE  /\ f.type \in Nat /\ f.offset \in Nat /\ f.length \in Nat
           /\ IsValue(f.default)
  <1>1. f.type \in Nat /\ f.offset \in Nat /\ f.length \in Nat
    BY DEF FieldOK
  <1>2. CASE f.default = Null
    BY <1>1, <1>2 DEF IsValue
  <1>3. CASE f.default # Null
    <2> DEFINE v == f.default
    <2>1. DefaultOK(f.type, v)
      BY <1>3 DEF FieldOK
    <2> HIDE DEF v
    <2>2. CASE f.type = 2
      <3>1. v.v \in [1..4 -> Byte] \cup [1..8 -> Byte] /\ FloatOr(v.v, Null) = v /\ v.kind = "float"
        BY <2>1, <2>2 DEF DefaultOK
      <3>2. v.v \in Seq(Byte)
        <4>1. 4 \in Nat /\ 8 \in Nat
          OBVIOUS
        <4>2. v.v \in Bytes(4) \/ v.v \in Bytes(8)
          BY <3>1 DEF Bytes
        <4>3. QED
          BY <4>1, <4>2, BytesAreSeqs
      <3>3. v = Value("float", v.v)
        BY <3>1 DEF FloatOr, Null, Value
      <3>4. QED
        BY <1>1, <3>2, <3>3, Zenon DEF IsValue, v
    <2>3. CASE f.type = 3
      <3>1. v.v \in (1..31) \X (1..12) \X (Word \ {0}) /\ v = Value("date", v.v)
        BY <2>1, <2>3 DEF DefaultOK
      <3>0. \E d \in 1..31 : \E m \in 1..12 : \E y \in Word \ {0} : v = Value("date", <<d, m, y>>)
        <4>1. v.v[1] \in 1..31 /\ v.v[2] \in 1..12 /\ v.v[3] \in Word \ {0} /\ v.v = <<v.v[1], v.v[2], v.v[3]>>
          BY <3>1
        <4>2. v = Value("date", <<v.v[1], v.v[2], v.v[3]>>)
          BY <3>1, <4>1
        <4>3. QED
          BY <4>1, <4>2
      <3>2. IsDate(v)
        BY <3>0, Zenon DEF IsDate
      <3>3. QED
        BY <1>1, <3>2, Zenon DEF IsValue, v
    <2>4. CASE f.type \notin {2, 3}
      <3>1. v.v \in Seq(Word) /\ v = Text(v.v)
        BY <2>1, <2>4 DEF DefaultOK
      <3>2. QED
        BY <1>1, <3>1, Zenon DEF IsValue, v
    <2>5. QED
      BY <2>2, <2>3, <2>4
  <1>4. QED
    BY <1>2, <1>3

\* The kinds of value.
LEMMA Kinds ==
    /\ \A t \in Seq(Word) : IsValue(Text(t))
    /\ \A t \in Seq(Byte) : IsValue(Text(t))
    /\ \A x \in Bytes(8) : IsValue(Value("int", x)) /\ IsValue(Value("money", x))
    /\ \A x \in Seq(Byte) : IsValue(Value("float", x))
    /\ IsValue(Null)
  <1>1. \A t \in Seq(Byte) : t \in Seq(Word)
    BY WordFacts, SeqMonotonic
  <1>2. QED
    BY <1>1, Zenon DEF IsValue

\* A value's kind says which one it is.
LEMMA KindIs ==
    ASSUME NEW c, IsValue(c)
    PROVE  /\ c.kind = "text" => \E t \in Seq(Word) : c = Text(t)
           /\ c.kind \in {"int", "money"} => \E x \in Bytes(8) : c = Value("int", x) \/ c = Value("money", x)
           /\ c.kind = "float" => \E x \in Seq(Byte) : c = Value("float", x)
           /\ c.kind = "bool" => \E b \in {0, 1} : c = Value("bool", <<b>>)
           /\ c.kind = "date" => IsDate(c)
           /\ c.kind = "time" => IsTime(c)
  <1>1. \A k, x : Value(k, x).kind = k
    BY DEF Value
  <1>2. Null.kind = "null" /\ \A t : Text(t).kind = "text"
    BY DEF Null, Text, Value
  <1>3. IsDate(c) => c.kind = "date"
    BY <1>1, Zenon DEF IsDate
  <1>4. IsTime(c) => c.kind = "time"
    BY <1>1, Zenon DEF IsTime
  <1>5. CASE c = Null
    BY <1>2, <1>5
  <1>6. CASE \E t \in Seq(Word) : c = Text(t)
    BY <1>2, <1>6
  <1>7. CASE \E x \in Bytes(8) : c = Value("int", x) \/ c = Value("money", x)
    BY <1>1, <1>7
  <1>8. CASE \E x \in Seq(Byte) : c = Value("float", x)
    BY <1>1, <1>8
  <1>9. CASE \E b \in {0, 1} : c = Value("bool", <<b>>)
    <2>1. PICK b \in {0, 1} : c = Value("bool", <<b>>)
      BY <1>9
    <2>2. c.kind = "bool"
      BY <1>1, <2>1
    <2>3. QED
      BY <1>9, <2>2
  <1>10. CASE IsDate(c) \/ IsTime(c)
    BY <1>3, <1>4, <1>10
  <1>11. QED
    BY <1>5, <1>6, <1>7, <1>8, <1>9, <1>10, Zenon DEF IsValue

\* What a field is read as is a value.
LEMMA UnpackIsValue ==
    ASSUME NEW f, FieldOK(f), NEW s \in Seq(Byte)
    PROVE  IsValue(UnpackField(f, s))
  <1>0. f.type \in Nat /\ f.length \in Nat /\ IsValue(f.default)
    BY DefaultIsValue
  <1>1. CASE f.type = 0
    <2>1. UnpackField(f, s) = Text(s)
      BY <1>1 DEF UnpackField
    <2>2. QED
      BY <2>1, Kinds
  <1>2. CASE f.type = 11
    <2>1. UnpackField(f, s) = Text(Lossy(UntilNul(s)))
      BY <1>2 DEF UnpackField
    <2>2. UntilNul(s) \in Seq(Byte)
      BY UntilNulFacts
    <2>3. QED
      BY <2>1, <2>2, LossyFacts, Kinds
  <1>3. CASE f.type \in {1, 14}
    <2>1. UnpackField(f, s) = IntOf(s)
      BY <1>3 DEF UnpackField
    <2>2. QED
      BY <2>1, IntIsValue, Kinds
  <1>4. CASE f.type = 2
    <2>1. UnpackField(f, s) = FloatOr(s, IF f.default = Null THEN FloatZero ELSE f.default)
      BY <1>4 DEF UnpackField
    <2>2. FloatOr(s, IF f.default = Null THEN FloatZero ELSE f.default)
            \in {f.default, Value("float", <<>>), Value("float", s)}
      BY DEF FloatOr, FloatZero
    <2>3. <<>> \in Seq(Byte)
      OBVIOUS
    <2>4. QED
      BY <1>0, <2>1, <2>2, <2>3, Kinds
  <1>5. CASE f.type = 6
    <2>1. UnpackField(f, s) = Value("money", Fill(s, 8, 0))
      BY <1>5 DEF UnpackField
    <2>2. QED
      BY <2>1, I64Facts, Kinds
  <1>6. CASE f.type = 7
    <2>1. UnpackField(f, s) \in {Value("bool", <<0>>), Value("bool", <<1>>)}
      BY <1>6 DEF UnpackField
    <2>2. QED
      BY <2>1, Zenon DEF IsValue
  <1>7. CASE f.type = 3
    <2>1. UnpackField(f, s) = DateOr(s, f.default)
      BY <1>7 DEF UnpackField
    <2>2. CASE ValidDate(s)
      <3>1. s[1] \in 1..31 /\ s[2] \in 1..12 /\ s[3] + 256 * s[4] \in Word \ {0}
        BY <2>2, DateIsValue
      <3>2. DateOr(s, f.default) = Value("date", <<s[1], s[2], s[3] + 256 * s[4]>>)
        BY <2>2 DEF DateOr
      <3> DEFINE a == s[1]
                 b == s[2]
                 y == s[3] + 256 * s[4]
      <3> HIDE DEF a, b, y
      <3>3. a \in 1..31 /\ b \in 1..12 /\ y \in Word \ {0} /\ UnpackField(f, s) = Value("date", <<a, b, y>>)
        BY <2>1, <3>1, <3>2 DEF a, b, y
      <3>4. IsDate(UnpackField(f, s))
        BY <3>3 DEF IsDate
      <3>5. QED
        BY <3>4, Zenon DEF IsValue
    <2>3. CASE ~ ValidDate(s)
      BY <1>0, <2>1, <2>3 DEF DateOr
    <2>4. QED
      BY <2>2, <2>3
  <1>8. CASE f.type = 4
    <2>1. UnpackField(f, s) = TimeOf(s)
      BY <1>8 DEF UnpackField
    <2>2. IsTime(TimeOf(s))
      BY TimeIsValue, Zenon DEF IsTime
    <2>3. QED
      BY <2>1, <2>2, Zenon DEF IsValue
  <1>9. CASE f.type = 5
    <2>1. UnpackField(f, s) = I64(s)
      BY <1>9 DEF UnpackField
    <2>2. QED
      BY <2>1, I64Facts, Kinds
  <1>10. CASE f.type \notin {0, 11, 1, 14, 2, 6, 7, 3, 4, 5}
    <2>1. UnpackField(f, s) = IF AllAre(s, 0) THEN f.default ELSE Text(TrimEnd(s))
      BY <1>10 DEF UnpackField
    <2>2. TrimEnd(s) \in Seq(Byte)
      BY TrimEndFacts
    <2>3. QED
      BY <1>0, <2>1, <2>2, Kinds
  <1>11. QED
    BY <1>1, <1>2, <1>3, <1>4, <1>5, <1>6, <1>7, <1>8, <1>9, <1>10

\* So is what is bound for it, and what is fetched.
LEMMA BoundIsValue ==
    ASSUME NEW v, IsValue(v)
    PROVE  IsValue(Bound(v)) /\ IsValue(Fetched(v))
  <1>1. IsValue(Fetched(v))
    <2>1. <<>> \in Seq(Byte)
      OBVIOUS
    <2>2. QED
      BY <2>1, Kinds DEF Fetched
  <1>2. CASE v.kind # "bool"
    BY <1>1, <1>2 DEF Bound
  <1>3. CASE v.kind = "bool"
    <2>1. PICK b \in {0, 1} : v = Value("bool", <<b>>)
      BY <1>3, KindIs
    <2>2. <<b>> \in Seq(Byte) /\ v.v = <<b>>
      BY <2>1 DEF Byte, Value
    <2>3. IsValue(I64(v.v))
      BY <2>2, I64Facts, Kinds
    <2>4. QED
      BY <1>1, <1>3, <2>3 DEF Bound
  <1>4. QED
    BY <1>2, <1>3

\* And what the import makes of it.
LEMMA ImportIsValue ==
    ASSUME NEW f, FieldOK(f), NEW s \in Seq(Byte)
    PROVE  IsValue(ImportField(f, s))
  <1>0. <<>> \in Seq(Byte) /\ f.type \in Nat
    BY DEF FieldOK
  <1>1. CASE f.type \in {0, 10, 11, 12}
    <2>1. ImportField(f, s) = Text(TrimEnd(ImportText(f, s)))
      BY <1>1 DEF ImportField
    <2>2. \A t \in Seq(Byte) : t \in Seq(Word)
      BY WordFacts, SeqMonotonic
    <2>3. ImportText(f, s) \in Seq(Word)
      <3>1. CASE f.type = 10 /\ s = <<>>
        <4>1. ImportText(f, s) = <<>>
          BY <3>1 DEF ImportText
        <4>2. QED
          BY <4>1
      <3>2. CASE f.type = 10 /\ s # <<>>
        <4> DEFINE n == Min({Len(s), 1 + s[1]})
        <4>1. Len(s) \in Nat \ {0} /\ 1 + s[1] \in Nat
          <5>1. Len(s) \in Nat \ {0} /\ 1 \in 1..Len(s)
            BY <3>2
          <5>2. s[1] \in Byte
            BY <5>1
          <5>3. s[1] \in Nat
            <6>1. Byte \subseteq Nat
              BY DEF Byte
            <6>2. QED
              BY <5>2, <6>1
          <5> DEFINE b == s[1]
          <5>4. b \in Nat
            BY <5>3
          <5> HIDE DEF b
          <5>5. 1 + b \in Nat
            BY <5>4
          <5>6. QED
            BY <5>1, <5>5 DEF b
        <4>2. n \in {Len(s), 1 + s[1]} /\ n <= Len(s)
          <5>1. {Len(s), 1 + s[1]} \in SUBSET Nat /\ {Len(s), 1 + s[1]} # {}
            BY <4>1
          <5>2. PICK m \in {Len(s), 1 + s[1]} : \A k \in {Len(s), 1 + s[1]} : m <= k
            BY <5>1, LeastExists
          <5>3. QED
            BY <5>2 DEF Min
        <4> HIDE DEF n
        <4>3. n \in 0..Len(s)
          BY <4>1, <4>2
        <4>4. SubSeq(s, 2, n) \in Seq(Byte)
          BY <4>1, <4>3
        <4>5. ImportText(f, s) = Lossy(SubSeq(s, 2, n))
          BY <3>2 DEF ImportText, n
        <4>6. QED
          BY <4>4, <4>5, LossyFacts
      <3>3. CASE f.type \in {11, 12}
        <4>1. ImportText(f, s) = Lossy(UntilNul(s))
          BY <3>3 DEF ImportText
        <4>2. UntilNul(s) \in Seq(Byte)
          BY UntilNulFacts
        <4>3. QED
          BY <4>1, <4>2, LossyFacts
      <3>4. CASE f.type = 0
        <4>1. ImportText(f, s) = s
          BY <3>4 DEF ImportText
        <4>2. QED
          BY <2>2, <4>1
      <3>5. QED
        BY <1>1, <3>1, <3>2, <3>3, <3>4
    <2>4. QED
      BY <2>1, <2>3, TrimEndFacts, Kinds
  <1>2. CASE f.type = 15
    <2>1. ImportField(f, s) = IntOf(s)
      BY <1>2 DEF ImportField
    <2>2. QED
      BY <2>1, IntIsValue, Kinds
  <1>3. CASE f.type \notin {0, 10, 11, 12, 15}
    <2>1. ImportField(f, s) \in {UnpackField(f, <<>>), Bound(UnpackField(f, s)), UnpackField(f, s)}
      BY <1>3 DEF ImportField
    <2>2. QED
      BY <1>0, <2>1, UnpackIsValue, BoundIsValue
  <1>4. QED
    BY <1>1, <1>2, <1>3

DateDigits(d, m, y) ==
    /\ DateBytes(d, m, y) \in Seq(Byte) /\ Len(DateBytes(d, m, y)) = 4
    /\ y < 10000 => DateBytes(d, m, y) = <<d, m, y % 256, y \div 256>>
    /\ y \in Nat \ {0} /\ y % 256 \in Byte /\ y \div 256 \in Byte /\ y = (y % 256) + 256 * (y \div 256)

\* Dates are packed into bytes; one of a year below 10000 is what its bytes say.
LEMMA DatePacked ==
    ASSUME NEW d \in 1..31, NEW m \in 1..12, NEW y \in Word \ {0}
    PROVE  DateDigits(d, m, y)
  <1>1. y \in Nat \ {0} /\ y \div 256 \in 0..255 /\ y % 256 \in 0..255 /\ y = 256 * (y \div 256) + (y % 256)
    BY Bytewise DEF Word, Byte
  <1>2. y % 256 \in Byte /\ y \div 256 \in Byte /\ y = (y % 256) + 256 * (y \div 256)
    <2> DEFINE a == y % 256
               b == y \div 256
    <2>1. y \in Nat /\ a \in 0..255 /\ b \in 0..255 /\ y = 256 * b + a
      BY <1>1
    <2> HIDE DEF a, b
    <2>2. a \in Byte /\ b \in Byte /\ y = a + 256 * b
      BY <2>1 DEF Byte
    <2>3. QED
      BY <2>2 DEF a, b
  <1>3. CASE y < 10000
    <2>1. DateBytes(d, m, y) = <<d, m, y % 256, y \div 256>>
      BY <1>3 DEF DateBytes
    <2>2. d \in Byte /\ m \in Byte
      BY DEF Byte
    <2>3. QED
      BY <1>1, <1>2, <1>3, <2>1, <2>2 DEF DateDigits
  <1>4. CASE ~ (y < 10000)
    <2> DEFINE yyyy == y \div 10
               mm == (y % 10) * 10 + m \div 10
               dd == (m % 10) * 10 + d \div 10
    <2>1. DateBytes(d, m, y) = <<dd, mm, yyyy % 256, yyyy \div 256>>
      BY <1>4 DEF DateBytes
    <2>2. \A x \in Nat : x \div 10 \in Nat /\ x % 10 \in 0..9 /\ x = 10 * (x \div 10) + (x % 10)
      <3>1. 10 \in Nat \ {0} /\ 10 - 1 = 9
        OBVIOUS
      <3>2. QED
        BY <3>1, Division
    <2>3. m % 10 \in 0..9 /\ m \div 10 \in 0..12 /\ d \div 10 \in 0..31
      BY <2>2
    <2>4. mm \in Byte /\ dd \in Byte
      <3>1. y % 10 \in 0..9
        BY <1>1, <2>2
      <3>2. QED
        BY <2>3, <3>1 DEF Byte
    <2>5. yyyy \in Nat /\ yyyy <= y
      BY <1>1, <2>2
    <2> HIDE DEF yyyy
    <2>6. yyyy % 256 \in Byte
      BY <2>5, Bytewise DEF Byte
    <2>7. yyyy \div 256 \in Byte
      <3>1. y < 256 * 256
        BY <1>1
      <3>2. 256 \in Nat \ {0} /\ 256 \in Nat /\ yyyy < 256 * 256
        BY <1>1, <2>5, <3>1
      <3>3. yyyy \div 256 < 256
        BY <2>5, <3>2, QuotientBound
      <3>4. yyyy \div 256 \in Nat
        BY <2>5, Bytewise
      <3>5. QED
        BY <3>3, <3>4 DEF Byte
    <2> HIDE DEF mm, dd
    <2>8. QED
      BY <1>1, <1>2, <1>4, <2>1, <2>4, <2>6, <2>7 DEF DateDigits
  <1>5. QED
    BY <1>3, <1>4 DEF DateDigits

\* What a value is packed into are as many bytes as its field has.
LEMMA PackIsBytes ==
    ASSUME NEW f, f.length \in Nat, f.type \in Nat, NEW c, IsValue(c)
    PROVE  PackField(f, c) \in Bytes(f.length)
  <1> DEFINE n == f.length
             text == IF c.kind = "text" THEN Utf8(c.v) ELSE <<>>
  <1>0. /\ 0 \in Byte /\ 32 \in Byte /\ 255 \in Byte /\ <<>> \in Seq(Byte) /\ <<0>> \in Seq(Byte)
        /\ <<255>> \in Seq(Byte)
    BY DEF Byte
  <1>a. ASSUME NEW s \in Seq(Byte), NEW m \in Nat, NEW b \in Byte
        PROVE  Fill(s, m, b) \in Bytes(m)
    BY FillBytes
  <1>b. text \in Seq(Byte)
    <2>1. CASE c.kind = "text"
      <3>1. PICK t \in Seq(Word) : c = Text(t)
        BY <2>1, KindIs
      <3>2. c.v = t
        BY <3>1 DEF Text, Value
      <3>3. QED
        BY <2>1, <3>2, Utf8Facts
    <2>2. QED
      BY <1>0, <2>1
  <1> HIDE DEF text
  <1>c. c.kind \in {"int", "money"} => c.v \in Bytes(8) /\ c.v \in Seq(Byte)
    <2>1. 8 \in Nat
      OBVIOUS
    <2> SUFFICES ASSUME c.kind \in {"int", "money"} PROVE c.v \in Bytes(8)
      BY <2>1, BytesAreSeqs
    <2>3. PICK x \in Bytes(8) : c \in {Value("int", x), Value("money", x)}
      BY KindIs
    <2>4. QED
      BY <2>3 DEF Value
  <1>d. c.kind = "float" => c.v \in Seq(Byte)
    <2> SUFFICES ASSUME c.kind = "float" PROVE c.v \in Seq(Byte)
      OBVIOUS
    <2>3. PICK x \in Seq(Byte) : c = Value("float", x)
      BY KindIs
    <2>4. QED
      BY <2>3 DEF Value
  <1>e. c.kind = "date" => DateBytes(c.v[1], c.v[2], c.v[3]) \in Seq(Byte)
    <2> SUFFICES ASSUME c.kind = "date" PROVE DateBytes(c.v[1], c.v[2], c.v[3]) \in Seq(Byte)
      OBVIOUS
    <2>2. IsDate(c)
      BY KindIs
    <2>3. PICK d \in 1..31, m \in 1..12, y \in Word \ {0} : c = Value("date", <<d, m, y>>)
      BY <2>2, Zenon DEF IsDate
    <2>4. c.v[1] = d /\ c.v[2] = m /\ c.v[3] = y
      BY <2>3 DEF Value
    <2>5. DateBytes(d, m, y) \in Seq(Byte)
      <3>1. DateDigits(d, m, y)
        BY DatePacked
      <3>2. QED
        BY <3>1 DEF DateDigits
    <2>6. QED
      BY <2>4, <2>5
  <1>f. c.kind = "time" => TimeBytes(c.v[1], c.v[2], c.v[3]) \in Seq(Byte)
    <2> SUFFICES ASSUME c.kind = "time" PROVE TimeBytes(c.v[1], c.v[2], c.v[3]) \in Seq(Byte)
      OBVIOUS
    <2>2. IsTime(c)
      BY KindIs
    <2>3. PICK h \in 0..99, m \in 0..99, k \in 0..99 : c = Value("time", <<h, m, k>>)
      BY <2>2, Zenon DEF IsTime
    <2>4. c.v[1] = h /\ c.v[2] = m /\ c.v[3] = k
      BY <2>3 DEF Value
    <2>5. TimeBytes(h, m, k) \in Bytes(4) /\ 4 \in Nat
      BY TimeIsItsBytes, Zenon DEF Bytes
    <2>6. QED
      BY <2>4, <2>5, BytesAreSeqs
  <1>1. CASE n = 0
    <2>1. PackField(f, c) = <<>>
      BY <1>1 DEF PackField
    <2>2. QED
      BY <1>0, <1>1, <2>1 DEF Bytes
  <1>2. CASE n > 0 /\ f.type = 10
    <2>1. CASE n < 2
      <3>1. PackField(f, c) = Fill(<<>>, n, 0)
        BY <1>2, <2>1 DEF PackField
      <3>2. Fill(<<>>, n, 0) \in Bytes(n)
        BY <1>0, FillBytes, Zenon
      <3>3. QED
        BY <3>1, <3>2, Zenon
    <2>2. CASE ~ (n < 2)
      <3> DEFINE b == Min({Len(text), n - 1}) % 256
                 t == Fill(text, n - 1, 32)
      <3>1. PackField(f, c) = <<b>> \o t
        BY <1>2, <2>2 DEF PackField, text
      <3>2. n - 1 \in Nat /\ Len(text) \in Nat
        BY <1>b, <2>2
      <3>3. Min({Len(text), n - 1}) \in Nat
        <4>1. {Len(text), n - 1} \in SUBSET Nat /\ {Len(text), n - 1} # {}
          BY <3>2
        <4>2. PICK m \in {Len(text), n - 1} : \A k \in {Len(text), n - 1} : m <= k
          BY <4>1, LeastExists
        <4>3. QED
          BY <3>2, <4>2 DEF Min
      <3>4. b \in 0..255
        BY <3>3, Bytewise
      <3>5. t \in Seq(Byte) /\ Len(t) = n - 1
        <4> DEFINE p == n - 1
        <4>1. p \in Nat
          BY <3>2
        <4> HIDE DEF p
        <4>2. Fill(text, p, 32) \in Bytes(p)
          BY <1>0, <1>a, <1>b, <4>1
        <4>3. QED
          BY <4>1, <4>2, BytesAreSeqs DEF p
      <3> HIDE DEF b, t
      <3>6. <<b>> \in Seq(Byte) /\ Len(<<b>>) = 1
        BY <3>4 DEF Byte
      <3>7. <<b>> \o t \in Seq(Byte) /\ Len(<<b>> \o t) = n
        BY <3>2, <3>5, <3>6, ConcatParts
      <3>8. QED
        BY <3>1, <3>7, BytesAreSeqs
    <2>3. QED
      BY <2>1, <2>2
  <1>3. CASE n > 0 /\ f.type \in {11, 12}
    <2> DEFINE t == Fill(text, n - 1, 0)
    <2>1. PackField(f, c) = t \o <<0>>
      BY <1>3, SMTT(30) DEF PackField, text
    <2>2. n - 1 \in Nat
      BY <1>3
    <2>3. t \in Seq(Byte) /\ Len(t) = n - 1
      <3> DEFINE m == n - 1
      <3>1. m \in Nat /\ 0 \in Byte
        BY <1>0, <2>2
      <3> HIDE DEF m
      <3>2. Padded(Fill(text, m, 0), text, m, 0)
        BY <1>b, <3>1, FillPadded
      <3>3. QED
        BY <3>2 DEF Padded, m
    <2> HIDE DEF t
    <2>4. Len(<<0>>) = 1
      OBVIOUS
    <2>5. t \o <<0>> \in Seq(Byte) /\ Len(t \o <<0>>) = n
      BY <1>0, <2>2, <2>3, <2>4, ConcatParts
    <2>6. QED
      BY <2>1, <2>5, BytesAreSeqs
  <1>4. CASE n > 0 /\ f.type \in {1, 5, 14, 15}
    <2> DEFINE x == IF c.kind = "int" THEN c.v ELSE <<>>
    <2>1. PackField(f, c) = Fill(x, n, 0)
      BY <1>4 DEF PackField
    <2>2. x \in Seq(Byte)
      BY <1>0, <1>c
    <2> HIDE DEF x
    <2>3. n \in Nat /\ 0 \in Byte
      BY <1>0
    <2>4. Fill(x, n, 0) \in Bytes(n)
      BY <2>2, <2>3, FillBytes
    <2>5. QED
      BY <2>1, <2>4
  <1>5. CASE n > 0 /\ f.type = 2
    <2>1. PackField(f, c) = Fill(IF c.kind = "float" /\ n \in {4, 8} THEN c.v ELSE <<>>, n, 0)
      BY <1>5 DEF PackField
    <2> DEFINE u == IF c.kind = "float" /\ n \in {4, 8} THEN c.v ELSE <<>>
    <2>6. PackField(f, c) = Fill(u, n, 0)
      BY <2>1
    <2>7. u \in Seq(Byte)
      BY <1>0, <1>d
    <2> HIDE DEF u
    <2>8. QED
      BY <1>0, <1>a, <2>6, <2>7
  <1>6. CASE n > 0 /\ f.type = 6
    <2>1. PackField(f, c) = Fill(IF c.kind = "money" THEN MoneyUnits(c.v) ELSE <<>>, n, 0)
      BY <1>6 DEF PackField
    <2>2. ASSUME c.v \in Bytes(8) PROVE MoneyUnits(c.v) \in Bytes(8)
      <3>1. \A i \in Inexact : i - 1 \in Byte
        BY DEF Inexact, Byte
      <3>2. QED
        BY <2>2, <3>1 DEF MoneyUnits, Bytes
    <2>3. 8 \in Nat
      OBVIOUS
    <2>4. c.kind = "money" => MoneyUnits(c.v) \in Seq(Byte)
      BY <1>c, <2>2, <2>3, BytesAreSeqs
    <2> DEFINE u == IF c.kind = "money" THEN MoneyUnits(c.v) ELSE <<>>
    <2>6. PackField(f, c) = Fill(u, n, 0)
      BY <2>1
    <2>7. u \in Seq(Byte)
      BY <1>0, <2>4
    <2> HIDE DEF u
    <2>8. QED
      BY <1>0, <1>a, <2>6, <2>7
  <1>7. CASE n > 0 /\ f.type = 7
    <2> DEFINE x == IF c = I64(<<1>>) THEN <<255>> ELSE <<>>
    <2>1. PackField(f, c) = Fill(x, n, 0)
      BY <1>7 DEF PackField
    <2>2. x \in Seq(Byte)
      BY <1>0
    <2> HIDE DEF x
    <2>3. n \in Nat /\ 0 \in Byte
      BY <1>0
    <2>4. Fill(x, n, 0) \in Bytes(n)
      BY <2>2, <2>3, FillBytes
    <2>5. QED
      BY <2>1, <2>4
  <1>8. CASE n > 0 /\ f.type = 3
    <2>1. PackField(f, c) = Fill(IF c.kind = "date" /\ n >= 4 THEN DateBytes(c.v[1], c.v[2], c.v[3]) ELSE <<>>, n, 0)
      BY <1>8 DEF PackField
    <2> DEFINE u == IF c.kind = "date" /\ n >= 4 THEN DateBytes(c.v[1], c.v[2], c.v[3]) ELSE <<>>
    <2>6. PackField(f, c) = Fill(u, n, 0)
      BY <2>1
    <2>7. u \in Seq(Byte)
      BY <1>0, <1>e
    <2> HIDE DEF u
    <2>8. QED
      BY <1>0, <1>a, <2>6, <2>7
  <1>9. CASE n > 0 /\ f.type = 4
    <2>1. PackField(f, c) = Fill(IF c.kind = "time" /\ n >= 4 THEN TimeBytes(c.v[1], c.v[2], c.v[3]) ELSE <<>>, n, 0)
      BY <1>9 DEF PackField
    <2> DEFINE u == IF c.kind = "time" /\ n >= 4 THEN TimeBytes(c.v[1], c.v[2], c.v[3]) ELSE <<>>
    <2>6. PackField(f, c) = Fill(u, n, 0)
      BY <2>1
    <2>7. u \in Seq(Byte)
      BY <1>0, <1>f
    <2> HIDE DEF u
    <2>8. QED
      BY <1>0, <1>a, <2>6, <2>7
  <1>10. CASE n > 0 /\ f.type \notin {10, 11, 12, 1, 5, 14, 15, 2, 6, 7, 3, 4}
    <2>1. PackField(f, c) = Fill(text, n, 32)
      BY <1>10 DEF PackField, text
    <2>2. QED
      BY <1>0, <1>a, <1>b, <2>1
  <1>11. QED
    BY <1>1, <1>2, <1>3, <1>4, <1>5, <1>6, <1>7, <1>8, <1>9, <1>10

-----------------------------------------------------------------------------
(***************************************************************************)
(* A column that was stored from a record, whichever decoder read it, is   *)
(* packed into bytes it is read back from.                                 *)
(***************************************************************************)
Stored(f, v) ==
    \E s \in Seq(Byte) :
        Len(s) \in {0, f.length} /\ v \in {Bound(UnpackField(f, s)), ImportField(f, s)}

\* What is packed for a column is read, and searched for, as the column.
Comes(f, v) ==
    LET s == PackField(f, Fetched(v))
    IN  /\ Bound(UnpackField(f, s)) = v
        /\ Searchable(f, v) => Bound(KeyValue(f, s)) = v

\* A text is no other kind of value.
LEMMA TextFacts ==
    ASSUME NEW t
    PROVE  Text(t).kind = "text" /\ Text(t).v = t /\ Text(t) # Null /\ Bound(Text(t)) = Text(t) /\ Fetched(Text(t)) = Text(t)
  BY DEF Text, Value, Null, Bound, Fetched

\* STRING: the characters, when all are ASCII and fill the field.
LEMMA StringTrip ==
    ASSUME NEW f, FieldOK(f), f.type = 0, NEW v, Stored(f, v), Settled(f, v)
    PROVE  Comes(f, v)
  <1> DEFINE n == f.length
             s == PackField(f, Fetched(v))
  <1>1. n \in Nat
    BY DefaultIsValue
  <1>2. PICK t \in Seq(Byte) : v = Text(t)
    <2>1. PICK z \in Seq(Byte) : v \in {Bound(UnpackField(f, z)), ImportField(f, z)}
      BY DEF Stored
    <2>2. UnpackField(f, z) = Text(z) /\ ImportField(f, z) = Text(TrimEnd(z))
      BY <1>1, TypeString
    <2>3. v \in {Text(z), Text(TrimEnd(z))}
      BY <2>1, <2>2, TextFacts
    <2>4. QED
      BY <2>3, TrimEndFacts
  <1>3. Ascii(t) /\ Len(t) = n
    BY <1>1, <1>2, TypeString, TextFacts
  <1>4. Utf8(t) = t
    <2>1. t \in Seq(Word)
      BY WordFacts, SeqMonotonic
    <2>2. QED
      BY <1>3, <2>1, Utf8Facts
  <1>5. s = t
    <2>1. Fetched(v) = v /\ v.kind = "text" /\ v.v = t
      BY <1>2, TextFacts
    <2>2. PackField(f, v) = IF n = 0 THEN <<>> ELSE Fill(t, n, 32)
      BY <1>1, <1>4, <2>1, TypeString
    <2>3. n = 0 => t = <<>>
      BY <1>3, EmptySeq
    <2>4. 32 \in Byte
      BY DEF Byte
    <2>5. Fill(t, n, 32) = t
      <3>1. t \in Seq(Byte) /\ n \in Nat /\ Len(t) = n
        BY <1>1, <1>3
      <3> DEFINE x == Fill(t, n, 32)
      <3>2. Padded(x, t, n, 32)
        BY <2>4, <3>1, FillPadded
      <3> HIDE DEF x
      <3>3. x \in Seq(Byte) /\ Len(x) = n /\ \A k \in 1 .. Len(x) : x[k] = t[k]
        BY <3>1, <3>2 DEF Padded
      <3>4. x = t
        BY <3>1, <3>3, SameSeq
      <3>5. QED
        BY <3>4 DEF x
    <2>6. QED
      BY <2>1, <2>2, <2>3, <2>5
  <1>6. UnpackField(f, t) = Text(t) /\ KeyValue(f, t) = Text(UntilNul(t))
    BY <1>1, TypeString
  <1>7. Searchable(f, v) => UntilNul(t) = t
    <2> SUFFICES ASSUME Searchable(f, v) PROVE UntilNul(t) = t
      OBVIOUS
    <2>1. \A k \in 1..Len(t) : t[k] # 0
      BY <1>2, TextFacts DEF Searchable
    <2>2. Len(t) \in Nat
      OBVIOUS
    <2>3. QED
      BY <2>1, <2>2, UntilNulIs
  <1>8. QED
    BY <1>2, <1>5, <1>6, <1>7, TextFacts DEF Comes

\* ZSTRING: the characters before the NUL.
LEMMA ZstringTrip ==
    ASSUME NEW f, FieldOK(f), f.type = 11, NEW v, Stored(f, v), Settled(f, v)
    PROVE  Comes(f, v)
  <1> DEFINE n == f.length
             s == PackField(f, Fetched(v))
  <1>1. n \in Nat
    BY DefaultIsValue
  <1>2. PICK t \in Seq(Word) : v = Text(t) /\ \A k \in 1..Len(t) : t[k] # 0
    <2>1. PICK z \in Seq(Byte) : v \in {Bound(UnpackField(f, z)), ImportField(f, z)}
      BY DEF Stored
    <2> DEFINE u == UntilNul(z)
               l == Lossy(u)
    <2>2. UnpackField(f, z) = Text(l) /\ ImportField(f, z) = Text(TrimEnd(l))
      BY <1>1, TypeZstring
    <2>3. v \in {Text(l), Text(TrimEnd(l))}
      BY <2>1, <2>2, TextFacts
    <2>4. u \in Seq(Byte) /\ \A k \in 1..Len(u) : u[k] # 0
      BY UntilNulFacts
    <2>5. l \in Seq(Word) /\ \A k \in 1..Len(l) : l[k] # 0
      <3> HIDE DEF u
      <3>1. Replacement # 0
        BY DEF Replacement
      <3>2. QED
        BY <2>4, <3>1, LossyFacts
    <2> HIDE DEF l
    <2>6. TrimEnd(l) \in Seq(Word) /\ \A k \in 1..Len(TrimEnd(l)) : TrimEnd(l)[k] # 0
      BY <2>5, TrimEndFacts
    <2>7. QED
      BY <2>3, <2>5, <2>6
  <1>3. Ascii(t) /\ Len(t) < n
    <2>1. Settled(f, v) <=> (v.kind = "text" /\ Ascii(v.v) /\ Len(v.v) < n)
      BY <1>1, TypeZstring
    <2>2. QED
      BY <1>2, <2>1, TextFacts
  <1>4. Utf8(t) = t
    BY <1>3, Utf8Facts
  <1>5. t \in Seq(Byte) /\ Lossy(t) = t
    <2>1. t \in Seq(Byte)
      BY <1>3, <1>4, Utf8Facts
    <2>2. QED
      BY <1>3, <2>1, LossyFacts
  <1> DEFINE p == Fill(t, n - 1, 0)
  <1>6. s = p \o <<0>>
    <2>1. Fetched(v) = v /\ v.kind = "text" /\ v.v = t
      BY <1>2, TextFacts
    <2>2. PackField(f, v) = IF n = 0 THEN <<>> ELSE p \o <<0>>
      <3>1. PackField(f, v) = IF n = 0 THEN <<>>
                              ELSE Fill(IF v.kind = "text" THEN Utf8(v.v) ELSE <<>>, n - 1, 0) \o <<0>>
        BY <1>1, TypeZstring
      <3>2. QED
        BY <1>4, <2>1, <3>1
    <2>3. n # 0
      BY <1>1, <1>3
    <2>4. QED
      BY <2>1, <2>2, <2>3
  <1>7. /\ p \in Seq(Byte) /\ Len(p) = n - 1 /\ n - 1 \in Nat
        /\ \A k \in 1..n-1 : p[k] = IF k <= Len(t) THEN t[k] ELSE 0
    <2> DEFINE m == n - 1
    <2>1. m \in Nat /\ 0 \in Byte
      BY <1>1, <1>3 DEF Byte
    <2> HIDE DEF m
    <2>2. /\ Fill(t, m, 0) \in Seq(Byte) /\ Len(Fill(t, m, 0)) = m
          /\ \A k \in 1..m : Fill(t, m, 0)[k] = IF k <= Len(t) THEN t[k] ELSE 0
      BY <1>5, <2>1, FillBytes
    <2>3. QED
      BY <2>1, <2>2 DEF m
  <1> HIDE DEF p
  <1> DEFINE r == p \o <<0>>
  <1>8. /\ r \in Seq(Byte) /\ Len(r) = n
        /\ \A k \in 1..n-1 : r[k] = p[k]
        /\ r[n] = 0
    <2> DEFINE q == <<0>>
    <2>1. q \in Seq(Byte) /\ Len(q) = 1 /\ q[1] = 0
      BY DEF Byte
    <2> HIDE DEF q
    <2>2. /\ p \o q \in Seq(Byte) /\ Len(p \o q) = Len(p) + Len(q)
          /\ \A i \in 1 .. Len(p) + Len(q) : (p \o q)[i] = IF i <= Len(p) THEN p[i] ELSE q[i - Len(p)]
      BY <1>7, <2>1, ConcatProperties
    <2>3. Len(p \o q) = n /\ (p \o q)[n] = 0
      <3>1. n \in 1 .. Len(p) + Len(q) /\ ~ (n <= Len(p)) /\ n - Len(p) = 1 /\ Len(p) + Len(q) = n
        <4>1. n \in Nat /\ n - 1 \in Nat /\ Len(p) = n - 1 /\ Len(q) = 1
          BY <1>1, <1>7, <2>1
        <4> HIDE DEF n
        <4>2. QED
          BY <4>1
      <3>2. QED
        BY <2>1, <2>2, <3>1
    <2>4. \A k \in 1..n-1 : (p \o q)[k] = p[k]
      <3>1. \A k \in 1..n-1 : k \in 1 .. Len(p) + Len(q) /\ k <= Len(p)
        BY <1>1, <1>7, <2>1
      <3>2. QED
        BY <2>2, <3>1
    <2>5. QED
      BY <2>2, <2>3, <2>4 DEF q
  <1> HIDE DEF r
  <1>9. UntilNul(r) = t
    <2>1. \A k \in 1..Len(t) : t[k] = r[k] /\ r[k] # 0
      BY <1>2, <1>3, <1>7, <1>8, SMTT(30)
    <2>2. Len(t) \in Nat /\ Len(t) <= Len(r)
      BY <1>3, <1>7, <1>8
    <2>3. r[Len(t) + 1] = 0
      <3>1. CASE Len(t) = n - 1
        BY <1>7, <1>8, <3>1
      <3>2. CASE Len(t) # n - 1
        <4>1. Len(t) + 1 \in 1..n-1 /\ ~ (Len(t) + 1 <= Len(t))
          BY <1>1, <1>3, <1>7, <2>2, <3>2
        <4>2. QED
          BY <1>7, <1>8, <4>1
      <3>3. QED
        BY <3>1, <3>2
    <2>4. QED
      BY <1>8, <2>1, <2>2, <2>3, UntilNulIs
  <1>10. UnpackField(f, r) = Text(t) /\ KeyValue(f, r) = Text(t)
    BY <1>1, <1>5, <1>9, TypeZstring
  <1>11. s = r
    BY <1>6 DEF r
  <1>12. QED
    BY <1>2, <1>10, <1>11, TextFacts DEF Comes

\* An integer is no boolean and no NULL.
LEMMA IntFacts ==
    ASSUME NEW x
    PROVE  LET v == Value("int", x)
           IN  v.kind = "int" /\ v.v = x /\ v # Null /\ Bound(v) = v /\ Fetched(v) = v
  BY DEF Value, Null, Bound, Fetched

\* Widening an integer keeps its bytes.
LEMMA IntOfWhole ==
    ASSUME NEW s \in Seq(Byte), NEW n, n \in {1, 2, 4, 8}, Len(s) = n
    PROVE  \E x \in Bytes(8) : IntOf(s) = Value("int", x) /\ Fill(x, n, 0) = s
  <1>1. n \in Nat /\ n \in 1..8 /\ 0 \in Byte /\ 255 \in Byte /\ 8 \in Nat
    BY DEF Byte
  <1>2. ASSUME NEW b \in Byte PROVE Fill(s, 8, b) \in Bytes(8) /\ Fill(Fill(s, 8, b), n, 0) = s
    <2> DEFINE x == Fill(s, 8, b)
    <2>0. x \in Bytes(8)
      BY <1>1, FillBytes
    <2>1. x \in Seq(Byte) /\ Len(x) = 8 /\ \A k \in 1..8 : x[k] = IF k <= Len(s) THEN s[k] ELSE b
      <3>1. Padded(x, s, 8, b)
        BY <1>1, FillPadded
      <3>2. QED
        BY <3>1 DEF Padded
    <2> HIDE DEF x
    <2>2. /\ Fill(x, n, 0) \in Seq(Byte) /\ Len(Fill(x, n, 0)) = n
          /\ \A k \in 1..n : Fill(x, n, 0)[k] = IF k <= Len(x) THEN x[k] ELSE 0
      <3>1. Padded(Fill(x, n, 0), x, n, 0)
        BY <1>1, <2>1, FillPadded
      <3>2. QED
        BY <3>1 DEF Padded
    <2>3. \A k \in 1..n : Fill(x, n, 0)[k] = s[k]
      <3>1. \A k \in 1..n : k \in 1..8 /\ k <= Len(x) /\ k <= Len(s)
        BY <1>1, <2>1
      <3>2. QED
        BY <2>1, <2>2, <3>1
    <2>4. Fill(x, n, 0) = s
      BY <2>2, <2>3, SameSeq
    <2>5. QED
      BY <2>0, <2>4 DEF x
  <1>3. IntOf(s) = I64(s) \/ IntOf(s) = Value("int", Fill(s, 8, 255))
    <2>1. s[n] \in Byte
      BY <1>1
    <2>2. Last(s) >= 128 \/ Last(s) < 128
      <3> DEFINE l == s[n]
      <3>1. l \in 0..255 /\ Last(s) = l
        BY <2>1 DEF Last, Byte
      <3> HIDE DEF l
      <3>2. QED
        BY <3>1
    <2>3. CASE n = 1
      BY <2>3 DEF IntOf
    <2>4. CASE n \in {2, 4} /\ Last(s) >= 128
      BY <2>4 DEF IntOf
    <2>5. CASE n \in {2, 4} /\ Last(s) < 128
      BY <2>5 DEF IntOf
    <2>6. CASE n = 8
      BY <2>6 DEF IntOf
    <2>7. QED
      BY <2>2, <2>3, <2>4, <2>5, <2>6
  <1>4. I64(s) = Value("int", Fill(s, 8, 0))
    BY DEF I64
  <1>5. QED
    BY <1>1, <1>2, <1>3, <1>4

\* Zeros are the number zero.
LEMMA ZerosFacts ==
    ASSUME NEW n \in Nat
    PROVE  LET z == Fill(<<>>, n, 0)
           IN  /\ z \in Bytes(n) /\ z \in Seq(Byte) /\ Len(z) = n /\ \A k \in 1..n : z[k] = 0
               /\ AllAre(z, 0)
               /\ \A m \in Nat : Fill(z, m, 0) = Fill(<<>>, m, 0)
  <1> DEFINE z == Fill(<<>>, n, 0)
  <1>1. 0 \in Byte /\ <<>> \in Seq(Byte) /\ Len(<<>>) = 0
    BY DEF Byte
  <1>2. \A m \in Nat : /\ Fill(<<>>, m, 0) \in Bytes(m) /\ Fill(<<>>, m, 0) \in Seq(Byte)
                       /\ Len(Fill(<<>>, m, 0)) = m /\ \A k \in 1..m : Fill(<<>>, m, 0)[k] = 0
    <2> TAKE m \in Nat
    <2>0. Fill(<<>>, m, 0) \in Bytes(m)
      BY <1>1, FillBytes
    <2>1. /\ Fill(<<>>, m, 0) \in Seq(Byte)
          /\ Len(Fill(<<>>, m, 0)) = m /\ \A k \in 1..m : Fill(<<>>, m, 0)[k] = IF k <= Len(<<>>) THEN <<>>[k] ELSE 0
      <3>1. Padded(Fill(<<>>, m, 0), <<>>, m, 0)
        BY <1>1, FillPadded
      <3>2. QED
        BY <3>1 DEF Padded
    <2>2. \A k \in 1..m : ~ (k <= Len(<<>>))
      BY <1>1
    <2>3. QED
      BY <2>0, <2>1, <2>2
  <1>3. z \in Bytes(n) /\ z \in Seq(Byte) /\ Len(z) = n /\ \A k \in 1..n : z[k] = 0
    BY <1>2
  <1> HIDE DEF z
  <1>4. AllAre(z, 0)
    BY <1>3 DEF AllAre
  <1>5. ASSUME NEW m \in Nat PROVE Fill(z, m, 0) = Fill(<<>>, m, 0)
    <2>1. /\ Fill(z, m, 0) \in Seq(Byte) /\ Len(Fill(z, m, 0)) = m
          /\ \A k \in 1..m : Fill(z, m, 0)[k] = IF k <= Len(z) THEN z[k] ELSE 0
      <3>1. Padded(Fill(z, m, 0), z, m, 0)
        BY <1>1, <1>3, FillPadded
      <3>2. QED
        BY <3>1 DEF Padded
    <2>2. \A k \in 1..m : Fill(z, m, 0)[k] = 0
      <3>1. \A k \in 1..m : k <= Len(z) => k \in 1..n
        BY <1>3
      <3>2. QED
        BY <1>3, <2>1, <3>1
    <2>3. QED
      BY <1>2, <2>1, <2>2, SameSeq
  <1>6. QED
    BY <1>3, <1>4, <1>5 DEF z

\* Zeros are zero.
LEMMA IntOfZeros ==
    ASSUME NEW n, n \in {0, 1, 2, 4, 8}
    PROVE  IntOf(Fill(<<>>, n, 0)) = I64(<<>>)
  <1> DEFINE z == Fill(<<>>, n, 0)
  <1>1. n \in Nat /\ 8 \in Nat
    OBVIOUS
  <1>2. Len(z) = n /\ (\A k \in 1..n : z[k] = 0) /\ I64(z) = I64(<<>>)
    BY <1>1, ZerosFacts DEF I64
  <1> HIDE DEF z
  <1>3. n # 0 => Last(z) = 0
    BY <1>1, <1>2 DEF Last
  <1>4. n # 0 => IntOf(z) = I64(z)
    BY <1>2, <1>3 DEF IntOf
  <1>5. n = 0 => IntOf(z) = I64(<<>>)
    BY <1>2 DEF IntOf
  <1>6. QED
    BY <1>2, <1>4, <1>5 DEF z

\* INTEGER, the identity included: the sign is extended and cut off again.
LEMMA IntegerTrip ==
    ASSUME NEW f, FieldOK(f), f.type = 1, NEW v, Settled(f, v),
           Stored(f, v) \/ \E id \in Bytes(8) : v = I64(id) /\ IntOf(Fill(id, f.length, 0)) = I64(id)
    PROVE  Comes(f, v)
  <1> DEFINE n == f.length
             s == PackField(f, Fetched(v))
  <1>1. n \in Nat
    BY DefaultIsValue
  <1>2. n \in {1, 2, 4, 8} /\ n # 0
    BY DEF Settled
  <1>3. \E x \in Bytes(8) : v = Value("int", x) /\ IntOf(Fill(x, n, 0)) = v
    <2>1. CASE Stored(f, v)
      <3>1. PICK z \in Seq(Byte) : Len(z) \in {0, n} /\ v \in {Bound(UnpackField(f, z)), ImportField(f, z)}
        BY <2>1 DEF Stored
      <3>2. UnpackField(f, z) = IntOf(z) /\ ImportField(f, z) = IntOf(z)
        BY <1>1, TypeInteger
      <3>3. v = IntOf(z)
        BY <3>1, <3>2, IntIsValue, IntFacts
      <3>4. CASE Len(z) = n
        BY <1>2, <3>3, <3>4, IntOfWhole
      <3>5. CASE Len(z) = 0
        <4>1. z = <<>>
          BY <3>5, EmptySeq
        <4>2. v = I64(<<>>)
          BY <3>3, <4>1 DEF IntOf
        <4>3. v = Value("int", Fill(<<>>, 8, 0))
          BY <4>2 DEF I64
        <4>4. 8 \in Nat
          OBVIOUS
        <4>5. Fill(<<>>, 8, 0) \in Bytes(8) /\ Fill(Fill(<<>>, 8, 0), n, 0) = Fill(<<>>, n, 0)
          BY <1>1, <4>4, ZerosFacts
        <4>6. IntOf(Fill(<<>>, n, 0)) = v
          BY <1>2, <4>2, IntOfZeros
        <4>7. QED
          BY <4>3, <4>5, <4>6
      <3>6. QED
        BY <3>1, <3>4, <3>5
    <2>2. CASE \E id \in Bytes(8) : v = I64(id) /\ IntOf(Fill(id, n, 0)) = I64(id)
      <3>1. PICK id \in Bytes(8) : v = I64(id) /\ IntOf(Fill(id, n, 0)) = I64(id)
        BY <2>2
      <3>2. id \in Seq(Byte) /\ Len(id) = 8 /\ 8 \in Nat /\ 0 \in Byte
        <4>1. 8 \in Nat /\ 0 \in Byte
          BY DEF Byte
        <4>2. QED
          BY <4>1, BytesAreSeqs
      <3>3. Fill(id, 8, 0) = id
        BY <3>2, FillSeq
      <3>4. QED
        BY <3>1, <3>3 DEF I64
    <2>3. QED
      BY <2>1, <2>2
  <1>4. PICK x \in Bytes(8) : v = Value("int", x) /\ IntOf(Fill(x, n, 0)) = v
    BY <1>3
  <1>5. s = Fill(x, n, 0)
    <2>1. Fetched(v) = v /\ v.kind = "int" /\ v.v = x
      BY <1>4, IntFacts
    <2>2. PackField(f, v) = IF n = 0 THEN <<>> ELSE Fill(IF v.kind = "int" THEN v.v ELSE <<>>, n, 0)
      BY <1>1, TypeInteger
    <2>3. QED
      BY <1>2, <2>1, <2>2
  <1>6. UnpackField(f, s) = IntOf(s) /\ KeyValue(f, s) = IntOf(s)
    BY <1>1, TypeInteger
  <1>7. Bound(v) = v
    BY <1>4, IntFacts
  <1>8. QED
    BY <1>4, <1>5, <1>6, <1>7 DEF Comes

\* Bytes that are cut, and then padded again.
LEMMA RefillFacts ==
    ASSUME NEW z \in Seq(Byte), NEW n \in Nat, Len(z) <= n
    PROVE  Fill(Fill(Fill(z, 8, 0), n, 0), 8, 0) = Fill(z, 8, 0)
  <1> DEFINE x == Fill(z, 8, 0)
             y == Fill(x, n, 0)
             w == Fill(y, 8, 0)
  <1>1. 0 \in Byte /\ 8 \in Nat
    BY DEF Byte
  <1>2. x \in Seq(Byte) /\ Len(x) = 8 /\ \A k \in 1..8 : x[k] = IF k <= Len(z) THEN z[k] ELSE 0
    <2>1. Padded(x, z, 8, 0)
      BY <1>1, FillPadded
    <2>2. QED
      BY <2>1 DEF Padded
  <1> HIDE DEF x
  <1>3. y \in Seq(Byte) /\ Len(y) = n /\ \A k \in 1..n : y[k] = IF k <= Len(x) THEN x[k] ELSE 0
    <2>1. Padded(y, x, n, 0)
      BY <1>1, <1>2, FillPadded
    <2>2. QED
      BY <2>1 DEF Padded
  <1> HIDE DEF y
  <1>4. w \in Seq(Byte) /\ Len(w) = 8 /\ \A k \in 1..8 : w[k] = IF k <= Len(y) THEN y[k] ELSE 0
    <2>1. Padded(w, y, 8, 0)
      BY <1>1, <1>3, FillPadded
    <2>2. QED
      BY <2>1 DEF Padded
  <1> HIDE DEF w
  <1>5. ASSUME NEW k \in 1..8 PROVE w[k] = x[k]
    <2>1. CASE k <= n
      <3>1. k \in 1..n /\ k <= Len(x)
        BY <1>2, <2>1
      <3>2. QED
        BY <1>3, <1>4, <3>1
    <2>2. CASE ~ (k <= n)
      <3>1. ~ (k <= Len(z))
        BY <2>2
      <3>2. QED
        BY <1>2, <1>3, <1>4, <2>2, <3>1
    <2>3. QED
      BY <2>1, <2>2
  <1>6. w = x
    BY <1>2, <1>4, <1>5, SameSeq
  <1>7. QED
    BY <1>6 DEF w, y, x

\* DECIMAL, which is kept as the bytes of an integer.
LEMMA DecimalTrip ==
    ASSUME NEW f, FieldOK(f), f.type = 5, NEW v, Stored(f, v)
    PROVE  Comes(f, v)
  <1> DEFINE n == f.length
             s == PackField(f, Fetched(v))
  <1>1. n \in Nat
    BY DefaultIsValue
  <1>2. PICK z \in Seq(Byte) : Len(z) \in {0, n} /\ v = I64(z)
    <2>1. PICK z \in Seq(Byte) : Len(z) \in {0, n} /\ v \in {Bound(UnpackField(f, z)), ImportField(f, z)}
      BY DEF Stored
    <2>2. UnpackField(f, z) = I64(z) /\ ImportField(f, z) = I64(z)
      BY <1>1, TypeDecimal
    <2>3. QED
      BY <2>1, <2>2, IntFacts DEF I64
  <1> DEFINE x == Fill(z, 8, 0)
  <1>3. v = Value("int", x)
    BY <1>2 DEF I64
  <1>4. Fill(Fill(x, n, 0), 8, 0) = x
    <2>1. Len(z) <= n
      BY <1>1, <1>2
    <2>2. QED
      BY <1>1, <2>1, RefillFacts
  <1>5. s = IF n = 0 THEN <<>> ELSE Fill(x, n, 0)
    <2>1. Fetched(v) = v /\ v.kind = "int" /\ v.v = x
      BY <1>3, IntFacts
    <2>2. PackField(f, v) = IF n = 0 THEN <<>> ELSE Fill(IF v.kind = "int" THEN v.v ELSE <<>>, n, 0)
      BY <1>1, TypeDecimal
    <2>3. QED
      BY <2>1, <2>2
  <1>6. Fill(s, 8, 0) = x
    <2>1. CASE n = 0
      <3>1. z = <<>>
        BY <1>2, <2>1, EmptySeq
      <3>2. QED
        BY <1>5, <2>1, <3>1
    <2>2. CASE n # 0
      BY <1>4, <1>5, <2>2
    <2>3. QED
      BY <2>1, <2>2
  <1>7. UnpackField(f, s) = I64(s) /\ KeyValue(f, s) = I64(s) /\ I64(s) = v
    BY <1>1, <1>3, <1>6, TypeDecimal DEF I64
  <1>8. Bound(v) = v
    BY <1>3, IntFacts
  <1>9. QED
    BY <1>7, <1>8 DEF Comes

\* LOGICAL: any byte but zero is true, and true is 255.
LEMMA LogicalTrip ==
    ASSUME NEW f, FieldOK(f), f.type = 7, NEW v, Stored(f, v)
    PROVE  Comes(f, v)
  <1> DEFINE n == f.length
             s == PackField(f, Fetched(v))
             B(t) == I64(<<IF t # <<>> /\ t[1] # 0 THEN 1 ELSE 0>>)
  <1>1. n \in Nat
    BY DefaultIsValue
  <1>2. ASSUME NEW t PROVE /\ Bound(UnpackField(f, t)) = B(t) /\ Bound(KeyValue(f, t)) = B(t)
                           /\ ImportField(f, t) = B(t)
    <2> DEFINE b == IF t # <<>> /\ t[1] # 0 THEN 1 ELSE 0
    <2>1. /\ UnpackField(f, t) = Value("bool", <<b>>)
          /\ KeyValue(f, t) = Value("bool", <<b>>)
          /\ ImportField(f, t) = I64(<<b>>)
      <3>1. UnpackField(f, t) = Value("bool", <<IF t # <<>> /\ t[1] # 0 THEN 1 ELSE 0>>)
        BY LogicalReads, Zenon
      <3>2. KeyValue(f, t) = Value("bool", <<IF t # <<>> /\ t[1] # 0 THEN 1 ELSE 0>>)
        BY LogicalReads, Zenon
      <3>3. ImportField(f, t) = I64(<<IF t # <<>> /\ t[1] # 0 THEN 1 ELSE 0>>)
        BY LogicalReads, Zenon
      <3>4. QED
        BY <3>1, <3>2, <3>3
    <2> HIDE DEF b
    <2>2. Bound(Value("bool", <<b>>)) = I64(<<b>>)
      BY DEF Bound, Value
    <2>3. QED
      BY <2>1, <2>2 DEF b
  <1>3. PICK z \in Seq(Byte) : Len(z) \in {0, n} /\ v = B(z)
    BY <1>2 DEF Stored
  <1>4. v \in {I64(<<0>>), I64(<<1>>)} /\ (n = 0 => v = I64(<<0>>))
    <2>1. Len(z) = 0 => z = <<>>
      BY EmptySeq
    <2>2. QED
      BY <1>3, <2>1
  <1>5. I64(<<0>>) # I64(<<1>>)
    <2>1. I64(<<0>>).v[1] = 0 /\ I64(<<1>>).v[1] = 1
      <3>1. \A a : I64(<<a>>).v[1] = a
        BY DEF I64, Value, Fill
      <3>2. QED
        BY <3>1
    <2>2. QED
      BY <2>1
  <1>6. Fetched(v) = v
    BY <1>4, IntFacts DEF I64
  <1>7. s = IF n = 0 THEN <<>> ELSE Fill(IF v = I64(<<1>>) THEN <<255>> ELSE <<>>, n, 0)
    BY <1>1, <1>6, TypeLogical
  <1>8. B(s) = v
    <2>1. CASE n = 0
      BY <1>4, <1>7, <2>1
    <2>2. CASE n # 0 /\ v = I64(<<1>>)
      <3>1. 1 \in 1..n
        BY <1>1, <2>2
      <3>2. s = Fill(<<255>>, n, 0)
        BY <1>7, <2>2
      <3>3. s[1] = 255 /\ s # <<>>
        BY <3>1, <3>2 DEF Fill
      <3>4. QED
        BY <2>2, <3>3
    <2>3. CASE n # 0 /\ v = I64(<<0>>)
      <3>1. 1 \in 1..n
        BY <1>1, <2>3
      <3>2. s = Fill(<<>>, n, 0)
        BY <1>5, <1>7, <2>3
      <3>3. s[1] = 0
        BY <3>1, <3>2 DEF Fill
      <3>4. QED
        BY <2>3, <3>3
    <2>4. QED
      BY <1>4, <2>1, <2>2, <2>3
  <1>9. QED
    BY <1>2, <1>8 DEF Comes

\* A time is in the first four bytes.
LEMMA TimeOfPadded ==
    ASSUME NEW t \in Bytes(4), NEW n \in Nat, n >= 4, NEW s, Padded(s, t, n, 0)
    PROVE  TimeOf(s) = TimeOf(t) /\ (AllAre(s, 0) => AllAre(t, 0))
  <1>0. t \in Seq(Byte) /\ Len(t) = 4
    <2>1. 4 \in Nat
      OBVIOUS
    <2>2. QED
      BY <2>1, BytesAreSeqs
  <1>1. s \in Seq(Byte) /\ Len(s) = n /\ \A k \in 1..n : s[k] = IF k <= Len(t) THEN t[k] ELSE 0
    BY DEF Padded
  <1>2. \A k \in 1..4 : s[k] = t[k] /\ k \in DOMAIN s
    <2>1. \A k \in 1..4 : k \in 1..n /\ k <= Len(t)
      BY <1>0
    <2>2. QED
      BY <1>1, <2>1
  <1>3. Hhmmsscc(s) = Hhmmsscc(t)
    BY <1>2 DEF Hhmmsscc
  <1>4. ~ (Len(s) < 4) /\ ~ (Len(t) < 4)
    BY <1>0, <1>1
  <1>5. TimeOf(s) = TimeOf(t)
    BY <1>3, <1>4 DEF TimeOf
  <1>6. AllAre(s, 0) => AllAre(t, 0)
    BY <1>0, <1>2 DEF AllAre
  <1>7. QED
    BY <1>5, <1>6

\* A time is no other kind of value, and neither is a date or a float.
LEMMA KindFacts ==
    ASSUME NEW x, NEW k \in {"time", "date", "float"}
    PROVE  LET v == Value(k, x)
           IN  v.kind = k /\ v.v = x /\ v # Null /\ Bound(v) = v /\ Fetched(v) = v
  BY DEF Value, Null, Bound, Fetched

\* TIME: the hundredths are gone before it is stored.
LEMMA TimeTrip ==
    ASSUME NEW f, FieldOK(f), f.type = 4, NEW v, Stored(f, v)
    PROVE  Comes(f, v)
  <1> DEFINE n == f.length
             s == PackField(f, Fetched(v))
             zero == Value("time", <<0, 0, 0>>)
  <1>1. n \in Nat
    BY DefaultIsValue
  <1>2. PICK z \in Seq(Byte) : Len(z) \in {0, n} /\ v = TimeOf(z)
    <2>1. PICK z \in Seq(Byte) : Len(z) \in {0, n} /\ v \in {Bound(UnpackField(f, z)), ImportField(f, z)}
      BY DEF Stored
    <2>2. UnpackField(f, z) = TimeOf(z) /\ ImportField(f, z) = TimeOf(z)
      BY <1>1, TypeTime
    <2>3. Bound(TimeOf(z)) = TimeOf(z)
      <3>1. IsTime(TimeOf(z))
        BY TimeIsValue, Zenon DEF IsTime
      <3>2. PICK h \in 0..99, m \in 0..99, k \in 0..99 : TimeOf(z) = Value("time", <<h, m, k>>)
        BY <3>1, Zenon DEF IsTime
      <3>3. QED
        BY <3>2, KindFacts
    <2>4. QED
      BY <2>1, <2>2, <2>3
  <1>3. PICK h \in 0..99, m \in 0..99, k \in 0..99 : v = Value("time", <<h, m, k>>)
    BY <1>2, TimeIsValue, Zenon
  <1>4. Fetched(v) = v /\ Bound(v) = v /\ v.kind = "time" /\ v.v = <<h, m, k>>
    BY <1>3, KindFacts
  <1> DEFINE t == IF n >= 4 THEN TimeBytes(h, m, k) ELSE <<>>
  <1>5. s = IF n = 0 THEN <<>> ELSE Fill(t, n, 0)
    <2>1. PackField(f, v) = IF n = 0 THEN <<>>
              ELSE Fill(IF v.kind = "time" /\ n >= 4 THEN TimeBytes(v.v[1], v.v[2], v.v[3]) ELSE <<>>, n, 0)
      BY <1>1, TypeTime
    <2>2. v.v[1] = h /\ v.v[2] = m /\ v.v[3] = k
      BY <1>4
    <2>3. QED
      BY <1>4, <2>1, <2>2
  <1>6. UnpackField(f, s) = TimeOf(s) /\ KeyValue(f, s) = IF AllAre(s, 0) \/ Len(s) < 4 THEN Null ELSE TimeOf(s)
    BY <1>1, TypeTime
  <1>7. CASE n < 4
    <2>1. v = zero
      <3>1. Len(z) < 4
        BY <1>1, <1>2, <1>7
      <3>2. QED
        BY <1>2, <3>1, TimeIsValue, Zenon
    <2>2. s \in Seq(Byte) /\ Len(s) < 4
      <3>1. CASE n = 0
        BY <1>5, <3>1
      <3>2. CASE n # 0
        <4>1. s = Fill(<<>>, n, 0)
          BY <1>1, <1>5, <1>7, <3>2
        <4>2. s \in Seq(Byte) /\ Len(s) = n
          BY <1>1, <4>1, ZerosFacts
        <4>3. QED
          BY <1>7, <4>2
      <3>3. QED
        BY <3>1, <3>2
    <2> HIDE DEF s
    <2>3. TimeOf(s) = v
      BY <2>1, <2>2, TimeIsValue, Zenon
    <2>4. ~ Searchable(f, v)
      BY <2>1 DEF Searchable
    <2>5. QED
      BY <1>4, <1>6, <2>3, <2>4 DEF Comes, s
  <1>8. CASE ~ (n < 4)
    <2>1. /\ t = TimeBytes(h, m, k) /\ t \in Bytes(4)
          /\ TimeOf(t) = v
          /\ h # 0 \/ m # 0 \/ k # 0 => ~ AllAre(t, 0)
      <3>1. t = TimeBytes(h, m, k)
        BY <1>1, <1>8
      <3>2. /\ TimeBytes(h, m, k) \in [1..4 -> Byte]
            /\ TimeOf(TimeBytes(h, m, k)) = Value("time", <<h, m, k>>)
            /\ h # 0 \/ m # 0 \/ k # 0 => ~ AllAre(TimeBytes(h, m, k), 0)
        BY TimeIsItsBytes, Zenon
      <3> HIDE DEF t
      <3>3. QED
        BY <1>3, <3>1, <3>2 DEF Bytes
    <2>2. t \in Seq(Byte) /\ 0 \in Byte
      <3>1. 4 \in Nat
        OBVIOUS
      <3>2. QED
        BY <2>1, <3>1, BytesAreSeqs DEF Byte
    <2> HIDE DEF t
    <2>3. s = Fill(t, n, 0)
      BY <1>1, <1>5, <1>8
    <2>4. Padded(s, t, n, 0)
      BY <1>1, <2>2, <2>3, FillPadded
    <2> HIDE DEF s
    <2>5. n >= 4
      BY <1>1, <1>8
    <2>6. TimeOf(s) = v /\ (AllAre(s, 0) => AllAre(t, 0))
      BY <1>1, <2>1, <2>4, <2>5, TimeOfPadded
    <2>7. Len(s) = n
      BY <2>4 DEF Padded
    <2>8. ASSUME Searchable(f, v) PROVE KeyValue(f, s) = v
      <3>1. v # zero
        BY <2>8 DEF Searchable
      <3>2. h # 0 \/ m # 0 \/ k # 0
        BY <1>3, <3>1
      <3>3. ~ AllAre(s, 0) /\ ~ (Len(s) < 4)
        BY <1>8, <2>1, <2>6, <2>7, <3>2
      <3>4. QED
        BY <1>6, <2>6, <3>3
    <2>9. QED
      BY <1>4, <1>6, <2>6, <2>8 DEF Comes, s
  <1>9. QED
    BY <1>7, <1>8

\* DATE: a valid one, or the default where the bytes were none.
LEMMA DateTrip ==
    ASSUME NEW f, FieldOK(f), f.type = 3, NEW v, Stored(f, v), Settled(f, v)
    PROVE  Comes(f, v)
  <1> DEFINE n == f.length
             s == PackField(f, Fetched(v))
  <1>1. n \in Nat
    BY DefaultIsValue
  <1>2. \A t : UnpackField(f, t) = DateOr(t, f.default) /\ KeyValue(f, t) = DateOr(t, Null) /\ ImportField(f, t) = DateOr(t, f.default)
    <2> TAKE t
    <2>1. UnpackField(f, t) = DateOr(t, f.default)
      BY <1>1, TypeDate
    <2>2. KeyValue(f, t) = DateOr(t, Null)
      BY <1>1, TypeDate, SMTT(30)
    <2>3. ImportField(f, t) = DateOr(t, f.default)
      BY <1>1, TypeDate
    <2>4. QED
      BY <2>1, <2>2, <2>3
  <1>3. \/ v = Null /\ f.default = Null
        \/ \E d \in 1..31 : \E m \in 1..12 : \E y \in Word \ {0} : v = Value("date", <<d, m, y>>)
    <2>1. PICK z \in Seq(Byte) : v \in {Bound(DateOr(z, f.default)), DateOr(z, f.default)}
      BY <1>2 DEF Stored
    <2>2. CASE ValidDate(z)
      <3>1. z[1] \in 1..31 /\ z[2] \in 1..12 /\ z[3] + 256 * z[4] \in Word \ {0}
        BY <2>2, DateIsValue
      <3> DEFINE x == <<z[1], z[2], z[3] + 256 * z[4]>>
      <3>2. DateOr(z, f.default) = Value("date", x)
        BY <2>2 DEF DateOr
      <3>3. v = Value("date", x)
        BY <2>1, <3>2, KindFacts
      <3>4. QED
        BY <3>1, <3>3, ZenonT(40)
    <2>3. CASE ~ ValidDate(z)
      <3>1. v \in {Bound(f.default), f.default}
        BY <2>1, <2>3 DEF DateOr
      <3>2. CASE f.default = Null
        <4>1. Bound(Null) = Null
          BY DEF Bound, Null, Value
        <4>2. QED
          BY <3>1, <3>2, <4>1
      <3>3. CASE f.default # Null
        <4>1. DefaultOK(3, f.default)
          BY <3>3 DEF FieldOK
        <4> DEFINE w == f.default
        <4>2. w.v \in (1..31) \X (1..12) \X (Word \ {0}) /\ w = Value("date", w.v)
          BY <4>1 DEF DefaultOK
        <4> HIDE DEF w
        <4>3. w.v[1] \in 1..31 /\ w.v[2] \in 1..12 /\ w.v[3] \in Word \ {0} /\ w.v = <<w.v[1], w.v[2], w.v[3]>>
          BY <4>2
        <4>4. w = Value("date", <<w.v[1], w.v[2], w.v[3]>>)
          BY <4>2, <4>3
        <4>5. Bound(w) = w
          BY <4>2, KindFacts
        <4>6. v = w
          BY <3>1, <4>5 DEF w
        <4>7. QED
          BY <4>3, <4>4, <4>6
      <3>4. QED
        BY <3>2, <3>3
    <2>4. QED
      BY <2>2, <2>3
  <1>4. CASE v = Null /\ f.default = Null
    <2>1. s = IF n = 0 THEN <<>> ELSE Fill(<<>>, n, 0)
      <3>1. Fetched(v).kind = "text"
        BY <1>4 DEF Fetched, Text, Value
      <3>2. QED
        BY <1>1, <3>1, TypeDate
    <2>2. ~ ValidDate(s)
      <3>1. CASE n = 0
        BY <2>1, <3>1 DEF ValidDate
      <3>2. CASE n # 0
        <4>1. s = Fill(<<>>, n, 0) /\ 1 \in 1..n
          BY <1>1, <2>1, <3>2
        <4>2. s[1] = 0
          BY <1>1, <4>1, ZerosFacts
        <4>3. QED
          BY <4>2 DEF ValidDate
      <3>3. QED
        BY <3>1, <3>2
    <2>3. UnpackField(f, s) = Null
      BY <1>2, <1>4, <2>2 DEF DateOr
    <2>4. ~ Searchable(f, v)
      BY <1>4 DEF Searchable
    <2>5. Bound(Null) = Null
      BY DEF Bound, Null, Value
    <2>6. QED
      BY <1>4, <2>3, <2>4, <2>5 DEF Comes
  <1>5. CASE \E d \in 1..31 : \E m \in 1..12 : \E y \in Word \ {0} : v = Value("date", <<d, m, y>>)
    <2>1. PICK d \in 1..31, m \in 1..12, y \in Word \ {0} : v = Value("date", <<d, m, y>>)
      BY <1>5
    <2>2. v.kind = "date" /\ v.v = <<d, m, y>> /\ Fetched(v) = v /\ Bound(v) = v
      BY <2>1, KindFacts
    <2>3. y < 10000 /\ n >= 4
      <3>1. Settled(f, v) <=> (v.kind = "date" => v.v[3] < 10000 /\ n >= 4)
        BY DEF Settled
      <3>2. v.v[3] = y
        BY <2>2
      <3>3. QED
        BY <2>2, <3>1, <3>2
    <2> DEFINE y1 == y % 256
               y2 == y \div 256
               t == DateBytes(d, m, y)
    <2>4. /\ t \in Seq(Byte) /\ Len(t) = 4 /\ t = <<d, m, y1, y2>>
          /\ y \in Nat \ {0} /\ y = y1 + 256 * y2
      <3>1. DateDigits(d, m, y)
        BY DatePacked
      <3>2. QED
        BY <2>3, <3>1 DEF DateDigits
    <2>5. s = Fill(t, n, 0)
      <3>1. PackField(f, v) = IF n = 0 THEN <<>>
                ELSE Fill(IF v.kind = "date" /\ n >= 4 THEN DateBytes(v.v[1], v.v[2], v.v[3]) ELSE <<>>, n, 0)
        BY <1>1, TypeDate
      <3>2. v.v[1] = d /\ v.v[2] = m /\ v.v[3] = y
        BY <2>2
      <3>3. n # 0
        BY <1>1, <2>3
      <3>4. QED
        BY <2>2, <2>3, <3>1, <3>2, <3>3
    <2> HIDE DEF y1, y2, t
    <2>6. Padded(s, t, n, 0)
      <3>1. 0 \in Byte
        BY DEF Byte
      <3>2. QED
        BY <1>1, <2>4, <2>5, <3>1, FillPadded, ZenonT(40)
    <2> HIDE DEF s
    <2>7. Len(s) = n /\ s[1] = d /\ s[2] = m /\ s[3] = y1 /\ s[4] = y2
      <3>1. \A k \in 1..4 : k \in 1..n /\ k <= Len(t)
        BY <1>1, <2>3, <2>4
      <3>2. \A k \in 1..4 : s[k] = t[k]
        BY <2>6, <3>1 DEF Padded
      <3>3. t[1] = d /\ t[2] = m /\ t[3] = y1 /\ t[4] = y2
        BY <2>4
      <3>4. Len(s) = n
        BY <2>6 DEF Padded
      <3>5. QED
        BY <3>2, <3>3, <3>4
    <2>8. s[3] + 256 * s[4] = y /\ y > 0
      BY <2>4, <2>7
    <2>9. ValidDate(s)
      BY <2>3, <2>7, <2>8 DEF ValidDate
    <2>10. \A x : DateOr(s, x) = v
      BY <2>1, <2>7, <2>8, <2>9 DEF DateOr
    <2>11. QED
      BY <1>2, <2>2, <2>10 DEF Comes, s
  <1>6. QED
    BY <1>3, <1>4, <1>5

\* FLOAT: its bytes, or the default where they were no number.
LEMMA FloatTrip ==
    ASSUME NEW f, FieldOK(f), f.type = 2, NEW v, Stored(f, v), Settled(f, v)
    PROVE  Comes(f, v)
  <1> DEFINE n == f.length
             s == PackField(f, Fetched(v))
             D == IF f.default = Null THEN FloatZero ELSE f.default
             Kept(x) == /\ x \in Seq(Byte) /\ v = Value("float", x)
                        /\ ~ (AllAre(x, 0) \/ Len(x) \notin {4, 8} \/ (~Finite(x) \/ Subnormal(x)))
  <1>1. n \in Nat
    BY DefaultIsValue
  <1>2. \A t : /\ UnpackField(f, t) = FloatOr(t, D) /\ ImportField(f, t) \in {FloatOr(t, D), FloatOr(<<>>, D)}
               /\ KeyValue(f, t) = IF AllAre(t, 0) \/ Len(t) \notin {4, 8} THEN FloatZero ELSE Value("float", t)
    BY <1>1, TypeFloat
  <1>3. \/ v = FloatZero /\ D = FloatZero
        \/ \E x : Kept(x)
    <2> DEFINE d == f.default
    <2>1. \/ D = FloatZero
          \/ /\ D = d /\ D = Value("float", d.v) /\ d.v \in Seq(Byte)
             /\ ~ (AllAre(d.v, 0) \/ Len(d.v) \notin {4, 8} \/ (~Finite(d.v) \/ Subnormal(d.v)))
      <3>1. CASE d = Null
        BY <3>1
      <3>2. CASE d # Null
        <4>1. DefaultOK(2, d)
          BY <3>2 DEF FieldOK
        <4>2. d.v \in [1..4 -> Byte] \cup [1..8 -> Byte] /\ FloatOr(d.v, Null) = d /\ d.kind = "float"
          BY <4>1 DEF DefaultOK
        <4>3. d.v \in Seq(Byte)
          <5>1. 4 \in Nat /\ 8 \in Nat
            OBVIOUS
          <5>2. d.v \in Bytes(4) \/ d.v \in Bytes(8)
            BY <4>2 DEF Bytes
          <5>3. QED
            BY <5>1, <5>2, BytesAreSeqs
        <4>4. ~ (AllAre(d.v, 0) \/ Len(d.v) \notin {4, 8} \/ (~Finite(d.v) \/ Subnormal(d.v))) /\ d = Value("float", d.v)
          BY <3>2, <4>2 DEF FloatOr
        <4>5. QED
          BY <3>2, <4>3, <4>4
      <3>3. QED
        BY <3>1, <3>2
    <2>2. D # Null /\ Bound(D) = D
      BY <2>1, KindFacts DEF FloatZero
    <2>3. \A t : FloatOr(t, D) = D \/ (FloatOr(t, D) = Value("float", t) /\ ~ (AllAre(t, 0) \/ Len(t) \notin {4, 8} \/ (~Finite(t) \/ Subnormal(t))))
      BY DEF FloatOr
    <2>4. FloatOr(<<>>, D) = D
      BY DEF FloatOr, AllAre
    <2> HIDE DEF D, d
    <2>5. PICK z \in Seq(Byte) : v \in {Bound(FloatOr(z, D)), FloatOr(z, D), D}
      BY <1>2, <2>4 DEF Stored
    <2>6. v \in {FloatOr(z, D), D}
      BY <2>2, <2>3, <2>5, KindFacts
    <2>7. v = D \/ Kept(z)
      BY <2>3, <2>6
    <2>8. v = D => v = FloatZero \/ Kept(d.v)
      BY <2>1
    <2>9. QED
      BY <2>1, <2>7, <2>8
  <1>4. CASE v = FloatZero /\ D = FloatZero
    <2>1. s = IF n = 0 THEN <<>> ELSE Fill(<<>>, n, 0)
      <3>1. Fetched(v) = v /\ v.v = <<>>
        BY <1>4, KindFacts DEF FloatZero
      <3>2. PackField(f, v) = IF n = 0 THEN <<>> ELSE Fill(IF v.kind = "float" /\ n \in {4, 8} THEN v.v ELSE <<>>, n, 0)
        BY <1>1, TypeFloat
      <3>3. QED
        BY <3>1, <3>2
    <2>2. AllAre(s, 0)
      <3>1. CASE n = 0
        BY <2>1, <3>1 DEF AllAre
      <3>2. CASE n # 0
        <4>1. s = Fill(<<>>, n, 0)
          BY <2>1, <3>2
        <4>2. QED
          BY <1>1, <4>1, ZerosFacts
      <3>3. QED
        BY <3>1, <3>2
    <2>3. FloatOr(s, D) = v
      BY <1>4, <2>2 DEF FloatOr
    <2>4. Bound(v) = v
      BY <1>4, KindFacts DEF FloatZero
    <2> HIDE DEF D, s
    <2>5. QED
      BY <1>2, <1>4, <2>2, <2>3, <2>4 DEF Comes, s
  <1>5. CASE \E x : Kept(x)
    <2>1. PICK x : Kept(x)
      BY <1>5
    <2>2. v.kind = "float" /\ v.v = x /\ Fetched(v) = v /\ Bound(v) = v
      BY <2>1, KindFacts
    <2>3. n \in {4, 8} /\ Len(x) = n
      <3>1. Len(x) \in {0, n}
        BY <1>1, <2>2, TypeFloat
      <3>2. Len(x) \in {4, 8}
        BY <2>1
      <3> DEFINE l == Len(x)
      <3>3. l \in {0, n} /\ l \in {4, 8}
        BY <3>1, <3>2
      <3> HIDE DEF l, n
      <3>4. n \in {4, 8} /\ l = n
        BY <3>3
      <3>5. QED
        BY <3>4 DEF l
    <2>4. s = x
      <3>1. PackField(f, v) = IF n = 0 THEN <<>> ELSE Fill(IF v.kind = "float" /\ n \in {4, 8} THEN v.v ELSE <<>>, n, 0)
        BY <1>1, TypeFloat
      <3>2. s = Fill(x, n, 0)
        BY <2>2, <2>3, <3>1
      <3>3. 0 \in Byte
        BY DEF Byte
      <3>4. QED
        BY <1>1, <2>1, <2>3, <3>2, <3>3, FillSeq
    <2>5. FloatOr(x, D) = v
      BY <2>1 DEF FloatOr
    <2>6. KeyValue(f, x) = v
      BY <1>2, <2>1
    <2> HIDE DEF D
    <2>7. QED
      BY <1>2, <2>2, <2>4, <2>5, <2>6 DEF Comes
  <1>6. QED
    BY <1>3, <1>4, <1>5

\* All types together.  The identity is a column of its own.
LEMMA RoundTrip ==
    ASSUME NEW f, FieldOK(f), NEW v, Settled(f, v),
           \/ Stored(f, v)
           \/ f.type = 1 /\ \E id \in Bytes(8) : v = I64(id) /\ IntOf(Fill(id, f.length, 0)) = I64(id)
    PROVE  Comes(f, v)
  <1>1. f.type \in {0, 11, 3, 2, 1, 4, 5, 7}
    BY DEF Settled
  <1>2. CASE f.type = 1
    BY <1>2, IntegerTrip
  <1>3. CASE f.type # 1
    <2>1. Stored(f, v)
      BY <1>3
    <2>2. QED
      BY <1>1, <1>3, <2>1, StringTrip, ZstringTrip, DateTrip, FloatTrip, TimeTrip, DecimalTrip, LogicalTrip
  <1>4. QED
    BY <1>2, <1>3

-----------------------------------------------------------------------------
(***************************************************************************)
(* Bytes that are the only ones of their value are packed again as they    *)
(* were.                                                                   *)
(***************************************************************************)
Repacked(f, s) == PackField(f, Fetched(Bound(UnpackField(f, s)))) = s

\* Zeros are what an empty value is filled with.
LEMMA AllZeros ==
    ASSUME NEW s \in Seq(Byte), AllAre(s, 0)
    PROVE  Fill(<<>>, Len(s), 0) = s
  <1>1. Len(s) \in Nat
    OBVIOUS
  <1> DEFINE z == Fill(<<>>, Len(s), 0)
  <1>2. z \in Seq(Byte) /\ Len(z) = Len(s) /\ \A k \in 1..Len(s) : z[k] = 0
    BY <1>1, ZerosFacts
  <1>3. \A k \in 1..Len(s) : s[k] = 0
    BY DEF AllAre
  <1> HIDE DEF z
  <1>4. z = s
    BY <1>2, <1>3, SameSeq
  <1>5. QED
    BY <1>4 DEF z

\* ASCII characters.
LEMMA StringAgain ==
    ASSUME NEW f, f.type = 0, NEW s \in Seq(Byte), Len(s) = f.length, Canonical(f, s)
    PROVE  Repacked(f, s)
  <1> DEFINE n == f.length
  <1>1. n \in Nat /\ (n = 0 => s = <<>>) /\ 32 \in Byte /\ s \in Seq(Word)
    <2>1. s \in Seq(Word)
      BY WordFacts, SeqMonotonic
    <2>2. Len(s) = 0 => s = <<>>
      BY EmptySeq
    <2>3. QED
      BY <2>1, <2>2 DEF Byte
  <1>2. Utf8(s) = s
    <2>1. Ascii(s)
      BY DEF Canonical
    <2>2. QED
      BY <1>1, <2>1, Utf8Facts
  <1>3. UnpackField(f, s) = Text(s)
    BY <1>1, TypeString
  <1>4. PackField(f, Text(s)) = IF n = 0 THEN <<>> ELSE Fill(s, n, 32)
    <2>1. PackField(f, Text(s)) = IF n = 0 THEN <<>> ELSE Fill(IF Text(s).kind = "text" THEN Utf8(Text(s).v) ELSE <<>>, n, 32)
      BY <1>1, TypeString
    <2>2. QED
      BY <1>2, <2>1, TextFacts
  <1>5. Fill(s, n, 32) = s
    <2> DEFINE x == Fill(s, n, 32)
    <2>1. Padded(x, s, n, 32)
      BY <1>1, FillPadded
    <2> HIDE DEF x
    <2>2. x \in Seq(Byte) /\ Len(x) = n /\ \A k \in 1..n : x[k] = IF k <= Len(s) THEN s[k] ELSE 32
      BY <2>1 DEF Padded
    <2>3. \A k \in 1..Len(s) : x[k] = s[k]
      BY <2>2
    <2>4. x = s
      BY <2>2, <2>3, SameSeq
    <2>5. QED
      BY <2>4 DEF x
  <1>6. QED
    BY <1>1, <1>3, <1>4, <1>5, TextFacts DEF Repacked

\* ASCII characters, a NUL and nothing but NULs after it.
LEMMA ZstringAgain ==
    ASSUME NEW f, f.type = 11, NEW s \in Seq(Byte), Len(s) = f.length, Canonical(f, s)
    PROVE  Repacked(f, s)
  <1> DEFINE n == f.length
             u == UntilNul(s)
  <1>1. n \in Nat /\ (n = 0 => s = <<>>)
    <2>1. Len(s) = 0 => s = <<>>
      BY EmptySeq
    <2>2. QED
      BY <2>1
  <1>2. Ascii(s) /\ Last(s) = 0 /\ \A j, k \in DOMAIN s : j < k /\ s[j] = 0 => s[k] = 0
    BY DEF Canonical
  <1>3. /\ u \in Seq(Byte) /\ Len(u) <= Len(s)
        /\ \A k \in 1 .. Len(u) : u[k] = s[k] /\ s[k] # 0
        /\ Len(u) < Len(s) => s[Len(u) + 1] = 0
    BY UntilNulFacts
  <1>4. UnpackField(f, s) = Text(Lossy(u))
    BY <1>1, TypeZstring
  <1> HIDE DEF u
  <1>5. Ascii(u) /\ u \in Seq(Word) /\ Len(u) \in Nat
    <2>1. \A k \in 1..Len(u) : k \in 1..Len(s)
      BY <1>3
    <2>2. \A k \in 1..Len(u) : u[k] < 128
      BY <1>2, <1>3, <2>1 DEF Ascii
    <2>3. u \in Seq(Word)
      BY <1>3, WordFacts, SeqMonotonic
    <2>4. QED
      BY <1>3, <2>2, <2>3 DEF Ascii
  <1>6. Lossy(u) = u /\ Utf8(u) = u
    BY <1>3, <1>5, LossyFacts, Utf8Facts
  <1>7. CASE n = 0
    <2>1. PackField(f, Fetched(Bound(UnpackField(f, s)))) = <<>>
      BY <1>1, <1>7, TypeZstring
    <2>2. QED
      BY <1>1, <1>7, <2>1 DEF Repacked
  <1>8. CASE n # 0
    <2> DEFINE m == n - 1
               p == Fill(u, m, 0)
    <2>1. PackField(f, Text(u)) = p \o <<0>>
      <3>1. PackField(f, Text(u)) = IF n = 0 THEN <<>> ELSE Fill(IF Text(u).kind = "text" THEN Utf8(Text(u).v) ELSE <<>>, n - 1, 0) \o <<0>>
        BY <1>1, TypeZstring
      <3>2. QED
        BY <1>6, <1>8, <3>1, TextFacts
    <2>2. m \in Nat /\ n = m + 1 /\ 0 \in Byte
      BY <1>1, <1>8 DEF Byte
    <2> HIDE DEF m
    <2>3. Padded(p, u, m, 0)
      BY <1>3, <2>2, FillPadded
    <2> HIDE DEF p
    <2>4. p \in Seq(Byte) /\ Len(p) = m /\ \A k \in 1..m : p[k] = IF k <= Len(u) THEN u[k] ELSE 0
      BY <2>3 DEF Padded
    <2>5. Len(s) = m + 1 /\ s[m + 1] = 0
      BY <1>2, <2>2 DEF Last
    <2>6. Len(u) <= m
      <3>1. Len(u) # m + 1
        <4>1. Len(u) = m + 1 => m + 1 \in 1..Len(u)
          BY <2>2
        <4>2. QED
          BY <1>3, <2>5, <4>1
      <3>2. QED
        BY <1>3, <1>5, <2>2, <2>5, <3>1
    <2>7. s[Len(u) + 1] = 0 /\ Len(u) + 1 \in 1..m+1
      BY <1>3, <1>5, <2>2, <2>5, <2>6
    <2>8. ASSUME NEW k \in 1..m+1 PROVE s[k] = IF k <= Len(u) THEN u[k] ELSE 0
      <3>1. CASE k <= Len(u)
        <4>1. k \in 1..Len(u)
          BY <1>5, <3>1
        <4>2. QED
          BY <1>3, <3>1, <4>1
      <3>2. CASE ~ (k <= Len(u))
        <4>1. k = Len(u) + 1 \/ Len(u) + 1 < k
          BY <1>5, <2>2, <3>2
        <4>2. k \in DOMAIN s /\ Len(u) + 1 \in DOMAIN s
          BY <2>5, <2>7
        <4>3. QED
          BY <1>2, <2>7, <3>2, <4>1, <4>2
      <3>3. QED
        BY <3>1, <3>2
    <2> DEFINE q == <<0>>
    <2>9. q \in Seq(Byte) /\ Len(q) = 1 /\ q[1] = 0
      BY <2>2
    <2> HIDE DEF q
    <2>10. /\ p \o q \in Seq(Byte) /\ Len(p \o q) = Len(p) + Len(q)
           /\ \A i \in 1 .. Len(p) + Len(q) : (p \o q)[i] = IF i <= Len(p) THEN p[i] ELSE q[i - Len(p)]
      BY <2>4, <2>9, ConcatProperties
    <2>11. Len(p \o q) = m + 1
      BY <2>4, <2>9, <2>10
    <2>12. ASSUME NEW k \in 1..m+1 PROVE (p \o q)[k] = s[k]
      <3>1. k \in 1 .. Len(p) + Len(q)
        BY <2>4, <2>9
      <3>2. CASE k <= m
        <4>1. k \in 1..m
          BY <2>2, <3>2
        <4>2. (p \o q)[k] = p[k]
          BY <2>4, <2>10, <3>1, <3>2
        <4>3. QED
          BY <2>4, <2>8, <4>1, <4>2
      <3>3. CASE ~ (k <= m)
        <4>1. k = m + 1 /\ k - Len(p) = 1
          BY <2>2, <2>4, <3>3
        <4>2. (p \o q)[k] = q[1]
          BY <2>4, <2>10, <3>1, <3>3, <4>1
        <4>3. QED
          BY <2>5, <2>9, <4>1, <4>2
      <3>4. QED
        BY <3>2, <3>3
    <2>13. p \o q = s
      BY <2>5, <2>10, <2>11, <2>12, SameSeq
    <2>14. Fetched(Bound(UnpackField(f, s))) = Text(u)
      BY <1>4, <1>6, TextFacts
    <2>15. QED
      BY <2>1, <2>13, <2>14 DEF Repacked, q
  <1>9. QED
    BY <1>7, <1>8

\* An integer of a width that is read.
LEMMA IntegerAgain ==
    ASSUME NEW f, f.type = 1, NEW s \in Seq(Byte), Len(s) = f.length, Canonical(f, s)
    PROVE  Repacked(f, s)
  <1> DEFINE n == f.length
  <1>1. n \in {1, 2, 4, 8} /\ n \in Nat /\ n # 0
    BY DEF Canonical
  <1>2. PICK x \in Bytes(8) : IntOf(s) = Value("int", x) /\ Fill(x, n, 0) = s
    BY <1>1, IntOfWhole
  <1> DEFINE v == Value("int", x)
  <1>3. UnpackField(f, s) = v
    BY <1>1, <1>2, TypeInteger
  <1>4. v.kind = "int" /\ v.v = x /\ Fetched(Bound(v)) = v
    BY IntFacts
  <1> HIDE DEF v
  <1>5. PackField(f, v) = IF n = 0 THEN <<>> ELSE Fill(IF v.kind = "int" THEN v.v ELSE <<>>, n, 0)
    BY <1>1, TypeInteger
  <1>6. PackField(f, v) = s
    BY <1>1, <1>2, <1>4, <1>5
  <1>7. QED
    BY <1>3, <1>4, <1>6 DEF Repacked

\* At most the eight bytes that are kept.
LEMMA DecimalAgain ==
    ASSUME NEW f, f.type = 5, NEW s \in Seq(Byte), Len(s) = f.length, Canonical(f, s)
    PROVE  Repacked(f, s)
  <1> DEFINE n == f.length
             x == Fill(s, 8, 0)
  <1>1. n \in Nat /\ n <= 8 /\ 8 \in Nat /\ 0 \in Byte
    BY DEF Canonical, Byte
  <1>2. Padded(x, s, 8, 0)
    BY <1>1, FillPadded
  <1>3. I64(s) = Value("int", x)
    BY DEF I64
  <1> HIDE DEF x
  <1>4. x \in Seq(Byte) /\ Len(x) = 8 /\ \A k \in 1..8 : x[k] = IF k <= Len(s) THEN s[k] ELSE 0
    BY <1>2 DEF Padded
  <1>5. Padded(Fill(x, n, 0), x, n, 0)
    BY <1>1, <1>4, FillPadded
  <1>6. Fill(x, n, 0) = s
    <2>1. Fill(x, n, 0) \in Seq(Byte) /\ Len(Fill(x, n, 0)) = n /\ \A k \in 1..n : Fill(x, n, 0)[k] = IF k <= Len(x) THEN x[k] ELSE 0
      BY <1>5 DEF Padded
    <2>2. \A k \in 1..n : k \in 1..8 /\ k <= Len(x) /\ k <= Len(s)
      BY <1>1, <1>4
    <2>3. \A k \in 1..n : Fill(x, n, 0)[k] = s[k]
      BY <1>4, <2>1, <2>2
    <2>4. QED
      BY <2>1, <2>3, SameSeq
  <1> DEFINE v == Value("int", x)
  <1>7. UnpackField(f, s) = v
    BY <1>1, <1>3, TypeDecimal
  <1>8. v.kind = "int" /\ v.v = x /\ Fetched(Bound(v)) = v
    BY IntFacts
  <1> HIDE DEF v
  <1>9. PackField(f, v) = IF n = 0 THEN <<>> ELSE Fill(IF v.kind = "int" THEN v.v ELSE <<>>, n, 0)
    BY <1>1, TypeDecimal
  <1>10. n = 0 => s = <<>>
    BY EmptySeq
  <1>11. PackField(f, v) = s
    BY <1>6, <1>8, <1>9, <1>10
  <1>12. QED
    BY <1>7, <1>8, <1>11 DEF Repacked

\* A logical of one byte, 0 or 255.
LEMMA LogicalAgain ==
    ASSUME NEW f, f.type = 7, NEW s \in Seq(Byte), Len(s) = f.length, Canonical(f, s)
    PROVE  Repacked(f, s)
  <1> DEFINE b == IF s # <<>> /\ s[1] # 0 THEN 1 ELSE 0
             c == I64(<<b>>)
  <1>1. s \in {<<0>>, <<255>>}
    BY DEF Canonical
  <1>2. f.length = 1 /\ f.length \in Nat
    <2>1. Len(<<0>>) = 1 /\ Len(<<255>>) = 1
      OBVIOUS
    <2>2. Len(s) = 1
      BY <1>1, <2>1
    <2>3. QED
      BY <2>2
  <1>3. Fetched(Bound(UnpackField(f, s))) = c
    <2>1. UnpackField(f, s) = Value("bool", <<IF s # <<>> /\ s[1] # 0 THEN 1 ELSE 0>>)
      BY <1>2, TypeLogical
    <2> HIDE DEF b
    <2>2. Bound(Value("bool", <<b>>)) = I64(<<b>>)
      BY DEF Bound, Value
    <2>3. Fetched(c) = c
      BY IntFacts DEF I64
    <2>4. UnpackField(f, s) = Value("bool", <<b>>)
      BY <2>1 DEF b
    <2>5. QED
      BY <2>2, <2>3, <2>4
  <1>4. PackField(f, c) = Fill(IF c = I64(<<1>>) THEN <<255>> ELSE <<>>, 1, 0)
    <2>1. PackField(f, c) = IF f.length = 0 THEN <<>> ELSE Fill(IF c = I64(<<1>>) THEN <<255>> ELSE <<>>, f.length, 0)
      BY <1>2, TypeLogical
    <2> HIDE DEF c
    <2>2. QED
      BY <1>2, <2>1
  <1>5. CASE s = <<0>>
    <2>1. c = I64(<<0>>)
      BY <1>5
    <2>2. I64(<<0>>) # I64(<<1>>)
      <3>1. \A a : I64(<<a>>).v[1] = a
        BY DEF I64, Value, Fill
      <3>2. I64(<<0>>).v[1] = 0 /\ I64(<<1>>).v[1] = 1
        BY <3>1
      <3>3. QED
        BY <3>2
    <2>3. Fill(<<>>, 1, 0) = <<0>>
      BY DEF Fill
    <2>4. PackField(f, c) = <<0>>
      BY <1>4, <2>1, <2>2, <2>3
    <2> HIDE DEF c
    <2>5. QED
      BY <1>3, <1>5, <2>4 DEF Repacked
  <1>6. CASE s = <<255>>
    <2>1. c = I64(<<1>>)
      BY <1>6
    <2>2. Fill(<<255>>, 1, 0) = <<255>>
      BY DEF Fill
    <2>3. PackField(f, c) = <<255>>
      BY <1>4, <2>1, <2>2
    <2> HIDE DEF c
    <2>4. QED
      BY <1>3, <1>6, <2>3 DEF Repacked
  <1>7. QED
    BY <1>1, <1>5, <1>6

\* A time of day without hundredths.
LEMMA TimeAgain ==
    ASSUME NEW f, f.type = 4, NEW s \in Seq(Byte), Len(s) = f.length, Canonical(f, s)
    PROVE  Repacked(f, s)
  <1>1. Len(s) = 4 /\ Hhmmsscc(s) % 100 = 0 /\ Hhmmsscc(s) < 100 * 100 * 100 * 100
    BY DEF Canonical
  <1>2. f.length = 4 /\ f.length \in Nat
    BY <1>1
  <1>3. s \in [1..4 -> Byte]
    BY <1>1, BytesAreSeqs DEF Bytes
  <1> DEFINE v == TimeOf(s)
             t == v.v
  <1>4. t \in (0..99) \X (0..99) \X (0..99) /\ TimeBytes(t[1], t[2], t[3]) = s
    BY <1>1, <1>3, BytesAreTheTime
  <1>5. v = Value("time", t)
    BY DEF TimeOf, Value
  <1> HIDE DEF v, t
  <1>6. v.kind = "time" /\ v.v = t /\ Fetched(Bound(v)) = v
    BY <1>5, KindFacts
  <1>7. UnpackField(f, s) = v
    BY <1>2, TypeTime DEF v
  <1>8. PackField(f, v) = IF f.length = 0 THEN <<>> ELSE Fill(IF v.kind = "time" /\ f.length >= 4 THEN TimeBytes(v.v[1], v.v[2], v.v[3]) ELSE <<>>, f.length, 0)
    BY <1>2, TypeTime
  <1>9. PackField(f, v) = Fill(s, 4, 0)
    BY <1>2, <1>4, <1>6, <1>8
  <1>10. Fill(s, 4, 0) = s
    BY <1>3 DEF Fill
  <1>11. QED
    BY <1>6, <1>7, <1>9, <1>10 DEF Repacked

\* No date, where the default is none, or a date of a year of four digits.
LEMMA DateAgain ==
    ASSUME NEW f, f.type = 3, NEW s \in Seq(Byte), Len(s) = f.length, Canonical(f, s)
    PROVE  Repacked(f, s)
  <1> DEFINE n == f.length
  <1>1. n \in Nat /\ (n = 0 => s = <<>>)
    <2>1. Len(s) = 0 => s = <<>>
      BY EmptySeq
    <2>2. QED
      BY <2>1
  <1>2. IF AllAre(s, 0) THEN f.default = Null ELSE ValidDate(s) /\ Len(s) = 4 /\ s[3] + 256 * s[4] < 10000
    BY DEF Canonical
  <1>3. UnpackField(f, s) = DateOr(s, f.default)
    BY <1>1, TypeDate
  <1>4. \A c : PackField(f, c) = IF n = 0 THEN <<>> ELSE Fill(IF c.kind = "date" /\ n >= 4 THEN DateBytes(c.v[1], c.v[2], c.v[3]) ELSE <<>>, n, 0)
    BY <1>1, TypeDate
  <1>5. CASE AllAre(s, 0)
    <2>1. ~ ValidDate(s)
      <3>1. CASE Len(s) >= 4
        <4>1. 1 \in DOMAIN s
          BY <3>1
        <4>2. s[1] = 0
          BY <1>5, <4>1 DEF AllAre
        <4>3. QED
          BY <4>2 DEF ValidDate
      <3>2. CASE ~ (Len(s) >= 4)
        BY <3>2 DEF ValidDate
      <3>3. QED
        BY <3>1, <3>2
    <2>2. UnpackField(f, s) = Null
      BY <1>2, <1>3, <1>5, <2>1 DEF DateOr
    <2>3. Fetched(Bound(Null)) = Text(<<>>)
      BY DEF Bound, Fetched, Null, Value
    <2>4. PackField(f, Text(<<>>)) = IF n = 0 THEN <<>> ELSE Fill(<<>>, n, 0)
      <3>1. Text(<<>>).kind # "date"
        BY DEF Text, Value
      <3>2. QED
        BY <1>4, <3>1
    <2>5. Fill(<<>>, n, 0) = s
      BY <1>5, AllZeros
    <2>6. QED
      BY <1>1, <2>2, <2>3, <2>4, <2>5 DEF Repacked
  <1>6. CASE ~ AllAre(s, 0)
    <2> DEFINE y == s[3] + 256 * s[4]
               v == Value("date", <<s[1], s[2], y>>)
    <2>1. ValidDate(s) /\ n = 4 /\ y < 10000
      BY <1>2, <1>6
    <2>2. s[1] \in 1..31 /\ s[2] \in 1..12 /\ y \in Word \ {0} /\ s[3] \in 0..255 /\ s[4] \in 0..255
      BY <2>1, DateIsValue DEF Byte
    <2>3. y % 256 = s[3] /\ y \div 256 = s[4]
      <3>1. PICK a \in 0..255, b \in 0..255 : s[3] = a /\ s[4] = b
        BY <2>2, Zenon
      <3>2. (a + 256 * b) % 256 = a /\ (a + 256 * b) \div 256 = b
        BY WordSplit, ZenonT(40)
      <3>3. y = a + 256 * b
        BY <3>1, Zenon
      <3> HIDE DEF y
      <3>4. QED
        BY <3>1, <3>2, <3>3, Zenon
    <2>4. UnpackField(f, s) = v
      BY <1>3, <2>1 DEF DateOr
    <2> HIDE DEF y
    <2>5. v.kind = "date" /\ v.v = <<s[1], s[2], y>> /\ Fetched(Bound(v)) = v
      BY KindFacts
    <2> HIDE DEF v
    <2>6. DateBytes(s[1], s[2], y) = <<s[1], s[2], s[3], s[4]>>
      <3>1. DateDigits(s[1], s[2], y)
        BY <2>2, DatePacked
      <3>2. QED
        BY <2>1, <2>3, <3>1 DEF DateDigits
    <2>7. <<s[1], s[2], s[3], s[4]>> = s
      BY <2>1
    <2>8. v.v[1] = s[1] /\ v.v[2] = s[2] /\ v.v[3] = y
      BY <2>5
    <2>9. PackField(f, v) = Fill(s, 4, 0)
      BY <1>4, <2>1, <2>5, <2>6, <2>7, <2>8
    <2>10. Fill(s, 4, 0) = s
      BY <2>1 DEF Fill
    <2>11. QED
      BY <2>4, <2>5, <2>9, <2>10 DEF Repacked
  <1>7. QED
    BY <1>5, <1>6

\* A float that is finite and not subnormal.
LEMMA FloatAgain ==
    ASSUME NEW f, f.type = 2, NEW s \in Seq(Byte), Len(s) = f.length, Canonical(f, s)
    PROVE  Repacked(f, s)
  <1> DEFINE n == f.length
             D == IF f.default = Null THEN FloatZero ELSE f.default
  <1>1. n \in {4, 8} /\ n \in Nat /\ n # 0 /\ Finite(s) /\ ~Subnormal(s) /\ (AllAre(s, 0) => f.default = Null)
    BY DEF Canonical
  <1>2. UnpackField(f, s) = FloatOr(s, D)
    BY <1>1, TypeFloat
  <1>3. \A c : PackField(f, c) = IF n = 0 THEN <<>> ELSE Fill(IF c.kind = "float" /\ n \in {4, 8} THEN c.v ELSE <<>>, n, 0)
    BY <1>1, TypeFloat
  <1>4. ASSUME NEW x PROVE PackField(f, Fetched(Bound(Value("float", x)))) = Fill(x, n, 0)
    <2> DEFINE v == Value("float", x)
    <2>1. v.kind = "float" /\ v.v = x /\ Fetched(Bound(v)) = v
      BY KindFacts
    <2> HIDE DEF v
    <2>2. QED
      BY <1>1, <1>3, <2>1 DEF v
  <1>5. CASE AllAre(s, 0)
    <2>1. UnpackField(f, s) = Value("float", <<>>)
      BY <1>1, <1>2, <1>5 DEF FloatOr, FloatZero
    <2>2. Fill(<<>>, n, 0) = s
      BY <1>5, AllZeros
    <2>3. QED
      BY <1>4, <2>1, <2>2 DEF Repacked
  <1>6. CASE ~ AllAre(s, 0)
    <2>1. FloatOr(s, D) = Value("float", s)
      <3> HIDE DEF D
      <3>1. QED
        BY <1>1, <1>6 DEF FloatOr
    <2>2. Padded(Fill(s, n, 0), s, n, 0)
      <3>1. 0 \in Byte
        BY DEF Byte
      <3>2. QED
        BY <1>1, <3>1, FillPadded
    <2>3. Fill(s, n, 0) = s
      <3> DEFINE x == Fill(s, n, 0)
      <3> HIDE DEF x
      <3>1. x \in Seq(Byte) /\ Len(x) = n /\ \A k \in 1..n : x[k] = IF k <= Len(s) THEN s[k] ELSE 0
        BY <2>2 DEF Padded, x
      <3>2. \A k \in 1..Len(s) : x[k] = s[k]
        BY <1>1, <3>1
      <3>3. x = s
        BY <3>1, <3>2, SameSeq
      <3>4. QED
        BY <3>3 DEF x
    <2>4. QED
      BY <1>2, <1>4, <2>1, <2>3 DEF Repacked
  <1>7. QED
    BY <1>5, <1>6

\* All types together.
LEMMA CanonicalAgain ==
    ASSUME NEW f, NEW s \in Seq(Byte), Len(s) = f.length, Canonical(f, s)
    PROVE  Repacked(f, s)
  <1>1. f.type \in {0, 11, 1, 2, 3, 4, 5, 7}
    BY DEF Canonical
  <1>2. QED
    BY <1>1, StringAgain, ZstringAgain, IntegerAgain, FloatAgain, DateAgain, TimeAgain, DecimalAgain, LogicalAgain

\* The identity of a column that has room for it.
LEMMA IdentityBytes ==
    ASSUME NEW f, f.type \in {1, 14, 15}, f.length \in {1, 2, 4, 8}, NEW id \in Bytes(8)
    PROVE  PackField(f, Fetched(I64(id))) = [k \in 1..f.length |-> id[k]]
  <1> DEFINE n == f.length
  <1>1. n \in Nat /\ n # 0 /\ n > 0 /\ n <= 8
    OBVIOUS
  <1>2. Fill(id, 8, 0) = id
    <2>1. id \in [1..8 -> Byte] /\ Len(id) = 8
      BY DEF Bytes
    <2>2. id = [k \in 1..8 |-> id[k]] /\ \A k \in 1..8 : k <= Len(id)
      BY <2>1
    <2>3. QED
      BY <2>2 DEF Fill
  <1>3. I64(id) = Value("int", id)
    BY <1>2 DEF I64
  <1> DEFINE v == Value("int", id)
  <1>4. v.kind = "int" /\ v.v = id /\ Fetched(v) = v
    BY IntFacts
  <1> HIDE DEF v
  <1>5. PackField(f, v) = Fill(IF v.kind = "int" THEN v.v ELSE <<>>, n, 0)
    BY <1>1 DEF PackField
  <1>6. Fill(id, n, 0) = [k \in 1..n |-> id[k]]
    <2>1. \A k \in 1..n : k <= Len(id)
      <3>1. Len(id) = 8
        BY DEF Bytes
      <3>2. QED
        BY <1>1, <3>1
    <2>2. QED
      BY <2>1 DEF Fill
  <1>7. QED
    BY <1>3, <1>4, <1>5, <1>6 DEF v

-----------------------------------------------------------------------------
(***************************************************************************)
(* Slots: what is laid in a record at a field's offset is what is read     *)
(* from it there, when no other field shares a byte of it.                 *)
(***************************************************************************)
\* What the metadata says of a layout in use.
LEMMA FileFacts ==
    ASSUME file \in Files
    PROVE  /\ Len(file.fields) \in Nat /\ DOMAIN file.fields = 1 .. Len(file.fields)
           /\ \A i \in DOMAIN file.fields : FieldOK(file.fields[i])
           /\ \A i \in DOMAIN file.fields :
                file.fields[i].type \in Nat /\ file.fields[i].offset \in Nat /\ file.fields[i].length \in Nat
           /\ file.length \in Nat
           /\ NewId \in Bytes(8)
  <1>1. /\ file.fields \in Seq(Range(file.fields))
        /\ \A i \in DOMAIN file.fields : FieldOK(file.fields[i])
        /\ file.length \in Nat
        /\ NewId \in [1..8 -> Byte]
    BY CodecAssumption
  <1>2. \A i \in DOMAIN file.fields :
            file.fields[i].type \in Nat /\ file.fields[i].offset \in Nat /\ file.fields[i].length \in Nat
    BY <1>1 DEF FieldOK
  <1>3. Len(file.fields) \in Nat /\ DOMAIN file.fields = 1 .. Len(file.fields)
    BY <1>1
  <1>4. QED
    BY <1>1, <1>2, <1>3 DEF Bytes

\* The field of the record number is an integer with room for the identity.
LEMMA RecnumFacts ==
    ASSUME file \in Files, NEW i \in DOMAIN file.fields, i = file.recnum
    PROVE  /\ file.fields[i].type \in {1, 14, 15}
           /\ file.fields[i].length \in {1, 2, 4, 8} => IntOf(Fill(NewId, file.fields[i].length, 0)) = I64(NewId)
  <1>1. DOMAIN file.fields = 1 .. Len(file.fields) /\ Len(file.fields) \in Nat
    BY FileFacts
  <1>2. file.recnum # 0
    BY <1>1
  <1>3. QED
    BY <1>2, CodecAssumption

\* A field's part of a record.
LEMMA SliceFacts ==
    ASSUME NEW rec \in Seq(Byte), NEW f, f.offset \in Nat, f.length \in Nat
    PROVE  LET s == FieldSlice(rec, f)
           IN  /\ s \in Seq(Byte) /\ Len(s) \in {0, f.length}
               /\ f.offset + f.length <= Len(rec) =>
                     Len(s) = f.length /\ \A k \in 1 .. f.length : s[k] = rec[f.offset + k]
  <1> DEFINE o == f.offset
             n == f.length
             t == SubSeq(rec, o + 1, o + n)
  <1>1. o \in Nat /\ n \in Nat /\ Len(rec) \in Nat
    OBVIOUS
  <1>2. CASE o + n > Len(rec)
    <2>1. FieldSlice(rec, f) = <<>>
      BY <1>2 DEF FieldSlice
    <2>2. <<>> \in Seq(Byte) /\ Len(<<>>) = 0
      OBVIOUS
    <2>3. QED
      BY <1>1, <1>2, <2>1, <2>2
  <1>3. CASE ~ (o + n > Len(rec))
    <2>1. FieldSlice(rec, f) = t
      BY <1>3 DEF FieldSlice
    <2>2. t \in Seq(Byte) /\ Len(t) = n /\ \A k \in 1..n : t[k] = rec[o + k]
      <3> HIDE DEF o, n
      <3>1. \A k \in o+1 .. o+n : k \in 1 .. Len(rec)
        BY <1>1, <1>3
      <3>2. Len(t) = n
        BY <1>1, <1>3, <3>1
      <3>3. t \in Seq(Byte)
        BY <1>1, <1>3, <3>1
      <3>4. \A k \in 1..n : t[k] = rec[o + k]
        BY <1>1, <1>3, <3>1
      <3>5. QED
        BY <3>2, <3>3, <3>4
    <2>3. QED
      BY <2>1, <2>2
  <1>4. QED
    BY <1>2, <1>3

\* Two records of one length that agree on a slot agree on the field.
LEMMA SameSlice ==
    ASSUME NEW rec \in Seq(Byte), NEW rec2 \in Seq(Byte), Len(rec2) = Len(rec),
           NEW f, f.offset \in Nat, f.length \in Nat,
           \A k \in Slot(f) : k \in DOMAIN rec => rec2[k] = rec[k]
    PROVE  FieldSlice(rec2, f) = FieldSlice(rec, f)
  <1> DEFINE s == FieldSlice(rec, f)
             t == FieldSlice(rec2, f)
             o == f.offset
             n == f.length
  <1>1. CASE o + n > Len(rec)
    BY <1>1 DEF FieldSlice
  <1>2. CASE ~ (o + n > Len(rec))
    <2>1. s \in Seq(Byte) /\ t \in Seq(Byte)
      BY SliceFacts
    <2>2. o + n <= Len(rec) /\ o \in Nat /\ n \in Nat /\ Len(rec) \in Nat
      BY <1>2
    <2>3. Len(s) = n /\ \A k \in 1..n : s[k] = rec[o + k]
      BY <2>2, SliceFacts
    <2>4. Len(t) = n /\ \A k \in 1..n : t[k] = rec2[o + k]
      BY <2>2, SliceFacts
    <2>5. \A k \in 1..n : o + k \in Slot(f) /\ o + k \in DOMAIN rec
      BY <2>2 DEF Slot
    <2> HIDE DEF s, t, o, n
    <2>6. \A k \in 1..n : t[k] = s[k]
      BY <2>3, <2>4, <2>5
    <2>7. t = s
      BY <2>1, <2>3, <2>4, <2>6, SameSeq
    <2>8. QED
      BY <2>7 DEF s, t
  <1>3. QED
    BY <1>1, <1>2

\* The field whose bytes are at a place of a laid record: the last that fits.
LEMMA LaidAt ==
    ASSUME file \in Files, NEW bytes,
           \A i \in DOMAIN file.fields : bytes[i] \in Bytes(file.fields[i].length),
           NEW k \in 1 .. file.length
    PROVE  /\ Laid(bytes)[k] \in Byte
           /\ \A i \in DOMAIN file.fields :
                Own(i) /\ k \in Slot(file.fields[i]) => Laid(bytes)[k] = bytes[i][k - file.fields[i].offset]
  <1> DEFINE I == {i \in 1 .. Len(file.fields) : Fits(file.fields[i]) /\ k \in Slot(file.fields[i])}
             i0 == IF I # {} THEN Max(I) ELSE 0
  <1>1. Len(file.fields) \in Nat /\ DOMAIN file.fields = 1 .. Len(file.fields)
    BY FileFacts
  <1>2. Laid(bytes)[k] = IF i0 = 0 THEN 0 ELSE bytes[i0][k - file.fields[i0].offset]
    BY Zenon DEF Laid, SelectLastInSeq
  <1>3. I # {} => i0 \in I /\ i0 # 0
    <2>1. IsFiniteSet(I) /\ I \in SUBSET Nat
      <3>1. IsFiniteSet(1 .. Len(file.fields))
        BY <1>1, FS_Interval
      <3>2. QED
        BY <3>1, FS_Subset
    <2>2. I # {} => Max(I) \in I
      BY <2>1, GreatestExists DEF Max
    <2>3. \A i \in I : i # 0
      BY <1>1
    <2>4. QED
      BY <2>2, <2>3
  <1>4. I = {} => i0 = 0
    OBVIOUS
  <1> HIDE DEF i0
  <1>5. Laid(bytes)[k] \in Byte
    <2>1. CASE I = {}
      <3>1. 0 \in Byte
        BY DEF Byte
      <3>2. QED
        BY <1>2, <1>4, <2>1, <3>1
    <2>2. CASE I # {}
      <3>1. i0 \in DOMAIN file.fields /\ k \in Slot(file.fields[i0])
        BY <1>1, <1>3, <2>2
      <3>2. bytes[i0] \in [1 .. file.fields[i0].length -> Byte]
        BY <3>1 DEF Bytes
      <3>3. file.fields[i0].offset \in Nat /\ file.fields[i0].length \in Nat
        BY <3>1, FileFacts
      <3>4. k - file.fields[i0].offset \in 1 .. file.fields[i0].length
        BY <3>1, <3>3 DEF Slot
      <3>5. QED
        BY <1>2, <1>3, <2>2, <3>2, <3>4
    <2>3. QED
      BY <2>1, <2>2
  <1>6. ASSUME NEW i \in DOMAIN file.fields, Own(i), k \in Slot(file.fields[i])
        PROVE  Laid(bytes)[k] = bytes[i][k - file.fields[i].offset]
    <2>1. i \in I
      BY <1>1, <1>6 DEF Own
    <2>2. i0 = i
      <3>1. i0 \in DOMAIN file.fields /\ k \in Slot(file.fields[i0])
        BY <1>1, <1>3, <2>1
      <3>2. QED
        BY <1>6, <3>1 DEF Own
    <2>3. QED
      BY <1>2, <1>3, <2>1, <2>2
  <1>7. QED
    BY <1>5, <1>6

\* A laid record has the file's length, and each field of its own its bytes.
LEMMA LaidFacts ==
    ASSUME file \in Files, NEW bytes,
           \A i \in DOMAIN file.fields : bytes[i] \in Bytes(file.fields[i].length)
    PROVE  /\ Laid(bytes) \in Seq(Byte) /\ Len(Laid(bytes)) = file.length
           /\ \A i \in DOMAIN file.fields : Own(i) => FieldSlice(Laid(bytes), file.fields[i]) = bytes[i]
  <1> DEFINE rec == Laid(bytes)
  <1>1. file.length \in Nat
    BY FileFacts
  <1>2. rec \in Bytes(file.length)
    <2>1. \A k \in 1 .. file.length : rec[k] \in Byte
      BY LaidAt
    <2>2. rec = [k \in 1 .. file.length |-> rec[k]]
      BY DEF Laid
    <2> HIDE DEF rec
    <2>3. QED
      BY <2>1, <2>2 DEF Bytes
  <1>3. rec \in Seq(Byte) /\ Len(rec) = file.length
    <2> HIDE DEF rec
    <2>1. QED
      BY <1>1, <1>2, BytesAreSeqs
  <1>4. ASSUME NEW i \in DOMAIN file.fields, Own(i) PROVE FieldSlice(rec, file.fields[i]) = bytes[i]
    <2> DEFINE f == file.fields[i]
               s == FieldSlice(rec, f)
    <2>1. f.offset \in Nat /\ f.length \in Nat
      BY FileFacts
    <2>2. f.offset + f.length <= file.length
      BY <1>4 DEF Own, Fits
    <2>3. bytes[i] \in Seq(Byte) /\ Len(bytes[i]) = f.length
      BY <2>1, BytesAreSeqs
    <2>4. \A k \in 1 .. f.length : f.offset + k \in 1 .. file.length /\ f.offset + k \in Slot(f) /\ (f.offset + k) - f.offset = k
      BY <1>1, <2>1, <2>2 DEF Slot
    <2>5. \A k \in 1 .. f.length : rec[f.offset + k] = bytes[i][k]
      <3> TAKE k \in 1 .. f.length
      <3>1. rec[f.offset + k] = bytes[i][(f.offset + k) - f.offset]
        BY <1>4, <2>4, LaidAt
      <3>2. QED
        BY <2>4, <3>1
    <2> HIDE DEF rec, f
    <2>6. s \in Seq(Byte) /\ Len(s) = f.length /\ \A k \in 1 .. f.length : s[k] = rec[f.offset + k]
      BY <1>3, <2>1, <2>2, SliceFacts
    <2> HIDE DEF s
    <2>7. s = bytes[i]
      BY <2>3, <2>5, <2>6, SameSeq
    <2>8. QED
      BY <2>7 DEF s, f
  <1>5. QED
    BY <1>3, <1>4

\* A record in which some bytes are others is a record of the same length.
LEMMA ChangedFacts ==
    ASSUME NEW rec \in Seq(Byte), NEW new, DOMAIN new = DOMAIN rec, new = [k \in DOMAIN rec |-> new[k]],
           \A k \in DOMAIN rec : new[k] \in Byte
    PROVE  new \in Seq(Byte) /\ Len(new) = Len(rec)
  <1>1. Len(rec) \in Nat /\ DOMAIN rec = 1 .. Len(rec)
    OBVIOUS
  <1>2. new \in Bytes(Len(rec))
    BY <1>1 DEF Bytes
  <1>3. QED
    BY <1>1, <1>2, BytesAreSeqs

\* A caller's change of a field leaves the fields it shares no byte with.
LEMMA WithSliceFacts ==
    ASSUME file \in Files, NEW rec \in Seq(Byte), NEW i \in DOMAIN file.fields,
           NEW s \in Bytes(file.fields[i].length)
    PROVE  LET new == WithSlice(rec, file.fields[i], s)
           IN  /\ new \in Seq(Byte) /\ Len(new) = Len(rec)
               /\ \A j \in DOMAIN file.fields \ {i} : Own(j) =>
                    FieldSlice(new, file.fields[j]) = FieldSlice(rec, file.fields[j])
  <1> DEFINE f == file.fields[i]
             new == WithSlice(rec, f, s)
  <1>1. f.offset \in Nat /\ f.length \in Nat
    BY FileFacts
  <1>2. /\ DOMAIN new = DOMAIN rec /\ new = [k \in DOMAIN rec |-> new[k]]
        /\ \A k \in DOMAIN rec : new[k] = IF k \in Slot(f) THEN s[k - f.offset] ELSE rec[k]
    BY DEF WithSlice
  <1> HIDE DEF new
  <1>3. \A k \in DOMAIN rec : new[k] \in Byte
    <2> TAKE k \in DOMAIN rec
    <2>1. CASE k \in Slot(f)
      <3>1. k - f.offset \in 1 .. f.length
        BY <1>1, <2>1 DEF Slot
      <3>2. s[k - f.offset] \in Byte
        BY <3>1 DEF Bytes
      <3>3. QED
        BY <1>2, <2>1, <3>2
    <2>2. CASE k \notin Slot(f)
      <3>1. rec[k] \in Byte
        OBVIOUS
      <3>2. QED
        BY <1>2, <2>2, <3>1
    <2>3. QED
      BY <2>1, <2>2
  <1>4. new \in Seq(Byte) /\ Len(new) = Len(rec)
    BY <1>2, <1>3, ChangedFacts
  <1>5. ASSUME NEW j \in DOMAIN file.fields \ {i}, Own(j)
        PROVE  FieldSlice(new, file.fields[j]) = FieldSlice(rec, file.fields[j])
    <2> DEFINE g == file.fields[j]
    <2>1. Slot(g) \cap Slot(f) = {}
      BY <1>5 DEF Own
    <2>2. g.offset \in Nat /\ g.length \in Nat
      BY FileFacts
    <2> HIDE DEF g, f
    <2>3. \A k \in Slot(g) : k \in DOMAIN rec => new[k] = rec[k]
      BY <1>2, <2>1
    <2>4. FieldSlice(new, g) = FieldSlice(rec, g)
      BY <1>4, <2>2, <2>3, SameSlice
    <2>5. QED
      BY <2>4 DEF g
  <1>6. QED
    BY <1>4, <1>5 DEF new

\* The identity is written into one automatic field, into the first when that
\* is the record number, and nowhere else.
LEMMA WithIdFacts ==
    ASSUME file \in Files, NEW rec \in Seq(Byte)
    PROVE  /\ WithId(rec) \in Seq(Byte) /\ Len(WithId(rec)) = Len(rec)
           /\ \A j \in DOMAIN file.fields : Own(j) /\ ~IsAuto(j) =>
                FieldSlice(WithId(rec), file.fields[j]) = FieldSlice(rec, file.fields[j])
           /\ \A j \in DOMAIN file.fields :
                LET g == file.fields[j]
                IN  Own(j) /\ j = file.recnum /\ j = FirstAuto /\ g.length \in {1, 2, 4, 8} /\ Len(rec) = file.length
                      => FieldSlice(WithId(rec), g) = [k \in 1 .. g.length |-> NewId[k]]
  <1> DEFINE F == NumberedFields(rec)
             i == Min(F)
             f == file.fields[i]
             n == Min({f.length, 8})
             new == WithId(rec)
  <1>1. Len(file.fields) \in Nat /\ DOMAIN file.fields = 1 .. Len(file.fields) /\ NewId \in [1..8 -> Byte]
    BY FileFacts DEF Bytes
  <1>2. F \subseteq AutoFields /\ F \in SUBSET Nat /\ AutoFields \subseteq DOMAIN file.fields
    BY <1>1 DEF NumberedFields, AutoFields
  <1>3. F # {} => i \in F /\ \A j \in F : i <= j
    <2> HIDE DEF F
    <2>1. QED
      BY <1>2, LeastExists DEF Min
  <1>4. CASE F = {} \/ Len(rec) < f.offset + f.length
    <2>1. new = rec
      BY <1>4 DEF WithId
    <2>2. ASSUME NEW j \in DOMAIN file.fields, Own(j), j = file.recnum, j = FirstAuto, Len(rec) = file.length
          PROVE  FALSE
      <3>1. j \in F
        BY <2>2 DEF NumberedFields, AutoFields, IsAuto
      <3>2. AutoFields # {} /\ FirstAuto = Min(AutoFields)
        BY <1>2, <3>1 DEF FirstAuto
      <3>3. \A k \in AutoFields : j <= k
        <4>1. AutoFields \in SUBSET Nat
          BY <1>1, <1>2
        <4>2. QED
          BY <2>2, <3>2, <4>1, LeastExists DEF Min
      <3>4. i \in Nat /\ j \in Nat /\ i <= j /\ j <= i
        BY <1>2, <1>3, <3>1, <3>3
      <3> HIDE DEF i
      <3>5. i = j
        BY <3>4
      <3>6. f.offset + f.length <= file.length
        BY <2>2, <3>5 DEF Own, Fits
      <3>7. f.offset \in Nat /\ f.length \in Nat
        BY <3>5, FileFacts
      <3>8. Len(rec) \in Nat
        OBVIOUS
      <3>9. QED
        BY <1>4, <2>2, <3>1, <3>6, <3>7, <3>8
    <2>3. QED
      BY <2>1, <2>2
  <1>5. CASE F # {} /\ ~ (Len(rec) < f.offset + f.length)
    <2>0. i \in DOMAIN file.fields /\ IsAuto(i)
      BY <1>2, <1>3, <1>5 DEF AutoFields
    <2>1. f.offset \in Nat /\ f.length \in Nat
      BY <2>0, FileFacts
    <2>2. n \in Nat /\ n <= f.length /\ n <= 8 /\ (f.length \in {1, 2, 4, 8} => n = f.length)
      <3> DEFINE l == f.length
      <3>1. l \in Nat
        BY <2>1
      <3> HIDE DEF l
      <3>2. /\ Min({l, 8}) \in Nat /\ Min({l, 8}) <= l /\ Min({l, 8}) <= 8
            /\ l \in {1, 2, 4, 8} => Min({l, 8}) = l
        <4>1. {l, 8} \in SUBSET Nat /\ {l, 8} # {}
          BY <3>1
        <4>2. Min({l, 8}) \in {l, 8} /\ \A m \in {l, 8} : Min({l, 8}) <= m
          BY <4>1, LeastExists DEF Min
        <4> DEFINE x == Min({l, 8})
        <4> HIDE DEF x
        <4>3. (x = l \/ x = 8) /\ x <= l /\ x <= 8
          BY <4>2 DEF x
        <4>4. x \in Nat /\ (l <= 8 => x = l)
          BY <3>1, <4>3
        <4>5. l \in {1, 2, 4, 8} => l <= 8
          OBVIOUS
        <4>6. QED
          BY <4>3, <4>4, <4>5 DEF x
      <3>3. QED
        BY <3>2 DEF l
    <2>3. /\ DOMAIN new = DOMAIN rec /\ new = [k \in DOMAIN rec |-> new[k]]
          /\ \A k \in DOMAIN rec : new[k] = IF k \in f.offset + 1 .. f.offset + n THEN NewId[k - f.offset] ELSE rec[k]
      <3>1. new = [k \in DOMAIN rec |-> IF k \in f.offset + 1 .. f.offset + n THEN NewId[k - f.offset] ELSE rec[k]]
        BY <1>5 DEF WithId
      <3> HIDE DEF new
      <3>2. QED
        BY <3>1
    <2> HIDE DEF new, n
    <2>4. \A k \in DOMAIN rec : new[k] \in Byte
      <3> TAKE k \in DOMAIN rec
      <3>1. CASE k \in f.offset + 1 .. f.offset + n
        <4>1. k - f.offset \in 1..8
          <5> DEFINE o == f.offset
          <5>1. o \in Nat /\ k \in o + 1 .. o + n /\ n \in Nat /\ n <= 8
            BY <2>1, <2>2, <3>1
          <5> HIDE DEF o
          <5>2. k - o \in 1..8
            BY <5>1, SMTT(30)
          <5>3. QED
            BY <5>2 DEF o
        <4>2. NewId[k - f.offset] \in Byte
          BY <1>1, <4>1
        <4>3. QED
          BY <2>3, <3>1, <4>2
      <3>2. CASE k \notin f.offset + 1 .. f.offset + n
        <4>1. rec[k] \in Byte
          OBVIOUS
        <4>2. QED
          BY <2>3, <3>2, <4>1
      <3>3. QED
        BY <3>1, <3>2
    <2>5. new \in Seq(Byte) /\ Len(new) = Len(rec)
      BY <2>3, <2>4, ChangedFacts
    <2>6. ASSUME NEW j \in DOMAIN file.fields, Own(j), ~IsAuto(j)
          PROVE  FieldSlice(new, file.fields[j]) = FieldSlice(rec, file.fields[j])
      <3> DEFINE g == file.fields[j]
      <3>1. j # i
        BY <2>0, <2>6
      <3>2. Slot(g) \cap Slot(f) = {}
        BY <2>0, <2>6, <3>1 DEF Own
      <3>3. g.offset \in Nat /\ g.length \in Nat
        BY FileFacts
      <3>4. \A k \in f.offset + 1 .. f.offset + n : k \in Slot(f)
        BY <2>1, <2>2, SMTT(30) DEF Slot
      <3> HIDE DEF g, f
      <3>5. \A k \in Slot(g) : k \in DOMAIN rec => new[k] = rec[k]
        BY <2>3, <3>2, <3>4
      <3>6. FieldSlice(new, g) = FieldSlice(rec, g)
        BY <2>5, <3>3, <3>5, SameSlice
      <3>7. QED
        BY <3>6 DEF g
    <2>7. ASSUME NEW j \in DOMAIN file.fields, Own(j), j = file.recnum, j = FirstAuto,
                 file.fields[j].length \in {1, 2, 4, 8}, Len(rec) = file.length
          PROVE  FieldSlice(new, file.fields[j]) = [k \in 1 .. file.fields[j].length |-> NewId[k]]
      <3>1. j \in F
        BY <2>7 DEF NumberedFields, AutoFields, IsAuto
      <3>2. AutoFields # {} /\ FirstAuto = Min(AutoFields)
        BY <1>2, <3>1 DEF FirstAuto
      <3>3. \A k \in AutoFields : j <= k
        <4>1. AutoFields \in SUBSET Nat
          BY <1>1, <1>2
        <4>2. QED
          BY <2>7, <3>2, <4>1, LeastExists DEF Min
      <3>4. i \in Nat /\ j \in Nat /\ i <= j /\ j <= i
        BY <1>2, <1>3, <3>1, <3>3
      <3>5. i = j
        <4> HIDE DEF i
        <4>1. QED
          BY <3>4
      <3> DEFINE l == f.length
                 s == FieldSlice(new, f)
                 id == [k \in 1..l |-> NewId[k]]
      <3>6. n = l /\ l \in Nat /\ l <= 8 /\ f.offset + l <= Len(rec)
        <4>1. l \in {1, 2, 4, 8}
          BY <2>7, <3>5
        <4>2. n = l
          BY <2>2, <4>1
        <4>3. f.offset + l <= file.length
          BY <2>7, <3>5 DEF Own, Fits
        <4>4. QED
          BY <2>1, <2>2, <2>7, <4>2, <4>3
      <3>7. s \in Seq(Byte) /\ Len(s) = l /\ \A k \in 1..l : s[k] = new[f.offset + k]
        BY <2>1, <2>5, <3>6, SliceFacts
      <3>8. id \in Bytes(l)
        BY <1>1, <3>6, SMTT(30) DEF Bytes
      <3>9. id \in Seq(Byte) /\ Len(id) = l /\ \A k \in 1..l : id[k] = NewId[k]
        <4>1. \A k \in 1..l : id[k] = NewId[k]
          OBVIOUS
        <4> HIDE DEF id, l
        <4>2. QED
          BY <3>6, <3>8, <4>1, BytesAreSeqs
      <3> DEFINE o == f.offset
      <3>10. o \in Nat
        BY <2>1
      <3>11. \A k \in DOMAIN rec : new[k] = IF k \in o + 1 .. o + n THEN NewId[k - o] ELSE rec[k]
        BY <2>3
      <3>12. \A k \in 1..l : s[k] = new[o + k]
        BY <3>7
      <3>13. o + l <= Len(rec)
        BY <3>6
      <3> HIDE DEF l, s, id, o
      <3>14. \A k \in 1..l : o + k \in DOMAIN rec /\ o + k \in o + 1 .. o + n /\ (o + k) - o = k
        BY <3>6, <3>10, <3>13
      <3>15. \A k \in 1..l : s[k] = id[k]
        BY <3>9, <3>11, <3>12, <3>14
      <3>16. s = id
        BY <3>7, <3>9, <3>15, SameSeq
      <3>17. QED
        BY <3>5, <3>16 DEF s, id, l
    <2>8. QED
      BY <2>5, <2>6, <2>7 DEF new
  <1>6. QED
    BY <1>4, <1>5

\* A caller's image is a sequence of bytes.
LEMMA ImageFacts ==
    ASSUME file \in Files, NEW rec \in Images
    PROVE  rec \in Seq(Byte)
  <1> DEFINE D == DOMAIN file.fields
             Chosen == {c \in [D -> UNION {Slices(file, i) : i \in D}] : \A i \in D : c[i] \in Slices(file, i)}
  <1>1. \A c \in Chosen : Laid(c) \in Seq(Byte) /\ Len(Laid(c)) = file.length
    <2> TAKE c \in Chosen
    <2>1. \A i \in DOMAIN file.fields : c[i] \in Bytes(file.fields[i].length)
      BY CodecAssumption DEF Bytes
    <2>2. QED
      BY <2>1, LaidFacts
  <1>2. PICK c \in Chosen : rec = Laid(c) \/ rec = SubSeq(Laid(c), 1, file.length - 1)
    BY DEF Images
  <1>3. CASE rec = Laid(c)
    BY <1>1, <1>2, <1>3
  <1>4. CASE rec = SubSeq(Laid(c), 1, file.length - 1)
    <2> DEFINE u == Laid(c)
    <2>1. u \in Seq(Byte) /\ Len(u) = file.length /\ file.length \in Nat
      BY <1>1, FileFacts
    <2> HIDE DEF u
    <2>2. \A k \in 1 .. file.length - 1 : k \in 1 .. Len(u)
      BY <2>1
    <2>3. SubSeq(u, 1, file.length - 1) \in Seq(Byte)
      BY <2>1, <2>2
    <2>4. QED
      BY <1>4, <2>3 DEF u
  <1>5. QED
    BY <1>2, <1>3, <1>4

-----------------------------------------------------------------------------
(***************************************************************************)
(* Keys: each segment of a key is found where the record's bytes of its    *)
(* field were put.                                                         *)
(***************************************************************************)
\* The least of two numbers.
LEMMA MinOfTwo ==
    ASSUME NEW a \in Nat, NEW b \in Nat, a <= b
    PROVE  Min({a, b}) = a
  <1>1. {a, b} \in SUBSET Nat /\ {a, b} # {}
    OBVIOUS
  <1>2. Min({a, b}) \in {a, b} /\ \A m \in {a, b} : Min({a, b}) <= m
    BY <1>1, LeastExists DEF Min
  <1> DEFINE x == Min({a, b})
  <1> HIDE DEF x
  <1>3. x \in {a, b} /\ x <= a
    BY <1>2 DEF x
  <1>4. x = a
    BY <1>3
  <1>5. QED
    BY <1>4 DEF x

\* The recursive function of a key's offsets exists and gives the offsets of
\* the pieces the key is put together from.
LEMMA KeyAtFacts ==
    ASSUME file \in Files, NEW n \in Nat, NEW segs \in [1..n -> DOMAIN file.fields],
           NEW pieces \in Seq(Seq(Byte)), Len(pieces) = n,
           \A j \in 1..n : Len(pieces[j]) = file.fields[segs[j]].length
    PROVE  Offsets([j \in 1..n |-> KeyAt(segs, j)], pieces)
  <1> DEFINE len(k) == file.fields[segs[k]].length
             Good(m, f) == f = [k \in 1..m |-> IF k = 1 THEN 0 ELSE f[k-1] + len(k-1)]
             Bad == {m \in Nat : ~ \E f : Good(m, f)}
  <1>1. Bad = {}
    <2> HIDE DEF len
    <2> SUFFICES ASSUME Bad # {} PROVE FALSE
      OBVIOUS
    <2>1. PICK m \in Bad : \A l \in Bad : m <= l
      BY LeastExists
    <2>2. m # 0
      <3>1. Good(0, [k \in {} |-> 0])
        OBVIOUS
      <3>2. QED
        BY <3>1, <2>1
    <2>3. m - 1 \in Nat /\ m - 1 \notin Bad
      <3>1. m \in Nat
        OBVIOUS
      <3>2. m - 1 \in Nat /\ ~ (m <= m - 1)
        BY <2>2, <3>1
      <3>3. QED
        BY <2>1, <3>2
    <2>4. PICK g : Good(m - 1, g)
      BY <2>3
    <2> DEFINE f == [k \in 1..m |-> IF k = 1 THEN 0 ELSE g[k-1] + len(k-1)]
    <2>5. \A k \in 1 .. m-1 : f[k] = g[k]
      <3>1. \A k \in 1 .. m-1 : k \in 1..m
        BY <2>3
      <3>2. \A k \in 1 .. m-1 : g[k] = IF k = 1 THEN 0 ELSE g[k-1] + len(k-1)
        BY <2>4
      <3>3. QED
        BY <3>1, <3>2
    <2>6. Good(m, f)
      <3>1. \A k \in 1..m : k = 1 \/ k-1 \in 1 .. m-1
        BY <2>3
      <3>2. QED
        BY <3>1, <2>5
    <2>7. QED
      BY <2>6, <2>1
  <1> DEFINE at == CHOOSE f : Good(n, f)
  <1>2. Good(n, at)
    <2> HIDE DEF Good
    <2>1. \E f : Good(n, f)
      BY <1>1
    <2>2. QED
      BY <2>1
  <1>3. \A j \in 1..n : KeyAt(segs, j) = at[j]
    <2>1. DOMAIN segs = 1..n
      OBVIOUS
    <2>2. QED
      BY <2>1 DEF KeyAt
  <1>4. \A k \in 1..n : at[k] = IF k = 1 THEN 0 ELSE at[k-1] + len(k-1)
    <2> HIDE DEF at, len
    <2>1. QED
      BY <1>2
  <1>5. \A k \in 1..n : len(k) = Len(pieces[k]) /\ len(k) \in Nat
    <2>1. \A k \in 1..n : pieces[k] \in Seq(Byte)
      OBVIOUS
    <2>2. QED
      BY <2>1
  <1> HIDE DEF at, len
  <1>6. \A k \in 1..n : at[k] \in Nat
    <2> DEFINE Odd == {k \in 1..n : at[k] \notin Nat}
    <2> SUFFICES ASSUME Odd # {} PROVE FALSE
      OBVIOUS
    <2>1. PICK k \in Odd : \A l \in Odd : k <= l
      <3>1. Odd \in SUBSET Nat
        OBVIOUS
      <3> HIDE DEF Odd
      <3>2. QED
        BY <3>1, LeastExists
    <2>2. k # 1
      BY <1>4, <2>1
    <2>3. k-1 \in 1..n /\ ~ (k <= k-1)
      BY <2>1, <2>2
    <2>4. at[k-1] \in Nat /\ len(k-1) \in Nat
      BY <1>5, <2>1, <2>3
    <2>5. at[k] = at[k-1] + len(k-1)
      BY <1>4, <2>1, <2>2
    <2>6. QED
      BY <2>1, <2>4, <2>5
  <1> DEFINE A == [j \in 1..n |-> KeyAt(segs, j)]
  <1>7. \A j \in 1..n : A[j] = at[j]
    BY <1>3
  <1>8. A \in [1..n -> Nat]
    BY <1>3, <1>6
  <1> HIDE DEF A
  <1>9. ASSUME NEW i \in 1..n PROVE A[i] = IF i = 1 THEN 0 ELSE A[i-1] + Len(pieces[i-1])
    <2>1. CASE i = 1
      BY <1>4, <1>7, <2>1
    <2>2. CASE i # 1
      <3>1. i-1 \in 1..n
        BY <2>2
      <3>2. A[i-1] = at[i-1] /\ len(i-1) = Len(pieces[i-1])
        BY <1>5, <1>7, <3>1
      <3>3. A[i] = at[i-1] + len(i-1)
        BY <1>4, <1>7, <2>2
      <3>4. QED
        BY <2>2, <3>2, <3>3
    <2>3. QED
      BY <2>1, <2>2
  <1>10. QED
    BY <1>8, <1>9 DEF Offsets, A

\* What is cut from a key at a segment is what was put there.
LEMMA KeyPieces ==
    ASSUME file \in Files, NEW n \in Nat, NEW segs \in [1..n -> DOMAIN file.fields],
           NEW piece, \A i \in DOMAIN file.fields : piece[i] \in Bytes(file.fields[i].length)
    PROVE  \A j \in 1..n :
              KeySlice(file.fields[segs[j]], FlattenSeq([i \in 1..n |-> piece[segs[i]]]), KeyAt(segs, j))
                = piece[segs[j]]
  <1> DEFINE p == [i \in 1..n |-> piece[segs[i]]]
             buf == FlattenSeq(p)
             at == [j \in 1..n |-> KeyAt(segs, j)]
  <1>1. \A i \in DOMAIN file.fields : /\ file.fields[i].length \in Nat
                                      /\ piece[i] \in Seq(Byte) /\ Len(piece[i]) = file.fields[i].length
    <2> TAKE i \in DOMAIN file.fields
    <2>1. file.fields[i].length \in Nat
      BY FileFacts
    <2>2. QED
      BY <2>1, BytesAreSeqs
  <1>2. p \in Seq(Seq(Byte)) /\ Len(p) = n /\ \A j \in 1..n : p[j] = piece[segs[j]]
    BY <1>1
  <1>3. \A j \in 1..n : Len(p[j]) = file.fields[segs[j]].length
    BY <1>1, <1>2
  <1> HIDE DEF p
  <1>4. Offsets(at, p)
    BY <1>2, <1>3, KeyAtFacts
  <1>5. buf \in Seq(Byte) /\ Placed(at, p, n, buf)
    BY <1>2, <1>4, FlattenPieces
  <1>6. \A j \in 1..n : at[j] = KeyAt(segs, j)
    OBVIOUS
  <1> HIDE DEF at, buf
  <1>7. ASSUME NEW j \in 1..n PROVE KeySlice(file.fields[segs[j]], buf, at[j]) = p[j]
    <2> DEFINE a == at[j]
               l == file.fields[segs[j]].length
               s == SubSeq(buf, a + 1, a + l)
    <2>1. a \in Nat
      BY <1>2, <1>4 DEF Offsets
    <2>2. l \in Nat /\ Len(p[j]) = l /\ p[j] \in Seq(Byte)
      BY <1>1, <1>2, <1>3
    <2>3. a + l <= Len(buf) /\ \A k \in 1..l : buf[a + k] = p[j][k]
      BY <1>5, <2>2 DEF Placed
    <2>4. KeySlice(file.fields[segs[j]], buf, a) = SubSeq(buf, a + 1, Min({a + l, Len(buf)}))
      BY DEF KeySlice
    <2> HIDE DEF a, l
    <2>5. Min({a + l, Len(buf)}) = a + l
      <3>1. a + l \in Nat /\ Len(buf) \in Nat /\ a + l <= Len(buf)
        BY <1>5, <2>1, <2>2, <2>3
      <3> DEFINE x == a + l
                 y == Len(buf)
      <3> HIDE DEF x, y
      <3>2. x \in Nat /\ y \in Nat /\ x <= y
        BY <3>1 DEF x, y
      <3>3. Min({x, y}) = x
        BY <3>2, MinOfTwo
      <3>4. QED
        BY <3>3 DEF x, y
    <2>6. s \in Seq(Byte) /\ Len(s) = l /\ \A k \in 1..l : s[k] = buf[a + k]
      <3>1. \A k \in a+1 .. a+l : k \in 1 .. Len(buf)
        BY <1>5, <2>1, <2>2, <2>3
      <3>2. Len(s) = l
        BY <1>5, <2>1, <2>2, <3>1
      <3>3. s \in Seq(Byte)
        BY <1>5, <2>1, <2>2, <3>1
      <3>4. \A k \in 1..l : s[k] = buf[a + k]
        BY <1>5, <2>1, <2>2, <3>1
      <3>5. QED
        BY <3>2, <3>3, <3>4
    <2> HIDE DEF s
    <2>7. s = p[j]
      BY <2>2, <2>3, <2>6, SameSeq
    <2>8. QED
      BY <2>4, <2>5, <2>7 DEF a, s
  <1>8. QED
    BY <1>2, <1>6, <1>7 DEF buf, p

-----------------------------------------------------------------------------
(***************************************************************************)
(* The inductive invariant.  A column holds what one of the decoders made  *)
(* of some bytes, or the identity, or nothing where the first automatic    *)
(* field is not the identity; and the caller's buffer still says of every  *)
(* field that was not changed in it what its column says.                  *)
(***************************************************************************)
InColumn(i, v) ==
    \/ Stored(file.fields[i], v)
    \/ IsAuto(i) /\ v \in {Null, I64(NewId)}

\* A column the way through the image does not change: one field's bytes.
Kept(i) == Own(i) /\ ~IsAuto(i) /\ Settled(file.fields[i], row[i])

RowHolds ==
    /\ DOMAIN row = DOMAIN file.fields
    /\ \A i \in DOMAIN file.fields : InColumn(i, row[i])

BufferHolds == \A i \in DOMAIN file.fields \ edited : Kept(i) => Unpacked(image, i) = row[i]

CodecInv ==
    /\ file \in Files
    /\ image \in Seq(Byte)
    /\ row # NoRow => RowHolds /\ BufferHolds

\* What a column holds is a value, and is packed into bytes of its slot.
LEMMA InColumnFacts ==
    ASSUME file \in Files, NEW i \in DOMAIN file.fields, NEW v, InColumn(i, v)
    PROVE  IsValue(v) /\ PackField(file.fields[i], Fetched(v)) \in Bytes(file.fields[i].length)
  <1> DEFINE f == file.fields[i]
  <1>1. FieldOK(f) /\ f.length \in Nat /\ f.type \in Nat /\ NewId \in Bytes(8)
    BY FileFacts
  <1> HIDE DEF f
  <1>2. IsValue(v)
    <2>1. CASE Stored(f, v)
      <3>1. PICK s \in Seq(Byte) : v \in {Bound(UnpackField(f, s)), ImportField(f, s)}
        BY <2>1 DEF Stored
      <3>2. IsValue(UnpackField(f, s))
        BY <1>1, UnpackIsValue
      <3>3. IsValue(Bound(UnpackField(f, s)))
        BY <3>2, BoundIsValue
      <3>4. IsValue(ImportField(f, s))
        BY <1>1, ImportIsValue
      <3>5. QED
        BY <3>1, <3>3, <3>4
    <2>2. CASE v = Null
      BY <2>2, Kinds
    <2>3. CASE v = I64(NewId)
      <3>1. NewId \in Seq(Byte)
        BY <1>1, BytesAreSeqs
      <3>2. Fill(NewId, 8, 0) \in Bytes(8) /\ I64(NewId) = Value("int", Fill(NewId, 8, 0))
        BY <3>1, I64Facts
      <3>3. QED
        BY <2>3, <3>2, Kinds
    <2>4. QED
      BY <2>1, <2>2, <2>3 DEF InColumn, f
  <1>3. IsValue(Fetched(v))
    BY <1>2, BoundIsValue
  <1>4. PackField(f, Fetched(v)) \in Bytes(f.length)
    BY <1>1, <1>3, PackIsBytes
  <1>5. QED
    BY <1>2, <1>4 DEF f

\* What a decoder makes of a field's part of a record is what a column holds.
LEMMA SliceStored ==
    ASSUME file \in Files, NEW i \in DOMAIN file.fields, NEW rec \in Seq(Byte)
    PROVE  /\ Stored(file.fields[i], Unpacked(rec, i))
           /\ Stored(file.fields[i], ImportField(file.fields[i], FieldSlice(rec, file.fields[i])))
  <1> DEFINE f == file.fields[i]
             s == FieldSlice(rec, f)
  <1>1. s \in Seq(Byte) /\ Len(s) \in {0, f.length}
    BY FileFacts, SliceFacts
  <1>2. Unpacked(rec, i) = Bound(UnpackField(f, s))
    BY DEF Unpacked
  <1> HIDE DEF f, s
  <1>3. Stored(f, Bound(UnpackField(f, s))) /\ Stored(f, ImportField(f, s))
    BY <1>1 DEF Stored
  <1>4. QED
    BY <1>2, <1>3 DEF f, s

\* The image of a row: each field of its own has the bytes of its column.
LEMMA PackRowFacts ==
    ASSUME file \in Files, NEW stored, DOMAIN stored = DOMAIN file.fields,
           \A i \in DOMAIN file.fields : InColumn(i, stored[i])
    PROVE  /\ PackRow(ReadRow(stored)) \in Seq(Byte)
           /\ \A i \in DOMAIN file.fields : Own(i) =>
                FieldSlice(PackRow(ReadRow(stored)), file.fields[i]) = PackField(file.fields[i], Fetched(stored[i]))
  <1> DEFINE r == ReadRow(stored)
             bytes == [i \in DOMAIN r |-> PackField(file.fields[i], r[i])]
  <1>1. DOMAIN r = DOMAIN file.fields /\ \A i \in DOMAIN file.fields : r[i] = Fetched(stored[i])
    BY DEF ReadRow
  <1> HIDE DEF r
  <1>2. \A i \in DOMAIN file.fields : bytes[i] = PackField(file.fields[i], Fetched(stored[i]))
    BY <1>1
  <1>3. \A i \in DOMAIN file.fields : bytes[i] \in Bytes(file.fields[i].length)
    BY <1>2, InColumnFacts
  <1>4. PackRow(r) = Laid(bytes)
    BY DEF PackRow
  <1> HIDE DEF bytes
  <1>5. /\ Laid(bytes) \in Seq(Byte)
        /\ \A i \in DOMAIN file.fields : Own(i) => FieldSlice(Laid(bytes), file.fields[i]) = bytes[i]
    BY <1>3, LaidFacts
  <1>6. QED
    BY <1>2, <1>4, <1>5 DEF r

\* A column the image keeps comes back from its bytes.
LEMMA ColumnComes ==
    ASSUME file \in Files, RowHolds, NEW i \in DOMAIN file.fields,
           Settled(file.fields[i], row[i]), ~IsAuto(i) \/ row[i] # Null
    PROVE  Comes(file.fields[i], row[i])
  <1> DEFINE f == file.fields[i]
             v == row[i]
  <1>1. FieldOK(f) /\ NewId \in Bytes(8)
    BY FileFacts
  <1>2. CASE Stored(f, v)
    BY <1>1, <1>2, RoundTrip
  <1>3. CASE ~Stored(f, v)
    <2>1. IsAuto(i) /\ v = I64(NewId)
      BY <1>3 DEF RowHolds, InColumn
    <2>2. f.type \notin {14, 15}
      BY DEF Settled
    <2>3. i = file.recnum
      BY <2>1, <2>2 DEF IsAuto
    <2>4. f.type = 1 /\ (f.length \in {1, 2, 4, 8} => IntOf(Fill(NewId, f.length, 0)) = I64(NewId))
      BY <2>2, <2>3, RecnumFacts
    <2>5. f.length \in {1, 2, 4, 8}
      BY <2>4 DEF Settled
    <2>6. \E id \in Bytes(8) : v = I64(id) /\ IntOf(Fill(id, f.length, 0)) = I64(id)
      BY <1>1, <2>1, <2>4, <2>5
    <2> HIDE DEF f, v
    <2>7. Settled(f, v)
      BY DEF f, v
    <2>8. Comes(f, v)
      BY <1>1, <2>4, <2>6, <2>7, RoundTrip
    <2>9. QED
      BY <2>8 DEF f, v
  <1>4. QED
    BY <1>2, <1>3

-----------------------------------------------------------------------------
(***************************************************************************)
(* Each operation preserves the invariant.                                 *)
(***************************************************************************)
\* Insert: what was read from the buffer, and the identity or nothing.
LEMMA InsertColumns ==
    ASSUME CodecInv, InsertRecord
    PROVE  DOMAIN row' = DOMAIN file.fields /\ \A i \in DOMAIN file.fields : InColumn(i, row'[i])
  <1>1. file \in Files /\ image \in Seq(Byte)
    BY DEF CodecInv
  <1>2. row' = InsertRow(image)
    BY DEF InsertRecord
  <1>3. ASSUME NEW i \in DOMAIN file.fields PROVE InColumn(i, InsertRow(image)[i])
    <2>1. CASE i # FirstAuto
      <3>1. InsertRow(image)[i] = Unpacked(image, i)
        BY <2>1 DEF InsertRow
      <3>2. QED
        BY <1>1, <3>1, SliceStored DEF InColumn
    <2>2. CASE i = FirstAuto
      <3>1. InsertRow(image)[i] \in {Null, I64(NewId)}
        BY <2>2 DEF InsertRow
      <3>2. IsAuto(i)
        <4>1. DOMAIN file.fields = 1 .. Len(file.fields) /\ Len(file.fields) \in Nat
          BY <1>1, FileFacts
        <4>2. AutoFields # {} /\ AutoFields \in SUBSET Nat /\ FirstAuto = Min(AutoFields)
          BY <2>2, <4>1 DEF FirstAuto, AutoFields
        <4>3. FirstAuto \in AutoFields
          BY <4>2, LeastExists DEF Min
        <4>4. QED
          BY <2>2, <4>3 DEF AutoFields
      <3>3. QED
        BY <3>1, <3>2 DEF InColumn
    <2>3. QED
      BY <2>1, <2>2
  <1>4. DOMAIN InsertRow(image) = DOMAIN file.fields
    BY DEF InsertRow
  <1>5. QED
    BY <1>2, <1>3, <1>4

\* Nothing is left of the buffer that an Insert says to be unchanged.
LEMMA InsertHolds ==
    ASSUME CodecInv, InsertRecord
    PROVE  CodecInv'
  <1>1. file \in Files /\ image \in Seq(Byte) /\ file' = file
    BY DEF CodecInv, InsertRecord
  <1>2. image' \in Seq(Byte)
    BY <1>1, WithIdFacts DEF InsertRecord
  <1>3. RowHolds'
    BY <1>1, InsertColumns DEF RowHolds, InColumn, IsAuto
  <1>4. BufferHolds'
    BY <1>1 DEF InsertRecord, BufferHolds
  <1>5. QED
    BY <1>1, <1>2, <1>3, <1>4 DEF CodecInv

\* The import: what its decoder makes of the record.
LEMMA ImportHolds ==
    ASSUME CodecInv, ImportRecord
    PROVE  CodecInv'
  <1>1. file \in Files /\ image \in Seq(Byte) /\ file' = file /\ image' = image
    BY DEF CodecInv, ImportRecord
  <1>2. row' = ImportRow(image)
    BY DEF ImportRecord
  <1>3. ASSUME NEW i \in DOMAIN file.fields PROVE InColumn(i, ImportRow(image)[i])
    BY <1>1, SliceStored DEF ImportRow, InColumn
  <1>4. DOMAIN ImportRow(image) = DOMAIN file.fields
    BY DEF ImportRow
  <1>5. RowHolds'
    BY <1>1, <1>2, <1>3, <1>4 DEF RowHolds, InColumn, IsAuto
  <1>6. BufferHolds'
    BY <1>1 DEF ImportRecord, BufferHolds
  <1>7. QED
    BY <1>1, <1>5, <1>6 DEF CodecInv

\* A Get: the buffer says what the columns say.
LEMMA GetHolds ==
    ASSUME CodecInv, GetRecord
    PROVE  CodecInv'
  <1>1. file \in Files /\ RowHolds /\ file' = file /\ row' = row
    BY DEF CodecInv, GetRecord
  <1> DEFINE rec == PackRow(ReadRow(row))
  <1>2. image' = rec
    BY DEF GetRecord
  <1>3. /\ rec \in Seq(Byte)
        /\ \A i \in DOMAIN file.fields : Own(i) =>
             FieldSlice(rec, file.fields[i]) = PackField(file.fields[i], Fetched(row[i]))
    BY <1>1, PackRowFacts DEF RowHolds
  <1> HIDE DEF rec
  <1>4. ASSUME NEW i \in DOMAIN file.fields, Kept(i) PROVE Unpacked(rec, i) = row[i]
    <2>1. Comes(file.fields[i], row[i])
      BY <1>1, <1>4, ColumnComes DEF Kept
    <2>2. Bound(UnpackField(file.fields[i], PackField(file.fields[i], Fetched(row[i])))) = row[i]
      BY <2>1 DEF Comes
    <2>3. FieldSlice(rec, file.fields[i]) = PackField(file.fields[i], Fetched(row[i]))
      BY <1>3, <1>4 DEF Kept
    <2>4. QED
      BY <2>2, <2>3 DEF Unpacked
  <1>5. RowHolds'
    BY <1>1 DEF RowHolds, InColumn, IsAuto
  <1>6. BufferHolds'
    BY <1>1, <1>2, <1>4 DEF BufferHolds, Kept, Own, Fits, IsAuto, Unpacked
  <1>7. QED
    BY <1>1, <1>2, <1>3, <1>5, <1>6 DEF CodecInv

\* A change of one field leaves the others in the buffer as they are.
LEMMA EditHolds ==
    ASSUME CodecInv, NEW i \in DOMAIN file.fields, EditField(i)
    PROVE  CodecInv'
  <1>1. /\ file \in Files /\ image \in Seq(Byte) /\ RowHolds /\ BufferHolds
        /\ file' = file /\ row' = row /\ edited = {} /\ edited' = {i}
    BY DEF CodecInv, EditField
  <1>2. PICK s \in Slices(file, i) : image' = WithSlice(image, file.fields[i], s)
    BY DEF EditField
  <1>3. s \in Bytes(file.fields[i].length)
    BY <1>1, CodecAssumption DEF Bytes
  <1>4. /\ image' \in Seq(Byte)
        /\ \A j \in DOMAIN file.fields \ {i} : Own(j) =>
             FieldSlice(image', file.fields[j]) = FieldSlice(image, file.fields[j])
    BY <1>1, <1>2, <1>3, WithSliceFacts
  <1>5. \A j \in DOMAIN file.fields \ {i} : Kept(j) => Unpacked(image', j) = row[j]
    BY <1>1, <1>4 DEF BufferHolds, Kept, Unpacked
  <1>6. RowHolds'
    BY <1>1 DEF RowHolds, InColumn, IsAuto
  <1>7. BufferHolds'
    BY <1>1, <1>5 DEF BufferHolds, Kept, Own, Fits, IsAuto, Unpacked
  <1>8. QED
    BY <1>1, <1>4, <1>6, <1>7 DEF CodecInv

\* An Update: the columns say what the buffer says, the automatic ones apart.
LEMMA UpdateHolds ==
    ASSUME CodecInv, UpdateRecord
    PROVE  CodecInv'
  <1>1. /\ file \in Files /\ image \in Seq(Byte) /\ RowHolds
        /\ file' = file /\ image' = image /\ edited' = edited
    BY DEF CodecInv, UpdateRecord
  <1>2. row' = UpdateRow(image)
    BY DEF UpdateRecord
  <1>3. DOMAIN UpdateRow(image) = DOMAIN file.fields
    BY DEF UpdateRow
  <1>4. ASSUME NEW i \in DOMAIN file.fields
        PROVE  /\ InColumn(i, UpdateRow(image)[i])
               /\ ~IsAuto(i) => UpdateRow(image)[i] = Unpacked(image, i)
    <2>1. UpdateRow(image)[i] = IF IsAuto(i) THEN row[i] ELSE Unpacked(image, i)
      BY DEF UpdateRow
    <2>2. InColumn(i, row[i])
      BY <1>1 DEF RowHolds
    <2>3. InColumn(i, Unpacked(image, i))
      BY <1>1, SliceStored DEF InColumn
    <2>4. QED
      BY <2>1, <2>2, <2>3
  <1>5. RowHolds'
    BY <1>1, <1>2, <1>3, <1>4 DEF RowHolds, InColumn, IsAuto
  <1>6. BufferHolds'
    BY <1>1, <1>2, <1>4 DEF BufferHolds, Kept, Own, Fits, IsAuto, Unpacked
  <1>7. QED
    BY <1>1, <1>5, <1>6 DEF CodecInv

\* Every step.
LEMMA CodecStepHolds ==
    ASSUME CodecInv, [Next]_vars
    PROVE  CodecInv'
  <1>1. CASE UNCHANGED vars
    BY <1>1 DEF vars, CodecInv, RowHolds, BufferHolds, InColumn, IsAuto, Kept, Own, Fits, Unpacked
  <1>2. CASE \E i \in DOMAIN file.fields : EditField(i)
    BY <1>2, EditHolds
  <1>3. QED
    BY <1>1, <1>2, InsertHolds, ImportHolds, GetHolds, UpdateHolds DEF Next

-----------------------------------------------------------------------------
(***************************************************************************)
(* The theorems.                                                           *)
(***************************************************************************)
\* In every behaviour the columns hold values of the decoders, and the buffer
\* says of the fields that were not changed in it what their columns say.
THEOREM CodecInvariant == Spec => []CodecInv
  <1>1. Init => CodecInv
    BY ImageFacts DEF Init, CodecInv
  <1>2. CodecInv /\ [Next]_vars => CodecInv'
    BY CodecStepHolds
  <1>3. QED
    BY <1>1, <1>2, PTL DEF Spec

\* Get Equal finds a record by the key made of its own bytes, over any number
\* of fields of any layout, and an extended Get by the bytes of one field.
THEOREM KeysFindRecords == Spec => []KeyFindsRecord
  <1>1. CodecInv => KeyFindsRecord
    <2> DEFINE rec == PackRow(ReadRow(row))
               S(i) == FieldSlice(rec, file.fields[i])
               Found == {i \in DOMAIN file.fields : Own(i) /\ Searchable(file.fields[i], row[i])}
    <2> SUFFICES ASSUME CodecInv, row # NoRow
                 PROVE  /\ \A n \in 0..MaxSegs : \A segs \in [1..n -> Found] :
                             KeyFields(segs, FlattenSeq([j \in 1..n |-> S(segs[j])])) = [j \in 1..n |-> row[segs[j]]]
                        /\ \A i \in Found : Bound(TermValue(file.fields[i], S(i))) = row[i]
      BY DEF KeyFindsRecord
    <2>1. file \in Files /\ RowHolds /\ MaxSegs \in Nat
      BY CodecAssumption DEF CodecInv
    <2>2. \A i \in Found : S(i) = PackField(file.fields[i], Fetched(row[i]))
      BY <2>1, PackRowFacts DEF RowHolds
    <2>3. ASSUME NEW i \in Found
          PROVE  Bound(UnpackField(file.fields[i], S(i))) = row[i] /\ Bound(KeyValue(file.fields[i], S(i))) = row[i]
      <3>1. Searchable(file.fields[i], row[i])
        OBVIOUS
      <3>2. Settled(file.fields[i], row[i]) /\ row[i] # Null
        BY <3>1 DEF Searchable
      <3>3. Comes(file.fields[i], row[i])
        BY <2>1, <3>2, ColumnComes
      <3>4. QED
        BY <2>2, <3>1, <3>3 DEF Comes
    <2> HIDE DEF S
    <2>4. ASSUME NEW i \in Found PROVE Bound(TermValue(file.fields[i], S(i))) = row[i]
      <3> DEFINE f == file.fields[i]
                 s == S(i)
      <3>1. f.length \in Nat
        BY <2>1, FileFacts
      <3>2. s \in Bytes(f.length)
        BY <2>1, <2>2, InColumnFacts DEF RowHolds
      <3>3. Bound(UnpackField(f, s)) = row[i]
        BY <2>3
      <3> HIDE DEF f, s
      <3>4. s \in Seq(Byte) /\ Len(s) = f.length
        BY <3>1, <3>2, BytesAreSeqs
      <3> DEFINE z == Fill(s, f.length, 0)
      <3>5. Padded(z, s, f.length, 0)
        <4>1. 0 \in Byte
          BY DEF Byte
        <4>2. QED
          BY <3>1, <3>4, <4>1, FillPadded
      <3>6. TermValue(f, s) = UnpackField(f, z)
        BY DEF TermValue
      <3> HIDE DEF z
      <3>7. z \in Seq(Byte) /\ Len(z) = Len(s) /\ \A k \in 1 .. Len(z) : z[k] = s[k]
        BY <3>4, <3>5 DEF Padded
      <3>8. z = s
        BY <3>4, <3>7, SameSeq
      <3>9. Bound(TermValue(f, s)) = row[i]
        BY <3>3, <3>6, <3>8
      <3>10. QED
        BY <3>9 DEF f, s
    <2>5. ASSUME NEW n \in 0..MaxSegs, NEW segs \in [1..n -> Found]
          PROVE  KeyFields(segs, FlattenSeq([j \in 1..n |-> S(segs[j])])) = [j \in 1..n |-> row[segs[j]]]
      <3> DEFINE piece == [i \in DOMAIN file.fields |->
                             IF i \in Found THEN S(i) ELSE PackField(file.fields[i], Fetched(row[i]))]
                 buf == FlattenSeq([j \in 1..n |-> S(segs[j])])
      <3>1. \A i \in DOMAIN file.fields : piece[i] \in Bytes(file.fields[i].length)
        BY <2>1, <2>2, InColumnFacts DEF RowHolds
      <3>2. \A j \in 1..n : segs[j] \in Found /\ segs[j] \in DOMAIN file.fields
        OBVIOUS
      <3>3. \A j \in 1..n : piece[segs[j]] = S(segs[j])
        BY <3>2
      <3> HIDE DEF piece, Found
      <3>4. [j \in 1..n |-> piece[segs[j]]] = [j \in 1..n |-> S(segs[j])]
        BY <3>3
      <3>5. segs \in [1..n -> DOMAIN file.fields] /\ n \in Nat
        BY <2>1, <3>2
      <3>6. \A j \in 1..n : KeySlice(file.fields[segs[j]], FlattenSeq([i \in 1..n |-> piece[segs[i]]]), KeyAt(segs, j)) = piece[segs[j]]
        BY <2>1, <3>1, <3>5, KeyPieces
      <3>7. \A j \in 1..n : KeySlice(file.fields[segs[j]], buf, KeyAt(segs, j)) = S(segs[j])
        BY <3>3, <3>4, <3>6
      <3> HIDE DEF buf
      <3>8. \A j \in 1..n : Bound(KeyValue(file.fields[segs[j]], S(segs[j]))) = row[segs[j]]
        BY <2>3, <3>2
      <3>9. KeyFields(segs, buf) = [j \in 1..n |-> Bound(KeyValue(file.fields[segs[j]], KeySlice(file.fields[segs[j]], buf, KeyAt(segs, j))))]
        BY DEF KeyFields
      <3>10. KeyFields(segs, buf) = [j \in 1..n |-> row[segs[j]]]
        BY <3>7, <3>8, <3>9
      <3>11. QED
        BY <3>10 DEF buf
    <2>6. QED
      BY <2>4, <2>5 DEF Found, S
  <1>2. QED
    BY <1>1, CodecInvariant, PTL

\* What Insert stored reads back as the caller's buffer has it.
THEOREM InsertedReadsBack == Spec => InsertReadsBack
  <1>1. CodecInv /\ [Next]_vars =>
          [row = NoRow /\ origin' = "insert" /\ Len(image) = file.length =>
             \A i \in DOMAIN file.fields :
                LET f == file.fields[i]
                    s == FieldSlice(image', f)
                IN  Own(i) /\ (IF IsAuto(i) THEN i = file.recnum /\ i = FirstAuto /\ f.length \in {1, 2, 4, 8}
                               ELSE Canonical(f, s))
                        => FieldSlice(PackRow(ReadRow(row')), f) = s]_vars
    <2> SUFFICES ASSUME CodecInv, Next, row = NoRow, origin' = "insert", Len(image) = file.length,
                        NEW i \in DOMAIN file.fields, Own(i),
                        IF IsAuto(i) THEN i = file.recnum /\ i = FirstAuto /\ file.fields[i].length \in {1, 2, 4, 8}
                        ELSE Canonical(file.fields[i], FieldSlice(image', file.fields[i]))
                 PROVE  FieldSlice(PackRow(ReadRow(row')), file.fields[i]) = FieldSlice(image', file.fields[i])
      BY DEF vars
    <2> DEFINE f == file.fields[i]
               s == FieldSlice(image', f)
    <2>1. InsertRecord
      BY DEF Next, ImportRecord, GetRecord, UpdateRecord, EditField
    <2>2. file \in Files /\ image \in Seq(Byte) /\ file' = file /\ row' = InsertRow(image) /\ image' = WithId(image)
      BY <2>1 DEF CodecInv, InsertRecord
    <2>3. FieldSlice(PackRow(ReadRow(row')), f) = PackField(f, Fetched(row'[i]))
      <3>1. DOMAIN row' = DOMAIN file.fields /\ \A j \in DOMAIN file.fields : InColumn(j, row'[j])
        BY <2>1, InsertColumns
      <3>2. QED
        BY <2>2, <3>1, PackRowFacts
    <2>4. PackField(f, Fetched(row'[i])) = s
      <3>1. CASE IsAuto(i)
        <4>1. i = file.recnum /\ i = FirstAuto /\ f.length \in {1, 2, 4, 8}
          BY <3>1
        <4>2. row'[i] = I64(NewId)
          BY <2>2, <4>1 DEF InsertRow
        <4>3. s = [k \in 1 .. f.length |-> NewId[k]]
          BY <2>2, <4>1, WithIdFacts
        <4>4. f.type \in {1, 14, 15} /\ NewId \in Bytes(8)
          BY <2>2, <4>1, RecnumFacts, FileFacts
        <4> HIDE DEF f, s
        <4>5. QED
          BY <4>1, <4>2, <4>3, <4>4, IdentityBytes
      <3>2. CASE ~IsAuto(i)
        <4>1. s = FieldSlice(image, f)
          BY <2>2, <3>2, WithIdFacts
        <4>2. i # FirstAuto
          <5>1. DOMAIN file.fields = 1 .. Len(file.fields) /\ Len(file.fields) \in Nat
            BY <2>2, FileFacts
          <5>2. FirstAuto \in AutoFields \/ FirstAuto = 0
            <6>1. AutoFields \in SUBSET Nat
              BY <5>1 DEF AutoFields
            <6>2. QED
              BY <6>1, LeastExists DEF FirstAuto, Min
          <5>3. QED
            BY <3>2, <5>1, <5>2 DEF AutoFields
        <4>3. row'[i] = Bound(UnpackField(f, FieldSlice(image, f)))
          BY <2>2, <4>2 DEF InsertRow, Unpacked
        <4>4. Canonical(f, s)
          BY <3>2
        <4>5. s \in Seq(Byte) /\ Len(s) = f.length
          <5>1. f.offset \in Nat /\ f.length \in Nat /\ f.offset + f.length <= Len(image)
            BY <2>2, FileFacts DEF Own, Fits
          <5>2. QED
            BY <2>2, <4>1, <5>1, SliceFacts
        <4> HIDE DEF f, s
        <4>6. Repacked(f, s)
          BY <4>4, <4>5, CanonicalAgain
        <4>7. QED
          BY <4>1, <4>3, <4>6 DEF Repacked
      <3>3. QED
        BY <3>1, <3>2
    <2>5. QED
      BY <2>3, <2>4
  <1>2. QED
    BY <1>1, CodecInvariant, PTL DEF Spec, InsertReadsBack

\* Get, then Update: a column whose field was not changed stays as it was.
THEOREM UpdateKeepsTheRest == Spec => UpdateChangesOnlyEdits
  <1>1. CodecInv /\ [Next]_vars =>
          [row # NoRow /\ row' # row =>
             \A i \in DOMAIN file.fields \ edited :
                IsAuto(i) \/ (Own(i) /\ Settled(file.fields[i], row[i])) => row'[i] = row[i]]_vars
    <2> SUFFICES ASSUME CodecInv, Next, row # NoRow, row' # row, NEW i \in DOMAIN file.fields \ edited,
                        IsAuto(i) \/ (Own(i) /\ Settled(file.fields[i], row[i]))
                 PROVE  row'[i] = row[i]
      BY DEF vars
    <2>1. UpdateRecord
      BY DEF Next, InsertRecord, ImportRecord, GetRecord, EditField
    <2>2. row'[i] = IF IsAuto(i) THEN row[i] ELSE Unpacked(image, i)
      BY <2>1 DEF UpdateRecord, UpdateRow
    <2>3. BufferHolds
      BY DEF CodecInv
    <2>4. ~IsAuto(i) => Unpacked(image, i) = row[i]
      BY <2>3 DEF BufferHolds, Kept
    <2>5. QED
      BY <2>2, <2>4
  <1>2. QED
    BY <1>1, CodecInvariant, PTL DEF Spec, UpdateChangesOnlyEdits
=============================================================================
