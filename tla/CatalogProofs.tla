--------------------------- MODULE CatalogProofs ---------------------------
(***************************************************************************)
(* Proofs about Catalog, for any directories, databases, names, preloaded  *)
(* tables and handles, and for each of the three servers.                  *)
(***************************************************************************)
EXTENDS Catalog, FiniteSetTheorems, SequenceTheorems, WellFoundedInduction, TLAPS

(***************************************************************************)
(* Least and greatest elements.                                            *)
(***************************************************************************)
\* A set of natural numbers has a least element.
LEMMA LeastExists ==
    ASSUME NEW T \in SUBSET Nat, T # {}
    PROVE  \E n \in T : \A m \in T : n <= m
  <1>1. PICK n \in T : \A m \in T : ~ (<<m, n>> \in OpToRel(<, Nat))
    BY NatLessThanWellFounded, WFMin
  <1>2. \A m \in T : ~ (m < n)
    BY <1>1 DEF OpToRel
  <1>3. QED
    BY <1>2

\* A finite set of natural numbers has a greatest element: the one with the
\* fewest above it.
LEMMA GreatestExists ==
    ASSUME NEW T \in SUBSET Nat, T # {}, IsFiniteSet(T)
    PROVE  \E n \in T : \A m \in T : m <= n
  <1> DEFINE Above(n) == {m \in T : n < m}
  <1>1. \A n \in T : IsFiniteSet(Above(n)) /\ Cardinality(Above(n)) \in Nat
    BY FS_Subset, FS_CardinalityType
  <1>2. PICK c \in {Cardinality(Above(n)) : n \in T} :
            \A d \in {Cardinality(Above(n)) : n \in T} : c <= d
    <2>1. {Cardinality(Above(n)) : n \in T} \in SUBSET Nat
      BY <1>1
    <2>2. {Cardinality(Above(n)) : n \in T} # {}
      OBVIOUS
    <2>3. QED
      BY <2>1, <2>2, LeastExists
  <1>3. PICK n \in T : c = Cardinality(Above(n))
    BY <1>2
  <1>4. ASSUME NEW m \in T, n < m PROVE FALSE
    <2>1. Above(m) \in SUBSET Above(n)
      <3>1. n \in Nat /\ m \in Nat /\ \A k \in T : k \in Nat
        BY <1>3, <1>4
      <3>2. \A k \in T : m < k => n < k
        BY <1>4, <3>1
      <3>3. QED
        BY <3>2
    <2>2. m \in Above(n) /\ m \notin Above(m)
      BY <1>4
    <2>3. Cardinality(Above(m)) < Cardinality(Above(n))
      BY <1>1, <2>1, <2>2, FS_Subset
    <2>4. c <= Cardinality(Above(m))
      BY <1>2, <1>4
    <2>5. QED
      BY <1>1, <1>3, <1>4, <2>3, <2>4
  <1>5. QED
    <2>1. \A k \in T : k \in Nat
      OBVIOUS
    <2>2. QED
      BY <1>3, <1>4, <2>1

\* The greatest of some positions of a sequence, and the least.
LEMMA WinnerFacts ==
    ASSUME NEW n \in Nat, NEW idx \in SUBSET (1 .. n), idx # {}
    PROVE  /\ WinnerOf(idx) \in idx /\ \A j \in idx : j <= WinnerOf(idx)
           /\ FirstOf(idx) \in idx
  <1>1. idx \in SUBSET Nat /\ IsFiniteSet(idx)
    <2>1. IsFiniteSet(1 .. n)
      BY FS_Interval
    <2>2. IsFiniteSet(idx)
      BY <2>1, FS_Subset
    <2>3. 1 .. n \subseteq Nat
      OBVIOUS
    <2>4. QED
      BY <2>2, <2>3
  <1>2. \E i \in idx : \A j \in idx : i >= j
    BY <1>1, GreatestExists
  <1>3. \E i \in idx : \A j \in idx : i <= j
    BY <1>1, LeastExists
  <1>4. QED
    BY <1>2, <1>3 DEF WinnerOf, FirstOf

(***************************************************************************)
(* Names: a table files under its own name and under names after it.       *)
(***************************************************************************)
LEMMA ExtensionSortsAfter ==
    ASSUME NEW W, NEW name \in Seq(W), NEW end \in Seq(W), Len(end) = 2
    PROVE  SortsBefore(name, name \o end)
  <1>1. /\ Len(name \o end) = Len(name) + 2
        /\ \A k \in 1 .. Len(name) + 2 :
              (name \o end)[k] = IF k <= Len(name) THEN name[k] ELSE end[k - Len(name)]
    <2>1. \A S : \A s1, s2 \in Seq(S) :
              /\ Len(s1 \o s2) = Len(s1) + Len(s2)
              /\ \A i \in 1 .. Len(s1) + Len(s2) :
                    (s1 \o s2)[i] = IF i <= Len(s1) THEN s1[i] ELSE s2[i - Len(s1)]
      BY ConcatProperties
    <2>2. /\ Len(name \o end) = Len(name) + Len(end)
          /\ \A i \in 1 .. Len(name) + Len(end) :
                (name \o end)[i] = IF i <= Len(name) THEN name[i] ELSE end[i - Len(name)]
      BY <2>1, Zenon
    <2>3. QED
      BY <2>2
  <1>2. Len(name) \in Nat /\ DOMAIN name = 1 .. Len(name)
    OBVIOUS
  <1>3. \A k \in 1 .. Len(name) : name[k] = (name \o end)[k]
    BY <1>1, <1>2
  <1>4. QED
    BY <1>1, <1>2, <1>3 DEF SortsBefore

\* Every name a table is filed under is its own or sorts after it.
LEMMA VariantsSortAfter ==
    ASSUME NEW name \in Seq(STRING), NEW other \in TableKeyVariants(name)
    PROVE  other = name \/ SortsBefore(name, other)
  <1> DEFINE Word == STRING \cup {Underscore, ".", "B"}
  <1>1. name \in Seq(Word)
    BY SeqMonotonic
  <1>2. ASSUME NEW word \in Word PROVE SortsBefore(name, name \o <<word, "B">>)
    <2>1. <<word, "B">> \in Seq(Word) /\ Len(<<word, "B">>) = 2
      <3>1. word \in Word /\ "B" \in Word
        OBVIOUS
      <3>2. QED
        BY <3>1
    <2>2. QED
      BY <1>1, <2>1, ExtensionSortsAfter
  <1>3. CASE other = NormalizeKey(name)
    <2>1. DOMAIN name = 1 .. Len(name) /\ DOMAIN other = DOMAIN name
      BY <1>3 DEF NormalizeKey
    <2>2. \A i \in DOMAIN name : other[i] = IF name[i] = "." THEN Underscore ELSE name[i]
      BY <1>3 DEF NormalizeKey
    <2>3. CASE \A i \in DOMAIN name : name[i] # "."
      <3>1. other = [i \in DOMAIN name |-> name[i]]
        BY <1>3, <2>3 DEF NormalizeKey
      <3>2. QED
        BY <3>1
    <2>4. CASE \E i \in DOMAIN name : name[i] = "."
      <3> DEFINE Dots == {i \in DOMAIN name : name[i] = "."}
      <3>1. Dots \in SUBSET Nat /\ Dots # {}
        BY <2>4
      <3>2. PICK k \in Dots : \A m \in Dots : k <= m
        BY <3>1, LeastExists
      <3>3. \A l \in 1 .. k - 1 : name[l] = other[l]
        <4>1. \A l \in 1 .. k - 1 : l \in DOMAIN name /\ l \notin Dots
          BY <2>1, <3>2
        <4>2. QED
          BY <2>2, <4>1
      <3>4. QED
        BY <2>1, <2>2, <3>2, <3>3 DEF SortsBefore
    <2>5. QED
      BY <2>3, <2>4
  <1>4. "." \in Word /\ Underscore \in Word
    OBVIOUS
  <1>5. QED
    BY <1>2, <1>3, <1>4 DEF TableKeyVariants

(***************************************************************************)
(* Keys: those a table is filed under, and those tried for a name.         *)
(***************************************************************************)
\* The tables are what DefinedAssumption says of them.
LEMMA DefinedFacts ==
    ASSUME NEW i \in DOMAIN Defined
    PROVE  /\ i \in 1 .. Len(Defined) /\ Len(Defined) \in Nat
           /\ IsMeta(Defined[i]) /\ DistinctNumbers(Defined[i].indexes)
           /\ Defined[i].db \in Scope /\ Defined[i].table \in Name
  BY DefinedAssumption DEF IsMeta

\* A key belongs to the last of the tables that are filed under it.
LEMMA PreloadedFacts ==
    ASSUME NEW key \in DOMAIN Preloaded
    PROVE  \E i \in DOMAIN Defined :
              /\ key \in Keys(Defined[i]) /\ Preloaded[key] = Defined[i]
              /\ \A j \in DOMAIN Defined : key \in Keys(Defined[j]) => j <= i
  <1> DEFINE idx == {i \in DOMAIN Defined : key \in Keys(Defined[i])}
  <1>1. idx # {} /\ Preloaded[key] = Defined[WinnerOf(idx)]
    BY DEF Preloaded
  <1>2. idx \in SUBSET (1 .. Len(Defined)) /\ Len(Defined) \in Nat
    BY DefinedFacts, <1>1
  <1>3. WinnerOf(idx) \in idx /\ \A j \in idx : j <= WinnerOf(idx)
    BY <1>1, <1>2, WinnerFacts
  <1>4. QED
    BY <1>1, <1>3

\* A table is filed under its own name, and under that name it is found.
LEMMA OwnNamePreloaded ==
    ASSUME NEW i \in DOMAIN Defined, NEW scope \in {Defined[i].db, NoDb}
    PROVE  /\ <<scope, Defined[i].table>> \in DOMAIN Preloaded
           /\ Preloaded[<<scope, Defined[i].table>>].table = Defined[i].table
  <1> DEFINE key == <<scope, Defined[i].table>>
  <1>1. key \in Keys(Defined[i])
    BY DEF Keys, TableKeyVariants
  <1>2. key \in DOMAIN Preloaded
    BY <1>1 DEF Preloaded
  <1>3. PICK w \in DOMAIN Defined :
            /\ key \in Keys(Defined[w]) /\ Preloaded[key] = Defined[w]
            /\ \A j \in DOMAIN Defined : key \in Keys(Defined[j]) => j <= w
    BY <1>2, PreloadedFacts
  <1>4. Defined[i].table \in TableKeyVariants(Defined[w].table)
    BY <1>3 DEF Keys
  <1>5. i <= w /\ i \in Nat /\ w \in Nat
    BY <1>1, <1>3, DefinedFacts
  <1>6. Defined[w].table \in Seq(STRING)
    BY DefinedFacts, NameAssumption
  <1>7. ~ SortsBefore(Defined[w].table, Defined[i].table)
    <2>1. SortsBefore(Defined[w].table, Defined[i].table) => w < i
      BY DefinedAssumption
    <2>2. QED
      BY <1>5, <2>1
  <1>8. Defined[i].table = Defined[w].table
    BY <1>4, <1>6, <1>7, VariantsSortAfter
  <1>9. QED
    BY <1>2, <1>3, <1>8

\* The key a name is found under names a known table of the database.
LEMMA HitFacts ==
    ASSUME NEW db, NEW name, Hits(KeysTried(db, name)) # {}
    PROVE  LET key == KeysTried(db, name)[FirstOf(Hits(KeysTried(db, name)))]
           IN  key \in DOMAIN tables /\ key[1] = db
  <1> DEFINE keys == KeysTried(db, name)
             hits == Hits(keys)
  <1>1. \E n \in Nat : hits \in SUBSET (1 .. n)
    BY DEF Hits, KeysTried
  <1>2. FirstOf(hits) \in hits
    BY <1>1, WinnerFacts
  <1>3. FirstOf(hits) \in DOMAIN keys /\ keys[FirstOf(hits)] \in DOMAIN tables
    BY <1>2 DEF Hits
  <1>4. keys[FirstOf(hits)][1] = db
    BY <1>3 DEF KeysTried
  <1>5. QED
    BY <1>3, <1>4

\* The directories' databases, and the tables discovered in them.
LEMMA PathFacts ==
    ASSUME NEW dir \in Dir
    PROVE  /\ ResolveConfig(dir) \in Scope /\ PathDb(dir) \in Scope
           /\ \A name \in Name : IsMeta(Discovered(dir, name))
  <1>1. ResolveConfig(dir) \in Scope
    BY CatalogAssumption DEF ResolveConfig, Scope
  <1>2. PathDb(dir) \in Scope
    BY <1>1 DEF PathDb, Scope
  <1>3. ASSUME NEW name \in Name PROVE IsMeta(Discovered(dir, name))
    <2>1. <<>> \in Seq(Index) /\ Len(<<>>) = 0
      OBVIOUS
    <2>2. 0 <= MaxKeys
      BY CatalogAssumption
    <2>3. QED
      BY <1>1, <2>1, <2>2 DEF Discovered, IsMeta
  <1>4. QED
    BY <1>1, <1>2, <1>3

(***************************************************************************)
(* Index lists.                                                            *)
(***************************************************************************)
\* The next number is above every number in use.
LEMMA NextNumberFacts ==
    ASSUME NEW meta, IsMeta(meta)
    PROVE  /\ NextNumber(meta) \in Nat \ {0}
           /\ \A i \in DOMAIN meta.indexes : meta.indexes[i].num < NextNumber(meta)
  <1> DEFINE nums == [i \in 1 .. Len(meta.indexes) |-> meta.indexes[i].num]
             T == Numbers(meta) \cup {0}
  <1>1. /\ meta.indexes \in Seq(Index) /\ Len(meta.indexes) \in Nat
        /\ DOMAIN meta.indexes = 1 .. Len(meta.indexes)
        /\ \A i \in DOMAIN meta.indexes : meta.indexes[i].num \in Nat \ {0}
    <2>1. meta.indexes \in Seq(Index)
      BY DEF IsMeta
    <2>2. \A i \in DOMAIN meta.indexes : meta.indexes[i] \in Index
      BY <2>1
    <2>3. QED
      BY <2>1, <2>2 DEF Index
  <1>2. IsFiniteSet(Numbers(meta))
    <2>1. nums \in Surjection(1 .. Len(meta.indexes), Numbers(meta))
      BY <1>1 DEF Surjection, Numbers
    <2>2. IsFiniteSet(1 .. Len(meta.indexes))
      BY <1>1, FS_Interval
    <2>3. QED
      BY <2>1, <2>2, FS_Surjection
  <1>3. T \in SUBSET Nat /\ T # {} /\ IsFiniteSet(T)
    <2>1. \A n \in Numbers(meta) : n \in Nat
      BY <1>1 DEF Numbers
    <2>2. IsFiniteSet(T)
      BY <1>2, FS_AddElement
    <2>3. QED
      BY <2>1, <2>2
  <1>4. \E n \in T : \A m \in T : m <= n
    BY <1>3, GreatestExists
  <1> DEFINE top == CHOOSE n \in T : \A k \in Numbers(meta) : k <= n
  <1>5. top \in T /\ \A k \in Numbers(meta) : k <= top
    BY <1>4
  <1>6. NextNumber(meta) = 1 + top
    BY DEF NextNumber
  <1> HIDE DEF top, T
  <1>7. \A i \in DOMAIN meta.indexes : meta.indexes[i].num \in Numbers(meta)
    BY DEF Numbers
  <1>8. top \in Nat
    BY <1>3, <1>5
  <1>9. \A i \in DOMAIN meta.indexes : meta.indexes[i].num <= top
    BY <1>5, <1>7
  <1>10. QED
    BY <1>1, <1>6, <1>8, <1>9

\* A list with one more index has distinct numbers when the new one is above.
LEMMA AppendKeepsDistinct ==
    ASSUME NEW indexes \in Seq(Index), NEW ix \in Index, DistinctNumbers(indexes),
           \A i \in DOMAIN indexes : indexes[i].num < ix.num
    PROVE  /\ Append(indexes, ix) \in Seq(Index)
           /\ Len(Append(indexes, ix)) = Len(indexes) + 1
           /\ DistinctNumbers(Append(indexes, ix))
  <1> DEFINE longer == Append(indexes, ix)
  <1>1. /\ longer \in Seq(Index) /\ Len(longer) = Len(indexes) + 1
        /\ \A i \in 1 .. Len(indexes) : longer[i] = indexes[i]
        /\ longer[Len(indexes) + 1] = ix
    BY AppendProperties
  <1>2. /\ Len(indexes) \in Nat /\ DOMAIN indexes = 1 .. Len(indexes)
        /\ DOMAIN longer = 1 .. Len(indexes) + 1
    BY <1>1
  <1> HIDE DEF longer
  <1>3. \A i \in 1 .. Len(indexes) : indexes[i].num \in Nat /\ indexes[i].num < ix.num
    <2>1. \A i \in 1 .. Len(indexes) : indexes[i] \in Index
      OBVIOUS
    <2>2. QED
      BY <1>2, <2>1 DEF Index
  <1>4. ASSUME NEW i \in DOMAIN longer, NEW j \in DOMAIN longer,
               longer[i].num = longer[j].num
        PROVE  i = j
    <2>1. i \in 1 .. Len(indexes) \/ i = Len(indexes) + 1
      BY <1>2
    <2>2. j \in 1 .. Len(indexes) \/ j = Len(indexes) + 1
      BY <1>2
    <2>3. ix.num \in Nat
      BY DEF Index
    <2>4. CASE i \in 1 .. Len(indexes) /\ j \in 1 .. Len(indexes)
      BY <1>1, <1>2, <1>4, <2>4 DEF DistinctNumbers
    <2>5. CASE i \in 1 .. Len(indexes) /\ j = Len(indexes) + 1
      BY <1>1, <1>3, <1>4, <2>3, <2>5
    <2>6. CASE i = Len(indexes) + 1 /\ j \in 1 .. Len(indexes)
      BY <1>1, <1>3, <1>4, <2>3, <2>6
    <2>7. QED
      BY <2>1, <2>2, <2>4, <2>5, <2>6
  <1>5. DistinctNumbers(longer)
    BY <1>4 DEF DistinctNumbers
  <1>6. QED
    BY <1>1, <1>5 DEF longer

\* So has the list of the positions that are kept.
LEMMA KeptIsDistinct ==
    ASSUME NEW indexes \in Seq(Index), DistinctNumbers(indexes),
           NEW kept \in SUBSET (DOMAIN indexes), NEW f \in InOrder(kept)
    PROVE  LET left == [i \in DOMAIN f |-> indexes[f[i]]]
           IN  /\ left \in Seq(Index) /\ Len(left) <= Len(indexes)
               /\ DistinctNumbers(left)
  <1> DEFINE left == [i \in DOMAIN f |-> indexes[f[i]]]
             n == Cardinality(kept)
  <1>1. /\ Len(indexes) \in Nat /\ DOMAIN indexes = 1 .. Len(indexes)
        /\ \A i \in DOMAIN indexes : indexes[i] \in Index
    OBVIOUS
  <1>2. n \in Nat /\ n <= Len(indexes)
    <2>1. IsFiniteSet(1 .. Len(indexes)) /\ Cardinality(1 .. Len(indexes)) = Len(indexes)
      <3>1. 1 \in Int /\ Len(indexes) \in Int
        BY <1>1
      <3>2. /\ IsFiniteSet(1 .. Len(indexes))
            /\ Cardinality(1 .. Len(indexes)) =
                  IF 1 > Len(indexes) THEN 0 ELSE Len(indexes) - 1 + 1
        BY <3>1, FS_Interval
      <3>3. QED
        BY <1>1, <3>2
    <2>2. kept \in SUBSET (1 .. Len(indexes))
      BY <1>1
    <2>3. IsFiniteSet(kept) /\ Cardinality(kept) <= Cardinality(1 .. Len(indexes))
      BY <2>1, <2>2, FS_Subset
    <2>4. QED
      BY <2>1, <2>3, FS_CardinalityType
  <1> HIDE DEF n
  <1>3. /\ f \in [1 .. n -> kept] /\ DOMAIN f = 1 .. n
        /\ \A i, j \in 1 .. n : i < j => f[i] < f[j]
    BY DEF InOrder, n
  <1>4. \A i \in 1 .. n : f[i] \in DOMAIN indexes
    BY <1>3
  <1>5. left \in [1 .. n -> Index]
    BY <1>1, <1>3, <1>4
  <1>6. left \in Seq(Index) /\ Len(left) = n
    BY <1>2, <1>5
  <1>7. ASSUME NEW i \in 1 .. n, NEW j \in 1 .. n, left[i].num = left[j].num
        PROVE  i = j
    <2>1. f[i] = f[j]
      BY <1>3, <1>4, <1>7 DEF DistinctNumbers
    <2>2. f[i] \in Nat /\ f[j] \in Nat
      BY <1>1, <1>4
    <2>3. ~ (i < j) /\ ~ (j < i)
      BY <1>3, <2>1, <2>2
    <2>4. QED
      BY <1>2, <2>3
  <1>8. DistinctNumbers(left)
    BY <1>5, <1>7 DEF DistinctNumbers
  <1>9. QED
    BY <1>2, <1>6, <1>8

-----------------------------------------------------------------------------
(***************************************************************************)
(* The inductive invariant: what is filed under a key, and where the table *)
(* of an open handle was found.                                            *)
(***************************************************************************)
\* The table that a name leads to in a database.
TableOf(db, name) ==
    LET keys == KeysTried(db, name)
    IN  IF Hits(keys) = {} THEN name ELSE tables[keys[FirstOf(Hits(keys))]].table

\* Under the keys with a database lie the preloaded tables only.
TablesInv ==
    /\ \A key \in DOMAIN tables \cup DOMAIN Preloaded : key[1] # NoDb =>
          /\ key \in DOMAIN tables /\ key \in DOMAIN Preloaded
          /\ tables[key] = Preloaded[key]
    /\ \A key \in DOMAIN tables :
          /\ key[1] # NoDb => tables[key].db = key[1]
          /\ DistinctNumbers(tables[key].indexes)
    /\ \A i \in DOMAIN Defined : \A scope \in {Defined[i].db, NoDb} :
          /\ <<scope, Defined[i].table>> \in DOMAIN tables
          /\ tables[<<scope, Defined[i].table>>].table = Defined[i].table

HandlePart(h) ==
    handle[h] # Closed =>
        /\ DistinctNumbers(handle[h].indexes)
        /\ PathDb(path[h][1]) # NoDb =>
              /\ handle[h].db = PathDb(path[h][1])
              /\ handle[h].table = TableOf(PathDb(path[h][1]), path[h][2])

CatalogInv == CatalogTypeOK /\ TablesInv /\ \A h \in Handle : HandlePart(h)

\* What is known of the tables as they are preloaded.
LEMMA PreloadedHolds ==
    ASSUME NEW key \in DOMAIN Preloaded
    PROVE  /\ key[1] \in Scope /\ IsMeta(Preloaded[key])
           /\ key[1] # NoDb => Preloaded[key].db = key[1]
           /\ DistinctNumbers(Preloaded[key].indexes)
  <1>1. PICK i \in DOMAIN Defined : key \in Keys(Defined[i]) /\ Preloaded[key] = Defined[i]
    BY PreloadedFacts
  <1>2. key[1] \in {Defined[i].db, NoDb}
    BY <1>1 DEF Keys
  <1>3. QED
    BY <1>1, <1>2, DefinedFacts DEF Scope

\* The tables as they are preloaded satisfy it.
LEMMA InitHolds == CatalogInit => CatalogInv
  <1>1. SUFFICES ASSUME CatalogInit PROVE CatalogInv
    OBVIOUS
  <1>2. tables = Preloaded
    BY <1>1 DEF CatalogInit
  <1>3. TablesInv
    BY <1>2, PreloadedHolds, OwnNamePreloaded DEF TablesInv
  <1>4. CatalogTypeOK
    <2>1. Existing \subseteq Scope \X Name
      BY CatalogAssumption DEF Scope
    <2>2. QED
      BY <1>1, <1>2, <2>1, PreloadedHolds DEF CatalogTypeOK, CatalogInit
  <1>5. \A h \in Handle : HandlePart(h)
    BY <1>1 DEF CatalogInit, HandlePart
  <1>6. QED
    BY <1>3, <1>4, <1>5 DEF CatalogInv

\* A step that leaves the tables alone has to be checked for the handles only.
LEMMA TablesKept ==
    ASSUME CatalogInv, UNCHANGED tables
    PROVE  TablesInv' /\ \A db, name : TableOf(db, name)' = TableOf(db, name)
  BY DEF CatalogInv, TablesInv, TableOf, Hits

\* Open assigns the handle: the others keep what they have.
LEMMA AssignFacts ==
    ASSUME CatalogInv, NEW h \in Handle, NEW dir \in Dir, NEW name \in Name,
           NEW meta, IsMeta(meta), Assign(h, dir, name, meta)
    PROVE  /\ handle' \in [Handle -> [db : Scope, table : Name, indexes : Seq(Index)]
                                      \cup {Closed}]
           /\ path' \in [Handle -> (Dir \X Name) \cup {Closed}]
           /\ \A g \in Handle : /\ handle'[g] = Closed <=> path'[g] = Closed
                                /\ handle'[g] # Closed => IsMeta(handle'[g])
           /\ handle'[h] = meta /\ path'[h][1] = dir /\ path'[h][2] = name
           /\ \A g \in Handle \ {h} : handle'[g] = handle[g] /\ path'[g] = path[g]
  <1>1. meta # Closed /\ <<dir, name>> # Closed
    BY ClosedAssumption
  <1>2. meta \in [db : Scope, table : Name, indexes : Seq(Index)]
    BY DEF IsMeta
  <1>3. /\ handle'[h] = meta /\ path'[h] = <<dir, name>>
        /\ \A g \in Handle \ {h} : handle'[g] = handle[g] /\ path'[g] = path[g]
    BY DEF Assign, CatalogInv, CatalogTypeOK
  <1>4. \A g \in Handle : /\ handle'[g] = Closed <=> path'[g] = Closed
                          /\ handle'[g] # Closed => IsMeta(handle'[g])
    BY <1>1, <1>3 DEF CatalogInv, CatalogTypeOK
  <1>5. QED
    BY <1>2, <1>3, <1>4 DEF Assign, CatalogInv, CatalogTypeOK

\* Open of a known file.
LEMMA OpenKnownHolds ==
    ASSUME CatalogInv, NEW h \in Handle, NEW dir \in Dir, NEW name \in Name,
           OpenKnown(h, dir, name)
    PROVE  CatalogInv'
  <1> DEFINE db == PathDb(dir)
             key == KeysTried(db, name)[FirstOf(Hits(KeysTried(db, name)))]
  <1>1. Hits(KeysTried(db, name)) # {} /\ Assign(h, dir, name, tables[key])
        /\ UNCHANGED <<tables, onServer, sqlIndex>>
    BY DEF OpenKnown
  <1>2. key \in DOMAIN tables /\ key[1] = db
    BY <1>1, HitFacts
  <1>3. IsMeta(tables[key])
    BY <1>2 DEF CatalogInv, CatalogTypeOK
  <1>4. tables[key].table = TableOf(db, name)
    BY <1>1 DEF TableOf
  <1> HIDE DEF key, db
  <1>5. HandlePart(h)'
    BY <1>1, <1>2, <1>3, <1>4, AssignFacts, TablesKept
       DEF HandlePart, CatalogInv, TablesInv, db
  <1>6. \A g \in Handle \ {h} : HandlePart(g)'
    BY <1>1, <1>3, AssignFacts, TablesKept DEF HandlePart, CatalogInv
  <1>7. CatalogTypeOK'
    BY <1>1, <1>3, AssignFacts DEF CatalogInv, CatalogTypeOK
  <1>8. QED
    BY <1>1, <1>5, <1>6, <1>7, TablesKept DEF CatalogInv

\* A lookup in a database goes by the keys of that database.
LEMMA LookupsKept ==
    ASSUME NEW db, NEW name,
           \A key \in DOMAIN tables \cup DOMAIN tables' : key[1] = db =>
               key \in DOMAIN tables /\ key \in DOMAIN tables' /\ tables'[key] = tables[key]
    PROVE  TableOf(db, name)' = TableOf(db, name)
  <1> DEFINE keys == KeysTried(db, name)
  <1>1. \A i \in DOMAIN keys : keys[i][1] = db
    BY DEF KeysTried
  <1>2. Hits(keys)' = Hits(keys)
    BY <1>1 DEF Hits
  <1>3. CASE Hits(keys) = {}
    BY <1>2, <1>3 DEF TableOf
  <1>4. CASE Hits(keys) # {}
    <2> DEFINE key == keys[FirstOf(Hits(keys))]
    <2>1. key \in DOMAIN tables /\ key[1] = db
      BY <1>4, HitFacts
    <2>2. tables'[key] = tables[key]
      BY <2>1
    <2>3. QED
      BY <1>2, <1>4, <2>2 DEF TableOf
  <1>5. QED
    BY <1>3, <1>4

\* Filing a table under a plain name changes no lookup in a database.
LEMMA FiledUnderPlainName ==
    ASSUME NEW name, NEW meta,
           tables' = [key \in DOMAIN tables \cup {DiscoveredKey(name)} |->
                         IF key = DiscoveredKey(name) THEN meta ELSE tables[key]]
    PROVE  /\ DOMAIN tables' = DOMAIN tables \cup {<<NoDb, name>>}
           /\ tables'[<<NoDb, name>>] = meta
           /\ \A key \in DOMAIN tables : key # <<NoDb, name>> => tables'[key] = tables[key]
           /\ \A db, other : db # NoDb => TableOf(db, other)' = TableOf(db, other)
  <1>1. /\ DOMAIN tables' = DOMAIN tables \cup {<<NoDb, name>>}
        /\ tables'[<<NoDb, name>>] = meta
        /\ \A key \in DOMAIN tables : key # <<NoDb, name>> => tables'[key] = tables[key]
    BY DEF DiscoveredKey
  <1>2. ASSUME NEW db, NEW other, db # NoDb PROVE TableOf(db, other)' = TableOf(db, other)
    <2>1. <<NoDb, name>>[1] # db
      BY <1>2
    <2>2. QED
      BY <1>1, <2>1, LookupsKept
  <1>3. QED
    BY <1>1, <1>2

\* Open of a file whose table is discovered.
LEMMA OpenDiscoveredHolds ==
    ASSUME CatalogInv, NEW h \in Handle, NEW dir \in Dir, NEW name \in Name,
           OpenDiscovered(h, dir, name)
    PROVE  CatalogInv'
  <1> DEFINE meta == Discovered(dir, name)
  <1>1. /\ Hits(KeysTried(PathDb(dir), name)) = {} /\ Discoverable(dir, name)
        /\ Assign(h, dir, name, meta) /\ UNCHANGED <<onServer, sqlIndex>>
        /\ tables' = [key \in DOMAIN tables \cup {DiscoveredKey(name)} |->
                         IF key = DiscoveredKey(name) THEN meta ELSE tables[key]]
    BY DEF OpenDiscovered
  <1>2. IsMeta(meta) /\ DistinctNumbers(meta.indexes)
    BY PathFacts DEF Discovered, DistinctNumbers
  <1>3. meta.db = PathDb(dir) /\ meta.table = TableOf(PathDb(dir), name) /\ meta.table = name
    BY <1>1 DEF Discovered, Discoverable, PathDb, TableOf
  <1> HIDE DEF meta
  <1>4. /\ DOMAIN tables' = DOMAIN tables \cup {<<NoDb, name>>}
        /\ tables'[<<NoDb, name>>] = meta
        /\ \A key \in DOMAIN tables : key # <<NoDb, name>> => tables'[key] = tables[key]
        /\ \A db, other : db # NoDb => TableOf(db, other)' = TableOf(db, other)
    BY <1>1, FiledUnderPlainName
  <1>5. TablesInv'
    <2>1. ASSUME NEW key \in DOMAIN tables'
          PROVE  /\ key[1] # NoDb => tables'[key].db = key[1]
                 /\ DistinctNumbers(tables'[key].indexes)
      BY <1>2, <1>4, <2>1 DEF CatalogInv, TablesInv
    <2>2. ASSUME NEW i \in DOMAIN Defined, NEW scope \in {Defined[i].db, NoDb}
          PROVE  /\ <<scope, Defined[i].table>> \in DOMAIN tables'
                 /\ tables'[<<scope, Defined[i].table>>].table = Defined[i].table
      <3>1. CASE <<scope, Defined[i].table>> = <<NoDb, name>>
        BY <1>3, <1>4, <3>1
      <3>2. CASE <<scope, Defined[i].table>> # <<NoDb, name>>
        <4>1. /\ <<scope, Defined[i].table>> \in DOMAIN tables
              /\ tables[<<scope, Defined[i].table>>].table = Defined[i].table
          BY DEF CatalogInv, TablesInv
        <4>2. tables'[<<scope, Defined[i].table>>] = tables[<<scope, Defined[i].table>>]
          BY <1>4, <3>2, <4>1
        <4>3. QED
          BY <1>4, <4>1, <4>2
      <3>3. QED
        BY <3>1, <3>2
    <2>3. ASSUME NEW key \in DOMAIN tables' \cup DOMAIN Preloaded, key[1] # NoDb
          PROVE  /\ key \in DOMAIN tables' /\ key \in DOMAIN Preloaded
                 /\ tables'[key] = Preloaded[key]
      <3>1. key # <<NoDb, name>>
        BY <2>3
      <3>2. QED
        BY <1>4, <2>3, <3>1 DEF CatalogInv, TablesInv
    <2>4. QED
      BY <2>1, <2>2, <2>3 DEF TablesInv
  <1>6. HandlePart(h)'
    <2>1. handle'[h] = meta /\ path'[h][1] = dir /\ path'[h][2] = name
      BY <1>1, <1>2, AssignFacts
    <2>2. PathDb(dir) # NoDb => TableOf(PathDb(dir), name)' = TableOf(PathDb(dir), name)
      BY <1>4
    <2>3. QED
      BY <1>2, <1>3, <2>1, <2>2 DEF HandlePart
  <1>7. \A g \in Handle \ {h} : HandlePart(g)'
    BY <1>1, <1>2, <1>4, AssignFacts DEF HandlePart, CatalogInv
  <1>8. \A key \in DOMAIN tables' : key[1] \in Scope /\ IsMeta(tables'[key])
    <2>1. ASSUME NEW key \in DOMAIN tables, key # <<NoDb, name>>
          PROVE  key[1] \in Scope /\ IsMeta(tables'[key])
      BY <1>4, <2>1 DEF CatalogInv, CatalogTypeOK
    <2>2. <<NoDb, name>>[1] \in Scope /\ IsMeta(tables'[<<NoDb, name>>])
      BY <1>2, <1>4 DEF Scope
    <2>3. QED
      BY <1>4, <2>1, <2>2
  <1>9. CatalogTypeOK'
    BY <1>1, <1>2, <1>8, AssignFacts DEF CatalogInv, CatalogTypeOK
  <1>10. QED
    BY <1>5, <1>6, <1>7, <1>9 DEF CatalogInv

\* Close, and Stop.
LEMMA CloseHolds ==
    ASSUME CatalogInv, CloseAll \/ \E h \in Handle : CloseFile(h)
    PROVE  CatalogInv'
  <1>1. /\ handle' \in [Handle -> [db : Scope, table : Name, indexes : Seq(Index)]
                                   \cup {Closed}]
        /\ path' \in [Handle -> (Dir \X Name) \cup {Closed}]
        /\ \A g \in Handle : \/ handle'[g] = Closed /\ path'[g] = Closed
                             \/ handle'[g] = handle[g] /\ path'[g] = path[g]
        /\ UNCHANGED <<tables, onServer>>
    BY DEF CloseAll, CloseFile, CatalogInv, CatalogTypeOK
  <1>2. \A g \in Handle : HandlePart(g)'
    BY <1>1, TablesKept DEF HandlePart, CatalogInv
  <1>3. CatalogTypeOK'
    BY <1>1 DEF CatalogInv, CatalogTypeOK
  <1>4. QED
    BY <1>1, <1>2, <1>3, TablesKept DEF CatalogInv

\* Reading wxbtrv.db again changes no lookup in a database: what is forgotten
\* was filed under plain names.
LEMMA ReloadHolds ==
    ASSUME CatalogInv, Reload
    PROVE  CatalogInv'
  <1>1. tables' = Preloaded /\ UNCHANGED <<onServer, handle, path>>
    BY DEF Reload
  <1>2. TablesInv'
    BY <1>1, PreloadedHolds, OwnNamePreloaded DEF TablesInv
  <1>3. ASSUME NEW db, NEW name, db # NoDb
        PROVE  TableOf(db, name)' = TableOf(db, name)
    <2>1. \A key \in DOMAIN tables \cup DOMAIN tables' : key[1] = db =>
              key \in DOMAIN tables /\ key \in DOMAIN tables' /\ tables'[key] = tables[key]
      BY <1>1, <1>3 DEF CatalogInv, TablesInv
    <2>2. QED
      BY <2>1, LookupsKept
  <1>4. \A h \in Handle : HandlePart(h)'
    BY <1>1, <1>3 DEF HandlePart, CatalogInv
  <1>5. CatalogTypeOK'
    BY <1>1, PreloadedHolds DEF CatalogInv, CatalogTypeOK
  <1>6. QED
    BY <1>2, <1>4, <1>5 DEF CatalogInv

\* Create makes nothing known.
LEMMA CreateFileHolds ==
    ASSUME CatalogInv, NEW name \in Name, NEW failIfKnown \in BOOLEAN,
           CreateFile(name, failIfKnown)
    PROVE  CatalogInv'
  <1>1. /\ UNCHANGED <<tables, handle, path>>
        /\ onServer' = onServer \cup {<<GlobalDb, NormalizeKey(name)>>}
    BY DEF CreateFile
  <1>2. onServer' \subseteq Scope \X Name
    BY <1>1, NameAssumption, CatalogAssumption DEF CatalogInv, CatalogTypeOK, Scope
  <1>3. \A g \in Handle : HandlePart(g)'
    BY <1>1, TablesKept DEF HandlePart, CatalogInv
  <1>4. CatalogTypeOK'
    BY <1>1, <1>2 DEF CatalogInv, CatalogTypeOK
  <1>5. QED
    BY <1>1, <1>3, <1>4, TablesKept DEF CatalogInv

\* A handle whose index list changes stays a handle of its table.
LEMMA IndexesHold ==
    ASSUME CatalogInv, NEW h \in Handle, handle[h] # Closed,
           NEW indexes \in Seq(Index), Len(indexes) <= MaxKeys, DistinctNumbers(indexes),
           handle' = [handle EXCEPT ![h] = [@ EXCEPT !.indexes = indexes]],
           UNCHANGED <<tables, onServer, path>>
    PROVE  CatalogInv'
  <1> DEFINE meta == [handle[h] EXCEPT !.indexes = indexes]
  <1>1. handle[h] \in [db : Scope, table : Name, indexes : Seq(Index)]
    BY DEF CatalogInv, CatalogTypeOK, IsMeta
  <1>2. meta \in [db : Scope, table : Name, indexes : Seq(Index)]
        /\ meta.db = handle[h].db /\ meta.table = handle[h].table /\ meta.indexes = indexes
    BY <1>1
  <1>3. handle \in [Handle -> [db : Scope, table : Name, indexes : Seq(Index)] \cup {Closed}]
    BY DEF CatalogInv, CatalogTypeOK
  <1>4. handle'[h] = meta /\ \A g \in Handle \ {h} : handle'[g] = handle[g]
    BY <1>3
  <1> HIDE DEF meta
  <1>5. IsMeta(meta) /\ meta # Closed
    BY <1>2, ClosedAssumption DEF IsMeta
  <1>6. handle' \in [Handle -> [db : Scope, table : Name, indexes : Seq(Index)] \cup {Closed}]
    BY <1>2, <1>3 DEF meta
  <1>7. CatalogTypeOK'
    BY <1>4, <1>5, <1>6 DEF CatalogInv, CatalogTypeOK
  <1>8. \A g \in Handle : HandlePart(g)'
    BY <1>2, <1>4, <1>5, TablesKept DEF HandlePart, CatalogInv
  <1>9. QED
    BY <1>7, <1>8, TablesKept DEF CatalogInv

\* Create Index.
LEMMA CreateIndexHolds ==
    ASSUME CatalogInv, NEW h \in Handle, NEW cols \in Column, CreateIndex(h, cols)
    PROVE  CatalogInv'
  <1> DEFINE num == NextNumber(handle[h])
             ix  == [num |-> num, cols |-> cols]
  <1>1. /\ handle[h] # Closed /\ ~AtLimit(handle[h]) /\ UNCHANGED <<tables, onServer, path>>
        /\ \/ handle' = [handle EXCEPT ![h] = [@ EXCEPT !.indexes = Append(handle[h].indexes, ix)]]
           \/ UNCHANGED handle
    BY DEF CreateIndex
  <1>2. CASE UNCHANGED handle
    <2>1. CatalogTypeOK'
      BY <1>1, <1>2 DEF CatalogInv, CatalogTypeOK
    <2>2. \A g \in Handle : HandlePart(g)'
      BY <1>1, <1>2, TablesKept DEF HandlePart, CatalogInv
    <2>3. QED
      BY <1>1, <2>1, <2>2, TablesKept DEF CatalogInv
  <1>3. CASE handle' = [handle EXCEPT ![h] = [@ EXCEPT !.indexes = Append(handle[h].indexes, ix)]]
    <2>1. IsMeta(handle[h]) /\ DistinctNumbers(handle[h].indexes)
      BY <1>1 DEF CatalogInv, CatalogTypeOK, HandlePart
    <2>2. /\ num \in Nat \ {0}
          /\ \A i \in DOMAIN handle[h].indexes : handle[h].indexes[i].num < num
      BY <2>1, NextNumberFacts
    <2> HIDE DEF num
    <2>3. ix \in Index /\ ix.num = num
      BY <2>2 DEF Index
    <2> HIDE DEF ix
    <2> DEFINE longer == Append(handle[h].indexes, ix)
    <2>4. handle[h].indexes \in Seq(Index)
      BY <2>1 DEF IsMeta
    <2>5. /\ longer \in Seq(Index) /\ Len(longer) = Len(handle[h].indexes) + 1
          /\ DistinctNumbers(longer)
      BY <2>1, <2>2, <2>3, <2>4, AppendKeepsDistinct
    <2>6. Len(longer) <= MaxKeys
      <3>1. Len(handle[h].indexes) \in Nat /\ MaxKeys \in Nat
        BY <2>4, CatalogAssumption
      <3>2. QED
        BY <1>1, <2>5, <3>1 DEF AtLimit
    <2>7. handle' = [handle EXCEPT ![h] = [@ EXCEPT !.indexes = longer]]
      BY <1>3
    <2> HIDE DEF longer
    <2>8. QED
      BY <1>1, <2>5, <2>6, <2>7, IndexesHold
  <1>4. QED
    BY <1>1, <1>2, <1>3

\* Drop Index.
LEMMA DropIndexHolds ==
    ASSUME CatalogInv, NEW h \in Handle, NEW keyNum \in 0 .. MaxKeys - 1, DropIndex(h, keyNum)
    PROVE  CatalogInv'
  <1> DEFINE indexes == handle[h].indexes
             target == indexes[keyNum + 1].num
             kept == {i \in DOMAIN indexes : indexes[i].num # target}
  <1>1. /\ handle[h] # Closed /\ UNCHANGED <<tables, onServer, path>>
        /\ \E f \in InOrder(kept) :
              handle' = [handle EXCEPT ![h] =
                            [@ EXCEPT !.indexes = [i \in DOMAIN f |-> indexes[f[i]]]]]
    BY DEF DropIndex
  <1>2. PICK f \in InOrder(kept) :
            handle' = [handle EXCEPT ![h] =
                          [@ EXCEPT !.indexes = [i \in DOMAIN f |-> indexes[f[i]]]]]
    BY <1>1
  <1> DEFINE left == [i \in DOMAIN f |-> indexes[f[i]]]
  <1>3. IsMeta(handle[h]) /\ DistinctNumbers(indexes)
    BY <1>1 DEF CatalogInv, CatalogTypeOK, HandlePart
  <1>4. indexes \in Seq(Index) /\ Len(indexes) <= MaxKeys
    BY <1>3 DEF IsMeta
  <1>5. kept \in SUBSET (DOMAIN indexes)
    OBVIOUS
  <1>6. left \in Seq(Index) /\ Len(left) <= Len(indexes) /\ DistinctNumbers(left)
    <2> HIDE DEF kept, indexes
    <2>1. QED
      BY <1>2, <1>3, <1>4, <1>5, KeptIsDistinct
  <1>7. Len(left) <= MaxKeys
    <2>1. Len(left) \in Nat /\ Len(indexes) \in Nat /\ MaxKeys \in Nat
      BY <1>4, <1>6, CatalogAssumption
    <2>2. QED
      BY <1>4, <1>6, <2>1
  <1>8. handle' = [handle EXCEPT ![h] = [@ EXCEPT !.indexes = left]]
    BY <1>2
  <1> HIDE DEF left
  <1>9. QED
    BY <1>1, <1>6, <1>7, <1>8, IndexesHold

\* Every step keeps the invariant.
LEMMA StepHolds == CatalogInv /\ [CatalogNext]_catalogVars => CatalogInv'
  <1>1. SUFFICES ASSUME CatalogInv, [CatalogNext]_catalogVars PROVE CatalogInv'
    OBVIOUS
  <1>2. CASE UNCHANGED catalogVars
    <2>1. UNCHANGED <<tables, onServer, sqlIndex, handle, path>>
      BY <1>2 DEF catalogVars
    <2>2. CatalogTypeOK'
      BY <1>1, <2>1 DEF CatalogInv, CatalogTypeOK
    <2>3. \A h \in Handle : HandlePart(h)'
      BY <1>1, <2>1, TablesKept DEF HandlePart, CatalogInv
    <2>4. QED
      BY <1>1, <2>1, <2>2, <2>3, TablesKept DEF CatalogInv
  <1>3. CASE FileOp
    BY <1>1, <1>3, OpenKnownHolds, OpenDiscoveredHolds, CloseHolds, ReloadHolds, CreateFileHolds
       DEF FileOp
  <1>4. CASE IndexOp
    BY <1>1, <1>4, CreateIndexHolds, DropIndexHolds DEF IndexOp
  <1>5. QED
    BY <1>1, <1>2, <1>3, <1>4 DEF CatalogNext

-----------------------------------------------------------------------------
\* CatalogInv is inductive.
THEOREM CatalogInvariant == CatalogSpec => []CatalogInv
  BY InitHolds, StepHolds, PTL DEF CatalogSpec

\* The types of the catalog: no index list outgrows MaxKeys.
THEOREM CatalogTypes == CatalogSpec => []CatalogTypeOK
  <1>1. CatalogInv => CatalogTypeOK
    BY DEF CatalogInv
  <1>2. QED
    BY <1>1, CatalogInvariant, PTL

\* A file opened from a directory with a database is a table of that database.
THEOREM DatabasesNeverCrossed == CatalogSpec => []NeverCrossesDatabases
  <1>1. CatalogInv => NeverCrossesDatabases
    BY DEF CatalogInv, HandlePart, NeverCrossesDatabases
  <1>2. QED
    BY <1>1, CatalogInvariant, PTL

\* A path leads to the same table each time, whatever was created, discovered
\* or opened in between.
THEOREM PathsAreStable == CatalogSpec => []SamePathSameTable
  <1>1. CatalogInv => SamePathSameTable
    BY DEF CatalogInv, CatalogTypeOK, HandlePart, SamePathSameTable
  <1>2. QED
    BY <1>1, CatalogInvariant, PTL

\* A preloaded table is found under its own name, whatever names of other
\* tables look like it: these sort before or after it as ORDER BY has them.
THEOREM OwnNamesWin == CatalogSpec => []OwnNameWins
  <1>1. CatalogInv => OwnNameWins
    BY DEF CatalogInv, TablesInv, OwnNameWins
  <1>2. QED
    BY <1>1, CatalogInvariant, PTL

\* No two indexes of a handle ever have the same number.
THEOREM IndexNumbersDistinct == CatalogSpec => []NumbersDistinct
  <1>1. CatalogInv => NumbersDistinct
    BY DEF CatalogInv, HandlePart, NumbersDistinct
  <1>2. QED
    BY <1>1, CatalogInvariant, PTL
=============================================================================
