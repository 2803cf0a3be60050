---------------------------- MODULE RecordCodec ----------------------------
(***************************************************************************)
(* How a record image becomes a row and a row an image again (record.rs),  *)
(* with the statements of Insert and Update that decide which columns are  *)
(* written (ops/insert.rs, ops/update.rs), the key buffer of a Get by key  *)
(* and the terms of an extended Get, and the other decoder, that of the    *)
(* import (btr-types codec.rs).                                            *)
(*                                                                         *)
(* Bytes and characters are numbers.  A 64-bit integer is its eight bytes, *)
(* a float the bytes it was made from, a text its characters.  A column    *)
(* gives back what was bound to it: what a server rounds or cuts is not    *)
(* modelled.                                                               *)
(***************************************************************************)
EXTENDS Integers, SequencesExt, FiniteSetsExt

CONSTANTS
    Files,          \* the record layouts that may be in use
    Slices(_, _),   \* Slices(file, i): the bytes a caller puts in field i
    NewId,          \* the identity the server assigns next, as eight bytes
    MaxSegs,        \* bound: segments of a key
    NoRow           \* the row is not there yet

VARIABLES
    file,       \* TableMeta: [fields, recnum, length], recnum the number of
                \* the field that is the record number, 0 when none is
    image,      \* the caller's data buffer
    row,        \* the stored row, a value per field
    origin,     \* history: who stored the row
    edited      \* history: the fields changed in the image since it was read

vars == <<file, image, row, origin, edited>>

-----------------------------------------------------------------------------
Fill(s, n, b) == [k \in 1..n |-> IF k <= Len(s) THEN s[k] ELSE b]
AllAre(s, b)  == \A k \in DOMAIN s : s[k] = b

White == (9..13) \cup {32, 133, 160}

TrimEnd(s) == SubSeq(s, 1, SelectLastInSeq(s, LAMBDA c : c \notin White))

UntilNul(s) ==
    LET k == SelectInSeq(s, LAMBDA c : c = 0)
    IN  IF k = 0 THEN s ELSE SubSeq(s, 1, k - 1)

\* from_utf8_lossy where no two bytes form a character outside ASCII.
Replacement == 255 * 256 + 253

Lossy(s) == [k \in DOMAIN s |-> IF s[k] < 128 THEN s[k] ELSE Replacement]

\* The bytes of a text.
Utf8(s) ==
    FlattenSeq([k \in DOMAIN s |->
        IF s[k] < 128 THEN <<s[k]>>
        ELSE IF s[k] < 2048 THEN <<192 + s[k] \div 64, 128 + (s[k] % 64)>>
        ELSE <<224 + s[k] \div 4096, 128 + ((s[k] \div 64) % 64), 128 + (s[k] % 64)>>])

\* SqlValue.  Dates and times are texts: kinds of their own, for their digits.
Value(kind, v) == [kind |-> kind, v |-> v]
Null    == Value("null", <<>>)
Text(s) == Value("text", s)
I64(s)  == Value("int", Fill(s, 8, 0))

-----------------------------------------------------------------------------
(***************************************************************************)
(* From bytes to values.                                                   *)
(***************************************************************************)
FieldSlice(rec, f) ==
    IF f.offset + f.length > Len(rec) THEN <<>>
    ELSE SubSeq(rec, f.offset + 1, f.offset + f.length)

\* Little-endian integers of 1 (unsigned), 2, 4 and 8 bytes; others are zero.
IntOf(s) ==
    CASE Len(s) = 1                           -> I64(s)
      [] Len(s) \in {2, 4} /\ Last(s) >= 128  -> Value("int", Fill(s, 8, 255))
      [] Len(s) \in {2, 4} /\ Last(s) < 128   -> I64(s)
      [] Len(s) >= 8                          -> I64(s)
      [] OTHER                                -> I64(<<>>)

FloatZero == Value("float", <<>>)

\* The exponent's bits are all ones, or all zeros under a non-zero fraction.
\* A subnormal of 4 bytes is no subnormal once it is widened.
Finite(s) ==
    CASE Len(s) = 4 -> ~(s[4] % 128 = 127 /\ s[3] >= 128)
      [] Len(s) = 8 -> ~(s[8] % 128 = 127 /\ s[7] >= 240)
Subnormal(s) ==
    /\ Len(s) = 8 /\ s[8] % 128 = 0 /\ s[7] < 16
    /\ s[7] # 0 \/ ~AllAre(SubSeq(s, 1, 6), 0)

FloatOr(s, default) ==
    IF AllAre(s, 0) \/ Len(s) \notin {4, 8} \/ (~Finite(s) \/ Subnormal(s))
    THEN default ELSE Value("float", s)

ValidDate(s) ==
    Len(s) >= 4 /\ s[1] \in 1..31 /\ s[2] \in 1..12 /\ s[3] + 256 * s[4] > 0

DateOr(s, default) ==
    IF ValidDate(s) THEN Value("date", <<s[1], s[2], s[3] + 256 * s[4]>>) ELSE default

\* HHMMSSCC; the hundredths are dropped.
Hhmmsscc(s) == s[1] + 256 * (s[2] + 256 * (s[3] + 256 * s[4]))

TimeOf(s) ==
    LET secs  == (IF Len(s) < 4 THEN 0 ELSE Hhmmsscc(s)) \div 100
        mins  == secs \div 100
        hours == mins \div 100
    IN  Value("time", <<hours % 100, mins % 100, secs % 100>>)

\* unpack_row_typed, one field.
UnpackField(f, s) ==
    CASE f.type = 0        -> Text(s)
      [] f.type = 11       -> Text(Lossy(UntilNul(s)))
      [] f.type \in {1, 14} -> IntOf(s)
      [] f.type = 2        -> FloatOr(s, IF f.default = Null THEN FloatZero ELSE f.default)
      [] f.type = 6        -> Value("money", Fill(s, 8, 0))
      [] f.type = 7        -> Value("bool", <<IF s # <<>> /\ s[1] # 0 THEN 1 ELSE 0>>)
      [] f.type = 3        -> DateOr(s, f.default)
      [] f.type = 4        -> TimeOf(s)
      [] f.type = 5        -> I64(s)
      [] OTHER -> IF AllAre(s, 0) THEN f.default ELSE Text(TrimEnd(s))

\* decode_term_value: a term's value is a record of this one field.
TermValue(f, s) == UnpackField(f, Fill(s, f.length, 0))

-----------------------------------------------------------------------------
(***************************************************************************)
(* From values to bytes.                                                   *)
(***************************************************************************)
\* units as f64 / 10000.0, and (v * 10000.0) as i64 when it is packed: for
\* some units the product falls just short and is cut to the unit below.
\* Those of one byte, of the arithmetic of 64-bit floats:
Inexact == {3, 6, 12, 24, 29, 48, 58, 93, 96, 113, 116, 163, 169, 186, 192,
            209, 215, 226, 232, 249}

MoneyUnits(v) ==
    IF v[1] \in Inexact /\ AllAre(Tail(v), 0) THEN [v EXCEPT ![1] = @ - 1] ELSE v

\* Mutant: month before day.
DateBytesSwapped(d, m, y) == <<m, d, y % 256, y \div 256>>

\* A date's digits, read as YYYYMMDD; a year of five digits shifts the rest.
DateBytes(d, m, y) ==
    LET yyyy == IF y < 10000 THEN y ELSE y \div 10
        mm   == IF y < 10000 THEN m ELSE (y % 10) * 10 + m \div 10
        dd   == IF y < 10000 THEN d ELSE (m % 10) * 10 + d \div 10
    IN  <<dd, mm, yyyy % 256, yyyy \div 256>>

TimeBytes(h, m, s) ==
    LET t1 == ((h * 100 + m) * 100 + s) * 100
        t2 == t1 \div 256
        t3 == t2 \div 256
    IN  <<t1 % 256, t2 % 256, t3 % 256, t3 \div 256>>

\* pack_row, one field: the bytes of its slot.
PackField(f, c) ==
    LET n == f.length
        text == IF c.kind = "text" THEN Utf8(c.v) ELSE <<>>
    IN
    CASE n = 0 -> <<>>
      [] n > 0 /\ f.type = 10 ->
            IF n < 2 THEN Fill(<<>>, n, 0)
            ELSE <<Min({Len(text), n - 1}) % 256>> \o Fill(text, n - 1, 32)
      [] n > 0 /\ f.type \in {11, 12} -> Fill(text, n - 1, 0) \o <<0>>
      [] n > 0 /\ f.type \in {1, 5, 14, 15} ->
            Fill(IF c.kind = "int" THEN c.v ELSE <<>>, n, 0)
      [] n > 0 /\ f.type = 2 ->
            Fill(IF c.kind = "float" /\ n \in {4, 8} THEN c.v ELSE <<>>, n, 0)
      [] n > 0 /\ f.type = 6 ->
            Fill(IF c.kind = "money" THEN MoneyUnits(c.v) ELSE <<>>, n, 0)
      [] n > 0 /\ f.type = 7 -> Fill(IF c = I64(<<1>>) THEN <<255>> ELSE <<>>, n, 0)
      [] n > 0 /\ f.type = 3 ->
            Fill(IF c.kind = "date" /\ n >= 4
                 THEN DateBytes(c.v[1], c.v[2], c.v[3]) ELSE <<>>, n, 0)
      [] n > 0 /\ f.type = 4 ->
            Fill(IF c.kind = "time" /\ n >= 4
                 THEN TimeBytes(c.v[1], c.v[2], c.v[3]) ELSE <<>>, n, 0)
      [] OTHER -> Fill(text, n, 32)

\* A boolean is bound as an integer, and a NULL is read as an empty text.
Bound(v)    == IF v.kind = "bool" THEN I64(v.v) ELSE v
Fetched(c)  == IF c = Null THEN Text(<<>>) ELSE c
ReadRow(r)  == [i \in DOMAIN r |-> Fetched(r[i])]

\* Bytes of the record that are the field's.
Slot(f) == f.offset + 1 .. f.offset + f.length
Fits(f) == f.offset + f.length <= file.length

\* A zeroed buffer, and the bytes of each field that fits copied into its slot.
Laid(bytes) ==
    [k \in 1..file.length |->
        LET i == SelectLastInSeq(file.fields, LAMBDA f : Fits(f) /\ k \in Slot(f))
        IN  IF i = 0 THEN 0 ELSE bytes[i][k - file.fields[i].offset]]

PackRow(r) == Laid([i \in DOMAIN r |-> PackField(file.fields[i], r[i])])

-----------------------------------------------------------------------------
(***************************************************************************)
(* The key buffer: the fields of an index one after the other.             *)
(***************************************************************************)
KeySlice(f, buf, at) == SubSeq(buf, at + 1, Min({at + f.length, Len(buf)}))

\* unpack_key_fields, one segment that is no wildcard.
KeyValue(f, s) ==
    CASE f.type \in {0, 11, 12} -> Text(UntilNul(s))
      [] f.type = 10            -> Text(UntilNul(SubSeq(s, 2, Len(s))))
      [] f.type \in {1, 14, 15} -> IntOf(s)
      [] f.type = 3             -> DateOr(s, Null)
      [] f.type = 4             -> IF AllAre(s, 0) \/ Len(s) < 4 THEN Null ELSE TimeOf(s)
      [] f.type = 2             -> IF AllAre(s, 0) \/ Len(s) \notin {4, 8}
                                   THEN FloatZero ELSE Value("float", s)
      [] f.type = 6             -> Value("money", Fill(s, 8, 0))
      [] f.type = 5             -> I64(s)
      [] f.type = 7             -> UnpackField(f, s)
      [] OTHER                  -> Text(TrimEnd(UntilNul(s)))

\* Mutant: a segment is sought where the record has its field.
KeyAtOffset(segs, j) == file.fields[segs[j]].offset

\* Where a segment of an index over fields segs begins.
KeyAt(segs, j) ==
    LET at[k \in DOMAIN segs] ==
            IF k = 1 THEN 0 ELSE at[k - 1] + file.fields[segs[k - 1]].length
    IN  at[j]

KeyFields(segs, buf) ==
    [j \in DOMAIN segs |->
        LET f == file.fields[segs[j]]
        IN  Bound(KeyValue(f, KeySlice(f, buf, KeyAt(segs, j))))]

-----------------------------------------------------------------------------
(***************************************************************************)
(* The import's decoder and the literals it makes (codec.rs, sqlsrv.rs):   *)
(* texts are trimmed, the length byte of an LSTRING is used, a ZSTRING12   *)
(* ends at its NUL, an AUTOINCREMENT is an integer and a float of 4 bytes  *)
(* that is subnormal is left at the default.  Floats are printed with a    *)
(* fixed number of decimals; those that have more are left out.            *)
(***************************************************************************)
ImportText(f, s) ==
    CASE f.type = 10 /\ s = <<>> -> <<>>
      [] f.type = 10 /\ s # <<>> -> Lossy(SubSeq(s, 2, Min({Len(s), 1 + s[1]})))
      [] f.type \in {11, 12}     -> Lossy(UntilNul(s))
      [] OTHER                   -> s

Tiny(s) ==
    /\ Len(s) = 4 /\ s[4] % 128 = 0 /\ s[3] < 128
    /\ ~AllAre(SubSeq(s, 1, 3), 0)

ImportField(f, s) ==
    CASE f.type \in {0, 10, 11, 12}              -> Text(TrimEnd(ImportText(f, s)))
      [] f.type = 15                             -> IntOf(s)
      [] f.type = 2 /\ Tiny(s)                   -> UnpackField(f, <<>>)
      [] f.type = 7                              -> Bound(UnpackField(f, s))
      [] OTHER -> UnpackField(f, s)

ImportRow(rec) ==
    [i \in DOMAIN file.fields |->
        ImportField(file.fields[i], FieldSlice(rec, file.fields[i]))]

-----------------------------------------------------------------------------
(***************************************************************************)
(* Insert and Update.                                                      *)
(***************************************************************************)
IsAuto(i) == file.fields[i].type \in {14, 15} \/ i = file.recnum

AutoFields == {i \in DOMAIN file.fields : IsAuto(i)}

Unpacked(rec, i) == Bound(UnpackField(file.fields[i], FieldSlice(rec, file.fields[i])))

\* insert_one leaves the first automatic field to the server, which numbers
\* it when it is the identity column and has nothing for it otherwise.
FirstAuto == IF AutoFields = {} THEN 0 ELSE Min(AutoFields)

InsertRow(rec) ==
    [i \in DOMAIN file.fields |->
        IF i # FirstAuto THEN Unpacked(rec, i)
        ELSE IF i = file.recnum THEN I64(NewId) ELSE Null]

\* op_insert writes the new identity into the caller's buffer: into the first
\* automatic field that is the record number or was sent as zeros.
NumberedFields(rec) ==
    {i \in AutoFields : i = file.recnum \/ AllAre(FieldSlice(rec, file.fields[i]), 0)}

WithId(rec) ==
    LET F == NumberedFields(rec)
        f == file.fields[Min(F)]
        n == Min({f.length, 8})
    IN  IF F = {} THEN rec
        ELSE IF Len(rec) < f.offset + f.length THEN rec
        ELSE [k \in DOMAIN rec |->
                IF k \in f.offset + 1 .. f.offset + n THEN NewId[k - f.offset] ELSE rec[k]]

\* build_parameterized_update sets every field but the automatic ones.
\* Mutant: those too.
UpdateRowAll(rec) == [i \in DOMAIN file.fields |-> Unpacked(rec, i)]

UpdateRow(rec) ==
    [i \in DOMAIN file.fields |-> IF IsAuto(i) THEN row[i] ELSE Unpacked(rec, i)]

WithSlice(rec, f, s) ==
    [k \in DOMAIN rec |-> IF k \in Slot(f) THEN s[k - f.offset] ELSE rec[k]]

\* An image a caller builds, whole or cut short.
Images ==
    LET D == DOMAIN file.fields
        Chosen == {c \in [D -> UNION {Slices(file, i) : i \in D}] :
                      \A i \in D : c[i] \in Slices(file, i)}
        Whole == {Laid(c) : c \in Chosen}
    IN  Whole \cup {SubSeq(rec, 1, file.length - 1) : rec \in Whole}

-----------------------------------------------------------------------------
Init ==
    /\ file \in Files
    /\ image \in Images
    /\ row = NoRow
    /\ origin = "nobody"
    /\ edited = {}

InsertRecord ==
    /\ row = NoRow
    /\ image # <<>>
    /\ DOMAIN file.fields \ {FirstAuto} # {}
    /\ row' = InsertRow(image)
    /\ image' = WithId(image)
    /\ origin' = "insert"
    /\ edited' = DOMAIN file.fields
    /\ UNCHANGED file

ImportRecord ==
    /\ row = NoRow
    /\ Len(image) = file.length
    /\ row' = ImportRow(image)
    /\ origin' = "import"
    /\ edited' = DOMAIN file.fields
    /\ UNCHANGED <<file, image>>

GetRecord ==
    /\ row # NoRow
    /\ image' = PackRow(ReadRow(row))
    /\ edited' = {}
    /\ UNCHANGED <<file, row, origin>>

EditField(i) ==
    /\ row # NoRow
    /\ edited = {}
    /\ \E s \in Slices(file, i) : image' = WithSlice(image, file.fields[i], s)
    /\ edited' = {i}
    /\ UNCHANGED <<file, row, origin>>

UpdateRecord ==
    /\ row # NoRow
    /\ image # <<>>
    /\ AutoFields # DOMAIN file.fields
    /\ row' = UpdateRow(image)
    /\ UNCHANGED <<file, image, origin, edited>>

Next ==
    \/ InsertRecord \/ ImportRecord \/ GetRecord \/ UpdateRecord
    \/ \E i \in DOMAIN file.fields : EditField(i)

Spec == Init /\ [][Next]_vars

-----------------------------------------------------------------------------
(***************************************************************************)
(* What the metadata says of a field, and the caller's bytes of it.  The   *)
(* server numbers integer columns, with what fits them.                    *)
(***************************************************************************)
Byte == 0..255
Word == {c \in Nat : c \div 256 \in Byte}

DefaultOK(t, v) ==
    CASE t = 2 -> v.v \in [1..4 -> Byte] \cup [1..8 -> Byte] /\ v.kind = "float" /\ FloatOr(v.v, Null) = v
      [] t = 3 -> v.v \in (1..31) \X (1..12) \X (Word \ {0}) /\ v = Value("date", v.v)
      [] OTHER -> v.v \in Seq(Word) /\ v = Text(v.v)

FieldOK(f) ==
    /\ f.type \in Nat /\ f.offset \in Nat /\ f.length \in Nat
    /\ f.default = Null \/ DefaultOK(f.type, f.default)

ASSUME CodecAssumption ==
    /\ NewId \in [1..8 -> Byte]
    /\ MaxSegs \in Nat
    /\ \A g \in Files :
          /\ g.fields \in Seq(Range(g.fields))
          /\ \A i \in DOMAIN g.fields : FieldOK(g.fields[i])
          /\ g.length \in Nat
          /\ g.recnum \in 0 .. Len(g.fields)
          /\ g.recnum # 0 =>
                LET f == g.fields[g.recnum]
                IN  /\ f.type \in {1, 14, 15}
                    /\ f.length \in {1, 2, 4, 8} => IntOf(Fill(NewId, f.length, 0)) = I64(NewId)
          /\ \A i \in DOMAIN g.fields : Slices(g, i) \subseteq [1 .. g.fields[i].length -> Byte]

-----------------------------------------------------------------------------
\* A field that lies in the record and shares no byte with another one.
Own(i) ==
    /\ Fits(file.fields[i])
    /\ \A j \in DOMAIN file.fields \ {i} : Slot(file.fields[i]) \cap Slot(file.fields[j]) = {}

Ascii(s) == \A k \in DOMAIN s : s[k] < 128

\* Types whose bytes are read and written back as they are, the image's limits
\* apart: not MONEY, not the types unpack_row_typed has no branch for, and no
\* default that the field has no room for.
Settled(f, v) ==
    CASE f.type = 0  -> v.kind = "text" /\ Ascii(v.v) /\ Len(v.v) = f.length
      [] f.type = 11 -> v.kind = "text" /\ Ascii(v.v) /\ Len(v.v) < f.length
      [] f.type = 3  -> v.kind = "date" => v.v[3] < 10000 /\ f.length >= 4
      [] f.type = 2  -> Len(v.v) \in {0, f.length}
      [] f.type = 1  -> f.length \in {1, 2, 4, 8}
      [] OTHER       -> f.type \in {4, 5, 7}

\* Bytes that are the only ones for the value they stand for.
Canonical(f, s) ==
    CASE f.type = 0  -> Ascii(s)
      [] f.type = 11 -> Ascii(s) /\ Last(s) = 0 /\ \A j, k \in DOMAIN s : j < k /\ s[j] = 0 => s[k] = 0
      [] f.type = 1  -> Len(s) \in {1, 2, 4, 8}
      [] f.type = 2  -> Len(s) \in {4, 8} /\ Finite(s) /\ ~Subnormal(s) /\ (AllAre(s, 0) => f.default = Null)
      [] f.type = 3  -> IF AllAre(s, 0) THEN f.default = Null ELSE ValidDate(s) /\ Len(s) = 4 /\ s[3] + 256 * s[4] < 10000
      [] f.type = 4  -> Len(s) = 4 /\ Hhmmsscc(s) % 100 = 0 /\ Hhmmsscc(s) < 100 * 100 * 100 * 100
      [] f.type = 5  -> Len(s) <= 8
      [] f.type = 7  -> s \in {<<0>>, <<255>>}
      [] OTHER       -> FALSE

(***************************************************************************)
(* A record that was inserted reads back as the caller has it in its       *)
(* buffer, the identity the server gave it included, field by field: no    *)
(* field's bytes end up in another's slot.                                 *)
(***************************************************************************)
InsertReadsBack ==
    [][row = NoRow /\ origin' = "insert" /\ Len(image) = file.length =>
          \A i \in DOMAIN file.fields :
              LET f == file.fields[i]
                  s == FieldSlice(image', f)
              IN  Own(i) /\ (IF IsAuto(i) THEN i = file.recnum /\ i = FirstAuto /\ f.length \in {1, 2, 4, 8}
                             ELSE Canonical(f, s))
                      => FieldSlice(PackRow(ReadRow(row')), f) = s]_vars

(***************************************************************************)
(* Get, then Update with the buffer as it was read or with one field       *)
(* changed, leaves every other column as it was: padding, terminators,     *)
(* signs, defaults and NULLs survive the way through the image, and the    *)
(* identity is never written.                                              *)
(***************************************************************************)
UpdateChangesOnlyEdits ==
    [][row # NoRow /\ row' # row =>
          \A i \in DOMAIN file.fields \ edited :
              IsAuto(i) \/ (Own(i) /\ Settled(file.fields[i], row[i])) => row'[i] = row[i]]_vars

(***************************************************************************)
(* The key an application builds from a record it has read, over any       *)
(* fields, and the term of an extended Get with one field's bytes, compare *)
(* equal with the stored columns: Get Equal finds the record again.        *)
(***************************************************************************)
Searchable(f, v) ==
    /\ Settled(f, v)
    /\ v # Null
    /\ v.kind = "text" => \A k \in DOMAIN v.v : v.v[k] # 0
    /\ v # Value("time", <<0, 0, 0>>)

KeyFindsRecord ==
    row # NoRow =>
        LET rec == PackRow(ReadRow(row))
            S(i) == FieldSlice(rec, file.fields[i])
            Found == {i \in DOMAIN file.fields : Own(i) /\ Searchable(file.fields[i], row[i])}
        IN  /\ \A n \in 0..MaxSegs : \A segs \in [1..n -> Found] :
                  KeyFields(segs, FlattenSeq([j \in 1..n |-> S(segs[j])])) = [j \in 1..n |-> row[segs[j]]]
            /\ \A i \in Found : Bound(TermValue(file.fields[i], S(i))) = row[i]
=============================================================================
