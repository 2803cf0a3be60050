--------------------------- MODULE RecordCodecMC ---------------------------
(***************************************************************************)
(* Records of a field of each type between, or after, fields of two bytes  *)
(* of text and one byte of integer, and records of fields that overlap.    *)
(***************************************************************************)
EXTENDS RecordCodec

Field(t, at, n, d) == [type |-> t, offset |-> at, length |-> n, default |-> d]

TypesMC ==
    ({0, 8, 10, 11, 12} \X {3}) \cup ({1} \X {1, 2, 3, 4}) \cup ({2} \X {4, 8})
        \cup {<<3, 4>>, <<4, 4>>, <<5, 2>>, <<6, 8>>, <<7, 1>>, <<14, 2>>, <<15, 2>>}

DefaultsMC(t) ==
    CASE t = 3 -> {Null, Value("date", <<1, 1, 1>>)}
      [] t = 2 -> {Null, Value("float", <<0, 0, 128, 63>>)}
      [] t = 8 -> {Null, Text(<<65>>)}
      [] OTHER -> {Null}

Between(t, n, d, r) ==
    [fields |-> <<Field(0, 0, 2, Null), Field(t, 2, n, d), Field(1, 2 + n, 1, Null)>>,
     recnum |-> r, length |-> n + 3]

Overlapping ==
    [fields |-> <<Field(0, 0, 2, Null), Field(11, 1, 3, Null), Field(0, 4, 2, Null)>>,
     recnum |-> 0, length |-> 6]

Numbered ==
    [fields |-> <<Field(14, 0, 1, Null), Field(1, 1, 2, Null)>>, recnum |-> 2, length |-> 3]

After(t, n, d, r) ==
    [fields |-> <<Field(1, 0, 1, Null), Field(t, 1, n, d)>>, recnum |-> r, length |-> n + 1]

Shapes ==
    UNION {{<<x[1], x[2], d, r>> : d \in IF x[2] = 8 THEN {Null} ELSE DefaultsMC(x[1]),
                                   r \in IF x[1] \in {1, 14, 15} THEN {0, 2} ELSE {0}}
               : x \in TypesMC}

FilesMC ==
    {Between(x[1], x[2], x[3], x[4]) : x \in Shapes}
        \cup {After(x[1], x[2], x[3], x[4]) : x \in Shapes} \cup {Overlapping, Numbered}

Strings(n, B) == [1..n -> B]

TimesMC == {<<0, 0, 0, 0>>, <<100, 0, 0, 0>>, <<168, 71, 205, 0>>, <<11, 72, 205, 0>>,
            <<12, 10, 104, 1>>, <<255, 224, 245, 5>>, <<255, 255, 255, 127>>}

SlicesMC(f, i) ==
    LET t == f.fields[i].type   n == f.fields[i].length IN
    IF i # 2 THEN IF t = 0 THEN {<<65, 32>>, <<66, 67>>} ELSE {<<0>>, <<7>>}
    ELSE CASE t \in {0, 8, 11, 12}   -> Strings(n, {0, 32, 65}) \cup {<<132, 65, 32>>}
           [] t = 10                 -> {0, 1, 2} \X {32, 65} \X {32, 65}
           [] t \in {1, 5, 14, 15}   -> Strings(n, IF n < 4 THEN {0, 1, 255} ELSE {0, 255})
           [] t = 2 /\ n = 4 -> {<<0,0,0,0>>, <<0,0,128,63>>, <<0,0,128,127>>, <<1,0,0,0>>, <<0,0,0,128>>}
           [] t = 2 /\ n = 8 -> {<<0,0,0,0,0,0,0,0>>, <<0,0,0,0,0,0,240,63>>, <<0,0,0,0,0,0,240,127>>,
                                 <<1,0,0,0,0,0,0,0>>, <<0,0,0,0,0,0,0,128>>}
           [] t = 3 -> {<<0,0,0,0>>, <<2,1,224,7>>, <<31,12,0,0>>, <<2,13,224,7>>, <<12,1,57,48>>}
           [] t = 4 -> TimesMC
           [] t = 6 -> {<<3,0,0,0,0,0,0,0>>, <<7,0,0,0,0,0,0,0>>, <<255,255,255,255,255,255,255,255>>}
           [] t = 7 -> {<<0>>, <<1>>, <<255>>}

NewIdMC == <<5, 0, 0, 0, 0, 0, 0, 0>>
=============================================================================
