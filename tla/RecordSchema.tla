---------------------------- MODULE RecordSchema ----------------------------
(***************************************************************************)
(* core/binary.ts: records written and read by a schema.  A schema is an   *)
(* integer of n bytes, n characters, an array, a bitmap over an integer or *)
(* an object, the sequence of its named fields; a value is a number, a     *)
(* sequence of character codes, a sequence, a record of fields or, in a    *)
(* bitmap of one bit, a boolean.  A file is a sequence of bytes.           *)
(*                                                                         *)
(* An unsigned word with its highest bit set is read as the negative       *)
(* number of the same bits: TLC's integers end there, and the code uses    *)
(* such words in bit operations only.  A float is its whole part.          *)
(***************************************************************************)
EXTENDS Integers, Sequences, SequencesExt, FiniteSets, FiniteSetsExt, Functions, TLC

Number(n, signed) == [t |-> "int", n |-> n, signed |-> signed]
int8 == Number(1, TRUE)
uint8 == Number(1, FALSE)
int16 == Number(2, TRUE)
uint16 == Number(2, FALSE)
int32 == Number(4, TRUE)
uint32 == Number(4, TRUE)
float32 == Number(4, TRUE)
char(n) == [t |-> "char", n |-> n]
array(of, n) == [t |-> "array", of |-> of, n |-> n]
\* masks: the fields of a bitmap as [name |-> <<lowest bit, bits>>]
bitmap(of, masks) == [t |-> "bitmap", of |-> of, masks |-> masks]
object(fields) == [t |-> "object", fields |-> fields]
Names(s) == [i \in 1..Len(s.fields) |-> s.fields[i][1]]

\* what an absent value is written as, and the fields of a new record
RECURSIVE Blank(_)
Blank(s) ==
  CASE s.t = "int" -> 0
    [] s.t = "char" -> <<>>
    [] s.t = "array" -> [i \in 1..s.n |-> Blank(s.of)]
    [] s.t = "bitmap" -> [k \in DOMAIN s.masks |-> IF s.masks[k][2] = 1 THEN FALSE ELSE 0]
    [] s.t = "object" -> [k \in ToSet(Names(s)) |->
                            Blank((CHOOSE f \in ToSet(s.fields) : f[1] = k)[2])]

Pow2(n) == 2^n
Bits(v, mask) == IF mask[2] = 1 THEN IF v THEN 1 ELSE 0 ELSE v

\* slip: a value that does not fit its mask spills into the next field
create_bitmap_Spills(masks, v) ==
  SumSet({Pow2(masks[k][1]) * Bits(v[k], masks[k]) : k \in DOMAIN masks})
create_bitmap(masks, v) ==
  FoldFunctionOnSet(+, 0,
    [k \in DOMAIN masks |-> Pow2(masks[k][1]) * (Bits(v[k], masks[k]) % Pow2(masks[k][2]))],
    DOMAIN masks)
demask(v, mask) ==
  LET field == (v \div Pow2(mask[1])) % Pow2(mask[2])
  IN IF mask[2] = 1 THEN field # 0 ELSE field

Padded(s, v) == [i \in 1..s.n |-> IF i <= Len(v) THEN v[i] ELSE Blank(s.of)]

RECURSIVE Write(_, _)
Write(s, v) ==
  CASE s.t = "int" -> [i \in 1..s.n |-> (v \div 256^(i - 1)) % 256]
    [] s.t = "char" -> [i \in 1..s.n |-> IF i <= Len(v) THEN v[i] ELSE 0]
    [] s.t = "array" -> FlattenSeq([i \in 1..s.n |-> Write(s.of, Padded(s, v)[i])])
    [] s.t = "bitmap" -> Write(s.of, create_bitmap(s.masks, v))
    [] s.t = "object" -> FlattenSeq([i \in 1..Len(s.fields) |->
                           Write(s.fields[i][2], v[s.fields[i][1]])])

\* reading: the value, the position behind it, and ok = FALSE after a RangeError
Got(v, pos) == [v |-> v, pos |-> pos, ok |-> TRUE]
Short(pos) == [v |-> 0, pos |-> pos, ok |-> FALSE]
Whole(bytes, pos, n) == pos + n - 1 <= Len(bytes)
AsNumber(s, b) ==
  LET top == IF (s.signed \/ s.n = 4) /\ b[s.n] >= 128 THEN b[s.n] - 256 ELSE b[s.n]
      word[i \in 0..s.n] == IF i = s.n THEN 0
                            ELSE (IF i = s.n - 1 THEN top ELSE b[i + 1]) + 256 * word[i + 1]
  IN word[0]
ToNul(b) == IF \E i \in DOMAIN b : b[i] = 0
            THEN SubSeq(b, 1, Min({i \in DOMAIN b : b[i] = 0}) - 1) ELSE b

RECURSIVE Parse(_, _, _)
Parse(s, bytes, pos) ==
  CASE s.t \in {"int", "char"} ->
         LET b == SubSeq(bytes, pos, pos + s.n - 1)
         IN IF ~Whole(bytes, pos, s.n) THEN Short(pos + s.n)
            ELSE Got(IF s.t = "int" THEN AsNumber(s, b) ELSE ToNul(b), pos + s.n)
    [] s.t = "bitmap" ->
         LET r == Parse(s.of, bytes, pos)
         IN IF r.ok THEN Got([k \in DOMAIN s.masks |-> demask(r.v, s.masks[k])], r.pos) ELSE r
    [] s.t = "array" ->
         FoldLeft(LAMBDA r, i : IF ~r.ok THEN r
                    ELSE LET x == Parse(s.of, bytes, r.pos)
                         IN IF x.ok THEN Got(Append(r.v, x.v), x.pos) ELSE x,
                  Got(<<>>, pos), [i \in 1..s.n |-> i])
    [] s.t = "object" ->   \* the RangeError of a field ends the record, not the reading
         LET r == FoldLeft(LAMBDA r, f : IF ~r.ok THEN r
                    ELSE LET x == Parse(f[2], bytes, r.pos)
                         IN IF x.ok THEN Got((f[1] :> x.v) @@ r.v, x.pos)
                            ELSE [r EXCEPT !.pos = x.pos, !.ok = FALSE],
                  Got(<<>>, pos), s.fields)
         IN [r EXCEPT !.ok = TRUE]

\* A class: the schema of its records, and the fields of a new one.  What is read
\* is assigned over a new one: Object.assign(new T, parsed).
Class(fields, init) == [schema |-> object(fields), new |-> init @@ Blank(object(fields))]
Plain(fields) == Class(fields, <<>>)
Deserialize(c, bytes) == Parse(c.schema, bytes, 1).v @@ c.new
Size(c) == Len(Write(c.schema, Blank(c.schema)))
DeserializeAll(c, bytes) ==
  [i \in 1..((Len(bytes) + Size(c) - 1) \div Size(c)) |->
     Parse(c.schema, bytes, (i - 1) * Size(c) + 1).v @@ c.new]

-----------------------------------------------------------------------------
\* What a value is once it went through a file: a number modulo its width, a text
\* cut at its width and its first nul, an array at the length of the schema.
RECURSIVE Fitted(_, _)
Fitted(s, v) ==
  CASE s.t = "int" /\ s.n < 4 ->
         LET m == v % 256^s.n IN IF s.signed /\ 2 * m >= 256^s.n THEN m - 256^s.n ELSE m
    [] s.t = "int" /\ s.n = 4 -> v
    [] s.t = "char" -> ToNul(SubSeq(v, 1, Min({s.n, Len(v)})))
    [] s.t = "array" -> [i \in 1..s.n |-> IF i <= Len(v) THEN Fitted(s.of, v[i]) ELSE Blank(s.of)]
    [] s.t = "bitmap" -> [k \in DOMAIN v |-> IF s.masks[k][2] = 1 THEN v[k]
                                             ELSE v[k] % Pow2(s.masks[k][2])]
    [] s.t = "object" -> [k \in DOMAIN v |->
                            Fitted((CHOOSE f \in ToSet(s.fields) : f[1] = k)[2], v[k])]

\* Values that show a field in the wrong place or of the wrong width.
RECURSIVE Probes(_)
Probes(s) ==
  CASE s.t = "int" -> IF s.n = 1 THEN {-1, 128, 300} ELSE {-1, 128, 32768, 65535}
    [] s.t = "char" -> {<<65>>, [i \in 1..s.n |-> 65], [i \in 1..s.n + 1 |-> 66]}
    [] s.t = "array" -> {<<>>} \union {[i \in 1..s.n + 1 |-> x] : x \in Probes(s.of)}
    [] s.t = "bitmap" ->
         {[Blank(s) EXCEPT ![k] = IF s.masks[k][2] = 1 THEN TRUE ELSE x]
            : k \in DOMAIN s.masks, x \in {1, 63, 64}}
    [] s.t = "object" ->
         UNION {{[Blank(s) EXCEPT ![f[1]] = x] : x \in Probes(f[2])} : f \in ToSet(s.fields)}
=============================================================================
