--------------------------------- MODULE Wire ---------------------------------
(***************************************************************************)
(* The wire format (base/protos/wire.py): varints with their width, signed *)
(* and zigzag integers, tags, and the skipping of unknown groups.          *)
(*                                                                         *)
(* The widths are constants: a byte carries Bits bits and a mark (7 in the *)
(* code), a long integer has Long bits (64) and a short one Short (32).    *)
(* The reader meets any sequence of bytes, and skips a group of any        *)
(* sequence of fields, of which only the kind and the number count.        *)
(***************************************************************************)
EXTENDS Integers, Sequences
LOCAL INSTANCE FiniteSets
LOCAL INSTANCE FiniteSetsExt

CONSTANTS
    Bits, Long, Short,
    TypeBits,       \* bits of a tag that hold the wire type (3)
    MaxType,        \* the largest wire type (5)
    MaxDepth,       \* max_depth of the reader, not 0
    MaxBytes,       \* bound: length of the input
    MaxFields       \* bound: fields in and after a group

VARIABLES
    bytes,          \* the input of the reader
    groups,         \* _skip_group: the numbers of the open groups
    fields,         \* the fields it has read
    skipping        \* "yes", "done" or "failed"

wireVars == <<bytes, groups, fields, skipping>>

Base == 2 ^ Bits
Byte == 0..(2 * Base - 1)
Marked(b) == b >= Base              \* more bytes follow
BytesFor(width) == (width + Bits - 1) \div Bits
Failed == [ok |-> FALSE, value |-> 0, used |-> 0]

(* The loop of read_varint: up to BytesFor(Long) bytes, ended by one without *)
(* the mark; bits beyond the width are dropped.                              *)
RECURSIVE VarintFrom(_, _, _)
VarintFrom(s, i, value) ==
    IF i >= BytesFor(Long) \/ i >= Len(s) THEN Failed
    ELSE LET v == value + (s[i + 1] % Base) * 2 ^ (Bits * i)
         IN  IF Marked(s[i + 1]) THEN VarintFrom(s, i + 1, v)
             ELSE [ok |-> TRUE, value |-> v % 2 ^ Long, used |-> i + 1]

ReadVarint(s) == VarintFrom(s, 0, 0)

RECURSIVE WriteVarint(_)
WriteVarint(v) == IF v < Base THEN <<v>> ELSE <<(v % Base) + Base>> \o WriteVarint(v \div Base)

(* _signed: two's complement of the low bits. *)
SignedLate(v, bits) ==
    LET low == v % 2 ^ bits IN IF low > 2 ^ (bits - 1) THEN low - 2 ^ bits ELSE low
Signed(v, bits) ==
    LET low == v % 2 ^ bits IN IF low >= 2 ^ (bits - 1) THEN low - 2 ^ bits ELSE low

ZigzagDecode(v) == IF v % 2 = 0 THEN v \div 2 ELSE -((v + 1) \div 2)
ZigzagEncode(v) == IF v >= 0 THEN 2 * v ELSE -2 * v - 1

(* read_int32 and write_int32, read_sint32 and write_sint32, and the same    *)
(* for the long types: the value a varint stands for, and the varint for it. *)
IntOf(v, bits) == Signed(v, bits)
VarintOfInt(n) == n % 2 ^ Long
SintOf(v, bits) == Signed(ZigzagDecode(v % 2 ^ bits), bits)
VarintOfSint(n, bits) == ZigzagEncode(n) % 2 ^ bits

(* The loop of read_tag: the last byte has room for a few bits only. *)
RECURSIVE TagFrom(_, _, _)
TagFrom(s, i, tag) ==
    IF i >= BytesFor(Short) \/ i >= Len(s) THEN Failed
    ELSE IF i = BytesFor(Short) - 1 /\ s[i + 1] >= 2 ^ (Short - Bits * i) THEN Failed
    ELSE LET t == tag + (s[i + 1] % Base) * 2 ^ (Bits * i)
         IN  IF Marked(s[i + 1]) THEN TagFrom(s, i + 1, t)
             ELSE [ok |-> TRUE, value |-> t, used |-> i + 1]

FieldNumber(tag) == tag \div 2 ^ TypeBits
WireType(tag) == tag % 2 ^ TypeBits
FieldNumbers == 1..(2 ^ (Short - TypeBits) - 1)

ReadTag(s) ==
    LET r == TagFrom(s, 0, 0)
    IN  IF r.ok /\ FieldNumber(r.value) \in FieldNumbers /\ WireType(r.value) <= MaxType THEN r ELSE Failed

WriteTag(number, type) == WriteVarint(number * 2 ^ TypeBits + type)

(* The loop of read_packed over varints: it reads values until the field is  *)
(* used up, and fails when one runs past its end.                            *)
RECURSIVE PackedFrom(_, _, _, _)
PackedFrom(s, i, end, values) ==
    IF i >= end THEN [ok |-> TRUE, value |-> values, used |-> i]
    ELSE LET r == ReadVarint(SubSeq(s, i + 1, Len(s)))
         IN  IF ~r.ok \/ i + r.used > end THEN Failed
             ELSE PackedFrom(s, i + r.used, end, Append(values, r.value))

ReadPacked(s) ==
    LET size == ReadVarint(s)
        end == size.used + size.value
    IN  IF ~size.ok \/ end > Len(s) THEN Failed ELSE PackedFrom(s, size.used, end, <<>>)

-----------------------------------------------------------------------------
(* The fields a group may contain. *)
FieldKinds == {"start", "end", "value"}
Field == [kind : FieldKinds, number : 1..2]

WireInit ==
    /\ bytes = <<>>
    /\ groups = <<1>> /\ fields = <<>>     \* the tag that starts group 1 has been read
    /\ skipping = "yes"

Receive ==
    /\ fields = <<>> /\ Len(bytes) < MaxBytes
    /\ \E b \in Byte : bytes' = Append(bytes, b)
    /\ UNCHANGED <<groups, fields, skipping>>

(* One turn of the loop of _skip_group. *)
SkipField(f) ==
    CASE f.kind = "value" -> groups' = groups /\ skipping' = skipping
      [] f.kind = "start" /\ Len(groups) < MaxDepth -> groups' = Append(groups, f.number) /\ skipping' = skipping
      [] f.kind = "end" /\ f.number = groups[Len(groups)] ->
             /\ groups' = SubSeq(groups, 1, Len(groups) - 1)
             /\ skipping' = IF Len(groups) = 1 THEN "done" ELSE "yes"
      [] OTHER -> groups' = groups /\ skipping' = "failed"

Skip ==
    /\ bytes = <<>>
    /\ skipping = "yes" /\ Len(fields) < MaxFields
    /\ \E f \in Field : fields' = Append(fields, f) /\ SkipField(f)
    /\ UNCHANGED bytes

WireNext == Receive \/ Skip

-----------------------------------------------------------------------------
(* The number that the first n bytes spell, least significant first. *)
Spelled(s, n) == MapThenSumSet(LAMBDA i : (s[i] % Base) * Base ^ (i - 1), 1..n)

(* The first byte without the mark, 0 when there is none. *)
LastByte(s) ==
    LET unmarked == {i \in DOMAIN s : ~Marked(s[i])}
    IN  IF unmarked = {} THEN 0 ELSE CHOOSE i \in unmarked : \A j \in unmarked : i <= j

(* The state of the reader is one of the program. *)
WireTypeOK ==
    /\ bytes \in Seq(Byte) /\ groups \in Seq(1..2) /\ fields \in Seq(Field)
    /\ Len(groups) <= MaxDepth
    /\ skipping \in {"yes", "done", "failed"}

(* A varint is read up to the first byte without the mark, if it comes soon  *)
(* enough, and is the number its bytes spell, cut to the width of the type,  *)
(* however long its encoding (read_varint).                                  *)
VarintSpells ==
    LET last == LastByte(bytes)
        r == ReadVarint(bytes)
    IN  /\ r.ok = (last \in 1..BytesFor(Long))
        /\ r.ok => r.used = last /\ r.value = Spelled(bytes, last) % 2 ^ Long

(* What is written is read back, at the edges of every width: the canonical  *)
(* encoding of a varint is no longer than the one that was read, and signed  *)
(* and zigzag numbers return from their varints, negative ones through the   *)
(* long width (_signed, _zigzag_decode and the readers and writers).         *)
WrittenReadBack ==
    LET r == ReadVarint(bytes)
        w == WriteVarint(r.value)
    IN  r.ok =>
          /\ ReadVarint(w) = [ok |-> TRUE, value |-> r.value, used |-> Len(w)] /\ Len(w) <= r.used
          /\ \A bits \in {Short, Long} :
                LET n == IntOf(r.value, bits)
                    z == SintOf(r.value, bits)
                IN  /\ n \in -(2 ^ (bits - 1))..(2 ^ (bits - 1) - 1)
                    /\ IntOf(ReadVarint(WriteVarint(VarintOfInt(n))).value, bits) = n
                    /\ VarintOfSint(z, bits) = r.value % 2 ^ bits

(* A tag is accepted when its number fits the short width, names a field and *)
(* has a known type; it then is the tag the writer writes for them, in this  *)
(* or a longer encoding (read_tag, write_tag).                               *)
TagsFit ==
    LET last == LastByte(bytes)
        t == Spelled(bytes, last)
        r == ReadTag(bytes)
        w == WriteTag(FieldNumber(t), WireType(t))
    IN  /\ r.ok = /\ last \in 1..BytesFor(Short)
                  /\ t < 2 ^ Short
                  /\ FieldNumber(t) # 0 /\ WireType(t) <= MaxType
        /\ r.ok => r.used = last /\ Len(w) <= last /\ ReadTag(w).value = t

(* A packed field is read when it lies within the input and divides into     *)
(* whole varints; it then yields one value for each byte without the mark,   *)
(* and the reader stands at its end (read_packed).                           *)
PackedFills ==
    LET size == ReadVarint(bytes)
        r == ReadPacked(bytes)
        part == SubSeq(bytes, size.used + 1, size.used + size.value)
        ends == {i \in DOMAIN part : ~Marked(part[i])} \cup {0}
    IN  size.ok =>
          /\ r.ok = /\ size.used + size.value <= Len(bytes)
                    /\ Len(part) \in ends
                    /\ \A i \in DOMAIN part : \E j \in ends : j < i /\ i - j <= BytesFor(Long)
          /\ r.ok => /\ r.used = size.used + size.value
                     /\ Len(r.value) = Cardinality(ends) - 1

(* The fields that close a group with the given number, by the grammar: any  *)
(* values and whole groups, and then the end of this one.                    *)
RECURSIVE GroupEnd(_, _, _, _)
GroupEnd(s, i, number, depth) ==
    IF i > Len(s) \/ depth > MaxDepth THEN 0
    ELSE CASE s[i].kind = "end" -> IF s[i].number = number THEN i ELSE 0
           [] s[i].kind = "value" -> GroupEnd(s, i + 1, number, depth)
           [] s[i].kind = "start" ->
                  LET inner == GroupEnd(s, i + 1, s[i].number, depth + 1)
                  IN  IF inner = 0 THEN 0 ELSE GroupEnd(s, inner + 1, number, depth)

(* Skipping an unknown group stops at the end that belongs to it, at any     *)
(* nesting within the limit, and not before (_skip_group).                   *)
GroupSkippedWhole == (skipping = "done") = (fields # <<>> /\ GroupEnd(fields, 1, 1, 1) = Len(fields))
=============================================================================
