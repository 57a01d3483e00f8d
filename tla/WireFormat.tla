------------------------------ MODULE WireFormat ------------------------------
(***************************************************************************)
(* The protobuf encoding both ends use, as eco_city_tmp_ui.py spells it    *)
(* out: varints and tagged fields over sequences of bytes.  The engine's   *)
(* side of it is the protobuf library, which encodes an int32 the same     *)
(* way: a negative one as the ten bytes of its 64-bit value.               *)
(***************************************************************************)
EXTENDS Integers, Sequences

Byte == 0 .. 255
Int32 == {v \in Int : -2147483647 - 1 <= v /\ v <= 2147483647}

VARINT == 0
LEN == 2

Tag(number, wire) == number * 8 + wire

-----------------------------------------------------------------------------
(* A varint holds seven bits a byte, the low ones first; bit 7 says that     *)
(* another byte follows.                                                     *)
VarintSize(v) ==
    IF v < 0 THEN 10
    ELSE IF v < 128 THEN 1
    ELSE IF v < 16384 THEN 2
    ELSE IF v < 2097152 THEN 3
    ELSE IF v < 268435456 THEN 4
    ELSE 5

(* The i-th group of seven bits; those after the fifth are the sign's.       *)
Group(v, i) ==
    IF i = 1 THEN v % 128
    ELSE IF i = 2 THEN (v \div 128) % 128
    ELSE IF i = 3 THEN (v \div 16384) % 128
    ELSE IF i = 4 THEN (v \div 2097152) % 128
    ELSE IF i = 5 THEN (v \div 268435456) % 128
    ELSE IF i = 10 THEN 1
    ELSE 127

Varint(v) ==
    [i \in 1 .. VarintSize(v) |-> Group(v, i) + (IF i = VarintSize(v) THEN 0 ELSE 128)]

GroupIn(bytes, i) == IF i \in DOMAIN bytes THEN bytes[i] % 128 ELSE 0

(* Mutation: the sign bit is masked off. *)
Int32Unsigned(bytes) ==
    GroupIn(bytes, 1) + 128 * GroupIn(bytes, 2) + 16384 * GroupIn(bytes, 3)
    + 2097152 * GroupIn(bytes, 4) + 268435456 * (GroupIn(bytes, 5) % 8)

(* The low 32 bits of a varint, the highest of them the sign (_as_int32).    *)
Int32Of(bytes) ==
    LET low == GroupIn(bytes, 1) + 128 * GroupIn(bytes, 2) + 16384 * GroupIn(bytes, 3)
               + 2097152 * GroupIn(bytes, 4)
        top == GroupIn(bytes, 5) % 16
    IN  low + 268435456 * (IF top >= 8 THEN top - 16 ELSE top)

-----------------------------------------------------------------------------
(* The last byte of the varint at p, or one past the end if it is cut short. *)
VarintEnd(bytes, p) ==
    LET f[q \in Nat] == IF q > Len(bytes) \/ bytes[q] < 128 THEN q ELSE f[q + 1] IN f[p]

Slice(bytes, p, q) == SubSeq(bytes, p, IF q <= Len(bytes) THEN q ELSE Len(bytes))

(* One step of _decode_fields.  A wire type that neither end writes ends the *)
(* message; a length past the end makes the next field begin behind it.      *)
FieldAt(bytes, p) ==
    LET tagEnd == VarintEnd(bytes, p)
        tag == Int32Of(Slice(bytes, p, tagEnd))
        varintEnd == VarintEnd(bytes, tagEnd + 1)
        varint == Slice(bytes, tagEnd + 1, varintEnd)
        length == Int32Of(varint)
        last == varintEnd + (IF length \in DOMAIN bytes \union {0} THEN length ELSE Len(bytes) + 1)
    IN  CASE tag % 8 = VARINT ->
               [tag |-> tag, value |-> varint, next |-> varintEnd + 1]
          [] tag % 8 = LEN ->
               [tag |-> tag, value |-> Slice(bytes, varintEnd + 1, last), next |-> last + 1]
          [] OTHER -> [tag |-> tag, value |-> << >>, next |-> Len(bytes) + 1]

(* The fields of a message, in the order they were written. *)
Fields(bytes) ==
    LET f[p \in Nat] ==
            IF p > Len(bytes) THEN << >>
            ELSE LET field == FieldAt(bytes, p) IN <<field>> \o f[field.next]
    IN  f[1]

(* No field reaches past the end. *)
WellFormed(bytes) ==
    LET fields == Fields(bytes)
    IN  \A i \in DOMAIN fields : fields[i].next <= Len(bytes) + 1
=============================================================================
