----------------------------- MODULE FramingProofs -----------------------------
(***************************************************************************)
(* Proofs about the encoding and the framing, for every int32, every game, *)
(* every sequence of games or keys, and every way recv may cut the stream. *)
(*                                                                         *)
(* The varints first: the bytes end where the reader looks for their end,  *)
(* and give the number back.  Then what a message takes on the wire, and   *)
(* what the engine makes of a key.  Then the stream: the inductive         *)
(* invariant, a lemma for each action, and the theorems.                   *)
(***************************************************************************)
EXTENDS Framing, FoldProofs

-----------------------------------------------------------------------------
(* Integer division by 128 and its powers, as the groups of seven bits use it. *)
LEMMA DivSteps ==
    ASSUME NEW v \in Int
    PROVE  /\ v \div 16384 = (v \div 128) \div 128
           /\ v \div 2097152 = (v \div 16384) \div 128
           /\ v \div 268435456 = (v \div 2097152) \div 128
  BY SMT

LEMMA Remainder ==
    ASSUME NEW v \in Int
    PROVE  v % 128 \in 0 .. 127 /\ v = (v % 128) + 128 * (v \div 128) /\ v \div 128 \in Int
  BY SMT

(* Four groups and what is left make up the number. *)
LEMMA GroupsAddUp ==
    ASSUME NEW v \in Int
    PROVE  v = (v % 128) + 128 * ((v \div 128) % 128) + 16384 * ((v \div 16384) % 128)
               + 2097152 * ((v \div 2097152) % 128) + 268435456 * (v \div 268435456)
  <1> DEFINE q1 == v \div 128
             q2 == v \div 16384
             q3 == v \div 2097152
             q4 == v \div 268435456
  <1>1. q2 = q1 \div 128 /\ q3 = q2 \div 128 /\ q4 = q3 \div 128
    BY SMT, DivSteps
  <1>2. v = (v % 128) + 128 * q1 /\ v % 128 \in Int /\ q1 \in Int
    BY SMT, Remainder
  <1>3. q1 = (q1 % 128) + 128 * q2 /\ q1 % 128 \in Int /\ q2 \in Int
    BY SMT, <1>1, <1>2, Remainder
  <1>4. q2 = (q2 % 128) + 128 * q3 /\ q2 % 128 \in Int /\ q3 \in Int
    BY SMT, <1>1, <1>3, Remainder
  <1>5. q3 = (q3 % 128) + 128 * q4 /\ q3 % 128 \in Int /\ q4 \in Int
    BY SMT, <1>1, <1>4, Remainder
  <1> HIDE DEF q1, q2, q3, q4
  <1>6. v = (v % 128) + 128 * (q1 % 128) + 16384 * (q2 % 128) + 2097152 * (q3 % 128)
            + 268435456 * q4
    BY SMT, <1>2, <1>3, <1>4, <1>5
  <1> QED BY SMT, <1>6 DEF q1, q2, q3, q4

LEMMA GroupRange ==
    ASSUME NEW v \in Int, NEW i \in 1 .. 10
    PROVE  Group(v, i) \in 0 .. 127
  BY SMT, Remainder DEF Group

LEMMA SizeRange ==
    ASSUME NEW v \in Int32
    PROVE  VarintSize(v) \in {1, 2, 3, 4, 5, 10}
  BY SMT DEF VarintSize, Int32

(* A group that is not written is zero. *)
LEMMA UnwrittenGroups ==
    ASSUME NEW v \in Int32, NEW i \in 1 .. 5, i > VarintSize(v)
    PROVE  Group(v, i) = 0
  BY SMT DEF VarintSize, Group, Int32

LEMMA GroupsRead ==
    ASSUME NEW v \in Int32, NEW i \in 1 .. 5
    PROVE  GroupIn(Varint(v), i) = Group(v, i)
  <1>1. CASE i <= VarintSize(v)
    <2>1. i \in DOMAIN Varint(v) /\ Varint(v)[i] = Group(v, i) + (IF i = VarintSize(v) THEN 0 ELSE 128)
      BY SMT, <1>1, SizeRange DEF Varint
    <2>2. Group(v, i) \in 0 .. 127
      BY SMT, GroupRange DEF Int32
    <2>3. Varint(v)[i] % 128 = Group(v, i)
      BY SMT, <2>1, <2>2
    <2> QED BY SMT, <2>1, <2>3 DEF GroupIn
  <1>2. CASE i > VarintSize(v)
    <2>1. i \notin DOMAIN Varint(v)
      BY SMT, <1>2, SizeRange DEF Varint
    <2> QED BY SMT, <2>1, <1>2, UnwrittenGroups DEF GroupIn
  <1> QED BY SMT, <1>1, <1>2, SizeRange

(* Every int32, negative ones in ten bytes included, is read from its bytes  *)
(* as it was written: by the UI's _as_int32 and by the engine's library.     *)
THEOREM Int32RoundTrip == \A v \in Int32 : Int32Of(Varint(v)) = v
  <1> SUFFICES ASSUME NEW v \in Int32 PROVE Int32Of(Varint(v)) = v
    BY SMT
  <1> DEFINE g(i) == GroupIn(Varint(v), i)
             w == v \div 268435456
  <1>1. /\ g(1) = v % 128 /\ g(2) = (v \div 128) % 128 /\ g(3) = (v \div 16384) % 128
        /\ g(4) = (v \div 2097152) % 128 /\ g(5) = w % 128
    BY SMT, GroupsRead DEF Group
  <1>2. w \in -8 .. 7
    BY SMT DEF Int32
  <1>3. (IF (w % 128) % 16 >= 8 THEN ((w % 128) % 16) - 16 ELSE (w % 128) % 16) = w
    BY SMT, <1>2
  <1>4. v = (v % 128) + 128 * ((v \div 128) % 128) + 16384 * ((v \div 16384) % 128)
            + 2097152 * ((v \div 2097152) % 128) + 268435456 * w
    BY SMT, GroupsAddUp DEF Int32
  <1> HIDE DEF w
  <1>5. Int32Of(Varint(v)) =
            g(1) + 128 * g(2) + 16384 * g(3) + 2097152 * g(4)
            + 268435456 * (IF g(5) % 16 >= 8 THEN (g(5) % 16) - 16 ELSE g(5) % 16)
    BY SMT DEF Int32Of
  <1> HIDE DEF g
  <1> QED BY SMT, <1>1, <1>3, <1>4, <1>5

(* A varint says itself where it ends: every byte but the last one has its   *)
(* highest bit set, so what follows it is never taken for a part of it.      *)
THEOREM VarintDelimitsItself ==
    \A v \in Int32 : \A i \in DOMAIN Varint(v) :
        /\ Varint(v)[i] \in Byte
        /\ Varint(v)[i] < 128 <=> i = Len(Varint(v))
  <1> SUFFICES ASSUME NEW v \in Int32, NEW i \in DOMAIN Varint(v)
               PROVE  Varint(v)[i] \in Byte /\ (Varint(v)[i] < 128 <=> i = Len(Varint(v)))
    BY SMT
  <1> DEFINE n == VarintSize(v)
             b == Varint(v)[i]
             g == Group(v, i)
  <1>1. n \in 1 .. 10 /\ n \in Nat
    BY SMT, SizeRange
  <1>2. i \in 1 .. n /\ Len(Varint(v)) = n
    BY SMT, <1>1 DEF Varint
  <1>3. b = g + (IF i = n THEN 0 ELSE 128)
    BY SMT, <1>2 DEF Varint
  <1>4. i \in 1 .. 10 /\ v \in Int
    <2> HIDE DEF n
    <2> QED BY SMT, <1>1, <1>2 DEF Int32
  <1>5. g \in 0 .. 127
    BY <1>4, GroupRange
  <1> HIDE DEF n, b, g
  <1>6. b \in 0 .. 255 /\ (b < 128 <=> i = n)
    BY SMT, <1>1, <1>2, <1>3, <1>5
  <1> QED BY <1>2, <1>6 DEF Byte, b

-----------------------------------------------------------------------------
(* Sequences of bytes put together. *)
LEMMA Concatenation ==
    ASSUME NEW S, NEW s \in Seq(S), NEW t \in Seq(S)
    PROVE  /\ s \o t \in Seq(S)
           /\ Len(s \o t) = Len(s) + Len(t)
OBVIOUS

LEMMA MemberOfSequence ==
    ASSUME NEW S, NEW s \in Seq(S), NEW i \in DOMAIN s
    PROVE  s[i] \in S
OBVIOUS

LEMMA SameEntries ==
    ASSUME NEW S, NEW s \in Seq(S), NEW t \in Seq(S), NEW n, Len(s) = n, Len(t) = n,
           \A i \in 1 .. n : s[i] = t[i]
    PROVE  s = t
OBVIOUS

(* Total and FlattenSeq, one element after another. *)
LEMMA TotalSteps ==
    ASSUME NEW n \in Nat, NEW s \in [1 .. n -> Nat]
    PROVE  \E r \in [0 .. n -> Nat] :
             r[0] = 0 /\ (\A i \in 1 .. n : r[i] = r[i - 1] + s[i]) /\ Total(s) = r[n]
<1>1. PICK g : g = [p \in (1 .. n) \X Nat |-> p[2] + s[p[1]]]
  OBVIOUS
<1>2. g \in [(1 .. n) \X Nat -> Nat]
  BY <1>1
<1>3. PICK folds \in [SUBSET (1 .. n) -> Nat] : LeftFoldsOn(folds, g, 0, n)
  BY <1>2, LeftFoldsExist
<1> DEFINE FoldOn(f) == f = [t \in SUBSET (1 .. n) |->
                              IF t = {} THEN 0 ELSE f[t \ {Max(t)}] + s[Max(t)]]
           chosen == CHOOSE f : FoldOn(f)
<1>4. ASSUME NEW t \in SUBSET (1 .. n), t # {}
      PROVE  g[<<Max(t), folds[t \ {Max(t)}]>>] = folds[t \ {Max(t)}] + s[Max(t)]
  <2>1. Max(t) \in 1 .. n /\ folds[t \ {Max(t)}] \in Nat
    BY <1>4, MaxOfNumbers
  <2>2. <<Max(t), folds[t \ {Max(t)}]>> \in (1 .. n) \X Nat
    BY <2>1
  <2> QED
    BY <1>1, <2>2
<1>5. FoldOn(folds)
  BY <1>3, <1>4 DEF LeftFoldsOn
<1>6. FoldOn(chosen)
  <2> HIDE DEF FoldOn
  <2> QED BY <1>5
<1>7. Total(s) = chosen[1 .. n]
  <2>1. DOMAIN s = 1 .. n
    OBVIOUS
  <2> QED
    BY <2>1 DEF Total, FoldLeft, MapThenFoldSet
<1>8. PICK r : r = [i \in 0 .. n |-> chosen[1 .. i]]
  OBVIOUS
<1> HIDE DEF chosen
<1>9. r[0] = 0
  <2>1. 1 .. 0 = {} /\ 0 \in 0 .. n
    OBVIOUS
  <2> QED
    BY <1>6, <1>8, <2>1
<1>10. ASSUME NEW i \in 1 .. n
       PROVE  r[i] = r[i - 1] + s[i]
  <2>1. i \in 0 .. n /\ i - 1 \in 0 .. n /\ i \in 1 .. i /\ 1 .. i \in SUBSET (1 .. n)
    OBVIOUS
  <2>2. chosen[1 .. i] = chosen[(1 .. i) \ {Max(1 .. i)}] + s[Max(1 .. i)]
    BY <1>6, <2>1
  <2> QED
    BY <1>8, <2>1, <2>2, MaxOfInterval
<1>11. \A i \in 0 .. n : r[i] \in Nat
  <2> DEFINE T == {i \in 0 .. n : r[i] \in Nat}
  <2>1. 0 \in T
    BY <1>9
  <2>2. \A i \in 1 .. n : i - 1 \in T => i \in T
    BY <1>10
  <2> HIDE DEF T
  <2>3. \A i \in 0 .. n : i \in T
    BY <2>1, <2>2, UpToN
  <2> QED
    BY <2>3 DEF T
<1>12. r \in [0 .. n -> Nat] /\ Total(s) = r[n]
  BY <1>7, <1>8, <1>11
<1> QED
  BY <1>9, <1>10, <1>12

LEMMA FlattenSteps ==
    ASSUME NEW S, NEW n \in Nat, NEW s \in [1 .. n -> Seq(S)]
    PROVE  \E r \in [0 .. n -> Seq(S)] :
             r[0] = << >> /\ (\A i \in 1 .. n : r[i] = r[i - 1] \o s[i]) /\ FlattenSeq(s) = r[n]
<1>1. s \in Seq(Seq(S)) /\ Len(s) = n
  OBVIOUS
<1>2. PICK g : g = [p \in (1 .. n) \X Seq(S) |-> p[2] \o s[p[1]]]
  OBVIOUS
<1>3. g \in [(1 .. n) \X Seq(S) -> Seq(S)]
  BY <1>2
<1>4. << >> \in Seq(S)
  OBVIOUS
<1>5. PICK r \in [0 .. n -> Seq(S)] : StepsOn(r, g, << >>, n)
  BY <1>3, <1>4, StepsExist
<1>6. ASSUME NEW i \in 1 .. n
      PROVE  r[i] = r[i - 1] \o s[i]
  <2>1. <<i, r[i - 1]>> \in (1 .. n) \X Seq(S)
    OBVIOUS
  <2>2. r[i] = g[<<i, r[i - 1]>>]
    BY <1>5 DEF StepsOn
  <2> QED
    BY <1>2, <2>1, <2>2
<1>7. CASE n = 0
  <2>1. s = << >>
    BY <1>7
  <2> QED
    BY <1>1, <1>5, <1>7, <2>1 DEF FlattenSeq, StepsOn
<1>8. CASE n # 0
  <2> DEFINE FlattenOn(f) == f = [i \in 1 .. n |-> IF i = 1 THEN s[i] ELSE f[i - 1] \o s[i]]
             flatten == CHOOSE f : FlattenOn(f)
             prefix == [i \in 1 .. n |-> r[i]]
  <2>1. r[1] = s[1]
    <3>1. 1 \in 1 .. n /\ s[1] \in Seq(S) /\ 1 - 1 = 0
      BY <1>8
    <3>2. r[1] = << >> \o s[1]
      BY <1>5, <1>6, <3>1 DEF StepsOn
    <3> QED
      BY <3>1, <3>2
  <2>2. FlattenOn(prefix)
    <3>1. \A i \in 1 .. n : i # 1 => prefix[i] = prefix[i - 1] \o s[i]
      <4>1. ASSUME NEW i \in 1 .. n, i # 1
            PROVE  i - 1 \in 1 .. n
        BY <4>1
      <4> QED
        BY <1>6, <4>1
    <3>2. prefix[1] = s[1]
      BY <1>8, <2>1
    <3>3. \A i \in 1 .. n : prefix[i] = IF i = 1 THEN s[i] ELSE prefix[i - 1] \o s[i]
      <4> HIDE DEF prefix
      <4> QED BY <3>1, <3>2
    <3>4. prefix = [i \in 1 .. n |-> prefix[i]]
      OBVIOUS
    <3> HIDE DEF prefix
    <3> QED BY <3>3, <3>4
  <2>3. FlattenOn(flatten)
    <3> HIDE DEF FlattenOn, prefix
    <3> QED BY <2>2
  <2>4. FlattenSeq(s) = flatten[n]
    BY <1>1, <1>8 DEF FlattenSeq
  <2> HIDE DEF flatten
  <2> DEFINE T == {i \in 0 .. n : i = 0 \/ flatten[i] = r[i]}
  <2>5. ASSUME NEW i \in 1 .. n, i - 1 \in T
        PROVE  i \in T
    <3>1. CASE i = 1
      BY <2>1, <2>3, <3>1
    <3>2. CASE i # 1
      <4>1. i - 1 \in 1 .. n /\ flatten[i - 1] = r[i - 1]
        BY <2>5, <3>2
      <4>2. flatten[i] = flatten[i - 1] \o s[i]
        BY <2>3, <3>2
      <4>3. flatten[i] = r[i]
        <5> HIDE DEF T
        <5> QED BY <1>6, <4>1, <4>2
      <4> QED
        BY <4>3
    <3> QED
      BY <3>1, <3>2
  <2>6. 0 \in T
    OBVIOUS
  <2> HIDE DEF T
  <2>7. \A i \in 0 .. n : i \in T
    BY <2>5, <2>6, UpToN
  <2>8. n \in 0 .. n /\ flatten[n] = r[n]
    BY <1>8, <2>7 DEF T
  <2> QED
    BY <1>5, <1>6, <2>4, <2>8 DEF StepsOn
<1> QED
  BY <1>7, <1>8

RowOf(S, n, s, lengths) ==
    s \in [1 .. n -> Seq(S)] /\ lengths = [i \in 1 .. n |-> Len(s[i])]

LEMMA FlattenLength ==
    ASSUME NEW S, NEW n \in Nat, NEW s, NEW lengths, RowOf(S, n, s, lengths)
    PROVE  FlattenSeq(s) \in Seq(S) /\ Len(FlattenSeq(s)) = Total(lengths)
<1>1. PICK r \in [0 .. n -> Seq(S)] :
          r[0] = << >> /\ (\A i \in 1 .. n : r[i] = r[i - 1] \o s[i]) /\ FlattenSeq(s) = r[n]
  BY FlattenSteps DEF RowOf
<1>2. lengths \in [1 .. n -> Nat]
  BY DEF RowOf
<1>3. PICK t \in [0 .. n -> Nat] :
          t[0] = 0 /\ (\A i \in 1 .. n : t[i] = t[i - 1] + lengths[i]) /\ Total(lengths) = t[n]
  BY <1>2, TotalSteps
<1> DEFINE T == {i \in 0 .. n : Len(r[i]) = t[i]}
<1>4. 0 \in T
  BY <1>1, <1>3
<1>5. ASSUME NEW i \in 1 .. n, i - 1 \in T
      PROVE  i \in T
  <2>1. r[i - 1] \in Seq(S) /\ s[i] \in Seq(S)
    BY DEF RowOf
  <2>2. Len(r[i]) = Len(r[i - 1]) + Len(s[i])
    BY <1>1, <2>1, Concatenation
  <2>3. t[i] = t[i - 1] + Len(s[i]) /\ Len(r[i - 1]) = t[i - 1]
    BY <1>3, <1>5 DEF RowOf
  <2> QED
    BY <2>2, <2>3
<1> HIDE DEF T
<1>6. \A i \in 0 .. n : i \in T
  BY <1>4, <1>5, UpToN
<1> QED
  BY <1>1, <1>3, <1>6 DEF T

LEMMA TotalBound ==
    ASSUME NEW n \in Nat, NEW s \in [1 .. n -> Nat], NEW b \in Nat, \A i \in 1 .. n : s[i] <= b
    PROVE  Total(s) \in Nat /\ Total(s) <= n * b
<1>1. PICK t \in [0 .. n -> Nat] :
          t[0] = 0 /\ (\A i \in 1 .. n : t[i] = t[i - 1] + s[i]) /\ Total(s) = t[n]
  BY TotalSteps
<1> DEFINE T == {i \in 0 .. n : t[i] <= i * b}
<1>2. 0 \in T
  BY <1>1
<1>3. ASSUME NEW i \in 1 .. n, i - 1 \in T
      PROVE  i \in T
  <2>1. t[i] <= (i - 1) * b + b
    BY <1>1, <1>3
  <2>2. (i - 1) * b + b = i * b
    OBVIOUS
  <2>3. t[i] <= i * b
    <3> HIDE DEF T
    <3> QED BY <2>1, <2>2
  <2> QED
    BY <2>3
<1> HIDE DEF T
<1>4. \A i \in 0 .. n : i \in T
  BY <1>2, <1>3, UpToN
<1> QED
  BY <1>1, <1>4 DEF T

-----------------------------------------------------------------------------
(* What each message takes on the wire is its ByteSizeLong. *)
Takes(bytes, size) == bytes \in Seq(Byte) /\ Len(bytes) = size /\ size \in Nat

LEMMA PartsTake ==
    ASSUME NEW s, NEW t, NEW m, NEW n, Takes(s, m), Takes(t, n)
    PROVE  Takes(s \o t, m + n)
<1>1. s \o t \in Seq(Byte) /\ Len(s \o t) = Len(s) + Len(t)
  BY Concatenation DEF Takes
<1> QED
  BY <1>1 DEF Takes

LEMMA NothingTakes == Takes(<< >>, 0)
BY DEF Takes

(* Fields in a row, none of them empty, each of at most limit bytes. *)
RowTakes(s, z, n, limit) ==
    /\ s = [i \in 1 .. n |-> s[i]] /\ z = [i \in 1 .. n |-> z[i]]
    /\ \A i \in 1 .. n : Takes(s[i], z[i]) /\ z[i] \in 2 .. limit

LEMMA FlattenTakes ==
    ASSUME NEW n \in Nat, NEW s, NEW z, NEW limit \in Nat, RowTakes(s, z, n, limit)
    PROVE  /\ Takes(FlattenSeq(s), Total(z)) /\ Total(z) <= n * limit
           /\ n # 0 => Total(z) # 0
<1>1. \A i \in 1 .. n : s[i] \in Seq(Byte) /\ Len(s[i]) = z[i] /\ z[i] \in Nat /\ z[i] <= limit
  BY DEF Takes, RowTakes
<1>2. s \in [1 .. n -> Seq(Byte)]
  BY <1>1 DEF RowTakes
<1>3. z \in [1 .. n -> Nat]
  BY <1>1 DEF RowTakes
<1>4. z = [i \in 1 .. n |-> Len(s[i])]
  BY <1>1 DEF RowTakes
<1>5. FlattenSeq(s) \in Seq(Byte) /\ Len(FlattenSeq(s)) = Total(z)
  <2>1. RowOf(Byte, n, s, z)
    BY <1>2, <1>4 DEF RowOf
  <2> QED
    BY <2>1, FlattenLength
<1>6. Total(z) \in Nat /\ Total(z) <= n * limit
  BY <1>1, <1>3, TotalBound
<1>7. n # 0 => Total(z) # 0
  <2>1. PICK t \in [0 .. n -> Nat] :
            t[0] = 0 /\ (\A i \in 1 .. n : t[i] = t[i - 1] + z[i]) /\ Total(z) = t[n]
    BY <1>3, TotalSteps
  <2>2. n # 0 => n \in 1 .. n /\ n - 1 \in 0 .. n
    OBVIOUS
  <2>3. n # 0 => z[n] >= 2
    BY <2>2 DEF RowTakes
  <2> QED
    BY <1>3, <2>1, <2>2, <2>3
<1> QED
  BY <1>5, <1>6, <1>7 DEF Takes

LEMMA VarintTakes ==
    ASSUME NEW v \in Int32
    PROVE  Takes(Varint(v), VarintSize(v)) /\ VarintSize(v) \in 1 .. 10
<1>1. VarintSize(v) \in 1 .. 10
  BY SizeRange
<1>2. DOMAIN Varint(v) = 1 .. VarintSize(v) /\ Len(Varint(v)) = VarintSize(v)
  BY <1>1 DEF Varint
<1>3. \A i \in 1 .. VarintSize(v) : Varint(v)[i] \in Byte
  BY <1>2, VarintDelimitsItself
<1>4. Varint(v) = [i \in 1 .. VarintSize(v) |-> Varint(v)[i]]
  BY DEF Varint
<1>5. Varint(v) \in Seq(Byte)
  <2> HIDE DEF Varint
  <2> QED BY <1>1, <1>2, <1>3, <1>4
<1> QED
  BY <1>1, <1>2, <1>5 DEF Takes

LEMMA TagTakes ==
    ASSUME NEW number \in 1 .. 15, NEW type \in {VARINT, LEN}
    PROVE  Takes(Varint(Tag(number, type)), 1)
<1>1. Tag(number, type) \in Int32 /\ Tag(number, type) \in 0 .. 127
  BY DEF Tag, VARINT, LEN, Int32
<1>2. VarintSize(Tag(number, type)) = 1
  BY <1>1 DEF VarintSize
<1> QED
  BY <1>1, <1>2, VarintTakes

LEMMA VarintFieldTakes ==
    ASSUME NEW number \in 1 .. 15, NEW v \in Int32
    PROVE  Takes(VarintField(number, v), VarintFieldSize(v)) /\ VarintFieldSize(v) \in 0 .. 11
<1>1. Takes(Varint(Tag(number, VARINT)), 1)
  BY TagTakes
<1>2. Takes(Varint(v), VarintSize(v)) /\ VarintSize(v) \in 1 .. 10
  BY VarintTakes
<1>3. Takes(Varint(Tag(number, VARINT)) \o Varint(v), 1 + VarintSize(v))
  BY <1>1, <1>2, PartsTake
<1> QED
  BY <1>2, <1>3, NothingTakes DEF VarintField, VarintFieldSize

LEMMA MessageFieldTakes ==
    ASSUME NEW number \in 1 .. 15, NEW bytes, NEW size, Takes(bytes, size), size <= 16383
    PROVE  /\ Takes(MessageField(number, size, bytes), MessageFieldSize(size))
           /\ MessageFieldSize(size) \in 2 .. size + 3
<1>1. Takes(Varint(Tag(number, LEN)), 1)
  BY TagTakes
<1>2. size \in Nat /\ size \in Int32
  BY DEF Takes, Int32
<1>3. Takes(Varint(size), VarintSize(size)) /\ VarintSize(size) \in 1 .. 2
  <2>1. VarintSize(size) \in 1 .. 2
    BY <1>2 DEF VarintSize
  <2> QED
    BY <1>2, <2>1, VarintTakes
<1>4. Takes(Varint(Tag(number, LEN)) \o Varint(size), 1 + VarintSize(size))
  BY <1>1, <1>3, PartsTake
<1>5. Takes(Varint(Tag(number, LEN)) \o Varint(size) \o bytes, 1 + VarintSize(size) + size)
  BY <1>4, PartsTake
<1> QED
  BY <1>2, <1>3, <1>5 DEF MessageField, MessageFieldSize

LEMMA EffectTakes ==
    ASSUME NEW e \in ResourceEffectMessage
    PROVE  /\ Takes(SerializeResourceEffect(e), ResourceEffectSize(e))
           /\ ResourceEffectSize(e) \in 0 .. 22
<1>1. e.resource_type \in Int32 /\ e.delta_value \in Int32
  BY DEF ResourceEffectMessage
<1>2. /\ Takes(VarintField(1, e.resource_type), VarintFieldSize(e.resource_type))
      /\ VarintFieldSize(e.resource_type) \in 0 .. 11
  BY <1>1, VarintFieldTakes
<1>3. /\ Takes(VarintField(2, e.delta_value), VarintFieldSize(e.delta_value))
      /\ VarintFieldSize(e.delta_value) \in 0 .. 11
  BY <1>1, VarintFieldTakes
<1> QED
  BY <1>2, <1>3, PartsTake DEF SerializeResourceEffect, ResourceEffectSize

LEMMA EffectFieldTakes ==
    ASSUME NEW e \in ResourceEffectMessage
    PROVE  /\ Takes(MessageField(4, ResourceEffectSize(e), SerializeResourceEffect(e)),
                    MessageFieldSize(ResourceEffectSize(e)))
           /\ MessageFieldSize(ResourceEffectSize(e)) \in 2 .. 25
<1>1. /\ Takes(SerializeResourceEffect(e), ResourceEffectSize(e))
      /\ ResourceEffectSize(e) \in 0 .. 22 /\ ResourceEffectSize(e) <= 16383
  BY EffectTakes
<1>2. /\ Takes(MessageField(4, ResourceEffectSize(e), SerializeResourceEffect(e)),
               MessageFieldSize(ResourceEffectSize(e)))
      /\ MessageFieldSize(ResourceEffectSize(e)) \in 2 .. ResourceEffectSize(e) + 3
  BY <1>1, MessageFieldTakes
<1> QED
  BY <1>1, <1>2

(* No catalogue has a building with more effects than there are resources.   *)
SmallBuilding(b) == b \in BuildingMessage /\ Len(b.effects) <= 5

LEMMA BuildingTakes ==
    ASSUME NEW b, SmallBuilding(b)
    PROVE  Takes(SerializeBuilding(b), BuildingSize(b)) /\ BuildingSize(b) \in 0 .. 158
<1>1. /\ b.type \in Int32 /\ b.build_cost \in Int32 /\ b.ticks_to_complete \in Int32
      /\ b.effects \in Seq(ResourceEffectMessage) /\ Len(b.effects) <= 5
  BY DEF SmallBuilding, BuildingMessage
<1> DEFINE n == Len(b.effects)
           s == [i \in DOMAIN b.effects |->
                   MessageField(4, ResourceEffectSize(b.effects[i]), SerializeResourceEffect(b.effects[i]))]
           z == [i \in DOMAIN b.effects |-> MessageFieldSize(ResourceEffectSize(b.effects[i]))]
<1>2. n \in Nat /\ DOMAIN b.effects = 1 .. n
  BY <1>1
<1>3. ASSUME NEW i \in 1 .. n
      PROVE  Takes(s[i], z[i]) /\ z[i] \in 2 .. 25
  <2>1. PICK e : e = b.effects[i]
    OBVIOUS
  <2>2. e \in ResourceEffectMessage
    BY <1>1, <1>2, <2>1
  <2>3. /\ Takes(MessageField(4, ResourceEffectSize(e), SerializeResourceEffect(e)),
                 MessageFieldSize(ResourceEffectSize(e)))
        /\ MessageFieldSize(ResourceEffectSize(e)) \in 2 .. 25
    BY <2>2, EffectFieldTakes
  <2>4. /\ s[i] = MessageField(4, ResourceEffectSize(e), SerializeResourceEffect(e))
        /\ z[i] = MessageFieldSize(ResourceEffectSize(e))
    BY <1>2, <2>1
  <2> HIDE DEF s, z
  <2>5. Takes(s[i], z[i])
    BY <2>3, <2>4
  <2>6. z[i] \in 2 .. 25
    BY <2>3, <2>4
  <2> QED
    BY <2>5, <2>6
<1>4. s = [i \in 1 .. n |-> s[i]] /\ z = [i \in 1 .. n |-> z[i]]
  BY <1>2
<1>5. Takes(FlattenSeq(s), Total(z)) /\ Total(z) <= n * 25
  <2> HIDE DEF s, z, n
  <2>1. RowTakes(s, z, n, 25) /\ 25 \in Nat
    BY <1>3, <1>4 DEF RowTakes
  <2> QED
    BY <1>2, <2>1, FlattenTakes
<1>6. /\ Takes(VarintField(1, b.type), VarintFieldSize(b.type)) /\ VarintFieldSize(b.type) \in 0 .. 11
      /\ Takes(VarintField(2, b.build_cost), VarintFieldSize(b.build_cost))
      /\ VarintFieldSize(b.build_cost) \in 0 .. 11
      /\ Takes(VarintField(3, b.ticks_to_complete), VarintFieldSize(b.ticks_to_complete))
      /\ VarintFieldSize(b.ticks_to_complete) \in 0 .. 11
  BY <1>1, VarintFieldTakes
<1>7. Takes(SerializeBuilding(b), BuildingSize(b))
  <2>1. SerializeBuilding(b) = VarintField(1, b.type) \o VarintField(2, b.build_cost)
                                 \o VarintField(3, b.ticks_to_complete) \o FlattenSeq(s)
    BY DEF SerializeBuilding
  <2>2. BuildingSize(b) = VarintFieldSize(b.type) + VarintFieldSize(b.build_cost)
                            + VarintFieldSize(b.ticks_to_complete) + Total(z)
    BY DEF BuildingSize
  <2> HIDE DEF s, z
  <2> QED BY <1>5, <1>6, <2>1, <2>2, PartsTake
<1>8. BuildingSize(b) \in 0 .. 158
  <2>1. BuildingSize(b) = VarintFieldSize(b.type) + VarintFieldSize(b.build_cost)
                            + VarintFieldSize(b.ticks_to_complete) + Total(z)
    BY DEF BuildingSize
  <2>2. Total(z) \in Nat /\ Total(z) <= 125
    <3> HIDE DEF z, n
    <3> QED BY <1>1, <1>2, <1>5 DEF Takes, n
  <2> HIDE DEF z
  <2> QED BY <1>6, <2>1, <2>2
<1> QED
  BY <1>7, <1>8

LEMMA BuildingFieldTakes ==
    ASSUME NEW b, SmallBuilding(b)
    PROVE  /\ Takes(MessageField(2, BuildingSize(b), SerializeBuilding(b)),
                    MessageFieldSize(BuildingSize(b)))
           /\ MessageFieldSize(BuildingSize(b)) \in 2 .. 161
<1>1. /\ Takes(SerializeBuilding(b), BuildingSize(b))
      /\ BuildingSize(b) \in 0 .. 158 /\ BuildingSize(b) <= 16383
  BY BuildingTakes
<1>2. /\ Takes(MessageField(2, BuildingSize(b), SerializeBuilding(b)),
               MessageFieldSize(BuildingSize(b)))
      /\ MessageFieldSize(BuildingSize(b)) \in 2 .. BuildingSize(b) + 3
  BY <1>1, MessageFieldTakes
<1> QED
  BY <1>1, <1>2

SmallPetition(p) ==
    p \in PetitionMessage /\ \A i \in DOMAIN p.building : SmallBuilding(p.building[i])

LEMMA PetitionTakes ==
    ASSUME NEW p, SmallPetition(p)
    PROVE  Takes(SerializePetition(p), PetitionSize(p)) /\ PetitionSize(p) \in 0 .. 172
<1> DEFINE n == Len(p.building)
           s == [i \in DOMAIN p.building |->
                   MessageField(2, BuildingSize(p.building[i]), SerializeBuilding(p.building[i]))]
           z == [i \in DOMAIN p.building |-> MessageFieldSize(BuildingSize(p.building[i]))]
<1>1. /\ p.id \in Int32 /\ n \in 0 .. 1 /\ n \in Nat /\ DOMAIN p.building = 1 .. n
      /\ \A i \in 1 .. n : SmallBuilding(p.building[i])
  <2>1. /\ p.id \in Int32 /\ p.building \in Seq(BuildingMessage) /\ Len(p.building) <= 1
        /\ \A i \in DOMAIN p.building : SmallBuilding(p.building[i])
    BY DEF SmallPetition, PetitionMessage, Optional
  <2>2. n \in Nat /\ DOMAIN p.building = 1 .. n
    BY <2>1
  <2>3. n \in 0 .. 1
    <3>1. n <= 1
      BY <2>1
    <3> HIDE DEF n
    <3> QED BY <2>2, <3>1
  <2> QED
    BY <2>1, <2>2, <2>3
<1>2. ASSUME NEW i \in 1 .. n
      PROVE  Takes(s[i], z[i]) /\ z[i] \in 2 .. 161
  <2>1. PICK b : b = p.building[i]
    OBVIOUS
  <2>2. SmallBuilding(b)
    BY <1>1, <2>1
  <2>3. /\ Takes(MessageField(2, BuildingSize(b), SerializeBuilding(b)),
                 MessageFieldSize(BuildingSize(b)))
        /\ MessageFieldSize(BuildingSize(b)) \in 2 .. 161
    BY <2>2, BuildingFieldTakes
  <2>4. i \in DOMAIN p.building
    BY <1>1
  <2>5. /\ s[i] = MessageField(2, BuildingSize(b), SerializeBuilding(b))
        /\ z[i] = MessageFieldSize(BuildingSize(b))
    BY <2>1, <2>4
  <2> HIDE DEF s, z
  <2>6. Takes(s[i], z[i])
    BY <2>3, <2>5
  <2>7. z[i] \in 2 .. 161
    BY <2>3, <2>5
  <2> QED
    BY <2>6, <2>7
<1>3. s = [i \in 1 .. n |-> s[i]] /\ z = [i \in 1 .. n |-> z[i]]
  BY <1>1
<1>4. Takes(FlattenSeq(s), Total(z)) /\ Total(z) <= n * 161
  <2> HIDE DEF s, z, n
  <2>1. RowTakes(s, z, n, 161) /\ 161 \in Nat
    BY <1>2, <1>3 DEF RowTakes
  <2> QED
    BY <1>1, <2>1, FlattenTakes
<1>5. Takes(VarintField(1, p.id), VarintFieldSize(p.id)) /\ VarintFieldSize(p.id) \in 0 .. 11
  BY <1>1, VarintFieldTakes
<1>6. /\ SerializePetition(p) = VarintField(1, p.id) \o FlattenSeq(s)
      /\ PetitionSize(p) = VarintFieldSize(p.id) + Total(z)
  BY DEF SerializePetition, PetitionSize
<1> HIDE DEF s, z, n
<1>7. Takes(SerializePetition(p), PetitionSize(p))
  BY <1>4, <1>5, <1>6, PartsTake
<1>8. Total(z) \in Nat /\ Total(z) <= 161
  BY <1>1, <1>4 DEF Takes
<1>9. VarintFieldSize(p.id) + Total(z) \in 0 .. 172
  BY <1>5, <1>8
<1> QED
  BY <1>6, <1>7, <1>9

LEMMA PetitionFieldTakes ==
    ASSUME NEW p, SmallPetition(p)
    PROVE  /\ Takes(MessageField(4, PetitionSize(p), SerializePetition(p)),
                    MessageFieldSize(PetitionSize(p)))
           /\ MessageFieldSize(PetitionSize(p)) \in 2 .. 175
<1>1. /\ Takes(SerializePetition(p), PetitionSize(p))
      /\ PetitionSize(p) \in 0 .. 172 /\ PetitionSize(p) <= 16383
  BY PetitionTakes
<1>2. /\ Takes(MessageField(4, PetitionSize(p), SerializePetition(p)),
               MessageFieldSize(PetitionSize(p)))
      /\ MessageFieldSize(PetitionSize(p)) \in 2 .. PetitionSize(p) + 3
  BY <1>1, MessageFieldTakes
<1> QED
  BY <1>1, <1>2

LEMMA EntryTakes ==
    ASSUME NEW number \in 1 .. 15, NEW k \in Int32, NEW v \in Int32
    PROVE  /\ Takes(MessageField(number, EntrySize(k, v),
                        Varint(Tag(1, VARINT)) \o Varint(k) \o Varint(Tag(2, VARINT)) \o Varint(v)),
                    MessageFieldSize(EntrySize(k, v)))
           /\ MessageFieldSize(EntrySize(k, v)) \in 2 .. 25
<1>1. Takes(Varint(Tag(1, VARINT)), 1) /\ Takes(Varint(Tag(2, VARINT)), 1)
  BY TagTakes
<1>2. /\ Takes(Varint(k), VarintSize(k)) /\ VarintSize(k) \in 1 .. 10
      /\ Takes(Varint(v), VarintSize(v)) /\ VarintSize(v) \in 1 .. 10
  BY VarintTakes
<1>3. Takes(Varint(Tag(1, VARINT)) \o Varint(k) \o Varint(Tag(2, VARINT)) \o Varint(v),
            1 + VarintSize(k) + 1 + VarintSize(v))
  BY <1>1, <1>2, PartsTake
<1>4. EntrySize(k, v) = 1 + VarintSize(k) + 1 + VarintSize(v) /\ EntrySize(k, v) \in 4 .. 22
  BY <1>2 DEF EntrySize
<1> DEFINE entry == Varint(Tag(1, VARINT)) \o Varint(k) \o Varint(Tag(2, VARINT)) \o Varint(v)
<1>5. Takes(entry, EntrySize(k, v)) /\ EntrySize(k, v) <= 16383
  BY <1>3, <1>4
<1> HIDE DEF entry
<1>6. /\ Takes(MessageField(number, EntrySize(k, v), entry), MessageFieldSize(EntrySize(k, v)))
      /\ MessageFieldSize(EntrySize(k, v)) \in 2 .. EntrySize(k, v) + 3
  BY <1>5, MessageFieldTakes
<1> QED
  BY <1>4, <1>6 DEF entry

(* A map, in any order of its keys. *)
LEMMA MapTakes ==
    ASSUME NEW number \in 1 .. 15, NEW map, IsMap(map),
           NEW n \in Nat, NEW keys \in [1 .. n -> DOMAIN map]
    PROVE  /\ Takes(MapField(number, map, keys), MapSize(map, keys))
           /\ MapSize(map, keys) <= n * 25
           /\ n # 0 => MapSize(map, keys) # 0
<1> DEFINE s == [i \in DOMAIN keys |->
                   MessageField(number, EntrySize(keys[i], map[keys[i]]),
                       Varint(Tag(1, VARINT)) \o Varint(keys[i])
                       \o Varint(Tag(2, VARINT)) \o Varint(map[keys[i]]))]
           z == [i \in DOMAIN keys |-> MessageFieldSize(EntrySize(keys[i], map[keys[i]]))]
<1>1. DOMAIN keys = 1 .. n
  OBVIOUS
<1>2. ASSUME NEW i \in 1 .. n
      PROVE  Takes(s[i], z[i]) /\ z[i] \in 2 .. 25
  <2>1. PICK k, v : k = keys[i] /\ v = map[keys[i]]
    OBVIOUS
  <2>2. k \in Int32 /\ v \in Int32
    BY <2>1 DEF IsMap
  <2>3. /\ Takes(MessageField(number, EntrySize(k, v),
                     Varint(Tag(1, VARINT)) \o Varint(k) \o Varint(Tag(2, VARINT)) \o Varint(v)),
                 MessageFieldSize(EntrySize(k, v)))
        /\ MessageFieldSize(EntrySize(k, v)) \in 2 .. 25
    BY <2>2, EntryTakes
  <2>4. /\ s[i] = MessageField(number, EntrySize(k, v),
                     Varint(Tag(1, VARINT)) \o Varint(k) \o Varint(Tag(2, VARINT)) \o Varint(v))
        /\ z[i] = MessageFieldSize(EntrySize(k, v))
    BY <1>1, <2>1
  <2> HIDE DEF s, z
  <2>5. Takes(s[i], z[i])
    BY <2>3, <2>4
  <2>6. z[i] \in 2 .. 25
    BY <2>3, <2>4
  <2> QED
    BY <2>5, <2>6
<1>3. s = [i \in 1 .. n |-> s[i]] /\ z = [i \in 1 .. n |-> z[i]]
  BY <1>1
<1>4. MapField(number, map, keys) = FlattenSeq(s) /\ MapSize(map, keys) = Total(z)
  BY DEF MapField, MapSize
<1> HIDE DEF s, z
<1>5. RowTakes(s, z, n, 25) /\ 25 \in Nat
  BY <1>2, <1>3 DEF RowTakes
<1>6. Takes(FlattenSeq(s), Total(z)) /\ Total(z) <= n * 25 /\ (n # 0 => Total(z) # 0)
  BY <1>5, FlattenTakes
<1> QED
  BY <1>4, <1>6

-----------------------------------------------------------------------------
(* The numbers of the catalogue, and of the enumerators. *)
LEMMA BuildingNumbers ==
    ASSUME NEW t \in BuildingPool
    PROVE  NumberIn(BuildingEnum, t) \in 1 .. 12 /\ BuildingEnum[NumberIn(BuildingEnum, t)] = t
<1>1. t \in {"POWER_PLANT", "WATER_TREATMENT_PLANT", "SOLAR_PANEL_FARM", "SOLAR_PANEL_ROOFTOPS",
             "PUBLIC_TRANSPORT_UPGRADE", "WIND_TURBINE_FARM", "HYDROELECTRIC_PLANT",
             "URBAN_GREENING", "WATER_SAVING_INFRASTRUCTURE", "INDUSTRIAL_ZONE",
             "AIRPORT_EXPANSION", "ROAD_IMPROVEMENT"}
  BY DEF BuildingPool, Catalog
<1>2. \E n \in 1 .. 12 : BuildingEnum[n] = t
  BY <1>1 DEF BuildingEnum
<1>3. DOMAIN BuildingEnum = 1 .. 12
  BY DEF BuildingEnum
<1> QED
  BY <1>2, <1>3 DEF NumberIn

LEMMA ResourceNumbers ==
    ASSUME NEW r \in ResourceTypes
    PROVE  NumberIn(ResourceEnum, r) \in 1 .. 5 /\ ResourceEnum[NumberIn(ResourceEnum, r)] = r
<1>1. \E n \in 1 .. 5 : ResourceEnum[n] = r
  BY DEF ResourceTypes, ResourceEnum
<1>2. DOMAIN ResourceEnum = 1 .. 5
  BY DEF ResourceEnum
<1> QED
  BY <1>1, <1>2 DEF NumberIn

LEMMA CatalogNumbers ==
    ASSUME NEW t \in BuildingPool
    PROVE  /\ Catalog[t].cost \in Int32
           /\ \A r \in ResourceTypes : Catalog[t].effects[r] \in Int32
<1> USE DEF ResourceTypes, NoEffect, Int32
<1>1. \A r \in ResourceTypes : /\ PowerPlant.effects[r] \in Int32
                               /\ WaterTreatmentPlant.effects[r] \in Int32
                               /\ SolarPanelFarm.effects[r] \in Int32
                               /\ RooftopSolar.effects[r] \in Int32
  BY DEF PowerPlant, WaterTreatmentPlant, SolarPanelFarm, RooftopSolar
<1>2. \A r \in ResourceTypes : /\ PublicTransportUpgrade.effects[r] \in Int32
                               /\ WindTurbineFarm.effects[r] \in Int32
                               /\ HydroelectricPlant.effects[r] \in Int32
                               /\ UrbanGreening.effects[r] \in Int32
  BY DEF PublicTransportUpgrade, WindTurbineFarm, HydroelectricPlant, UrbanGreening
<1>3. \A r \in ResourceTypes : /\ WaterSavingInfrastructure.effects[r] \in Int32
                               /\ IndustrialZone.effects[r] \in Int32
                               /\ AirportExpansion.effects[r] \in Int32
                               /\ RoadImprovement.effects[r] \in Int32
  BY DEF WaterSavingInfrastructure, IndustrialZone, AirportExpansion, RoadImprovement
<1>4. /\ PowerPlant.cost \in Int32 /\ WaterTreatmentPlant.cost \in Int32
      /\ SolarPanelFarm.cost \in Int32 /\ RooftopSolar.cost \in Int32
      /\ PublicTransportUpgrade.cost \in Int32 /\ WindTurbineFarm.cost \in Int32
      /\ HydroelectricPlant.cost \in Int32 /\ UrbanGreening.cost \in Int32
      /\ WaterSavingInfrastructure.cost \in Int32 /\ IndustrialZone.cost \in Int32
      /\ AirportExpansion.cost \in Int32 /\ RoadImprovement.cost \in Int32
  BY DEF PowerPlant, WaterTreatmentPlant, SolarPanelFarm, RooftopSolar, PublicTransportUpgrade,
         WindTurbineFarm, HydroelectricPlant, UrbanGreening, WaterSavingInfrastructure,
         IndustrialZone, AirportExpansion, RoadImprovement
<1>5. Catalog[t] \in {PowerPlant, WaterTreatmentPlant, SolarPanelFarm, RooftopSolar,
                      PublicTransportUpgrade, WindTurbineFarm, HydroelectricPlant, UrbanGreening,
                      WaterSavingInfrastructure, IndustrialZone, AirportExpansion, RoadImprovement}
  BY DEF Catalog, BuildingPool
<1> QED
  BY <1>1, <1>2, <1>3, <1>4, <1>5

(* A building has at most one effect on each resource. *)
LEMMA EffectsOfABuilding ==
    ASSUME NEW effects, \A r \in ResourceTypes : effects[r] \in Int32
    PROVE  /\ EffectMessages(effects) \in Seq(ResourceEffectMessage)
           /\ Len(EffectMessages(effects)) <= 5
<1> DEFINE s == [n \in DOMAIN ResourceEnum |->
                   IF effects[ResourceEnum[n]] = 0 THEN << >>
                   ELSE <<[resource_type |-> n, delta_value |-> effects[ResourceEnum[n]]]>>]
<1>1. DOMAIN ResourceEnum = 1 .. 5
  BY DEF ResourceEnum
<1>2. ASSUME NEW n \in 1 .. 5
      PROVE  s[n] \in Seq(ResourceEffectMessage) /\ Len(s[n]) \in 0 .. 1
  <2>1. ResourceEnum[n] \in ResourceTypes
    BY DEF ResourceEnum, ResourceTypes
  <2>2. PICK d : d = effects[ResourceEnum[n]]
    OBVIOUS
  <2>3. d \in Int32 /\ n \in Int32
    BY <2>1, <2>2 DEF Int32
  <2>4. s[n] = IF d = 0 THEN << >> ELSE <<[resource_type |-> n, delta_value |-> d]>>
    BY <1>1, <2>2
  <2>5. [resource_type |-> n, delta_value |-> d] \in ResourceEffectMessage
    BY <2>3 DEF ResourceEffectMessage
  <2> HIDE DEF s
  <2> QED
    BY <2>4, <2>5
<1>3. s = [n \in 1 .. 5 |-> s[n]]
  BY <1>1
<1>4. EffectMessages(effects) = FlattenSeq(s)
  BY DEF EffectMessages
<1> HIDE DEF s
<1>5. s \in [1 .. 5 -> Seq(ResourceEffectMessage)]
  BY <1>2, <1>3
<1>6. PICK lengths : lengths = [n \in 1 .. 5 |-> Len(s[n])]
  OBVIOUS
<1>7. /\ lengths \in [1 .. 5 -> Nat] /\ \A n \in 1 .. 5 : lengths[n] <= 1
      /\ RowOf(ResourceEffectMessage, 5, s, lengths) /\ 5 \in Nat /\ 1 \in Nat
  <2>1. RowOf(ResourceEffectMessage, 5, s, lengths)
    BY <1>5, <1>6 DEF RowOf
  <2>2. \A n \in 1 .. 5 : lengths[n] \in 0 .. 1
    BY <1>2, <1>6
  <2>3. DOMAIN lengths = 1 .. 5 /\ lengths = [n \in 1 .. 5 |-> lengths[n]]
    BY <1>6
  <2>4. lengths \in [1 .. 5 -> 0 .. 1]
    BY <2>2, <2>3
  <2> QED
    BY <2>1, <2>4
<1>8. FlattenSeq(s) \in Seq(ResourceEffectMessage) /\ Len(FlattenSeq(s)) = Total(lengths)
  BY <1>7, FlattenLength
<1>9. Total(lengths) \in Nat /\ Total(lengths) <= 5 * 1
  BY <1>7, TotalBound
<1> QED
  BY <1>4, <1>8, <1>9

(* What the engine sends of a game. *)
LEMMA CountsSent ==
    ASSUME NEW game, IsGame(game), NEW counts, counts = BuildGameState(game).building_counts
    PROVE  IsMap(counts) /\ DOMAIN counts \subseteq 0 .. 12 /\ 0 \in DOMAIN counts
<1>1. /\ DOMAIN game.buildings \subseteq BuildingPool
      /\ \A t \in DOMAIN game.buildings : game.buildings[t] \in Int32
  BY DEF IsGame
<1>2. counts = [n \in {0} \union {NumberIn(BuildingEnum, t) : t \in DOMAIN game.buildings} |->
                  IF n = 0 THEN 0 ELSE game.buildings[BuildingEnum[n]]]
  BY DEF BuildGameState
<1>3. DOMAIN counts = {0} \union {NumberIn(BuildingEnum, t) : t \in DOMAIN game.buildings}
  BY <1>2
<1>4. ASSUME NEW t \in DOMAIN game.buildings
      PROVE  /\ NumberIn(BuildingEnum, t) \in 1 .. 12
             /\ counts[NumberIn(BuildingEnum, t)] \in Int32
  <2>1. PICK n : n = NumberIn(BuildingEnum, t)
    OBVIOUS
  <2>2. n \in 1 .. 12 /\ BuildingEnum[n] = t
    BY <1>1, <2>1, BuildingNumbers
  <2>3. n \in DOMAIN counts /\ n # 0
    BY <1>3, <2>1, <2>2
  <2>4. counts[n] = game.buildings[t]
    BY <1>2, <2>2, <2>3
  <2> QED
    BY <1>1, <2>1, <2>2, <2>4
<1>5. counts[0] = 0 /\ 0 \in DOMAIN counts
  BY <1>2
<1>6. \A k \in DOMAIN counts : k \in 0 .. 12 /\ counts[k] \in Int32
  <2>1. ASSUME NEW k \in DOMAIN counts
        PROVE  k \in 0 .. 12 /\ counts[k] \in Int32
    <3>1. CASE k = 0
      BY <1>5, <3>1 DEF Int32
    <3>2. CASE k # 0
      <4>1. PICK t \in DOMAIN game.buildings : k = NumberIn(BuildingEnum, t)
        BY <1>3, <3>2
      <4>2. k \in 1 .. 12 /\ counts[k] \in Int32
        BY <1>4, <4>1
      <4> QED
        BY <4>2
    <3> QED
      BY <3>1, <3>2
  <2> QED
    BY <2>1
<1>7. \A k \in DOMAIN counts : k \in Int32
  BY <1>6 DEF Int32
<1> QED
  BY <1>5, <1>6, <1>7 DEF IsMap

LEMMA ResourcesSent ==
    ASSUME NEW game, IsGame(game), NEW resources, resources = BuildGameState(game).resources
    PROVE  IsMap(resources) /\ DOMAIN resources \subseteq 1 .. 5
<1>1. /\ DOMAIN game.value \subseteq ResourceTypes
      /\ \A r \in DOMAIN game.value : game.value[r] \in Int32
  BY DEF IsGame
<1>2. resources = [n \in {NumberIn(ResourceEnum, r) : r \in DOMAIN game.value} |->
                     game.value[ResourceEnum[n]]]
  BY DEF BuildGameState
<1>3. DOMAIN resources = {NumberIn(ResourceEnum, r) : r \in DOMAIN game.value}
  BY <1>2
<1>4. ASSUME NEW k \in DOMAIN resources
      PROVE  k \in 1 .. 5 /\ resources[k] \in Int32
  <2>1. PICK r \in DOMAIN game.value : k = NumberIn(ResourceEnum, r)
    BY <1>3
  <2>2. k \in 1 .. 5 /\ ResourceEnum[k] = r
    BY <1>1, <2>1, ResourceNumbers
  <2>3. resources[k] = game.value[r]
    BY <1>2, <1>3, <2>2
  <2> QED
    BY <1>1, <2>2, <2>3
<1>5. \A k \in DOMAIN resources : k \in Int32
  BY <1>4 DEF Int32
<1> QED
  BY <1>4, <1>5 DEF IsMap

LEMMA OfferSent ==
    ASSUME NEW petition \in [id : Int32, type : BuildingPool, ticks : Int32]
    PROVE  SmallPetition(OfferMessage(petition))
<1>1. PICK id, t, ticks : id = petition.id /\ t = petition.type /\ ticks = petition.ticks
  OBVIOUS
<1>2. id \in Int32 /\ t \in BuildingPool /\ ticks \in Int32
  BY <1>1
<1>3. PICK type, cost, effects : /\ type = NumberIn(BuildingEnum, t) /\ cost = Catalog[t].cost
                                 /\ effects = EffectMessages(Catalog[t].effects)
  OBVIOUS
<1>4. type \in Int32 /\ cost \in Int32
  <2>1. type \in 1 .. 12
    BY <1>2, <1>3, BuildingNumbers
  <2> QED
    BY <1>2, <1>3, <2>1, CatalogNumbers DEF Int32
<1>5. effects \in Seq(ResourceEffectMessage) /\ Len(effects) <= 5
  <2>1. \A r \in ResourceTypes : Catalog[t].effects[r] \in Int32
    BY <1>2, CatalogNumbers
  <2> QED
    BY <1>3, <2>1, EffectsOfABuilding
<1>6. PICK b : b = [type |-> type, build_cost |-> cost, ticks_to_complete |-> ticks, effects |-> effects]
  OBVIOUS
<1>7. SmallBuilding(b)
  BY <1>2, <1>4, <1>5, <1>6 DEF SmallBuilding, BuildingMessage
<1>8. OfferMessage(petition) = [id |-> id, building |-> <<b>>]
  BY <1>1, <1>3, <1>6 DEF OfferMessage
<1>9. <<b>> \in Optional(BuildingMessage)
  BY <1>7 DEF SmallBuilding, Optional
<1>10. [id |-> id, building |-> <<b>>] \in PetitionMessage
  BY <1>2, <1>9 DEF PetitionMessage
<1> QED
  BY <1>7, <1>8, <1>10 DEF SmallPetition

LEMMA PetitionSent ==
    ASSUME NEW game, IsGame(game), NEW current, current = BuildGameState(game).current_petition
    PROVE  /\ current \in Optional(PetitionMessage)
           /\ \A i \in DOMAIN current : SmallPetition(current[i])
<1>1. PICK offer : offer = game.offer
  OBVIOUS
<1>2. offer \in Seq([id : Int32, type : BuildingPool, ticks : Int32]) /\ Len(offer) <= 1
  BY <1>1 DEF IsGame, Optional
<1>3. current = [i \in DOMAIN offer |-> OfferMessage(offer[i])]
  BY <1>1 DEF BuildGameState
<1>4. DOMAIN offer = 1 .. Len(offer) /\ Len(offer) \in Nat
  BY <1>2
<1>5. DOMAIN current = 1 .. Len(offer)
  BY <1>3, <1>4
<1>6. ASSUME NEW i \in DOMAIN current
      PROVE  SmallPetition(current[i])
  <2>1. PICK petition : petition = offer[i]
    OBVIOUS
  <2>2. petition \in [id : Int32, type : BuildingPool, ticks : Int32]
    BY <1>2, <1>4, <1>5, <2>1, MemberOfSequence
  <2>3. current[i] = OfferMessage(petition)
    BY <1>3, <1>4, <1>5, <2>1
  <2>4. SmallPetition(OfferMessage(petition))
    BY <2>2, OfferSent
  <2> QED
    BY <2>3, <2>4
<1>7. \A i \in DOMAIN current : current[i] \in PetitionMessage
  BY <1>6 DEF SmallPetition
<1>8. current \in Seq(PetitionMessage) /\ Len(current) = Len(offer)
  BY <1>3, <1>4, <1>5, <1>7
<1>9. current \in Optional(PetitionMessage)
  BY <1>2, <1>8 DEF Optional
<1> QED
  BY <1>6, <1>9

LEMMA KeyOrders ==
    ASSUME NEW D, IsFiniteSet(D), NEW keys \in SetToSeqs(D) \union {SetToSeq(D)}
    PROVE  keys \in Injection(1 .. Cardinality(D), D)
<1>1. PICK f \in Bijection(1 .. Cardinality(D), D) : TRUE
  BY FS_CardinalityType DEF ExistsBijection
<1>2. f \in [1 .. Cardinality(D) -> D] /\ IsInjective(f)
  BY <1>1 DEF Bijection, Injection
<1>3. CASE keys = SetToSeq(D)
  <2>1. keys \in [1 .. Cardinality(D) -> D] /\ IsInjective(keys)
    BY <1>2, <1>3 DEF SetToSeq
  <2> QED
    BY <2>1 DEF Injection
<1>4. CASE keys \in SetToSeqs(D)
  BY <1>4 DEF SetToSeqs, Injection, IsInjective
<1> QED
  BY <1>3, <1>4

LEMMA NumbersUpTo ==
    ASSUME NEW n \in Nat, NEW m \in Nat, NEW D, D \subseteq m .. n, m <= n
    PROVE  IsFiniteSet(D) /\ Cardinality(D) \in Nat /\ Cardinality(D) <= n - m + 1
<1>1. IsFiniteSet(m .. n) /\ Cardinality(m .. n) = n - m + 1
  BY FS_Interval
<1>2. IsFiniteSet(D) /\ Cardinality(D) <= Cardinality(m .. n)
  BY <1>1, FS_Subset
<1>3. Cardinality(D) \in Nat
  BY <1>2, FS_CardinalityType
<1> QED
  BY <1>1, <1>2, <1>3

(* The state of a game, the keys of its maps in any order: never empty, and  *)
(* far below the limit of the UI.                                            *)
LEMMA GameStateTakes ==
    ASSUME NEW game, IsGame(game), NEW g, g = BuildGameState(game),
           NEW countKeys \in SetToSeqs(DOMAIN g.building_counts) \union {SetToSeq(DOMAIN g.building_counts)},
           NEW resourceKeys \in SetToSeqs(DOMAIN g.resources) \union {SetToSeq(DOMAIN g.resources)}
    PROVE  /\ Takes(SerializeGameState(g, countKeys, resourceKeys),
                    GameStateSize(g, countKeys, resourceKeys))
           /\ GameStateSize(g, countKeys, resourceKeys) \in 1 .. 625
<1>1. PICK counts, resources, current :
          /\ counts = g.building_counts /\ resources = g.resources /\ current = g.current_petition
  OBVIOUS
<1>2. IsMap(counts) /\ DOMAIN counts \subseteq 0 .. 12 /\ 0 \in DOMAIN counts
  BY <1>1, CountsSent
<1>3. IsMap(resources) /\ DOMAIN resources \subseteq 1 .. 5
  BY <1>1, ResourcesSent
<1>4. current \in Optional(PetitionMessage) /\ \A i \in DOMAIN current : SmallPetition(current[i])
  BY <1>1, PetitionSent
<1>5. PICK n : n = Cardinality(DOMAIN counts)
  OBVIOUS
<1>6. /\ IsFiniteSet(DOMAIN counts) /\ n \in 1 .. 13 /\ n \in Nat
      /\ countKeys \in [1 .. n -> DOMAIN counts]
  <2>1. IsFiniteSet(DOMAIN counts) /\ n \in Nat /\ n <= 12 - 0 + 1
    BY <1>2, <1>5, NumbersUpTo
  <2>2. n # 0
    BY <1>2, <1>5, <2>1, FS_EmptySet
  <2>3. countKeys \in Injection(1 .. n, DOMAIN counts)
    BY <1>1, <1>5, <2>1, KeyOrders
  <2> QED
    BY <2>1, <2>2, <2>3 DEF Injection
<1>7. PICK m : m = Cardinality(DOMAIN resources)
  OBVIOUS
<1>8. /\ IsFiniteSet(DOMAIN resources) /\ m \in 0 .. 5 /\ m \in Nat
      /\ resourceKeys \in [1 .. m -> DOMAIN resources]
  <2>1. IsFiniteSet(DOMAIN resources) /\ m \in Nat /\ m <= 5 - 1 + 1
    BY <1>3, <1>7, NumbersUpTo
  <2>2. resourceKeys \in Injection(1 .. m, DOMAIN resources)
    BY <1>1, <1>7, <2>1, KeyOrders
  <2> QED
    BY <2>1, <2>2 DEF Injection
<1>9. /\ Takes(MapField(1, counts, countKeys), MapSize(counts, countKeys))
      /\ MapSize(counts, countKeys) <= n * 25 /\ MapSize(counts, countKeys) # 0
  BY <1>2, <1>6, MapTakes
<1>10. /\ Takes(MapField(5, resources, resourceKeys), MapSize(resources, resourceKeys))
       /\ MapSize(resources, resourceKeys) <= m * 25
  BY <1>3, <1>8, MapTakes
<1> DEFINE k == Len(current)
           s == [i \in DOMAIN current |->
                   MessageField(4, PetitionSize(current[i]), SerializePetition(current[i]))]
           z == [i \in DOMAIN current |-> MessageFieldSize(PetitionSize(current[i]))]
<1>11. k \in Nat /\ k <= 1 /\ DOMAIN current = 1 .. k
  BY <1>4 DEF Optional
<1>12. ASSUME NEW i \in 1 .. k
       PROVE  Takes(s[i], z[i]) /\ z[i] \in 2 .. 175
  <2>1. PICK p : p = current[i]
    OBVIOUS
  <2>2. SmallPetition(p)
    BY <1>4, <1>11, <2>1
  <2>3. /\ Takes(MessageField(4, PetitionSize(p), SerializePetition(p)),
                 MessageFieldSize(PetitionSize(p)))
        /\ MessageFieldSize(PetitionSize(p)) \in 2 .. 175
    BY <2>2, PetitionFieldTakes
  <2>4. i \in DOMAIN current
    BY <1>11
  <2>5. /\ s[i] = MessageField(4, PetitionSize(p), SerializePetition(p))
        /\ z[i] = MessageFieldSize(PetitionSize(p))
    BY <2>1, <2>4
  <2> HIDE DEF s, z
  <2>6. Takes(s[i], z[i])
    BY <2>3, <2>5
  <2>7. z[i] \in 2 .. 175
    BY <2>3, <2>5
  <2> QED
    BY <2>6, <2>7
<1>13. s = [i \in 1 .. k |-> s[i]] /\ z = [i \in 1 .. k |-> z[i]]
  BY <1>11
<1>14. /\ SerializeGameState(g, countKeys, resourceKeys) =
             MapField(1, counts, countKeys) \o FlattenSeq(s) \o MapField(5, resources, resourceKeys)
       /\ GameStateSize(g, countKeys, resourceKeys) =
             MapSize(counts, countKeys) + MapSize(resources, resourceKeys) + Total(z)
  BY <1>1 DEF SerializeGameState, GameStateSize
<1> HIDE DEF s, z, k
<1>15. Takes(FlattenSeq(s), Total(z)) /\ Total(z) <= k * 175
  <2>1. RowTakes(s, z, k, 175) /\ 175 \in Nat
    BY <1>12, <1>13 DEF RowTakes
  <2> QED
    BY <1>11, <2>1, FlattenTakes
<1>16. PICK a, b, c : /\ a = MapSize(counts, countKeys) /\ b = MapSize(resources, resourceKeys)
                      /\ c = Total(z)
  OBVIOUS
<1>17. Takes(MapField(1, counts, countKeys) \o FlattenSeq(s) \o MapField(5, resources, resourceKeys),
             a + c + b)
  BY <1>9, <1>10, <1>15, <1>16, PartsTake
<1>18. a \in 1 .. 325 /\ b \in 0 .. 125 /\ c \in 0 .. 175
  <2>1. a \in Nat /\ a # 0 /\ a <= n * 25
    BY <1>9, <1>16 DEF Takes
  <2>2. b \in Nat /\ b <= m * 25
    BY <1>10, <1>16 DEF Takes
  <2>3. c \in Nat /\ c <= k * 175
    BY <1>15, <1>16 DEF Takes
  <2> QED
    BY <1>6, <1>8, <1>11, <2>1, <2>2, <2>3
<1>19. a + c + b = a + b + c /\ a + b + c \in 1 .. 625
  BY <1>18
<1> QED
  BY <1>14, <1>16, <1>17, <1>19

LEMMA GameStateIsOne ==
    ASSUME NEW game, IsGame(game)
    PROVE  IsGameState(BuildGameState(game))
<1>1. DOMAIN BuildGameState(game) = {"building_counts", "current_petition", "resources"}
  BY DEF BuildGameState
<1> QED
  BY <1>1, CountsSent, ResourcesSent, PetitionSent DEF IsGameState

(* The members of a set add up to the same in any order. *)
LEMMA TotalInAnyOrder ==
    ASSUME NEW D, IsFiniteSet(D), NEW f \in [D -> Nat],
           NEW keys \in Injection(1 .. Cardinality(D), D)
    PROVE  Total([i \in DOMAIN keys |-> f[keys[i]]]) = SumFunctionOnSet(f, D)
<1>1. PICK n : n = Cardinality(D)
  OBVIOUS
<1>2. n \in Nat
  BY <1>1, FS_CardinalityType
<1>3. keys \in [1 .. n -> D] /\ \A i, j \in 1 .. n : keys[i] = keys[j] => i = j
  BY <1>1 DEF Injection, IsInjective
<1>4. \A x \in D : \E j \in 1 .. n : keys[j] = x
  <2>1. IsFiniteSet(1 .. n) /\ Cardinality(1 .. n) = n
    BY <1>2, NumbersUpTo, FS_Interval
  <2>2. keys \in Surjection(1 .. n, D)
    BY <1>1, <2>1, FS_Injection
  <2> QED
    BY <2>2 DEF Surjection
<1>5. PICK s : s = [i \in 1 .. n |-> f[keys[i]]]
  OBVIOUS
<1>6. s \in [1 .. n -> Nat] /\ s = [i \in DOMAIN keys |-> f[keys[i]]]
  BY <1>3, <1>5
<1>7. PICK t \in [0 .. n -> Nat] :
          t[0] = 0 /\ (\A i \in 1 .. n : t[i] = t[i - 1] + s[i]) /\ Total(s) = t[n]
  BY <1>2, <1>6, TotalSteps
<1>8. PICK h : h = [i \in 0 .. n |-> [x \in D |-> IF \E j \in 1 .. i : keys[j] = x THEN f[x] ELSE 0]]
  OBVIOUS
<1>9. ASSUME NEW i \in 0 .. n
      PROVE  h[i] \in [D -> Int]
  BY <1>8
<1> DEFINE T == {i \in 0 .. n : t[i] = SumFunctionOnSet(h[i], D)}
<1>10. 0 \in T
  <2>1. h[0] \in [D -> Int] /\ \A x \in D : h[0][x] = 0
    BY <1>2, <1>8, <1>9
  <2>2. SumFunctionOnSet(h[0], D) = 0
    BY <2>1, SumOfZeros
  <2> QED
    BY <1>2, <1>7, <2>2
<1>11. ASSUME NEW i \in 1 .. n, i - 1 \in T
       PROVE  i \in T
  <2>1. i \in 0 .. n /\ i - 1 \in 0 .. n
    BY <1>2
  <2>2. PICK a : a = keys[i]
    OBVIOUS
  <2>3. a \in D /\ f[a] \in Int
    BY <1>3, <2>2
  <2>4. \A x \in D \ {a} : h[i][x] = h[i - 1][x]
    <3>1. ASSUME NEW x \in D \ {a}
          PROVE  (\E j \in 1 .. i : keys[j] = x) <=> \E j \in 1 .. i - 1 : keys[j] = x
      BY <2>2
    <3> QED
      BY <1>8, <2>1, <3>1
  <2>5. h[i][a] = f[a]
    <3>1. \E j \in 1 .. i : keys[j] = a
      BY <2>2
    <3> QED
      BY <1>8, <2>1, <2>3, <3>1
  <2>6. h[i - 1][a] = 0
    <3>1. ~ \E j \in 1 .. i - 1 : keys[j] = a
      <4>1. ASSUME NEW j \in 1 .. i - 1, keys[j] = a
            PROVE  FALSE
        <5>1. j \in 1 .. n /\ j # i
          BY <1>2
        <5> QED
          BY <1>3, <2>2, <4>1, <5>1
      <4> QED
        BY <4>1
    <3> QED
      BY <1>8, <2>1, <2>3, <3>1
  <2>7. h[i][a] = h[i - 1][a] + f[a]
    BY <2>3, <2>5, <2>6
  <2>8. PICK before, after : before = h[i - 1] /\ after = h[i]
    OBVIOUS
  <2>9. /\ before \in [D -> Int] /\ after \in [D -> Int] /\ after[a] = before[a] + f[a]
        /\ \A x \in D \ {a} : after[x] = before[x]
    BY <1>9, <2>1, <2>4, <2>7, <2>8
  <2>10. SumFunctionOnSet(after, D) = SumFunctionOnSet(before, D) + f[a]
    BY <2>3, <2>9, SumWithOneChanged
  <2>11. t[i] = t[i - 1] + f[a]
    BY <1>5, <1>7, <2>2
  <2>12. t[i - 1] = SumFunctionOnSet(before, D)
    BY <1>11, <2>8
  <2> QED
    BY <2>1, <2>8, <2>10, <2>11, <2>12
<1> HIDE DEF T
<1>12. \A i \in 0 .. n : i \in T
  BY <1>2, <1>10, <1>11, UpToN
<1>13. t[n] = SumFunctionOnSet(h[n], D)
  BY <1>2, <1>12 DEF T
<1>14. h[n] = f
  BY <1>2, <1>4, <1>8
<1> QED
  BY <1>6, <1>7, <1>13, <1>14

LEMMA MapSizeInAnyOrder ==
    ASSUME NEW map, IsMap(map), IsFiniteSet(DOMAIN map),
           NEW keys \in SetToSeqs(DOMAIN map) \union {SetToSeq(DOMAIN map)}
    PROVE  MapSize(map, keys) = MapSize(map, SetToSeq(DOMAIN map))
<1>1. PICK f : f = [k \in DOMAIN map |-> MessageFieldSize(EntrySize(k, map[k]))]
  OBVIOUS
<1>2. f \in [DOMAIN map -> Nat]
  <2>1. ASSUME NEW k \in DOMAIN map
        PROVE  MessageFieldSize(EntrySize(k, map[k])) \in Nat
    <3>1. PICK v : v = map[k]
      OBVIOUS
    <3>2. k \in Int32 /\ v \in Int32 /\ 1 \in 1 .. 15
      BY <3>1 DEF IsMap
    <3>3. MessageFieldSize(EntrySize(k, v)) \in 2 .. 25
      BY <3>2, EntryTakes
    <3>4. MessageFieldSize(EntrySize(k, v)) \in Nat
      BY <3>3
    <3> QED
      BY <3>1, <3>4
  <2> QED
    BY <1>1, <2>1
<1>3. ASSUME NEW order \in SetToSeqs(DOMAIN map) \union {SetToSeq(DOMAIN map)}
      PROVE  MapSize(map, order) = SumFunctionOnSet(f, DOMAIN map)
  <2>1. order \in Injection(1 .. Cardinality(DOMAIN map), DOMAIN map)
    BY KeyOrders
  <2>2. Total([i \in DOMAIN order |-> f[order[i]]]) = SumFunctionOnSet(f, DOMAIN map)
    BY <1>2, <2>1, TotalInAnyOrder
  <2>3. \A i \in DOMAIN order : order[i] \in DOMAIN map
    BY <2>1 DEF Injection
  <2>4. \A i \in DOMAIN order : f[order[i]] = MessageFieldSize(EntrySize(order[i], map[order[i]]))
    BY <1>1, <2>3
  <2>5. [i \in DOMAIN order |-> f[order[i]]] =
          [i \in DOMAIN order |-> MessageFieldSize(EntrySize(order[i], map[order[i]]))]
    BY <2>4
  <2> QED
    BY <2>2, <2>5 DEF MapSize
<1> QED
  BY <1>3

(* The length does not depend on the order of the maps' keys. *)
LEMMA SizeInAnyOrder ==
    ASSUME NEW game, IsGame(game), NEW g, g = BuildGameState(game),
           NEW countKeys \in SetToSeqs(DOMAIN g.building_counts),
           NEW resourceKeys \in SetToSeqs(DOMAIN g.resources)
    PROVE  GameStateSize(g, countKeys, resourceKeys) =
             GameStateSize(g, SetToSeq(DOMAIN g.building_counts), SetToSeq(DOMAIN g.resources))
<1>1. PICK counts, resources : counts = g.building_counts /\ resources = g.resources
  OBVIOUS
<1>2. IsMap(counts) /\ IsFiniteSet(DOMAIN counts)
  <2>1. IsMap(counts) /\ DOMAIN counts \subseteq 0 .. 12
    BY <1>1, CountsSent
  <2> QED
    BY <2>1, NumbersUpTo
<1>3. IsMap(resources) /\ IsFiniteSet(DOMAIN resources)
  <2>1. IsMap(resources) /\ DOMAIN resources \subseteq 1 .. 5
    BY <1>1, ResourcesSent
  <2> QED
    BY <2>1, NumbersUpTo
<1>4. MapSize(counts, countKeys) = MapSize(counts, SetToSeq(DOMAIN counts))
  BY <1>1, <1>2, MapSizeInAnyOrder
<1>5. MapSize(resources, resourceKeys) = MapSize(resources, SetToSeq(DOMAIN resources))
  BY <1>1, <1>3, MapSizeInAnyOrder
<1> QED
  BY <1>1, <1>4, <1>5 DEF GameStateSize

-----------------------------------------------------------------------------
(* A function that is defined at p from what it is further on exists, if it  *)
(* is given from some place on.                                              *)
ForwardOn(f, given, base, step, next) ==
    f = [p \in Nat |-> IF p \in given THEN base[p] ELSE step[<<p, f[next[p]]>>]]

LEMMA ForwardExists ==
    ASSUME NEW n \in Nat, NEW A, NEW given, \A p \in Nat : p \in given \/ p <= n,
           NEW base \in [Nat -> A], NEW step \in [Nat \X A -> A],
           NEW next \in [Nat -> Nat], \A p \in Nat : p \in given \/ next[p] > p
    PROVE  \E f \in [Nat -> A] : ForwardOn(f, given, base, step, next)
<1> DEFINE At1(h, p) == IF p \in given THEN base[p] ELSE step[<<p, h[next[p]]>>]
<1>1. PICK g : g = [x \in (1 .. n + 1) \X [Nat -> A] |->
                     [x[2] EXCEPT ![n + 1 - x[1]] = At1(x[2], n + 1 - x[1])]]
  OBVIOUS
<1>2. ASSUME NEW h \in [Nat -> A], NEW p \in Nat
      PROVE  At1(h, p) \in A
  <2>1. <<p, h[next[p]]>> \in Nat \X A
    OBVIOUS
  <2> QED
    BY <2>1
<1>3. ASSUME NEW i \in 1 .. n + 1, NEW h \in [Nat -> A]
      PROVE  /\ g[<<i, h>>] = [h EXCEPT ![n + 1 - i] = At1(h, n + 1 - i)]
             /\ g[<<i, h>>] \in [Nat -> A]
  <2>1. <<i, h>> \in (1 .. n + 1) \X [Nat -> A]
    OBVIOUS
  <2>2. n + 1 - i \in Nat
    OBVIOUS
  <2>3. At1(h, n + 1 - i) \in A
    BY <1>2, <2>2
  <2> HIDE DEF At1
  <2>4. g[<<i, h>>] = [h EXCEPT ![n + 1 - i] = At1(h, n + 1 - i)]
    BY <1>1, <2>1
  <2> QED
    BY <2>2, <2>3, <2>4
<1>4. g \in [(1 .. n + 1) \X [Nat -> A] -> [Nat -> A]]
  <2>1. \A x \in (1 .. n + 1) \X [Nat -> A] : g[x] \in [Nat -> A]
    <3>1. ASSUME NEW x \in (1 .. n + 1) \X [Nat -> A]
          PROVE  g[x] \in [Nat -> A]
      <4>1. PICK i, h : i = x[1] /\ h = x[2]
        OBVIOUS
      <4>2. i \in 1 .. n + 1 /\ h \in [Nat -> A] /\ x = <<i, h>>
        BY <4>1
      <4> QED
        BY <1>3, <4>2
    <3> QED
      BY <3>1
  <2>2. g = [x \in (1 .. n + 1) \X [Nat -> A] |-> g[x]]
    BY <1>1
  <2> QED
    BY <2>1, <2>2
<1>5. PICK r \in [0 .. n + 1 -> [Nat -> A]] : StepsOn(r, g, base, n + 1)
  <2>1. n + 1 \in Nat
    OBVIOUS
  <2>2. PICK m : m = n + 1
    OBVIOUS
  <2>3. m \in Nat /\ g \in [(1 .. m) \X [Nat -> A] -> [Nat -> A]]
    BY <1>4, <2>1, <2>2
  <2>4. PICK B : B = [Nat -> A]
    OBVIOUS
  <2>5. base \in B /\ g \in [(1 .. m) \X B -> B]
    BY <2>3, <2>4
  <2>6. \E s \in [0 .. m -> B] : StepsOn(s, g, base, m)
    BY <2>3, <2>5, StepsExist
  <2> QED
    BY <2>2, <2>4, <2>6
<1> DEFINE T == {i \in 0 .. n + 1 : \A p \in Nat : p > n - i => r[i][p] = At1(r[i], p)}
<1>6. 0 \in T
  <2>1. r[0] = base
    BY <1>5 DEF StepsOn
  <2>2. \A p \in Nat : p > n - 0 => p \in given
    OBVIOUS
  <2>3. 0 \in 0 .. n + 1
    OBVIOUS
  <2> QED
    BY <2>1, <2>2, <2>3
<1>7. ASSUME NEW i \in 1 .. n + 1, i - 1 \in T
      PROVE  i \in T
  <2>1. PICK before, after, q : before = r[i - 1] /\ after = r[i] /\ q = n + 1 - i
    OBVIOUS
  <2>2. before \in [Nat -> A] /\ q \in Nat /\ i \in 0 .. n + 1
    BY <2>1
  <2>3. after = [before EXCEPT ![q] = At1(before, q)]
    <3>1. r[i] = g[<<i, r[i - 1]>>]
      BY <1>5 DEF StepsOn
    <3>2. g[<<i, before>>] = [before EXCEPT ![n + 1 - i] = At1(before, n + 1 - i)]
      BY <1>3, <2>2
    <3> HIDE DEF At1
    <3> QED BY <2>1, <3>1, <3>2
  <2>4. after[q] = At1(before, q) /\ \A p \in Nat : p # q => after[p] = before[p]
    <3> HIDE DEF At1
    <3> QED BY <2>2, <2>3
  <2>5. \A p \in Nat : p > q => before[p] = At1(before, p)
    <3>1. q = n - (i - 1)
      BY <2>1
    <3> HIDE DEF At1
    <3> QED BY <1>7, <2>1, <3>1
  <2>6. ASSUME NEW p \in Nat, p >= q
        PROVE  At1(after, p) = At1(before, p)
    <3>1. p \in given \/ next[p] > p
      OBVIOUS
    <3>2. p \in given \/ (next[p] \in Nat /\ next[p] # q)
      BY <2>2, <2>6, <3>1
    <3> QED
      BY <2>4, <3>2
  <2>7. \A p \in Nat : p > n - i => after[p] = At1(after, p)
    <3>1. ASSUME NEW p \in Nat, p > n - i
          PROVE  after[p] = At1(after, p)
      <4>1. p >= q
        BY <2>1, <3>1
      <4>2. p = q \/ p > q
        BY <2>2, <4>1
      <4>3. At1(after, p) = At1(before, p)
        BY <2>6, <4>1
      <4> HIDE DEF At1
      <4>4. CASE p = q
        BY <2>4, <4>3, <4>4
      <4>5. CASE p > q
        <5>1. p # q
          BY <2>2, <4>5
        <5> QED
          BY <2>4, <2>5, <4>3, <4>5, <5>1
      <4> QED
        BY <4>2, <4>4, <4>5
    <3> QED
      BY <3>1
  <2> HIDE DEF At1
  <2> QED
    BY <2>1, <2>2, <2>7
<1> HIDE DEF T
<1>8. \A i \in 0 .. n + 1 : i \in T
  <2>1. n + 1 \in Nat
    OBVIOUS
  <2>2. PICK m : m = n + 1
    OBVIOUS
  <2>3. \A i \in 1 .. m : i - 1 \in T => i \in T
    BY <1>7, <2>2
  <2>4. \A i \in 0 .. m : i \in T
    BY <1>6, <2>1, <2>2, <2>3, UpToN
  <2> QED
    BY <2>2, <2>4
<1>9. PICK f : f = r[n + 1]
  OBVIOUS
<1>10. n + 1 \in 0 .. n + 1
  OBVIOUS
<1>11. \A p \in Nat : f[p] = At1(f, p)
  <2>1. \A p \in Nat : p > n - (n + 1)
    OBVIOUS
  <2> HIDE DEF At1
  <2> QED
    BY <1>8, <1>9, <1>10, <2>1 DEF T
<1>12. f \in [Nat -> A]
  BY <1>9, <1>10
<1> QED
  BY <1>11, <1>12 DEF ForwardOn

-----------------------------------------------------------------------------
(* Where the reader finds the end of a varint. *)
LEMMA VarintEndUnfold ==
    ASSUME NEW bytes \in Seq(Byte), NEW p \in Nat
    PROVE  /\ VarintEnd(bytes, p) =
                IF p > Len(bytes) \/ bytes[p] < 128 THEN p ELSE VarintEnd(bytes, p + 1)
           /\ VarintEnd(bytes, p) \in Nat
<1> DEFINE EndOn(f) == f = [q \in Nat |-> IF q > Len(bytes) \/ bytes[q] < 128 THEN q ELSE f[q + 1]]
           f == CHOOSE f : EndOn(f)
<1>1. \A q \in Nat : VarintEnd(bytes, q) = f[q]
  BY DEF VarintEnd
<1>2. PICK n \in Nat : n = Len(bytes)
  OBVIOUS
<1>3. PICK given, base, step, next :
          /\ given = {q \in Nat : q > Len(bytes) \/ bytes[q] < 128}
          /\ base = [q \in Nat |-> q]
          /\ step = [x \in Nat \X Nat |-> x[2]]
          /\ next = [q \in Nat |-> q + 1]
  OBVIOUS
<1>4. \A q \in Nat : (q \in given \/ q <= n) /\ (q \in given \/ next[q] > q)
  BY <1>2, <1>3
<1>5. base \in [Nat -> Nat] /\ step \in [Nat \X Nat -> Nat] /\ next \in [Nat -> Nat]
  BY <1>3
<1>6. PICK h \in [Nat -> Nat] : ForwardOn(h, given, base, step, next)
  BY <1>4, <1>5, ForwardExists
<1>7. EndOn(h)
  <2>1. ASSUME NEW q \in Nat
        PROVE  h[q] = IF q > Len(bytes) \/ bytes[q] < 128 THEN q ELSE h[q + 1]
    <3>1. h[q] = IF q \in given THEN base[q] ELSE step[<<q, h[next[q]]>>]
      BY <1>6 DEF ForwardOn
    <3>2. base[q] = q /\ next[q] = q + 1 /\ q + 1 \in Nat
      BY <1>3
    <3>3. step[<<q, h[q + 1]>>] = h[q + 1]
      BY <1>3, <3>2
    <3> QED
      BY <1>3, <3>1, <3>2, <3>3
  <2> QED
    BY <2>1
<1>8. EndOn(f)
  <2> HIDE DEF EndOn
  <2> QED BY <1>7
<1> HIDE DEF f
<1>9. \A q \in Nat : f[q] = IF q > Len(bytes) \/ bytes[q] < 128 THEN q ELSE f[q + 1]
  BY <1>8
<1> DEFINE T == {i \in 0 .. n + 1 : \A q \in Nat : q > n - i => f[q] \in Nat}
<1>10. 0 \in T
  BY <1>2, <1>9
<1>11. ASSUME NEW i \in 1 .. n + 1, i - 1 \in T
       PROVE  i \in T
  <2>1. ASSUME NEW q \in Nat, q > n - i
        PROVE  f[q] \in Nat
    <3>1. q + 1 \in Nat /\ q + 1 > n - (i - 1)
      BY <2>1
    <3>2. f[q + 1] \in Nat
      BY <1>11, <3>1
    <3> QED
      BY <1>9, <3>2
  <2>2. i \in 0 .. n + 1
    OBVIOUS
  <2> QED
    BY <2>1, <2>2
<1> HIDE DEF T
<1>12. PICK m \in Nat : m = n + 1
  OBVIOUS
<1>13. \A i \in 0 .. m : i \in T
  BY <1>10, <1>11, <1>12, UpToN
<1>14. f[p] \in Nat
  <2>1. m \in T /\ p > n - m
    BY <1>12, <1>13
  <2> QED
    BY <2>1 DEF T
<1>15. p + 1 \in Nat
  OBVIOUS
<1>16. VarintEnd(bytes, p) = f[p] /\ VarintEnd(bytes, p + 1) = f[p + 1]
  BY <1>1, <1>15
<1> HIDE DEF EndOn
<1> QED
  BY <1>9, <1>14, <1>16

LEMMA VarintEndIsAhead ==
    ASSUME NEW bytes \in Seq(Byte), NEW p \in Nat
    PROVE  VarintEnd(bytes, p) >= p
<1>1. PICK n \in Nat : n = Len(bytes)
  OBVIOUS
<1> DEFINE T == {i \in 0 .. n + 1 : \A q \in Nat : q > n - i => VarintEnd(bytes, q) >= q}
<1>2. 0 \in T
  BY <1>1, VarintEndUnfold
<1>3. ASSUME NEW i \in 1 .. n + 1, i - 1 \in T
      PROVE  i \in T
  <2>1. ASSUME NEW q \in Nat, q > n - i
        PROVE  VarintEnd(bytes, q) >= q
    <3>1. q + 1 \in Nat /\ q + 1 > n - (i - 1)
      BY <2>1
    <3>2. VarintEnd(bytes, q + 1) >= q + 1 /\ VarintEnd(bytes, q + 1) \in Nat
      BY <1>3, <3>1, VarintEndUnfold
    <3>3. VarintEnd(bytes, q) = q \/ VarintEnd(bytes, q) = VarintEnd(bytes, q + 1)
      BY VarintEndUnfold
    <3>4. VarintEnd(bytes, q) \in Nat
      BY VarintEndUnfold
    <3> QED
      BY <3>2, <3>3, <3>4
  <2>2. i \in 0 .. n + 1
    OBVIOUS
  <2> QED
    BY <2>1, <2>2
<1> HIDE DEF T
<1>4. PICK m \in Nat : m = n + 1
  OBVIOUS
<1>5. \A i \in 0 .. m : i \in T
  BY <1>2, <1>3, <1>4, UpToN
<1>6. m \in T /\ p > n - m
  BY <1>4, <1>5
<1> QED
  BY <1>6 DEF T

(* bytes holds part from place p on. *)
Holds(bytes, p, part) ==
    /\ p + Len(part) <= Len(bytes) + 1
    /\ \A i \in 1 .. Len(part) : bytes[p + i - 1] = part[i]

LEMMA HoldsParts ==
    ASSUME NEW bytes \in Seq(Byte), NEW p \in Nat \ {0}, NEW s \in Seq(Byte), NEW t \in Seq(Byte),
           Holds(bytes, p, s \o t)
    PROVE  Holds(bytes, p, s) /\ Holds(bytes, p + Len(s), t)
<1>1. Len(s) \in Nat /\ Len(t) \in Nat /\ Len(s \o t) = Len(s) + Len(t)
  OBVIOUS
<1>2. PICK st, m, n : st = s \o t /\ m = Len(s) /\ n = Len(t)
  OBVIOUS
<1>3. /\ \A i \in 1 .. m : st[i] = s[i]
      /\ \A i \in 1 .. n : st[m + i] = t[i]
  BY <1>2
<1>4. m \in Nat /\ n \in Nat /\ Len(st) = m + n
  BY <1>1, <1>2
<1>5. p + (m + n) <= Len(bytes) + 1 /\ \A i \in 1 .. m + n : bytes[p + i - 1] = st[i]
  BY <1>2, <1>4 DEF Holds
<1>6. p + m <= Len(bytes) + 1 /\ \A i \in 1 .. m : bytes[p + i - 1] = s[i]
  <2>1. \A i \in 1 .. m : i \in 1 .. m + n
    BY <1>4
  <2>2. p + m <= Len(bytes) + 1
    BY <1>4, <1>5
  <2> QED
    BY <1>3, <1>5, <2>1, <2>2
<1>7. p + m + n <= Len(bytes) + 1 /\ \A i \in 1 .. n : bytes[p + m + i - 1] = t[i]
  <2>1. \A i \in 1 .. n : m + i \in 1 .. m + n /\ p + (m + i) - 1 = p + m + i - 1
    BY <1>4
  <2>2. p + m + n <= Len(bytes) + 1
    BY <1>4, <1>5
  <2> QED
    BY <1>3, <1>5, <2>1, <2>2
<1> QED
  BY <1>2, <1>6, <1>7 DEF Holds

(* A varint that stands there is what the reader takes. *)
LEMMA VarintRead ==
    ASSUME NEW bytes \in Seq(Byte), NEW p \in Nat \ {0}, NEW v \in Int32,
           Holds(bytes, p, Varint(v))
    PROVE  /\ VarintEnd(bytes, p) = p + VarintSize(v) - 1
           /\ Slice(bytes, p, p + VarintSize(v) - 1) = Varint(v)
<1>1. PICK n : n = VarintSize(v)
  OBVIOUS
<1>2. n \in 1 .. 10 /\ Len(Varint(v)) = n /\ Varint(v) \in Seq(Byte)
  BY <1>1, VarintTakes DEF Takes
<1>3. p + n <= Len(bytes) + 1 /\ \A i \in 1 .. n : bytes[p + i - 1] = Varint(v)[i]
  BY <1>2 DEF Holds
<1>4. \A i \in 1 .. n : Varint(v)[i] \in Byte /\ (Varint(v)[i] < 128 <=> i = n)
  <2>1. DOMAIN Varint(v) = 1 .. n
    BY <1>2
  <2> QED
    BY <1>2, <2>1, VarintDelimitsItself
<1> DEFINE T == {i \in 0 .. n - 1 : VarintEnd(bytes, p + n - 1 - i) = p + n - 1}
<1>5. 0 \in T
  <2>1. p + n - 1 \in Nat /\ p + n - 1 - 0 = p + n - 1 /\ n \in 1 .. n
    BY <1>2
  <2>2. bytes[p + n - 1] < 128
    BY <1>3, <1>4, <2>1
  <2>3. VarintEnd(bytes, p + n - 1) = p + n - 1
    BY <2>1, <2>2, VarintEndUnfold
  <2> QED
    BY <1>2, <2>1, <2>3
<1>6. ASSUME NEW i \in 1 .. n - 1, i - 1 \in T
      PROVE  i \in T
  <2>1. PICK q : q = p + n - 1 - i
    OBVIOUS
  <2>2. q \in Nat /\ q + 1 = p + n - 1 - (i - 1) /\ n - i \in 1 .. n /\ n - i # n
    BY <1>2, <2>1
  <2>3. q = p + (n - i) - 1
    BY <1>2, <2>1
  <2>4. q <= Len(bytes) /\ bytes[q] = Varint(v)[n - i]
    BY <1>2, <1>3, <2>1, <2>2, <2>3
  <2>5. ~ bytes[q] < 128
    BY <1>4, <2>2, <2>4
  <2>6. VarintEnd(bytes, q) = VarintEnd(bytes, q + 1)
    <3>1. ~ (q > Len(bytes) \/ bytes[q] < 128)
      BY <2>2, <2>4, <2>5
    <3> QED
      BY <2>2, <3>1, VarintEndUnfold
  <2>7. VarintEnd(bytes, q + 1) = p + n - 1
    BY <1>6, <2>2
  <2>8. i \in 0 .. n - 1
    BY <1>2
  <2> QED
    BY <2>1, <2>6, <2>7, <2>8
<1> HIDE DEF T
<1>7. PICK m \in Nat : m = n - 1
  BY <1>2
<1>8. m \in T
  <2>1. \A i \in 1 .. m : i - 1 \in T => i \in T
    BY <1>6, <1>7
  <2>2. \A i \in 0 .. m : i \in T
    BY <1>5, <1>7, <2>1, UpToN
  <2> QED
    BY <1>7, <2>2
<1>9. VarintEnd(bytes, p) = p + n - 1
  <2>1. p + n - 1 - m = p
    BY <1>2, <1>7
  <2> QED
    BY <1>8, <2>1 DEF T
<1>10. Slice(bytes, p, p + n - 1) = Varint(v)
  <2>1. p + n - 1 <= Len(bytes) /\ p + n - 1 \in Nat
    BY <1>2, <1>3
  <2>2. Slice(bytes, p, p + n - 1) = SubSeq(bytes, p, p + n - 1)
    BY <2>1 DEF Slice
  <2>3. /\ SubSeq(bytes, p, p + n - 1) \in Seq(Byte) /\ Len(SubSeq(bytes, p, p + n - 1)) = n
        /\ \A i \in 1 .. n : SubSeq(bytes, p, p + n - 1)[i] = bytes[p + i - 1]
    BY <1>2, <2>1
  <2>4. PICK s, t : s = SubSeq(bytes, p, p + n - 1) /\ t = Varint(v)
    OBVIOUS
  <2>5. /\ s \in Seq(Byte) /\ t \in Seq(Byte) /\ Len(s) = n /\ Len(t) = n
        /\ \A i \in 1 .. n : s[i] = t[i]
    BY <1>2, <1>3, <2>3, <2>4
  <2>6. s = t
    BY <1>2, <2>5
  <2> QED
    BY <2>2, <2>4, <2>6
<1> QED
  BY <1>1, <1>9, <1>10

-----------------------------------------------------------------------------
(* The fields of a message, one after another. *)
LEMMA FieldIsAhead ==
    ASSUME NEW bytes \in Seq(Byte), NEW p \in Nat, p <= Len(bytes)
    PROVE  FieldAt(bytes, p).next \in Nat /\ FieldAt(bytes, p).next > p
<1>1. PICK tagEnd, varintEnd : /\ tagEnd = VarintEnd(bytes, p)
                               /\ varintEnd = VarintEnd(bytes, tagEnd + 1)
  OBVIOUS
<1>2. tagEnd \in Nat /\ tagEnd >= p
  BY <1>1, VarintEndUnfold, VarintEndIsAhead
<1>3. tagEnd + 1 \in Nat
  BY <1>2
<1>4. varintEnd \in Nat /\ varintEnd >= tagEnd + 1
  BY <1>1, <1>3, VarintEndUnfold, VarintEndIsAhead
<1>5. PICK tag, length : /\ tag = Int32Of(Slice(bytes, p, tagEnd))
                         /\ length = Int32Of(Slice(bytes, tagEnd + 1, varintEnd))
  OBVIOUS
<1>6. PICK more : more = IF length \in DOMAIN bytes \union {0} THEN length ELSE Len(bytes) + 1
  OBVIOUS
<1>7. more \in Nat
  BY <1>6
<1>8. FieldAt(bytes, p).next \in {varintEnd + 1, varintEnd + more + 1, Len(bytes) + 1}
  <2>1. CASE tag % 8 = VARINT
    BY <1>1, <1>5, <1>6, <2>1 DEF FieldAt
  <2>2. CASE tag % 8 = LEN
    <3>1. LEN # VARINT
      BY DEF LEN, VARINT
    <3> QED
      BY <1>1, <1>5, <1>6, <2>2, <3>1 DEF FieldAt
  <2>3. CASE tag % 8 # VARINT /\ tag % 8 # LEN
    BY <1>1, <1>5, <1>6, <2>3 DEF FieldAt
  <2> QED
    BY <2>1, <2>2, <2>3
<1>9. \A next \in {varintEnd + 1, varintEnd + more + 1, Len(bytes) + 1} : next \in Nat /\ next > p
  BY <1>2, <1>4, <1>7
<1> QED
  BY <1>8, <1>9

LEMMA FieldsUnfold ==
    ASSUME NEW bytes \in Seq(Byte)
    PROVE  \E f \in [Nat -> Seq({FieldAt(bytes, p) : p \in Nat})] :
             /\ Fields(bytes) = f[1]
             /\ \A p \in Nat : p > Len(bytes) => f[p] = << >>
             /\ \A p \in Nat : p <= Len(bytes) =>
                  f[p] = <<FieldAt(bytes, p)>> \o f[FieldAt(bytes, p).next]
<1>1. PICK A : A = Seq({FieldAt(bytes, p) : p \in Nat})
  OBVIOUS
<1> DEFINE FieldsOn(f) == f = [p \in Nat |->
                                IF p > Len(bytes) THEN << >>
                                ELSE LET field == FieldAt(bytes, p) IN <<field>> \o f[field.next]]
           f == CHOOSE f : FieldsOn(f)
<1>2. Fields(bytes) = f[1]
  BY DEF Fields
<1>3. PICK n \in Nat : n = Len(bytes)
  OBVIOUS
<1>4. PICK given, base, step, next :
          /\ given = {p \in Nat : p > Len(bytes)}
          /\ base = [p \in Nat |-> << >>]
          /\ step = [x \in Nat \X A |-> <<FieldAt(bytes, x[1])>> \o x[2]]
          /\ next = [p \in Nat |-> IF p > Len(bytes) THEN p ELSE FieldAt(bytes, p).next]
  OBVIOUS
<1>5. \A p \in Nat : /\ p \in given \/ p <= n
                     /\ next[p] \in Nat
                     /\ p \in given \/ next[p] > p
  <2>1. ASSUME NEW p \in Nat
        PROVE  /\ p \in given \/ p <= n
               /\ next[p] \in Nat
               /\ p \in given \/ next[p] > p
    <3>1. CASE p > Len(bytes)
      BY <1>3, <1>4, <3>1
    <3>2. CASE ~ p > Len(bytes)
      <4>1. p <= Len(bytes)
        BY <3>2
      <4>2. FieldAt(bytes, p).next \in Nat /\ FieldAt(bytes, p).next > p
        BY <4>1, FieldIsAhead
      <4>3. next[p] = FieldAt(bytes, p).next
        BY <1>4, <3>2
      <4> QED
        BY <1>3, <4>1, <4>2, <4>3
    <3> QED
      BY <3>1, <3>2
  <2> QED
    BY <2>1
<1>6. base \in [Nat -> A] /\ next \in [Nat -> Nat]
  <2>1. next = [p \in Nat |-> next[p]]
    BY <1>4
  <2> QED
    BY <1>1, <1>4, <1>5, <2>1
<1>7. step \in [Nat \X A -> A]
  <2>1. ASSUME NEW p \in Nat, NEW rest \in A
        PROVE  <<FieldAt(bytes, p)>> \o rest \in A
    <3>1. PICK F : F = {FieldAt(bytes, q) : q \in Nat}
      OBVIOUS
    <3>2. PICK field : field = FieldAt(bytes, p)
      OBVIOUS
    <3>3. field \in F /\ A = Seq(F)
      BY <1>1, <3>1, <3>2
    <3>4. <<field>> \o rest \in Seq(F)
      BY <3>3
    <3> QED
      BY <3>2, <3>3, <3>4
  <2>2. \A x \in Nat \X A : <<FieldAt(bytes, x[1])>> \o x[2] \in A
    BY <2>1
  <2> QED
    BY <1>4, <2>2
<1>8. PICK h \in [Nat -> A] : ForwardOn(h, given, base, step, next)
  BY <1>5, <1>6, <1>7, ForwardExists
<1>9. FieldsOn(h)
  <2>1. ASSUME NEW p \in Nat
        PROVE  h[p] = IF p > Len(bytes) THEN << >>
                      ELSE <<FieldAt(bytes, p)>> \o h[FieldAt(bytes, p).next]
    <3>1. h[p] = IF p \in given THEN base[p] ELSE step[<<p, h[next[p]]>>]
      BY <1>8 DEF ForwardOn
    <3>2. CASE p > Len(bytes)
      BY <1>4, <3>1, <3>2
    <3>3. CASE ~ p > Len(bytes)
      <4>1. p \notin given /\ next[p] = FieldAt(bytes, p).next /\ next[p] \in Nat
        BY <1>4, <1>5, <3>3
      <4>2. <<p, h[next[p]]>> \in Nat \X A
        BY <4>1
      <4>3. step[<<p, h[next[p]]>>] = <<FieldAt(bytes, p)>> \o h[next[p]]
        BY <1>4, <4>2
      <4> QED
        BY <3>1, <3>3, <4>1, <4>3
    <3> QED
      BY <3>2, <3>3
  <2> QED
    BY <2>1
<1>10. FieldsOn(f)
  <2> HIDE DEF FieldsOn
  <2> QED BY <1>9
<1> HIDE DEF f
<1>11. /\ \A p \in Nat : p > Len(bytes) => f[p] = << >>
       /\ \A p \in Nat : p <= Len(bytes) =>
            f[p] = <<FieldAt(bytes, p)>> \o f[FieldAt(bytes, p).next]
  <2>1. \A p \in Nat : f[p] = IF p > Len(bytes) THEN << >>
                               ELSE <<FieldAt(bytes, p)>> \o f[FieldAt(bytes, p).next]
    BY <1>10
  <2>2. \A p \in Nat : p <= Len(bytes) => ~ p > Len(bytes)
    OBVIOUS
  <2> HIDE DEF FieldsOn
  <2>3. \A p \in Nat : p > Len(bytes) => f[p] = << >>
    BY <2>1, Zenon
  <2>4. \A p \in Nat : p <= Len(bytes) =>
          f[p] = <<FieldAt(bytes, p)>> \o f[FieldAt(bytes, p).next]
    BY <2>1, <2>2, Zenon
  <2> QED
    BY <2>3, <2>4
<1> DEFINE T == {i \in 0 .. n + 1 : \A p \in Nat : p > n - i => f[p] \in A}
<1>12. 0 \in T
  <2>1. << >> \in A
    BY <1>1
  <2>2. \A p \in Nat : p > n - 0 => f[p] \in A
    BY <1>3, <1>11, <2>1
  <2>3. 0 \in 0 .. n + 1
    OBVIOUS
  <2> QED
    BY <2>2, <2>3
<1>13. ASSUME NEW i \in 1 .. n + 1, i - 1 \in T
       PROVE  i \in T
  <2>1. ASSUME NEW p \in Nat, p > n - i
        PROVE  f[p] \in A
    <3>1. CASE p > Len(bytes)
      <4>1. << >> \in A
        BY <1>1
      <4> QED
        BY <1>11, <3>1, <4>1
    <3>2. CASE p <= Len(bytes)
      <4>1. PICK q : q = FieldAt(bytes, p).next
        OBVIOUS
      <4>2. q \in Nat /\ q > p
        BY <3>2, <4>1, FieldIsAhead
      <4>3. q > n - (i - 1)
        BY <2>1, <4>2
      <4>4. f[q] \in A
        BY <1>13, <4>2, <4>3
      <4>5. <<p, f[q]>> \in Nat \X A
        BY <4>4
      <4>6. step[<<p, f[q]>>] \in A /\ step[<<p, f[q]>>] = <<FieldAt(bytes, p)>> \o f[q]
        BY <1>4, <1>7, <4>5
      <4> QED
        BY <1>11, <3>2, <4>1, <4>6
    <3> QED
      BY <3>1, <3>2
  <2>2. i \in 0 .. n + 1
    OBVIOUS
  <2> QED
    BY <2>1, <2>2
<1> HIDE DEF T
<1>14. PICK m \in Nat : m = n + 1
  OBVIOUS
<1>15. \A i \in 0 .. m : i \in T
  BY <1>12, <1>13, <1>14, UpToN
<1>16. \A p \in Nat : f[p] \in A
  <2>1. m \in T /\ \A p \in Nat : p > n - m
    BY <1>14, <1>15
  <2> QED
    BY <2>1 DEF T
<1>17. f = [p \in Nat |-> f[p]]
  BY <1>10
<1>18. f \in [Nat -> A]
  BY <1>16, <1>17
<1> QED
  BY <1>1, <1>2, <1>11, <1>18

(* at[i] is where the field after the i-th begins. *)
FieldsStand(bytes, n, at) ==
    /\ at \in [0 .. n -> Nat] /\ at[0] = 1 /\ at[n] > Len(bytes)
    /\ \A i \in 1 .. n : at[i - 1] <= Len(bytes) /\ FieldAt(bytes, at[i - 1]).next = at[i]

LEMMA FieldsInTurn ==
    ASSUME NEW bytes \in Seq(Byte), NEW n \in Nat, NEW at, FieldsStand(bytes, n, at)
    PROVE  Fields(bytes) = [i \in 1 .. n |-> FieldAt(bytes, at[i - 1])]
<1>1. PICK W : W = {FieldAt(bytes, p) : p \in Nat}
  OBVIOUS
<1>2. PICK f \in [Nat -> Seq(W)] :
          /\ Fields(bytes) = f[1]
          /\ \A p \in Nat : p > Len(bytes) => f[p] = << >>
          /\ \A p \in Nat : p <= Len(bytes) =>
               f[p] = <<FieldAt(bytes, p)>> \o f[FieldAt(bytes, p).next]
  BY <1>1, FieldsUnfold
<1>3. PICK fields : fields = [i \in 1 .. n |-> FieldAt(bytes, at[i - 1])]
  OBVIOUS
<1>4. \A i \in 1 .. n : i - 1 \in 0 .. n /\ at[i - 1] \in Nat /\ fields[i] \in W
  <2>1. \A i \in 1 .. n : i - 1 \in 0 .. n
    OBVIOUS
  <2>2. \A i \in 0 .. n : at[i] \in Nat
    BY DEF FieldsStand
  <2> QED
    BY <1>1, <1>3, <2>1, <2>2
<1> DEFINE T == {i \in 0 .. n : f[at[n - i]] = [j \in 1 .. i |-> fields[n - i + j]]}
<1>5. 0 \in T
  <2>1. at[n] \in Nat /\ at[n] > Len(bytes) /\ n - 0 = n
    BY DEF FieldsStand
  <2>3. f[at[n]] = << >>
    BY <1>2, <2>1
  <2>2. [j \in 1 .. 0 |-> fields[n - 0 + j]] = << >>
    OBVIOUS
  <2> QED
    BY <2>1, <2>2, <2>3
<1>6. ASSUME NEW i \in 1 .. n, i - 1 \in T
      PROVE  i \in T
  <2>1. PICK k : k = n - i + 1
    OBVIOUS
  <2>2. k \in 1 .. n /\ n - i = k - 1 /\ n - (i - 1) = k
    BY <2>1
  <2>3. PICK p : p = at[k - 1]
    OBVIOUS
  <2>4. p \in Nat /\ p <= Len(bytes) /\ FieldAt(bytes, p).next = at[k] /\ fields[k] = FieldAt(bytes, p)
    BY <1>3, <1>4, <2>2, <2>3 DEF FieldsStand
  <2>5. f[p] = <<fields[k]>> \o f[at[k]]
    BY <1>2, <2>4
  <2>6. PICK s : s = [j \in 1 .. i - 1 |-> fields[k + j]]
    OBVIOUS
  <2>7. f[at[k]] = s
    <3>1. f[at[k]] = [j \in 1 .. i - 1 |-> fields[n - (i - 1) + j]]
      BY <1>6, <2>2
    <3> QED
      BY <2>2, <2>6, <3>1
  <2>8. s \in Seq(W) /\ Len(s) = i - 1
    <3>1. \A j \in 1 .. i - 1 : k + j \in 1 .. n
      BY <2>1
    <3>2. \A j \in 1 .. i - 1 : s[j] \in W
      BY <1>4, <2>6, <3>1
    <3> QED
      BY <2>6, <3>2
  <2>9. <<fields[k]>> \o s = [j \in 1 .. i |-> fields[k - 1 + j]]
    <3>1. PICK x : x = fields[k]
      OBVIOUS
    <3>2. x \in W
      BY <1>4, <2>2, <3>1
    <3>3. /\ <<x>> \o s \in Seq(W) /\ Len(<<x>> \o s) = i
          /\ (<<x>> \o s)[1] = x /\ \A j \in 2 .. i : (<<x>> \o s)[j] = s[j - 1]
      <4>1. <<x>> \in Seq(W) /\ Len(<<x>>) = 1 /\ <<x>>[1] = x
        BY <3>2
      <4>2. <<x>> \o s \in Seq(W) /\ Len(<<x>> \o s) = 1 + Len(s)
        BY <2>8, <4>1, Concatenation
      <4>3. /\ (<<x>> \o s)[1] = x
            /\ \A j \in 1 .. Len(s) : (<<x>> \o s)[1 + j] = s[j]
        BY <2>8, <4>1
      <4>4. \A j \in 2 .. i : j - 1 \in 1 .. Len(s) /\ 1 + (j - 1) = j
        BY <2>8
      <4>5. \A j \in 2 .. i : (<<x>> \o s)[j] = s[j - 1]
        BY <4>3, <4>4
      <4> QED
        BY <2>8, <4>2, <4>3, <4>5
    <3>4. \A j \in 2 .. i : s[j - 1] = fields[k - 1 + j]
      <4>1. \A j \in 2 .. i : j - 1 \in 1 .. i - 1 /\ k + (j - 1) = k - 1 + j
        BY <2>2
      <4> QED
        BY <2>6, <4>1
    <3>5. k - 1 + 1 = k
      BY <2>2
    <3>6. PICK t : t = <<x>> \o s
      OBVIOUS
    <3>7. /\ t \in Seq(W) /\ Len(t) = i /\ t[1] = fields[k - 1 + 1]
          /\ \A j \in 2 .. i : t[j] = fields[k - 1 + j]
      BY <3>1, <3>3, <3>4, <3>5, <3>6
    <3>8. \A j \in 1 .. i : t[j] = fields[k - 1 + j]
      <4>1. \A j \in 1 .. i : j = 1 \/ j \in 2 .. i
        OBVIOUS
      <4> QED
        BY <3>7, <4>1
    <3>9. DOMAIN t = 1 .. i /\ t = [j \in DOMAIN t |-> t[j]]
      BY <3>7
    <3>10. t = [j \in 1 .. i |-> fields[k - 1 + j]]
      BY <3>8, <3>9
    <3> QED
      BY <3>1, <3>6, <3>10
  <2>10. i \in 0 .. n
    OBVIOUS
  <2> QED
    BY <2>2, <2>3, <2>5, <2>7, <2>9, <2>10
<1> HIDE DEF T
<1>7. n \in T
  <2>1. \A i \in 0 .. n : i \in T
    BY <1>5, <1>6, UpToN
  <2> QED
    BY <2>1
<1>8. f[at[n - n]] = [j \in 1 .. n |-> fields[n - n + j]]
  BY <1>7 DEF T
<1>9. n - n = 0 /\ \A j \in 1 .. n : n - n + j = j
  OBVIOUS
<1>10. [j \in 1 .. n |-> fields[n - n + j]] = fields
  BY <1>3, <1>9
<1>11. f[1] = fields
  BY <1>8, <1>9, <1>10 DEF FieldsStand
<1> QED
  BY <1>2, <1>3, <1>11

-----------------------------------------------------------------------------
(* What is taken of a field that stands in the bytes. *)
LEMMA SliceHeld ==
    ASSUME NEW bytes \in Seq(Byte), NEW p \in Nat \ {0}, NEW s \in Seq(Byte), Holds(bytes, p, s)
    PROVE  Slice(bytes, p, p + Len(s) - 1) = s
<1>1. PICK n \in Nat : n = Len(s)
  OBVIOUS
<1>2. p + n <= Len(bytes) + 1 /\ \A i \in 1 .. n : bytes[p + i - 1] = s[i]
  BY <1>1 DEF Holds
<1>3. PICK q : q = p + n - 1
  OBVIOUS
<1>4. q \in Nat /\ q <= Len(bytes) /\ p - 1 <= q
  BY <1>2, <1>3
<1>5. PICK t : t = SubSeq(bytes, p, q)
  OBVIOUS
<1>6. t \in Seq(Byte) /\ Len(t) = n /\ \A i \in 1 .. n : t[i] = bytes[p + i - 1]
  BY <1>2, <1>3, <1>4, <1>5
<1>7. t = s
  <2>1. \A i \in 1 .. n : t[i] = s[i]
    BY <1>2, <1>6
  <2> QED
    BY <1>1, <1>6, <2>1, SameEntries
<1> QED
  BY <1>1, <1>3, <1>4, <1>5, <1>7 DEF Slice

LEMMA TagRead ==
    ASSUME NEW number \in 1 .. 15, NEW type \in {VARINT, LEN}
    PROVE  /\ Tag(number, type) \in Int32 /\ VarintSize(Tag(number, type)) = 1
           /\ Tag(number, type) % 8 = type
<1>1. Tag(number, type) \in Int32 /\ Tag(number, type) \in 0 .. 127
  BY DEF Tag, VARINT, LEN, Int32
<1>2. Tag(number, type) % 8 = type
  <2>1. CASE type = 0
    BY <2>1 DEF Tag
  <2>2. CASE type = 2
    BY <2>2 DEF Tag
  <2> QED
    BY <2>1, <2>2 DEF VARINT, LEN
<1> QED
  BY <1>1, <1>2 DEF VarintSize

LEMMA VarintFieldRead ==
    ASSUME NEW bytes \in Seq(Byte), NEW p \in Nat \ {0}, NEW number \in 1 .. 15, NEW v \in Int32,
           Holds(bytes, p, Varint(Tag(number, VARINT)) \o Varint(v))
    PROVE  FieldAt(bytes, p) = [tag |-> Tag(number, VARINT), value |-> Varint(v),
                                next |-> p + 1 + VarintSize(v)]
<1>1. PICK tag, n : tag = Tag(number, VARINT) /\ n = VarintSize(v)
  OBVIOUS
<1>2. VARINT \in {VARINT, LEN}
  OBVIOUS
<1>3. tag \in Int32 /\ VarintSize(tag) = 1 /\ tag % 8 = VARINT /\ LEN # VARINT
  BY <1>1, <1>2, TagRead DEF LEN, VARINT
<1>4. /\ Varint(tag) \in Seq(Byte) /\ Len(Varint(tag)) = 1
      /\ Varint(v) \in Seq(Byte) /\ n \in 1 .. 10
  BY <1>1, <1>3, VarintTakes DEF Takes
<1>5. Holds(bytes, p, Varint(tag)) /\ Holds(bytes, p + 1, Varint(v))
  BY <1>1, <1>4, HoldsParts
<1>6. VarintEnd(bytes, p) = p /\ Slice(bytes, p, p) = Varint(tag)
  <2>1. p + 1 - 1 = p
    OBVIOUS
  <2> QED
    BY <1>3, <1>5, <2>1, VarintRead
<1>7. VarintEnd(bytes, p + 1) = p + n /\ Slice(bytes, p + 1, p + n) = Varint(v)
  <2>1. p + 1 + n - 1 = p + n /\ p + 1 \in Nat \ {0}
    BY <1>4
  <2> QED
    BY <1>1, <1>5, <2>1, VarintRead
<1>8. Int32Of(Varint(tag)) = tag
  BY <1>3, Int32RoundTrip
<1>9. FieldAt(bytes, p) = [tag |-> tag, value |-> Varint(v), next |-> p + n + 1]
  <2>1. PICK q : q = p + n
    OBVIOUS
  <2>2. VarintEnd(bytes, p + 1) = q /\ Slice(bytes, p + 1, q) = Varint(v)
    BY <1>7, <2>1
  <2>3. FieldAt(bytes, p) = [tag |-> tag, value |-> Varint(v), next |-> q + 1]
    BY <1>3, <1>6, <1>8, <2>2 DEF FieldAt
  <2> QED
    BY <2>1, <2>3
<1>10. p + n + 1 = p + 1 + n
  BY <1>4
<1> QED
  BY <1>1, <1>9, <1>10

LEMMA MessageFieldRead ==
    ASSUME NEW bytes \in Seq(Byte), NEW p \in Nat \ {0}, NEW number \in 1 .. 15,
           NEW body \in Seq(Byte), Len(body) \in Int32,
           Holds(bytes, p, MessageField(number, Len(body), body))
    PROVE  FieldAt(bytes, p) = [tag |-> Tag(number, LEN), value |-> body,
                                next |-> p + 1 + VarintSize(Len(body)) + Len(body)]
<1>1. PICK tag, k, n : tag = Tag(number, LEN) /\ k = Len(body) /\ n = VarintSize(k)
  OBVIOUS
<1>2. LEN \in {VARINT, LEN}
  OBVIOUS
<1>3. tag \in Int32 /\ VarintSize(tag) = 1 /\ tag % 8 = LEN /\ LEN # VARINT
  BY <1>1, <1>2, TagRead DEF LEN, VARINT
<1>4. k \in Nat /\ k \in Int32
  BY <1>1
<1>5. /\ Varint(tag) \in Seq(Byte) /\ Len(Varint(tag)) = 1
      /\ Varint(k) \in Seq(Byte) /\ Len(Varint(k)) = n /\ n \in 1 .. 10
  BY <1>1, <1>3, <1>4, VarintTakes DEF Takes
<1>6. Holds(bytes, p, Varint(tag) \o Varint(k) \o body)
  BY <1>1 DEF MessageField
<1>7. /\ Varint(tag) \o Varint(k) \in Seq(Byte) /\ Len(Varint(tag) \o Varint(k)) = 1 + n
  BY <1>5, Concatenation
<1>8. Holds(bytes, p, Varint(tag) \o Varint(k)) /\ Holds(bytes, p + (1 + n), body)
  BY <1>6, <1>7, HoldsParts
<1>9. Holds(bytes, p, Varint(tag)) /\ Holds(bytes, p + 1, Varint(k))
  BY <1>5, <1>8, HoldsParts
<1>10. VarintEnd(bytes, p) = p /\ Slice(bytes, p, p) = Varint(tag)
  <2>1. p + 1 - 1 = p
    OBVIOUS
  <2> QED
    BY <1>3, <1>9, <2>1, VarintRead
<1>11. VarintEnd(bytes, p + 1) = p + n /\ Slice(bytes, p + 1, p + n) = Varint(k)
  <2>1. p + 1 + n - 1 = p + n /\ p + 1 \in Nat \ {0}
    BY <1>5
  <2> QED
    BY <1>1, <1>4, <1>9, <2>1, VarintRead
<1>12. Int32Of(Varint(tag)) = tag /\ Int32Of(Varint(k)) = k
  BY <1>3, <1>4, Int32RoundTrip
<1>13. PICK q : q = p + n + 1
  OBVIOUS
<1>14. q \in Nat \ {0} /\ q = p + (1 + n) /\ q + k - 1 = p + n + k
  BY <1>4, <1>5, <1>13
<1>15. Slice(bytes, q, p + n + k) = body
  BY <1>1, <1>8, <1>14, SliceHeld
<1>16. k \in DOMAIN bytes \union {0}
  <2>1. q + k <= Len(bytes) + 1
    BY <1>1, <1>8, <1>14 DEF Holds
  <2>2. k <= Len(bytes)
    BY <1>4, <1>5, <1>13, <2>1
  <2> QED
    BY <1>4, <2>2
<1>17. FieldAt(bytes, p) = [tag |-> tag, value |-> body, next |-> p + n + k + 1]
  BY <1>3, <1>10, <1>11, <1>12, <1>13, <1>15, <1>16 DEF FieldAt
<1>18. p + n + k + 1 = p + 1 + n + k
  BY <1>4, <1>5
<1> QED
  BY <1>1, <1>17, <1>18

-----------------------------------------------------------------------------
(* What the engine reads of a key. *)
LEMMA ResponseFieldType ==
    ASSUME NEW r \in PetitionResponse, NEW field
    PROVE  SetPetitionResponseField(r, field) \in PetitionResponse
<1>1. PICK b \in BOOLEAN : b = BoolOf(field.value)
  BY DEF BoolOf
<1>2. \/ SetPetitionResponseField(r, field) = r
      \/ SetPetitionResponseField(r, field) = [r EXCEPT !.responded = b]
      \/ SetPetitionResponseField(r, field) = [r EXCEPT !.accepted = b]
  <2>1. Tag(1, VARINT) # Tag(2, VARINT)
    BY DEF Tag, VARINT
  <2> QED
    BY <1>1, <2>1 DEF SetPetitionResponseField
<1> QED
  BY <1>2 DEF PetitionResponse

ReadResponse(r, fields) == FoldLeft(SetPetitionResponseField, r, fields)

ResponseStepsOn(r, base, fields, n) ==
    /\ r \in [0 .. n -> PetitionResponse] /\ r[0] = base
    /\ \A i \in 1 .. n : r[i] = SetPetitionResponseField(r[i - 1], fields[i])
    /\ ReadResponse(base, fields) = r[n]

LEMMA ResponseSteps ==
    ASSUME NEW n \in Nat, NEW s, DOMAIN s = 1 .. n, NEW base \in PetitionResponse
    PROVE  \E r : ResponseStepsOn(r, base, s, n)
<1>1. PICK A : A = PetitionResponse
  OBVIOUS
<1>2. PICK g : g = [p \in (1 .. n) \X A |-> SetPetitionResponseField(p[2], s[p[1]])]
  OBVIOUS
<1>3. g \in [(1 .. n) \X A -> A]
  <2>1. \A p \in (1 .. n) \X A : SetPetitionResponseField(p[2], s[p[1]]) \in A
    BY <1>1, ResponseFieldType
  <2> QED
    BY <1>2, <2>1
<1>4. PICK folds \in [SUBSET (1 .. n) -> A] : LeftFoldsOn(folds, g, base, n)
  BY <1>1, <1>3, LeftFoldsExist
<1> DEFINE FoldOn(f) == f = [t \in SUBSET (1 .. n) |->
                              IF t = {} THEN base
                              ELSE SetPetitionResponseField(f[t \ {Max(t)}], s[Max(t)])]
           chosen == CHOOSE f : FoldOn(f)
<1>5. ASSUME NEW t \in SUBSET (1 .. n), t # {}
      PROVE  g[<<Max(t), folds[t \ {Max(t)}]>>] =
               SetPetitionResponseField(folds[t \ {Max(t)}], s[Max(t)])
  <2>1. Max(t) \in 1 .. n /\ folds[t \ {Max(t)}] \in A
    BY <1>5, MaxOfNumbers
  <2>2. <<Max(t), folds[t \ {Max(t)}]>> \in (1 .. n) \X A
    BY <2>1
  <2> QED
    BY <1>2, <2>2
<1>6. FoldOn(folds)
  BY <1>4, <1>5 DEF LeftFoldsOn
<1>7. FoldOn(chosen)
  <2> HIDE DEF FoldOn
  <2> QED BY <1>6
<1>8. ReadResponse(base, s) = chosen[1 .. n]
  BY DEF ReadResponse, FoldLeft, MapThenFoldSet
<1>9. PICK r : r = [i \in 0 .. n |-> chosen[1 .. i]]
  OBVIOUS
<1> HIDE DEF chosen
<1>10. r[0] = base
  <2>1. 1 .. 0 = {} /\ 0 \in 0 .. n
    OBVIOUS
  <2> QED
    BY <1>7, <1>9, <2>1
<1>11. ASSUME NEW i \in 1 .. n
       PROVE  r[i] = SetPetitionResponseField(r[i - 1], s[i])
  <2>1. i \in 0 .. n /\ i - 1 \in 0 .. n /\ i \in 1 .. i /\ 1 .. i \in SUBSET (1 .. n)
    OBVIOUS
  <2>2. chosen[1 .. i] = SetPetitionResponseField(chosen[(1 .. i) \ {Max(1 .. i)}], s[Max(1 .. i)])
    BY <1>7, <2>1
  <2> QED
    BY <1>9, <2>1, <2>2, MaxOfInterval
<1> DEFINE T == {i \in 0 .. n : r[i] \in PetitionResponse}
<1>12. 0 \in T
  BY <1>10
<1>13. \A i \in 1 .. n : i - 1 \in T => i \in T
  BY <1>11, ResponseFieldType
<1> HIDE DEF T
<1>14. \A i \in 0 .. n : i \in T
  BY <1>12, <1>13, UpToN
<1>15. r \in [0 .. n -> PetitionResponse]
  BY <1>9, <1>14 DEF T
<1>16. ReadResponse(base, s) = r[n]
  BY <1>8, <1>9
<1>17. ResponseStepsOn(r, base, s, n)
  BY <1>10, <1>11, <1>15, <1>16 DEF ResponseStepsOn
<1> QED
  BY <1>17

(* An action of one field. *)
ReadAction(a, fields) == FoldLeft(SetUIActionField, a, fields)

LEMMA ActionOfOneField ==
    ASSUME NEW a, NEW s, DOMAIN s = 1 .. 1
    PROVE  ReadAction(a, s) = SetUIActionField(a, s[1])
<1> DEFINE FoldOn(f) == f = [t \in SUBSET (1 .. 1) |->
                              IF t = {} THEN a
                              ELSE SetUIActionField(f[t \ {Max(t)}], s[Max(t)])]
           chosen == CHOOSE f : FoldOn(f)
<1>1. \A t \in SUBSET (1 .. 1) : t # {} => t = 1 .. 1 /\ t \ {Max(t)} = {} /\ Max(t) = 1
  <2>1. 1 .. 1 = {1} /\ 1 \in Nat /\ 1 \in 1 .. 1 /\ 1 .. (1 - 1) = {}
    OBVIOUS
  <2>2. Max(1 .. 1) = 1
    BY <2>1, MaxOfInterval
  <2> QED
    BY <2>1, <2>2
<1>2. PICK f : f = [t \in SUBSET (1 .. 1) |-> IF t = {} THEN a ELSE SetUIActionField(a, s[1])]
  OBVIOUS
<1>3. f[{}] = a
  BY <1>2
<1>4. FoldOn(f)
  <2>1. \A t \in SUBSET (1 .. 1) : t # {} =>
          SetUIActionField(f[t \ {Max(t)}], s[Max(t)]) = SetUIActionField(a, s[1])
    BY <1>1, <1>3
  <2> QED
    BY <1>2, <2>1
<1>5. FoldOn(chosen)
  <2> HIDE DEF FoldOn
  <2> QED BY <1>4
<1>6. ReadAction(a, s) = chosen[1 .. 1]
  BY DEF ReadAction, FoldLeft, MapThenFoldSet
<1> HIDE DEF chosen
<1>7. chosen[{}] = a
  BY <1>5
<1>8. 1 .. 1 # {} /\ 1 .. 1 \in SUBSET (1 .. 1)
  OBVIOUS
<1>9. chosen[1 .. 1] = SetUIActionField(chosen[(1 .. 1) \ {Max(1 .. 1)}], s[Max(1 .. 1)])
  BY <1>5, <1>8
<1> QED
  BY <1>1, <1>6, <1>7, <1>8, <1>9

LEMMA EntriesOfConcatenation ==
    ASSUME NEW S, NEW s \in Seq(S), NEW t \in Seq(S)
    PROVE  /\ \A i \in 1 .. Len(s) : (s \o t)[i] = s[i]
           /\ \A i \in 1 .. Len(t) : (s \o t)[Len(s) + i] = t[i]
OBVIOUS

LEMMA Associative ==
    ASSUME NEW S, NEW s \in Seq(S), NEW t \in Seq(S), NEW u \in Seq(S)
    PROVE  (s \o t) \o u = s \o (t \o u)
<1>1. PICK a, b, c : a = Len(s) /\ b = Len(t) /\ c = Len(u)
  OBVIOUS
<1>2. a \in Nat /\ b \in Nat /\ c \in Nat
  BY <1>1
<1>3. PICK st, tu : st = s \o t /\ tu = t \o u
  OBVIOUS
<1>4. /\ st \in Seq(S) /\ Len(st) = a + b /\ tu \in Seq(S) /\ Len(tu) = b + c
      /\ \A i \in 1 .. a : st[i] = s[i]
      /\ \A i \in 1 .. b : st[a + i] = t[i] /\ tu[i] = t[i]
      /\ \A i \in 1 .. c : tu[b + i] = u[i]
  BY <1>1, <1>3
<1>5. PICK x, y : x = st \o u /\ y = s \o tu
  OBVIOUS
<1>6. /\ x \in Seq(S) /\ Len(x) = a + b + c /\ y \in Seq(S) /\ Len(y) = a + (b + c)
      /\ \A i \in 1 .. a + b : x[i] = st[i]
      /\ \A i \in 1 .. c : x[a + b + i] = u[i]
      /\ \A i \in 1 .. a : y[i] = s[i]
      /\ \A i \in 1 .. b + c : y[a + i] = tu[i]
  <2>1. PICK d, e : d = a + b /\ e = b + c
    OBVIOUS
  <2>2. d \in Nat /\ e \in Nat /\ Len(st) = d /\ Len(tu) = e
    BY <1>2, <1>4, <2>1
  <2>3. /\ x \in Seq(S) /\ Len(x) = d + c
        /\ \A i \in 1 .. d : x[i] = st[i]
        /\ \A i \in 1 .. c : x[d + i] = u[i]
    <3>1. st \in Seq(S) /\ Len(st) = d /\ Len(u) = c
      BY <1>1, <1>4, <2>2
    <3>2. x \in Seq(S) /\ Len(x) = d + c
      BY <1>5, <3>1, Concatenation
    <3>3. /\ \A i \in 1 .. Len(st) : x[i] = st[i]
          /\ \A i \in 1 .. Len(u) : x[Len(st) + i] = u[i]
      BY <1>5, <3>1, EntriesOfConcatenation
    <3> QED
      BY <3>1, <3>2, <3>3
  <2>4. /\ y \in Seq(S) /\ Len(y) = a + e
        /\ \A i \in 1 .. a : y[i] = s[i]
        /\ \A i \in 1 .. e : y[a + i] = tu[i]
    <3>1. tu \in Seq(S) /\ Len(tu) = e /\ Len(s) = a
      BY <1>1, <1>4, <2>2
    <3>2. y \in Seq(S) /\ Len(y) = a + e
      BY <1>5, <3>1, Concatenation
    <3>3. /\ \A i \in 1 .. Len(s) : y[i] = s[i]
          /\ \A i \in 1 .. Len(tu) : y[Len(s) + i] = tu[i]
      <4>1. tu \in Seq(S)
        BY <3>1
      <4>2. /\ \A i \in 1 .. Len(s) : (s \o tu)[i] = s[i]
            /\ \A i \in 1 .. Len(tu) : (s \o tu)[Len(s) + i] = tu[i]
        BY <4>1, EntriesOfConcatenation
      <4> QED
        BY <1>5, <4>2
    <3> QED
      BY <3>1, <3>2, <3>3
  <2> QED
    BY <2>1, <2>3, <2>4
<1>7. \A i \in 1 .. a : x[i] = y[i]
  <2>1. \A i \in 1 .. a : i \in 1 .. a + b
    BY <1>2
  <2> QED
    BY <1>4, <1>6, <2>1
<1>8. \A i \in 1 .. b : x[a + i] = y[a + i]
  <2>1. \A i \in 1 .. b : a + i \in 1 .. a + b /\ i \in 1 .. b + c
    BY <1>2
  <2> QED
    BY <1>4, <1>6, <2>1
<1>9. \A i \in 1 .. c : x[a + b + i] = y[a + b + i]
  <2>1. \A i \in 1 .. c : b + i \in 1 .. b + c /\ a + (b + i) = a + b + i
    BY <1>2
  <2>2. \A i \in 1 .. c : y[a + b + i] = tu[b + i]
    BY <1>6, <2>1
  <2> QED
    BY <1>4, <1>6, <2>2
<1>10. \A i \in 1 .. a + b + c : x[i] = y[i]
  <2>1. ASSUME NEW i \in 1 .. a + b + c
        PROVE  x[i] = y[i]
    <3>1. CASE i <= a
      BY <1>2, <1>7, <3>1
    <3>2. CASE a < i /\ i <= a + b
      <4>1. i - a \in 1 .. b /\ a + (i - a) = i
        BY <1>2, <3>2
      <4> QED
        BY <1>8, <4>1
    <3>3. CASE a + b < i
      <4>1. i - (a + b) \in 1 .. c /\ a + b + (i - (a + b)) = i
        BY <1>2, <3>3
      <4> QED
        BY <1>9, <4>1
    <3> QED
      BY <1>2, <3>1, <3>2, <3>3
  <2> QED
    BY <2>1
<1>11. Len(y) = a + b + c
  BY <1>2, <1>6
<1>12. x = y
  BY <1>6, <1>10, <1>11, SameEntries
<1> QED
  BY <1>3, <1>5, <1>12

LEMMA HoldsItself ==
    ASSUME NEW bytes \in Seq(Byte)
    PROVE  Holds(bytes, 1, bytes)
<1>1. \A i \in 1 .. Len(bytes) : 1 + i - 1 = i
  OBVIOUS
<1>2. 1 + Len(bytes) <= Len(bytes) + 1
  OBVIOUS
<1> QED
  BY <1>1, <1>2 DEF Holds

(* A flag is two bytes. *)
Flag(number, v) == Varint(Tag(number, VARINT)) \o Varint(v)

LEMMA FlagRead ==
    /\ \A number \in 1 .. 15 : \A v \in {0, 1} : Takes(Flag(number, v), 2)
    /\ \A v \in {0, 1} : v \in Int32 /\ VarintSize(v) = 1
    /\ BoolOf(Varint(1)) = TRUE /\ BoolOf(Varint(0)) = FALSE
<1>1. ASSUME NEW v \in {0, 1}
      PROVE  v \in Int32 /\ VarintSize(v) = 1
  BY DEF Int32, VarintSize
<1>2. ASSUME NEW number \in 1 .. 15, NEW v \in {0, 1}
      PROVE  Takes(Flag(number, v), 2)
  <2>1. VARINT \in {VARINT, LEN}
    OBVIOUS
  <2>2. Takes(Varint(Tag(number, VARINT)), 1) /\ Takes(Varint(v), 1)
    BY <1>1, <2>1, TagTakes, VarintTakes
  <2>3. Takes(Flag(number, v), 1 + 1)
    BY <2>2, PartsTake DEF Flag
  <2>4. 1 + 1 = 2
    OBVIOUS
  <2> QED
    BY <2>3, <2>4
<1>3. Int32Of(Varint(1)) = 1 /\ Int32Of(Varint(0)) = 0
  BY <1>1, Int32RoundTrip
<1>4. BoolOf(Varint(1)) = TRUE /\ BoolOf(Varint(0)) = FALSE
  <2>1. 1 # 0
    OBVIOUS
  <2> QED
    BY <1>3, <2>1 DEF BoolOf
<1> QED
  BY <1>1, <1>2, <1>4

(* The answer in a petition's response. *)
LEMMA ResponseRead ==
    ASSUME NEW v \in {0, 1}, NEW body, body = Flag(1, 1) \o Flag(2, v)
    PROVE  /\ Takes(body, 4) /\ WellFormed(body)
           /\ ParsePetitionResponse(NewPetitionResponse, body) =
                [responded |-> TRUE, accepted |-> BoolOf(Varint(v))]
<1>1. 1 \in 1 .. 15 /\ 2 \in 1 .. 15 /\ 1 \in {0, 1}
  OBVIOUS
<1>2. PICK f, g : f = Flag(1, 1) /\ g = Flag(2, v)
  OBVIOUS
<1>3. Takes(f, 2) /\ Takes(g, 2) /\ v \in Int32 /\ VarintSize(v) = 1 /\ 1 \in Int32 /\ VarintSize(1) = 1
  BY <1>1, <1>2, FlagRead
<1>4. Takes(body, 4)
  <2>1. Takes(body, 2 + 2)
    BY <1>2, <1>3, PartsTake
  <2>2. 2 + 2 = 4
    OBVIOUS
  <2> QED
    BY <2>1, <2>2
<1>5. body \in Seq(Byte) /\ f \in Seq(Byte) /\ Len(f) = 2 /\ g \in Seq(Byte)
  BY <1>3, <1>4 DEF Takes
<1>6. Len(body) = 4
  BY <1>4 DEF Takes
<1>7. Holds(body, 1, f) /\ Holds(body, 3, g)
  <2>1. Holds(body, 1, f \o g)
    BY <1>2, <1>5, HoldsItself
  <2>2. 1 \in Nat \ {0} /\ 1 + 2 = 3
    OBVIOUS
  <2>3. Holds(body, 1, f) /\ Holds(body, 1 + Len(f), g)
    BY <1>5, <2>1, <2>2, HoldsParts
  <2> QED
    BY <1>5, <2>2, <2>3
<1>8. FieldAt(body, 1) = [tag |-> Tag(1, VARINT), value |-> Varint(1), next |-> 3]
  <2>1. PICK p, k, w : p = 1 /\ k = 1 /\ w = 1
    OBVIOUS
  <2>2. p \in Nat \ {0} /\ k \in 1 .. 15 /\ w \in Int32 /\ p + 1 + VarintSize(w) = 3
    BY <1>3, <2>1
  <2>3. Holds(body, p, Varint(Tag(k, VARINT)) \o Varint(w))
    BY <1>2, <1>7, <2>1 DEF Flag
  <2>4. FieldAt(body, p) = [tag |-> Tag(k, VARINT), value |-> Varint(w), next |-> p + 1 + VarintSize(w)]
    BY <1>5, <2>2, <2>3, VarintFieldRead
  <2> QED
    BY <2>1, <2>2, <2>4
<1>9. FieldAt(body, 3) = [tag |-> Tag(2, VARINT), value |-> Varint(v), next |-> 5]
  <2>1. 3 \in Nat \ {0} /\ 3 + 1 + 1 = 5
    OBVIOUS
  <2>2. Holds(body, 3, Varint(Tag(2, VARINT)) \o Varint(v))
    BY <1>2, <1>7 DEF Flag
  <2>3. FieldAt(body, 3) = [tag |-> Tag(2, VARINT), value |-> Varint(v), next |-> 3 + 1 + VarintSize(v)]
    BY <1>1, <1>3, <1>5, <2>1, <2>2, VarintFieldRead
  <2> QED
    BY <1>3, <2>1, <2>3
<1>10. PICK at : at = [i \in 0 .. 2 |-> 2 * i + 1]
  OBVIOUS
<1>11. at[0] = 1 /\ at[1] = 3 /\ at[2] = 5 /\ at \in [0 .. 2 -> Nat]
  BY <1>10
<1>12. FieldsStand(body, 2, at)
  <2>1. FieldAt(body, 1).next = 3 /\ FieldAt(body, 3).next = 5
    BY <1>8, <1>9
  <2>2. 1 <= Len(body) /\ 3 <= Len(body) /\ 5 > Len(body)
    BY <1>6
  <2>3. \A i \in 1 .. 2 : at[i - 1] <= Len(body) /\ FieldAt(body, at[i - 1]).next = at[i]
    <3>1. ASSUME NEW i \in 1 .. 2
          PROVE  at[i - 1] <= Len(body) /\ FieldAt(body, at[i - 1]).next = at[i]
      <4>1. (i = 1 /\ i - 1 = 0) \/ (i = 2 /\ i - 1 = 1)
        OBVIOUS
      <4>2. \/ at[i - 1] = 1 /\ at[i] = 3
            \/ at[i - 1] = 3 /\ at[i] = 5
        BY <1>11, <4>1
      <4> QED
        BY <2>1, <2>2, <4>2
    <3> QED
      BY <3>1
  <2> QED
    BY <1>11, <2>2, <2>3 DEF FieldsStand
<1>13. PICK fields : fields = Fields(body)
  OBVIOUS
<1>14. fields = [i \in 1 .. 2 |-> FieldAt(body, at[i - 1])]
  <2>1. 2 \in Nat
    OBVIOUS
  <2> QED
    BY <1>5, <1>12, <1>13, <2>1, FieldsInTurn
<1>15. /\ DOMAIN fields = 1 .. 2
       /\ fields[1] = FieldAt(body, 1) /\ fields[2] = FieldAt(body, 3)
  <2>1. fields[1] = FieldAt(body, at[0]) /\ fields[2] = FieldAt(body, at[1]) /\ DOMAIN fields = 1 .. 2
    BY <1>14
  <2> QED
    BY <1>11, <2>1
<1>16. WellFormed(body)
  <2>1. ASSUME NEW i \in DOMAIN fields
        PROVE  fields[i].next <= Len(body) + 1
    <3>1. fields[i].next = 3 \/ fields[i].next = 5
      <4>1. i = 1 \/ i = 2
        BY <1>15
      <4> QED
        BY <1>8, <1>9, <1>15, <4>1
    <3> QED
      BY <1>6, <3>1
  <2> QED
    BY <1>13, <2>1 DEF WellFormed
<1>17. NewPetitionResponse \in PetitionResponse /\ 2 \in Nat
  BY DEF NewPetitionResponse, PetitionResponse
<1>18. PICK n, r : n = 2 /\ ResponseStepsOn(r, NewPetitionResponse, fields, n)
  <2>1. PICK n \in Nat : n = 2
    OBVIOUS
  <2>2. DOMAIN fields = 1 .. n
    BY <1>15, <2>1
  <2> QED
    BY <1>17, <2>1, <2>2, ResponseSteps
<1>19. /\ r[1] = SetPetitionResponseField(NewPetitionResponse, fields[1])
       /\ r[2] = SetPetitionResponseField(r[1], fields[2])
  <2>1. 1 \in 1 .. 2 /\ 1 - 1 = 0 /\ 2 \in 1 .. 2 /\ 2 - 1 = 1
    OBVIOUS
  <2> QED
    BY <1>18, <2>1 DEF ResponseStepsOn
<1>20. Tag(1, VARINT) # Tag(2, VARINT)
  BY DEF Tag, VARINT
<1>21. r[1] = [NewPetitionResponse EXCEPT !.responded = BoolOf(Varint(1))]
  <2>1. fields[1].tag = Tag(1, VARINT) /\ fields[1].value = Varint(1)
    BY <1>8, <1>15
  <2> QED
    BY <1>19, <1>20, <2>1 DEF SetPetitionResponseField
<1>22. r[2] = [r[1] EXCEPT !.accepted = BoolOf(Varint(v))]
  <2>1. fields[2].tag = Tag(2, VARINT) /\ fields[2].value = Varint(v)
    BY <1>9, <1>15
  <2> QED
    BY <1>19, <1>20, <2>1 DEF SetPetitionResponseField
<1>23. r[2] = [responded |-> TRUE, accepted |-> BoolOf(Varint(v))]
  BY <1>21, <1>22, FlagRead DEF NewPetitionResponse
<1>24. ReadResponse(NewPetitionResponse, fields) = r[2]
  BY <1>18 DEF ResponseStepsOn
<1> QED
  BY <1>4, <1>13, <1>16, <1>23, <1>24 DEF ParsePetitionResponse, ReadResponse

(* A message of one field. *)
LEMMA OneField ==
    ASSUME NEW bytes \in Seq(Byte), NEW next, Len(bytes) # 0,
           next = Len(bytes) + 1, FieldAt(bytes, 1).next = next
    PROVE  DOMAIN Fields(bytes) = 1 .. 1 /\ Fields(bytes)[1] = FieldAt(bytes, 1)
<1>1. PICK n \in Nat : n = 1
  OBVIOUS
<1>2. PICK at : at = [i \in 0 .. n |-> IF i = 0 THEN 1 ELSE next]
  OBVIOUS
<1>3. at[0] = 1 /\ at[1] = next /\ next \in Nat /\ at \in [0 .. n -> Nat]
  BY <1>1, <1>2
<1>4. FieldAt(bytes, 1).next = next /\ 1 <= Len(bytes) /\ next > Len(bytes)
  OBVIOUS
<1>5. \A i \in 1 .. n : at[i - 1] <= Len(bytes) /\ FieldAt(bytes, at[i - 1]).next = at[i]
  <2>1. ASSUME NEW i \in 1 .. n
        PROVE  at[i - 1] <= Len(bytes) /\ FieldAt(bytes, at[i - 1]).next = at[i]
    <3>1. i = 1 /\ i - 1 = 0
      BY <1>1
    <3>2. at[i - 1] = 1 /\ at[i] = next
      BY <1>3, <3>1
    <3> QED
      BY <1>4, <3>2
  <2> QED
    BY <2>1
<1>6. at[n] > Len(bytes)
  <2>1. at[n] = next
    BY <1>1, <1>3
  <2> QED
    BY <1>4, <2>1
<1>7. FieldsStand(bytes, n, at)
  BY <1>3, <1>5, <1>6 DEF FieldsStand
<1>8. Fields(bytes) = [i \in 1 .. n |-> FieldAt(bytes, at[i - 1])]
  BY <1>7, FieldsInTurn
<1>9. 1 \in 1 .. n /\ at[1 - 1] = 1
  BY <1>1, <1>3
<1> QED
  BY <1>1, <1>8, <1>9

(* An answer as send_action encodes it, and a request to save. *)
LEMMA AnswerRead ==
    ASSUME NEW v \in {0, 1}, NEW body, body = Flag(1, 1) \o Flag(2, v),
           NEW bytes, bytes = EncodeBytes(1, body) \o << >>
    PROVE  /\ Takes(bytes, 6) /\ ParsesAsUIAction(bytes)
           /\ ParseUIAction(NewUIAction, bytes) =
                [petition_response |-> <<[responded |-> TRUE, accepted |-> BoolOf(Varint(v))]>>,
                 save_game |-> FALSE]
<1>1. /\ Takes(body, 4) /\ WellFormed(body)
      /\ ParsePetitionResponse(NewPetitionResponse, body) =
           [responded |-> TRUE, accepted |-> BoolOf(Varint(v))]
  BY ResponseRead
<1>2. body \in Seq(Byte) /\ Len(body) = 4
  BY <1>1 DEF Takes
<1>3. PICK tag, number, size : tag = Tag(1, LEN) /\ number = 1 /\ size = 4
  OBVIOUS
<1>4. /\ number \in 1 .. 15 /\ tag = Tag(number, LEN) /\ size \in Nat /\ size \in Int32
      /\ VarintSize(size) = 1 /\ size <= 16383 /\ size = Len(body) /\ size \in 0 .. 127
  BY <1>2, <1>3 DEF Int32, VarintSize
<1>5. Takes(Varint(tag), 1) /\ Takes(Varint(size), 1)
  BY <1>4, TagTakes, VarintTakes
<1>6. bytes = MessageField(number, size, body)
  <2>1. Varint(tag) \in Seq(Byte) /\ Varint(size) \in Seq(Byte)
    BY <1>5 DEF Takes
  <2>2. bytes = (Varint(tag) \o (Varint(size) \o body)) \o << >>
    BY <1>3, <1>4 DEF EncodeBytes, EncodeField
  <2>3. (Varint(tag) \o Varint(size)) \o body = Varint(tag) \o (Varint(size) \o body)
    <3>1. PICK s, t : s = Varint(tag) /\ t = Varint(size)
      OBVIOUS
    <3>2. s \in Seq(Byte) /\ t \in Seq(Byte)
      BY <2>1, <3>1
    <3>3. PICK u : u = body
      OBVIOUS
    <3>4. u \in Seq(Byte)
      BY <1>2, <3>3
    <3>5. (s \o t) \o u = s \o (t \o u)
      <4> HIDE <3>3
      <4> QED
        BY ONLY <3>2, <3>4, Associative
    <3> QED
      BY <3>1, <3>3, <3>5
  <2>4. MessageField(number, size, body) = (Varint(tag) \o Varint(size)) \o body
    BY <1>4 DEF MessageField
  <2>5. PICK s : s = (Varint(tag) \o Varint(size)) \o body
    OBVIOUS
  <2>6. s \in Seq(Byte)
    <3>1. Varint(tag) \o Varint(size) \in Seq(Byte)
      BY <2>1, Concatenation
    <3> QED
      BY <1>2, <2>5, <3>1, Concatenation
  <2>7. s \o << >> = s
    BY <2>6
  <2> QED
    BY <2>2, <2>3, <2>4, <2>5, <2>7
<1>7. Takes(bytes, 6)
  <2>1. Takes(MessageField(number, size, body), MessageFieldSize(size))
    BY <1>1, <1>3, <1>4, MessageFieldTakes
  <2>2. MessageFieldSize(size) = 6
    BY <1>3, <1>4 DEF MessageFieldSize
  <2> QED
    BY <1>6, <2>1, <2>2
<1>8. bytes \in Seq(Byte) /\ Len(bytes) = 6
  BY <1>7 DEF Takes
<1>9. FieldAt(bytes, 1) = [tag |-> tag, value |-> body, next |-> 7]
  <2>1. PICK p : p = 1
    OBVIOUS
  <2>2. p \in Nat \ {0} /\ p + 1 + VarintSize(size) + size = 7
    BY <1>3, <1>4, <2>1
  <2>3. Holds(bytes, p, MessageField(number, Len(body), body))
    BY <1>4, <1>6, <1>8, <2>1, HoldsItself
  <2>4. FieldAt(bytes, p) = [tag |-> Tag(number, LEN), value |-> body,
                             next |-> p + 1 + VarintSize(Len(body)) + Len(body)]
    <3>1. p \in Nat \ {0} /\ number \in 1 .. 15 /\ Len(body) \in Int32
      BY <1>4, <2>2
    <3> QED
      BY <1>2, <1>8, <2>3, <3>1, MessageFieldRead
  <2> QED
    BY <1>4, <2>1, <2>2, <2>4
<1>10. PICK fields : fields = Fields(bytes)
  OBVIOUS
<1>11. DOMAIN fields = 1 .. 1 /\ fields[1] = [tag |-> tag, value |-> body, next |-> 7]
  <2>1. FieldAt(bytes, 1).next = 7 /\ 7 = Len(bytes) + 1 /\ Len(bytes) # 0
    <3>1. FieldAt(bytes, 1).next = 7
      BY <1>9
    <3>2. PICK L : L = Len(bytes)
      OBVIOUS
    <3>3. 7 = L + 1 /\ L # 0
      BY <1>8, <3>2
    <3> QED
      BY <3>1, <3>2, <3>3
  <2>2. DOMAIN fields = 1 .. 1 /\ fields[1] = FieldAt(bytes, 1)
    BY <1>8, <1>10, <2>1, OneField
  <2> QED
    BY <1>9, <2>2
<1>12. ParsesAsUIAction(bytes)
  <2>1. \A i \in DOMAIN fields : fields[i] = fields[1]
    BY <1>11
  <2>2. fields[1].next <= Len(bytes) + 1
    <3>1. fields[1].next = 7
      BY <1>11
    <3>2. PICK L : L = Len(bytes)
      OBVIOUS
    <3>3. 7 <= L + 1
      BY <1>8, <3>2
    <3> QED
      BY <3>1, <3>2, <3>3
  <2>3. WellFormed(bytes)
    BY <1>10, <2>1, <2>2 DEF WellFormed
  <2>4. \A i \in DOMAIN fields : WellFormed(fields[i].value)
    <3>1. fields[1].value = body
      BY <1>11
    <3>2. \A i \in DOMAIN fields : fields[i].value = body
      BY <2>1, <3>1
    <3> QED
      BY <1>1, <3>2
  <2> QED
    BY <1>10, <2>3, <2>4 DEF ParsesAsUIAction
<1>13. ParseUIAction(NewUIAction, bytes) = SetUIActionField(NewUIAction, fields[1])
  BY <1>10, <1>11, ActionOfOneField DEF ParseUIAction, ReadAction
<1>14. SetUIActionField(NewUIAction, fields[1]) =
         [NewUIAction EXCEPT !.petition_response =
             <<ParsePetitionResponse(NewPetitionResponse, body)>>]
  <2>1. fields[1].tag = Tag(1, LEN) /\ fields[1].value = body
    BY <1>3, <1>11
  <2>2. Tag(1, LEN) # Tag(2, VARINT)
    BY DEF Tag, LEN, VARINT
  <2>3. Mutable(NewUIAction.petition_response, NewPetitionResponse) = NewPetitionResponse
    BY DEF Mutable, NewUIAction
  <2> QED
    BY <2>1, <2>2, <2>3 DEF SetUIActionField
<1> QED
  BY <1>1, <1>7, <1>12, <1>13, <1>14 DEF NewUIAction

LEMMA SaveRead ==
    ASSUME NEW bytes, bytes = << >> \o Flag(2, 1)
    PROVE  /\ Takes(bytes, 2) /\ ParsesAsUIAction(bytes)
           /\ ParseUIAction(NewUIAction, bytes) = [petition_response |-> << >>, save_game |-> TRUE]
<1>1. PICK tag, number, v : tag = Tag(2, VARINT) /\ number = 2 /\ v = 1
  OBVIOUS
<1>2. /\ number \in 1 .. 15 /\ tag = Tag(number, VARINT) /\ v \in {0, 1} /\ v \in Int32
      /\ VarintSize(v) = 1 /\ Takes(Flag(number, v), 2) /\ BoolOf(Varint(v)) = TRUE
  BY <1>1, FlagRead
<1>3. bytes = Flag(number, v)
  <2>1. Flag(number, v) \in Seq(Byte)
    BY <1>2 DEF Takes
  <2> QED
    BY <1>1, <2>1
<1>4. bytes \in Seq(Byte) /\ Len(bytes) = 2 /\ Takes(bytes, 2)
  BY <1>2, <1>3 DEF Takes
<1>5. FieldAt(bytes, 1) = [tag |-> tag, value |-> Varint(v), next |-> 3]
  <2>1. PICK p : p = 1
    OBVIOUS
  <2>2. p \in Nat \ {0} /\ p + 1 + VarintSize(v) = 3
    BY <1>2, <2>1
  <2>3. Holds(bytes, p, Varint(Tag(number, VARINT)) \o Varint(v))
    BY <1>3, <1>4, <2>1, HoldsItself DEF Flag
  <2>4. FieldAt(bytes, p) = [tag |-> Tag(number, VARINT), value |-> Varint(v),
                             next |-> p + 1 + VarintSize(v)]
    BY <1>2, <1>4, <2>2, <2>3, VarintFieldRead
  <2> QED
    BY <1>2, <2>1, <2>2, <2>4
<1>6. PICK fields : fields = Fields(bytes)
  OBVIOUS
<1>7. DOMAIN fields = 1 .. 1 /\ fields[1] = [tag |-> tag, value |-> Varint(v), next |-> 3]
  <2>1. FieldAt(bytes, 1).next = 3 /\ 3 = Len(bytes) + 1 /\ Len(bytes) # 0
    <3>1. FieldAt(bytes, 1).next = 3
      BY <1>5
    <3>2. PICK L : L = Len(bytes)
      OBVIOUS
    <3>3. 3 = L + 1 /\ L # 0
      BY <1>4, <3>2
    <3> QED
      BY <3>1, <3>2, <3>3
  <2>2. DOMAIN fields = 1 .. 1 /\ fields[1] = FieldAt(bytes, 1)
    BY <1>4, <1>6, <2>1, OneField
  <2> QED
    BY <1>5, <2>2
<1>8. Tag(1, LEN) # Tag(2, VARINT)
  BY DEF Tag, LEN, VARINT
<1>9. ParsesAsUIAction(bytes)
  <2>1. \A i \in DOMAIN fields : fields[i] = fields[1]
    BY <1>7
  <2>2. fields[1].next <= Len(bytes) + 1
    <3>1. fields[1].next = 3
      BY <1>7
    <3>2. PICK L : L = Len(bytes)
      OBVIOUS
    <3>3. 3 <= L + 1
      BY <1>4, <3>2
    <3> QED
      BY <3>1, <3>2, <3>3
  <2>3. WellFormed(bytes)
    BY <1>6, <2>1, <2>2 DEF WellFormed
  <2>4. \A i \in DOMAIN fields : fields[i].tag # Tag(1, LEN)
    BY <1>1, <1>7, <1>8, <2>1
  <2> QED
    BY <1>6, <2>3, <2>4 DEF ParsesAsUIAction
<1>10. ParseUIAction(NewUIAction, bytes) = SetUIActionField(NewUIAction, fields[1])
  BY <1>6, <1>7, ActionOfOneField DEF ParseUIAction, ReadAction
<1>11. SetUIActionField(NewUIAction, fields[1]) = [NewUIAction EXCEPT !.save_game = BoolOf(Varint(v))]
  <2>1. fields[1].tag = Tag(2, VARINT) /\ fields[1].value = Varint(v)
    BY <1>1, <1>7
  <2> QED
    BY <1>8, <2>1 DEF SetUIActionField
<1> QED
  BY <1>2, <1>4, <1>9, <1>10, <1>11 DEF NewUIAction

-----------------------------------------------------------------------------
(* An action is copied whole, whatever the mailbox held.                     *)
LEMMA ActionCopied ==
    ASSUME NEW response \in PetitionResponse, NEW save \in BOOLEAN, NEW action,
           \/ action = [petition_response |-> << >>, save_game |-> save]
           \/ action = [petition_response |-> <<response>>, save_game |-> save],
           NEW to \in UIActionMessage
    PROVE  action \in UIActionMessage /\ CopyUIAction(to, action) = action
<1>1. /\ DOMAIN response = {"responded", "accepted"}
      /\ response.responded \in BOOLEAN /\ response.accepted \in BOOLEAN
      /\ response = [responded |-> response.responded, accepted |-> response.accepted]
  BY DEF PetitionResponse
<1>2. << >> \in Optional(PetitionResponse) /\ <<response>> \in Optional(PetitionResponse)
  BY DEF Optional
<1>3. action \in UIActionMessage
  BY <1>2 DEF UIActionMessage
<1>4. PICK cleared : cleared = ClearUIAction(to)
  OBVIOUS
<1>5. cleared.petition_response = << >> /\ cleared.save_game = FALSE
  BY <1>4 DEF ClearUIAction, UIActionMessage
<1>6. CopyUIAction(to, action) = MergeUIAction(cleared, action)
  BY <1>4 DEF CopyUIAction
<1>7. CASE action = [petition_response |-> << >>, save_game |-> save]
  <2>1. action.petition_response = << >> /\ action.save_game = save
    BY <1>7
  <2>2. (action.save_game \/ cleared.save_game) = save
    BY <1>5, <2>1, Zenon
  <2>3. MergeUIAction(cleared, action) =
          [petition_response |-> << >>, save_game |-> (action.save_game \/ cleared.save_game)]
    BY <1>5, <2>1 DEF MergeUIAction
  <2> QED
    BY <1>3, <1>6, <1>7, <2>2, <2>3
<1>8. CASE action = [petition_response |-> <<response>>, save_game |-> save]
  <2>1. action.petition_response = <<response>> /\ action.save_game = save
    BY <1>8
  <2>2. (action.save_game \/ cleared.save_game) = save
    BY <1>5, <2>1, Zenon
  <2>3. action.petition_response # << >> /\ action.petition_response[1] = response
    BY <2>1
  <2>4. Mutable(cleared.petition_response, NewPetitionResponse) = NewPetitionResponse
    BY <1>5 DEF Mutable
  <2>5. MergePetitionResponse(NewPetitionResponse, response) = response
    <3>1. NewPetitionResponse.responded = FALSE /\ NewPetitionResponse.accepted = FALSE
      BY DEF NewPetitionResponse
    <3>2. (response.responded \/ NewPetitionResponse.responded) = response.responded
      BY <3>1, <1>1, Zenon
    <3>3. (response.accepted \/ NewPetitionResponse.accepted) = response.accepted
      BY <3>1, <1>1, Zenon
    <3> QED
      BY <1>1, <3>2, <3>3, Zenon DEF MergePetitionResponse
  <2>6. MergeUIAction(cleared, action) =
          [petition_response |-> <<response>>,
           save_game |-> (action.save_game \/ cleared.save_game)]
    BY <2>3, <2>4, <2>5 DEF MergeUIAction
  <2> QED
    BY <1>3, <1>6, <1>8, <2>2, <2>6
<1> QED
  BY <1>7, <1>8

(* What the engine reads of a key. *)
LEMMA KeyRead ==
    ASSUME NEW key \in {"a", "r", "s"}, NEW bytes, bytes = EncodeKey(key),
           NEW action, action = ParseUIAction(NewUIAction, bytes),
           NEW to \in UIActionMessage
    PROVE  /\ bytes \in Seq(Byte) /\ Len(bytes) \in 1 .. 6 /\ ParsesAsUIAction(bytes)
           /\ action \in UIActionMessage /\ CopyUIAction(to, action) = action
           /\ ActionRead(action) = Meaning(key)
<1>1. CASE key = "s"
  <2>1. bytes = << >> \o Flag(2, 1)
    BY <1>1 DEF EncodeKey, EncodeUIAction, EncodeBool, EncodeField, Flag
  <2>2. /\ Takes(bytes, 2) /\ ParsesAsUIAction(bytes)
        /\ action = [petition_response |-> << >>, save_game |-> TRUE]
    BY <2>1, SaveRead
  <2>3. NewPetitionResponse \in PetitionResponse
    BY DEF NewPetitionResponse, PetitionResponse
  <2>4. action \in UIActionMessage /\ CopyUIAction(to, action) = action
    BY <2>2, <2>3, ActionCopied
  <2>5. ActionRead(action) = Meaning(key)
    <3>1. action.petition_response = << >> /\ action.save_game = TRUE
      BY <2>2
    <3>2. ActionRead(action) = [response |-> "none", save |-> TRUE]
      BY <3>1 DEF ActionRead
    <3> QED
      BY <1>1, <3>2 DEF Meaning
  <2> QED
    BY <2>2, <2>4, <2>5 DEF Takes
<1>2. CASE key \in {"a", "r"}
  <2>1. PICK v \in {0, 1} : (key = "a" => v = 1) /\ (key = "r" => v = 0)
    BY <1>2
  <2>2. PICK body : body = Flag(1, 1) \o Flag(2, v)
    OBVIOUS
  <2>3. bytes = EncodeBytes(1, body) \o << >>
    <3>1. key = "a" => EncodeKey(key) = EncodeUIAction("yes", FALSE)
      BY DEF EncodeKey
    <3>2. key = "r" => EncodeKey(key) = EncodeUIAction("no", FALSE)
      BY DEF EncodeKey
    <3>3. EncodeUIAction("yes", FALSE) = EncodeBytes(1, Flag(1, 1) \o Flag(2, 1)) \o << >>
      BY DEF EncodeUIAction, EncodeBool, EncodeField, Flag
    <3>4. EncodeUIAction("no", FALSE) = EncodeBytes(1, Flag(1, 1) \o Flag(2, 0)) \o << >>
      BY DEF EncodeUIAction, EncodeBool, EncodeField, Flag
    <3> QED
      BY <1>2, <2>1, <2>2, <3>1, <3>2, <3>3, <3>4
  <2>4. PICK response : response = [responded |-> TRUE, accepted |-> BoolOf(Varint(v))]
    OBVIOUS
  <2>5. /\ Takes(bytes, 6) /\ ParsesAsUIAction(bytes)
        /\ action = [petition_response |-> <<response>>, save_game |-> FALSE]
    BY <2>2, <2>3, <2>4, AnswerRead
  <2>6. BoolOf(Varint(v)) \in BOOLEAN
    BY DEF BoolOf
  <2>7. response \in PetitionResponse
    BY <2>4, <2>6 DEF PetitionResponse
  <2>8. action \in UIActionMessage /\ CopyUIAction(to, action) = action
    BY <2>5, <2>7, ActionCopied
  <2>9. (key = "a" => response.accepted = TRUE) /\ (key = "r" => response.accepted = FALSE)
    BY <2>1, <2>4, FlagRead
  <2>10. /\ action.petition_response # << >> /\ action.petition_response[1] = response
         /\ action.save_game = FALSE /\ response.responded = TRUE
    BY <2>4, <2>5
  <2>11. ActionRead(action) = Meaning(key)
    BY <1>2, <2>9, <2>10 DEF ActionRead, Meaning
  <2> QED
    BY <2>5, <2>8, <2>11 DEF Takes
<1> QED
  BY <1>1, <1>2

(* The engine reads each of the keys a, r and s as the player meant it.      *)
THEOREM KeyIsUnderstood ==
    \A key \in {"a", "r", "s"} :
        /\ ParsesAsUIAction(EncodeKey(key))
        /\ ActionRead(ParseUIAction(NewUIAction, EncodeKey(key))) = Meaning(key)
<1>1. NewUIAction \in UIActionMessage
  BY DEF NewUIAction, UIActionMessage, Optional
<1> QED
  BY <1>1, KeyRead

-----------------------------------------------------------------------------
LEMMA HighByte ==
    ASSUME NEW v \in Nat
    PROVE  v % 256 \in 0 .. 255 /\ v \div 256 \in Nat /\ v = 256 * (v \div 256) + (v % 256)
BY SMT

(* A header gives its length back.                                           *)
LEMMA HeaderRead ==
    ASSUME NEW n \in Nat, Legal(n)
    PROVE  Header(n) \in Seq(Byte) /\ Len(Header(n)) = 4 /\ LengthIn(Header(n)) = n
<1>1. n \in Nat /\ n <= 1048576
  BY SMT DEF Legal, MaxLength
<1>2. PICK q \in Nat, c \in 0 .. 255 : q = n \div 256 /\ c = n % 256 /\ n = 256 * q + c
  BY SMT, <1>1, HighByte
<1>3. PICK a \in Nat, b \in 0 .. 255 : a = q \div 256 /\ b = q % 256 /\ q = 256 * a + b
  BY SMT, HighByte
<1>4. a <= 16
  BY SMT, <1>1, <1>2, <1>3
<1>5. n \div 65536 = a
  BY SMT, <1>1, <1>2, <1>3
<1>6. a % 256 = a
  BY SMT, <1>4
<1>7. n \div 16777216 = 0
  BY SMT, <1>1
<1>8. PICK header : header = Header(n)
  BY SMT
<1>9. header = <<0, a, b, c>>
  BY SMT, <1>2, <1>3, <1>5, <1>6, <1>7, <1>8 DEF Header
<1>10. header \in Seq(Byte) /\ Len(header) = 4
  BY SMT, <1>4, <1>9 DEF Byte
<1>11. LengthIn(header) = 65536 * a + 256 * b + c
  BY SMT, <1>9 DEF LengthIn
<1> QED
  BY SMT, <1>2, <1>3, <1>8, <1>10, <1>11

(* Where the bytes of a stream stand: part comes after the first c bytes.    *)
Stands(stream, c, part) ==
    /\ c + Len(part) <= Len(stream)
    /\ \A i \in 1 .. Len(part) : stream[c + i] = part[i]

LEMMA NothingStands ==
    ASSUME NEW stream \in Seq(Byte), NEW c \in 0 .. Len(stream)
    PROVE  Stands(stream, c, << >>)
BY DEF Stands

LEMMA PartsStand ==
    ASSUME NEW stream \in Seq(Byte), NEW c \in Nat, NEW s \in Seq(Byte), NEW t \in Seq(Byte)
    PROVE  Stands(stream, c, s \o t) <=> Stands(stream, c, s) /\ Stands(stream, c + Len(s), t)
<1>1. PICK st, m, n, l : st = s \o t /\ m = Len(s) /\ n = Len(t) /\ l = Len(stream)
  OBVIOUS
<1>2. m \in Nat /\ n \in Nat /\ l \in Nat /\ Len(st) = m + n
  BY <1>1
<1>3. /\ \A i \in 1 .. m : st[i] = s[i]
      /\ \A i \in 1 .. n : st[m + i] = t[i]
  BY <1>1
<1>4. Stands(stream, c, st) <=>
        c + (m + n) <= l /\ \A i \in 1 .. m + n : stream[c + i] = st[i]
  BY <1>1, <1>2 DEF Stands
<1>5. Stands(stream, c, s) <=> c + m <= l /\ \A i \in 1 .. m : stream[c + i] = s[i]
  BY <1>1 DEF Stands
<1>6. Stands(stream, c + m, t) <=> c + m + n <= l /\ \A i \in 1 .. n : stream[c + m + i] = t[i]
  BY <1>1 DEF Stands
<1>7. (c + (m + n) <= l) <=> (c + m <= l /\ c + m + n <= l)
  BY <1>2
<1>8. ASSUME \A i \in 1 .. m + n : stream[c + i] = st[i]
      PROVE  (\A i \in 1 .. m : stream[c + i] = s[i]) /\ \A i \in 1 .. n : stream[c + m + i] = t[i]
  <2>1. ASSUME NEW i \in 1 .. m
        PROVE  stream[c + i] = s[i]
    <3>1. i \in 1 .. m + n
      BY <1>2
    <3> QED
      BY <1>3, <1>8, <3>1
  <2>2. ASSUME NEW i \in 1 .. n
        PROVE  stream[c + m + i] = t[i]
    <3>1. m + i \in 1 .. m + n /\ c + (m + i) = c + m + i
      BY <1>2
    <3>2. stream[c + (m + i)] = st[m + i]
      BY <1>8, <3>1
    <3> QED
      BY <1>3, <3>1, <3>2
  <2> QED
    BY <2>1, <2>2
<1>9. ASSUME \A i \in 1 .. m : stream[c + i] = s[i], \A i \in 1 .. n : stream[c + m + i] = t[i]
      PROVE  \A i \in 1 .. m + n : stream[c + i] = st[i]
  <2>1. ASSUME NEW i \in 1 .. m + n
        PROVE  stream[c + i] = st[i]
    <3>1. CASE i <= m
      <4>1. i \in 1 .. m
        BY <1>2, <3>1
      <4> QED
        BY <1>3, <1>9, <4>1
    <3>2. CASE i > m
      <4>1. PICK j : j = i - m
        OBVIOUS
      <4>2. j \in 1 .. n /\ i = m + j /\ c + i = c + m + j
        BY <1>2, <3>2, <4>1
      <4>3. stream[c + m + j] = t[j] /\ st[m + j] = t[j]
        BY <1>3, <1>9, <4>2
      <4> QED
        BY <4>2, <4>3
    <3> QED
      BY <1>2, <3>1, <3>2
  <2> QED
    BY <2>1
<1>10. Stands(stream, c, st) <=> Stands(stream, c, s) /\ Stands(stream, c + m, t)
  BY <1>4, <1>5, <1>6, <1>7, <1>8, <1>9
<1> QED
  BY <1>1, <1>10

(* What stands in a stream stands there when the stream grows, and the new   *)
(* part behind it.                                                           *)
LEMMA StreamGrows ==
    ASSUME NEW stream \in Seq(Byte), NEW more \in Seq(Byte)
    PROVE  /\ \A c \in Nat : \A part \in Seq(Byte) :
                Stands(stream, c, part) => Stands(stream \o more, c, part)
           /\ Stands(stream \o more, Len(stream), more)
<1>1. PICK longer, l, m : longer = stream \o more /\ l = Len(stream) /\ m = Len(more)
  OBVIOUS
<1>2. l \in Nat /\ m \in Nat /\ Len(longer) = l + m
  BY <1>1
<1>3. (\A i \in 1 .. l : longer[i] = stream[i]) /\ \A i \in 1 .. m : longer[l + i] = more[i]
  BY <1>1
<1>4. ASSUME NEW c \in Nat, NEW part \in Seq(Byte), Stands(stream, c, part)
      PROVE  Stands(longer, c, part)
  <2>1. PICK n \in Nat : n = Len(part)
    OBVIOUS
  <2>2. c + n <= l /\ \A i \in 1 .. n : stream[c + i] = part[i]
    BY <1>1, <1>4, <2>1 DEF Stands
  <2>3. c + n <= Len(longer)
    BY <1>2, <2>2
  <2>4. ASSUME NEW i \in 1 .. n
        PROVE  longer[c + i] = part[i]
    <3>1. c + i \in 1 .. l
      BY <1>2, <2>2
    <3> QED
      BY <1>3, <2>2, <3>1
  <2> QED
    BY <2>1, <2>3, <2>4 DEF Stands
<1>5. Stands(longer, l, more)
  BY <1>1, <1>2, <1>3 DEF Stands
<1> QED
  BY <1>1, <1>4, <1>5

LEMMA StandsAlone ==
    ASSUME NEW stream \in Seq(Byte), NEW c \in Nat, NEW s \in Seq(Byte), NEW t \in Seq(Byte),
           Stands(stream, c, s), Stands(stream, c, t), Len(s) = Len(t)
    PROVE  s = t
<1>1. PICK n \in Nat : n = Len(s)
  OBVIOUS
<1>2. Len(s) = n /\ Len(t) = n
  BY <1>1
<1>3. \A i \in 1 .. n : s[i] = t[i]
  BY <1>2 DEF Stands
<1> QED
  BY <1>2, <1>3, SameEntries

(* recv takes the first k bytes. *)
LEMMA FirstBytes ==
    ASSUME NEW bytes \in Seq(Byte), NEW k \in 0 .. Len(bytes)
    PROVE  /\ SubSeq(bytes, 1, k) \in Seq(Byte) /\ Len(SubSeq(bytes, 1, k)) = k
           /\ SubSeq(bytes, k + 1, Len(bytes)) \in Seq(Byte)
           /\ Len(SubSeq(bytes, k + 1, Len(bytes))) = Len(bytes) - k
           /\ bytes = SubSeq(bytes, 1, k) \o SubSeq(bytes, k + 1, Len(bytes))
<1>1. PICK l \in Nat : l = Len(bytes)
  OBVIOUS
<1>2. k \in Nat /\ k <= l
  BY <1>1
<1>3. PICK s, t : s = SubSeq(bytes, 1, k) /\ t = SubSeq(bytes, k + 1, l)
  OBVIOUS
<1>4. s \in Seq(Byte) /\ Len(s) = k /\ \A i \in 1 .. k : s[i] = bytes[i]
  BY <1>1, <1>2, <1>3
<1>5. t \in Seq(Byte) /\ Len(t) = l - k /\ \A i \in 1 .. l - k : t[i] = bytes[k + i]
  BY <1>1, <1>2, <1>3
<1>6. PICK st : st = s \o t
  OBVIOUS
<1>7. st \in Seq(Byte) /\ Len(st) = l
  <2>1. st \in Seq(Byte) /\ Len(st) = Len(s) + Len(t)
    BY <1>4, <1>5, <1>6, Concatenation
  <2>2. PICK m : m = l - k
    OBVIOUS
  <2>3. k + m = l
    BY <1>2, <2>2
  <2> QED
    BY <1>4, <1>5, <2>1, <2>2, <2>3
<1>8. (\A i \in 1 .. k : st[i] = s[i]) /\ \A i \in 1 .. l - k : st[k + i] = t[i]
  BY <1>4, <1>5, <1>6, EntriesOfConcatenation
<1>9. \A i \in 1 .. l : bytes[i] = st[i]
  <2>1. ASSUME NEW i \in 1 .. l
        PROVE  bytes[i] = st[i]
    <3>1. CASE i <= k
      BY <1>4, <1>8, <3>1
    <3>2. CASE i > k
      <4>1. PICK j : j = i - k
        OBVIOUS
      <4>2. j \in 1 .. l - k /\ i = k + j
        BY <1>2, <3>2, <4>1
      <4> QED
        BY <1>5, <1>8, <4>2
    <3> QED
      BY <1>2, <3>1, <3>2
  <2> QED
    BY <2>1
<1>10. bytes = st
  BY <1>1, <1>7, <1>9, SameEntries
<1> QED
  BY <1>1, <1>3, <1>4, <1>5, <1>6, <1>10

-----------------------------------------------------------------------------
(* The stream.  All that was handed to the writer is laid out in one         *)
(* sequence of bytes: payload i behind its header, from start[i] on.         *)
Laid(n, payloads, stream, start) ==
    /\ payloads \in [1 .. n -> Seq(Byte)] /\ stream \in Seq(Byte) /\ start \in [1 .. n + 1 -> Nat]
    /\ start[1] = 0 /\ start[n + 1] = Len(stream)
    /\ \A i \in 1 .. n :
         /\ Legal(Len(payloads[i]))
         /\ Stands(stream, start[i], Header(Len(payloads[i])))
         /\ Stands(stream, start[i] + 4, payloads[i])
         /\ start[i + 1] = start[i] + 4 + Len(payloads[i])

(* What may be sent of a game or of a key. *)
MaySend(way, item, payload) ==
    \/ /\ way = "down"
       /\ \E countKeys \in SetToSeqs(DOMAIN BuildGameState(item).building_counts),
             resourceKeys \in SetToSeqs(DOMAIN BuildGameState(item).resources) :
             payload = SerializeGameState(BuildGameState(item), countKeys, resourceKeys)
    \/ way = "up" /\ payload = EncodeKey(item)

(* The reader is c bytes into the stream: behind what it has of the header   *)
(* or of the payload of the first message it has not delivered.              *)
ReaderStands(payloads, stream, start, c) ==
    LET d == Len(delivered) + 1
    IN  \/ /\ reader = "header" /\ Len(buffer) <= 4
           /\ c = start[d] + Len(buffer) /\ Stands(stream, start[d], buffer)
        \/ /\ reader \in {"payload", "message"} /\ d <= sent
           /\ expected = Len(payloads[d]) /\ Len(buffer) <= expected
           /\ reader = "message" => Len(buffer) = expected
           /\ c = start[d] + 4 + Len(buffer) /\ Stands(stream, start[d] + 4, buffer)

(* The bytes under way come next, and then those of the second send. *)
WriterStands(stream, c) ==
    /\ Stands(stream, c, wire)
    /\ writer = "idle" => c + Len(wire) = Len(stream)
    /\ writer = "payload" =>
         /\ Stands(stream, c + Len(wire), outgoing)
         /\ c + Len(wire) + Len(outgoing) = Len(stream)

StreamStands(payloads, stream, start, c) ==
    /\ Laid(sent, payloads, stream, start) /\ c \in 0 .. Len(stream)
    /\ \A i \in 1 .. sent : MaySend(direction, script[i], payloads[i])
    /\ ReaderStands(payloads, stream, start, c)
    /\ WriterStands(stream, c)

ScriptOf == (direction = "down" /\ script \in GameScripts) \/ (direction = "up" /\ script \in KeyScripts)

BytesOK ==
    /\ sent \in 0 .. Len(script)
    /\ writer \in {"idle", "payload", "closed"}
    /\ reader \in {"header", "payload", "message", "ended"}
    /\ outgoing \in Seq(Byte) /\ wire \in Seq(Byte) /\ buffer \in Seq(Byte)
    /\ expected \in Nat /\ expected <= MaxLength + 1
    /\ delivered \in Seq(Seq(Byte)) /\ Len(delivered) <= sent

MailboxOK ==
    /\ mailbox \in Optional(UIActionMessage)
    /\ mailbox # << >> =>
         /\ direction = "up"
         /\ \E j \in 1 .. sent : mailbox[1] = ParseUIAction(NewUIAction, EncodeKey(script[j]))

PolledOK ==
    /\ polled \in Seq([response : {"accept", "reject", "none"}, save : BOOLEAN])
    /\ PolledIsOneKey

DeliveredOK == \A i \in 1 .. Len(delivered) : MaySend(direction, script[i], delivered[i])

OutgoingOK ==
    writer = "payload" => sent # 0 /\ direction = "down" /\ MaySend(direction, script[sent], outgoing)

StreamOK ==
    reader # "ended" => \E payloads, stream, start, c : StreamStands(payloads, stream, start, c)

FramingInv ==
    /\ ScriptOf /\ BytesOK /\ MailboxOK /\ PolledOK /\ DeliveredOK /\ OutgoingOK
    /\ EndsOnlyWhenClosed
    /\ StreamOK

-----------------------------------------------------------------------------
LEMMA ScriptItems ==
    ASSUME ScriptOf
    PROVE  /\ Len(script) \in Nat /\ direction \in {"down", "up"}
           /\ direction = "down" => \A i \in 1 .. Len(script) : IsGame(script[i])
           /\ direction = "up" => \A i \in 1 .. Len(script) : script[i] \in {"a", "r", "s"}
<1>1. CASE direction = "down" /\ script \in GameScripts
  <2>1. PICK games : games = {script[i] : i \in DOMAIN script}
    OBVIOUS
  <2>2. script \in Seq(games) /\ \A i \in DOMAIN script : IsGame(script[i])
    BY <1>1, <2>1, GameScriptsAssumption
  <2>3. Len(script) \in Nat /\ DOMAIN script = 1 .. Len(script)
    BY <2>2
  <2> QED
    BY <1>1, <2>2, <2>3
<1>2. CASE direction = "up" /\ script \in KeyScripts
  <2>1. script \in Seq({"a", "r", "s"})
    BY <1>2, KeyScriptsAssumption
  <2>2. \A i \in 1 .. Len(script) : script[i] \in {"a", "r", "s"}
    BY <2>1
  <2> QED
    BY <1>2, <2>1, <2>2
<1> QED
  BY <1>1, <1>2 DEF ScriptOf

(* What is sent of a game has the size the engine computed; what is sent at  *)
(* all has a legal length.                                                   *)
LEMMA GameSent ==
    ASSUME NEW game, IsGame(game), NEW payload, MaySend("down", game, payload)
    PROVE  /\ payload \in Seq(Byte) /\ Len(payload) \in 1 .. 625
           /\ LET state == BuildGameState(game)
              IN  Len(payload) = GameStateSize(state, SetToSeq(DOMAIN state.building_counts),
                                                      SetToSeq(DOMAIN state.resources))
<1>1. PICK g : g = BuildGameState(game)
  OBVIOUS
<1>2. PICK countKeys \in SetToSeqs(DOMAIN g.building_counts),
           resourceKeys \in SetToSeqs(DOMAIN g.resources) :
           payload = SerializeGameState(g, countKeys, resourceKeys)
  BY <1>1 DEF MaySend
<1>3. /\ countKeys \in SetToSeqs(DOMAIN g.building_counts) \union {SetToSeq(DOMAIN g.building_counts)}
      /\ resourceKeys \in SetToSeqs(DOMAIN g.resources) \union {SetToSeq(DOMAIN g.resources)}
  OBVIOUS
<1>4. PICK size : size = GameStateSize(g, countKeys, resourceKeys)
  OBVIOUS
<1>5. Takes(payload, size) /\ size \in 1 .. 625
  BY <1>1, <1>2, <1>3, <1>4, GameStateTakes
<1>6. size = GameStateSize(g, SetToSeq(DOMAIN g.building_counts), SetToSeq(DOMAIN g.resources))
  BY <1>1, <1>4, SizeInAnyOrder
<1> QED
  BY <1>1, <1>5, <1>6 DEF Takes

LEMMA SentIsLegal ==
    ASSUME ScriptOf, NEW i \in 1 .. Len(script), NEW payload, MaySend(direction, script[i], payload)
    PROVE  payload \in Seq(Byte) /\ Len(payload) \in Nat /\ Legal(Len(payload))
<1>1. PICK l : l = Len(payload)
  OBVIOUS
<1>2. l \in 1 .. 625 => l \in Nat /\ Legal(l)
  BY SMT DEF Legal, MaxLength
<1>3. CASE direction = "down"
  <2>1. IsGame(script[i]) /\ MaySend("down", script[i], payload)
    BY <1>3, ScriptItems
  <2> QED
    BY <1>1, <1>2, <2>1, GameSent
<1>4. CASE direction = "up"
  <2>1. script[i] \in {"a", "r", "s"} /\ payload = EncodeKey(script[i])
    BY <1>4, ScriptItems DEF MaySend
  <2>2. NewUIAction \in UIActionMessage
    BY DEF NewUIAction, UIActionMessage, Optional
  <2>3. payload \in Seq(Byte) /\ l \in 1 .. 6
    BY <1>1, <2>1, <2>2, KeyRead
  <2>4. l \in 1 .. 625
    BY <2>3
  <2> QED
    BY <1>1, <1>2, <2>3, <2>4
<1> QED
  BY <1>3, <1>4, ScriptItems

(* One more payload is laid out behind the others. *)
LEMMA LaidOut ==
    ASSUME NEW n \in Nat, NEW payloads, NEW stream, NEW start, Laid(n, payloads, stream, start),
           NEW payload \in Seq(Byte), Legal(Len(payload))
    PROVE  \E payloads2, start2 :
             /\ Laid(n + 1, payloads2, stream \o (Header(Len(payload)) \o payload), start2)
             /\ \A i \in 1 .. n : payloads2[i] = payloads[i]
             /\ \A i \in 1 .. n + 1 : start2[i] = start[i]
             /\ payloads2[n + 1] = payload
<1>1. PICK header, l : header = Header(Len(payload)) /\ l = Len(payload)
  OBVIOUS
<1>2. l \in Nat /\ header \in Seq(Byte) /\ Len(header) = 4
  BY <1>1, HeaderRead
<1>3. PICK frame : frame = header \o payload
  OBVIOUS
<1>4. frame \in Seq(Byte) /\ Len(frame) = 4 + l
  BY <1>1, <1>2, <1>3, Concatenation
<1>5. PICK longer, end : longer = stream \o frame /\ end = Len(longer)
  OBVIOUS
<1>6. /\ payloads \in [1 .. n -> Seq(Byte)] /\ stream \in Seq(Byte)
      /\ start \in [1 .. n + 1 -> Nat] /\ start[1] = 0 /\ start[n + 1] = Len(stream)
  BY DEF Laid
<1>7. longer \in Seq(Byte) /\ end = Len(stream) + (4 + l) /\ Len(stream) \in Nat
  BY <1>4, <1>5, <1>6, Concatenation
<1>8. PICK m : m = n + 1
  OBVIOUS
<1>9. m \in Nat /\ m \in 1 .. m /\ m \notin 1 .. n /\ 1 .. m = (1 .. n) \union {m} /\ m # m + 1
  BY <1>8
<1>10. PICK payloads2 : payloads2 = [i \in 1 .. m |-> IF i = m THEN payload ELSE payloads[i]]
  OBVIOUS
<1>11. PICK start2 : start2 = [i \in 1 .. m + 1 |-> IF i = m + 1 THEN end ELSE start[i]]
  OBVIOUS
<1>12. payloads2 \in [1 .. m -> Seq(Byte)]
  BY <1>6, <1>9, <1>10
<1>13. start2 \in [1 .. m + 1 -> Nat]
  <2>1. end \in Nat
    BY <1>2, <1>7
  <2>2. \A i \in 1 .. m + 1 : i # m + 1 => i \in 1 .. n + 1
    BY <1>8, <1>9
  <2> QED
    BY <1>6, <1>11, <2>1, <2>2
<1>14. \A i \in 1 .. n : payloads2[i] = payloads[i]
  BY <1>9, <1>10
<1>15. \A i \in 1 .. m : start2[i] = start[i]
  <2>1. \A i \in 1 .. m : i \in 1 .. m + 1 /\ i # m + 1
    BY <1>9
  <2> QED
    BY <1>11, <2>1
<1>16. payloads2[m] = payload /\ start2[m + 1] = end
  <2>1. m + 1 \in 1 .. m + 1
    BY <1>9
  <2> QED
    BY <1>9, <1>10, <1>11, <2>1
<1>17. start2[1] = 0
  <2>1. 1 \in 1 .. m
    BY <1>8
  <2> QED
    BY <1>6, <1>15, <2>1
<1>18. \A c \in Nat : \A part \in Seq(Byte) : Stands(stream, c, part) => Stands(longer, c, part)
  BY <1>4, <1>5, <1>6, StreamGrows
<1>19. ASSUME NEW i \in 1 .. n
       PROVE  /\ Legal(Len(payloads2[i]))
              /\ Stands(longer, start2[i], Header(Len(payloads2[i])))
              /\ Stands(longer, start2[i] + 4, payloads2[i])
              /\ start2[i + 1] = start2[i] + 4 + Len(payloads2[i])
  <2>1. /\ Legal(Len(payloads[i]))
        /\ Stands(stream, start[i], Header(Len(payloads[i])))
        /\ Stands(stream, start[i] + 4, payloads[i])
        /\ start[i + 1] = start[i] + 4 + Len(payloads[i])
    BY DEF Laid
  <2>2. start2[i] = start[i] /\ start2[i + 1] = start[i + 1] /\ payloads2[i] = payloads[i]
    <3>1. i \in 1 .. m /\ i + 1 \in 1 .. m
      BY <1>8
    <3> QED
      BY <1>14, <1>15, <3>1
  <2>3. start[i] \in Nat /\ start[i] + 4 \in Nat /\ payloads[i] \in Seq(Byte)
    <3>1. i \in 1 .. n + 1
      OBVIOUS
    <3>2. start[i] \in Nat
      BY <1>6, <3>1
    <3> QED
      BY <1>6, <3>2
  <2>4. Header(Len(payloads[i])) \in Seq(Byte)
    <3>1. Len(payloads[i]) \in Nat
      BY <2>3
    <3> QED
      BY <2>1, <3>1, HeaderRead
  <2> QED
    BY <1>18, <2>1, <2>2, <2>3, <2>4
<1>20. /\ Legal(Len(payloads2[m]))
       /\ Stands(longer, start2[m], Header(Len(payloads2[m])))
       /\ Stands(longer, start2[m] + 4, payloads2[m])
       /\ start2[m + 1] = start2[m] + 4 + Len(payloads2[m])
  <2>1. PICK s : s = Len(stream)
    OBVIOUS
  <2>2. start2[m] = s /\ s \in Nat
    BY <1>6, <1>7, <1>8, <1>9, <1>15, <2>1
  <2>3. Stands(longer, s, frame)
    BY <1>4, <1>5, <1>6, <2>1, StreamGrows
  <2>4. Stands(longer, s, header) /\ Stands(longer, s + 4, payload)
    BY <1>2, <1>3, <1>7, <2>2, <2>3, PartsStand
  <2>5. end = s + 4 + l
    BY <1>2, <1>7, <2>1
  <2> QED
    BY <1>1, <1>16, <2>2, <2>4, <2>5
<1>21. Laid(m, payloads2, longer, start2)
  <2>1. \A i \in 1 .. m : i \in 1 .. n \/ i = m
    BY <1>9
  <2>2. \A i \in 1 .. m :
          /\ Legal(Len(payloads2[i]))
          /\ Stands(longer, start2[i], Header(Len(payloads2[i])))
          /\ Stands(longer, start2[i] + 4, payloads2[i])
          /\ start2[i + 1] = start2[i] + 4 + Len(payloads2[i])
    BY <1>19, <1>20, <2>1
  <2> QED
    BY <1>5, <1>7, <1>12, <1>13, <1>16, <1>17, <2>2 DEF Laid
<1> QED
  BY <1>1, <1>3, <1>5, <1>8, <1>14, <1>15, <1>16, <1>21

-----------------------------------------------------------------------------
(* The steps. *)
LEMMA Positions ==
    ASSUME BytesOK, NEW payloads, NEW stream, NEW start, NEW c,
           StreamStands(payloads, stream, start, c)
    PROVE  /\ stream \in Seq(Byte) /\ Len(stream) \in Nat /\ c \in Nat /\ c <= Len(stream)
           /\ sent \in Nat /\ Len(delivered) \in Nat /\ Len(delivered) + 1 \in 1 .. sent + 1
           /\ start[Len(delivered) + 1] \in Nat /\ start[sent + 1] = Len(stream)
           /\ Len(buffer) \in Nat /\ Len(wire) \in Nat /\ Len(outgoing) \in Nat
<1>1. PICK d, n : d = Len(delivered) /\ n = sent
  OBVIOUS
<1>2. d \in Nat /\ n \in Nat /\ d <= n
  BY <1>1 DEF BytesOK
<1>3. d + 1 \in 1 .. n + 1
  BY <1>2
<1>4. stream \in Seq(Byte) /\ start \in [1 .. n + 1 -> Nat] /\ start[n + 1] = Len(stream)
  BY <1>1 DEF StreamStands, Laid
<1>5. start[d + 1] \in Nat
  BY <1>3, <1>4
<1>6. PICK l : l = Len(stream)
  OBVIOUS
<1>7. l \in Nat /\ c \in 0 .. l
  BY <1>4, <1>6 DEF StreamStands
<1>8. c \in Nat /\ c <= l
  BY <1>7
<1>9. Len(buffer) \in Nat /\ Len(wire) \in Nat /\ Len(outgoing) \in Nat
  BY DEF BytesOK
<1> QED
  BY <1>1, <1>2, <1>3, <1>4, <1>5, <1>6, <1>7, <1>8, <1>9

(* What the reader has polled, and holds for the engine, stays true while    *)
(* more is sent.                                                             *)
LEMMA KeptByOthers ==
    ASSUME FramingInv, direction' = direction, script' = script, delivered' = delivered,
           sent' \in Nat, sent <= sent', UNCHANGED mailboxVars
    PROVE  ScriptOf' /\ MailboxOK' /\ PolledOK' /\ DeliveredOK'
<1>1. ScriptOf'
  BY DEF FramingInv, ScriptOf
<1>2. mailbox' = mailbox /\ polled' = polled
  BY DEF mailboxVars
<1>3. \A j \in 1 .. sent : j \in 1 .. sent'
  BY DEF FramingInv, BytesOK
<1>4. MailboxOK'
  BY <1>2, <1>3 DEF FramingInv, MailboxOK
<1>5. PolledIsOneKey'
  BY <1>2, <1>3 DEF FramingInv, PolledOK, PolledIsOneKey
<1>6. PolledOK'
  BY <1>2, <1>5 DEF FramingInv, PolledOK
<1>7. DeliveredOK'
  BY DEF FramingInv, DeliveredOK
<1> QED
  BY <1>1, <1>4, <1>6, <1>7

(* A game or a key handed to the writer: header and payload follow the wire. *)
Follow(header, payload) ==
    \E payloads, stream, start, c :
        /\ Laid(sent', payloads, stream, start) /\ c \in 0 .. Len(stream)
        /\ \A i \in 1 .. sent' : MaySend(direction', script'[i], payloads[i])
        /\ ReaderStands(payloads, stream, start, c)'
        /\ Stands(stream, c, wire \o header)
        /\ Stands(stream, c + Len(wire \o header), payload)
        /\ c + Len(wire \o header) + Len(payload) = Len(stream)

LEMMA HandedOver ==
    ASSUME FramingInv, writer = "idle", sent < Len(script), sent' = sent + 1,
           direction' = direction, script' = script, UNCHANGED readerVars,
           NEW payload, MaySend(direction, script[sent + 1], payload)
    PROVE  /\ payload \in Seq(Byte) /\ Header(Len(payload)) \in Seq(Byte)
           /\ Len(Header(Len(payload))) = 4
           /\ reader # "ended"
           /\ Follow(Header(Len(payload)), payload)
<1>1. PICK n : n = sent
  OBVIOUS
<1>2. n \in Nat /\ n + 1 \in 1 .. Len(script) /\ sent' = n + 1
  BY <1>1, ScriptItems DEF FramingInv, BytesOK
<1>3. payload \in Seq(Byte) /\ Len(payload) \in Nat /\ Legal(Len(payload))
  BY <1>1, <1>2, SentIsLegal DEF FramingInv
<1>4. PICK header, l : header = Header(Len(payload)) /\ l = Len(payload)
  OBVIOUS
<1>5. header \in Seq(Byte) /\ Len(header) = 4 /\ l \in Nat
  BY <1>3, <1>4, HeaderRead
<1>6. reader # "ended"
  BY DEF FramingInv, EndsOnlyWhenClosed
<1>7. PICK payloads, stream, start, c : StreamStands(payloads, stream, start, c)
  BY <1>6 DEF FramingInv, StreamOK
<1>8. /\ stream \in Seq(Byte) /\ Len(stream) \in Nat /\ c \in Nat /\ c <= Len(stream)
      /\ Len(delivered) + 1 \in 1 .. n + 1 /\ start[Len(delivered) + 1] \in Nat
      /\ Len(wire) \in Nat /\ Len(buffer) \in Nat
  BY <1>1, <1>7, Positions DEF FramingInv
<1>9. buffer \in Seq(Byte) /\ wire \in Seq(Byte)
  BY DEF FramingInv, BytesOK
<1>10. PICK payloads2, start2 :
         /\ Laid(n + 1, payloads2, stream \o (header \o payload), start2)
         /\ \A i \in 1 .. n : payloads2[i] = payloads[i]
         /\ \A i \in 1 .. n + 1 : start2[i] = start[i]
         /\ payloads2[n + 1] = payload
  BY <1>1, <1>2, <1>3, <1>4, <1>7, LaidOut DEF StreamStands
<1>11. PICK frame : frame = header \o payload
  OBVIOUS
<1>12. frame \in Seq(Byte) /\ Len(frame) = 4 + l
  BY <1>3, <1>4, <1>5, <1>11, Concatenation
<1>13. PICK longer, m : longer = stream \o frame /\ m = Len(stream)
  OBVIOUS
<1>14. longer \in Seq(Byte) /\ Len(longer) = m + (4 + l) /\ m \in Nat /\ c <= m
  BY <1>8, <1>12, <1>13, Concatenation
<1>15. /\ \A p \in Nat : \A part \in Seq(Byte) : Stands(stream, p, part) => Stands(longer, p, part)
       /\ Stands(longer, m, frame)
  BY <1>8, <1>12, <1>13, StreamGrows
<1>16. Stands(longer, m, header) /\ Stands(longer, m + 4, payload)
  BY <1>3, <1>5, <1>11, <1>14, <1>15, PartsStand
<1>17. Stands(stream, c, wire) /\ c + Len(wire) = m
  BY <1>7, <1>13 DEF StreamStands, WriterStands
<1>18. PICK w : w = wire \o header
  OBVIOUS
<1>19. w \in Seq(Byte) /\ Len(w) = Len(wire) + 4
  BY <1>5, <1>9, <1>18, Concatenation
<1>20. Stands(longer, c, w)
  <2>1. Stands(longer, c, wire) /\ Stands(longer, c + Len(wire), header)
    BY <1>8, <1>9, <1>15, <1>16, <1>17
  <2> QED
    BY <1>5, <1>8, <1>9, <1>14, <1>18, <2>1, PartsStand
<1>21. c + Len(w) = m + 4
  <2>1. PICK k : k = Len(wire)
    OBVIOUS
  <2>2. c + (k + 4) = m + 4
    <3>1. k \in Nat /\ c + k = m
      BY <1>8, <1>17, <2>1
    <3> QED
      BY <1>8, <1>14, <3>1
  <2> QED
    BY <1>19, <2>1, <2>2
<1>22. Stands(longer, c + Len(w), payload) /\ c + Len(w) + l = Len(longer)
  <2>1. m + 4 + l = Len(longer)
    BY <1>5, <1>14
  <2> QED
    BY <1>16, <1>21, <2>1
<1>23. c \in 0 .. Len(longer)
  <2>1. c \in 0 .. m + (4 + l)
    BY <1>5, <1>8, <1>14
  <2> QED
    BY <1>14, <2>1
<1>24. \A i \in 1 .. sent' : MaySend(direction', script'[i], payloads2[i])
  <2>1. \A i \in 1 .. n + 1 : i \in 1 .. n \/ i = n + 1
    BY <1>2
  <2>2. \A i \in 1 .. n : MaySend(direction, script[i], payloads[i])
    BY <1>1, <1>7 DEF StreamStands
  <2> QED
    BY <1>1, <1>2, <1>10, <2>1, <2>2
<1>25. ReaderStands(payloads2, longer, start2, c)'
  <2>1. reader' = reader /\ buffer' = buffer /\ expected' = expected /\ delivered' = delivered
    BY DEF readerVars
  <2>2. PICK d : d = Len(delivered) + 1
    OBVIOUS
  <2>3. start2[d] = start[d] /\ start[d] \in Nat /\ start[d] + 4 \in Nat
    <3>1. start2[d] = start[d] /\ start[d] \in Nat
      BY <1>8, <1>10, <2>2
    <3> QED
      BY <3>1
  <2>4. d <= sent => d <= sent' /\ payloads2[d] = payloads[d]
    <3>1. d \in Nat /\ 1 <= d
      BY <1>8, <2>2
    <3> QED
      BY <1>1, <1>2, <1>10, <3>1
  <2>5. ReaderStands(payloads, stream, start, c)
    BY <1>7 DEF StreamStands
  <2>6. CASE reader = "header"
    <3>1. Len(buffer) <= 4 /\ c = start[d] + Len(buffer) /\ Stands(stream, start[d], buffer)
      BY <2>2, <2>5, <2>6 DEF ReaderStands
    <3>2. Stands(longer, start2[d], buffer)
      BY <1>9, <1>15, <2>3, <3>1
    <3> QED
      BY <2>1, <2>2, <2>3, <2>6, <3>1, <3>2 DEF ReaderStands
  <2>7. CASE reader # "header"
    <3>1. /\ reader \in {"payload", "message"} /\ d <= sent
          /\ expected = Len(payloads[d]) /\ Len(buffer) <= expected
          /\ reader = "message" => Len(buffer) = expected
          /\ c = start[d] + 4 + Len(buffer) /\ Stands(stream, start[d] + 4, buffer)
      BY <2>2, <2>5, <2>7 DEF ReaderStands
    <3>2. Stands(longer, start2[d] + 4, buffer)
      BY <1>9, <1>15, <2>3, <3>1
    <3> QED
      BY <2>1, <2>2, <2>3, <2>4, <3>1, <3>2 DEF ReaderStands
  <2> QED
    BY <2>6, <2>7
<1>26. Laid(sent', payloads2, longer, start2)
  BY <1>2, <1>10, <1>11, <1>13
<1> QED
  BY <1>3, <1>4, <1>5, <1>6, <1>18, <1>20, <1>22, <1>23, <1>24, <1>25, <1>26 DEF Follow


LEMMA HeaderSent == FramingInv /\ SendHeader => FramingInv'
<1> SUFFICES ASSUME FramingInv, SendHeader
             PROVE  FramingInv'
  OBVIOUS
<1>1. /\ direction = "down" /\ writer = "idle" /\ sent < Len(script) /\ sent' = sent + 1
      /\ direction' = direction /\ script' = script /\ UNCHANGED readerVars /\ UNCHANGED mailboxVars
      /\ writer' = "payload"
  BY DEF SendHeader, Writes
<1>2. PICK payload : payload = outgoing'
  OBVIOUS
<1>3. MaySend("down", script[sent + 1], payload) /\ MaySend(direction, script[sent + 1], payload)
  <2>1. MaySend("down", script[sent + 1], payload)
    BY <1>2 DEF SendHeader, MaySend
  <2> QED
    BY <1>1, <2>1
<1>4. PICK header : header = Header(Len(payload))
  OBVIOUS
<1>5. wire' = wire \o header
  BY <1>2, <1>4 DEF SendHeader
<1>6. /\ payload \in Seq(Byte) /\ header \in Seq(Byte) /\ reader # "ended"
      /\ Follow(header, payload)
  BY <1>1, <1>3, <1>4, HandedOver
<1>7. reader' = reader /\ buffer' = buffer /\ expected' = expected /\ delivered' = delivered
  BY <1>1 DEF readerVars
<1>8. sent \in Nat /\ sent' \in 1 .. Len(script') /\ sent <= sent'
  BY <1>1, ScriptItems DEF FramingInv, BytesOK
<1>9. ScriptOf' /\ MailboxOK' /\ PolledOK' /\ DeliveredOK'
  BY <1>1, <1>7, <1>8, KeptByOthers
<1>10. BytesOK'
  <2>1. wire' \in Seq(Byte)
    BY <1>5, <1>6, Concatenation DEF FramingInv, BytesOK
  <2>2. Len(delivered') <= sent'
    BY <1>7, <1>8 DEF FramingInv, BytesOK
  <2>3. sent' \in 0 .. Len(script')
    BY <1>8
  <2> QED
    BY <1>1, <1>2, <1>6, <1>7, <2>1, <2>2, <2>3 DEF FramingInv, BytesOK
<1>11. OutgoingOK'
  BY <1>1, <1>2, <1>3, <1>8 DEF OutgoingOK
<1>12. EndsOnlyWhenClosed'
  BY <1>6, <1>7 DEF EndsOnlyWhenClosed
<1>13. StreamOK'
  <2>1. PICK payloads, stream, start, c :
          /\ Laid(sent', payloads, stream, start) /\ c \in 0 .. Len(stream)
          /\ \A i \in 1 .. sent' : MaySend(direction', script'[i], payloads[i])
          /\ ReaderStands(payloads, stream, start, c)'
          /\ Stands(stream, c, wire \o header)
          /\ Stands(stream, c + Len(wire \o header), payload)
          /\ c + Len(wire \o header) + Len(payload) = Len(stream)
    BY <1>6 DEF Follow
  <2>2. WriterStands(stream, c)'
    BY <1>1, <1>2, <1>5, <2>1 DEF WriterStands
  <2>3. StreamStands(payloads, stream, start, c)'
    BY <2>1, <2>2 DEF StreamStands
  <2> QED
    BY <2>3 DEF StreamOK
<1> QED
  BY <1>9, <1>10, <1>11, <1>12, <1>13 DEF FramingInv

LEMMA ActionSent == FramingInv /\ SendAction => FramingInv'
<1> SUFFICES ASSUME FramingInv, SendAction
             PROVE  FramingInv'
  OBVIOUS
<1>1. /\ direction = "up" /\ writer = "idle" /\ sent < Len(script) /\ sent' = sent + 1
      /\ direction' = direction /\ script' = script /\ UNCHANGED readerVars /\ UNCHANGED mailboxVars
      /\ writer' = writer /\ outgoing' = outgoing
  BY DEF SendAction, Writes
<1>2. PICK payload : payload = EncodeKey(script[sent + 1])
  OBVIOUS
<1>3. MaySend(direction, script[sent + 1], payload)
  BY <1>1, <1>2 DEF MaySend
<1>4. PICK header : header = Header(Len(payload))
  OBVIOUS
<1>5. wire' = wire \o header \o payload
  BY <1>2, <1>4 DEF SendAction
<1>6. /\ payload \in Seq(Byte) /\ header \in Seq(Byte) /\ reader # "ended"
      /\ Follow(header, payload)
  BY <1>1, <1>3, <1>4, HandedOver
<1>7. reader' = reader /\ buffer' = buffer /\ expected' = expected /\ delivered' = delivered
  BY <1>1 DEF readerVars
<1>8. sent \in Nat /\ sent' \in 1 .. Len(script') /\ sent <= sent'
  BY <1>1, ScriptItems DEF FramingInv, BytesOK
<1>9. ScriptOf' /\ MailboxOK' /\ PolledOK' /\ DeliveredOK'
  BY <1>1, <1>7, <1>8, KeptByOthers
<1>10. PICK w : w = wire \o header
  OBVIOUS
<1>11. w \in Seq(Byte) /\ Len(w) \in Nat
  BY <1>6, <1>10, Concatenation DEF FramingInv, BytesOK
<1>12. wire' = w \o payload /\ wire' \in Seq(Byte) /\ Len(wire') = Len(w) + Len(payload)
  BY <1>5, <1>6, <1>10, <1>11, Concatenation
<1>13. BytesOK'
  <2>1. Len(delivered') <= sent'
    BY <1>7, <1>8 DEF FramingInv, BytesOK
  <2>2. sent' \in 0 .. Len(script')
    BY <1>8
  <2> QED
    BY <1>1, <1>7, <1>12, <2>1, <2>2 DEF FramingInv, BytesOK
<1>14. OutgoingOK'
  BY <1>1 DEF OutgoingOK
<1>15. EndsOnlyWhenClosed'
  BY <1>6, <1>7 DEF EndsOnlyWhenClosed
<1>16. StreamOK'
  <2>1. PICK payloads, stream, start, c :
          /\ Laid(sent', payloads, stream, start) /\ c \in 0 .. Len(stream)
          /\ \A i \in 1 .. sent' : MaySend(direction', script'[i], payloads[i])
          /\ ReaderStands(payloads, stream, start, c)'
          /\ Stands(stream, c, w) /\ Stands(stream, c + Len(w), payload)
          /\ c + Len(w) + Len(payload) = Len(stream)
    BY <1>6, <1>10 DEF Follow
  <2>2. stream \in Seq(Byte) /\ c \in Nat
    BY <2>1 DEF Laid
  <2>3. Stands(stream, c, wire')
    BY <1>6, <1>11, <1>12, <2>1, <2>2, PartsStand
  <2>4. c + Len(wire') = Len(stream)
    <3>1. PICK m, k : m = Len(w) /\ k = Len(payload)
      OBVIOUS
    <3>2. m \in Nat /\ k \in Nat /\ c + m + k = Len(stream)
      BY <1>6, <1>11, <2>1, <3>1
    <3>3. c + (m + k) = c + m + k
      BY <2>2, <3>2
    <3> QED
      BY <1>12, <3>1, <3>2, <3>3
  <2>5. WriterStands(stream, c)'
    BY <1>1, <2>3, <2>4 DEF WriterStands
  <2>6. StreamStands(payloads, stream, start, c)'
    BY <2>1, <2>5 DEF StreamStands
  <2> QED
    BY <2>6 DEF StreamOK
<1> QED
  BY <1>9, <1>13, <1>14, <1>15, <1>16 DEF FramingInv

LEMMA PayloadSent == FramingInv /\ SendPayload => FramingInv'
<1> SUFFICES ASSUME FramingInv, SendPayload
             PROVE  FramingInv'
  OBVIOUS
<1>1. /\ writer = "payload" /\ wire' = wire \o outgoing /\ outgoing' = << >> /\ writer' = "idle"
      /\ direction' = direction /\ script' = script /\ sent' = sent
      /\ UNCHANGED readerVars /\ UNCHANGED mailboxVars
  BY DEF SendPayload
<1>2. reader' = reader /\ buffer' = buffer /\ expected' = expected /\ delivered' = delivered
  BY <1>1 DEF readerVars
<1>3. sent' \in Nat /\ sent <= sent'
  BY <1>1, ScriptItems DEF FramingInv, BytesOK
<1>4. ScriptOf' /\ MailboxOK' /\ PolledOK' /\ DeliveredOK'
  BY <1>1, <1>2, <1>3, KeptByOthers
<1>5. wire \in Seq(Byte) /\ outgoing \in Seq(Byte) /\ Len(wire) \in Nat /\ Len(outgoing) \in Nat
  BY DEF FramingInv, BytesOK
<1>6. wire' \in Seq(Byte) /\ Len(wire') = Len(wire) + Len(outgoing)
  BY <1>1, <1>5, Concatenation
<1>7. BytesOK'
  BY <1>1, <1>2, <1>6 DEF FramingInv, BytesOK
<1>8. OutgoingOK'
  BY <1>1 DEF OutgoingOK
<1>9. reader # "ended"
  BY <1>1 DEF FramingInv, EndsOnlyWhenClosed
<1>10. EndsOnlyWhenClosed'
  BY <1>2, <1>9 DEF EndsOnlyWhenClosed
<1>11. StreamOK'
  <2>1. PICK payloads, stream, start, c : StreamStands(payloads, stream, start, c)
    BY <1>9 DEF FramingInv, StreamOK
  <2>2. stream \in Seq(Byte) /\ c \in Nat
    BY <2>1, Positions DEF FramingInv
  <2>3. /\ Stands(stream, c, wire) /\ Stands(stream, c + Len(wire), outgoing)
        /\ c + Len(wire) + Len(outgoing) = Len(stream)
    BY <1>1, <2>1 DEF StreamStands, WriterStands
  <2>4. Stands(stream, c, wire')
    BY <1>1, <1>5, <2>2, <2>3, PartsStand
  <2>5. c + Len(wire') = Len(stream)
    <3>1. PICK m, k : m = Len(wire) /\ k = Len(outgoing)
      OBVIOUS
    <3>2. m \in Nat /\ k \in Nat /\ c + m + k = Len(stream)
      BY <1>5, <2>3, <3>1
    <3>3. c + (m + k) = c + m + k
      BY <2>2, <3>2
    <3> QED
      BY <1>6, <3>1, <3>2, <3>3
  <2>6. WriterStands(stream, c)'
    BY <1>1, <2>4, <2>5 DEF WriterStands
  <2>7. ReaderStands(payloads, stream, start, c)'
    BY <1>1, <1>2, <2>1 DEF StreamStands, ReaderStands
  <2>8. StreamStands(payloads, stream, start, c)'
    BY <1>1, <2>1, <2>6, <2>7 DEF StreamStands
  <2> QED
    BY <2>8 DEF StreamOK
<1> QED
  BY <1>4, <1>7, <1>8, <1>10, <1>11 DEF FramingInv

LEMMA WriterClosed == FramingInv /\ CloseWriter => FramingInv'
<1> SUFFICES ASSUME FramingInv, CloseWriter
             PROVE  FramingInv'
  OBVIOUS
<1>1. /\ writer # "closed" /\ wire' \in {wire, << >>} /\ outgoing' = << >> /\ writer' = "closed"
      /\ direction' = direction /\ script' = script /\ sent' = sent
      /\ UNCHANGED readerVars /\ UNCHANGED mailboxVars
  BY DEF CloseWriter
<1>2. reader' = reader /\ buffer' = buffer /\ expected' = expected /\ delivered' = delivered
  BY <1>1 DEF readerVars
<1>3. sent' \in Nat /\ sent <= sent'
  BY <1>1, ScriptItems DEF FramingInv, BytesOK
<1>4. ScriptOf' /\ MailboxOK' /\ PolledOK' /\ DeliveredOK'
  BY <1>1, <1>2, <1>3, KeptByOthers
<1>5. BytesOK'
  <2>1. wire' \in Seq(Byte) /\ outgoing' \in Seq(Byte)
    <3>1. << >> \in Seq(Byte) /\ wire \in Seq(Byte)
      BY DEF FramingInv, BytesOK
    <3> QED
      BY <1>1, <3>1
  <2> QED
    BY <1>1, <1>2, <2>1 DEF FramingInv, BytesOK
<1>6. OutgoingOK' /\ EndsOnlyWhenClosed'
  BY <1>1 DEF OutgoingOK, EndsOnlyWhenClosed
<1>7. StreamOK'
  <2>1. SUFFICES ASSUME reader # "ended"
                 PROVE  \E payloads, stream, start, c : StreamStands(payloads, stream, start, c)'
    BY <1>2 DEF StreamOK
  <2>2. PICK payloads, stream, start, c : StreamStands(payloads, stream, start, c)
    BY <2>1 DEF FramingInv, StreamOK
  <2>3. stream \in Seq(Byte) /\ c \in 0 .. Len(stream)
    BY <2>2, Positions DEF FramingInv, StreamStands
  <2>4. Stands(stream, c, wire')
    BY <1>1, <2>2, <2>3, NothingStands DEF StreamStands, WriterStands
  <2>5. WriterStands(stream, c)'
    BY <1>1, <2>4 DEF WriterStands
  <2>6. ReaderStands(payloads, stream, start, c)'
    BY <1>1, <1>2, <2>2 DEF StreamStands, ReaderStands
  <2>7. StreamStands(payloads, stream, start, c)'
    BY <1>1, <2>2, <2>5, <2>6 DEF StreamStands
  <2> QED
    BY <2>7
<1> QED
  BY <1>4, <1>5, <1>6, <1>7 DEF FramingInv


(* recv moves k bytes from the wire to the buffer. *)
LEMMA Received ==
    ASSUME BytesOK, NEW n \in Int, Receive(n),
           NEW stream \in Seq(Byte), NEW base \in Nat,
           Stands(stream, base, buffer), Stands(stream, base + Len(buffer), wire)
    PROVE  /\ buffer' \in Seq(Byte) /\ wire' \in Seq(Byte)
           /\ Stands(stream, base, buffer') /\ Stands(stream, base + Len(buffer'), wire')
           /\ Len(buffer') \in Nat /\ Len(buffer') <= Len(buffer) + n
           /\ Len(buffer') + Len(wire') = Len(buffer) + Len(wire)
<1>1. PICK b, w : b = Len(buffer) /\ w = Len(wire)
  OBVIOUS
<1>2. buffer \in Seq(Byte) /\ wire \in Seq(Byte) /\ b \in Nat /\ w \in Nat
  BY <1>1 DEF BytesOK
<1>3. PICK k \in 1 .. (IF n < w THEN n ELSE w) :
        buffer' = buffer \o SubSeq(wire, 1, k) /\ wire' = SubSeq(wire, k + 1, Len(wire))
  BY <1>1 DEF Receive
<1>4. k \in Nat /\ k <= n /\ k \in 0 .. w
  BY <1>2, <1>3
<1>5. PICK s, t : s = SubSeq(wire, 1, k) /\ t = SubSeq(wire, k + 1, Len(wire))
  OBVIOUS
<1>6. /\ s \in Seq(Byte) /\ Len(s) = k /\ t \in Seq(Byte) /\ Len(t) = Len(wire) - k
      /\ wire = s \o t
  BY <1>1, <1>2, <1>4, <1>5, FirstBytes
<1>7. buffer' = buffer \o s /\ wire' = t
  BY <1>3, <1>5
<1>8. buffer' \in Seq(Byte) /\ Len(buffer') = b + k
  BY <1>1, <1>2, <1>6, <1>7, Concatenation
<1>9. base + b \in Nat
  BY <1>2
<1>10. Stands(stream, base + b, s) /\ Stands(stream, base + b + k, t)
  BY <1>1, <1>6, <1>9, PartsStand
<1>11. Stands(stream, base, buffer')
  BY <1>1, <1>2, <1>6, <1>7, <1>10, PartsStand
<1>12. Stands(stream, base + Len(buffer'), wire')
  <2>1. base + (b + k) = base + b + k
    BY <1>2, <1>4
  <2> QED
    BY <1>7, <1>8, <1>10, <2>1
<1>13. Len(buffer') \in Nat /\ Len(buffer') <= b + n
  <2>1. b + k \in Nat /\ b + k <= b + n
    BY <1>2, <1>4
  <2> QED
    BY <1>8, <2>1
<1>14. Len(buffer') + Len(wire') = b + w
  <2>1. (b + k) + (w - k) = b + w
    BY <1>2, <1>4
  <2>2. Len(wire') = w - k
    BY <1>1, <1>6, <1>7
  <2> QED
    BY <1>8, <2>1, <2>2
<1> QED
  BY <1>1, <1>2, <1>6, <1>7, <1>8, <1>11, <1>12, <1>13, <1>14

(* The writer's side of the stream is where it was, seen from the new place. *)
LEMMA WriterAhead ==
    ASSUME NEW stream, NEW base \in Nat, BytesOK, UNCHANGED writerVars,
           WriterStands(stream, base + Len(buffer)), Len(buffer') \in Nat, wire' \in Seq(Byte),
           Stands(stream, base + Len(buffer'), wire'),
           Len(buffer') + Len(wire') = Len(buffer) + Len(wire),
           NEW place, place = base + Len(buffer')
    PROVE  WriterStands(stream, place)'
<1>1. PICK b, w, b2, w2 : b = Len(buffer) /\ w = Len(wire) /\ b2 = Len(buffer') /\ w2 = Len(wire')
  OBVIOUS
<1>2. b \in Nat /\ w \in Nat /\ b2 \in Nat /\ w2 \in Nat /\ b2 + w2 = b + w
  BY <1>1 DEF BytesOK
<1>3. base + b + w = base + b2 + w2
  BY <1>2
<1>4. writer' = writer /\ outgoing' = outgoing
  BY DEF writerVars
<1>5. writer = "idle" => base + b2 + w2 = Len(stream)
  BY <1>1, <1>3 DEF WriterStands
<1>6. writer = "payload" =>
        /\ Stands(stream, base + b2 + w2, outgoing)
        /\ base + b2 + w2 + Len(outgoing) = Len(stream)
  BY <1>1, <1>3 DEF WriterStands
<1> QED
  <2>1. Stands(stream, place, wire')
    OBVIOUS
  <2>2. writer' = "idle" => place + Len(wire') = Len(stream)
    BY <1>1, <1>4, <1>5
  <2>3. writer' = "payload" =>
          /\ Stands(stream, place + Len(wire'), outgoing')
          /\ place + Len(wire') + Len(outgoing') = Len(stream)
    BY <1>1, <1>4, <1>6
  <2> QED
    BY <2>1, <2>2, <2>3 DEF WriterStands

LEMMA HeaderReceived == FramingInv /\ ReceiveHeader => FramingInv'
<1> SUFFICES ASSUME FramingInv, ReceiveHeader
             PROVE  FramingInv'
  OBVIOUS
<1>1. /\ reader = "header" /\ Len(buffer) < 4 /\ Receive(4 - Len(buffer))
      /\ reader' = reader /\ expected' = expected /\ delivered' = delivered
      /\ direction' = direction /\ script' = script
      /\ UNCHANGED writerVars /\ UNCHANGED mailboxVars
  BY DEF ReceiveHeader
<1>2. sent' = sent /\ writer' = writer /\ outgoing' = outgoing
  BY <1>1 DEF writerVars
<1>3. BytesOK /\ sent \in Nat
  BY ScriptItems DEF FramingInv, BytesOK
<1>4. sent' \in Nat /\ sent <= sent'
  BY <1>2, <1>3
<1>5. ScriptOf' /\ MailboxOK' /\ PolledOK' /\ DeliveredOK'
  BY <1>1, <1>4, KeptByOthers
<1>6. PICK payloads, stream, start, c : StreamStands(payloads, stream, start, c)
  BY <1>1 DEF FramingInv, StreamOK
<1>7. PICK base : base = start[Len(delivered) + 1]
  OBVIOUS
<1>8. stream \in Seq(Byte) /\ base \in Nat /\ Len(buffer) \in Nat /\ Len(stream) \in Nat
  BY <1>3, <1>6, <1>7, Positions
<1>9. c = base + Len(buffer) /\ Stands(stream, base, buffer)
  BY <1>1, <1>6, <1>7 DEF StreamStands, ReaderStands
<1>10. WriterStands(stream, base + Len(buffer))
  BY <1>6, <1>9 DEF StreamStands
<1>11. PICK b : b = Len(buffer)
  OBVIOUS
<1>12. b \in Nat /\ 4 - b \in Int /\ b + (4 - b) = 4
  BY <1>8, <1>11
<1>13. /\ buffer' \in Seq(Byte) /\ wire' \in Seq(Byte)
       /\ Stands(stream, base, buffer') /\ Stands(stream, base + Len(buffer'), wire')
       /\ Len(buffer') \in Nat /\ Len(buffer') <= b + (4 - b)
       /\ Len(buffer') + Len(wire') = Len(buffer) + Len(wire)
  BY <1>1, <1>3, <1>8, <1>9, <1>10, <1>11, <1>12, Received DEF WriterStands
<1>14. Len(buffer') <= 4
  BY <1>12, <1>13
<1>15. PICK d : d = base + Len(buffer')
  OBVIOUS
<1>16. BytesOK'
  BY <1>1, <1>2, <1>3, <1>13 DEF BytesOK
<1>17. OutgoingOK' /\ EndsOnlyWhenClosed'
  BY <1>1, <1>2 DEF FramingInv, OutgoingOK, EndsOnlyWhenClosed
<1>18. StreamOK'
  <2>1. WriterStands(stream, d)'
    BY <1>1, <1>3, <1>8, <1>10, <1>13, <1>15, WriterAhead
  <2>2. ReaderStands(payloads, stream, start, d)'
    BY <1>1, <1>7, <1>13, <1>14, <1>15 DEF ReaderStands
  <2>3. d \in 0 .. Len(stream)
    <3>1. PICK m : m = Len(buffer')
      OBVIOUS
    <3>2. m \in Nat /\ base + m <= Len(stream)
      BY <1>13, <3>1 DEF Stands
    <3>3. PICK l : l = Len(stream)
      OBVIOUS
    <3>4. base + m \in 0 .. l
      BY <1>8, <3>2, <3>3
    <3> QED
      BY <1>15, <3>1, <3>3, <3>4
  <2>4. StreamStands(payloads, stream, start, d)'
    BY <1>1, <1>2, <1>6, <2>1, <2>2, <2>3 DEF StreamStands
  <2> QED
    BY <2>4 DEF StreamOK
<1> QED
  BY <1>5, <1>16, <1>17, <1>18 DEF FramingInv

(* The header read is the one before a payload of that length. *)
LEMMA LengthRead == FramingInv /\ ReadLength => FramingInv'
<1> SUFFICES ASSUME FramingInv, ReadLength
             PROVE  FramingInv'
  OBVIOUS
<1>1. /\ reader = "header" /\ Len(buffer) = 4 /\ expected' = LengthIn(buffer) /\ buffer' = << >>
      /\ reader' = (IF Legal(expected') THEN "payload" ELSE "ended")
      /\ direction' = direction /\ script' = script /\ wire' = wire /\ delivered' = delivered
      /\ UNCHANGED writerVars /\ UNCHANGED mailboxVars
  BY DEF ReadLength
<1>2. sent' = sent /\ writer' = writer /\ outgoing' = outgoing
  BY <1>1 DEF writerVars
<1>3. BytesOK /\ sent \in Nat
  BY ScriptItems DEF FramingInv, BytesOK
<1>4. sent' \in Nat /\ sent <= sent'
  BY <1>2, <1>3
<1>5. ScriptOf' /\ MailboxOK' /\ PolledOK' /\ DeliveredOK'
  BY <1>1, <1>4, KeptByOthers
<1>6. PICK payloads, stream, start, c : StreamStands(payloads, stream, start, c)
  BY <1>1 DEF FramingInv, StreamOK
<1>7. PICK d : d = Len(delivered) + 1
  OBVIOUS
<1>8. /\ stream \in Seq(Byte) /\ Len(stream) \in Nat /\ start[d] \in Nat
      /\ d \in 1 .. sent + 1 /\ start[sent + 1] = Len(stream) /\ c <= Len(stream)
  BY <1>3, <1>6, <1>7, Positions
<1>9. c = start[d] + 4 /\ Stands(stream, start[d], buffer)
  BY <1>1, <1>6, <1>7 DEF StreamStands, ReaderStands
<1>10. d \in 1 .. sent
  <2>1. d # sent + 1
    <3>1. SUFFICES ASSUME d = sent + 1 PROVE FALSE
      OBVIOUS
    <3>2. PICK l : l = Len(stream)
      OBVIOUS
    <3>3. l \in Nat /\ start[d] = l /\ start[d] + 4 <= l
      BY <1>8, <1>9, <3>1, <3>2
    <3> QED
      BY <3>3
  <2> QED
    BY <1>3, <1>8, <2>1
<1>11. /\ payloads[d] \in Seq(Byte) /\ Legal(Len(payloads[d]))
       /\ Stands(stream, start[d], Header(Len(payloads[d])))
       /\ Stands(stream, start[d] + 4, payloads[d])
  BY <1>6, <1>10 DEF StreamStands, Laid
<1>12. PICK n : n = Len(payloads[d])
  OBVIOUS
<1>13. n \in Nat /\ Legal(n)
  BY <1>11, <1>12
<1>14. Header(n) \in Seq(Byte) /\ Len(Header(n)) = 4 /\ LengthIn(Header(n)) = n
  BY <1>13, HeaderRead
<1>15. buffer = Header(n)
  BY <1>1, <1>3, <1>8, <1>9, <1>11, <1>12, <1>14, StandsAlone DEF BytesOK
<1>16. expected' = n /\ reader' = "payload"
  BY <1>1, <1>13, <1>14, <1>15
<1>17. << >> \in Seq(Byte) /\ Len(<< >>) = 0
  OBVIOUS
<1>18. BytesOK'
  <2>1. expected' \in Nat /\ expected' <= MaxLength + 1
    BY SMT, <1>13, <1>16 DEF Legal, MaxLength
  <2> QED
    BY <1>1, <1>2, <1>3, <1>16, <1>17, <2>1 DEF BytesOK
<1>19. OutgoingOK' /\ EndsOnlyWhenClosed'
  BY <1>1, <1>2, <1>16 DEF FramingInv, OutgoingOK, EndsOnlyWhenClosed
<1>20. StreamOK'
  <2>1. start[d] + 4 \in 0 .. Len(stream)
    BY <1>6, <1>9 DEF StreamStands
  <2>2. Stands(stream, start[d] + 4, << >>) /\ c = start[d] + 4 + 0
    BY <1>8, <1>9, <2>1, NothingStands
  <2>3. d <= sent' /\ 0 <= n
    BY <1>2, <1>10, <1>13
  <2>4. ReaderStands(payloads, stream, start, c)'
    BY <1>1, <1>7, <1>12, <1>16, <1>17, <2>2, <2>3 DEF ReaderStands
  <2>5. WriterStands(stream, c)'
    BY <1>1, <1>2, <1>6 DEF StreamStands, WriterStands
  <2>6. StreamStands(payloads, stream, start, c)'
    BY <1>1, <1>2, <1>6, <2>4, <2>5 DEF StreamStands
  <2> QED
    BY <2>6 DEF StreamOK
<1> QED
  BY <1>5, <1>18, <1>19, <1>20 DEF FramingInv

LEMMA PayloadReceived == FramingInv /\ ReceivePayload => FramingInv'
<1> SUFFICES ASSUME FramingInv, ReceivePayload
             PROVE  FramingInv'
  OBVIOUS
<1>1. /\ reader = "payload" /\ Receive(expected - Len(buffer))
      /\ reader' = (IF Len(buffer') = expected THEN "message" ELSE "payload")
      /\ expected' = expected /\ delivered' = delivered
      /\ direction' = direction /\ script' = script
      /\ UNCHANGED writerVars /\ UNCHANGED mailboxVars
  BY DEF ReceivePayload
<1>2. sent' = sent /\ writer' = writer /\ outgoing' = outgoing
  BY <1>1 DEF writerVars
<1>3. BytesOK /\ sent \in Nat /\ expected \in Nat
  BY ScriptItems DEF FramingInv, BytesOK
<1>4. sent' \in Nat /\ sent <= sent'
  BY <1>2, <1>3
<1>5. ScriptOf' /\ MailboxOK' /\ PolledOK' /\ DeliveredOK'
  BY <1>1, <1>4, KeptByOthers
<1>6. PICK payloads, stream, start, c : StreamStands(payloads, stream, start, c)
  BY <1>1 DEF FramingInv, StreamOK
<1>7. PICK d, base : d = Len(delivered) + 1 /\ base = start[d] + 4
  OBVIOUS
<1>8. stream \in Seq(Byte) /\ start[d] \in Nat /\ Len(buffer) \in Nat /\ Len(stream) \in Nat
  BY <1>3, <1>6, <1>7, Positions
<1>9. base \in Nat
  BY <1>7, <1>8
<1>10. /\ d <= sent /\ expected = Len(payloads[d])
       /\ c = base + Len(buffer) /\ Stands(stream, base, buffer)
  BY <1>1, <1>6, <1>7 DEF StreamStands, ReaderStands
<1>11. WriterStands(stream, base + Len(buffer))
  BY <1>6, <1>10 DEF StreamStands
<1>12. PICK b : b = Len(buffer)
  OBVIOUS
<1>13. b \in Nat /\ expected - b \in Int /\ b + (expected - b) = expected
  BY <1>3, <1>8, <1>12
<1>14. /\ buffer' \in Seq(Byte) /\ wire' \in Seq(Byte)
       /\ Stands(stream, base, buffer') /\ Stands(stream, base + Len(buffer'), wire')
       /\ Len(buffer') \in Nat /\ Len(buffer') <= b + (expected - b)
       /\ Len(buffer') + Len(wire') = Len(buffer) + Len(wire)
  BY <1>1, <1>3, <1>8, <1>9, <1>10, <1>11, <1>12, <1>13, Received DEF WriterStands
<1>15. Len(buffer') <= expected
  BY <1>13, <1>14
<1>16. PICK e : e = base + Len(buffer')
  OBVIOUS
<1>17. reader' \in {"payload", "message"} /\ (reader' = "message" => Len(buffer') = expected)
  BY <1>1
<1>18. BytesOK'
  BY <1>1, <1>2, <1>3, <1>14, <1>17 DEF BytesOK
<1>19. OutgoingOK' /\ EndsOnlyWhenClosed'
  BY <1>1, <1>2, <1>17 DEF FramingInv, OutgoingOK, EndsOnlyWhenClosed
<1>20. StreamOK'
  <2>1. WriterStands(stream, e)'
    BY <1>1, <1>3, <1>9, <1>11, <1>14, <1>16, WriterAhead
  <2>2. ReaderStands(payloads, stream, start, e)'
    BY <1>1, <1>2, <1>7, <1>10, <1>14, <1>15, <1>16, <1>17 DEF ReaderStands
  <2>3. e \in 0 .. Len(stream)
    <3>1. PICK m : m = Len(buffer')
      OBVIOUS
    <3>2. m \in Nat /\ base + m <= Len(stream)
      BY <1>14, <3>1 DEF Stands
    <3>3. PICK l : l = Len(stream)
      OBVIOUS
    <3>4. base + m \in 0 .. l
      BY <1>8, <1>9, <3>2, <3>3
    <3> QED
      BY <1>16, <3>1, <3>3, <3>4
  <2>4. StreamStands(payloads, stream, start, e)'
    BY <1>1, <1>2, <1>6, <2>1, <2>2, <2>3 DEF StreamStands
  <2> QED
    BY <2>4 DEF StreamOK
<1> QED
  BY <1>5, <1>18, <1>19, <1>20 DEF FramingInv

LEMMA NothingReceived == FramingInv /\ ReceiveNothing => FramingInv'
<1> SUFFICES ASSUME FramingInv, ReceiveNothing
             PROVE  FramingInv'
  OBVIOUS
<1>1. /\ writer = "closed" /\ reader' = "ended" /\ buffer' = << >>
      /\ direction' = direction /\ script' = script /\ wire' = wire
      /\ expected' = expected /\ delivered' = delivered
      /\ UNCHANGED writerVars /\ UNCHANGED mailboxVars
  BY DEF ReceiveNothing
<1>2. sent' = sent /\ writer' = writer /\ outgoing' = outgoing
  BY <1>1 DEF writerVars
<1>3. BytesOK /\ sent \in Nat
  BY ScriptItems DEF FramingInv, BytesOK
<1>4. sent' \in Nat /\ sent <= sent'
  BY <1>2, <1>3
<1>5. ScriptOf' /\ MailboxOK' /\ PolledOK' /\ DeliveredOK'
  BY <1>1, <1>4, KeptByOthers
<1>6. << >> \in Seq(Byte)
  OBVIOUS
<1>7. BytesOK'
  BY <1>1, <1>2, <1>3, <1>6 DEF BytesOK
<1>8. OutgoingOK' /\ EndsOnlyWhenClosed' /\ StreamOK'
  BY <1>1, <1>2 DEF OutgoingOK, EndsOnlyWhenClosed, StreamOK
<1> QED
  BY <1>5, <1>7, <1>8 DEF FramingInv


(* A message read whole is the one that was sent in its place. *)
LEMMA MessageTaken ==
    ASSUME FramingInv, reader = "message", reader' = "header", buffer' = << >>,
           delivered' = Append(delivered, buffer), expected' = expected, wire' = wire,
           direction' = direction, script' = script, UNCHANGED writerVars
    PROVE  /\ BytesOK' /\ DeliveredOK' /\ OutgoingOK' /\ EndsOnlyWhenClosed' /\ StreamOK'
           /\ Len(delivered) + 1 \in 1 .. sent
           /\ MaySend(direction, script[Len(delivered) + 1], buffer)
<1>1. sent' = sent /\ writer' = writer /\ outgoing' = outgoing
  BY DEF writerVars
<1>2. BytesOK /\ sent \in Nat
  BY ScriptItems DEF FramingInv, BytesOK
<1>3. PICK payloads, stream, start, c : StreamStands(payloads, stream, start, c)
  BY DEF FramingInv, StreamOK
<1>4. PICK n, d : n = Len(delivered) /\ d = n + 1
  OBVIOUS
<1>5. /\ stream \in Seq(Byte) /\ start[d] \in Nat /\ d \in 1 .. sent + 1 /\ n \in Nat
      /\ c \in Nat /\ Len(stream) \in Nat /\ c <= Len(stream)
  BY <1>2, <1>3, <1>4, Positions
<1>6. /\ d <= sent /\ expected = Len(payloads[d]) /\ Len(buffer) = expected
      /\ c = start[d] + 4 + Len(buffer) /\ Stands(stream, start[d] + 4, buffer)
  BY <1>3, <1>4 DEF StreamStands, ReaderStands
<1>7. d \in 1 .. sent
  BY <1>2, <1>5, <1>6
<1>8. /\ payloads[d] \in Seq(Byte) /\ Stands(stream, start[d] + 4, payloads[d])
      /\ start[d + 1] = start[d] + 4 + Len(payloads[d])
      /\ MaySend(direction, script[d], payloads[d])
  BY <1>3, <1>7 DEF StreamStands, Laid
<1>9. buffer \in Seq(Byte) /\ start[d] + 4 \in Nat
  BY <1>2, <1>5 DEF BytesOK
<1>10. buffer = payloads[d]
  BY <1>5, <1>6, <1>8, <1>9, StandsAlone
<1>11. /\ delivered' \in Seq(Seq(Byte)) /\ Len(delivered') = d
       /\ \A i \in 1 .. d : delivered'[i] = IF i = d THEN buffer ELSE delivered[i]
  <2>1. delivered \in Seq(Seq(Byte)) /\ Len(delivered) = n
    BY <1>2, <1>4 DEF BytesOK
  <2> QED
    BY <1>4, <1>9, <2>1
<1>12. BytesOK'
  <2>1. << >> \in Seq(Byte)
    OBVIOUS
  <2> QED
    BY <1>1, <1>2, <1>6, <1>11, <2>1 DEF BytesOK
<1>13. DeliveredOK'
  <2>1. ASSUME NEW i \in 1 .. d
        PROVE  MaySend(direction, script[i], delivered'[i])
    <3>1. CASE i = d
      BY <1>8, <1>10, <1>11, <3>1
    <3>2. CASE i # d
      <4>1. i \in 1 .. n
        BY <1>4, <1>5, <3>2
      <4> QED
        BY <1>4, <1>11, <3>2, <4>1 DEF FramingInv, DeliveredOK
    <3> QED
      BY <3>1, <3>2
  <2> QED
    BY <1>11, <2>1 DEF DeliveredOK
<1>14. OutgoingOK' /\ EndsOnlyWhenClosed'
  BY <1>1 DEF FramingInv, OutgoingOK, EndsOnlyWhenClosed
<1>15. StreamOK'
  <2>1. c = start[d + 1] /\ start[d + 1] \in Nat
    BY <1>5, <1>6, <1>8
  <2>2. PICK e : e = d + 1
    OBVIOUS
  <2>3. Len(delivered') + 1 = e /\ c = start[e]
    BY <1>11, <2>1, <2>2
  <2>4. c \in 0 .. Len(stream)
    BY <1>3 DEF StreamStands
  <2>5. Stands(stream, c, << >>)
    BY <1>5, <2>4, NothingStands
  <2>6. Len(<< >>) = 0 /\ c = c + 0
    BY <1>5
  <2>7. ReaderStands(payloads, stream, start, c)'
    <3>1. PICK empty : empty = << >>
      OBVIOUS
    <3>2. c = start[e] + 0 /\ Stands(stream, start[e], empty) /\ Len(empty) = 0 /\ 0 <= 4
      BY <2>3, <2>5, <2>6, <3>1
    <3>3. Len(empty) <= 4 /\ c = start[e] + Len(empty)
      BY <3>2
    <3> QED
      BY <2>3, <3>1, <3>2, <3>3 DEF ReaderStands
  <2>8. WriterStands(stream, c)'
    BY <1>1, <1>3 DEF StreamStands, WriterStands
  <2>9. StreamStands(payloads, stream, start, c)'
    BY <1>1, <1>3, <2>7, <2>8 DEF StreamStands
  <2> QED
    BY <2>9 DEF StreamOK
<1> QED
  BY <1>4, <1>7, <1>8, <1>10, <1>12, <1>13, <1>14, <1>15

LEMMA StateTaken == FramingInv /\ TakeState => FramingInv'
<1> SUFFICES ASSUME FramingInv, TakeState
             PROVE  FramingInv'
  OBVIOUS
<1>1. /\ reader = "message" /\ reader' = "header" /\ buffer' = << >>
      /\ delivered' = Append(delivered, buffer) /\ expected' = expected /\ wire' = wire
      /\ direction' = direction /\ script' = script
      /\ UNCHANGED writerVars /\ UNCHANGED mailboxVars
  BY DEF TakeState
<1>2. BytesOK' /\ DeliveredOK' /\ OutgoingOK' /\ EndsOnlyWhenClosed' /\ StreamOK'
  BY <1>1, MessageTaken
<1>3. sent' = sent /\ mailbox' = mailbox /\ polled' = polled
  BY <1>1 DEF writerVars, mailboxVars
<1>4. ScriptOf' /\ MailboxOK' /\ PolledOK'
  BY <1>1, <1>3 DEF FramingInv, ScriptOf, MailboxOK, PolledOK, PolledIsOneKey
<1> QED
  BY <1>2, <1>4 DEF FramingInv

(* The mailbox holds one key's action, whatever it held before. *)
LEMMA ActionStored == FramingInv /\ StoreAction => FramingInv'
<1> SUFFICES ASSUME FramingInv, StoreAction
             PROVE  FramingInv'
  OBVIOUS
<1>1. /\ direction = "up" /\ reader = "message" /\ reader' = "header" /\ buffer' = << >>
      /\ delivered' = Append(delivered, buffer) /\ expected' = expected /\ wire' = wire
      /\ direction' = direction /\ script' = script /\ polled' = polled /\ UNCHANGED writerVars
  BY DEF StoreAction
<1>2. PICK d : d = Len(delivered) + 1
  OBVIOUS
<1>3. /\ BytesOK' /\ DeliveredOK' /\ OutgoingOK' /\ EndsOnlyWhenClosed' /\ StreamOK'
      /\ d \in 1 .. sent /\ MaySend(direction, script[d], buffer)
  BY <1>1, <1>2, MessageTaken
<1>4. sent' = sent
  BY <1>1 DEF writerVars
<1>5. ScriptOf'
  BY <1>1 DEF FramingInv, ScriptOf
<1>6. PolledOK'
  BY <1>1, <1>4 DEF FramingInv, PolledOK, PolledIsOneKey
<1>7. script[d] \in {"a", "r", "s"} /\ buffer = EncodeKey(script[d])
  <2>1. buffer = EncodeKey(script[d])
    BY <1>1, <1>3 DEF MaySend
  <2>2. d \in 1 .. Len(script)
    <3>1. sent \in 0 .. Len(script) /\ Len(script) \in Nat
      BY ScriptItems DEF FramingInv, BytesOK
    <3> QED
      BY <1>3, <3>1
  <2> QED
    BY <1>1, <2>1, <2>2, ScriptItems DEF FramingInv
<1>8. PICK to : to = Mutable(mailbox, NewUIAction)
  OBVIOUS
<1>9. to \in UIActionMessage
  <2>1. NewUIAction \in UIActionMessage
    BY DEF NewUIAction, UIActionMessage, Optional
  <2>2. mailbox # << >> => mailbox[1] \in UIActionMessage
    BY DEF FramingInv, MailboxOK, Optional
  <2> QED
    BY <1>8, <2>1, <2>2 DEF Mutable
<1>10. PICK action : action = ParseUIAction(NewUIAction, buffer)
  OBVIOUS
<1>11. ParsesAsUIAction(buffer) /\ action \in UIActionMessage /\ CopyUIAction(to, action) = action
  BY <1>7, <1>9, <1>10, KeyRead
<1>12. mailbox' = <<action>>
  BY <1>8, <1>10, <1>11 DEF StoreAction
<1>13. MailboxOK'
  <2>1. mailbox' \in Optional(UIActionMessage)
    BY <1>11, <1>12 DEF Optional
  <2>2. mailbox'[1] = ParseUIAction(NewUIAction, EncodeKey(script'[d])) /\ d \in 1 .. sent'
    BY <1>1, <1>3, <1>4, <1>7, <1>10, <1>12
  <2>3. direction' = "up"
    BY <1>1
  <2> QED
    BY <2>1, <2>2, <2>3 DEF MailboxOK
<1> QED
  BY <1>3, <1>5, <1>6, <1>13 DEF FramingInv

LEMMA ActionPolled == FramingInv /\ PollAction => FramingInv'
<1> SUFFICES ASSUME FramingInv, PollAction
             PROVE  FramingInv'
  OBVIOUS
<1>1. /\ mailbox # << >> /\ polled' = Append(polled, ActionRead(mailbox[1])) /\ mailbox' = << >>
      /\ direction' = direction /\ script' = script /\ wire' = wire
      /\ UNCHANGED writerVars /\ UNCHANGED readerVars
  BY DEF PollAction
<1>2. /\ sent' = sent /\ writer' = writer /\ outgoing' = outgoing
      /\ reader' = reader /\ buffer' = buffer /\ expected' = expected /\ delivered' = delivered
  BY <1>1 DEF writerVars, readerVars
<1>3. ScriptOf' /\ BytesOK' /\ DeliveredOK' /\ OutgoingOK' /\ EndsOnlyWhenClosed'
  BY <1>1, <1>2
     DEF FramingInv, ScriptOf, BytesOK, DeliveredOK, OutgoingOK, EndsOnlyWhenClosed
<1>4. StreamOK'
  BY <1>1, <1>2 DEF FramingInv, StreamOK, StreamStands, ReaderStands, WriterStands
<1>5. MailboxOK'
  <2>1. << >> \in Optional(UIActionMessage)
    BY DEF Optional
  <2> QED
    BY <1>1, <2>1 DEF MailboxOK
<1>6. PICK j \in 1 .. sent :
        direction = "up" /\ mailbox[1] = ParseUIAction(NewUIAction, EncodeKey(script[j]))
  BY <1>1 DEF FramingInv, MailboxOK
<1>7. script[j] \in {"a", "r", "s"}
  <2>1. j \in 1 .. Len(script)
    <3>1. sent \in 0 .. Len(script) /\ Len(script) \in Nat
      BY ScriptItems DEF FramingInv, BytesOK
    <3> QED
      BY <3>1
  <2> QED
    BY <1>6, <2>1, ScriptItems DEF FramingInv
<1>8. ActionRead(mailbox[1]) = Meaning(script[j])
  BY <1>6, <1>7, KeyIsUnderstood
<1>9. PICK response : response = Meaning(script[j])
  OBVIOUS
<1>10. response \in [response : {"accept", "reject", "none"}, save : BOOLEAN]
  BY <1>7, <1>9 DEF Meaning
<1>11. PICK n : n = Len(polled)
  OBVIOUS
<1>12. /\ polled \in Seq([response : {"accept", "reject", "none"}, save : BOOLEAN]) /\ n \in Nat
       /\ polled' = Append(polled, response)
  BY <1>1, <1>8, <1>9, <1>11 DEF FramingInv, PolledOK
<1>13. PolledIsOneKey'
  <2>1. DOMAIN polled' = 1 .. n + 1 /\ polled'[n + 1] = response
        /\ \A i \in 1 .. n : polled'[i] = polled[i] /\ i \in DOMAIN polled
    BY <1>11, <1>12
  <2>2. ASSUME NEW i \in 1 .. n + 1
        PROVE  \E k \in 1 .. sent : polled'[i] = Meaning(script[k])
    <3>1. CASE i = n + 1
      BY <1>9, <2>1, <3>1
    <3>2. CASE i # n + 1
      <4>1. i \in 1 .. n
        BY <1>12, <3>2
      <4> QED
        BY <2>1, <4>1 DEF FramingInv, PolledOK, PolledIsOneKey
    <3> QED
      BY <3>1, <3>2
  <2> QED
    BY <1>1, <1>2, <2>1, <2>2 DEF PolledIsOneKey
<1>14. PolledOK'
  BY <1>10, <1>12, <1>13 DEF PolledOK
<1> QED
  BY <1>3, <1>4, <1>5, <1>14 DEF FramingInv

-----------------------------------------------------------------------------
LEMMA FramingInvInit == FramingInit => FramingInv
<1> SUFFICES ASSUME FramingInit
             PROVE  FramingInv
  OBVIOUS
<1>1. /\ sent = 0 /\ writer = "idle" /\ outgoing = << >> /\ wire = << >>
      /\ reader = "header" /\ buffer = << >> /\ expected = 0 /\ delivered = << >>
      /\ mailbox = << >> /\ polled = << >>
  BY DEF FramingInit
<1>2. ScriptOf
  BY DEF FramingInit, ScriptOf
<1>3. << >> \in Seq(Byte) /\ << >> \in Seq(Seq(Byte)) /\ Len(<< >>) = 0
  OBVIOUS
<1>4. BytesOK
  <2>1. 0 \in 0 .. Len(script)
    BY <1>2, ScriptItems
  <2>2. 0 \in Nat /\ 0 <= MaxLength + 1
    BY SMT DEF MaxLength
  <2> QED
    BY <1>1, <1>3, <2>1, <2>2 DEF BytesOK
<1>5. MailboxOK
  BY <1>1 DEF MailboxOK, Optional
<1>6. PolledOK
  BY <1>1 DEF PolledOK, PolledIsOneKey
<1>7. DeliveredOK /\ OutgoingOK /\ EndsOnlyWhenClosed
  BY <1>1 DEF DeliveredOK, OutgoingOK, EndsOnlyWhenClosed
<1>8. StreamOK
  <2>1. PICK n : n = 0
    OBVIOUS
  <2>2. n \in Nat /\ n + 1 = 1 /\ 1 .. n = {}
    BY <2>1
  <2>3. PICK start : start = [i \in 1 .. n + 1 |-> 0]
    OBVIOUS
  <2>4. start \in [1 .. n + 1 -> Nat] /\ start[1] = 0
    BY <2>2, <2>3
  <2>5. PICK payloads : payloads = [i \in 1 .. n |-> << >>]
    OBVIOUS
  <2>6. payloads \in [1 .. n -> Seq(Byte)]
    BY <2>2, <2>5
  <2>7. Laid(n, payloads, << >>, start)
    BY <1>3, <2>2, <2>4, <2>6 DEF Laid
  <2>8. 0 \in 0 .. Len(<< >>) /\ 0 + 0 = 0
    BY <1>3
  <2>9. Stands(<< >>, 0, << >>)
    BY <1>3, <2>8, NothingStands
  <2>10. WriterStands(<< >>, 0)
    BY <1>1, <1>3, <2>8, <2>9 DEF WriterStands
  <2>11. ReaderStands(payloads, << >>, start, 0)
    <3>1. Len(delivered) + 1 = 1
      BY <1>1, <1>3
    <3>2. 0 = start[1] + 0 /\ 0 <= 4
      BY <2>4, <2>8
    <3> QED
      BY <1>1, <1>3, <2>4, <2>9, <3>1, <3>2 DEF ReaderStands
  <2>12. StreamStands(payloads, << >>, start, 0)
    BY <1>1, <2>1, <2>2, <2>7, <2>8, <2>10, <2>11 DEF StreamStands
  <2> QED
    BY <2>12 DEF StreamOK
<1> QED
  BY <1>2, <1>4, <1>5, <1>6, <1>7, <1>8 DEF FramingInv

LEMMA FramingInvNext == FramingInv /\ [FramingNext]_framingVars => FramingInv'
<1> SUFFICES ASSUME FramingInv, [FramingNext]_framingVars
             PROVE  FramingInv'
  OBVIOUS
<1>1. CASE SendHeader
  BY <1>1, HeaderSent
<1>2. CASE SendPayload
  BY <1>2, PayloadSent
<1>3. CASE SendAction
  BY <1>3, ActionSent
<1>4. CASE CloseWriter
  BY <1>4, WriterClosed
<1>5. CASE ReceiveMessage
  BY <1>5, HeaderReceived, LengthRead, PayloadReceived, NothingReceived DEF ReceiveMessage
<1>6. CASE TakeState
  BY <1>6, StateTaken
<1>7. CASE StoreAction
  BY <1>7, ActionStored
<1>8. CASE PollAction
  BY <1>8, ActionPolled
<1>9. CASE UNCHANGED framingVars
  <2>1. /\ direction' = direction /\ script' = script /\ wire' = wire
        /\ sent' = sent /\ writer' = writer /\ outgoing' = outgoing
        /\ reader' = reader /\ buffer' = buffer /\ expected' = expected /\ delivered' = delivered
        /\ mailbox' = mailbox /\ polled' = polled
    BY <1>9 DEF framingVars, writerVars, readerVars, mailboxVars
  <2>2. ScriptOf' /\ BytesOK' /\ DeliveredOK' /\ OutgoingOK' /\ EndsOnlyWhenClosed'
    BY <2>1 DEF FramingInv, ScriptOf, BytesOK, DeliveredOK, OutgoingOK, EndsOnlyWhenClosed
  <2>3. MailboxOK' /\ PolledOK'
    BY <2>1 DEF FramingInv, MailboxOK, PolledOK, PolledIsOneKey
  <2>4. StreamOK'
    BY <2>1 DEF FramingInv, StreamOK, StreamStands, ReaderStands, WriterStands
  <2> QED
    BY <2>2, <2>3, <2>4 DEF FramingInv
<1> QED
  BY <1>1, <1>2, <1>3, <1>4, <1>5, <1>6, <1>7, <1>8, <1>9 DEF FramingNext

(* The bytes under way, in the buffer and in the engine's second send are    *)
(* those that complete the stream laid out by the writer.                    *)
THEOREM FramingInvariant == FramingSpec => []FramingInv
<1>1. FramingInit => FramingInv
  BY FramingInvInit
<1>2. FramingInv /\ [FramingNext]_framingVars => FramingInv'
  BY FramingInvNext
<1> QED
  BY <1>1, <1>2, PTL DEF FramingSpec

(* Every part has its type, and what waits for the second send has the       *)
(* length the header gave, which is that of any order of the map fields.     *)
THEOREM FramingTypeCorrect == FramingSpec => []FramingTypeOK
<1>1. FramingInv => FramingTypeOK
  <2> SUFFICES ASSUME FramingInv
               PROVE  FramingTypeOK
    OBVIOUS
  <2>1. direction \in {"down", "up"}
    BY ScriptItems DEF FramingInv
  <2>2. expected \in 0 .. MaxLength + 1
    <3>1. MaxLength \in Nat
      BY SMT DEF MaxLength
    <3> QED
      BY <3>1 DEF FramingInv, BytesOK
  <2>3. ASSUME writer = "payload"
        PROVE  /\ IsGameState(BuildGameState(script[sent]))
               /\ LET state == BuildGameState(script[sent])
                  IN  Len(outgoing) = GameStateSize(state, SetToSeq(DOMAIN state.building_counts),
                                                           SetToSeq(DOMAIN state.resources))
    <3>1. sent # 0 /\ direction = "down" /\ MaySend("down", script[sent], outgoing)
      BY <2>3 DEF FramingInv, OutgoingOK
    <3>2. sent \in 1 .. Len(script)
      <4>1. sent \in 0 .. Len(script) /\ Len(script) \in Nat
        BY ScriptItems DEF FramingInv, BytesOK
      <4> QED
        BY <3>1, <4>1
    <3>3. IsGame(script[sent])
      BY <3>1, <3>2, ScriptItems DEF FramingInv
    <3> QED
      BY <3>1, <3>3, GameSent, GameStateIsOne
  <2> QED
    BY <2>1, <2>2, <2>3 DEF FramingTypeOK, FramingInv, BytesOK, MailboxOK
<1> QED
  BY <1>1, FramingInvariant, PTL

(* The end of the stream is only ever the end of the connection: no header   *)
(* the engine or the UI reads has an illegal length.                         *)
THEOREM OnlyClosingEnds == FramingSpec => []EndsOnlyWhenClosed
<1>1. FramingInv => EndsOnlyWhenClosed
  BY DEF FramingInv
<1> QED
  BY <1>1, FramingInvariant, PTL

(* Whatever chunks recv returns, each action delivered to the engine reads   *)
(* as the player meant the key that was pressed in its place.                *)
THEOREM KeysUnderstood == FramingSpec => []KeysAreUnderstood
<1>1. FramingInv => KeysAreUnderstood
  <2> SUFFICES ASSUME FramingInv, direction = "up", NEW i \in DOMAIN delivered
               PROVE  ActionRead(ParseUIAction(NewUIAction, delivered[i])) = Meaning(script[i])
    BY DEF KeysAreUnderstood
  <2>1. i \in 1 .. Len(delivered) /\ i \in 1 .. Len(script)
    <3>1. i \in 1 .. Len(delivered)
      BY DEF FramingInv, BytesOK
    <3>2. /\ Len(delivered) \in Nat /\ Len(delivered) <= sent
          /\ sent \in 0 .. Len(script) /\ Len(script) \in Nat
      BY ScriptItems DEF FramingInv, BytesOK
    <3> QED
      BY <3>1, <3>2
  <2>2. script[i] \in {"a", "r", "s"}
    BY <2>1, ScriptItems DEF FramingInv
  <2>3. delivered[i] = EncodeKey(script[i])
    BY <2>1 DEF FramingInv, DeliveredOK, MaySend
  <2> QED
    BY <2>2, <2>3, KeyIsUnderstood
<1> QED
  BY <1>1, FramingInvariant, PTL

(* What the engine polls is one key's meaning: the mailbox mixes no two.     *)
THEOREM PolledOneKey == FramingSpec => []PolledIsOneKey
<1>1. FramingInv => PolledIsOneKey
  BY DEF FramingInv, PolledOK
<1> QED
  BY <1>1, FramingInvariant, PTL
=============================================================================
