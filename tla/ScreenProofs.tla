----------------------------- MODULE ScreenProofs -----------------------------
(***************************************************************************)
(* That the UI shows the game it was sent, for every game and whatever the *)
(* order of the maps.                                                      *)
(*                                                                         *)
(* A message is a row of items, tag and content.  Encodes says that bytes  *)
(* are such a row wherever they stand; it is shown of what the engine      *)
(* writes, field by field.  The UI's decoder then takes the items one by   *)
(* one: after each of them its dataclass holds the fields that came so     *)
(* far.  The submessages are read the same way, the innermost first.       *)
(***************************************************************************)
EXTENDS FramingProofs

-----------------------------------------------------------------------------
LEMMA RowIsSequence ==
    ASSUME NEW S, NEW n \in Nat, NEW s \in [1 .. n -> S]
    PROVE  s \in Seq(S) /\ Len(s) = n
OBVIOUS

(* A field without its place: what the reader takes of it. *)
Item == [tag : Int, value : Seq(Byte)]

(* The items stand in the bytes from p up to q, the i-th one from at[i - 1]  *)
(* up to at[i].                                                              *)
InTurn(bytes, p, q, items, at) ==
    /\ at \in [0 .. Len(items) -> Nat \ {0}] /\ at[0] = p /\ at[Len(items)] = q
    /\ \A i \in 1 .. Len(items) :
         /\ at[i - 1] < at[i] /\ at[i] <= q
         /\ FieldAt(bytes, at[i - 1]) =
              [tag |-> items[i].tag, value |-> items[i].value, next |-> at[i]]

StandIn(bytes, p, part, items) == \E at : InTurn(bytes, p, p + Len(part), items, at)

(* Wherever part stands, the reader finds the items in it. *)
Encodes(part, items) ==
    /\ part \in Seq(Byte) /\ items \in Seq(Item)
    /\ \A bytes \in Seq(Byte), p \in Nat \ {0} :
         Holds(bytes, p, part) => StandIn(bytes, p, part, items)

LEMMA NothingEncodes == Encodes(<< >>, << >>)
<1>1. << >> \in Seq(Byte) /\ << >> \in Seq(Item) /\ Len(<< >>) = 0
  OBVIOUS
<1>2. ASSUME NEW bytes \in Seq(Byte), NEW p \in Nat \ {0}
      PROVE  StandIn(bytes, p, << >>, << >>)
  <2>1. PICK at : at = [i \in 0 .. 0 |-> p]
    OBVIOUS
  <2>2. at \in [0 .. 0 -> Nat \ {0}] /\ at[0] = p /\ p + 0 = p
    BY <2>1
  <2>3. \A i \in 1 .. 0 : FALSE
    OBVIOUS
  <2> QED
    BY <1>1, <2>2, <2>3 DEF StandIn, InTurn
<1> QED
  BY <1>1, <1>2 DEF Encodes

LEMMA ItemsFollow ==
    ASSUME NEW bytes, NEW p, NEW q \in Nat, NEW z \in Nat, q <= z,
           NEW f \in Seq(Item), NEW g \in Seq(Item), NEW a, NEW b,
           InTurn(bytes, p, q, f, a), InTurn(bytes, q, z, g, b)
    PROVE  \E at : InTurn(bytes, p, z, f \o g, at)
<1>1. PICK m, n, fg : m = Len(f) /\ n = Len(g) /\ fg = f \o g
  OBVIOUS
<1>2. /\ m \in Nat /\ n \in Nat /\ Len(fg) = m + n
      /\ \A i \in 1 .. m : fg[i] = f[i]
      /\ \A i \in 1 .. n : fg[m + i] = g[i]
  BY <1>1
<1>3. /\ a \in [0 .. m -> Nat \ {0}] /\ a[0] = p /\ a[m] = q
      /\ \A i \in 1 .. m :
           /\ a[i - 1] < a[i] /\ a[i] <= q
           /\ FieldAt(bytes, a[i - 1]) = [tag |-> f[i].tag, value |-> f[i].value, next |-> a[i]]
  BY <1>1 DEF InTurn
<1>4. /\ b \in [0 .. n -> Nat \ {0}] /\ b[0] = q /\ b[n] = z
      /\ \A i \in 1 .. n :
           /\ b[i - 1] < b[i] /\ b[i] <= z
           /\ FieldAt(bytes, b[i - 1]) = [tag |-> g[i].tag, value |-> g[i].value, next |-> b[i]]
  BY <1>1 DEF InTurn
<1>5. PICK at : at = [i \in 0 .. m + n |-> IF i <= m THEN a[i] ELSE b[i - m]]
  OBVIOUS
<1>6. \A i \in 0 .. m : at[i] = a[i] /\ i \in 0 .. m + n
  BY <1>2, <1>5
<1>7. \A i \in 0 .. n : at[m + i] = b[i]
  <2>1. ASSUME NEW i \in 0 .. n
        PROVE  at[m + i] = b[i]
    <3>1. m + i \in 0 .. m + n /\ (m + i) - m = i
      BY <1>2
    <3>2. CASE i = 0
      <4>1. m + i = m /\ m \in 0 .. m
        BY <1>2, <3>2
      <4> QED
        BY <1>3, <1>4, <1>6, <3>2, <4>1
    <3>3. CASE i # 0
      <4>1. ~(m + i <= m)
        BY <1>2, <3>3
      <4> QED
        BY <1>5, <3>1, <4>1
    <3> QED
      BY <3>2, <3>3
  <2> QED
    BY <2>1
<1>8. at \in [0 .. m + n -> Nat \ {0}]
  <2>1. ASSUME NEW i \in 0 .. m + n
        PROVE  at[i] \in Nat \ {0}
    <3>1. CASE i <= m
      BY <1>2, <1>3, <1>6, <3>1
    <3>2. CASE ~(i <= m)
      <4>1. i - m \in 0 .. n /\ m + (i - m) = i
        BY <1>2, <3>2
      <4>2. at[m + (i - m)] = b[i - m]
        BY <1>7, <4>1
      <4> QED
        BY <1>4, <4>1, <4>2
    <3> QED
      BY <3>1, <3>2
  <2> QED
    BY <1>5, <2>1
<1>9. ASSUME NEW i \in 1 .. m + n
      PROVE  /\ at[i - 1] < at[i] /\ at[i] <= z
             /\ FieldAt(bytes, at[i - 1]) = [tag |-> fg[i].tag, value |-> fg[i].value, next |-> at[i]]
  <2>1. CASE i <= m
    <3>1. i \in 1 .. m /\ i \in 0 .. m /\ i - 1 \in 0 .. m
      BY <1>2, <2>1
    <3>2. at[i] = a[i] /\ at[i - 1] = a[i - 1] /\ fg[i] = f[i]
      BY <1>2, <1>6, <3>1
    <3>3. a[i] \in Nat /\ a[i] <= q
      BY <1>3, <3>1
    <3>4. a[i] <= z
      BY <3>3
    <3> QED
      BY <1>3, <3>1, <3>2, <3>4
  <2>2. CASE ~(i <= m)
    <3>1. PICK j : j = i - m
      OBVIOUS
    <3>2. j \in 1 .. n /\ j \in 0 .. n /\ j - 1 \in 0 .. n /\ m + j = i /\ m + (j - 1) = i - 1
      BY <1>2, <2>2, <3>1
    <3>3. at[i] = b[j] /\ at[i - 1] = b[j - 1] /\ fg[i] = g[j]
      BY <1>2, <1>7, <3>2
    <3> QED
      BY <1>4, <3>2, <3>3
  <2> QED
    BY <2>1, <2>2
<1>10. at[0] = p /\ at[m + n] = z
  <2>1. 0 \in 0 .. m /\ n \in 0 .. n
    BY <1>2
  <2> QED
    BY <1>3, <1>4, <1>6, <1>7, <2>1
<1>11. InTurn(bytes, p, z, fg, at)
  BY <1>2, <1>8, <1>9, <1>10 DEF InTurn
<1> QED
  BY <1>1, <1>11

(* One part behind the other. *)
LEMMA PartsEncode ==
    ASSUME NEW s, NEW t, NEW f, NEW g, Encodes(s, f), Encodes(t, g)
    PROVE  Encodes(s \o t, f \o g)
<1>1. s \in Seq(Byte) /\ t \in Seq(Byte) /\ f \in Seq(Item) /\ g \in Seq(Item)
  BY DEF Encodes
<1>2. PICK st : st = s \o t
  OBVIOUS
<1>3. st \in Seq(Byte) /\ Len(st) = Len(s) + Len(t) /\ f \o g \in Seq(Item)
  BY <1>1, <1>2, Concatenation
<1>4. ASSUME NEW bytes \in Seq(Byte), NEW p \in Nat \ {0}, Holds(bytes, p, st)
      PROVE  StandIn(bytes, p, st, f \o g)
  <2>1. Holds(bytes, p, s) /\ Holds(bytes, p + Len(s), t)
    BY <1>1, <1>2, <1>4, HoldsParts
  <2>2. PICK q, z : q = p + Len(s) /\ z = p + Len(st)
    OBVIOUS
  <2>3. q \in Nat \ {0} /\ z \in Nat /\ z = q + Len(t) /\ q <= z
    <3>1. PICK m, n : m = Len(s) /\ n = Len(t)
      OBVIOUS
    <3>2. m \in Nat /\ n \in Nat /\ q = p + m /\ z = p + (m + n)
      BY <1>1, <1>3, <2>2, <3>1
    <3>3. q \in Nat \ {0} /\ z \in Nat /\ z = q + n /\ q <= z
      BY <3>2
    <3> QED
      BY <3>1, <3>3
  <2>4. PICK a : InTurn(bytes, p, q, f, a)
    BY <2>1, <2>2 DEF Encodes, StandIn
  <2>5. PICK b : InTurn(bytes, q, z, g, b)
    BY <2>1, <2>2, <2>3 DEF Encodes, StandIn
  <2>6. \E at : InTurn(bytes, p, z, f \o g, at)
    BY <1>1, <2>3, <2>4, <2>5, ItemsFollow
  <2> QED
    BY <2>2, <2>6 DEF StandIn
<1>5. Encodes(st, f \o g)
  BY <1>3, <1>4 DEF Encodes
<1> QED
  BY <1>2, <1>5

(* A single field. *)
LEMMA OneEncodes ==
    ASSUME NEW part \in Seq(Byte), Len(part) # 0, NEW item \in Item,
           \A bytes \in Seq(Byte), p \in Nat \ {0} : Holds(bytes, p, part) =>
               FieldAt(bytes, p) = [tag |-> item.tag, value |-> item.value, next |-> p + Len(part)]
    PROVE  Encodes(part, <<item>>)
<1>1. <<item>> \in Seq(Item) /\ Len(<<item>>) = 1 /\ <<item>>[1] = item /\ Len(part) \in Nat
  OBVIOUS
<1>2. ASSUME NEW bytes \in Seq(Byte), NEW p \in Nat \ {0}, Holds(bytes, p, part)
      PROVE  StandIn(bytes, p, part, <<item>>)
  <2>1. PICK q, items : q = p + Len(part) /\ items = <<item>>
    OBVIOUS
  <2>2. q \in Nat \ {0} /\ p < q
    BY <1>1, <2>1
  <2>3. FieldAt(bytes, p) = [tag |-> item.tag, value |-> item.value, next |-> q]
    BY <1>2, <2>1
  <2>4. PICK at : at = [i \in 0 .. 1 |-> IF i = 0 THEN p ELSE q]
    OBVIOUS
  <2>5. at \in [0 .. 1 -> Nat \ {0}] /\ at[0] = p /\ at[1] = q
    BY <2>2, <2>4
  <2>6. \A i \in 1 .. 1 : i = 1 /\ i - 1 = 0
    OBVIOUS
  <2>7. Len(items) = 1 /\ items[1] = item
    BY <1>1, <2>1
  <2>8. ASSUME NEW i \in 1 .. 1
        PROVE  /\ at[i - 1] < at[i] /\ at[i] <= q
               /\ FieldAt(bytes, at[i - 1]) =
                    [tag |-> items[i].tag, value |-> items[i].value, next |-> at[i]]
    <3>1. i = 1 /\ i - 1 = 0
      BY <2>6
    <3>2. at[i - 1] = p /\ at[i] = q /\ items[i] = item
      BY <2>5, <2>7, <3>1
    <3> QED
      BY <2>2, <2>3, <3>2
  <2>9. InTurn(bytes, p, q, items, at)
    BY <2>5, <2>7, <2>8 DEF InTurn
  <2> QED
    BY <2>1, <2>9 DEF StandIn
<1> QED
  BY <1>1, <1>2 DEF Encodes

(* A varint with its tag, and a submessage with its tag and length. *)
VarintItem(number, v) == [tag |-> Tag(number, VARINT), value |-> Varint(v)]
MessageItem(number, bytes) == [tag |-> Tag(number, LEN), value |-> bytes]

LEMMA ItemTypes ==
    ASSUME NEW number \in 1 .. 15
    PROVE  /\ \A v \in Int32 : VarintItem(number, v) \in Item
           /\ \A bytes \in Seq(Byte) : MessageItem(number, bytes) \in Item
<1>1. \A v \in Int32 : Varint(v) \in Seq(Byte)
  BY VarintTakes DEF Takes
<1>2. Tag(number, VARINT) \in Int /\ Tag(number, LEN) \in Int
  BY DEF Tag, VARINT, LEN
<1> QED
  BY <1>1, <1>2 DEF Item, VarintItem, MessageItem

LEMMA FlagEncodes ==
    ASSUME NEW number \in 1 .. 15, NEW v \in Int32
    PROVE  Encodes(Flag(number, v), <<VarintItem(number, v)>>)
<1>1. PICK part, item : part = Flag(number, v) /\ item = VarintItem(number, v)
  OBVIOUS
<1>2. Takes(part, 1 + VarintSize(v)) /\ VarintSize(v) \in 1 .. 10
  <2>1. VARINT \in {VARINT, LEN}
    OBVIOUS
  <2>2. Takes(Varint(Tag(number, VARINT)), 1) /\ Takes(Varint(v), VarintSize(v))
    BY <2>1, TagTakes, VarintTakes
  <2> QED
    BY <1>1, <2>2, PartsTake, VarintTakes DEF Flag
<1>3. part \in Seq(Byte) /\ Len(part) = 1 + VarintSize(v) /\ Len(part) # 0 /\ item \in Item
  <2>1. item \in Item
    BY <1>1, ItemTypes
  <2>2. part \in Seq(Byte) /\ Len(part) = 1 + VarintSize(v)
    BY <1>2 DEF Takes
  <2>3. 1 + VarintSize(v) # 0
    BY <1>2
  <2> QED
    BY <2>1, <2>2, <2>3
<1>4. item.tag = Tag(number, VARINT) /\ item.value = Varint(v)
  BY <1>1 DEF VarintItem
<1>5. ASSUME NEW bytes \in Seq(Byte), NEW p \in Nat \ {0}, Holds(bytes, p, part)
      PROVE  FieldAt(bytes, p) = [tag |-> item.tag, value |-> item.value, next |-> p + Len(part)]
  <2>1. Holds(bytes, p, Varint(Tag(number, VARINT)) \o Varint(v))
    BY <1>1, <1>5 DEF Flag
  <2>2. FieldAt(bytes, p) = [tag |-> Tag(number, VARINT), value |-> Varint(v),
                             next |-> p + 1 + VarintSize(v)]
    BY <2>1, VarintFieldRead
  <2>3. p + 1 + VarintSize(v) = p + Len(part)
    <3>1. PICK k : k = VarintSize(v)
      OBVIOUS
    <3>2. k \in Nat /\ Len(part) = 1 + k
      BY <1>2, <1>3, <3>1
    <3>3. p + 1 + k = p + (1 + k)
      BY <3>2
    <3> QED
      BY <3>1, <3>2, <3>3
  <2> QED
    BY <1>4, <2>2, <2>3
<1>6. Encodes(part, <<item>>)
  BY <1>3, <1>5, OneEncodes
<1> QED
  BY <1>1, <1>6

(* A field that is left out when it is zero. *)
VarintItems(number, v) == IF v = 0 THEN << >> ELSE <<VarintItem(number, v)>>

LEMMA VarintFieldEncodes ==
    ASSUME NEW number \in 1 .. 15, NEW v \in Int32
    PROVE  Encodes(VarintField(number, v), VarintItems(number, v))
<1>1. CASE v = 0
  BY <1>1, NothingEncodes DEF VarintField, VarintItems
<1>2. CASE v # 0
  <2>1. VarintField(number, v) = Flag(number, v) /\ VarintItems(number, v) = <<VarintItem(number, v)>>
    BY <1>2 DEF VarintField, VarintItems, Flag
  <2> QED
    BY <2>1, FlagEncodes
<1> QED
  BY <1>1, <1>2

LEMMA MessageFieldEncodes ==
    ASSUME NEW number \in 1 .. 15, NEW bytes, NEW size, Takes(bytes, size), size <= 16383
    PROVE  Encodes(MessageField(number, size, bytes), <<MessageItem(number, bytes)>>)
<1>1. PICK part, item : part = MessageField(number, size, bytes) /\ item = MessageItem(number, bytes)
  OBVIOUS
<1>2. bytes \in Seq(Byte) /\ Len(bytes) = size /\ size \in Nat /\ size \in Int32
  BY DEF Takes, Int32
<1>3. /\ Takes(part, MessageFieldSize(size)) /\ MessageFieldSize(size) \in 2 .. size + 3
      /\ VarintSize(size) \in 1 .. 10
  BY <1>1, <1>2, MessageFieldTakes, VarintTakes
<1>4. /\ part \in Seq(Byte) /\ Len(part) = 1 + VarintSize(size) + size /\ Len(part) # 0
      /\ item \in Item
  BY <1>1, <1>2, <1>3, ItemTypes DEF Takes, MessageFieldSize
<1>5. item.tag = Tag(number, LEN) /\ item.value = bytes
  BY <1>1 DEF MessageItem
<1>6. ASSUME NEW stream \in Seq(Byte), NEW p \in Nat \ {0}, Holds(stream, p, part)
      PROVE  FieldAt(stream, p) = [tag |-> item.tag, value |-> item.value, next |-> p + Len(part)]
  <2>1. Holds(stream, p, MessageField(number, Len(bytes), bytes)) /\ Len(bytes) \in Int32
    BY <1>1, <1>2, <1>6
  <2>2. FieldAt(stream, p) = [tag |-> Tag(number, LEN), value |-> bytes,
                              next |-> p + 1 + VarintSize(Len(bytes)) + Len(bytes)]
    BY <1>2, <2>1, MessageFieldRead
  <2>3. p + 1 + VarintSize(Len(bytes)) + Len(bytes) = p + Len(part)
    <3>1. PICK k : k = VarintSize(size)
      OBVIOUS
    <3>2. k \in Nat /\ size \in Nat /\ Len(bytes) = size /\ Len(part) = 1 + k + size
      BY <1>2, <1>3, <1>4, <3>1
    <3>3. p + 1 + k + size = p + (1 + k + size)
      BY <3>2
    <3> QED
      BY <3>1, <3>2, <3>3
  <2> QED
    BY <1>5, <2>2, <2>3
<1>7. Encodes(part, <<item>>)
  <2>1. part \in Seq(Byte) /\ Len(part) # 0 /\ item \in Item
    BY <1>4
  <2> QED
    BY <1>6, <2>1, OneEncodes
<1> QED
  BY <1>1, <1>7

(* Fields in a row. *)
LEMMA RowEncodes ==
    ASSUME NEW n \in Nat, NEW s, NEW f, s = [i \in 1 .. n |-> s[i]], f = [i \in 1 .. n |-> f[i]],
           \A i \in 1 .. n : Encodes(s[i], <<f[i]>>)
    PROVE  Encodes(FlattenSeq(s), f)
<1>1. \A i \in 1 .. n : s[i] \in Seq(Byte) /\ f[i] \in Item
  <2>1. ASSUME NEW i \in 1 .. n
        PROVE  s[i] \in Seq(Byte) /\ f[i] \in Item
    <3>1. s[i] \in Seq(Byte) /\ <<f[i]>> \in Seq(Item)
      BY DEF Encodes
    <3>2. Len(<<f[i]>>) = 1 /\ <<f[i]>>[1] = f[i] /\ 1 \in 1 .. 1
      OBVIOUS
    <3> QED
      BY <3>1, <3>2
  <2> QED
    BY <2>1
<1>2. s \in [1 .. n -> Seq(Byte)]
  BY <1>1
<1>3. PICK r \in [0 .. n -> Seq(Byte)] :
          r[0] = << >> /\ (\A i \in 1 .. n : r[i] = r[i - 1] \o s[i]) /\ FlattenSeq(s) = r[n]
  BY <1>2, FlattenSteps
<1> DEFINE T == {i \in 0 .. n : Encodes(r[i], [j \in 1 .. i |-> f[j]])}
<1>4. 0 \in T
  <2>1. [j \in 1 .. 0 |-> f[j]] = << >>
    OBVIOUS
  <2> QED
    BY <1>3, <2>1, NothingEncodes
<1>5. ASSUME NEW i \in 1 .. n, i - 1 \in T
      PROVE  i \in T
  <2>1. PICK g, h : g = [j \in 1 .. i - 1 |-> f[j]] /\ h = [j \in 1 .. i |-> f[j]]
    OBVIOUS
  <2>2. Encodes(r[i - 1], g) /\ Encodes(s[i], <<f[i]>>)
    BY <1>5, <2>1
  <2>3. g \o <<f[i]>> = h
    <3>0. PICK a : a = i - 1
      OBVIOUS
    <3>1. g \in Seq(Item) /\ Len(g) = a /\ h \in Seq(Item) /\ Len(h) = i /\ f[i] \in Item
      <4>1. a \in Nat /\ i \in Nat /\ \A j \in 1 .. a : j \in 1 .. n
        BY <3>0
      <4>2. \A j \in 1 .. i : j \in 1 .. n
        OBVIOUS
      <4>3. g = [j \in 1 .. a |-> f[j]] /\ h = [j \in 1 .. i |-> f[j]]
        BY <2>1, <3>0
      <4>4. g \in [1 .. a -> Item]
        BY <1>1, <4>1, <4>3
      <4>5. h \in [1 .. i -> Item]
        BY <1>1, <4>2, <4>3
      <4>6. a \in Nat /\ i \in Nat
        BY <4>1
      <4> QED
        BY <1>1, <4>4, <4>5, <4>6, RowIsSequence
    <3>2. PICK k : k = g \o <<f[i]>>
      OBVIOUS
    <3>3. k \in Seq(Item) /\ Len(k) = a + 1 /\ k[a + 1] = f[i] /\ \A j \in 1 .. a : k[j] = g[j]
      BY <3>1, <3>2
    <3>4. a + 1 = i
      BY <3>0
    <3>5. \A j \in 1 .. a : g[j] = f[j]
      BY <2>1, <3>0
    <3>6. ASSUME NEW j \in 1 .. i
          PROVE  k[j] = h[j]
      <4>1. h[j] = f[j]
        BY <2>1
      <4>2. j = i \/ j \in 1 .. a
        BY <3>0
      <4> QED
        BY <3>3, <3>4, <3>5, <4>1, <4>2
    <3>7. k \in Seq(Item) /\ Len(k) = i /\ h \in Seq(Item) /\ Len(h) = i
      BY <3>1, <3>3, <3>4
    <3>8. k = h
      BY <3>6, <3>7, SameEntries
    <3> QED
      BY <3>2, <3>8
  <2>4. Encodes(r[i], h)
    BY <1>3, <2>2, <2>3, PartsEncode
  <2> QED
    BY <2>1, <2>4
<1> HIDE DEF T
<1>6. n \in T
  BY <1>4, <1>5, UpToN
<1>7. Encodes(r[n], f)
  BY <1>6 DEF T
<1> QED
  BY <1>3, <1>7

(* What the reader makes of a message is its items, in order. *)
ReadAs(fields, items) ==
    /\ DOMAIN fields = 1 .. Len(items)
    /\ \A i \in 1 .. Len(items) : fields[i].tag = items[i].tag /\ fields[i].value = items[i].value

LEMMA FieldsAreItems ==
    ASSUME NEW bytes, NEW items, Encodes(bytes, items)
    PROVE  ReadAs(Fields(bytes), items)
<1>1. bytes \in Seq(Byte) /\ items \in Seq(Item)
  BY DEF Encodes
<1>2. Holds(bytes, 1, bytes) /\ 1 \in Nat \ {0}
  BY <1>1, HoldsItself
<1>3. PICK n, q : n = Len(items) /\ q = 1 + Len(bytes)
  OBVIOUS
<1>4. n \in Nat /\ q \in Nat /\ q > Len(bytes)
  BY <1>1, <1>3
<1>5. PICK at : InTurn(bytes, 1, q, items, at)
  BY <1>1, <1>2, <1>3 DEF Encodes, StandIn
<1>6. /\ at \in [0 .. n -> Nat \ {0}] /\ at[0] = 1 /\ at[n] = q
      /\ \A i \in 1 .. n :
           /\ at[i - 1] < at[i] /\ at[i] <= q
           /\ FieldAt(bytes, at[i - 1]) =
                [tag |-> items[i].tag, value |-> items[i].value, next |-> at[i]]
  BY <1>3, <1>5 DEF InTurn
<1>7. FieldsStand(bytes, n, at)
  <2>1. ASSUME NEW i \in 1 .. n
        PROVE  at[i - 1] <= Len(bytes) /\ FieldAt(bytes, at[i - 1]).next = at[i]
    <3>1. i - 1 \in 0 .. n /\ i \in 0 .. n
      BY <1>4
    <3>2. at[i - 1] \in Nat /\ at[i] \in Nat /\ at[i - 1] < at[i] /\ at[i] <= q
      BY <1>6, <3>1
    <3>3. at[i - 1] <= Len(bytes)
      BY <1>1, <1>3, <3>2
    <3>4. FieldAt(bytes, at[i - 1]) = [tag |-> items[i].tag, value |-> items[i].value, next |-> at[i]]
      BY <1>6
    <3>5. FieldAt(bytes, at[i - 1]).next = at[i]
      BY <3>4
    <3> QED
      BY <3>3, <3>5
  <2>2. at \in [0 .. n -> Nat]
    BY <1>6
  <2> QED
    BY <1>4, <1>6, <2>1, <2>2 DEF FieldsStand
<1>8. Fields(bytes) = [i \in 1 .. n |-> FieldAt(bytes, at[i - 1])]
  BY <1>1, <1>4, <1>7, FieldsInTurn
<1>9. ASSUME NEW i \in 1 .. n
      PROVE  Fields(bytes)[i].tag = items[i].tag /\ Fields(bytes)[i].value = items[i].value
  <2>1. Fields(bytes)[i] = FieldAt(bytes, at[i - 1])
    BY <1>8
  <2>2. FieldAt(bytes, at[i - 1]) = [tag |-> items[i].tag, value |-> items[i].value, next |-> at[i]]
    BY <1>6
  <2> QED
    BY <2>1, <2>2
<1>10. DOMAIN Fields(bytes) = 1 .. n
  BY <1>8
<1> QED
  BY <1>3, <1>9, <1>10 DEF ReadAs

-----------------------------------------------------------------------------
(* The UI's decoder takes one item after another. *)
LEMMA EffectFold ==
    ASSUME NEW n \in Nat, NEW s, DOMAIN s = 1 .. n
    PROVE  \E r : /\ r[0] = UIResourceEffect
                  /\ \A i \in 1 .. n : r[i] = SetEffectField(r[i - 1], s[i])
                  /\ FoldLeft(SetEffectField, UIResourceEffect, s) = r[n]
<1>1. PICK V : V = {0} \union {Int32Of(s[i].value) : i \in 1 .. n}
  OBVIOUS
<1>2. PICK A : A = [resource_type : V, delta_value : V]
  OBVIOUS
<1>3. UIResourceEffect \in A
  BY <1>1, <1>2 DEF UIResourceEffect
<1>4. ASSUME NEW e \in A, NEW i \in 1 .. n
      PROVE  SetEffectField(e, s[i]) \in A
  <2>1. PICK v : v = Int32Of(s[i].value)
    OBVIOUS
  <2>2. v \in V
    BY <1>1, <2>1
  <2>3. [e EXCEPT !.resource_type = v] \in A /\ [e EXCEPT !.delta_value = v] \in A
    BY <1>2, <2>2
  <2> QED
    BY <2>1, <2>3 DEF SetEffectField
<1>5. PICK g : g = [p \in (1 .. n) \X A |-> SetEffectField(p[2], s[p[1]])]
  OBVIOUS
<1>6. g \in [(1 .. n) \X A -> A]
  BY <1>4, <1>5
<1>7. PICK folds \in [SUBSET (1 .. n) -> A] : LeftFoldsOn(folds, g, UIResourceEffect, n)
  BY <1>3, <1>6, LeftFoldsExist
<1> DEFINE FoldOn(f) == f = [t \in SUBSET (1 .. n) |->
                              IF t = {} THEN UIResourceEffect
                              ELSE SetEffectField(f[t \ {Max(t)}], s[Max(t)])]
           chosen == CHOOSE f : FoldOn(f)
<1>8. ASSUME NEW t \in SUBSET (1 .. n), t # {}
      PROVE  g[<<Max(t), folds[t \ {Max(t)}]>>] = SetEffectField(folds[t \ {Max(t)}], s[Max(t)])
  <2>1. Max(t) \in 1 .. n /\ folds[t \ {Max(t)}] \in A
    BY <1>8, MaxOfNumbers
  <2>2. <<Max(t), folds[t \ {Max(t)}]>> \in (1 .. n) \X A
    BY <2>1
  <2> QED
    BY <1>5, <2>2
<1>9. FoldOn(folds)
  BY <1>7, <1>8 DEF LeftFoldsOn
<1>10. FoldOn(chosen)
  <2> HIDE DEF FoldOn
  <2> QED BY <1>9
<1>11. FoldLeft(SetEffectField, UIResourceEffect, s) = chosen[1 .. n]
  BY DEF FoldLeft, MapThenFoldSet
<1> HIDE DEF chosen
<1>12. PICK r : r = [i \in 0 .. n |-> chosen[1 .. i]]
  OBVIOUS
<1>13. r[0] = UIResourceEffect
  <2>1. 1 .. 0 = {} /\ 0 \in 0 .. n
    OBVIOUS
  <2> QED
    BY <1>10, <1>12, <2>1
<1>14. ASSUME NEW i \in 1 .. n
       PROVE  r[i] = SetEffectField(r[i - 1], s[i])
  <2>1. i \in 0 .. n /\ i - 1 \in 0 .. n /\ i \in 1 .. i /\ 1 .. i \in SUBSET (1 .. n)
    OBVIOUS
  <2>2. chosen[1 .. i] = SetEffectField(chosen[(1 .. i) \ {Max(1 .. i)}], s[Max(1 .. i)])
    BY <1>10, <2>1
  <2> QED
    BY <1>12, <2>1, <2>2, MaxOfInterval
<1>15. FoldLeft(SetEffectField, UIResourceEffect, s) = r[n]
  BY <1>11, <1>12
<1> QED
  BY <1>13, <1>14, <1>15

LEMMA BuildingFold ==
    ASSUME NEW n \in Nat, NEW s, DOMAIN s = 1 .. n
    PROVE  \E r : /\ r[0] = UIBuilding
                  /\ \A i \in 1 .. n : r[i] = SetBuildingField(r[i - 1], s[i])
                  /\ FoldLeft(SetBuildingField, UIBuilding, s) = r[n]
<1>1. PICK V : V = {0} \union {Int32Of(s[i].value) : i \in 1 .. n}
  OBVIOUS
<1>2. PICK W : W = {ParseEffect(s[i].value) : i \in 1 .. n}
  OBVIOUS
<1>3. PICK A : A = [type : V, build_cost : V, ticks_to_complete : V, effects : Seq(W)]
  OBVIOUS
<1>4. UIBuilding \in A
  <2>1. << >> \in Seq(W) /\ 0 \in V
    BY <1>1
  <2> QED
    BY <1>3, <2>1 DEF UIBuilding
<1>5. ASSUME NEW b \in A, NEW i \in 1 .. n
      PROVE  SetBuildingField(b, s[i]) \in A
  <2>1. PICK v, w, more : v = Int32Of(s[i].value) /\ w = ParseEffect(s[i].value)
                          /\ more = Append(b.effects, w)
    OBVIOUS
  <2>2. v \in V /\ w \in W
    BY <1>1, <1>2, <2>1
  <2>3. more \in Seq(W)
    BY <1>3, <2>1, <2>2
  <2>4. /\ [b EXCEPT !.type = v] \in A /\ [b EXCEPT !.build_cost = v] \in A
        /\ [b EXCEPT !.ticks_to_complete = v] \in A
        /\ [b EXCEPT !.effects = more] \in A
    BY <1>3, <2>2, <2>3
  <2> QED
    BY <2>1, <2>4 DEF SetBuildingField
<1>6. PICK g : g = [p \in (1 .. n) \X A |-> SetBuildingField(p[2], s[p[1]])]
  OBVIOUS
<1>7. g \in [(1 .. n) \X A -> A]
  BY <1>5, <1>6
<1>8. PICK folds \in [SUBSET (1 .. n) -> A] : LeftFoldsOn(folds, g, UIBuilding, n)
  BY <1>4, <1>7, LeftFoldsExist
<1> DEFINE FoldOn(f) == f = [t \in SUBSET (1 .. n) |->
                              IF t = {} THEN UIBuilding
                              ELSE SetBuildingField(f[t \ {Max(t)}], s[Max(t)])]
           chosen == CHOOSE f : FoldOn(f)
<1>9. ASSUME NEW t \in SUBSET (1 .. n), t # {}
      PROVE  g[<<Max(t), folds[t \ {Max(t)}]>>] = SetBuildingField(folds[t \ {Max(t)}], s[Max(t)])
  <2>1. Max(t) \in 1 .. n /\ folds[t \ {Max(t)}] \in A
    BY <1>9, MaxOfNumbers
  <2>2. <<Max(t), folds[t \ {Max(t)}]>> \in (1 .. n) \X A
    BY <2>1
  <2> QED
    BY <1>6, <2>2
<1>10. FoldOn(folds)
  BY <1>8, <1>9 DEF LeftFoldsOn
<1>11. FoldOn(chosen)
  <2> HIDE DEF FoldOn
  <2> QED BY <1>10
<1>12. FoldLeft(SetBuildingField, UIBuilding, s) = chosen[1 .. n]
  BY DEF FoldLeft, MapThenFoldSet
<1> HIDE DEF chosen
<1>13. PICK r : r = [i \in 0 .. n |-> chosen[1 .. i]]
  OBVIOUS
<1>14. r[0] = UIBuilding
  <2>1. 1 .. 0 = {} /\ 0 \in 0 .. n
    OBVIOUS
  <2> QED
    BY <1>11, <1>13, <2>1
<1>15. ASSUME NEW i \in 1 .. n
       PROVE  r[i] = SetBuildingField(r[i - 1], s[i])
  <2>1. i \in 0 .. n /\ i - 1 \in 0 .. n /\ i \in 1 .. i /\ 1 .. i \in SUBSET (1 .. n)
    OBVIOUS
  <2>2. chosen[1 .. i] = SetBuildingField(chosen[(1 .. i) \ {Max(1 .. i)}], s[Max(1 .. i)])
    BY <1>11, <2>1
  <2> QED
    BY <1>13, <2>1, <2>2, MaxOfInterval
<1>16. FoldLeft(SetBuildingField, UIBuilding, s) = r[n]
  BY <1>12, <1>13
<1> QED
  BY <1>14, <1>15, <1>16

LEMMA PetitionFold ==
    ASSUME NEW n \in Nat, NEW s, DOMAIN s = 1 .. n
    PROVE  \E r : /\ r[0] = UIPetition
                  /\ \A i \in 1 .. n : r[i] = SetPetitionField(r[i - 1], s[i])
                  /\ FoldLeft(SetPetitionField, UIPetition, s) = r[n]
<1>1. PICK V : V = {0} \union {Int32Of(s[i].value) : i \in 1 .. n}
  OBVIOUS
<1>2. PICK B : B = {<< >>} \union {<<ParseBuilding(s[i].value)>> : i \in 1 .. n}
  OBVIOUS
<1>3. PICK A : A = [id : V, building : B]
  OBVIOUS
<1>4. UIPetition \in A
  BY <1>1, <1>2, <1>3 DEF UIPetition
<1>5. ASSUME NEW p \in A, NEW i \in 1 .. n
      PROVE  SetPetitionField(p, s[i]) \in A
  <2>1. PICK v, b : v = Int32Of(s[i].value) /\ b = <<ParseBuilding(s[i].value)>>
    OBVIOUS
  <2>2. v \in V /\ b \in B
    BY <1>1, <1>2, <2>1
  <2>3. [p EXCEPT !.id = v] \in A /\ [p EXCEPT !.building = b] \in A
    BY <1>3, <2>2
  <2> QED
    BY <2>1, <2>3 DEF SetPetitionField
<1>6. PICK g : g = [p \in (1 .. n) \X A |-> SetPetitionField(p[2], s[p[1]])]
  OBVIOUS
<1>7. g \in [(1 .. n) \X A -> A]
  BY <1>5, <1>6
<1>8. PICK folds \in [SUBSET (1 .. n) -> A] : LeftFoldsOn(folds, g, UIPetition, n)
  BY <1>4, <1>7, LeftFoldsExist
<1> DEFINE FoldOn(f) == f = [t \in SUBSET (1 .. n) |->
                              IF t = {} THEN UIPetition
                              ELSE SetPetitionField(f[t \ {Max(t)}], s[Max(t)])]
           chosen == CHOOSE f : FoldOn(f)
<1>9. ASSUME NEW t \in SUBSET (1 .. n), t # {}
      PROVE  g[<<Max(t), folds[t \ {Max(t)}]>>] = SetPetitionField(folds[t \ {Max(t)}], s[Max(t)])
  <2>1. Max(t) \in 1 .. n /\ folds[t \ {Max(t)}] \in A
    BY <1>9, MaxOfNumbers
  <2>2. <<Max(t), folds[t \ {Max(t)}]>> \in (1 .. n) \X A
    BY <2>1
  <2> QED
    BY <1>6, <2>2
<1>10. FoldOn(folds)
  BY <1>8, <1>9 DEF LeftFoldsOn
<1>11. FoldOn(chosen)
  <2> HIDE DEF FoldOn
  <2> QED BY <1>10
<1>12. FoldLeft(SetPetitionField, UIPetition, s) = chosen[1 .. n]
  BY DEF FoldLeft, MapThenFoldSet
<1> HIDE DEF chosen
<1>13. PICK r : r = [i \in 0 .. n |-> chosen[1 .. i]]
  OBVIOUS
<1>14. r[0] = UIPetition
  <2>1. 1 .. 0 = {} /\ 0 \in 0 .. n
    OBVIOUS
  <2> QED
    BY <1>11, <1>13, <2>1
<1>15. ASSUME NEW i \in 1 .. n
       PROVE  r[i] = SetPetitionField(r[i - 1], s[i])
  <2>1. i \in 0 .. n /\ i - 1 \in 0 .. n /\ i \in 1 .. i /\ 1 .. i \in SUBSET (1 .. n)
    OBVIOUS
  <2>2. chosen[1 .. i] = SetPetitionField(chosen[(1 .. i) \ {Max(1 .. i)}], s[Max(1 .. i)])
    BY <1>11, <2>1
  <2> QED
    BY <1>13, <2>1, <2>2, MaxOfInterval
<1>16. FoldLeft(SetPetitionField, UIPetition, s) = r[n]
  BY <1>12, <1>13
<1> QED
  BY <1>14, <1>15, <1>16

EntryStep(number, part, field) ==
    IF field.tag \div 8 = number THEN Int32Of(field.value) ELSE part

EntryPartOf(number, fields) ==
    FoldLeft(LAMBDA part, field : IF field.tag \div 8 = number THEN Int32Of(field.value) ELSE part,
             0, fields)

LEMMA EntryFold ==
    ASSUME NEW n \in Nat, NEW number, NEW s, DOMAIN s = 1 .. n
    PROVE  \E r : /\ r[0] = 0
                  /\ \A i \in 1 .. n : r[i] = EntryStep(number, r[i - 1], s[i])
                  /\ EntryPartOf(number, s) = r[n]
<1>1. PICK V : V = {0} \union {Int32Of(s[i].value) : i \in 1 .. n}
  OBVIOUS
<1>2. PICK A : A = V
  OBVIOUS
<1>3. 0 \in A
  BY <1>1, <1>2
<1>4. ASSUME NEW v \in A, NEW i \in 1 .. n
      PROVE  EntryStep(number, v, s[i]) \in A
  BY <1>1, <1>2 DEF EntryStep
<1>5. PICK g : g = [p \in (1 .. n) \X A |-> EntryStep(number, p[2], s[p[1]])]
  OBVIOUS
<1>6. g \in [(1 .. n) \X A -> A]
  BY <1>4, <1>5
<1>7. PICK folds \in [SUBSET (1 .. n) -> A] : LeftFoldsOn(folds, g, 0, n)
  BY <1>3, <1>6, LeftFoldsExist
<1> DEFINE FoldOn(f) == f = [t \in SUBSET (1 .. n) |->
                              IF t = {} THEN 0
                              ELSE EntryStep(number, f[t \ {Max(t)}], s[Max(t)])]
           chosen == CHOOSE f : FoldOn(f)
<1>8. ASSUME NEW t \in SUBSET (1 .. n), t # {}
      PROVE  g[<<Max(t), folds[t \ {Max(t)}]>>] = EntryStep(number, folds[t \ {Max(t)}], s[Max(t)])
  <2>1. Max(t) \in 1 .. n /\ folds[t \ {Max(t)}] \in A
    BY <1>8, MaxOfNumbers
  <2>2. <<Max(t), folds[t \ {Max(t)}]>> \in (1 .. n) \X A
    BY <2>1
  <2> QED
    BY <1>5, <2>2
<1>9. FoldOn(folds)
  BY <1>7, <1>8 DEF LeftFoldsOn
<1>10. FoldOn(chosen)
  <2> HIDE DEF FoldOn
  <2> QED BY <1>9
<1>11. EntryPartOf(number, s) = chosen[1 .. n]
  BY DEF EntryPartOf, EntryStep, FoldLeft, MapThenFoldSet
<1> HIDE DEF chosen
<1>12. PICK r : r = [i \in 0 .. n |-> chosen[1 .. i]]
  OBVIOUS
<1>13. r[0] = 0
  <2>1. 1 .. 0 = {} /\ 0 \in 0 .. n
    OBVIOUS
  <2> QED
    BY <1>10, <1>12, <2>1
<1>14. ASSUME NEW i \in 1 .. n
       PROVE  r[i] = EntryStep(number, r[i - 1], s[i])
  <2>1. i \in 0 .. n /\ i - 1 \in 0 .. n /\ i \in 1 .. i /\ 1 .. i \in SUBSET (1 .. n)
    OBVIOUS
  <2>2. chosen[1 .. i] = EntryStep(number, chosen[(1 .. i) \ {Max(1 .. i)}], s[Max(1 .. i)])
    BY <1>10, <2>1
  <2> QED
    BY <1>12, <2>1, <2>2, MaxOfInterval
<1>15. EntryPartOf(number, s) = r[n]
  BY <1>11, <1>12
<1> QED
  BY <1>13, <1>14, <1>15

(* Maps from some of K to V. *)
MapsOf(K, V) == UNION {[D -> V] : D \in SUBSET K}

LEMMA NothingIsMap ==
    ASSUME NEW K, NEW V
    PROVE  << >> \in MapsOf(K, V) /\ << >> = [x \in {} |-> x]
<1>1. << >> = [x \in {} |-> x]
  OBVIOUS
<1>2. << >> \in [{} -> V] /\ {} \in SUBSET K
  BY <1>1
<1> QED
  BY <1>1, <1>2 DEF MapsOf

LEMMA EntryAdded ==
    ASSUME NEW K, NEW V, NEW map \in MapsOf(K, V), NEW bytes,
           EntryPart(bytes, 1) \in K, EntryPart(bytes, 2) \in V
    PROVE  WithEntry(map, bytes) \in MapsOf(K, V)
<1>1. PICK D \in SUBSET K : map \in [D -> V]
  BY DEF MapsOf
<1>2. PICK k, v : k = EntryPart(bytes, 1) /\ v = EntryPart(bytes, 2)
  OBVIOUS
<1>3. WithEntry(map, bytes) = [x \in D \union {k} |-> IF x = k THEN v ELSE map[x]]
  BY <1>1, <1>2 DEF WithEntry
<1>4. [x \in D \union {k} |-> IF x = k THEN v ELSE map[x]] \in [D \union {k} -> V]
  BY <1>1, <1>2
<1>5. D \union {k} \in SUBSET K
  BY <1>2
<1> QED
  BY <1>3, <1>4, <1>5 DEF MapsOf

LEMMA GameStateFold ==
    ASSUME NEW n \in Nat, NEW s, DOMAIN s = 1 .. n
    PROVE  \E r : /\ r[0] = UIGameState
                  /\ \A i \in 1 .. n : r[i] = SetGameStateField(r[i - 1], s[i])
                  /\ FoldLeft(SetGameStateField, UIGameState, s) = r[n]
<1>1. PICK K, V : K = {EntryPart(s[i].value, 1) : i \in 1 .. n}
                   /\ V = {EntryPart(s[i].value, 2) : i \in 1 .. n}
  OBVIOUS
<1>2. PICK P : P = {<< >>} \union {<<ParsePetition(s[i].value)>> : i \in 1 .. n}
  OBVIOUS
<1>3. PICK A : A = [building_counts : MapsOf(K, V), resources : MapsOf(K, V), current_petition : P]
  OBVIOUS
<1>4. UIGameState \in A
  BY <1>2, <1>3, NothingIsMap DEF UIGameState
<1>5. ASSUME NEW g \in A, NEW i \in 1 .. n
      PROVE  SetGameStateField(g, s[i]) \in A
  <2>1. PICK x, y, p : x = WithEntry(g.building_counts, s[i].value)
                       /\ y = WithEntry(g.resources, s[i].value)
                       /\ p = <<ParsePetition(s[i].value)>>
    OBVIOUS
  <2>2. EntryPart(s[i].value, 1) \in K /\ EntryPart(s[i].value, 2) \in V /\ p \in P
    BY <1>1, <1>2, <2>1
  <2>3. g.building_counts \in MapsOf(K, V) /\ g.resources \in MapsOf(K, V)
    BY <1>3
  <2>4. x \in MapsOf(K, V) /\ y \in MapsOf(K, V)
    BY <1>1, <2>1, <2>3, EntryAdded
  <2>5. /\ [g EXCEPT !.building_counts = x] \in A /\ [g EXCEPT !.resources = y] \in A
        /\ [g EXCEPT !.current_petition = p] \in A
    BY <1>3, <2>2, <2>4
  <2> QED
    BY <2>1, <2>5 DEF SetGameStateField
<1>6. PICK g : g = [p \in (1 .. n) \X A |-> SetGameStateField(p[2], s[p[1]])]
  OBVIOUS
<1>7. g \in [(1 .. n) \X A -> A]
  BY <1>5, <1>6
<1>8. PICK folds \in [SUBSET (1 .. n) -> A] : LeftFoldsOn(folds, g, UIGameState, n)
  BY <1>4, <1>7, LeftFoldsExist
<1> DEFINE FoldOn(f) == f = [t \in SUBSET (1 .. n) |->
                              IF t = {} THEN UIGameState
                              ELSE SetGameStateField(f[t \ {Max(t)}], s[Max(t)])]
           chosen == CHOOSE f : FoldOn(f)
<1>9. ASSUME NEW t \in SUBSET (1 .. n), t # {}
      PROVE  g[<<Max(t), folds[t \ {Max(t)}]>>] = SetGameStateField(folds[t \ {Max(t)}], s[Max(t)])
  <2>1. Max(t) \in 1 .. n /\ folds[t \ {Max(t)}] \in A
    BY <1>9, MaxOfNumbers
  <2>2. <<Max(t), folds[t \ {Max(t)}]>> \in (1 .. n) \X A
    BY <2>1
  <2> QED
    BY <1>6, <2>2
<1>10. FoldOn(folds)
  BY <1>8, <1>9 DEF LeftFoldsOn
<1>11. FoldOn(chosen)
  <2> HIDE DEF FoldOn
  <2> QED BY <1>10
<1>12. FoldLeft(SetGameStateField, UIGameState, s) = chosen[1 .. n]
  BY DEF FoldLeft, MapThenFoldSet
<1> HIDE DEF chosen
<1>13. PICK r : r = [i \in 0 .. n |-> chosen[1 .. i]]
  OBVIOUS
<1>14. r[0] = UIGameState
  <2>1. 1 .. 0 = {} /\ 0 \in 0 .. n
    OBVIOUS
  <2> QED
    BY <1>11, <1>13, <2>1
<1>15. ASSUME NEW i \in 1 .. n
       PROVE  r[i] = SetGameStateField(r[i - 1], s[i])
  <2>1. i \in 0 .. n /\ i - 1 \in 0 .. n /\ i \in 1 .. i /\ 1 .. i \in SUBSET (1 .. n)
    OBVIOUS
  <2>2. chosen[1 .. i] = SetGameStateField(chosen[(1 .. i) \ {Max(1 .. i)}], s[Max(1 .. i)])
    BY <1>11, <2>1
  <2> QED
    BY <1>13, <2>1, <2>2, MaxOfInterval
<1>16. FoldLeft(SetGameStateField, UIGameState, s) = r[n]
  BY <1>12, <1>13
<1> QED
  BY <1>14, <1>15, <1>16

-----------------------------------------------------------------------------
(* The fields of s behind the a-th are items. *)
FieldsFollow(s, a, items) ==
    /\ a \in Nat /\ items \in Seq(Item)
    /\ \A i \in 1 .. Len(items) : s[a + i].tag = items[i].tag /\ s[a + i].value = items[i].value

LEMMA FollowingParts ==
    ASSUME NEW s, NEW a, NEW f \in Seq(Item), NEW g \in Seq(Item), FieldsFollow(s, a, f \o g)
    PROVE  FieldsFollow(s, a, f) /\ FieldsFollow(s, a + Len(f), g)
<1>1. PICK m, n, fg : m = Len(f) /\ n = Len(g) /\ fg = f \o g
  OBVIOUS
<1>2. /\ m \in Nat /\ n \in Nat /\ Len(fg) = m + n /\ a \in Nat
      /\ \A i \in 1 .. m : fg[i] = f[i]
      /\ \A i \in 1 .. n : fg[m + i] = g[i]
  BY <1>1 DEF FieldsFollow
<1>3. \A i \in 1 .. m + n : s[a + i].tag = fg[i].tag /\ s[a + i].value = fg[i].value
  BY <1>1, <1>2 DEF FieldsFollow
<1>4. \A i \in 1 .. m : i \in 1 .. m + n
  BY <1>2
<1>5. \A i \in 1 .. n : m + i \in 1 .. m + n /\ (a + m) + i = a + (m + i)
  BY <1>2
<1>6. a + m \in Nat
  BY <1>2
<1>7. FieldsFollow(s, a, f)
  BY <1>1, <1>2, <1>3, <1>4 DEF FieldsFollow
<1>8. FieldsFollow(s, a + m, g)
  BY <1>1, <1>2, <1>3, <1>5, <1>6 DEF FieldsFollow
<1> QED
  BY <1>1, <1>7, <1>8

LEMMA AllFollow ==
    ASSUME NEW bytes, NEW items, Encodes(bytes, items)
    PROVE  DOMAIN Fields(bytes) = 1 .. Len(items) /\ FieldsFollow(Fields(bytes), 0, items)
<1>1. ReadAs(Fields(bytes), items) /\ items \in Seq(Item)
  BY FieldsAreItems DEF Encodes
<1>2. \A i \in 1 .. Len(items) : 0 + i = i
  OBVIOUS
<1> QED
  BY <1>1, <1>2 DEF ReadAs, FieldsFollow

(* A number that is written, or left out for being zero. *)
LEMMA NumberFollows ==
    ASSUME NEW s, NEW a, NEW number \in 1 .. 15, NEW v \in Int32, FieldsFollow(s, a, VarintItems(number, v))
    PROVE  \/ v = 0 /\ Len(VarintItems(number, v)) = 0
           \/ /\ Len(VarintItems(number, v)) = 1
              /\ s[a + 1].tag = 8 * number /\ Int32Of(s[a + 1].value) = v
<1>1. CASE v = 0
  <2>1. VarintItems(number, v) = << >>
    BY <1>1 DEF VarintItems
  <2> QED
    BY <1>1, <2>1
<1>2. CASE v # 0
  <2>1. PICK items : items = VarintItems(number, v)
    OBVIOUS
  <2>2. Len(items) = 1 /\ items[1] = VarintItem(number, v) /\ 1 \in 1 .. 1
    BY <1>2, <2>1 DEF VarintItems
  <2>3. s[a + 1].tag = items[1].tag /\ s[a + 1].value = items[1].value
    BY <2>1, <2>2 DEF FieldsFollow
  <2>4. s[a + 1].tag = Tag(number, VARINT) /\ s[a + 1].value = Varint(v)
    BY <2>2, <2>3 DEF VarintItem
  <2>5. Tag(number, VARINT) = 8 * number
    BY DEF Tag, VARINT
  <2>6. Int32Of(s[a + 1].value) = v
    BY <2>4, Int32RoundTrip
  <2> QED
    BY <2>1, <2>2, <2>4, <2>5, <2>6
<1> QED
  BY <1>1, <1>2

LEMMA NumberItems ==
    ASSUME NEW number \in 1 .. 15, NEW v \in Int32
    PROVE  VarintItems(number, v) \in Seq(Item) /\ Len(VarintItems(number, v)) \in Nat
<1>1. VarintItems(number, v) \in Seq(Item)
  BY VarintFieldEncodes DEF Encodes
<1> QED
  BY <1>1

(* An effect as the UI reads it. *)
LEMMA EffectRead ==
    ASSUME NEW e \in ResourceEffectMessage
    PROVE  ParseEffect(SerializeResourceEffect(e)) = e
<1>1. PICK x, y : x = e.resource_type /\ y = e.delta_value
  OBVIOUS
<1>2. x \in Int32 /\ y \in Int32 /\ e = [resource_type |-> x, delta_value |-> y]
  BY <1>1 DEF ResourceEffectMessage
<1>3. PICK f, g : f = VarintItems(1, x) /\ g = VarintItems(2, y)
  OBVIOUS
<1>4. /\ f \in Seq(Item) /\ g \in Seq(Item) /\ Len(f) \in Nat /\ Len(g) \in Nat
      /\ 1 \in 1 .. 15 /\ 2 \in 1 .. 15
  BY <1>2, <1>3, NumberItems
<1>5. Encodes(SerializeResourceEffect(e), f \o g)
  <2>1. Encodes(VarintField(1, x), f) /\ Encodes(VarintField(2, y), g)
    BY <1>2, <1>3, <1>4, VarintFieldEncodes
  <2>2. SerializeResourceEffect(e) = VarintField(1, x) \o VarintField(2, y)
    BY <1>1 DEF SerializeResourceEffect
  <2> QED
    BY <2>1, <2>2, PartsEncode
<1>6. PICK s, m, n : s = Fields(SerializeResourceEffect(e)) /\ m = Len(f) /\ n = Len(f) + Len(g)
  OBVIOUS
<1>7. Len(f \o g) = n /\ n \in Nat /\ m \in Nat /\ n = m + Len(g)
  BY <1>4, <1>6
<1>8. DOMAIN s = 1 .. n /\ FieldsFollow(s, 0, f \o g)
  BY <1>5, <1>6, <1>7, AllFollow
<1>9. FieldsFollow(s, 0, f) /\ FieldsFollow(s, m, g)
  <2>1. FieldsFollow(s, 0, f) /\ FieldsFollow(s, 0 + Len(f), g)
    BY <1>4, <1>8, FollowingParts
  <2>2. 0 + Len(f) = m
    BY <1>6, <1>7
  <2> QED
    BY <2>1, <2>2
<1>10. PICK r : /\ r[0] = UIResourceEffect
                /\ \A i \in 1 .. n : r[i] = SetEffectField(r[i - 1], s[i])
                /\ FoldLeft(SetEffectField, UIResourceEffect, s) = r[n]
  BY <1>7, <1>8, EffectFold
<1>11. ParseEffect(SerializeResourceEffect(e)) = r[n]
  BY <1>6, <1>10 DEF ParseEffect
<1>12. \/ x = 0 /\ m = 0
       \/ m = 1 /\ s[0 + 1].tag = 8 * 1 /\ Int32Of(s[0 + 1].value) = x
  <2>1. \/ x = 0 /\ Len(f) = 0
        \/ Len(f) = 1 /\ s[0 + 1].tag = 8 * 1 /\ Int32Of(s[0 + 1].value) = x
    BY <1>2, <1>3, <1>4, <1>9, NumberFollows
  <2> QED
    BY <1>6, <2>1
<1>13. r[m] = [resource_type |-> x, delta_value |-> 0]
  <2>1. CASE x = 0 /\ m = 0
    BY <1>10, <2>1 DEF UIResourceEffect
  <2>2. CASE m = 1 /\ s[0 + 1].tag = 8 * 1 /\ Int32Of(s[0 + 1].value) = x
    <3>1. 1 \in 1 .. n /\ 1 - 1 = 0
      BY <1>4, <1>7, <2>2
    <3>2. r[1] = SetEffectField(r[0], s[1])
      BY <1>10, <3>1
    <3>3. s[1].tag = 8 /\ Int32Of(s[1].value) = x
      BY <2>2
    <3>4. SetEffectField(UIResourceEffect, s[1]) = [resource_type |-> x, delta_value |-> 0]
      BY <3>3 DEF SetEffectField, UIResourceEffect, Tag, VARINT
    <3> QED
      BY <1>10, <2>2, <3>2, <3>4
  <2> QED
    BY <1>12, <2>1, <2>2
<1>14. \/ y = 0 /\ Len(g) = 0
       \/ Len(g) = 1 /\ s[m + 1].tag = 8 * 2 /\ Int32Of(s[m + 1].value) = y
  BY <1>2, <1>3, <1>4, <1>9, NumberFollows
<1>15. r[n] = [resource_type |-> x, delta_value |-> y]
  <2>1. CASE y = 0 /\ Len(g) = 0
    BY <1>7, <1>13, <2>1
  <2>2. CASE Len(g) = 1 /\ s[m + 1].tag = 8 * 2 /\ Int32Of(s[m + 1].value) = y
    <3>1. n \in 1 .. n /\ n - 1 = m /\ n = m + 1
      BY <1>7, <2>2
    <3>2. r[n] = SetEffectField(r[m], s[n])
      BY <1>10, <3>1
    <3>3. s[n].tag = 16 /\ Int32Of(s[n].value) = y
      BY <2>2, <3>1
    <3>4. SetEffectField([resource_type |-> x, delta_value |-> 0], s[n]) =
            [resource_type |-> x, delta_value |-> y]
      BY <3>3 DEF SetEffectField, Tag, VARINT
    <3> QED
      BY <1>13, <3>2, <3>4
  <2> QED
    BY <1>14, <2>1, <2>2
<1> QED
  BY <1>2, <1>11, <1>15

-----------------------------------------------------------------------------
(* A building as the UI reads it. *)
BuildingOf(t, c, k, effects) ==
    [type |-> t, build_cost |-> c, ticks_to_complete |-> k, effects |-> effects]

BuildingReads(r, s, n) == \A i \in 1 .. n : r[i] = SetBuildingField(r[i - 1], s[i])

LEMMA BuildingStep ==
    ASSUME NEW t, NEW c, NEW k, NEW effects, NEW field, NEW v, Int32Of(field.value) = v
    PROVE  /\ field.tag = 8 => SetBuildingField(BuildingOf(t, c, k, effects), field) =
                                 BuildingOf(v, c, k, effects)
           /\ field.tag = 16 => SetBuildingField(BuildingOf(t, c, k, effects), field) =
                                  BuildingOf(t, v, k, effects)
           /\ field.tag = 24 => SetBuildingField(BuildingOf(t, c, k, effects), field) =
                                  BuildingOf(t, c, v, effects)
<1>1. ASSUME field.tag = 8
      PROVE  SetBuildingField(BuildingOf(t, c, k, effects), field) = BuildingOf(v, c, k, effects)
  <2>1. PICK b : b = BuildingOf(t, c, k, effects)
    OBVIOUS
  <2>2. [b EXCEPT !.type = v] = BuildingOf(v, c, k, effects)
    BY <2>1 DEF BuildingOf
  <2>3. SetBuildingField(b, field) = [b EXCEPT !.type = Int32Of(field.value)]
    BY <1>1 DEF SetBuildingField, Tag, VARINT, LEN
  <2> QED
    BY <2>1, <2>2, <2>3
<1>2. ASSUME field.tag = 16
      PROVE  SetBuildingField(BuildingOf(t, c, k, effects), field) = BuildingOf(t, v, k, effects)
  <2>1. PICK b : b = BuildingOf(t, c, k, effects)
    OBVIOUS
  <2>2. [b EXCEPT !.build_cost = v] = BuildingOf(t, v, k, effects)
    BY <2>1 DEF BuildingOf
  <2>3. SetBuildingField(b, field) = [b EXCEPT !.build_cost = Int32Of(field.value)]
    BY <1>2 DEF SetBuildingField, Tag, VARINT, LEN
  <2> QED
    BY <2>1, <2>2, <2>3
<1>3. ASSUME field.tag = 24
      PROVE  SetBuildingField(BuildingOf(t, c, k, effects), field) = BuildingOf(t, c, v, effects)
  <2>1. PICK b : b = BuildingOf(t, c, k, effects)
    OBVIOUS
  <2>2. [b EXCEPT !.ticks_to_complete = v] = BuildingOf(t, c, v, effects)
    BY <2>1 DEF BuildingOf
  <2>3. SetBuildingField(b, field) = [b EXCEPT !.ticks_to_complete = Int32Of(field.value)]
    BY <1>3 DEF SetBuildingField, Tag, VARINT, LEN
  <2> QED
    BY <2>1, <2>2, <2>3
<1> QED
  BY <1>1, <1>2, <1>3

LEMMA BuildingEffectStep ==
    ASSUME NEW t, NEW c, NEW k, NEW effects, NEW field, field.tag = 34
    PROVE  SetBuildingField(BuildingOf(t, c, k, effects), field) =
             BuildingOf(t, c, k, Append(effects, ParseEffect(field.value)))
BY DEF SetBuildingField, BuildingOf, Tag, VARINT, LEN

(* Behind the m-th step comes a number that is written or not. *)
AtNumber(r, s, n, m, number, v, from) ==
    /\ n \in Nat /\ m \in Nat /\ number \in 1 .. 15 /\ v \in Int32
    /\ FieldsFollow(s, m, VarintItems(number, v)) /\ m + Len(VarintItems(number, v)) <= n
    /\ r[m] = from

Leads(number, v, from, to) ==
    /\ \A field : field.tag = 8 * number /\ Int32Of(field.value) = v =>
                     SetBuildingField(from, field) = to
    /\ v = 0 => from = to

LEMMA BuildingNumber ==
    ASSUME NEW r, NEW s, NEW n, NEW m, NEW number, NEW v, NEW from, NEW to,
           BuildingReads(r, s, n), AtNumber(r, s, n, m, number, v, from), Leads(number, v, from, to)
    PROVE  r[m + Len(VarintItems(number, v))] = to
<1>0. PICK items : items = VarintItems(number, v)
  OBVIOUS
<1>1. /\ n \in Nat /\ m \in Nat /\ m + Len(items) <= n /\ r[m] = from
      /\ \/ v = 0 /\ Len(items) = 0
         \/ Len(items) = 1 /\ s[m + 1].tag = 8 * number /\ Int32Of(s[m + 1].value) = v
  BY <1>0, NumberFollows DEF AtNumber
<1>2. CASE v = 0 /\ Len(items) = 0
  BY <1>0, <1>1, <1>2 DEF Leads
<1>3. CASE Len(items) = 1 /\ s[m + 1].tag = 8 * number /\ Int32Of(s[m + 1].value) = v
  <2>1. m + 1 \in 1 .. n /\ (m + 1) - 1 = m
    BY <1>1, <1>3
  <2>2. r[m + 1] = SetBuildingField(r[m], s[m + 1])
    BY <2>1 DEF BuildingReads
  <2>3. SetBuildingField(from, s[m + 1]) = to
    BY <1>3 DEF Leads
  <2> QED
    BY <1>0, <1>1, <1>3, <2>2, <2>3
<1> QED
  BY <1>1, <1>2, <1>3

(* The building's effects, one after another. *)
AtEffects(r, s, n, m, effects, t, c, w) ==
    /\ n \in Nat /\ m \in Nat /\ n >= m /\ effects \in [1 .. n - m -> ResourceEffectMessage]
    /\ FieldsFollow(s, m, [i \in 1 .. n - m |-> MessageItem(4, SerializeResourceEffect(effects[i]))])
    /\ r[m] = BuildingOf(t, c, w, << >>)

LEMMA BuildingEffects ==
    ASSUME NEW r, NEW s, NEW n, NEW m, NEW effects, NEW t, NEW c, NEW w,
           BuildingReads(r, s, n), AtEffects(r, s, n, m, effects, t, c, w)
    PROVE  r[n] = BuildingOf(t, c, w, effects)
<1>1. PICK k, items : /\ k = n - m
                      /\ items = [i \in 1 .. k |-> MessageItem(4, SerializeResourceEffect(effects[i]))]
  OBVIOUS
<1>2. k \in Nat /\ m \in Nat /\ n = m + k /\ r[m] = BuildingOf(t, c, w, << >>)
  BY <1>1 DEF AtEffects
<1>3. effects \in [1 .. k -> ResourceEffectMessage] /\ FieldsFollow(s, m, items)
  BY <1>1 DEF AtEffects
<1>4. items \in Seq(Item) /\ Len(items) = k
  <2>1. items \in Seq(Item) /\ DOMAIN items = 1 .. k
    BY <1>1, <1>3 DEF FieldsFollow
  <2> QED
    BY <1>2, <2>1
<1> DEFINE T == {j \in 0 .. k : r[m + j] = BuildingOf(t, c, w, [i \in 1 .. j |-> effects[i]])}
<1>5. 0 \in T
  <2>1. [i \in 1 .. 0 |-> effects[i]] = << >> /\ m + 0 = m
    BY <1>2
  <2> QED
    BY <1>2, <2>1
<1>6. ASSUME NEW j \in 1 .. k, j - 1 \in T
      PROVE  j \in T
  <2>1. PICK a, p, q : a = j - 1 /\ p = [i \in 1 .. a |-> effects[i]] /\ q = [i \in 1 .. j |-> effects[i]]
    OBVIOUS
  <2>2. a \in Nat /\ j = a + 1 /\ m + j \in 1 .. n /\ (m + j) - 1 = m + a
    BY <1>2, <2>1
  <2>3. r[m + a] = BuildingOf(t, c, w, p)
    BY <1>6, <2>1
  <2>4. r[m + j] = SetBuildingField(r[m + a], s[m + j])
    BY <2>2 DEF BuildingReads
  <2>5. s[m + j].tag = items[j].tag /\ s[m + j].value = items[j].value
    BY <1>3, <1>4 DEF FieldsFollow
  <2>6. items[j] = MessageItem(4, SerializeResourceEffect(effects[j]))
    BY <1>1
  <2>7. s[m + j].tag = 34 /\ s[m + j].value = SerializeResourceEffect(effects[j])
    BY <2>5, <2>6 DEF MessageItem, Tag, LEN
  <2>8. ParseEffect(s[m + j].value) = effects[j] /\ effects[j] \in ResourceEffectMessage
    BY <1>3, <2>7, EffectRead
  <2>9. Append(p, effects[j]) = q
    <3>1. p \in [1 .. a -> ResourceEffectMessage] /\ q \in [1 .. j -> ResourceEffectMessage]
      <4>1. \A i \in 1 .. a : i \in 1 .. k
        BY <1>2, <2>1
      <4>2. \A i \in 1 .. j : i \in 1 .. k
        BY <1>2
      <4>3. p \in [1 .. a -> ResourceEffectMessage]
        BY <1>3, <2>1, <4>1
      <4>4. q \in [1 .. j -> ResourceEffectMessage]
        BY <1>3, <2>1, <4>2
      <4> QED
        BY <4>3, <4>4
    <3>2. /\ p \in Seq(ResourceEffectMessage) /\ Len(p) = a
          /\ q \in Seq(ResourceEffectMessage) /\ Len(q) = j
      BY <2>2, <3>1, RowIsSequence
    <3>3. PICK x : x = Append(p, effects[j])
      OBVIOUS
    <3>4. /\ x \in Seq(ResourceEffectMessage) /\ Len(x) = a + 1
          /\ \A i \in 1 .. a : x[i] = p[i]
          /\ x[a + 1] = effects[j]
      BY <2>8, <3>2, <3>3
    <3>5. ASSUME NEW i \in 1 .. j
          PROVE  x[i] = q[i]
      <4>1. q[i] = effects[i]
        BY <2>1
      <4>2. CASE i = j
        BY <2>2, <3>4, <4>1, <4>2
      <4>3. CASE i # j
        <5>1. i \in 1 .. a
          BY <2>2, <4>3
        <5>2. p[i] = effects[i]
          BY <2>1, <5>1
        <5> QED
          BY <3>4, <4>1, <5>1, <5>2
      <4> QED
        BY <4>2, <4>3
    <3>6. Len(x) = j
      BY <2>2, <3>4
    <3>7. x = q
      BY <3>2, <3>4, <3>5, <3>6, SameEntries
    <3> QED
      BY <3>3, <3>7
  <2>10. r[m + j] = BuildingOf(t, c, w, Append(p, effects[j]))
    BY <2>3, <2>4, <2>7, <2>8, BuildingEffectStep
  <2>11. r[m + j] = BuildingOf(t, c, w, [i \in 1 .. j |-> effects[i]])
    BY <2>1, <2>9, <2>10
  <2> QED
    BY <2>11
<1> HIDE DEF T
<1>7. k \in T
  <2>1. k \in 0 .. k
    BY <1>2
  <2> QED
    BY <1>2, <1>5, <1>6, <2>1, UpToN
<1>8. r[m + k] = BuildingOf(t, c, w, [i \in 1 .. k |-> effects[i]])
  BY <1>7 DEF T
<1>9. [i \in 1 .. k |-> effects[i]] = effects
  BY <1>3
<1> QED
  BY <1>2, <1>8, <1>9

(* The items of a building. *)
EffectItems(effects) ==
    [i \in DOMAIN effects |-> MessageItem(4, SerializeResourceEffect(effects[i]))]

LEMMA EffectsEncode ==
    ASSUME NEW n \in Nat, NEW effects \in [1 .. n -> ResourceEffectMessage]
    PROVE  /\ Encodes(FlattenSeq([i \in DOMAIN effects |->
                          MessageField(4, ResourceEffectSize(effects[i]),
                                       SerializeResourceEffect(effects[i]))]),
                      EffectItems(effects))
           /\ EffectItems(effects) \in Seq(Item) /\ Len(EffectItems(effects)) = n
<1>1. PICK s, f : /\ s = [i \in 1 .. n |-> MessageField(4, ResourceEffectSize(effects[i]),
                                                         SerializeResourceEffect(effects[i]))]
                  /\ f = [i \in 1 .. n |-> MessageItem(4, SerializeResourceEffect(effects[i]))]
  OBVIOUS
<1>2. ASSUME NEW i \in 1 .. n
      PROVE  Encodes(s[i], <<f[i]>>) /\ f[i] \in Item
  <2>1. PICK e : e = effects[i]
    OBVIOUS
  <2>2. e \in ResourceEffectMessage /\ 4 \in 1 .. 15
    BY <2>1
  <2>3. PICK size, bytes : size = ResourceEffectSize(e) /\ bytes = SerializeResourceEffect(e)
    OBVIOUS
  <2>4. Takes(bytes, size) /\ size \in 0 .. 22
    BY <2>2, <2>3, EffectTakes
  <2>5. size <= 16383
    BY <2>4
  <2>6. Encodes(MessageField(4, size, bytes), <<MessageItem(4, bytes)>>)
    BY <2>2, <2>4, <2>5, MessageFieldEncodes
  <2>7. s[i] = MessageField(4, size, bytes) /\ f[i] = MessageItem(4, bytes)
    BY <1>1, <2>1, <2>3
  <2>8. MessageItem(4, bytes) \in Item
    BY <2>2, <2>4, ItemTypes DEF Takes
  <2> QED
    BY <2>6, <2>7, <2>8
<1>3. s = [i \in 1 .. n |-> s[i]] /\ f = [i \in 1 .. n |-> f[i]]
  BY <1>1
<1>4. Encodes(FlattenSeq(s), f)
  BY <1>2, <1>3, RowEncodes
<1>5. f \in Seq(Item) /\ Len(f) = n
  <2>1. f \in [1 .. n -> Item]
    BY <1>1, <1>2
  <2> QED
    BY <2>1, RowIsSequence
<1>6. DOMAIN effects = 1 .. n
  OBVIOUS
<1>7. f = EffectItems(effects)
  BY <1>1, <1>6 DEF EffectItems
<1> QED
  BY <1>1, <1>4, <1>5, <1>6, <1>7

LEMMA BuildingRead ==
    ASSUME NEW b, SmallBuilding(b)
    PROVE  ParseBuilding(SerializeBuilding(b)) = b
<1>1. PICK t, c, w, effects : t = b.type /\ c = b.build_cost /\ w = b.ticks_to_complete
                              /\ effects = b.effects
  OBVIOUS
<1>2. /\ t \in Int32 /\ c \in Int32 /\ w \in Int32 /\ effects \in Seq(ResourceEffectMessage)
      /\ b = BuildingOf(t, c, w, effects)
  BY <1>1 DEF SmallBuilding, BuildingMessage, BuildingOf
<1>3. PICK k : k = Len(effects)
  OBVIOUS
<1>4. k \in Nat /\ effects \in [1 .. k -> ResourceEffectMessage]
  BY <1>2, <1>3
<1>5. PICK f, g, h, e : f = VarintItems(1, t) /\ g = VarintItems(2, c) /\ h = VarintItems(3, w)
                        /\ e = EffectItems(effects)
  OBVIOUS
<1>6. 1 \in 1 .. 15 /\ 2 \in 1 .. 15 /\ 3 \in 1 .. 15
  OBVIOUS
<1>7. /\ f \in Seq(Item) /\ g \in Seq(Item) /\ h \in Seq(Item) /\ e \in Seq(Item)
      /\ Len(f) \in Nat /\ Len(g) \in Nat /\ Len(h) \in Nat /\ Len(e) = k
  <2>1. e \in Seq(Item) /\ Len(e) = k
    BY <1>4, <1>5, EffectsEncode
  <2>2. f \in Seq(Item) /\ Len(f) \in Nat
    BY <1>2, <1>5, <1>6, NumberItems
  <2>3. g \in Seq(Item) /\ Len(g) \in Nat
    BY <1>2, <1>5, <1>6, NumberItems
  <2>4. h \in Seq(Item) /\ Len(h) \in Nat
    BY <1>2, <1>5, <1>6, NumberItems
  <2> QED
    BY <2>1, <2>2, <2>3, <2>4
<1>8. PICK bytes, row : /\ bytes = SerializeBuilding(b)
                        /\ row = FlattenSeq([i \in DOMAIN effects |->
                                    MessageField(4, ResourceEffectSize(effects[i]),
                                                 SerializeResourceEffect(effects[i]))])
  OBVIOUS
<1>9. bytes = ((VarintField(1, t) \o VarintField(2, c)) \o VarintField(3, w)) \o row
  BY <1>1, <1>8 DEF SerializeBuilding
<1>10. Encodes(bytes, ((f \o g) \o h) \o e)
  <2>1. Encodes(row, e)
    BY <1>4, <1>5, <1>8, EffectsEncode
  <2>2. Encodes(VarintField(1, t), f)
    BY <1>2, <1>5, <1>6, VarintFieldEncodes
  <2>3. Encodes(VarintField(2, c), g)
    BY <1>2, <1>5, <1>6, VarintFieldEncodes
  <2>4. Encodes(VarintField(3, w), h)
    BY <1>2, <1>5, <1>6, VarintFieldEncodes
  <2>5. Encodes(VarintField(1, t) \o VarintField(2, c), f \o g)
    BY <2>2, <2>3, PartsEncode
  <2>6. Encodes((VarintField(1, t) \o VarintField(2, c)) \o VarintField(3, w), (f \o g) \o h)
    BY <2>4, <2>5, PartsEncode
  <2> QED
    BY <1>9, <2>1, <2>6, PartsEncode
<1>11. PICK s, m1, m2, m3, n : /\ s = Fields(bytes) /\ m1 = Len(f) /\ m2 = m1 + Len(g)
                               /\ m3 = m2 + Len(h) /\ n = m3 + k
  OBVIOUS
<1>12. /\ m1 \in Nat /\ m2 \in Nat /\ m3 \in Nat /\ n \in Nat
       /\ m1 <= n /\ m2 <= n /\ m3 <= n /\ 0 + Len(f) = m1
  BY <1>4, <1>7, <1>11
<1>13. /\ f \o g \in Seq(Item) /\ Len(f \o g) = m2
       /\ (f \o g) \o h \in Seq(Item) /\ Len((f \o g) \o h) = m3
       /\ Len(((f \o g) \o h) \o e) = n
  <2>1. f \o g \in Seq(Item) /\ Len(f \o g) = m2
    BY <1>7, <1>11, Concatenation
  <2>2. (f \o g) \o h \in Seq(Item) /\ Len((f \o g) \o h) = m3
    BY <1>7, <1>11, <2>1, Concatenation
  <2>3. Len(((f \o g) \o h) \o e) = n
    BY <1>7, <1>11, <2>2, Concatenation
  <2> QED
    BY <2>1, <2>2, <2>3
<1>14. DOMAIN s = 1 .. n /\ FieldsFollow(s, 0, ((f \o g) \o h) \o e)
  BY <1>10, <1>11, <1>13, AllFollow
<1>15. FieldsFollow(s, 0, f) /\ FieldsFollow(s, m1, g) /\ FieldsFollow(s, m2, h) /\ FieldsFollow(s, m3, e)
  <2>1. FieldsFollow(s, 0, (f \o g) \o h) /\ FieldsFollow(s, 0 + m3, e)
    BY <1>7, <1>13, <1>14, FollowingParts
  <2>2. FieldsFollow(s, 0, f \o g) /\ FieldsFollow(s, 0 + m2, h)
    BY <1>7, <1>13, <2>1, FollowingParts
  <2>3. FieldsFollow(s, 0, f) /\ FieldsFollow(s, 0 + m1, g)
    BY <1>7, <1>11, <2>2, FollowingParts
  <2>4. 0 + m1 = m1 /\ 0 + m2 = m2 /\ 0 + m3 = m3
    BY <1>12
  <2> QED
    BY <2>1, <2>2, <2>3, <2>4
<1>16. PICK r : r[0] = UIBuilding /\ BuildingReads(r, s, n)
                /\ FoldLeft(SetBuildingField, UIBuilding, s) = r[n]
  BY <1>12, <1>14, BuildingFold DEF BuildingReads
<1>17. r[0] = BuildingOf(0, 0, 0, << >>)
  BY <1>16 DEF UIBuilding, BuildingOf
<1>18. r[m1] = BuildingOf(t, 0, 0, << >>)
  <2>1. PICK from, to : from = BuildingOf(0, 0, 0, << >>) /\ to = BuildingOf(t, 0, 0, << >>)
    OBVIOUS
  <2>2. Leads(1, t, from, to)
    BY <2>1, BuildingStep DEF Leads
  <2>3. 0 + Len(f) <= n /\ 0 \in Nat
    BY <1>12
  <2>4. r[0] = from
    BY <1>17, <2>1
  <2>5. AtNumber(r, s, n, 0, 1, t, from)
    BY <1>2, <1>5, <1>6, <1>12, <1>15, <2>3, <2>4 DEF AtNumber
  <2>6. r[0 + Len(f)] = to
    BY <1>5, <1>16, <2>2, <2>5, BuildingNumber
  <2> QED
    BY <1>12, <2>1, <2>6
<1>19. r[m2] = BuildingOf(t, c, 0, << >>)
  <2>1. PICK from, to : from = BuildingOf(t, 0, 0, << >>) /\ to = BuildingOf(t, c, 0, << >>)
    OBVIOUS
  <2>2. Leads(2, c, from, to)
    BY <2>1, BuildingStep DEF Leads
  <2>3. m1 + Len(g) <= n /\ m1 \in Nat
    BY <1>11, <1>12
  <2>4. r[m1] = from
    BY <1>18, <2>1
  <2>5. AtNumber(r, s, n, m1, 2, c, from)
    BY <1>2, <1>5, <1>6, <1>12, <1>15, <2>3, <2>4 DEF AtNumber
  <2>6. r[m1 + Len(g)] = to
    BY <1>5, <1>16, <2>2, <2>5, BuildingNumber
  <2> QED
    BY <1>11, <2>1, <2>6
<1>20. r[m3] = BuildingOf(t, c, w, << >>)
  <2>1. PICK from, to : from = BuildingOf(t, c, 0, << >>) /\ to = BuildingOf(t, c, w, << >>)
    OBVIOUS
  <2>2. Leads(3, w, from, to)
    BY <2>1, BuildingStep DEF Leads
  <2>3. m2 + Len(h) <= n /\ m2 \in Nat
    BY <1>11, <1>12
  <2>4. r[m2] = from
    BY <1>19, <2>1
  <2>5. AtNumber(r, s, n, m2, 3, w, from)
    BY <1>2, <1>5, <1>6, <1>12, <1>15, <2>3, <2>4 DEF AtNumber
  <2>6. r[m2 + Len(h)] = to
    BY <1>5, <1>16, <2>2, <2>5, BuildingNumber
  <2> QED
    BY <1>11, <2>1, <2>6
<1>21. e = [i \in 1 .. k |-> MessageItem(4, SerializeResourceEffect(effects[i]))]
  <2>1. DOMAIN effects = 1 .. k
    BY <1>4
  <2> QED
    BY <1>5, <2>1 DEF EffectItems
<1>22. r[n] = BuildingOf(t, c, w, effects)
  <2>1. n - m3 = k /\ n >= m3
    BY <1>4, <1>11, <1>12
  <2>2. AtEffects(r, s, n, m3, effects, t, c, w)
    BY <1>4, <1>12, <1>15, <1>20, <1>21, <2>1 DEF AtEffects
  <2> QED
    BY <1>16, <2>2, BuildingEffects
<1> QED
  BY <1>2, <1>8, <1>11, <1>16, <1>22 DEF ParseBuilding

-----------------------------------------------------------------------------
(* A petition as the UI reads it. *)
PetitionOf(id, building) == [id |-> id, building |-> building]

LEMMA PetitionStep ==
    ASSUME NEW id, NEW building, NEW field
    PROVE  /\ field.tag = 8 =>
                SetPetitionField(PetitionOf(id, building), field) = PetitionOf(Int32Of(field.value), building)
           /\ field.tag = 18 =>
                SetPetitionField(PetitionOf(id, building), field) =
                  PetitionOf(id, <<ParseBuilding(field.value)>>)
<1>1. PICK p : p = PetitionOf(id, building)
  OBVIOUS
<1>2. ASSUME field.tag = 8
      PROVE  SetPetitionField(p, field) = PetitionOf(Int32Of(field.value), building)
  <2>1. SetPetitionField(p, field) = [p EXCEPT !.id = Int32Of(field.value)]
    BY <1>2 DEF SetPetitionField, Tag, VARINT, LEN
  <2>2. PICK v : v = Int32Of(field.value)
    OBVIOUS
  <2>3. [p EXCEPT !.id = v] = PetitionOf(v, building)
    BY <1>1 DEF PetitionOf
  <2> QED
    BY <2>1, <2>2, <2>3
<1>3. ASSUME field.tag = 18
      PROVE  SetPetitionField(p, field) = PetitionOf(id, <<ParseBuilding(field.value)>>)
  <2>1. PICK v : v = <<ParseBuilding(field.value)>>
    OBVIOUS
  <2>2. SetPetitionField(p, field) = [p EXCEPT !.building = v]
    BY <1>3, <2>1 DEF SetPetitionField, Tag, VARINT, LEN
  <2>3. [p EXCEPT !.building = v] = PetitionOf(id, v)
    BY <1>1 DEF PetitionOf
  <2> QED
    BY <2>1, <2>2, <2>3
<1> QED
  BY <1>1, <1>2, <1>3

BuildingItems(building) == [i \in DOMAIN building |-> MessageItem(2, SerializeBuilding(building[i]))]

LEMMA BuildingsEncode ==
    ASSUME NEW n \in Nat, NEW building, DOMAIN building = 1 .. n,
           \A i \in 1 .. n : SmallBuilding(building[i])
    PROVE  /\ Encodes(FlattenSeq([i \in DOMAIN building |->
                          MessageField(2, BuildingSize(building[i]), SerializeBuilding(building[i]))]),
                      BuildingItems(building))
           /\ BuildingItems(building) \in Seq(Item) /\ Len(BuildingItems(building)) = n
<1>1. PICK s, f : /\ s = [i \in 1 .. n |-> MessageField(2, BuildingSize(building[i]),
                                                         SerializeBuilding(building[i]))]
                  /\ f = [i \in 1 .. n |-> MessageItem(2, SerializeBuilding(building[i]))]
  OBVIOUS
<1>2. ASSUME NEW i \in 1 .. n
      PROVE  Encodes(s[i], <<f[i]>>) /\ f[i] \in Item
  <2>1. PICK b : b = building[i]
    OBVIOUS
  <2>2. SmallBuilding(b) /\ 2 \in 1 .. 15
    BY <2>1
  <2>3. PICK size, bytes : size = BuildingSize(b) /\ bytes = SerializeBuilding(b)
    OBVIOUS
  <2>4. Takes(bytes, size) /\ size \in 0 .. 158
    BY <2>2, <2>3, BuildingTakes
  <2>5. size <= 16383
    BY <2>4
  <2>6. Encodes(MessageField(2, size, bytes), <<MessageItem(2, bytes)>>)
    BY <2>2, <2>4, <2>5, MessageFieldEncodes
  <2>7. s[i] = MessageField(2, size, bytes) /\ f[i] = MessageItem(2, bytes)
    BY <1>1, <2>1, <2>3
  <2>8. MessageItem(2, bytes) \in Item
    BY <2>2, <2>4, ItemTypes DEF Takes
  <2> QED
    BY <2>6, <2>7, <2>8
<1>3. s = [i \in 1 .. n |-> s[i]] /\ f = [i \in 1 .. n |-> f[i]]
  BY <1>1
<1>4. Encodes(FlattenSeq(s), f)
  BY <1>2, <1>3, RowEncodes
<1>5. f \in Seq(Item) /\ Len(f) = n
  <2>1. f \in [1 .. n -> Item]
    BY <1>1, <1>2
  <2> QED
    BY <2>1, RowIsSequence
<1>6. f = BuildingItems(building)
  BY <1>1 DEF BuildingItems
<1> QED
  BY <1>1, <1>4, <1>5, <1>6

LEMMA PetitionRead ==
    ASSUME NEW p, SmallPetition(p)
    PROVE  ParsePetition(SerializePetition(p)) = p
<1>1. PICK id, building, k : id = p.id /\ building = p.building /\ k = Len(building)
  OBVIOUS
<1>2. /\ id \in Int32 /\ building \in Seq(BuildingMessage) /\ k \in Nat /\ k <= 1
      /\ p = PetitionOf(id, building) /\ DOMAIN building = 1 .. k
      /\ \A i \in 1 .. k : SmallBuilding(building[i])
  <2>1. p \in [id : Int32, building : Optional(BuildingMessage)]
    BY DEF SmallPetition, PetitionMessage
  <2>2. building \in Optional(BuildingMessage) /\ id \in Int32 /\ p = PetitionOf(id, building)
    BY <1>1, <2>1 DEF PetitionOf
  <2>3. building \in Seq(BuildingMessage) /\ k <= 1
    BY <1>1, <2>2 DEF Optional
  <2>4. k \in Nat /\ DOMAIN building = 1 .. k
    BY <1>1, <2>3
  <2> QED
    BY <1>1, <2>2, <2>3, <2>4 DEF SmallPetition
<1>3. PICK f, e : f = VarintItems(1, id) /\ e = BuildingItems(building)
  OBVIOUS
<1>4. 1 \in 1 .. 15
  OBVIOUS
<1>5. /\ f \in Seq(Item) /\ e \in Seq(Item) /\ Len(f) \in Nat /\ Len(e) = k
  <2>1. e \in Seq(Item) /\ Len(e) = k
    BY <1>2, <1>3, BuildingsEncode
  <2>2. f \in Seq(Item) /\ Len(f) \in Nat
    BY <1>2, <1>3, <1>4, NumberItems
  <2> QED
    BY <2>1, <2>2
<1>6. PICK bytes, row : /\ bytes = SerializePetition(p)
                        /\ row = FlattenSeq([i \in DOMAIN building |->
                                    MessageField(2, BuildingSize(building[i]),
                                                 SerializeBuilding(building[i]))])
  OBVIOUS
<1>7. bytes = VarintField(1, id) \o row
  BY <1>1, <1>6 DEF SerializePetition
<1>8. Encodes(bytes, f \o e)
  <2>1. Encodes(row, e)
    BY <1>2, <1>3, <1>6, BuildingsEncode
  <2>2. Encodes(VarintField(1, id), f)
    BY <1>2, <1>3, <1>4, VarintFieldEncodes
  <2> QED
    BY <1>7, <2>1, <2>2, PartsEncode
<1>9. PICK s, m, n : s = Fields(bytes) /\ m = Len(f) /\ n = m + k
  OBVIOUS
<1>10. m \in Nat /\ n \in Nat /\ m <= n /\ Len(f \o e) = n
  <2>1. m \in Nat /\ n \in Nat /\ m <= n
    BY <1>2, <1>5, <1>9
  <2>2. Len(f \o e) = n
    BY <1>5, <1>9, Concatenation
  <2> QED
    BY <2>1, <2>2
<1>11. DOMAIN s = 1 .. n /\ FieldsFollow(s, 0, f \o e)
  BY <1>8, <1>9, <1>10, AllFollow
<1>12. FieldsFollow(s, 0, f) /\ FieldsFollow(s, m, e)
  <2>1. FieldsFollow(s, 0, f) /\ FieldsFollow(s, 0 + m, e)
    BY <1>5, <1>9, <1>11, FollowingParts
  <2>2. 0 + m = m
    BY <1>10
  <2> QED
    BY <2>1, <2>2
<1>13. PICK r : /\ r[0] = UIPetition
                /\ \A i \in 1 .. n : r[i] = SetPetitionField(r[i - 1], s[i])
                /\ FoldLeft(SetPetitionField, UIPetition, s) = r[n]
  BY <1>10, <1>11, PetitionFold
<1>14. ParsePetition(bytes) = r[n] /\ r[0] = PetitionOf(0, << >>)
  BY <1>9, <1>13 DEF ParsePetition, UIPetition, PetitionOf
<1>15. \/ id = 0 /\ m = 0
       \/ m = 1 /\ s[0 + 1].tag = 8 * 1 /\ Int32Of(s[0 + 1].value) = id
  <2>1. \/ id = 0 /\ Len(f) = 0
        \/ Len(f) = 1 /\ s[0 + 1].tag = 8 * 1 /\ Int32Of(s[0 + 1].value) = id
    BY <1>2, <1>3, <1>4, <1>12, NumberFollows
  <2> QED
    BY <1>9, <2>1
<1>16. r[m] = PetitionOf(id, << >>)
  <2>1. CASE id = 0 /\ m = 0
    BY <1>14, <2>1
  <2>2. CASE m = 1 /\ s[0 + 1].tag = 8 * 1 /\ Int32Of(s[0 + 1].value) = id
    <3>1. 1 \in 1 .. n /\ 1 - 1 = 0 /\ 0 + 1 = 1 /\ 8 * 1 = 8
      BY <1>10, <2>2
    <3>2. r[1] = SetPetitionField(r[0], s[1])
      BY <1>13, <3>1
    <3>3. s[1].tag = 8 /\ Int32Of(s[1].value) = id
      BY <2>2, <3>1
    <3>4. SetPetitionField(PetitionOf(0, << >>), s[1]) = PetitionOf(Int32Of(s[1].value), << >>)
      BY <3>3, PetitionStep
    <3> QED
      BY <1>14, <2>2, <3>2, <3>3, <3>4
  <2> QED
    BY <1>15, <2>1, <2>2
<1>17. r[n] = PetitionOf(id, building)
  <2>1. CASE k = 0
    <3>1. n = m /\ building = << >>
      BY <1>2, <1>9, <1>10, <2>1
    <3> QED
      BY <1>16, <3>1
  <2>2. CASE k = 1
    <3>1. n \in 1 .. n /\ n - 1 = m /\ n = m + 1 /\ 1 \in 1 .. k
      BY <1>9, <1>10, <2>2
    <3>2. PICK b : b = building[1]
      OBVIOUS
    <3>3. SmallBuilding(b) /\ building = <<b>>
      <4>1. SmallBuilding(b)
        BY <1>2, <3>1, <3>2
      <4>2. Len(building) = 1
        BY <1>1, <2>2
      <4>3. /\ building \in Seq(BuildingMessage)
            /\ <<b>> \in Seq(BuildingMessage) /\ Len(<<b>>) = 1 /\ <<b>>[1] = b
        BY <1>2, <3>2, <4>1, <4>2 DEF SmallBuilding
      <4>4. building = <<b>>
        <5>1. \A i \in 1 .. 1 : building[i] = <<b>>[i]
          <6>1. \A i \in 1 .. 1 : i = 1
            OBVIOUS
          <6> QED
            BY <3>2, <4>3, <6>1
        <5> QED
          BY <4>2, <4>3, <5>1, SameEntries
      <4> QED
        BY <4>1, <4>4
    <3>4. s[m + 1].tag = e[1].tag /\ s[m + 1].value = e[1].value
      BY <1>5, <1>12, <3>1 DEF FieldsFollow
    <3>5. e[1] = MessageItem(2, SerializeBuilding(b))
      BY <1>2, <1>3, <3>1, <3>2 DEF BuildingItems
    <3>6. s[n].tag = 18 /\ s[n].value = SerializeBuilding(b)
      BY <3>1, <3>4, <3>5 DEF MessageItem, Tag, LEN
    <3>7. ParseBuilding(s[n].value) = b
      BY <3>3, <3>6, BuildingRead
    <3>8. r[n] = SetPetitionField(r[m], s[n])
      BY <1>13, <3>1
    <3>9. r[n] = PetitionOf(id, <<ParseBuilding(s[n].value)>>)
      BY <1>16, <3>6, <3>8, PetitionStep
    <3> QED
      BY <3>3, <3>7, <3>9
  <2>3. k = 0 \/ k = 1
    BY <1>2
  <2> QED
    BY <2>1, <2>2, <2>3
<1> QED
  BY <1>2, <1>6, <1>14, <1>17

-----------------------------------------------------------------------------
(* The entry of a map. *)
EntryBytes(k, v) ==
    Varint(Tag(1, VARINT)) \o Varint(k) \o Varint(Tag(2, VARINT)) \o Varint(v)

LEMMA EntryEncodes ==
    ASSUME NEW k \in Int32, NEW v \in Int32
    PROVE  /\ Takes(EntryBytes(k, v), EntrySize(k, v)) /\ EntrySize(k, v) <= 22
           /\ Encodes(EntryBytes(k, v), <<VarintItem(1, k)>> \o <<VarintItem(2, v)>>)
<1>1. PICK a, b, c, d : /\ a = Varint(Tag(1, VARINT)) /\ b = Varint(k)
                        /\ c = Varint(Tag(2, VARINT)) /\ d = Varint(v)
  OBVIOUS
<1>2. 1 \in 1 .. 15 /\ 2 \in 1 .. 15 /\ VARINT \in {VARINT, LEN}
  OBVIOUS
<1>3. PICK x, y : x = VarintSize(k) /\ y = VarintSize(v)
  OBVIOUS
<1>4. Takes(a, 1) /\ Takes(b, x) /\ Takes(c, 1) /\ Takes(d, y) /\ x \in 1 .. 10 /\ y \in 1 .. 10
  BY <1>1, <1>2, <1>3, TagTakes, VarintTakes
<1>5. EntryBytes(k, v) = ((a \o b) \o c) \o d /\ EntrySize(k, v) = ((1 + x) + 1) + y
  BY <1>1, <1>3 DEF EntryBytes, EntrySize
<1>6. Takes(((a \o b) \o c) \o d, ((1 + x) + 1) + y)
  <2>1. Takes(a \o b, 1 + x)
    BY <1>4, PartsTake
  <2>2. Takes((a \o b) \o c, (1 + x) + 1)
    BY <1>4, <2>1, PartsTake
  <2> QED
    BY <1>4, <2>2, PartsTake
<1>7. ((1 + x) + 1) + y <= 22
  BY <1>4
<1>8. ((a \o b) \o c) \o d = Flag(1, k) \o Flag(2, v)
  <2>1. a \in Seq(Byte) /\ b \in Seq(Byte) /\ c \in Seq(Byte) /\ d \in Seq(Byte) /\ a \o b \in Seq(Byte)
    BY <1>4, Concatenation DEF Takes
  <2>2. ((a \o b) \o c) \o d = (a \o b) \o (c \o d)
    <3>1. PICK ab : ab = a \o b
      OBVIOUS
    <3>2. ab \in Seq(Byte)
      BY <2>1, <3>1
    <3>3. (ab \o c) \o d = ab \o (c \o d)
      BY <2>1, <3>2, Associative
    <3> QED
      BY <3>1, <3>3
  <2> QED
    BY <1>1, <2>2 DEF Flag
<1>9. Encodes(Flag(1, k) \o Flag(2, v), <<VarintItem(1, k)>> \o <<VarintItem(2, v)>>)
  BY <1>2, FlagEncodes, PartsEncode
<1> QED
  BY <1>5, <1>6, <1>7, <1>8, <1>9

LEMMA EntryRead ==
    ASSUME NEW k \in Int32, NEW v \in Int32
    PROVE  EntryPart(EntryBytes(k, v), 1) = k /\ EntryPart(EntryBytes(k, v), 2) = v
<1>1. PICK s, items : /\ s = Fields(EntryBytes(k, v))
                      /\ items = <<VarintItem(1, k)>> \o <<VarintItem(2, v)>>
  OBVIOUS
<1>2. Len(items) = 2 /\ items[1] = VarintItem(1, k) /\ items[2] = VarintItem(2, v)
  BY <1>1
<1>3. DOMAIN s = 1 .. 2 /\ FieldsFollow(s, 0, items)
  BY <1>1, <1>2, EntryEncodes, AllFollow
<1>4. /\ s[1].tag = items[1].tag /\ s[1].value = items[1].value
      /\ s[2].tag = items[2].tag /\ s[2].value = items[2].value
  <2>1. 1 \in 1 .. 2 /\ 2 \in 1 .. 2 /\ 0 + 1 = 1 /\ 0 + 2 = 2
    OBVIOUS
  <2>2. \A i \in 1 .. 2 : s[0 + i].tag = items[i].tag /\ s[0 + i].value = items[i].value
    BY <1>2, <1>3 DEF FieldsFollow
  <2> QED
    BY <2>1, <2>2
<1>5. s[1].tag \div 8 = 1 /\ s[2].tag \div 8 = 2
  BY <1>2, <1>4 DEF VarintItem, Tag, VARINT
<1>6. Int32Of(s[1].value) = k /\ Int32Of(s[2].value) = v
  BY <1>2, <1>4, Int32RoundTrip DEF VarintItem
<1>7. ASSUME NEW number \in {1, 2}
      PROVE  EntryPart(EntryBytes(k, v), number) = IF number = 1 THEN k ELSE v
  <2>1. EntryPart(EntryBytes(k, v), number) = EntryPartOf(number, s)
    BY <1>1 DEF EntryPart, EntryPartOf
  <2>2. PICK r : /\ r[0] = 0
                 /\ \A i \in 1 .. 2 : r[i] = EntryStep(number, r[i - 1], s[i])
                 /\ EntryPartOf(number, s) = r[2]
    <3>1. PICK n : n = 2
      OBVIOUS
    <3>2. DOMAIN s = 1 .. n /\ n \in Nat
      BY <1>3, <3>1
    <3>3. \E r : /\ r[0] = 0
                 /\ \A i \in 1 .. n : r[i] = EntryStep(number, r[i - 1], s[i])
                 /\ EntryPartOf(number, s) = r[n]
      BY <3>2, EntryFold
    <3> QED
      BY <3>1, <3>3
  <2>3. 1 \in 1 .. 2 /\ 2 \in 1 .. 2 /\ 1 - 1 = 0 /\ 2 - 1 = 1
    OBVIOUS
  <2>4. r[1] = EntryStep(number, 0, s[1]) /\ r[2] = EntryStep(number, r[1], s[2])
    BY <2>2, <2>3
  <2>5. CASE number = 1
    <3>1. r[1] = k
      BY <1>5, <1>6, <2>4, <2>5 DEF EntryStep
    <3>2. r[2] = r[1]
      BY <1>5, <2>4, <2>5 DEF EntryStep
    <3> QED
      BY <2>1, <2>2, <2>5, <3>1, <3>2
  <2>6. CASE number = 2
    <3>1. r[2] = v
      BY <1>5, <1>6, <2>4, <2>6 DEF EntryStep
    <3> QED
      BY <2>1, <2>2, <2>6, <3>1
  <2> QED
    BY <2>5, <2>6
<1> QED
  BY <1>7

(* The map so far, and the entry that is read next. *)
PartOf(map, D) == [x \in D |-> map[x]]

LEMMA EntryJoins ==
    ASSUME NEW map, NEW D, NEW k \in Int32, map[k] \in Int32
    PROVE  WithEntry(PartOf(map, D), EntryBytes(k, map[k])) = PartOf(map, D \union {k})
<1>1. PICK v, bytes, part : v = map[k] /\ bytes = EntryBytes(k, v) /\ part = PartOf(map, D)
  OBVIOUS
<1>2. EntryPart(bytes, 1) = k /\ EntryPart(bytes, 2) = v
  BY <1>1, EntryRead
<1>3. DOMAIN part = D /\ \A x \in D : part[x] = map[x]
  BY <1>1 DEF PartOf
<1>4. WithEntry(part, bytes) = [x \in D \union {k} |-> IF x = k THEN v ELSE part[x]]
  BY <1>2, <1>3 DEF WithEntry
<1>5. \A x \in D \union {k} : (IF x = k THEN v ELSE part[x]) = map[x]
  BY <1>1, <1>3
<1>6. WithEntry(part, bytes) = PartOf(map, D \union {k})
  BY <1>4, <1>5 DEF PartOf
<1> QED
  BY <1>1, <1>6

-----------------------------------------------------------------------------
(* A game state as the UI reads it.  number says which of its maps is meant. *)
StateOf(counts, resources, petition) ==
    [building_counts |-> counts, resources |-> resources, current_petition |-> petition]

Filled(number, map, other, petition) ==
    IF number = 1 THEN StateOf(map, other, petition) ELSE StateOf(other, map, petition)

StateReads(r, s, n) == \A i \in 1 .. n : r[i] = SetGameStateField(r[i - 1], s[i])

LEMMA MapStep ==
    ASSUME NEW number \in {1, 5}, NEW map, NEW other, NEW petition, NEW field,
           field.tag = Tag(number, LEN)
    PROVE  SetGameStateField(Filled(number, map, other, petition), field) =
             Filled(number, WithEntry(map, field.value), other, petition)
<1>1. PICK new : new = WithEntry(map, field.value)
  OBVIOUS
<1>2. CASE number = 1
  <2>1. PICK g : g = StateOf(map, other, petition)
    OBVIOUS
  <2>2. field.tag = 10
    BY <1>2 DEF Tag, LEN
  <2>3. SetGameStateField(g, field) = [g EXCEPT !.building_counts = WithEntry(@, field.value)]
    BY <2>2 DEF SetGameStateField, Tag, LEN
  <2>4. g.building_counts = map
    BY <2>1 DEF StateOf
  <2>5. SetGameStateField(g, field) = [g EXCEPT !.building_counts = new]
    BY <1>1, <2>3, <2>4
  <2>6. [g EXCEPT !.building_counts = new] = StateOf(new, other, petition)
    BY <2>1 DEF StateOf
  <2> QED
    BY <1>1, <1>2, <2>1, <2>5, <2>6 DEF Filled
<1>3. CASE number = 5
  <2>1. PICK g : g = StateOf(other, map, petition)
    OBVIOUS
  <2>2. field.tag = 42
    BY <1>3 DEF Tag, LEN
  <2>3. SetGameStateField(g, field) = [g EXCEPT !.resources = WithEntry(@, field.value)]
    BY <2>2 DEF SetGameStateField, Tag, LEN
  <2>4. g.resources = map
    BY <2>1 DEF StateOf
  <2>5. SetGameStateField(g, field) = [g EXCEPT !.resources = new]
    BY <1>1, <2>3, <2>4
  <2>6. [g EXCEPT !.resources = new] = StateOf(other, new, petition)
    BY <2>1 DEF StateOf
  <2> QED
    BY <1>1, <1>3, <2>1, <2>5, <2>6 DEF Filled
<1> QED
  BY <1>2, <1>3

LEMMA StatePetitionStep ==
    ASSUME NEW counts, NEW resources, NEW petition, NEW field, field.tag = Tag(4, LEN)
    PROVE  SetGameStateField(StateOf(counts, resources, petition), field) =
             StateOf(counts, resources, <<ParsePetition(field.value)>>)
<1>1. PICK new, g : new = <<ParsePetition(field.value)>> /\ g = StateOf(counts, resources, petition)
  OBVIOUS
<1>2. field.tag = 34
  BY DEF Tag, LEN
<1>3. SetGameStateField(g, field) = [g EXCEPT !.current_petition = new]
  BY <1>1, <1>2 DEF SetGameStateField, Tag, LEN
<1>4. [g EXCEPT !.current_petition = new] = StateOf(counts, resources, new)
  BY <1>1 DEF StateOf
<1> QED
  BY <1>1, <1>3, <1>4

MapItems(number, map, keys) ==
    [i \in DOMAIN keys |-> MessageItem(number, EntryBytes(keys[i], map[keys[i]]))]

LEMMA MapEncodes ==
    ASSUME NEW number \in {1, 5}, NEW map, IsMap(map), NEW n \in Nat, NEW keys \in [1 .. n -> DOMAIN map]
    PROVE  /\ Encodes(MapField(number, map, keys), MapItems(number, map, keys))
           /\ MapItems(number, map, keys) \in Seq(Item) /\ Len(MapItems(number, map, keys)) = n
<1>0. number \in 1 .. 15 /\ DOMAIN keys = 1 .. n
  OBVIOUS
<1>1. PICK s, f : /\ s = [i \in 1 .. n |-> MessageField(number, EntrySize(keys[i], map[keys[i]]),
                                                         EntryBytes(keys[i], map[keys[i]]))]
                  /\ f = [i \in 1 .. n |-> MessageItem(number, EntryBytes(keys[i], map[keys[i]]))]
  OBVIOUS
<1>2. ASSUME NEW i \in 1 .. n
      PROVE  Encodes(s[i], <<f[i]>>) /\ f[i] \in Item
  <2>1. PICK k, v : k = keys[i] /\ v = map[keys[i]]
    OBVIOUS
  <2>2. k \in Int32 /\ v \in Int32
    <3>1. keys[i] \in DOMAIN map
      OBVIOUS
    <3> QED
      BY <2>1, <3>1 DEF IsMap
  <2>3. PICK size, bytes : size = EntrySize(k, v) /\ bytes = EntryBytes(k, v)
    OBVIOUS
  <2>4. Takes(bytes, size) /\ size <= 22
    BY <2>2, <2>3, EntryEncodes
  <2>5. size <= 16383
    BY <2>4 DEF Takes
  <2>6. Encodes(MessageField(number, size, bytes), <<MessageItem(number, bytes)>>)
    BY <1>0, <2>4, <2>5, MessageFieldEncodes
  <2>7. s[i] = MessageField(number, size, bytes) /\ f[i] = MessageItem(number, bytes)
    BY <1>1, <2>1, <2>3
  <2>8. MessageItem(number, bytes) \in Item
    BY <1>0, <2>4, ItemTypes DEF Takes
  <2> QED
    BY <2>6, <2>7, <2>8
<1>3. s = [i \in 1 .. n |-> s[i]] /\ f = [i \in 1 .. n |-> f[i]]
  BY <1>1
<1>4. Encodes(FlattenSeq(s), f)
  BY <1>2, <1>3, RowEncodes
<1>5. f \in Seq(Item) /\ Len(f) = n
  <2>1. f \in [1 .. n -> Item]
    BY <1>1, <1>2
  <2> QED
    BY <2>1, RowIsSequence
<1>6. f = MapItems(number, map, keys)
  BY <1>0, <1>1 DEF MapItems
<1>7. FlattenSeq(s) = MapField(number, map, keys)
  BY <1>0, <1>1 DEF MapField, EntryBytes
<1> QED
  BY <1>4, <1>5, <1>6, <1>7

(* Behind the m-th step come a map's entries. *)
AtMap(r, s, n, m, number, map, keys, k, other, petition) ==
    /\ number \in {1, 5} /\ n \in Nat /\ m \in Nat /\ k \in Nat /\ m + k <= n
    /\ IsMap(map) /\ keys \in [1 .. k -> DOMAIN map]
    /\ FieldsFollow(s, m, MapItems(number, map, keys))
    /\ r[m] = Filled(number, << >>, other, petition)

LEMMA MapRead ==
    ASSUME NEW r, NEW s, NEW n, NEW m, NEW number, NEW map, NEW keys, NEW k, NEW other, NEW petition,
           StateReads(r, s, n), AtMap(r, s, n, m, number, map, keys, k, other, petition)
    PROVE  r[m + k] = Filled(number, PartOf(map, {keys[i] : i \in 1 .. k}), other, petition)
<1>1. number \in {1, 5} /\ n \in Nat /\ m \in Nat /\ k \in Nat /\ m + k <= n
  BY DEF AtMap
<1>2. /\ IsMap(map) /\ keys \in [1 .. k -> DOMAIN map]
      /\ r[m] = Filled(number, << >>, other, petition)
  BY DEF AtMap
<1>3. PICK items : items = MapItems(number, map, keys)
  OBVIOUS
<1>4. items \in Seq(Item) /\ Len(items) = k /\ FieldsFollow(s, m, items)
  <2>1. items \in Seq(Item) /\ Len(items) = k
    BY <1>1, <1>2, <1>3, MapEncodes
  <2>2. FieldsFollow(s, m, items)
    BY <1>3 DEF AtMap
  <2> QED
    BY <2>1, <2>2
<1>5. \A j \in 1 .. k : items[j] = MessageItem(number, EntryBytes(keys[j], map[keys[j]]))
  BY <1>2, <1>3 DEF MapItems
<1> DEFINE T == {j \in 0 .. k :
                   r[m + j] = Filled(number, PartOf(map, {keys[i] : i \in 1 .. j}), other, petition)}
<1>6. 0 \in T
  <2>1. {keys[i] : i \in 1 .. 0} = {}
    OBVIOUS
  <2>2. PartOf(map, {}) = << >>
    BY DEF PartOf
  <2>3. m + 0 = m /\ 0 \in 0 .. k
    BY <1>1
  <2>4. r[m + 0] = Filled(number, PartOf(map, {keys[i] : i \in 1 .. 0}), other, petition)
    BY <1>2, <2>1, <2>2, <2>3
  <2> QED
    BY <2>3, <2>4
<1>7. ASSUME NEW j \in 1 .. k, j - 1 \in T
      PROVE  j \in T
  <2>1. PICK a, D, E, key : /\ a = j - 1 /\ D = {keys[i] : i \in 1 .. a}
                            /\ E = {keys[i] : i \in 1 .. j} /\ key = keys[j]
    OBVIOUS
  <2>2. a \in Nat /\ j = a + 1 /\ m + j \in 1 .. n /\ (m + j) - 1 = m + a /\ j \in 0 .. k
    BY <1>1, <2>1
  <2>3. r[m + a] = Filled(number, PartOf(map, D), other, petition)
    BY <1>7, <2>1
  <2>4. E = D \union {key}
    <3>1. \A i \in 1 .. j : i = j \/ i \in 1 .. a
      BY <2>2
    <3>2. \A i \in 1 .. a : i \in 1 .. j
      BY <2>2
    <3>3. j \in 1 .. j
      OBVIOUS
    <3> QED
      BY <2>1, <3>1, <3>2, <3>3
  <2>5. key \in Int32 /\ map[key] \in Int32
    <3>1. keys[j] \in DOMAIN map
      BY <1>2
    <3> QED
      BY <1>2, <2>1, <3>1 DEF IsMap
  <2>6. s[m + j].tag = Tag(number, LEN) /\ s[m + j].value = EntryBytes(key, map[key])
    <3>1. s[m + j].tag = items[j].tag /\ s[m + j].value = items[j].value
      BY <1>4 DEF FieldsFollow
    <3>2. items[j] = MessageItem(number, EntryBytes(key, map[key]))
      BY <1>5, <2>1
    <3> QED
      BY <3>1, <3>2 DEF MessageItem
  <2>7. r[m + j] = SetGameStateField(r[m + a], s[m + j])
    BY <2>2 DEF StateReads
  <2>8. r[m + j] = Filled(number, WithEntry(PartOf(map, D), s[m + j].value), other, petition)
    BY <1>1, <2>3, <2>6, <2>7, MapStep
  <2>9. WithEntry(PartOf(map, D), s[m + j].value) = PartOf(map, D \union {key})
    BY <2>5, <2>6, EntryJoins
  <2>10. r[m + j] = Filled(number, PartOf(map, {keys[i] : i \in 1 .. j}), other, petition)
    BY <2>1, <2>4, <2>8, <2>9
  <2> QED
    BY <2>2, <2>10
<1> HIDE DEF T
<1>8. k \in T
  <2>1. k \in 0 .. k
    BY <1>1
  <2> QED
    BY <1>1, <1>6, <1>7, <2>1, UpToN
<1> QED
  BY <1>8 DEF T

PetitionItems(current) == [i \in DOMAIN current |-> MessageItem(4, SerializePetition(current[i]))]

LEMMA PetitionsEncode ==
    ASSUME NEW n \in Nat, NEW current, DOMAIN current = 1 .. n,
           \A i \in 1 .. n : SmallPetition(current[i])
    PROVE  /\ Encodes(FlattenSeq([i \in DOMAIN current |->
                          MessageField(4, PetitionSize(current[i]), SerializePetition(current[i]))]),
                      PetitionItems(current))
           /\ PetitionItems(current) \in Seq(Item) /\ Len(PetitionItems(current)) = n
<1>1. PICK s, f : /\ s = [i \in 1 .. n |-> MessageField(4, PetitionSize(current[i]),
                                                         SerializePetition(current[i]))]
                  /\ f = [i \in 1 .. n |-> MessageItem(4, SerializePetition(current[i]))]
  OBVIOUS
<1>2. ASSUME NEW i \in 1 .. n
      PROVE  Encodes(s[i], <<f[i]>>) /\ f[i] \in Item
  <2>1. PICK p : p = current[i]
    OBVIOUS
  <2>2. SmallPetition(p) /\ 4 \in 1 .. 15
    BY <2>1
  <2>3. PICK size, bytes : size = PetitionSize(p) /\ bytes = SerializePetition(p)
    OBVIOUS
  <2>4. Takes(bytes, size) /\ size \in 0 .. 172
    BY <2>2, <2>3, PetitionTakes
  <2>5. size <= 16383
    BY <2>4
  <2>6. Encodes(MessageField(4, size, bytes), <<MessageItem(4, bytes)>>)
    BY <2>2, <2>4, <2>5, MessageFieldEncodes
  <2>7. s[i] = MessageField(4, size, bytes) /\ f[i] = MessageItem(4, bytes)
    BY <1>1, <2>1, <2>3
  <2>8. MessageItem(4, bytes) \in Item
    BY <2>2, <2>4, ItemTypes DEF Takes
  <2> QED
    BY <2>6, <2>7, <2>8
<1>3. s = [i \in 1 .. n |-> s[i]] /\ f = [i \in 1 .. n |-> f[i]]
  BY <1>1
<1>4. Encodes(FlattenSeq(s), f)
  BY <1>2, <1>3, RowEncodes
<1>5. f \in Seq(Item) /\ Len(f) = n
  <2>1. f \in [1 .. n -> Item]
    BY <1>1, <1>2
  <2> QED
    BY <2>1, RowIsSequence
<1>6. f = PetitionItems(current)
  BY <1>1 DEF PetitionItems
<1> QED
  BY <1>1, <1>4, <1>5, <1>6

(* A map that is written in the order of the keys. *)
Ordered(map, keys, k) ==
    /\ IsMap(map) /\ map = PartOf(map, DOMAIN map)
    /\ k \in Nat /\ keys \in [1 .. k -> DOMAIN map] /\ DOMAIN map = {keys[i] : i \in 1 .. k}

SmallCurrent(current, k) ==
    /\ current \in Seq(PetitionMessage) /\ Len(current) = k /\ k \in {0, 1}
    /\ \A i \in 1 .. k : SmallPetition(current[i])

LEMMA GameStateRead ==
    ASSUME NEW counts, NEW resources, NEW current, NEW countKeys, NEW resourceKeys,
           NEW k1, NEW k2, NEW k3, NEW g, g = StateOf(counts, resources, current),
           Ordered(counts, countKeys, k1), SmallCurrent(current, k2),
           Ordered(resources, resourceKeys, k3)
    PROVE  ParseGameState(SerializeGameState(g, countKeys, resourceKeys)) = g
<1>1. /\ g.building_counts = counts /\ g.resources = resources /\ g.current_petition = current
  BY DEF StateOf
<1>2. /\ IsMap(counts) /\ k1 \in Nat /\ countKeys \in [1 .. k1 -> DOMAIN counts]
      /\ IsMap(resources) /\ k3 \in Nat /\ resourceKeys \in [1 .. k3 -> DOMAIN resources]
  BY DEF Ordered
<1>3. /\ k2 \in Nat /\ k2 \in {0, 1} /\ DOMAIN current = 1 .. k2
      /\ \A i \in 1 .. k2 : SmallPetition(current[i])
  <2>1. k2 \in Nat /\ k2 \in {0, 1} /\ current \in Seq(PetitionMessage) /\ Len(current) = k2
    BY DEF SmallCurrent
  <2>2. DOMAIN current = 1 .. k2
    BY <2>1
  <2> QED
    BY <2>1, <2>2 DEF SmallCurrent
<1>4. PICK f, e, h : /\ f = MapItems(1, counts, countKeys) /\ e = PetitionItems(current)
                     /\ h = MapItems(5, resources, resourceKeys)
  OBVIOUS
<1>5. 1 \in {1, 5} /\ 5 \in {1, 5}
  OBVIOUS
<1>6. /\ f \in Seq(Item) /\ Len(f) = k1 /\ e \in Seq(Item) /\ Len(e) = k2
      /\ h \in Seq(Item) /\ Len(h) = k3
  <2>1. f \in Seq(Item) /\ Len(f) = k1
    BY <1>2, <1>4, <1>5, MapEncodes
  <2>2. h \in Seq(Item) /\ Len(h) = k3
    BY <1>2, <1>4, <1>5, MapEncodes
  <2>3. e \in Seq(Item) /\ Len(e) = k2
    BY <1>3, <1>4, PetitionsEncode
  <2> QED
    BY <2>1, <2>2, <2>3
<1>7. PICK bytes, row : /\ bytes = SerializeGameState(g, countKeys, resourceKeys)
                        /\ row = FlattenSeq([i \in DOMAIN current |->
                                    MessageField(4, PetitionSize(current[i]),
                                                 SerializePetition(current[i]))])
  OBVIOUS
<1>8. bytes = (MapField(1, counts, countKeys) \o row) \o MapField(5, resources, resourceKeys)
  BY <1>1, <1>7 DEF SerializeGameState
<1>9. Encodes(bytes, (f \o e) \o h)
  <2>1. Encodes(row, e)
    BY <1>3, <1>4, <1>7, PetitionsEncode
  <2>2. Encodes(MapField(1, counts, countKeys), f)
    BY <1>2, <1>4, <1>5, MapEncodes
  <2>3. Encodes(MapField(5, resources, resourceKeys), h)
    BY <1>2, <1>4, <1>5, MapEncodes
  <2>4. Encodes(MapField(1, counts, countKeys) \o row, f \o e)
    BY <2>1, <2>2, PartsEncode
  <2> QED
    BY <1>8, <2>3, <2>4, PartsEncode
<1>10. PICK s, m, n : s = Fields(bytes) /\ m = k1 + k2 /\ n = m + k3
  OBVIOUS
<1>11. m \in Nat /\ n \in Nat /\ m <= n /\ 0 + k1 <= n /\ k1 <= m
  BY <1>2, <1>3, <1>10
<1>12. f \o e \in Seq(Item) /\ Len(f \o e) = m /\ Len((f \o e) \o h) = n
  <2>1. f \o e \in Seq(Item) /\ Len(f \o e) = m
    BY <1>6, <1>10, Concatenation
  <2>2. Len((f \o e) \o h) = n
    <3>1. PICK fe : fe = f \o e
      OBVIOUS
    <3>2. Len(fe \o h) = Len(fe) + Len(h)
      BY <1>6, <2>1, <3>1, Concatenation
    <3> QED
      BY <1>6, <1>10, <2>1, <3>1, <3>2
  <2> QED
    BY <2>1, <2>2
<1>13. DOMAIN s = 1 .. n /\ FieldsFollow(s, 0, (f \o e) \o h)
  BY <1>9, <1>10, <1>12, AllFollow
<1>14. FieldsFollow(s, 0, f) /\ FieldsFollow(s, k1, e) /\ FieldsFollow(s, m, h)
  <2>1. FieldsFollow(s, 0, f \o e) /\ FieldsFollow(s, 0 + m, h)
    BY <1>6, <1>12, <1>13, FollowingParts
  <2>2. FieldsFollow(s, 0, f) /\ FieldsFollow(s, 0 + k1, e)
    BY <1>6, <2>1, FollowingParts
  <2>3. 0 + m = m /\ 0 + k1 = k1
    BY <1>2, <1>11
  <2> QED
    BY <2>1, <2>2, <2>3
<1>15. PICK r : r[0] = UIGameState /\ StateReads(r, s, n)
                /\ FoldLeft(SetGameStateField, UIGameState, s) = r[n]
  <2>1. DOMAIN s = 1 .. n /\ n \in Nat
    BY <1>11, <1>13
  <2> QED
    BY <2>1, GameStateFold DEF StateReads
<1>16. r[k1] = StateOf(counts, << >>, << >>)
  <2>1. r[0] = Filled(1, << >>, << >>, << >>)
    BY <1>15 DEF UIGameState, Filled, StateOf
  <2>2. AtMap(r, s, n, 0, 1, counts, countKeys, k1, << >>, << >>)
    BY <1>2, <1>4, <1>5, <1>11, <1>14, <2>1 DEF AtMap
  <2>3. r[0 + k1] = Filled(1, PartOf(counts, {countKeys[i] : i \in 1 .. k1}), << >>, << >>)
    BY <1>15, <2>2, MapRead
  <2>4. PartOf(counts, {countKeys[i] : i \in 1 .. k1}) = counts
    BY DEF Ordered
  <2>5. 0 + k1 = k1
    BY <1>2
  <2> QED
    BY <2>3, <2>4, <2>5 DEF Filled
<1>17. r[m] = StateOf(counts, << >>, current)
  <2>1. CASE k2 = 0
    <3>1. m = k1
      BY <1>2, <1>10, <2>1
    <3>2. current = << >>
      BY <2>1 DEF SmallCurrent
    <3> QED
      BY <1>16, <3>1, <3>2
  <2>2. CASE k2 = 1
    <3>1. m \in 1 .. n /\ m - 1 = k1 /\ m = k1 + 1 /\ 1 \in 1 .. k2
      BY <1>2, <1>10, <1>11, <2>2
    <3>2. PICK p : p = current[1]
      OBVIOUS
    <3>3. SmallPetition(p)
      BY <1>3, <3>1, <3>2
    <3>4. current = <<p>>
      <4>1. /\ current \in Seq(PetitionMessage) /\ Len(current) = 1
            /\ <<p>> \in Seq(PetitionMessage) /\ Len(<<p>>) = 1 /\ <<p>>[1] = p
        BY <2>2, <3>3 DEF SmallCurrent, SmallPetition
      <4>2. \A i \in 1 .. 1 : current[i] = <<p>>[i]
        <5>1. \A i \in 1 .. 1 : i = 1
          OBVIOUS
        <5> QED
          BY <3>2, <4>1, <5>1
      <4> QED
        BY <4>1, <4>2, SameEntries
    <3>5. s[k1 + 1].tag = e[1].tag /\ s[k1 + 1].value = e[1].value
      BY <1>6, <1>14, <3>1 DEF FieldsFollow
    <3>6. e[1] = MessageItem(4, SerializePetition(p))
      BY <1>3, <1>4, <3>1, <3>2 DEF PetitionItems
    <3>7. s[m].tag = Tag(4, LEN) /\ s[m].value = SerializePetition(p)
      BY <3>1, <3>5, <3>6 DEF MessageItem
    <3>8. ParsePetition(s[m].value) = p
      BY <3>3, <3>7, PetitionRead
    <3>9. r[m] = SetGameStateField(r[k1], s[m])
      BY <1>15, <3>1 DEF StateReads
    <3>10. r[m] = StateOf(counts, << >>, <<ParsePetition(s[m].value)>>)
      BY <1>16, <3>7, <3>9, StatePetitionStep
    <3> QED
      BY <3>4, <3>8, <3>10
  <2> QED
    BY <1>3, <2>1, <2>2
<1>18. r[n] = StateOf(counts, resources, current)
  <2>1. r[m] = Filled(5, << >>, counts, current)
    BY <1>17 DEF Filled
  <2>2. m + k3 <= n
    BY <1>2, <1>10, <1>11
  <2>3. AtMap(r, s, n, m, 5, resources, resourceKeys, k3, counts, current)
    BY <1>2, <1>4, <1>5, <1>11, <1>14, <2>1, <2>2 DEF AtMap
  <2>4. r[m + k3] = Filled(5, PartOf(resources, {resourceKeys[i] : i \in 1 .. k3}), counts, current)
    BY <1>15, <2>3, MapRead
  <2>5. PartOf(resources, {resourceKeys[i] : i \in 1 .. k3}) = resources
    BY DEF Ordered
  <2>6. Filled(5, resources, counts, current) = StateOf(counts, resources, current)
    BY DEF Filled
  <2> QED
    BY <1>10, <2>4, <2>5, <2>6
<1> QED
  BY <1>7, <1>10, <1>15, <1>18 DEF ParseGameState

-----------------------------------------------------------------------------
(* Whatever the order of its maps, the UI reads the state the engine wrote. *)
LEMMA OrderOfKeys ==
    ASSUME NEW map, IsMap(map), map = PartOf(map, DOMAIN map), IsFiniteSet(DOMAIN map),
           NEW keys \in SetToSeqs(DOMAIN map)
    PROVE  Ordered(map, keys, Cardinality(DOMAIN map))
<1>1. PICK D, n : D = DOMAIN map /\ n = Cardinality(D)
  OBVIOUS
<1>2. IsFiniteSet(D) /\ n \in Nat /\ keys \in Injection(1 .. n, D)
  <2>1. IsFiniteSet(D) /\ keys \in SetToSeqs(D) \union {SetToSeq(D)}
    BY <1>1
  <2> QED
    BY <1>1, <2>1, KeyOrders, FS_CardinalityType
<1>3. Cardinality(1 .. n) = n
  BY <1>2, NumbersUpTo, FS_Interval
<1>4. keys \in Surjection(1 .. n, D)
  BY <1>1, <1>2, <1>3, FS_Injection
<1>5. keys \in [1 .. n -> D] /\ \A x \in D : \E i \in 1 .. n : keys[i] = x
  BY <1>4 DEF Surjection
<1>6. D = {keys[i] : i \in 1 .. n}
  BY <1>5
<1> QED
  BY <1>1, <1>2, <1>5, <1>6 DEF Ordered

LEMMA GameRead ==
    ASSUME NEW game, IsGame(game), NEW payload, MaySend("down", game, payload)
    PROVE  ParseGameState(payload) = BuildGameState(game)
<1>1. PICK g : g = BuildGameState(game)
  OBVIOUS
<1>2. PICK counts, resources, current :
        counts = g.building_counts /\ resources = g.resources /\ current = g.current_petition
  OBVIOUS
<1>3. PICK countKeys, resourceKeys :
        /\ countKeys \in SetToSeqs(DOMAIN counts) /\ resourceKeys \in SetToSeqs(DOMAIN resources)
        /\ payload = SerializeGameState(g, countKeys, resourceKeys)
  BY <1>1, <1>2 DEF MaySend
<1>4. g = StateOf(counts, resources, current)
  BY <1>1, <1>2 DEF BuildGameState, StateOf
<1>5. IsMap(counts) /\ DOMAIN counts \subseteq 0 .. 12
  BY <1>1, <1>2, CountsSent
<1>6. IsMap(resources) /\ DOMAIN resources \subseteq 1 .. 5
  BY <1>1, <1>2, ResourcesSent
<1>7. IsFiniteSet(DOMAIN counts) /\ IsFiniteSet(DOMAIN resources)
  <2>1. 0 \in Nat /\ 1 \in Nat /\ 5 \in Nat /\ 12 \in Nat /\ 0 <= 12 /\ 1 <= 5
    OBVIOUS
  <2>2. IsFiniteSet(DOMAIN counts)
    BY <1>5, <2>1, NumbersUpTo
  <2>3. IsFiniteSet(DOMAIN resources)
    BY <1>6, <2>1, NumbersUpTo
  <2> QED
    BY <2>2, <2>3
<1>8. counts = PartOf(counts, DOMAIN counts) /\ resources = PartOf(resources, DOMAIN resources)
  <2>1. counts = [n \in {0} \union {NumberIn(BuildingEnum, t) : t \in DOMAIN game.buildings} |->
                    IF n = 0 THEN 0 ELSE game.buildings[BuildingEnum[n]]]
    BY <1>1, <1>2 DEF BuildGameState
  <2>2. resources = [n \in {NumberIn(ResourceEnum, r) : r \in DOMAIN game.value} |->
                       game.value[ResourceEnum[n]]]
    BY <1>1, <1>2 DEF BuildGameState
  <2>3. counts = PartOf(counts, DOMAIN counts)
    BY <2>1 DEF PartOf
  <2>4. resources = PartOf(resources, DOMAIN resources)
    BY <2>2 DEF PartOf
  <2> QED
    BY <2>3, <2>4
<1>9. Ordered(counts, countKeys, Cardinality(DOMAIN counts))
  BY <1>3, <1>5, <1>7, <1>8, OrderOfKeys
<1>10. Ordered(resources, resourceKeys, Cardinality(DOMAIN resources))
  BY <1>3, <1>6, <1>7, <1>8, OrderOfKeys
<1>11. PICK k : k = Len(current)
  OBVIOUS
<1>12. SmallCurrent(current, k)
  <2>1. current \in Optional(PetitionMessage) /\ \A i \in DOMAIN current : SmallPetition(current[i])
    BY <1>1, <1>2, PetitionSent
  <2>2. current \in Seq(PetitionMessage) /\ k <= 1
    BY <1>11, <2>1 DEF Optional
  <2>3. k \in Nat /\ DOMAIN current = 1 .. k
    BY <1>11, <2>2
  <2>4. k \in {0, 1}
    BY <2>2, <2>3
  <2> QED
    BY <1>11, <2>1, <2>2, <2>3, <2>4 DEF SmallCurrent
<1>13. ParseGameState(SerializeGameState(g, countKeys, resourceKeys)) = g
  BY <1>4, <1>9, <1>10, <1>12, GameStateRead
<1> QED
  BY <1>1, <1>3, <1>13

-----------------------------------------------------------------------------
(* What the screen shows of a state. *)
LEMMA Names ==
    /\ \A n \in 1 .. 5 : NameOf(ResourceName, n) = ResourceEnum[n] /\ ResourceEnum[n] \in ResourceTypes
    /\ \A n \in 1 .. 12 : NameOf(BuildingName, n) = BuildingEnum[n]
    /\ NameOf(BuildingName, 0) = "Unspecified"
<1>1. DOMAIN ResourceName = 1 .. 5 /\ DOMAIN BuildingName = 1 .. 12
  BY DEF ResourceName, BuildingName
<1>2. ResourceName = ResourceEnum /\ BuildingName = BuildingEnum
  BY DEF ResourceName, ResourceEnum, BuildingName, BuildingEnum
<1>3. \A n \in 1 .. 5 : ResourceEnum[n] \in ResourceTypes
  BY DEF ResourceEnum, ResourceTypes
<1>4. \A n \in 1 .. 5 : NameOf(ResourceName, n) = ResourceEnum[n]
  BY <1>1, <1>2 DEF NameOf
<1>5. \A n \in 1 .. 12 : NameOf(BuildingName, n) = BuildingEnum[n]
  BY <1>1, <1>2 DEF NameOf
<1>6. NameOf(BuildingName, 0) = "Unspecified"
  BY <1>1 DEF NameOf
<1> QED
  BY <1>3, <1>4, <1>5, <1>6

LEMMA BuildingsShown ==
    ASSUME NEW game, IsGame(game)
    PROVE  Panel(BuildingName, BuildGameState(game).building_counts) =
             {<<"Unspecified", 0>>} \union {<<t, game.buildings[t]>> : t \in DOMAIN game.buildings}
<1>1. PICK B, counts, N : /\ B = game.buildings /\ counts = BuildGameState(game).building_counts
                          /\ N = [t \in DOMAIN B |-> NumberIn(BuildingEnum, t)]
  OBVIOUS
<1>2. DOMAIN B \subseteq BuildingPool
  BY <1>1 DEF IsGame
<1>3. \A t \in DOMAIN B : N[t] \in 1 .. 12 /\ BuildingEnum[N[t]] = t
  BY <1>1, <1>2, BuildingNumbers
<1>4. /\ DOMAIN counts = {0} \union {N[t] : t \in DOMAIN B}
      /\ \A n \in DOMAIN counts : counts[n] = IF n = 0 THEN 0 ELSE B[BuildingEnum[n]]
  BY <1>1 DEF BuildGameState
<1>5. Panel(BuildingName, counts) = {<<NameOf(BuildingName, n), counts[n]>> : n \in DOMAIN counts}
  BY DEF Panel
<1>6. <<NameOf(BuildingName, 0), counts[0]>> = <<"Unspecified", 0>> /\ 0 \in DOMAIN counts
  BY <1>4, Names
<1>7. ASSUME NEW t \in DOMAIN B
      PROVE  N[t] \in DOMAIN counts /\ <<NameOf(BuildingName, N[t]), counts[N[t]]>> = <<t, B[t]>>
  <2>1. N[t] \in 1 .. 12 /\ BuildingEnum[N[t]] = t /\ N[t] # 0 /\ N[t] \in DOMAIN counts
    BY <1>3, <1>4
  <2>2. counts[N[t]] = B[t]
    BY <1>4, <2>1
  <2>3. NameOf(BuildingName, N[t]) = t
    BY <2>1, Names
  <2> QED
    BY <2>1, <2>2, <2>3
<1>8. \A n \in DOMAIN counts : n = 0 \/ \E t \in DOMAIN B : n = N[t]
  BY <1>4
<1>9. Panel(BuildingName, counts) = {<<"Unspecified", 0>>} \union {<<t, B[t]>> : t \in DOMAIN B}
  BY <1>5, <1>6, <1>7, <1>8
<1> QED
  BY <1>1, <1>9

LEMMA ResourcesShown ==
    ASSUME NEW game, IsGame(game)
    PROVE  Panel(ResourceName, BuildGameState(game).resources) =
             {<<r, game.value[r]>> : r \in DOMAIN game.value}
<1>1. PICK V, resources, N : /\ V = game.value /\ resources = BuildGameState(game).resources
                             /\ N = [r \in DOMAIN V |-> NumberIn(ResourceEnum, r)]
  OBVIOUS
<1>2. DOMAIN V \subseteq ResourceTypes
  BY <1>1 DEF IsGame
<1>3. \A r \in DOMAIN V : N[r] \in 1 .. 5 /\ ResourceEnum[N[r]] = r
  BY <1>1, <1>2, ResourceNumbers
<1>4. /\ DOMAIN resources = {N[r] : r \in DOMAIN V}
      /\ \A n \in DOMAIN resources : resources[n] = V[ResourceEnum[n]]
  BY <1>1 DEF BuildGameState
<1>5. Panel(ResourceName, resources) = {<<NameOf(ResourceName, n), resources[n]>> : n \in DOMAIN resources}
  BY DEF Panel
<1>6. ASSUME NEW r \in DOMAIN V
      PROVE  N[r] \in DOMAIN resources /\ <<NameOf(ResourceName, N[r]), resources[N[r]]>> = <<r, V[r]>>
  <2>1. N[r] \in 1 .. 5 /\ ResourceEnum[N[r]] = r /\ N[r] \in DOMAIN resources
    BY <1>3, <1>4
  <2>2. resources[N[r]] = V[r]
    BY <1>4, <2>1
  <2>3. NameOf(ResourceName, N[r]) = r
    BY <2>1, Names
  <2> QED
    BY <2>1, <2>2, <2>3
<1>7. \A n \in DOMAIN resources : \E r \in DOMAIN V : n = N[r]
  BY <1>4
<1>8. Panel(ResourceName, resources) = {<<r, V[r]>> : r \in DOMAIN V}
  BY <1>5, <1>6, <1>7
<1> QED
  BY <1>1, <1>8

(* What stands in a sequence. *)
Entries(s) == {s[i] : i \in DOMAIN s}

LEMMA EntriesJoin ==
    ASSUME NEW S, NEW s \in Seq(S), NEW t \in Seq(S)
    PROVE  Entries(s \o t) = Entries(s) \union Entries(t)
<1>1. PICK m, n, st : m = Len(s) /\ n = Len(t) /\ st = s \o t
  OBVIOUS
<1>2. /\ m \in Nat /\ n \in Nat /\ DOMAIN st = 1 .. m + n /\ DOMAIN s = 1 .. m /\ DOMAIN t = 1 .. n
  BY <1>1
<1>3. (\A i \in 1 .. m : st[i] = s[i]) /\ (\A i \in 1 .. n : st[m + i] = t[i])
  BY <1>1, EntriesOfConcatenation
<1>4. \A i \in 1 .. m : i \in 1 .. m + n
  BY <1>2
<1>5. \A i \in 1 .. n : m + i \in 1 .. m + n
  BY <1>2
<1>6. ASSUME NEW i \in 1 .. m + n
      PROVE  st[i] \in Entries(s) \union Entries(t)
  <2>1. CASE i <= m
    <3>1. i \in 1 .. m
      BY <1>2, <2>1
    <3> QED
      BY <1>2, <1>3, <3>1 DEF Entries
  <2>2. CASE ~(i <= m)
    <3>1. PICK j : j = i - m
      OBVIOUS
    <3>2. j \in 1 .. n /\ m + j = i
      BY <1>2, <2>2, <3>1
    <3>3. st[i] = t[j]
      BY <1>3, <3>2
    <3> QED
      BY <1>2, <3>2, <3>3 DEF Entries
  <2> QED
    BY <2>1, <2>2
<1>7. Entries(st) \subseteq Entries(s) \union Entries(t)
  BY <1>2, <1>6 DEF Entries
<1>8. ASSUME NEW i \in 1 .. m
      PROVE  s[i] \in Entries(st)
  BY <1>2, <1>3, <1>4 DEF Entries
<1>9. ASSUME NEW i \in 1 .. n
      PROVE  t[i] \in Entries(st)
  <2>1. m + i \in DOMAIN st /\ st[m + i] = t[i]
    BY <1>2, <1>3, <1>5
  <2> QED
    BY <2>1 DEF Entries
<1>10. Entries(s) \subseteq Entries(st) /\ Entries(t) \subseteq Entries(st)
  BY <1>2, <1>8, <1>9 DEF Entries
<1> QED
  BY <1>1, <1>7, <1>10

EffectOf(effects, n) == [resource_type |-> n, delta_value |-> effects[ResourceEnum[n]]]

LEMMA EffectEntries ==
    ASSUME NEW effects, \A r \in ResourceTypes : effects[r] \in Int32
    PROVE  Entries(EffectMessages(effects)) =
             {EffectOf(effects, n) : n \in {m \in 1 .. 5 : effects[ResourceEnum[m]] # 0}}
<1>1. PICK d : d = [n \in 1 .. 5 |-> effects[ResourceEnum[n]]]
  OBVIOUS
<1>2. \A n \in 1 .. 5 : d[n] \in Int32 /\ n \in Int32
  BY <1>1, Names DEF Int32
<1>3. PICK s : s = [n \in 1 .. 5 |-> IF d[n] = 0 THEN << >>
                                     ELSE <<[resource_type |-> n, delta_value |-> d[n]]>>]
  OBVIOUS
<1>4. DOMAIN ResourceEnum = 1 .. 5
  BY DEF ResourceEnum
<1>5. EffectMessages(effects) = FlattenSeq(s)
  BY <1>1, <1>3, <1>4 DEF EffectMessages
<1>6. ASSUME NEW n \in 1 .. 5
      PROVE  /\ s[n] \in Seq(ResourceEffectMessage)
             /\ Entries(s[n]) = IF d[n] = 0 THEN {} ELSE {EffectOf(effects, n)}
  <2>1. PICK e : e = [resource_type |-> n, delta_value |-> d[n]]
    OBVIOUS
  <2>2. e = EffectOf(effects, n) /\ e \in ResourceEffectMessage
    BY <1>1, <1>2, <2>1 DEF EffectOf, ResourceEffectMessage
  <2>3. CASE d[n] = 0
    <3>1. s[n] = << >>
      BY <1>3, <2>3
    <3> QED
      BY <2>3, <3>1 DEF Entries
  <2>4. CASE d[n] # 0
    <3>1. s[n] = <<e>>
      BY <1>3, <2>1, <2>4
    <3>2. <<e>> \in Seq(ResourceEffectMessage) /\ DOMAIN <<e>> = {1} /\ <<e>>[1] = e
      BY <2>2
    <3>3. Entries(<<e>>) = {e}
      BY <3>2 DEF Entries
    <3> QED
      BY <2>2, <2>4, <3>1, <3>2, <3>3
  <2> QED
    BY <2>3, <2>4
<1>7. s \in [1 .. 5 -> Seq(ResourceEffectMessage)]
  BY <1>3, <1>6
<1>8. PICK k : k = 5
  OBVIOUS
<1>9. k \in Nat /\ s \in [1 .. k -> Seq(ResourceEffectMessage)]
  BY <1>7, <1>8
<1>10. PICK r \in [0 .. k -> Seq(ResourceEffectMessage)] :
          r[0] = << >> /\ (\A i \in 1 .. k : r[i] = r[i - 1] \o s[i]) /\ FlattenSeq(s) = r[k]
  BY <1>9, FlattenSteps
<1> DEFINE Shows(i) == {EffectOf(effects, n) : n \in {m \in 1 .. i : d[m] # 0}}
           T == {i \in 0 .. k : Entries(r[i]) = Shows(i)}
<1>11. 0 \in T
  <2>1. Entries(r[0]) = {}
    BY <1>10 DEF Entries
  <2>2. Shows(0) = {}
    OBVIOUS
  <2>3. 0 \in 0 .. k
    BY <1>9
  <2> QED
    BY <2>1, <2>2, <2>3
<1>12. ASSUME NEW i \in 1 .. k, i - 1 \in T
       PROVE  i \in T
  <2>1. PICK a : a = i - 1
    OBVIOUS
  <2>2. a \in 0 .. k /\ i \in 0 .. k /\ i \in 1 .. 5 /\ r[a] \in Seq(ResourceEffectMessage)
    BY <1>8, <1>9, <2>1
  <2>3. Entries(r[i]) = Entries(r[a]) \union Entries(s[i])
    <3>1. PICK x, y : x = r[a] /\ y = s[i]
      OBVIOUS
    <3>2. x \in Seq(ResourceEffectMessage) /\ y \in Seq(ResourceEffectMessage)
      BY <1>6, <2>2, <3>1
    <3>3. Entries(x \o y) = Entries(x) \union Entries(y)
      BY <3>2, EntriesJoin
    <3>4. r[i] = x \o y
      BY <1>10, <2>1, <3>1
    <3> QED
      BY <3>1, <3>3, <3>4
  <2>4. Entries(r[a]) = Shows(a)
    BY <1>12, <2>1
  <2>5. \A m \in 1 .. i : m = i \/ m \in 1 .. a
    BY <2>1, <2>2
  <2>6. (\A m \in 1 .. a : m \in 1 .. i) /\ i \in 1 .. i
    BY <2>1, <2>2
  <2>7. Shows(i) = Shows(a) \union Entries(s[i])
    <3>1. Entries(s[i]) = IF d[i] = 0 THEN {} ELSE {EffectOf(effects, i)}
      BY <1>6, <2>2
    <3> QED
      BY <2>5, <2>6, <3>1
  <2> QED
    BY <2>2, <2>3, <2>4, <2>7
<1> HIDE DEF T
<1>13. k \in T
  <2>1. k \in 0 .. k
    BY <1>9
  <2> QED
    BY <1>9, <1>11, <1>12, <2>1, UpToN
<1>14. Entries(r[k]) = {EffectOf(effects, n) : n \in {m \in 1 .. 5 : d[m] # 0}}
  BY <1>8, <1>13 DEF T
<1>15. {m \in 1 .. 5 : d[m] # 0} = {m \in 1 .. 5 : effects[ResourceEnum[m]] # 0}
  BY <1>1
<1> QED
  BY <1>5, <1>10, <1>14, <1>15

LEMMA EffectsShown ==
    ASSUME NEW effects, \A r \in ResourceTypes : effects[r] \in Int32
    PROVE  EffectLines(EffectMessages(effects)) =
             {<<r, effects[r]>> : r \in {q \in ResourceTypes : effects[q] # 0}}
<1>1. PICK s : s = EffectMessages(effects)
  OBVIOUS
<1>2. EffectLines(s) = {<<NameOf(ResourceName, e.resource_type), e.delta_value>> : e \in Entries(s)}
  BY DEF EffectLines, Entries
<1>3. Entries(s) = {EffectOf(effects, n) : n \in {m \in 1 .. 5 : effects[ResourceEnum[m]] # 0}}
  BY <1>1, EffectEntries
<1>4. ASSUME NEW n \in 1 .. 5
      PROVE  LET e == EffectOf(effects, n)
             IN  <<NameOf(ResourceName, e.resource_type), e.delta_value>> =
                   <<ResourceEnum[n], effects[ResourceEnum[n]]>>
  BY Names DEF EffectOf
<1>5. EffectLines(s) = {<<ResourceEnum[n], effects[ResourceEnum[n]]>> :
                          n \in {m \in 1 .. 5 : effects[ResourceEnum[m]] # 0}}
  BY <1>2, <1>3, <1>4
<1>6. \A r \in ResourceTypes : \E n \in 1 .. 5 : ResourceEnum[n] = r
  BY ResourceNumbers
<1>7. \A n \in 1 .. 5 : ResourceEnum[n] \in ResourceTypes
  BY Names
<1>8. EffectLines(s) = {<<r, effects[r]>> : r \in {q \in ResourceTypes : effects[q] # 0}}
  BY <1>5, <1>6, <1>7
<1> QED
  BY <1>1, <1>8

(* How the engine sees a petition. *)
OfferShown(p) ==
    LET effects == Catalog[p.type].effects
    IN  [id |-> p.id, build |-> p.type, cost |-> Catalog[p.type].cost, ticks |-> p.ticks,
         effects |-> {<<r, effects[r]>> : r \in {q \in ResourceTypes : effects[q] # 0}}]

LEMMA PetitionShown ==
    ASSUME NEW p \in [id : Int32, type : BuildingPool, ticks : Int32]
    PROVE  PetitionPanel(<<OfferMessage(p)>>) = <<OfferShown(p)>>
<1>1. PICK message, t, cost, effects : /\ message = OfferMessage(p) /\ t = p.type
                                       /\ cost = Catalog[t].cost /\ effects = Catalog[t].effects
  OBVIOUS
<1>2. t \in BuildingPool
  BY <1>1
<1>3. PICK b : b = [type |-> NumberIn(BuildingEnum, t), build_cost |-> cost,
                    ticks_to_complete |-> p.ticks, effects |-> EffectMessages(effects)]
  OBVIOUS
<1>4. message = [id |-> p.id, building |-> <<b>>]
  BY <1>1, <1>3 DEF OfferMessage
<1>5. NameOf(BuildingName, b.type) = t
  <2>1. NumberIn(BuildingEnum, t) \in 1 .. 12 /\ BuildingEnum[NumberIn(BuildingEnum, t)] = t
    BY <1>2, BuildingNumbers
  <2>2. b.type = NumberIn(BuildingEnum, t)
    BY <1>3
  <2> QED
    BY <2>1, <2>2, Names
<1>6. EffectLines(b.effects) = {<<r, effects[r]>> : r \in {q \in ResourceTypes : effects[q] # 0}}
  <2>1. \A r \in ResourceTypes : effects[r] \in Int32
    BY <1>1, <1>2, CatalogNumbers
  <2>2. b.effects = EffectMessages(effects)
    BY <1>3
  <2> QED
    BY <2>1, <2>2, EffectsShown
<1>7. PICK shown : shown = [id |-> message.id, build |-> NameOf(BuildingName, b.type),
                            cost |-> b.build_cost, ticks |-> b.ticks_to_complete,
                            effects |-> EffectLines(b.effects)]
  OBVIOUS
<1>8. shown = OfferShown(p)
  <2>1. message.id = p.id /\ b.build_cost = cost /\ b.ticks_to_complete = p.ticks
    BY <1>3, <1>4
  <2> QED
    BY <1>1, <1>5, <1>6, <1>7, <2>1 DEF OfferShown
<1>9. message.building = <<b>>
  BY <1>4
<1>10. PICK panel : panel = PetitionPanel(<<message>>)
  OBVIOUS
<1>11. DOMAIN panel = 1 .. 1 /\ panel[1] = shown /\ panel = [i \in 1 .. 1 |-> panel[i]]
  <2>1. <<message>> # << >> /\ <<message>>[1] = message
    OBVIOUS
  <2>2. DOMAIN <<b>> = 1 .. 1 /\ <<b>>[1] = b /\ 1 \in 1 .. 1
    OBVIOUS
  <2>3. panel = [i \in DOMAIN message.building |->
                   [id |-> message.id, build |-> NameOf(BuildingName, message.building[i].type),
                    cost |-> message.building[i].build_cost,
                    ticks |-> message.building[i].ticks_to_complete,
                    effects |-> EffectLines(message.building[i].effects)]]
    BY <1>10, <2>1 DEF PetitionPanel
  <2>4. DOMAIN panel = 1 .. 1 /\ panel = [i \in 1 .. 1 |-> panel[i]]
    BY <1>9, <2>2, <2>3
  <2>5. panel[1] = [id |-> message.id, build |-> NameOf(BuildingName, message.building[1].type),
                    cost |-> message.building[1].build_cost,
                    ticks |-> message.building[1].ticks_to_complete,
                    effects |-> EffectLines(message.building[1].effects)]
    BY <1>9, <2>2, <2>3
  <2>6. panel[1] = shown
    BY <1>7, <1>9, <2>2, <2>5
  <2> QED
    BY <2>4, <2>6
<1>12. panel = <<shown>>
  <2>1. PICK S : S = {shown}
    OBVIOUS
  <2>2. \A i \in 1 .. 1 : i = 1
    OBVIOUS
  <2>3. panel \in [1 .. 1 -> S]
    BY <1>11, <2>1, <2>2
  <2>4. panel \in Seq(S) /\ Len(panel) = 1
    BY <2>3, RowIsSequence
  <2>5. <<shown>> \in Seq(S) /\ Len(<<shown>>) = 1 /\ <<shown>>[1] = shown
    BY <2>1
  <2>6. \A i \in 1 .. 1 : panel[i] = <<shown>>[i]
    BY <1>11, <2>2, <2>5
  <2> QED
    BY <2>4, <2>5, <2>6, SameEntries
<1> QED
  BY <1>1, <1>8, <1>10, <1>12

(* The screen of the state the engine builds is the game. *)
LEMMA ScreenIsView ==
    ASSUME NEW game, IsGame(game)
    PROVE  Screen(BuildGameState(game)) = View(game)
<1>1. PICK g, offer, P : /\ g = BuildGameState(game) /\ offer = game.offer
                         /\ P = [id : Int32, type : BuildingPool, ticks : Int32]
  OBVIOUS
<1>2. offer \in Seq(P) /\ Len(offer) <= 1
  BY <1>1 DEF IsGame, Optional
<1>3. g.current_petition = [i \in DOMAIN offer |-> OfferMessage(offer[i])]
  BY <1>1 DEF BuildGameState
<1>4. PetitionPanel(g.current_petition) = [i \in DOMAIN offer |-> OfferShown(offer[i])]
  <2>1. PICK k : k = Len(offer)
    OBVIOUS
  <2>2. k \in Nat /\ k <= 1 /\ DOMAIN offer = 1 .. k
    BY <1>2, <2>1
  <2>3. CASE k = 0
    <3>1. g.current_petition = << >>
      BY <1>3, <2>2, <2>3
    <3>2. [i \in DOMAIN offer |-> OfferShown(offer[i])] = << >>
      BY <2>2, <2>3
    <3> QED
      BY <3>1, <3>2 DEF PetitionPanel
  <2>4. CASE k = 1
    <3>1. PICK p : p = offer[1]
      OBVIOUS
    <3>2. p \in P /\ DOMAIN offer = 1 .. 1
      BY <1>2, <2>2, <2>4, <3>1
    <3>3. \A i \in 1 .. 1 : i = 1
      OBVIOUS
    <3>4. [i \in 1 .. 1 |-> OfferMessage(p)] = <<OfferMessage(p)>>
      OBVIOUS
    <3>5. [i \in 1 .. 1 |-> OfferShown(p)] = <<OfferShown(p)>>
      OBVIOUS
    <3>6. g.current_petition = <<OfferMessage(p)>>
      BY <1>3, <3>1, <3>2, <3>3, <3>4
    <3>7. [i \in DOMAIN offer |-> OfferShown(offer[i])] = <<OfferShown(p)>>
      BY <3>1, <3>2, <3>3, <3>5
    <3>8. PetitionPanel(<<OfferMessage(p)>>) = <<OfferShown(p)>>
      BY <1>1, <3>2, PetitionShown
    <3> QED
      BY <3>6, <3>7, <3>8
  <2>5. k = 0 \/ k = 1
    BY <2>2
  <2> QED
    BY <2>3, <2>4, <2>5
<1>5. Panel(BuildingName, g.building_counts) =
        {<<"Unspecified", 0>>} \union {<<t, game.buildings[t]>> : t \in DOMAIN game.buildings}
  BY <1>1, BuildingsShown
<1>6. Panel(ResourceName, g.resources) = {<<r, game.value[r]>> : r \in DOMAIN game.value}
  BY <1>1, ResourcesShown
<1>7. View(game).petition = [i \in DOMAIN offer |-> OfferShown(offer[i])]
  BY <1>1 DEF View, OfferShown
<1>8. /\ View(game).resources = {<<r, game.value[r]>> : r \in DOMAIN game.value}
      /\ View(game).buildings =
           {<<"Unspecified", 0>>} \union {<<t, game.buildings[t]>> : t \in DOMAIN game.buildings}
  BY DEF View
<1>9. View(game) = [resources |-> View(game).resources, buildings |-> View(game).buildings,
                    petition |-> View(game).petition]
  BY DEF View
<1>10. Screen(g) = [resources |-> Panel(ResourceName, g.resources),
                    buildings |-> Panel(BuildingName, g.building_counts),
                    petition |-> PetitionPanel(g.current_petition)]
  BY DEF Screen
<1>11. Screen(g) = View(game)
  BY <1>4, <1>5, <1>6, <1>7, <1>8, <1>9, <1>10
<1> QED
  BY <1>1, <1>11

(* Whatever the game holds and in whatever order its maps are written, the   *)
(* UI reads and shows of the message what the engine put into it.            *)
THEOREM GameIsShown ==
    \A game, payload : IsGame(game) /\ MaySend("down", game, payload) =>
        Screen(ParseGameState(payload)) = View(game)
<1> SUFFICES ASSUME NEW game, NEW payload, IsGame(game), MaySend("down", game, payload)
             PROVE  Screen(ParseGameState(payload)) = View(game)
  OBVIOUS
<1>1. ParseGameState(payload) = BuildGameState(game)
  BY GameRead
<1> QED
  BY <1>1, ScreenIsView

(* Every state the UI takes from the stream shows the game as it was when    *)
(* the engine sent it, in the order sent.                                    *)
THEOREM StatesShowTheGame == FramingSpec => []ScreenShowsGame
<1>1. FramingInv => ScreenShowsGame
  <2> SUFFICES ASSUME FramingInv, direction = "down", NEW i \in DOMAIN delivered
               PROVE  Shown(i) = View(script[i])
    BY DEF ScreenShowsGame
  <2>1. ScriptOf /\ BytesOK /\ DeliveredOK
    BY DEF FramingInv
  <2>2. i \in 1 .. Len(delivered) /\ i \in 1 .. Len(script)
    <3>1. PICK n, m, k : n = Len(delivered) /\ m = sent /\ k = Len(script)
      OBVIOUS
    <3>2. delivered \in Seq(Seq(Byte)) /\ n <= m /\ m \in 0 .. k
      BY <2>1, <3>1 DEF BytesOK
    <3>3. k \in Nat
      BY <2>1, <3>1, ScriptItems
    <3>4. i \in 1 .. n /\ n \in Nat
      BY <3>1, <3>2
    <3>5. i \in 1 .. k
      BY <3>2, <3>3, <3>4
    <3> QED
      BY <3>1, <3>4, <3>5
  <2>3. IsGame(script[i])
    BY <2>1, <2>2, ScriptItems
  <2>4. MaySend("down", script[i], delivered[i])
    BY <2>1, <2>2 DEF DeliveredOK
  <2>5. Screen(ParseGameState(delivered[i])) = View(script[i])
    BY <2>3, <2>4, GameIsShown
  <2> QED
    BY <2>5 DEF Shown
<1> QED
  BY <1>1, FramingInvariant, PTL
=============================================================================
