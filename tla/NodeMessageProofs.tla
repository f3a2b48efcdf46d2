-------------------------- MODULE NodeMessageProofs -------------------------
(***************************************************************************)
(* How the messages of a node are made up, what the handlers of numbers    *)
(* and of pairs make of them, and what of a message of connections can be  *)
(* read (MessageRead).                                                     *)
(***************************************************************************)
EXTENDS HandlerCalls, WellFoundedInduction, TLAPS

(* Two OIDs are the same if their elements are. *)
LEMMA SameElements ==
  ASSUME NEW a \in OIDs, NEW b \in OIDs, Len(a) = Len(b),
         \A i \in 1 .. Len(a) : a[i] = b[i]
  PROVE  a = b
  BY DEF OIDs

(* The later of some parts is one of them. *)
LEMMA MaxIsElement ==
  ASSUME NEW n \in Nat, NEW S \in SUBSET (1 .. n), S # {}
  PROVE  Max(S) \in S
<1> DEFINE D == {n - i : i \in S}
<1>1. D \subseteq Nat /\ D # {}
  <2>1. \A i \in S : n - i \in Nat
    OBVIOUS
  <2>2. \E i : i \in S
    OBVIOUS
  <2> QED
    BY <2>1, <2>2, Zenon
<1>2. PICK d \in D : \A e \in D : ~(e < d)
  <2>1. IsWellFoundedOn(OpToRel(<, Nat), Nat)
    BY NatLessThanWellFounded, Zenon
  <2>2. \E d \in D : \A e \in D : ~(<<e, d>> \in OpToRel(<, Nat))
    <3> HIDE DEF D
    <3> QED
      BY <1>1, <2>1, WFMin, Zenon
  <2> QED
    BY <1>1, <2>2, Zenon DEF OpToRel
<1>3. PICK i \in S : d = n - i
  OBVIOUS
<1>4. ASSUME NEW j \in S PROVE i >= j
  <2>1. n - j \in D
    OBVIOUS
  <2>2. ~(n - j < n - i)
    <3> HIDE DEF D
    <3> QED
      BY <1>2, <1>3, <2>1
  <2> QED
    BY <2>2
<1>5. \E j \in S : \A k \in S : j >= k
  BY <1>4
<1> QED
  BY <1>5, Zenon DEF Max

(* The index an address makes is an OID. *)
LEMMA BytesTyped ==
  ASSUME NEW text \in Texts
  PROVE  toOIDBytes(text.addr) \in OIDs
<1>1. text.addr.type \in Int /\ text.addr.bytes \in Seq(Int)
  <2>1. text.addr.type \in {0, 1, 2} /\ text.addr.bytes \in Seq(0 .. 255)
    BY DEF Texts
  <2>2. \A S, T : S \subseteq T => \A b \in Seq(S) : b \in Seq(T)
    OBVIOUS
  <2>3. 0 .. 255 \subseteq Int
    OBVIOUS
  <2>4. text.addr.bytes \in Seq(Int)
    <3> DEFINE b == text.addr.bytes
               S == 0 .. 255
    <3>1. b \in Seq(S) /\ S \subseteq Int
      BY <2>1, <2>3
    <3> HIDE DEF b, S
    <3>2. b \in Seq(Int)
      BY <2>2, <3>1, Zenon
    <3> QED
      BY <3>2 DEF b
  <2>5. text.addr.type \in Int
    BY <2>1
  <2> QED
    BY <2>4, <2>5
<1>2. <<text.addr.type, Len(text.addr.bytes)>> \in Seq(Int)
  BY <1>1
<1>3. <<text.addr.type, Len(text.addr.bytes)>> \o text.addr.bytes \in Seq(Int)
  BY <1>1, <1>2
<1> QED
  BY <1>3 DEF toOIDBytes, OIDs

(* A count tells which message it is of. *)
LEMMA CountsTell ==
  ASSUME NEW n \in Nat, NEW i \in 0 .. Counts - 1, Counts * (n + 1) <= WORD
  PROVE  Value(n, i) \in 0 .. WORD - 1 /\ MessageOf(Value(n, i)) = n
<1>1. Counts \in Nat /\ Counts > 5 /\ WORD \in Nat
  BY CountsAssumption, WordAssumption DEF CountsAssumption, WordAssumption
<1>2. Counts * (n + 1) = Counts * n + Counts /\ Counts * n \in Nat
  BY <1>1
<1>3. Value(n, i) \in 0 .. WORD - 1
  BY <1>1, <1>2 DEF Value
<1>4. PICK q \in Int : q = Value(n, i) \div Counts /\ Counts * q <= Value(n, i)
                       /\ Value(n, i) < Counts * q + Counts
  BY <1>1, <1>3
<1>5. q = n
  <2>1. CASE q > n
    <3>1. PICK d \in Nat : q = n + 1 + d
      <4>1. q - n - 1 \in Nat
        BY <2>1
      <4> QED
        BY <4>1
    <3>2. Counts * q = Counts * (n + 1) + Counts * d /\ Counts * d \in Nat
      BY <1>1, <3>1
    <3> QED
      BY <1>1, <1>2, <1>4, <3>2 DEF Value
  <2>2. CASE q < n
    <3>1. PICK d \in Nat : n = q + 1 + d
      <4>1. n - q - 1 \in Nat
        BY <2>2
      <4> QED
        BY <4>1
    <3>2. Counts * n = Counts * q + Counts + Counts * d /\ Counts * d \in Nat
      BY <1>1, <3>1
    <3> QED
      BY <1>1, <1>2, <1>4, <3>2 DEF Value
  <2> QED
    BY <2>1, <2>2
<1> QED
  BY <1>3, <1>4, <1>5 DEF MessageOf

(* atoi keeps the word of a number, and all of a small one. *)
LEMMA AtoiKeeps ==
  ASSUME NEW v \in 0 .. WORD - 1
  PROVE  /\ atoi(Text(v)) % WORD = v
         /\ v < WORD \div 2 => atoi(Text(v)) = v
<1>1. PICK h \in Nat : WORD = 2 * h /\ h > 0 /\ WORD \div 2 = h
  BY WordAssumption DEF WordAssumption
<1>2. Text(v).number = v
  BY DEF Text
<1>3. CASE v < h
  <2>1. (v + h) % WORD = v + h
    BY <1>1, <1>3
  <2> QED
    BY <1>1, <1>2, <1>3, <2>1 DEF atoi
<1>4. CASE v >= h
  <2>1. (v + h) % WORD = v - h
    BY <1>1, <1>4
  <2>2. atoi(Text(v)) = v - 2 * h
    BY <1>1, <1>2, <2>1 DEF atoi
  <2>3. (v - 2 * h) % WORD = v
    BY <1>1, <1>4
  <2> QED
    BY <1>1, <1>4, <2>2, <2>3
<1> QED
  BY <1>1, <1>3, <1>4

(* What a map that is filled from a message puts into the tree comes from  *)
(* its cells, and from all of them when they are for different OIDs.       *)
LEMMA FilledPuts ==
  ASSUME NEW f, Len(f) \in Nat, NEW root, NEW cells,
         \A c \in cells : c[2] \in 1 .. Len(f)
  PROVE  LET puts == Puts(ReplaceSubtree(root, Filled(cells, f))) IN
         /\ \A p \in puts : \E c \in cells : p = <<c[1], atoi(f[c[2]])>>
         /\ (\A c, d \in cells : c[1] = d[1] => c[2] = d[2]) =>
              \A c \in cells : <<c[1], atoi(f[c[2]])>> \in puts
<1> DEFINE m == Filled(cells, f)
           puts == Puts(ReplaceSubtree(root, m))
           Parts(k) == {c[2] : c \in {d \in cells : d[1] = k}}
<1>1. puts = {<<k, m[k]>> : k \in DOMAIN m}
  BY DEF Puts, ReplaceSubtree
<1>2. DOMAIN m = {c[1] : c \in cells} /\ \A k \in DOMAIN m : m[k] = atoi(f[Max(Parts(k))])
  BY DEF Filled
<1>3. ASSUME NEW k \in DOMAIN m
      PROVE  \E c \in cells : c[1] = k /\ m[k] = atoi(f[c[2]])
  <2>1. Parts(k) \in SUBSET (1 .. Len(f)) /\ Parts(k) # {}
    BY <1>2
  <2>2. Max(Parts(k)) \in Parts(k)
    <3> HIDE DEF Parts
    <3> QED
      BY <2>1, MaxIsElement, Zenon
  <2>3. PICK c \in cells : c[1] = k /\ c[2] = Max(Parts(k))
    <3>1. PICK x : x = Max(Parts(k)) /\ x \in Parts(k)
      BY <2>2, Zenon
    <3> QED
      BY <3>1
  <2> HIDE DEF Parts, m
  <2> QED
    BY <1>2, <2>3
<1> HIDE DEF m, puts, Parts
<1>4. \A p \in puts : \E c \in cells : p = <<c[1], atoi(f[c[2]])>>
  <2> SUFFICES ASSUME NEW p \in puts PROVE \E c \in cells : p = <<c[1], atoi(f[c[2]])>>
    OBVIOUS
  <2>1. PICK k \in DOMAIN m : p = <<k, m[k]>>
    BY <1>1
  <2>2. PICK c \in cells : c[1] = k /\ m[k] = atoi(f[c[2]])
    BY <1>3
  <2> QED
    BY <2>1, <2>2
<1>5. ASSUME \A c, d \in cells : c[1] = d[1] => c[2] = d[2], NEW c \in cells
      PROVE  <<c[1], atoi(f[c[2]])>> \in puts
  <2>1. c[1] \in DOMAIN m
    BY <1>2
  <2>2. m[c[1]] = atoi(f[c[2]])
    BY <1>3, <1>5, <2>1
  <2> QED
    BY <1>1, <2>1, <2>2
<1> QED
  BY <1>4, <1>5 DEF m, puts

-----------------------------------------------------------------------------
(* A text with a number. *)
LEMMA TextTyped ==
  ASSUME NEW v \in Int
  PROVE  Text(v) \in Texts /\ ~isValid(Text(v).addr) /\ Text(v).number = v
BY DEF Text, Texts, isValid

(* Values are numbers. *)
LEMMA ValueTyped == \A n \in Nat, i \in Nat : Value(n, i) \in Nat
BY CountsAssumption DEF CountsAssumption, Value

(* The beginning of a message. *)
LEMMA Beginning ==
  ASSUME NEW S, NEW all \in Seq(S), NEW parts \in 0 .. Len(all),
         NEW f, f = SubSeq(all, 1, parts)
  PROVE  f \in Seq(S) /\ Len(f) = parts /\ \A k \in 1 .. parts : f[k] = all[k]
<1>1. Len(all) \in Nat
  OBVIOUS
<1> QED
  BY <1>1

(* A message of plain numbers. *)
LEMMA EncodeNumbers ==
  ASSUME NEW n \in Nat, NEW class \in Classes \ {"IPCount", "AstaireConnection"}, NEW shape,
         IsShape(class, shape)
  PROVE  LET f == Encode(n, class, shape) IN
         /\ f \in Seq(Texts) /\ Len(f) < Counts
         /\ \A k \in 1 .. Len(f) : f[k] = Text(Value(n, k))
<1>1. shape.parts \in 0 .. Counts - 1 /\ Counts \in Nat
  BY CountsAssumption DEF IsShape, CountsAssumption
<1> DEFINE all == Numbers(n, shape.parts)
<1>2. all \in Seq(Texts) /\ Len(all) = shape.parts /\ \A k \in 1 .. shape.parts : all[k] = Text(Value(n, k))
  <2>1. all = [i \in 1 .. shape.parts |-> Text(Value(n, i))]
    BY DEF Numbers
  <2>2. \A i \in 1 .. shape.parts : Text(Value(n, i)) \in Texts
    BY <1>1, TextTyped, ValueTyped
  <2> QED
    BY <1>1, <2>1, <2>2
<1> DEFINE f == Encode(n, class, shape)
<1>3. f = SubSeq(all, 1, shape.parts)
  BY Zenon DEF Encode
<1> HIDE DEF all, f
<1>4. f \in Seq(Texts) /\ Len(f) = shape.parts /\ \A k \in 1 .. shape.parts : f[k] = all[k]
  BY <1>1, <1>2, <1>3, Beginning
<1> QED
  BY <1>1, <1>2, <1>4 DEF f

-----------------------------------------------------------------------------
(* Sequences of a set are sequences of a larger one. *)
LEMMA LargerSeq == \A S, T : S \subseteq T => \A b \in Seq(S) : b \in Seq(T)
OBVIOUS

(* Bytes can be the end of an OID. *)
LEMMA BytesAreOIDs == \A b \in Seq(0 .. 255) : b \in OIDs
<1> DEFINE S == 0 .. 255
<1>1. S \subseteq Int
  OBVIOUS
<1> HIDE DEF S
<1>2. \A b \in Seq(S) : b \in Seq(Int)
  BY <1>1, LargerSeq, Zenon
<1> QED
  BY <1>2 DEF S, OIDs

(* The elements of a concatenation. *)
LEMMA ConcatElements ==
  ASSUME NEW S, NEW a \in Seq(S), NEW b \in Seq(S)
  PROVE  /\ a \o b \in Seq(S) /\ Len(a) \in Nat /\ Len(b) \in Nat
         /\ Len(a \o b) = Len(a) + Len(b)
         /\ \A i \in 1 .. Len(a) : (a \o b)[i] = a[i]
         /\ \A i \in 1 .. Len(b) : (a \o b)[Len(a) + i] = b[i]
OBVIOUS

(* A concatenation tells its parts when it tells where they end. *)
LEMMA ConcatTells ==
  ASSUME NEW a \in OIDs, NEW b \in OIDs, NEW c \in OIDs, NEW d \in OIDs
  PROVE  Len(a) = Len(c) /\ a \o b = c \o d => a = c /\ b = d
<1> DEFINE x == a \o b
           y == c \o d
<1>1. /\ Len(a) \in Nat /\ Len(b) \in Nat /\ Len(x) = Len(a) + Len(b)
      /\ \A i \in 1 .. Len(a) : x[i] = a[i]
      /\ \A i \in 1 .. Len(b) : x[Len(a) + i] = b[i]
  BY ConcatElements DEF OIDs
<1>2. /\ Len(c) \in Nat /\ Len(d) \in Nat /\ Len(y) = Len(c) + Len(d)
      /\ \A i \in 1 .. Len(c) : y[i] = c[i]
      /\ \A i \in 1 .. Len(d) : y[Len(c) + i] = d[i]
  BY ConcatElements DEF OIDs
<1> HIDE DEF x, y
<1>3. ASSUME Len(a) = Len(c), x = y PROVE a = c /\ b = d
  <2>1. Len(b) = Len(d)
    BY <1>1, <1>2, <1>3
  <2>2. a = c
    BY <1>1, <1>2, <1>3, SameElements
  <2>3. b = d
    BY <1>1, <1>2, <1>3, <2>1, SameElements
  <2> QED
    BY <2>2, <2>3
<1> QED
  BY <1>3 DEF x, y

Addresses == [type : {0, 1, 2}, bytes : Seq(0 .. 255)]

(* Different addresses have different indices. *)
LEMMA IndexTells ==
  ASSUME NEW a \in Addresses, NEW b \in Addresses,
         isValid(a), isValid(b), toOIDBytes(a) = toOIDBytes(b)
  PROVE  a = b
<1>1. /\ a.bytes \in Seq(0 .. 255) /\ b.bytes \in Seq(0 .. 255)
      /\ a.type \in Int /\ b.type \in Int
  BY DEF Addresses
<1>2. PICK u, v : u = a.bytes /\ v = b.bytes /\ u \in OIDs /\ v \in OIDs
  BY <1>1, BytesAreOIDs, Zenon
<1>3. PICK x, y : /\ x = <<a.type, Len(u)>> /\ y = <<b.type, Len(v)>>
                  /\ x \in OIDs /\ y \in OIDs
  <2>1. Len(u) \in Int /\ Len(v) \in Int
    BY <1>2 DEF OIDs
  <2>2. <<a.type, Len(u)>> \in Seq(Int) /\ <<b.type, Len(v)>> \in Seq(Int)
    BY <1>1, <2>1
  <2> QED
    BY <2>2, Zenon DEF OIDs
<1>4. x \o u = y \o v
  BY <1>2, <1>3 DEF toOIDBytes
<1>5. Len(x) = Len(y)
  BY <1>3
<1>6. x = y /\ u = v
  <2>1. x \in OIDs /\ y \in OIDs /\ u \in OIDs /\ v \in OIDs
    BY <1>2, <1>3
  <2> QED
    BY <1>4, <1>5, <2>1, ConcatTells, Zenon
<1>7. a.type = b.type /\ a.bytes = b.bytes
  BY <1>2, <1>3, <1>6
<1> QED
  BY <1>7 DEF Addresses

(* A message of addresses, each followed by its count. *)
LEMMA EncodeIPCount ==
  ASSUME NEW n \in Nat, NEW shape, IsShape("IPCount", shape)
  PROVE  LET f == Encode(n, "IPCount", shape) IN
         /\ f \in Seq(Texts) /\ Len(f) = shape.parts
         /\ \A i \in DOMAIN shape.rows :
              /\ 2 * i - 1 <= Len(f) => f[2 * i - 1] = shape.rows[i]
              /\ 2 * i <= Len(f) => f[2 * i] = Text(Value(n, i))
         /\ \A k \in 1 .. Len(f) : \E i \in DOMAIN shape.rows : k = 2 * i - 1 \/ k = 2 * i
<1> DEFINE rows == shape.rows
           all == EncodePairs(n, rows)
<1>1. /\ rows \in Seq(Texts) /\ Len(rows) \in Nat /\ DOMAIN rows = 1 .. Len(rows)
      /\ shape.parts \in 0 .. 2 * Len(rows)
  BY DEF IsShape
<1>2. all = [k \in 1 .. 2 * Len(rows) |->
               IF k % 2 = 1 THEN rows[(k + 1) \div 2] ELSE Text(Value(n, k \div 2))]
  BY DEF EncodePairs
<1>3. Encode(n, "IPCount", shape) = SubSeq(all, 1, shape.parts)
  BY Zenon DEF Encode
<1> HIDE DEF all, rows
<1>4. ASSUME NEW k \in 1 .. 2 * Len(rows)
      PROVE  \E i \in 1 .. Len(rows) : k = 2 * i - 1 \/ k = 2 * i
  <2>1. PICK j \in Nat : k = 2 * j \/ k = 2 * j + 1
    <3>1. k \in Nat
      BY <1>1
    <3>2. k \div 2 \in Nat /\ (k = 2 * (k \div 2) \/ k = 2 * (k \div 2) + 1)
      BY <3>1
    <3> QED
      BY <3>2
  <2>2. CASE k = 2 * j
    BY <1>1, <2>2
  <2>3. CASE k = 2 * j + 1
    <3>1. j + 1 \in 1 .. Len(rows) /\ k = 2 * (j + 1) - 1
      BY <1>1, <2>3
    <3> QED
      BY <3>1
  <2> QED
    BY <2>1, <2>2, <2>3
<1>5. ASSUME NEW i \in 1 .. Len(rows)
      PROVE  all[2 * i - 1] = rows[i] /\ all[2 * i] = Text(Value(n, i))
  <2>1. /\ 2 * i - 1 \in 1 .. 2 * Len(rows) /\ (2 * i - 1) % 2 = 1 /\ (2 * i - 1 + 1) \div 2 = i
        /\ 2 * i \in 1 .. 2 * Len(rows) /\ (2 * i) % 2 # 1 /\ (2 * i) \div 2 = i
    BY <1>1
  <2> QED
    BY <1>2, <2>1
<1>6. all \in Seq(Texts) /\ Len(all) = 2 * Len(rows)
  <2>1. ASSUME NEW k \in 1 .. 2 * Len(rows) PROVE all[k] \in Texts
    <3>1. PICK i \in 1 .. Len(rows) : k = 2 * i - 1 \/ k = 2 * i
      BY <1>4
    <3>2. rows[i] \in Texts /\ Text(Value(n, i)) \in Texts
      <4>1. rows[i] \in Texts
        BY <1>1
      <4>2. Value(n, i) \in Int
        BY <1>1, ValueTyped
      <4> QED
        BY <4>1, <4>2, TextTyped
    <3>3. all[2 * i - 1] = rows[i] /\ all[2 * i] = Text(Value(n, i))
      BY <1>5
    <3> QED
      BY <3>1, <3>2, <3>3, Zenon
  <2> QED
    BY <1>1, <1>2, <2>1
<1> DEFINE f == Encode(n, "IPCount", shape)
<1>7. f \in Seq(Texts) /\ Len(f) = shape.parts /\ \A k \in 1 .. shape.parts : f[k] = all[k]
  <2>1. shape.parts \in 0 .. Len(all)
    BY <1>1, <1>6
  <2> HIDE DEF f
  <2>2. f = SubSeq(all, 1, shape.parts)
    BY <1>3 DEF f
  <2> QED
    BY <1>6, <2>1, <2>2, Beginning
<1> HIDE DEF f
<1>8. \A i \in 1 .. Len(rows) : /\ 2 * i - 1 <= Len(f) => f[2 * i - 1] = rows[i]
                                /\ 2 * i <= Len(f) => f[2 * i] = Text(Value(n, i))
  <2>1. \A i \in 1 .. Len(rows) : /\ 2 * i - 1 <= Len(f) => 2 * i - 1 \in 1 .. shape.parts
                                  /\ 2 * i <= Len(f) => 2 * i \in 1 .. shape.parts
    BY <1>1, <1>7
  <2>2. \A i \in 1 .. Len(rows) : all[2 * i - 1] = rows[i] /\ all[2 * i] = Text(Value(n, i))
    BY <1>5
  <2> QED
    BY <1>7, <2>1, <2>2, Zenon
<1>9. \A k \in 1 .. Len(f) : \E i \in 1 .. Len(rows) : k = 2 * i - 1 \/ k = 2 * i
  <2>1. \A k \in 1 .. Len(f) : k \in 1 .. 2 * Len(rows)
    BY <1>1, <1>7
  <2> QED
    BY <1>4, <2>1, Zenon
<1> QED
  BY <1>1, <1>7, <1>8, <1>9, Zenon DEF rows, f

(* The index of an address is an OID. *)
LEMMA IndexTyped ==
  ASSUME NEW a \in Addresses
  PROVE  toOIDBytes(a) \in OIDs
<1>1. [number |-> 0, addr |-> a] \in Texts /\ [number |-> 0, addr |-> a].addr = a
  BY DEF Texts, Addresses
<1> QED
  BY <1>1, BytesTyped

(* What an answer reads of a count that was put into the tree. *)
LEMMA CountAnswer ==
  ASSUME NEW n \in Nat, NEW i \in 0 .. Counts - 1, Counts * (n + 1) <= WORD
  PROVE  /\ atoi(Text(Value(n, i))) % WORD = Value(n, i)
         /\ MessageOf(atoi(Text(Value(n, i))) % WORD) = n
BY CountsTell, AtoiKeeps

(* The table of an IPCount handler has the pairs of the message. *)
LEMMA IPCountRows ==
  ASSUME NEW root \in OIDs, NEW n \in Nat, NEW shape, IsShape("IPCount", shape),
         Counts * (n + 1) <= WORD
  PROVE  LET ops == IPCountStatHandler(root, Encode(n, "IPCount", shape)) IN
         /\ \A i \in DOMAIN ops : \A p \in Puts(ops[i]) : MessageOf(p[2] % WORD) = n
         /\ Answers(ops) = PairRows(root, n, shape)
<1> DEFINE f == Encode(n, "IPCount", shape)
           rows == shape.rows
           at(i) == root \o <<1, 3>> \o toOIDBytes(rows[i].addr)
           good == {j \in DOMAIN rows : rows[j].addr.type # 0 /\ 2 * j <= shape.parts}
           Pair(j) == <<root \o <<1, 3>> \o toOIDBytes(f[j].addr), j + 1>>
           cells == {Pair(j) : j \in {k \in 1 .. Len(f) - 1 : isValid(f[k].addr)}}
           puts == Puts(ReplaceSubtree(root, Filled(cells, f)))
<1>1. /\ rows \in Seq(Texts) /\ Len(rows) \in Nat /\ Len(rows) < Counts
      /\ DOMAIN rows = 1 .. Len(rows)
      /\ \A i, j \in DOMAIN rows : isValid(rows[i].addr) /\ rows[i].addr = rows[j].addr => i = j
      /\ shape.parts \in 0 .. 2 * Len(rows) /\ Counts \in Nat
  BY CountsAssumption DEF IsShape, CountsAssumption
<1>2. /\ Len(f) = shape.parts /\ Len(f) \in Nat
      /\ \A i \in DOMAIN rows : /\ 2 * i - 1 <= Len(f) => f[2 * i - 1] = rows[i]
                                /\ 2 * i <= Len(f) => f[2 * i] = Text(Value(n, i))
      /\ \A k \in 1 .. Len(f) : \E i \in DOMAIN rows : k = 2 * i - 1 \/ k = 2 * i
  <2>1. Len(f) = shape.parts /\ Len(f) \in Nat
    <3>1. Len(f) = shape.parts
      BY EncodeIPCount, Zenon
    <3>2. shape.parts \in Nat
      BY <1>1
    <3> QED
      BY <3>1, <3>2, Zenon
  <2> QED
    BY <2>1, EncodeIPCount
<1>3. IPCountStatHandler(root, f) = <<ReplaceSubtree(root, Filled(cells, f))>>
  BY DEF IPCountStatHandler
<1>4. PairRows(root, n, shape) = {<<at(i), Value(n, i)>> : i \in good}
  BY DEF PairRows
<1>5. \A i \in DOMAIN rows : rows[i].addr \in Addresses /\ Value(n, i) \in Int
  <2>1. \A i \in DOMAIN rows : rows[i] \in Texts
    BY <1>1
  <2>2. \A i \in DOMAIN rows : Value(n, i) \in Int
    BY <1>1, ValueTyped
  <2> QED
    BY <2>1, <2>2 DEF Texts, Addresses
<1> HIDE DEF f, rows
<1>6. ASSUME NEW j \in 1 .. Len(f) - 1, isValid(f[j].addr)
      PROVE  \E i \in good : Pair(j) = <<at(i), 2 * i>>
  <2>1. PICK i \in DOMAIN rows : j = 2 * i - 1 \/ j = 2 * i
    BY <1>2
  <2>2. j # 2 * i
    <3>1. ~isValid(Text(Value(n, i)).addr)
      BY <1>5, TextTyped
    <3> QED
      BY <1>1, <1>2, <1>6, <3>1
  <2>3. j = 2 * i - 1 /\ j + 1 = 2 * i /\ 2 * i <= Len(f) /\ 2 * i - 1 <= Len(f)
    <3>1. i \in Nat /\ j \in Nat /\ j + 1 <= Len(f) /\ Len(f) \in Nat
      BY <1>1, <1>2
    <3> QED
      BY <2>1, <2>2, <3>1
  <2>4. f[j] = rows[i]
    BY <1>2, <2>3
  <2>5. i \in good
    BY <1>2, <1>6, <2>3, <2>4 DEF isValid
  <2> HIDE DEF good
  <2> QED
    BY <2>3, <2>4, <2>5, Zenon
<1>7. ASSUME NEW i \in good PROVE <<at(i), 2 * i>> \in cells
  <2>1. i \in 1 .. Len(rows) /\ 2 * i <= Len(f) /\ rows[i].addr.type # 0
    BY <1>1, <1>2
  <2>2. 2 * i - 1 \in 1 .. Len(f) - 1 /\ 2 * i - 1 + 1 = 2 * i /\ 2 * i - 1 <= Len(f)
    BY <1>1, <1>2, <2>1
  <2>3. f[2 * i - 1] = rows[i]
    BY <1>1, <1>2, <2>1, <2>2
  <2>4. isValid(f[2 * i - 1].addr) /\ Pair(2 * i - 1) = <<at(i), 2 * i>>
    BY <2>1, <2>2, <2>3, Zenon DEF isValid
  <2> QED
    BY <2>2, <2>4, Zenon
<1>8. cells = {<<at(i), 2 * i>> : i \in good}
  <2>1. \A c \in cells : \E i \in good : c = <<at(i), 2 * i>>
    BY <1>6, Zenon
  <2> HIDE DEF cells, good, at
  <2> QED
    BY <1>7, <2>1
<1>9. ASSUME NEW i \in good, NEW j \in good, at(i) = at(j) PROVE i = j
  <2>1. PICK x, y, r : /\ x = toOIDBytes(rows[i].addr) /\ y = toOIDBytes(rows[j].addr)
                       /\ r = root \o <<1, 3>> /\ x \in OIDs /\ y \in OIDs /\ r \in OIDs
    <3>1. toOIDBytes(rows[i].addr) \in OIDs /\ toOIDBytes(rows[j].addr) \in OIDs
      BY <1>5, IndexTyped
    <3>2. root \o <<1, 3>> \in OIDs
      BY DEF OIDs
    <3> QED
      BY <3>1, <3>2, Zenon
  <2>2. r \o x = r \o y
    BY <1>9, <2>1
  <2>3. x = y
    BY <2>1, <2>2, ConcatTells, Zenon
  <2>4. /\ rows[i].addr \in Addresses /\ rows[j].addr \in Addresses
        /\ isValid(rows[i].addr) /\ isValid(rows[j].addr)
    BY <1>5 DEF isValid
  <2>5. rows[i].addr = rows[j].addr
    BY <2>1, <2>3, <2>4, IndexTells, Zenon
  <2> QED
    BY <1>1, <2>4, <2>5
<1>10. \A i \in good : /\ i \in 0 .. Counts - 1 /\ 2 * i \in 1 .. Len(f)
                       /\ f[2 * i] = Text(Value(n, i))
  <2>1. \A i \in good : i \in 1 .. Len(rows) /\ 2 * i <= Len(f)
    BY <1>1, <1>2
  <2> QED
    BY <1>1, <1>2, <2>1
<1> HIDE DEF good, at, cells
<1>11. puts = {<<at(i), atoi(Text(Value(n, i)))>> : i \in good}
  <2>1. \A c \in cells : \E i \in good : c = <<at(i), 2 * i>> /\ c[1] = at(i) /\ c[2] = 2 * i
    BY <1>8
  <2>2. \A c \in cells : c[2] \in 1 .. Len(f)
    BY <1>10, <2>1
  <2>3. \A c, d \in cells : c[1] = d[1] => c[2] = d[2]
    BY <1>9, <2>1
  <2>4. /\ \A p \in puts : \E c \in cells : p = <<c[1], atoi(f[c[2]])>>
        /\ \A c \in cells : <<c[1], atoi(f[c[2]])>> \in puts
    BY <1>2, <2>2, <2>3, FilledPuts
  <2> HIDE DEF puts
  <2>5. ASSUME NEW p \in puts PROVE \E i \in good : p = <<at(i), atoi(Text(Value(n, i)))>>
    <3>1. PICK c \in cells : p = <<c[1], atoi(f[c[2]])>>
      BY <2>4
    <3>2. PICK i \in good : c[1] = at(i) /\ c[2] = 2 * i
      BY <2>1
    <3> QED
      BY <1>10, <3>1, <3>2
  <2>6. ASSUME NEW i \in good PROVE <<at(i), atoi(Text(Value(n, i)))>> \in puts
    <3>1. PICK c \in cells : c = <<at(i), 2 * i>>
      BY <1>8, Zenon
    <3>2. c[1] = at(i) /\ c[2] = 2 * i
      BY <3>1
    <3> QED
      BY <1>10, <2>4, <3>2
  <2> QED
    BY <2>5, <2>6
<1> HIDE DEF puts
<1>12. ASSUME NEW i \in good
       PROVE  /\ atoi(Text(Value(n, i))) % WORD = Value(n, i)
              /\ MessageOf(atoi(Text(Value(n, i))) % WORD) = n
  BY <1>10, CountAnswer
<1>13. \A p \in puts : \E i \in good : /\ p[1] = at(i) /\ p[2] % WORD = Value(n, i)
                                       /\ MessageOf(p[2] % WORD) = n
  <2> SUFFICES ASSUME NEW p \in puts
               PROVE  \E i \in good : /\ p[1] = at(i) /\ p[2] % WORD = Value(n, i)
                                      /\ MessageOf(p[2] % WORD) = n
    OBVIOUS
  <2>1. PICK i \in good : p = <<at(i), atoi(Text(Value(n, i)))>>
    BY <1>11
  <2>2. p[1] = at(i) /\ p[2] = atoi(Text(Value(n, i)))
    BY <2>1
  <2> QED
    BY <1>12, <2>2, Zenon
<1>14. {<<p[1], p[2] % WORD>> : p \in puts} = {<<at(i), Value(n, i)>> : i \in good}
  <2>1. ASSUME NEW i \in good
        PROVE  <<at(i), Value(n, i)>> \in {<<p[1], p[2] % WORD>> : p \in puts}
    <3>1. PICK p \in puts : p = <<at(i), atoi(Text(Value(n, i)))>>
      BY <1>11, Zenon
    <3>2. p[1] = at(i) /\ p[2] = atoi(Text(Value(n, i)))
      BY <3>1
    <3> QED
      BY <1>12, <3>2
  <2> QED
    BY <1>13, <2>1
<1> DEFINE ops == IPCountStatHandler(root, f)
<1>15. /\ DOMAIN ops = {1} /\ Puts(ops[1]) = puts
       /\ UNION {Puts(o) : o \in Range(ops)} = puts
  <2>1. PICK o : o = ReplaceSubtree(root, Filled(cells, f))
    OBVIOUS
  <2>2. ops = <<o>> /\ Puts(o) = puts
    BY <1>3, <2>1 DEF puts, cells
  <2>3. DOMAIN ops = {1} /\ ops[1] = o /\ Range(ops) = {o}
    BY <2>2 DEF Range
  <2> QED
    BY <2>2, <2>3
<1> HIDE DEF ops
<1>16. Answers(ops) = {<<p[1], p[2] % WORD>> : p \in puts}
  BY <1>15 DEF Answers
<1>17. Answers(ops) = PairRows(root, n, shape)
  BY <1>4, <1>14, <1>16, Zenon DEF good, at, rows
<1>18. \A i \in DOMAIN ops : \A p \in Puts(ops[i]) : MessageOf(p[2] % WORD) = n
  BY <1>13, <1>15
<1> QED
  BY <1>17, <1>18 DEF ops, f

-----------------------------------------------------------------------------
(* A handler of plain numbers that replaces its subtree. *)
LEMMA WholeSubtreeCounts ==
  ASSUME NEW root, NEW f, Len(f) \in Nat, NEW columns, Len(columns) \in Nat,
         DOMAIN columns = 1 .. Len(columns), NEW n,
         \A k \in 1 .. Len(f) : MessageOf(atoi(f[k]) % WORD) = n,
         NEW i \in DOMAIN WholeSubtree(root, f, columns),
         NEW p \in Puts(WholeSubtree(root, f, columns)[i])
  PROVE  MessageOf(p[2] % WORD) = n
<1> DEFINE cells == {<<root \o columns[j], j>> : j \in DOMAIN columns}
<1>1. CASE Len(f) >= Len(columns)
  <2>1. WholeSubtree(root, f, columns) = <<ReplaceSubtree(root, Filled(cells, f))>>
    BY <1>1 DEF WholeSubtree
  <2>2. p \in Puts(ReplaceSubtree(root, Filled(cells, f)))
    <3>1. PICK o : o = ReplaceSubtree(root, Filled(cells, f))
      BY Zenon
    <3>2. \A j \in DOMAIN <<o>> : <<o>>[j] = o
      OBVIOUS
    <3> HIDE DEF cells
    <3> QED
      BY <2>1, <3>1, <3>2, Zenon
  <2>3. \A c \in cells : c[2] \in 1 .. Len(f)
    BY <1>1
  <2> HIDE DEF cells
  <2>4. PICK c \in cells : p = <<c[1], atoi(f[c[2]])>>
    BY <2>2, <2>3, FilledPuts
  <2>5. p[2] = atoi(f[c[2]])
    BY <2>4
  <2> QED
    BY <2>3, <2>5
<1>2. CASE ~(Len(f) >= Len(columns))
  <2>1. WholeSubtree(root, f, columns) = <<RemoveSubtree(root)>>
    BY <1>2 DEF WholeSubtree
  <2>2. p \in Puts(RemoveSubtree(root))
    BY <2>1
  <2> QED
    BY <2>2 DEF Puts, RemoveSubtree
<1> QED
  BY <1>1, <1>2

(* What handlers of plain numbers put into the tree are counts. *)
LEMMA NumberCounts ==
  ASSUME NEW h, IsHandler(h), h.class \notin {"IPCount", "AstaireConnection"},
         NEW n \in Nat, NEW shape, IsShape(h.class, shape), Counts * (n + 1) <= WORD,
         NEW i \in DOMAIN handle(h, Encode(n, h.class, shape)),
         NEW p \in Puts(handle(h, Encode(n, h.class, shape))[i])
  PROVE  MessageOf(p[2] % WORD) = n
<1>1. PICK f : f = Encode(n, h.class, shape)
  OBVIOUS
<1>2. PICK ops : ops = handle(h, f) /\ i \in DOMAIN ops /\ p \in Puts(ops[i])
  BY <1>1
<1>3. /\ Len(f) \in Nat /\ Len(f) < Counts /\ Counts \in Nat
      /\ \A k \in 1 .. Len(f) : f[k] = Text(Value(n, k))
  <2>1. h.class \in Classes \ {"IPCount", "AstaireConnection"}
    BY DEF IsHandler
  <2>2. /\ f \in Seq(Texts) /\ Len(f) < Counts
        /\ \A k \in 1 .. Len(f) : f[k] = Text(Value(n, k))
    BY <1>1, <2>1, EncodeNumbers
  <2>3. Len(f) \in Nat
    BY <2>2
  <2> QED
    BY <2>2, <2>3, CountsAssumption DEF CountsAssumption
<1>4. \A k \in 1 .. Len(f) : MessageOf(atoi(f[k]) % WORD) = n
  <2> SUFFICES ASSUME NEW k \in 1 .. Len(f) PROVE MessageOf(atoi(f[k]) % WORD) = n
    OBVIOUS
  <2>1. k \in 0 .. Counts - 1
    BY <1>3
  <2> QED
    BY <1>3, <2>1, CountAnswer
<1>5. CASE h.class = "Bare"
  <2>1. ops = IF Len(f) >= 1 THEN << Set(h.oid, atoi(f[1])) >> ELSE <<>>
    BY <1>2, <1>5 DEF handle, BareStatHandler
  <2>2. Len(f) >= 1 /\ ops[i] = Set(h.oid, atoi(f[1]))
    BY <1>2, <2>1
  <2>3. p = <<h.oid, atoi(f[1])>>
    BY <1>2, <2>2 DEF Puts, Set
  <2>4. p[2] = atoi(f[1]) /\ 1 \in 1 .. Len(f)
    BY <1>3, <2>2, <2>3
  <2> QED
    BY <1>4, <2>4
<1>6. ASSUME NEW columns, Len(columns) \in Nat, DOMAIN columns = 1 .. Len(columns),
             ops = WholeSubtree(h.oid, f, columns)
      PROVE  MessageOf(p[2] % WORD) = n
  BY <1>2, <1>3, <1>4, <1>6, WholeSubtreeCounts, Zenon
<1>7. CASE h.class = "SingleNumber"
  <2>1. Len(<< <<0>> >>) = 1 /\ DOMAIN << <<0>> >> = 1 .. 1
    OBVIOUS
  <2> QED
    BY <1>2, <1>6, <1>7, <2>1 DEF handle, SingleNumberStatHandler
<1>8. CASE h.class = "SingleNumberWithScope"
  <2>1. Len(<< <<1, 2>> >>) = 1 /\ DOMAIN << <<1, 2>> >> = 1 .. 1
    OBVIOUS
  <2> QED
    BY <1>2, <1>6, <1>8, <2>1 DEF handle, SingleNumberWithScopeStatHandler
<1>9. CASE h.class = "AccumulatedWithCount"
  <2>1. Len(Accumulated_columns) = 5 /\ DOMAIN Accumulated_columns = 1 .. 5
    BY DEF Accumulated_columns
  <2> QED
    BY <1>2, <1>6, <1>9, <2>1 DEF handle, AccumulatedWithCountStatHandler
<1>10. CASE h.class = "AstaireGlobal"
  <2>1. Len(Global_oids) = 5 /\ DOMAIN Global_oids = 1 .. 5
    BY DEF Global_oids
  <2>2. ops = [j \in DOMAIN Global_oids |->
                 IF Len(f) >= Len(Global_oids) THEN Set(h.oid \o Global_oids[j], atoi(f[j]))
                                               ELSE Erase(h.oid \o Global_oids[j])]
    BY <1>2, <1>10 DEF handle, AstaireGlobalStatHandler
  <2>3. Len(f) >= 5 /\ i \in 1 .. 5 /\ ops[i] = Set(h.oid \o Global_oids[i], atoi(f[i]))
    <3>1. Puts(Erase(h.oid \o Global_oids[i])) = {}
      BY DEF Puts, Erase
    <3> QED
      BY <1>2, <2>1, <2>2, <3>1
  <2>4. PICK k, v : ops[i] = Set(k, v) /\ v = atoi(f[i])
    BY <2>3, Zenon
  <2>5. p = <<k, v>>
    BY <1>2, <2>4 DEF Puts, Set
  <2>6. p[2] = atoi(f[i]) /\ i \in 1 .. Len(f)
    BY <1>3, <2>3, <2>4, <2>5
  <2> QED
    BY <1>4, <2>6
<1> QED
  BY <1>5, <1>7, <1>8, <1>9, <1>10 DEF IsHandler, Classes

-----------------------------------------------------------------------------
(* A property of 0 that each number passes on to the next is one of all. *)
LEMMA Induction ==
  ASSUME NEW L \in Nat, NEW S, 0 \in S,
         \A i \in 1 .. L : i - 1 \in S => i \in S
  PROVE  0 .. L \subseteq S
<1> DEFINE D == {i \in Nat : i <= L /\ i \notin S}
<1>1. D \subseteq Nat
  OBVIOUS
<1>2. SUFFICES ASSUME D # {} PROVE FALSE
  OBVIOUS
<1>3. PICK d \in D : \A e \in D : ~(e < d)
  <2>1. IsWellFoundedOn(OpToRel(<, Nat), Nat)
    BY NatLessThanWellFounded, Zenon
  <2>2. \E d \in D : \A e \in D : ~(<<e, d>> \in OpToRel(<, Nat))
    <3> HIDE DEF D
    <3> QED
      BY <1>1, <1>2, <2>1, WFMin, Zenon
  <2> QED
    BY <1>1, <2>2, Zenon DEF OpToRel
<1>4. d \in Nat /\ d <= L /\ d \notin S
  OBVIOUS
<1>5. d # 0
  BY <1>4
<1>6. d \in 1 .. L /\ d - 1 \in Nat /\ d - 1 <= L /\ d - 1 < d
  BY <1>4, <1>5
<1>7. d - 1 \notin S
  BY <1>4, <1>6
<1>8. d - 1 \in D
  BY <1>6, <1>7
<1> HIDE DEF D
<1> QED
  BY <1>3, <1>6, <1>8

(* What EncodeConnections computes. *)
LEMMA FirstParts ==
  ASSUME NEW n, NEW rows, Len(rows) \in Nat
  PROVE  LET first == EncodeConnections(n, rows) IN
         /\ first[0] = <<>>
         /\ \A i \in 1 .. Len(rows) : first[i] = first[i - 1] \o EncodeConnection(n, rows[i])
<1> DEFINE L == Len(rows)
           Rec(g, k) == g = [i \in 0 .. k |-> IF i = 0 THEN <<>>
                                                ELSE g[i - 1] \o EncodeConnection(n, rows[i])]
<1>1. EncodeConnections(n, rows) = CHOOSE g : Rec(g, L)
  BY DEF EncodeConnections
<1> DEFINE S == {k \in 0 .. L : \E g : Rec(g, k)}
<1>2. 0 \in S
  <2>1. Rec([i \in 0 .. 0 |-> <<>>], 0)
    OBVIOUS
  <2>2. \E g : Rec(g, 0)
    BY <2>1
  <2>3. 0 \in 0 .. L
    OBVIOUS
  <2> HIDE DEF Rec
  <2> QED
    BY <2>2, <2>3
<1>3. ASSUME NEW k \in 1 .. L, k - 1 \in S PROVE k \in S
  <2>1. PICK g : Rec(g, k - 1)
    BY <1>3
  <2> DEFINE e == EncodeConnection(n, rows[k])
             next == [i \in 0 .. k |-> IF i < k THEN g[i] ELSE g[k - 1] \o e]
  <2>2. ASSUME NEW i \in 0 .. k
        PROVE  next[i] = IF i = 0 THEN <<>> ELSE next[i - 1] \o EncodeConnection(n, rows[i])
    <3>1. CASE i = 0
      <4>1. 0 \in 0 .. k - 1 /\ 0 < k
        OBVIOUS
      <4>2. g[0] = <<>>
        BY <2>1, <4>1
      <4> QED
        BY <3>1, <4>1, <4>2
    <3>2. CASE i # 0 /\ i < k
      <4>1. i \in 0 .. k - 1 /\ i - 1 \in 0 .. k /\ i - 1 < k
        BY <3>2
      <4>2. g[i] = g[i - 1] \o EncodeConnection(n, rows[i])
        BY <2>1, <3>2, <4>1
      <4>3. next[i] = g[i] /\ next[i - 1] = g[i - 1]
        BY <3>2, <4>1
      <4> QED
        BY <3>2, <4>2, <4>3
    <3>3. CASE i = k
      <4>1. k - 1 \in 0 .. k /\ k - 1 < k /\ ~(k < k) /\ k # 0 /\ k \in 0 .. k
        OBVIOUS
      <4>2. next[k] = g[k - 1] \o e /\ next[k - 1] = g[k - 1]
        BY <4>1
      <4> QED
        BY <3>3, <4>1, <4>2
    <3> QED
      BY <3>1, <3>2, <3>3
  <2>3. Rec(next, k)
    <3>1. next = [i \in 0 .. k |-> next[i]]
      OBVIOUS
    <3> HIDE DEF next
    <3> QED
      BY <2>2, <3>1
  <2>4. \E x : Rec(x, k)
    <3> HIDE DEF next, Rec
    <3> QED
      BY <2>3
  <2> QED
    BY <2>4
<1>4. L \in S
  <2>1. 0 .. L \subseteq S
    <3> HIDE DEF S
    <3> QED
      BY <1>2, <1>3, Induction
  <2>2. L \in 0 .. L
    OBVIOUS
  <2> QED
    BY <2>1, <2>2, Zenon
<1>5. PICK first : first = EncodeConnections(n, rows) /\ Rec(first, L)
  <2>1. \E g : Rec(g, L)
    BY <1>4
  <2> HIDE DEF Rec
  <2> QED
    BY <1>1, <2>1, Zenon
<1>6. first[0] = <<>>
  <2>1. 0 \in 0 .. L
    OBVIOUS
  <2> QED
    BY <1>5, <2>1
<1>7. ASSUME NEW i \in 1 .. L PROVE first[i] = first[i - 1] \o EncodeConnection(n, rows[i])
  <2>1. i \in 0 .. L /\ i # 0
    OBVIOUS
  <2> QED
    BY <1>5, <2>1
<1> QED
  BY <1>5, <1>6, <1>7

(* What IsShape says a port or an identity of a bucket may be, and a row. *)
Small == 0 .. WORD \div 2 - 1
Rows == [addr : Texts, port : Small, buckets : Seq(Small)]

(* The parts of a connection. *)
IsConnection(e, n, c) ==
  /\ e \in Seq(Texts) /\ Len(e) = 5 + 4 * Len(c.buckets)
  /\ e[1] = c.addr /\ e[2] = Text(c.port)
  /\ e[3] = Text(Value(n, 1)) /\ e[4] = Text(Value(n, 2)) /\ e[5] = Text(Len(c.buckets))
  /\ \A b \in 1 .. Len(c.buckets) :
       /\ e[2 + 4 * b] = Text(c.buckets[b]) /\ e[3 + 4 * b] = Text(Value(n, 3))
       /\ e[4 + 4 * b] = Text(Value(n, 4)) /\ e[5 + 4 * b] = Text(Value(n, 5))

(* EncodeConnection makes them. *)
LEMMA ConnectionParts ==
  ASSUME NEW n \in Nat, NEW c \in Rows
  PROVE  IsConnection(EncodeConnection(n, c), n, c)
<1> DEFINE B == Len(c.buckets)
           tail == [k \in 1 .. 4 * B |-> IF k % 4 = 1 THEN Text(c.buckets[(k + 3) \div 4])
                                                      ELSE Text(Value(n, 3 + ((k + 2) % 4)))]
           head == << c.addr, Text(c.port) >> \o Numbers(n, 2) \o << Text(B) >>
           e == EncodeConnection(n, c)
<1>1. /\ c.addr \in Texts /\ c.port \in Int /\ B \in Nat
      /\ \A b \in 1 .. B : c.buckets[b] \in Int
  <2>1. c.addr \in Texts /\ c.port \in Small /\ c.buckets \in Seq(Small)
    BY DEF Rows
  <2>2. Small \subseteq Int
    BY WordAssumption DEF WordAssumption, Small
  <2>3. B \in Nat
    BY <2>1
  <2>4. \A b \in 1 .. B : c.buckets[b] \in Small
    BY <2>1
  <2> HIDE DEF B
  <2> QED
    BY <2>1, <2>2, <2>3, <2>4
<1>2. e = head \o tail
  BY Zenon DEF EncodeConnection
<1>3. /\ Value(n, 1) \in Int /\ Value(n, 2) \in Int /\ Value(n, 3) \in Int
      /\ Value(n, 4) \in Int /\ Value(n, 5) \in Int
  BY CountsAssumption DEF CountsAssumption, Value
<1>4. /\ Text(c.port) \in Texts /\ Text(B) \in Texts /\ Text(Value(n, 1)) \in Texts
      /\ Text(Value(n, 2)) \in Texts /\ Text(Value(n, 3)) \in Texts
      /\ Text(Value(n, 4)) \in Texts /\ Text(Value(n, 5)) \in Texts
      /\ \A b \in 1 .. B : Text(c.buckets[b]) \in Texts
  <2>1. B \in Int
    BY <1>1
  <2> HIDE DEF B
  <2> QED
    BY <1>1, <1>3, <2>1, TextTyped
<1>5. /\ head \in Seq(Texts) /\ Len(head) = 5
      /\ head[1] = c.addr /\ head[2] = Text(c.port) /\ head[3] = Text(Value(n, 1))
      /\ head[4] = Text(Value(n, 2)) /\ head[5] = Text(B)
  <2>1. Numbers(n, 2) = <<Text(Value(n, 1)), Text(Value(n, 2))>>
    BY DEF Numbers
  <2>2. PICK p, q, u, v, w : /\ p = c.addr /\ q = Text(c.port) /\ u = Text(Value(n, 1))
                             /\ v = Text(Value(n, 2)) /\ w = Text(B)
    BY Zenon
  <2>3. p \in Texts /\ q \in Texts /\ u \in Texts /\ v \in Texts /\ w \in Texts
    BY <1>1, <1>4, <2>2
  <2>4. PICK x, y, z : /\ x = <<p, q>> /\ y = <<u, v>> /\ z = <<w>>
    BY Zenon
  <2>5. /\ x \in Seq(Texts) /\ y \in Seq(Texts) /\ z \in Seq(Texts)
        /\ Len(x) = 2 /\ Len(y) = 2 /\ Len(z) = 1
        /\ x[1] = p /\ x[2] = q /\ y[1] = u /\ y[2] = v /\ z[1] = w
    BY <2>3, <2>4
  <2> DEFINE xy == x \o y
  <2>6. xy \in Seq(Texts) /\ Len(xy) = 4 /\ xy[1] = p /\ xy[2] = q /\ xy[3] = u /\ xy[4] = v
    <3>0. x \in Seq(Texts) /\ y \in Seq(Texts)
      BY <2>5
    <3>1. /\ xy \in Seq(Texts) /\ Len(xy) = Len(x) + Len(y)
          /\ \A i \in 1 .. Len(x) : xy[i] = x[i]
          /\ \A i \in 1 .. Len(y) : xy[Len(x) + i] = y[i]
      BY <3>0, ConcatElements
    <3> HIDE DEF xy
    <3> QED
      BY <2>5, <3>1
  <2>7. head = xy \o z
    BY <2>1, <2>2, <2>4, Zenon
  <2> HIDE DEF xy, head
  <2>8. /\ head \in Seq(Texts) /\ Len(head) = Len(xy) + Len(z)
        /\ \A i \in 1 .. Len(xy) : head[i] = xy[i]
        /\ \A i \in 1 .. Len(z) : head[Len(xy) + i] = z[i]
    <3>1. xy \in Seq(Texts) /\ z \in Seq(Texts)
      BY <2>5, <2>6
    <3> QED
      BY <2>7, <3>1, ConcatElements
  <2> QED
    BY <2>2, <2>5, <2>6, <2>8
<1>6. ASSUME NEW b \in 1 .. B
      PROVE  /\ tail[4 * b - 3] = Text(c.buckets[b]) /\ tail[4 * b - 2] = Text(Value(n, 3))
             /\ tail[4 * b - 1] = Text(Value(n, 4)) /\ tail[4 * b] = Text(Value(n, 5))
  <2>1. /\ 4 * b - 3 \in 1 .. 4 * B /\ (4 * b - 3) % 4 = 1 /\ (4 * b - 3 + 3) \div 4 = b
        /\ 4 * b - 2 \in 1 .. 4 * B /\ (4 * b - 2) % 4 # 1 /\ 3 + ((4 * b - 2 + 2) % 4) = 3
        /\ 4 * b - 1 \in 1 .. 4 * B /\ (4 * b - 1) % 4 # 1 /\ 3 + ((4 * b - 1 + 2) % 4) = 4
        /\ 4 * b \in 1 .. 4 * B /\ (4 * b) % 4 # 1 /\ 3 + ((4 * b + 2) % 4) = 5
    <3>1. b \in Nat /\ b >= 1 /\ b <= B /\ B \in Nat
      BY <1>1
    <3> HIDE DEF B
    <3> QED
      BY <3>1
  <2> QED
    BY <2>1
<1>7. tail \in Seq(Texts) /\ Len(tail) = 4 * B
  <2>1. ASSUME NEW k \in 1 .. 4 * B PROVE tail[k] \in Texts
    <3>1. k \in Nat /\ B \in Nat /\ k >= 1 /\ k <= 4 * B
      BY <1>1
    <3>2. CASE k % 4 = 1
      <4>1. (k + 3) \div 4 \in 1 .. B
        <5> HIDE DEF B
        <5> QED
          BY <3>1
      <4> QED
        BY <1>4, <3>2, <4>1
    <3>3. CASE k % 4 # 1
      <4>1. 3 + ((k + 2) % 4) \in {3, 4, 5}
        BY <3>1, <3>3
      <4>2. Text(Value(n, 3 + ((k + 2) % 4))) \in Texts
        BY <1>4, <4>1
      <4> QED
        BY <3>3, <4>2
    <3> QED
      BY <3>2, <3>3
  <2>2. PICK m \in Nat : m = 4 * B
    BY <1>1
  <2>3. tail = [k \in 1 .. m |-> tail[k]] /\ \A k \in 1 .. m : tail[k] \in Texts
    BY <2>1, <2>2
  <2> HIDE DEF tail
  <2> QED
    BY <2>2, <2>3
<1> HIDE DEF head, tail, B, e
<1>8. /\ e \in Seq(Texts) /\ Len(e) = 5 + 4 * B /\ \A i \in 1 .. 5 : e[i] = head[i]
      /\ \A i \in 1 .. 4 * B : e[5 + i] = tail[i]
  <2>1. head \in Seq(Texts) /\ tail \in Seq(Texts)
    BY <1>5, <1>7
  <2>2. /\ e \in Seq(Texts) /\ Len(e) = Len(head) + Len(tail)
        /\ \A i \in 1 .. Len(head) : e[i] = head[i]
        /\ \A i \in 1 .. Len(tail) : e[Len(head) + i] = tail[i]
    BY <1>2, <2>1, ConcatElements
  <2>3. Len(head) = 5 /\ Len(tail) = 4 * B
    BY <1>5, <1>7
  <2> QED
    BY <2>2, <2>3, Zenon
<1>9. ASSUME NEW b \in 1 .. B
      PROVE  /\ e[2 + 4 * b] = Text(c.buckets[b]) /\ e[3 + 4 * b] = Text(Value(n, 3))
             /\ e[4 + 4 * b] = Text(Value(n, 4)) /\ e[5 + 4 * b] = Text(Value(n, 5))
  <2>1. /\ 4 * b - 3 \in 1 .. 4 * B /\ 5 + (4 * b - 3) = 2 + 4 * b
        /\ 4 * b - 2 \in 1 .. 4 * B /\ 5 + (4 * b - 2) = 3 + 4 * b
        /\ 4 * b - 1 \in 1 .. 4 * B /\ 5 + (4 * b - 1) = 4 + 4 * b
        /\ 4 * b \in 1 .. 4 * B
    BY <1>1
  <2>2. /\ e[5 + (4 * b - 3)] = tail[4 * b - 3] /\ e[5 + (4 * b - 2)] = tail[4 * b - 2]
        /\ e[5 + (4 * b - 1)] = tail[4 * b - 1] /\ e[5 + 4 * b] = tail[4 * b]
    BY <1>8, <2>1, Zenon
  <2> QED
    BY <1>6, <2>1, <2>2
<1>10. /\ e[1] = c.addr /\ e[2] = Text(c.port) /\ e[3] = Text(Value(n, 1))
       /\ e[4] = Text(Value(n, 2)) /\ e[5] = Text(B)
  BY <1>5, <1>8
<1> QED
  BY <1>8, <1>9, <1>10 DEF IsConnection, B, e

(* They are texts. *)
LEMMA ConnectionTyped ==
  \A n \in Nat, c \in Rows : /\ EncodeConnection(n, c) \in Seq(Texts)
                             /\ Len(EncodeConnection(n, c)) = 5 + 4 * Len(c.buckets)
<1> SUFFICES ASSUME NEW n \in Nat, NEW c \in Rows
             PROVE  /\ EncodeConnection(n, c) \in Seq(Texts)
                    /\ Len(EncodeConnection(n, c)) = 5 + 4 * Len(c.buckets)
  OBVIOUS
<1>1. IsConnection(EncodeConnection(n, c), n, c)
  BY ConnectionParts
<1> QED
  BY <1>1, Zenon DEF IsConnection

(* The first connections are texts, as many whatever the message. *)
LEMMA FirstTyped ==
  ASSUME NEW n \in Nat, NEW rows \in Seq(Rows)
  PROVE  LET first == EncodeConnections(n, rows)
             zero == EncodeConnections(0, rows) IN
         \A i \in 0 .. Len(rows) : first[i] \in Seq(Texts) /\ Len(first[i]) = Len(zero[i])
<1>1. PICK L \in Nat : L = Len(rows)
  OBVIOUS
<1>2. PICK first : first = EncodeConnections(n, rows)
  BY Zenon
<1>20. /\ first[0] = <<>>
       /\ \A i \in 1 .. L : first[i] = first[i - 1] \o EncodeConnection(n, rows[i])
  BY <1>1, <1>2, FirstParts
<1>3. PICK zero : zero = EncodeConnections(0, rows)
  BY Zenon
<1>30. /\ zero[0] = <<>>
       /\ \A i \in 1 .. L : zero[i] = zero[i - 1] \o EncodeConnection(0, rows[i])
  BY <1>1, <1>3, FirstParts
<1> DEFINE Good(i) == /\ first[i] \in Seq(Texts) /\ zero[i] \in Seq(Texts)
                      /\ Len(first[i]) = Len(zero[i])
           S == {i \in 0 .. L : Good(i)}
<1>4. Good(0)
  <2>1. first[0] = <<>> /\ zero[0] = <<>>
    BY <1>20, <1>30
  <2> QED
    BY <2>1
<1>5. ASSUME NEW i \in 1 .. L, Good(i - 1) PROVE Good(i)
  <2>1. rows[i] \in Rows
    BY <1>1
  <2>2. PICK x, y : /\ x = EncodeConnection(n, rows[i]) /\ y = EncodeConnection(0, rows[i])
                    /\ x \in Seq(Texts) /\ y \in Seq(Texts) /\ Len(x) = Len(y)
    <3>1. 0 \in Nat
      OBVIOUS
    <3> QED
      BY <2>1, <3>1, ConnectionTyped
  <2>3. PICK a, b : /\ a = first[i - 1] /\ b = zero[i - 1]
                    /\ a \in Seq(Texts) /\ b \in Seq(Texts) /\ Len(a) = Len(b)
    BY <1>5
  <2>4. first[i] = a \o x /\ zero[i] = b \o y
    BY <1>20, <1>30, <2>2, <2>3, Zenon
  <2>5. a \o x \in Seq(Texts) /\ b \o y \in Seq(Texts) /\ Len(a \o x) = Len(b \o y)
    <3>1. a \in Seq(Texts) /\ x \in Seq(Texts) /\ b \in Seq(Texts) /\ y \in Seq(Texts)
      BY <2>2, <2>3
    <3>2. Len(a \o x) = Len(a) + Len(x) /\ Len(b \o y) = Len(b) + Len(y)
      BY <3>1, ConcatElements
    <3>3. a \o x \in Seq(Texts) /\ b \o y \in Seq(Texts)
      BY <3>1, ConcatElements
    <3> QED
      BY <2>2, <2>3, <3>2, <3>3, Zenon
  <2> QED
    BY <2>4, <2>5, Zenon
<1> HIDE DEF Good
<1>6. 0 .. L \subseteq S
  <2>1. 0 \in S /\ \A i \in 1 .. L : i - 1 \in S => i \in S
    BY <1>4, <1>5
  <2> HIDE DEF S
  <2> QED
    BY <2>1, Induction
<1> QED
  BY <1>1, <1>2, <1>3, <1>6 DEF Good

(* They are the beginning of the message. *)
LEMMA FirstPrefix ==
  ASSUME NEW n \in Nat, NEW rows \in Seq(Rows)
  PROVE  LET first == EncodeConnections(n, rows)
             all == first[Len(rows)] IN
         \A i \in 0 .. Len(rows) :
           Len(first[i]) <= Len(all) /\ \A k \in 1 .. Len(first[i]) : all[k] = first[i][k]
<1>1. PICK L \in Nat : L = Len(rows)
  OBVIOUS
<1>2. PICK first : first = EncodeConnections(n, rows)
  BY Zenon
<1>20. /\ first[0] = <<>>
       /\ \A i \in 1 .. L : first[i] = first[i - 1] \o EncodeConnection(n, rows[i])
  BY <1>1, <1>2, FirstParts
<1>3. \A i \in 0 .. L : first[i] \in Seq(Texts)
  BY <1>1, <1>2, FirstTyped
<1>4. PICK all : all = first[L]
  OBVIOUS
<1> DEFINE Good(i) == Len(first[i]) <= Len(all) /\ \A k \in 1 .. Len(first[i]) : all[k] = first[i][k]
           S == {d \in 0 .. L : Good(L - d)}
<1>5. Good(L)
  <2>1. L \in 0 .. L
    OBVIOUS
  <2>2. Len(first[L]) \in Nat
    BY <1>3, <2>1
  <2> QED
    BY <1>4, <2>2
<1>6. ASSUME NEW i \in 1 .. L, Good(i) PROVE Good(i - 1)
  <2>1. rows[i] \in Rows /\ i - 1 \in 0 .. L /\ i \in 0 .. L
    BY <1>1
  <2>2. PICK x : x = EncodeConnection(n, rows[i]) /\ x \in Seq(Texts)
    BY <2>1, ConnectionTyped
  <2>3. PICK a : a = first[i - 1] /\ a \in Seq(Texts)
    BY <1>3, <2>1
  <2>4. PICK c : c = a \o x /\ c = first[i]
    BY <1>20, <2>2, <2>3, Zenon
  <2>5. /\ Len(a) \in Nat /\ Len(x) \in Nat /\ Len(c) = Len(a) + Len(x)
        /\ \A k \in 1 .. Len(a) : c[k] = a[k]
    <3>1. a \in Seq(Texts) /\ x \in Seq(Texts)
      BY <2>2, <2>3
    <3>2. c = a \o x
      BY <2>4
    <3> QED
      BY <3>1, <3>2, ConcatElements
  <2>6. all \in Seq(Texts) /\ Len(all) \in Nat
    <3>1. L \in 0 .. L
      OBVIOUS
    <3> QED
      BY <1>3, <1>4, <3>1
  <2>7. Len(c) <= Len(all) /\ \A k \in 1 .. Len(c) : all[k] = c[k]
    BY <1>6, <2>4
  <2>8. Len(a) <= Len(all) /\ \A k \in 1 .. Len(a) : all[k] = a[k]
    BY <2>5, <2>6, <2>7
  <2> QED
    BY <2>3, <2>8
<1> HIDE DEF Good
<1>7. 0 .. L \subseteq S
  <2>1. 0 \in S
    <3>1. L - 0 = L /\ 0 \in 0 .. L
      OBVIOUS
    <3> QED
      BY <1>5, <3>1
  <2>2. ASSUME NEW d \in 1 .. L, d - 1 \in S PROVE d \in S
    <3>1. PICK i \in 1 .. L : i = L - (d - 1) /\ L - d = i - 1 /\ d \in 0 .. L
      OBVIOUS
    <3>2. Good(i)
      BY <2>2, <3>1
    <3> QED
      BY <1>6, <3>1, <3>2
  <2> HIDE DEF S
  <2> QED
    BY <2>1, <2>2, Induction
<1>8. ASSUME NEW i \in 0 .. L PROVE Good(i)
  <2>1. PICK d \in 0 .. L : L - d = i
    <3>1. L - i \in 0 .. L /\ L - (L - i) = i
      OBVIOUS
    <3> QED
      BY <3>1
  <2> QED
    BY <1>7, <2>1
<1> QED
  BY <1>1, <1>2, <1>4, <1>8 DEF Good

(* A message of which the connections start at parts at, and that ends     *)
(* after the last or before.                                               *)
Layout(f, n, rows, at) ==
  /\ f \in Seq(Texts) /\ rows \in Seq(Rows)
  /\ at \in [1 .. Len(rows) + 1 -> Nat]
  /\ at[1] = 1 /\ Len(f) < at[Len(rows) + 1]
  /\ \A i \in 1 .. Len(rows) :
       /\ at[i + 1] = at[i] + 5 + 4 * Len(rows[i].buckets) /\ at[i] >= 1
       /\ \A k \in 1 .. 5 + 4 * Len(rows[i].buckets) :
            at[i] + k - 1 <= Len(f) => f[at[i] + k - 1] = EncodeConnection(n, rows[i])[k]

(* The parts at which the connections of message n start. *)
Starts(n, rows) == [i \in 1 .. Len(rows) + 1 |-> Len(EncodeConnections(n, rows)[i - 1]) + 1]

(* Encode lays connections out like that. *)
LEMMA Laid ==
  ASSUME NEW n \in Nat, NEW shape, IsShape("AstaireConnection", shape)
  PROVE  LET f == Encode(n, "AstaireConnection", shape) IN
         /\ Layout(f, n, shape.rows, Starts(n, shape.rows))
         /\ Len(f) = shape.parts
<1>1. PICK rows, parts : rows = shape.rows /\ parts = shape.parts
  BY Zenon
<1>2. /\ rows \in Seq(Rows) /\ parts \in 0 .. Len(EncodeConnections(0, rows)[Len(rows)])
  BY <1>1, Zenon DEF IsShape, Rows, Small
<1>3. PICK L \in Nat : L = Len(rows)
  BY <1>2
<1>4. PICK first : first = EncodeConnections(n, rows)
  BY Zenon
<1>5. /\ first[0] = <<>>
      /\ \A i \in 1 .. L : first[i] = first[i - 1] \o EncodeConnection(n, rows[i])
  BY <1>3, <1>4, FirstParts
<1>6. /\ \A i \in 0 .. L : first[i] \in Seq(Texts)
      /\ parts \in 0 .. Len(first[L])
  <2>1. /\ \A i \in 0 .. L : first[i] \in Seq(Texts)
        /\ \A i \in 0 .. L : Len(first[i]) = Len(EncodeConnections(0, rows)[i])
    BY <1>2, <1>3, <1>4, FirstTyped
  <2>2. L \in 0 .. L
    OBVIOUS
  <2>3. Len(first[L]) = Len(EncodeConnections(0, rows)[Len(rows)])
    BY <1>3, <2>1, <2>2, Zenon
  <2> QED
    BY <1>2, <2>1, <2>3, Zenon
<1>7. PICK all : all = first[L] /\ all \in Seq(Texts) /\ Len(all) \in Nat
  <2>1. L \in 0 .. L
    OBVIOUS
  <2> QED
    BY <1>6, <2>1
<1>8. \A i \in 0 .. L : /\ Len(first[i]) <= Len(all)
                        /\ \A k \in 1 .. Len(first[i]) : all[k] = first[i][k]
  BY <1>2, <1>3, <1>4, <1>7, FirstPrefix
<1>9. PICK f : f = Encode(n, "AstaireConnection", shape)
  BY Zenon
<1>10. f = SubSeq(all, 1, parts)
  BY <1>1, <1>3, <1>4, <1>7, <1>9, Zenon DEF Encode
<1>11. f \in Seq(Texts) /\ Len(f) = parts /\ \A k \in 1 .. parts : f[k] = all[k]
  <2>1. parts \in 0 .. Len(all)
    BY <1>6, <1>7
  <2> QED
    BY <1>7, <1>10, <2>1, Beginning
<1>12. PICK at : at = Starts(n, rows)
  BY Zenon
<1>13. at = [i \in 1 .. L + 1 |-> Len(first[i - 1]) + 1]
  BY <1>3, <1>4, <1>12, Zenon DEF Starts
<1>14. at \in [1 .. L + 1 -> Nat] /\ at[1] = 1 /\ parts < at[L + 1]
  <2>1. \A i \in 1 .. L + 1 : i - 1 \in 0 .. L
    OBVIOUS
  <2>2. \A i \in 0 .. L : Len(first[i]) \in Nat
    BY <1>6
  <2>3. \A i \in 1 .. L + 1 : Len(first[i - 1]) + 1 \in Nat
    BY <2>1, <2>2
  <2>4. at[1] = 1
    <3>1. 1 \in 1 .. L + 1 /\ 1 - 1 = 0
      OBVIOUS
    <3>2. Len(first[0]) = 0
      BY <1>5
    <3> QED
      BY <1>13, <3>1, <3>2
  <2>5. at[L + 1] = Len(all) + 1
    <3>1. L + 1 \in 1 .. L + 1 /\ L + 1 - 1 = L
      OBVIOUS
    <3> QED
      BY <1>7, <1>13, <3>1
  <2>6. at \in [1 .. L + 1 -> Nat]
    BY <1>13, <2>3
  <2>7. parts \in 0 .. Len(all)
    BY <1>6, <1>7, Zenon
  <2>8. parts < at[L + 1]
    BY <1>7, <2>5, <2>7
  <2> QED
    BY <2>4, <2>6, <2>8, Zenon
<1>15. ASSUME NEW i \in 1 .. L
       PROVE  /\ at[i + 1] = at[i] + 5 + 4 * Len(rows[i].buckets) /\ at[i] >= 1
              /\ \A k \in 1 .. 5 + 4 * Len(rows[i].buckets) :
                   at[i] + k - 1 <= Len(f) => f[at[i] + k - 1] = EncodeConnection(n, rows[i])[k]
  <2>1. rows[i] \in Rows /\ i - 1 \in 0 .. L /\ i \in 0 .. L /\ i + 1 \in 1 .. L + 1
        /\ i \in 1 .. L + 1 /\ i + 1 - 1 = i
    BY <1>2, <1>3
  <2>2. PICK x : x = EncodeConnection(n, rows[i]) /\ x \in Seq(Texts)
                 /\ Len(x) = 5 + 4 * Len(rows[i].buckets)
    BY <2>1, ConnectionTyped
  <2>3. PICK a : a = first[i - 1] /\ a \in Seq(Texts)
    BY <1>6, <2>1
  <2>4. PICK c : c = a \o x /\ c = first[i]
    BY <1>5, <2>2, <2>3, Zenon
  <2>5. /\ Len(a) \in Nat /\ Len(x) \in Nat /\ Len(c) = Len(a) + Len(x)
        /\ \A k \in 1 .. Len(x) : c[Len(a) + k] = x[k]
    <3>1. a \in Seq(Texts) /\ x \in Seq(Texts)
      BY <2>2, <2>3
    <3>2. c = a \o x
      BY <2>4
    <3> QED
      BY <3>1, <3>2, ConcatElements
  <2>6. PICK u \in Nat, m \in Nat : u = Len(a) /\ m = Len(x)
    BY <2>5, Zenon
  <2>7. Len(c) = u + m /\ \A k \in 1 .. m : c[u + k] = x[k]
    BY <2>5, <2>6, Zenon
  <2>8. at[i] = u + 1 /\ at[i + 1] = u + m + 1
    <3>1. at[i] = Len(a) + 1 /\ at[i + 1] = Len(c) + 1
      BY <1>13, <2>1, <2>3, <2>4
    <3> QED
      BY <2>6, <2>7, <3>1
  <2>9. PICK B \in Nat : B = Len(rows[i].buckets) /\ m = 5 + 4 * B
    <3>1. Len(rows[i].buckets) \in Nat
      BY <2>1 DEF Rows
    <3> QED
      BY <2>2, <2>6, <3>1
  <2>10. at[i + 1] = at[i] + 5 + 4 * B /\ at[i] >= 1
    <3>1. PICK x1, x2 : x1 = at[i] /\ x2 = at[i + 1]
      BY Zenon
    <3>2. x1 = u + 1 /\ x2 = u + m + 1 /\ m = 5 + 4 * B
      BY <2>8, <2>9, <3>1, Zenon
    <3>3. x2 = x1 + 5 + 4 * B /\ x1 >= 1
      BY <3>2
    <3> QED
      BY <3>1, <3>3, Zenon
  <2>11. ASSUME NEW k \in 1 .. m, at[i] + k - 1 <= Len(f) PROVE f[at[i] + k - 1] = x[k]
    <3>1. PICK p \in Nat : p = at[i] + k - 1 /\ p = u + k
      BY <2>8
    <3>2. p \in 1 .. parts
      <4>1. parts \in Nat /\ p <= parts
        BY <1>6, <1>7, <1>11, <2>11, <3>1
      <4> QED
        BY <3>1, <4>1
    <3>3. f[p] = all[p]
      BY <1>11, <3>2
    <3>4. all[p] = c[p]
      <4>1. p \in 1 .. Len(first[i])
        BY <2>4, <2>7, <3>1
      <4> QED
        BY <1>8, <2>1, <2>4, <4>1
    <3>5. c[p] = x[k]
      BY <2>7, <3>1
    <3> QED
      BY <3>1, <3>3, <3>4, <3>5
  <2> QED
    BY <2>2, <2>9, <2>10, <2>11, Zenon
<1>16. Layout(f, n, rows, at)
  BY <1>2, <1>3, <1>11, <1>14, <1>15 DEF Layout
<1> QED
  BY <1>1, <1>9, <1>11, <1>12, <1>16, Zenon

(* The numbers of a layout. *)
LEMMA LayoutNumbers ==
  ASSUME NEW f, NEW n, NEW rows, NEW at, Layout(f, n, rows, at), NEW i \in 1 .. Len(rows)
  PROVE  /\ Len(f) \in Nat /\ Len(rows) \in Nat /\ rows[i] \in Rows
         /\ at[i] \in Nat /\ at[i] >= 1 /\ at[i + 1] \in Nat
         /\ Len(rows[i].buckets) \in Nat
         /\ at[i + 1] = at[i] + 5 + 4 * Len(rows[i].buckets)
<1>1. /\ f \in Seq(Texts) /\ rows \in Seq(Rows) /\ at \in [1 .. Len(rows) + 1 -> Nat]
      /\ at[i + 1] = at[i] + 5 + 4 * Len(rows[i].buckets) /\ at[i] >= 1
  BY DEF Layout
<1>2. Len(f) \in Nat /\ Len(rows) \in Nat
  BY <1>1
<1>3. rows[i] \in Rows
  BY <1>1
<1>4. i \in 1 .. Len(rows) + 1 /\ i + 1 \in 1 .. Len(rows) + 1
  BY <1>2
<1>5. at[i] \in Nat /\ at[i + 1] \in Nat
  BY <1>1, <1>4
<1>6. Len(rows[i].buckets) \in Nat
  BY <1>3 DEF Rows
<1> QED
  BY <1>1, <1>2, <1>3, <1>5, <1>6

(* The parts of a connection in the message. *)
LEMMA PartsRead ==
  ASSUME NEW f, NEW n \in Nat, NEW rows, NEW at, Layout(f, n, rows, at),
         NEW i \in 1 .. Len(rows), Len(f) >= at[i] + 4
  PROVE  /\ f[at[i]] = rows[i].addr /\ f[at[i] + 1] = Text(rows[i].port)
         /\ f[at[i] + 2] = Text(Value(n, 1)) /\ f[at[i] + 3] = Text(Value(n, 2))
         /\ f[at[i] + 4] = Text(Len(rows[i].buckets))
<1>1. /\ Len(f) \in Nat /\ rows[i] \in Rows /\ at[i] \in Nat /\ Len(rows[i].buckets) \in Nat
  BY LayoutNumbers
<1>2. PICK e, c : e = EncodeConnection(n, c) /\ c = rows[i]
  BY Zenon
<1>3. /\ e[1] = c.addr /\ e[2] = Text(c.port)
      /\ e[3] = Text(Value(n, 1)) /\ e[4] = Text(Value(n, 2)) /\ e[5] = Text(Len(c.buckets))
  BY <1>1, <1>2, ConnectionParts, Zenon DEF IsConnection
<1>4. PICK p \in Nat, B \in Nat : p = at[i] /\ B = Len(c.buckets)
  BY <1>1, <1>2, Zenon
<1>5. \A k \in 1 .. 5 + 4 * B : p + k - 1 <= Len(f) => f[p + k - 1] = e[k]
  BY <1>2, <1>4, Zenon DEF Layout
<1>6. Len(f) >= p + 4
  BY <1>4
<1>7. f[p] = e[1] /\ f[p + 1] = e[2] /\ f[p + 2] = e[3] /\ f[p + 3] = e[4] /\ f[p + 4] = e[5]
  <2>1. /\ 1 \in 1 .. 5 + 4 * B /\ 2 \in 1 .. 5 + 4 * B /\ 3 \in 1 .. 5 + 4 * B
        /\ 4 \in 1 .. 5 + 4 * B /\ 5 \in 1 .. 5 + 4 * B
    OBVIOUS
  <2>2. /\ p + 1 - 1 = p /\ p + 2 - 1 = p + 1 /\ p + 3 - 1 = p + 2 /\ p + 4 - 1 = p + 3
        /\ p + 5 - 1 = p + 4
    OBVIOUS
  <2>3. /\ p <= Len(f) /\ p + 1 <= Len(f) /\ p + 2 <= Len(f) /\ p + 3 <= Len(f) /\ p + 4 <= Len(f)
    BY <1>1, <1>6
  <2> QED
    BY <1>5, <2>1, <2>2, <2>3
<1> QED
  BY <1>2, <1>3, <1>4, <1>7, Zenon

(* Where the bth bucket of a connection at p is in a message of N parts. *)
LEMMA BucketPlace ==
  ASSUME NEW p \in Nat, NEW B \in Nat, NEW N \in Nat, NEW b \in Nat, NEW j \in Nat,
         p >= 1, N >= p + 5 + 4 * B - 1, b >= 1, b <= B, j = p + 5 + 4 * (b - 1)
  PROVE  /\ j \in 1 .. N /\ j + 1 \in 1 .. N /\ j + 2 \in 1 .. N /\ j + 3 \in 1 .. N
         /\ j = p + (2 + 4 * b) - 1 /\ j + 1 = p + (3 + 4 * b) - 1
         /\ j + 2 = p + (4 + 4 * b) - 1 /\ j + 3 = p + (5 + 4 * b) - 1
         /\ 2 + 4 * b \in 1 .. 5 + 4 * B /\ 3 + 4 * b \in 1 .. 5 + 4 * B
         /\ 4 + 4 * b \in 1 .. 5 + 4 * B /\ 5 + 4 * b \in 1 .. 5 + 4 * B
OBVIOUS

(* The parts of a bucket. *)
IsBucket(f, n, id, j) ==
  /\ j \in 1 .. Len(f) /\ j + 1 \in 1 .. Len(f) /\ j + 2 \in 1 .. Len(f)
  /\ j + 3 \in 1 .. Len(f)
  /\ f[j] = Text(id) /\ f[j + 1] = Text(Value(n, 3))
  /\ f[j + 2] = Text(Value(n, 4)) /\ f[j + 3] = Text(Value(n, 5))

(* The buckets of a connection that is whole are in the message. *)
LEMMA BucketRead ==
  ASSUME NEW f, NEW n \in Nat, NEW rows, NEW at, Layout(f, n, rows, at),
         NEW i \in 1 .. Len(rows), Len(f) >= at[i + 1] - 1,
         NEW b \in 1 .. Len(rows[i].buckets), NEW j \in Nat, j = at[i] + 5 + 4 * (b - 1)
  PROVE  IsBucket(f, n, rows[i].buckets[b], j)
<1>1. /\ Len(f) \in Nat /\ rows[i] \in Rows /\ at[i] \in Nat /\ Len(rows[i].buckets) \in Nat
      /\ at[i] >= 1 /\ at[i + 1] = at[i] + 5 + 4 * Len(rows[i].buckets)
  BY LayoutNumbers
<1>2. PICK e, c : e = EncodeConnection(n, c) /\ c = rows[i]
  BY Zenon
<1>3. /\ e[2 + 4 * b] = Text(c.buckets[b]) /\ e[3 + 4 * b] = Text(Value(n, 3))
      /\ e[4 + 4 * b] = Text(Value(n, 4)) /\ e[5 + 4 * b] = Text(Value(n, 5))
  BY <1>1, <1>2, ConnectionParts, Zenon DEF IsConnection
<1>4. PICK p \in Nat, B \in Nat, N \in Nat :
        p = at[i] /\ B = Len(c.buckets) /\ p >= 1 /\ N = Len(f)
  BY <1>1, <1>2
<1>5. \A k \in 1 .. 5 + 4 * B : p + k - 1 <= N => f[p + k - 1] = e[k]
  BY <1>2, <1>4, Zenon DEF Layout
<1>6. N >= p + 5 + 4 * B - 1 /\ b \in Nat /\ b >= 1 /\ b <= B /\ j = p + 5 + 4 * (b - 1)
  <2>1. at[i + 1] = p + 5 + 4 * B
    BY <1>1, <1>2, <1>4, Zenon
  <2>2. N >= at[i + 1] - 1 /\ j = p + 5 + 4 * (b - 1) /\ b \in 1 .. B
    BY <1>2, <1>4, Zenon
  <2> QED
    BY <2>1, <2>2
<1>7. PICK y \in Nat, d \in Nat : /\ y = j /\ d = b /\ d >= 1 /\ d <= B
                                   /\ N >= p + 5 + 4 * B - 1 /\ y = p + 5 + 4 * (d - 1)
  BY <1>6, Zenon
<1>8. /\ y \in 1 .. N /\ y + 1 \in 1 .. N /\ y + 2 \in 1 .. N /\ y + 3 \in 1 .. N
      /\ y = p + (2 + 4 * d) - 1 /\ y + 1 = p + (3 + 4 * d) - 1
      /\ y + 2 = p + (4 + 4 * d) - 1 /\ y + 3 = p + (5 + 4 * d) - 1
      /\ 2 + 4 * d \in 1 .. 5 + 4 * B /\ 3 + 4 * d \in 1 .. 5 + 4 * B
      /\ 4 + 4 * d \in 1 .. 5 + 4 * B /\ 5 + 4 * d \in 1 .. 5 + 4 * B
  <2>1. /\ p >= 1 /\ N >= p + 5 + 4 * B - 1 /\ d >= 1 /\ d <= B /\ y = p + 5 + 4 * (d - 1)
    BY <1>4, <1>7, Zenon
  <2> QED
    BY <2>1, BucketPlace
<1>9. y <= N /\ y + 1 <= N /\ y + 2 <= N /\ y + 3 <= N
  BY <1>8
<1>10. /\ f[y] = e[2 + 4 * d] /\ f[y + 1] = e[3 + 4 * d]
       /\ f[y + 2] = e[4 + 4 * d] /\ f[y + 3] = e[5 + 4 * d]
  BY <1>5, <1>8, <1>9, Zenon
<1>11. /\ f[y] = Text(c.buckets[b]) /\ f[y + 1] = Text(Value(n, 3))
       /\ f[y + 2] = Text(Value(n, 4)) /\ f[y + 3] = Text(Value(n, 5))
  BY <1>3, <1>7, <1>10, Zenon
<1> QED
  BY <1>2, <1>4, <1>7, <1>8, <1>11, Zenon DEF IsBucket

(* How a connection is parsed. *)
IsParsed(f, rows, at, i) ==
  /\ Legible(f, at[i]) <=> Len(f) >= at[i] + 4 /\ isValid(rows[i].addr.addr)
  /\ Legible(f, at[i]) =>
       /\ End(f, at[i]) = at[i + 1]
       /\ Buckets(f, at[i]) = BucketStarts(at[i] + 5, Len(rows[i].buckets))
  /\ Intact(f, at[i]) <=> Len(f) >= at[i + 1] - 1 /\ isValid(rows[i].addr.addr)

(* ConnectionParts finds a connection that is not cut off before its buckets. *)
LEMMA Parsed ==
  ASSUME NEW f, NEW n \in Nat, NEW rows, NEW at, Layout(f, n, rows, at),
         NEW i \in 1 .. Len(rows), Len(rows[i].buckets) \in Small
  PROVE  IsParsed(f, rows, at, i)
<1>1. /\ Len(f) \in Nat /\ at[i] \in Nat /\ Len(rows[i].buckets) \in Nat
      /\ at[i + 1] \in Nat /\ at[i + 1] = at[i] + 5 + 4 * Len(rows[i].buckets)
  BY LayoutNumbers
<1>2. Len(f) >= at[i] + 4 => /\ f[at[i]] = rows[i].addr
                             /\ f[at[i] + 4] = Text(Len(rows[i].buckets))
  BY PartsRead
<1>3. PICK p \in Nat, B \in Nat, N \in Nat, q \in Nat :
        /\ p = at[i] /\ B = Len(rows[i].buckets) /\ N = Len(f) /\ q = at[i + 1]
        /\ q = p + 5 + 4 * B /\ B \in Small
  BY <1>1, Zenon
<1>4. Legible(f, p) <=> N >= p + 4 /\ isValid(rows[i].addr.addr)
  BY <1>2, <1>3, Zenon DEF Legible
<1>5. ASSUME Legible(f, p)
      PROVE  End(f, p) = q /\ Buckets(f, p) = BucketStarts(p + 5, B)
  <2>1. atoi(f[p + 4]) = atoi(Text(B))
    BY <1>2, <1>3, <1>4, <1>5, Zenon
  <2>2. atoi(Text(B)) = B
    <3>1. B \in 0 .. WORD - 1 /\ B < WORD \div 2
      <4>1. PICK H \in Nat : H = WORD \div 2 /\ H <= WORD /\ WORD \in Nat
        BY WordAssumption DEF WordAssumption
      <4>2. B \in 0 .. H - 1
        BY <1>3, <4>1, Zenon DEF Small
      <4> QED
        BY <4>1, <4>2
    <3> QED
      BY <3>1, AtoiKeeps
  <2>3. Buckets(f, p) = BucketStarts(p + 5, B)
    BY <2>1, <2>2, Zenon DEF Buckets
  <2>4. Len(BucketStarts(p + 5, B)) = B
    BY DEF BucketStarts
  <2>5. End(f, p) = p + 5 + 4 * B
    BY <2>3, <2>4, Zenon DEF End
  <2> QED
    BY <1>3, <2>3, <2>5, Zenon
<1>6. Intact(f, p) <=> N >= q - 1 /\ isValid(rows[i].addr.addr)
  <2>1. N >= q - 1 => N >= p + 4
    <3>1. q = p + 5 + 4 * B
      BY <1>3, Zenon
    <3> QED
      BY <3>1
  <2>2. Intact(f, p) <=> Legible(f, p) /\ N >= q - 1
    BY <1>3, <1>5, Zenon DEF Intact
  <2> QED
    BY <1>4, <2>1, <2>2, Zenon
<1> QED
  BY <1>3, <1>4, <1>5, <1>6, Zenon DEF IsParsed

(* The connections that are reached and legible. *)
Reached(f, rows, at) ==
  {k \in 1 .. Len(rows) : Legible(f, at[k]) /\ \A j \in 1 .. k - 1 : Intact(f, at[j])}

(* Parsing gets from one connection to the next. *)
LEMMA ConnectionStarts ==
  ASSUME NEW f, NEW n \in Nat, NEW rows, NEW at, Layout(f, n, rows, at),
         \A i \in 1 .. Len(rows) : Len(rows[i].buckets) \in Small
  PROVE  Connections(f) = {at[i] : i \in Reached(f, rows, at)}
<1>1. PICK L \in Nat, N \in Nat : /\ L = Len(rows) /\ N = Len(f)
                                  /\ at[1] = 1 /\ N < at[L + 1]
  <2>1. f \in Seq(Texts) /\ rows \in Seq(Rows) /\ at[1] = 1 /\ Len(f) < at[Len(rows) + 1]
    BY DEF Layout
  <2>2. Len(f) \in Nat /\ Len(rows) \in Nat
    BY <2>1
  <2> QED
    BY <2>1, <2>2, Zenon
<1>2. ASSUME NEW i \in 1 .. L
      PROVE  /\ at[i] \in Nat /\ at[i] >= 1 /\ at[i + 1] \in Nat /\ at[i] < at[i + 1]
             /\ Legible(f, at[i]) => at[i] <= N
             /\ Intact(f, at[i]) => End(f, at[i]) = at[i + 1] /\ Legible(f, at[i])
  <2>1. i \in 1 .. Len(rows)
    BY <1>1
  <2>2. /\ at[i] \in Nat /\ at[i] >= 1 /\ at[i + 1] \in Nat /\ Len(rows[i].buckets) \in Nat
        /\ at[i + 1] = at[i] + 5 + 4 * Len(rows[i].buckets)
    BY <2>1, LayoutNumbers
  <2>3. at[i] < at[i + 1]
    BY <2>2
  <2>4. Legible(f, at[i]) => at[i] <= N
    BY <1>1, <2>2 DEF Legible
  <2>5. Legible(f, at[i]) => End(f, at[i]) = at[i + 1]
    <3>1. Len(rows[i].buckets) \in Small
      BY <2>1, Zenon
    <3>2. IsParsed(f, rows, at, i)
      BY <2>1, <3>1, Parsed, Zenon
    <3> QED
      BY <3>2, Zenon DEF IsParsed
  <2> QED
    BY <2>2, <2>3, <2>4, <2>5, Zenon DEF Intact
<1> DEFINE Start(p) == \E i \in 1 .. L : p = at[i] /\ \A j \in 1 .. i - 1 : Intact(f, at[j])
           Rec(g) == g = [i \in 1 .. N |-> \/ i = 1
                                           \/ \E j \in 1 .. i - 1 : /\ Intact(f, j) /\ End(f, j) = i
                                                                    /\ g[j]]
<1>3. ASSUME NEW p \in 1 .. N, Start(p), p # 1
      PROVE  \E j \in 1 .. p - 1 : Intact(f, j) /\ End(f, j) = p /\ Start(j)
  <2>1. PICK i \in 1 .. L : p = at[i] /\ \A j \in 1 .. i - 1 : Intact(f, at[j])
    BY <1>3
  <2>2. i # 1
    BY <1>1, <1>3, <2>1
  <2>3. PICK k \in 1 .. L : k = i - 1 /\ k + 1 = i /\ k \in 1 .. i - 1
    BY <2>2
  <2>4. Intact(f, at[k])
    BY <2>1, <2>3, Zenon
  <2>5. End(f, at[k]) = p
    BY <1>2, <2>1, <2>3, <2>4, Zenon
  <2>6. at[k] \in 1 .. p - 1
    <3>1. at[k] \in Nat /\ at[k] >= 1 /\ at[k + 1] \in Nat /\ at[k] < at[k + 1]
      BY <1>2
    <3>2. at[k + 1] = p
      BY <2>1, <2>3
    <3> QED
      BY <3>1, <3>2
  <2>7. Start(at[k])
    <3>1. \A j \in 1 .. k - 1 : j \in 1 .. i - 1
      BY <2>3
    <3> QED
      BY <2>1, <3>1, Zenon
  <2> QED
    BY <2>4, <2>5, <2>6, <2>7, Zenon
<1>4. ASSUME NEW p \in 1 .. N, p = 1 PROVE Start(p)
  <2>1. L # 0
    BY <1>1, <1>4
  <2>2. 1 \in 1 .. L /\ \A j \in 1 .. 1 - 1 : FALSE
    BY <2>1
  <2> QED
    BY <1>1, <1>4, <2>2, Zenon
<1>5. ASSUME NEW p \in 1 .. N, NEW j \in 1 .. p - 1, Intact(f, j), End(f, j) = p, Start(j)
      PROVE  Start(p)
  <2>1. PICK i \in 1 .. L : j = at[i] /\ \A k \in 1 .. i - 1 : Intact(f, at[k])
    BY <1>5
  <2>2. p = at[i + 1]
    BY <1>2, <1>5, <2>1, Zenon
  <2>3. i # L
    BY <1>1, <2>2
  <2>4. i + 1 \in 1 .. L /\ \A k \in 1 .. i + 1 - 1 : k \in 1 .. i - 1 \/ k = i
    BY <2>3
  <2>5. \A k \in 1 .. i + 1 - 1 : Intact(f, at[k])
    BY <1>5, <2>1, <2>4, Zenon
  <2>6. PICK m \in 1 .. L : p = at[m] /\ \A k \in 1 .. m - 1 : Intact(f, at[k])
    BY <2>2, <2>4, <2>5
  <2> QED
    BY <2>6, Zenon
<1> HIDE DEF Start
<1>6. \E g : Rec(g)
  <2> DEFINE g == [i \in 1 .. N |-> Start(i)]
  <2>1. ASSUME NEW i \in 1 .. N
        PROVE  Start(i) = (i = 1 \/ \E j \in 1 .. i - 1 : Intact(f, j) /\ End(f, j) = i /\ g[j])
    <3>1. \A j \in 1 .. i - 1 : g[j] = Start(j)
      OBVIOUS
    <3>2. Start(i) <=> (i = 1 \/ \E j \in 1 .. i - 1 : Intact(f, j) /\ End(f, j) = i /\ Start(j))
      BY <1>3, <1>4, <1>5, Zenon
    <3>3. Start(i) \in BOOLEAN
      BY DEF Start
    <3> HIDE DEF g
    <3> QED
      BY <3>1, <3>2, <3>3, Zenon
  <2>2. Rec(g)
    BY <2>1, Zenon
  <2> QED
    BY <2>2, Zenon
<1>7. PICK g : Rec(g) /\ Connections(f) = {i \in 1 .. N : g[i] /\ Legible(f, i)}
  <2>1. Connections(f) = {i \in 1 .. N : (CHOOSE g : Rec(g))[i] /\ Legible(f, i)}
    BY <1>1, Zenon DEF Connections
  <2> HIDE DEF Rec
  <2> QED
    BY <1>6, <2>1, Zenon
<1> DEFINE S == {m \in 0 .. N : \A p \in 1 .. m : g[p] <=> Start(p)}
<1>8. ASSUME NEW m \in 1 .. N, m - 1 \in S PROVE m \in S
  <2>1. \A p \in 1 .. m - 1 : g[p] <=> Start(p)
    BY <1>8
  <2>2. g[m] <=> (m = 1 \/ \E j \in 1 .. m - 1 : Intact(f, j) /\ End(f, j) = m /\ g[j])
    BY <1>7, Zenon
  <2>3. g[m] <=> Start(m)
    BY <1>3, <1>4, <1>5, <2>1, <2>2, Zenon
  <2>4. \A p \in 1 .. m : p \in 1 .. m - 1 \/ p = m
    OBVIOUS
  <2>5. \A p \in 1 .. m : g[p] <=> Start(p)
    BY <2>1, <2>3, <2>4, Zenon
  <2>6. m \in 0 .. N
    OBVIOUS
  <2> QED
    BY <2>5, <2>6, Zenon
<1>9. \A p \in 1 .. N : g[p] <=> Start(p)
  <2>1. 0 \in S
    OBVIOUS
  <2>2. N \in S
    <3> HIDE DEF S
    <3>1. N \in 0 .. N
      OBVIOUS
    <3>2. \A i \in 1 .. N : i - 1 \in S => i \in S
      BY <1>8
    <3> QED
      BY <2>1, <3>1, <3>2, Induction
  <2> QED
    BY <2>2, Zenon
<1>10. ASSUME NEW p
       PROVE  p \in Connections(f) <=>
                \E i \in {k \in 1 .. L : /\ Legible(f, at[k])
                                         /\ \A j \in 1 .. k - 1 : Intact(f, at[j])} : p = at[i]
  <2>1. p \in Connections(f) <=> p \in 1 .. N /\ Start(p) /\ Legible(f, p)
    BY <1>7, <1>9, Zenon
  <2>2. \A i \in 1 .. L : Legible(f, at[i]) => at[i] \in 1 .. N
    BY <1>2
  <2> QED
    BY <2>1, <2>2, Zenon DEF Start
<1> QED
  BY <1>1, <1>10, Zenon DEF Reached

(* What the handler reads of a message with connections at parts at: those *)
(* of Shown, of which those of Full are whole.                             *)
ShowsConnection(f, n, c, p) ==
  /\ p \in Nat /\ c \in Rows /\ isValid(c.addr.addr)
  /\ p \in 1 .. Len(f) /\ p + 1 \in 1 .. Len(f) /\ p + 2 \in 1 .. Len(f) /\ p + 3 \in 1 .. Len(f)
  /\ f[p] = c.addr /\ atoi(f[p + 1]) = c.port
  /\ f[p + 2] = Text(Value(n, 1)) /\ f[p + 3] = Text(Value(n, 2))

ShowsBuckets(f, n, c, p) ==
  /\ Buckets(f, p) = BucketStarts(p + 5, Len(c.buckets))
  /\ \A b \in 1 .. Len(c.buckets) : \A j \in Nat : j = p + 5 + 4 * (b - 1) =>
       /\ j \in 1 .. Len(f) /\ j + 1 \in 1 .. Len(f) /\ j + 2 \in 1 .. Len(f)
       /\ j + 3 \in 1 .. Len(f)
       /\ atoi(f[j]) = c.buckets[b] /\ f[j + 1] = Text(Value(n, 3))
       /\ f[j + 2] = Text(Value(n, 4)) /\ f[j + 3] = Text(Value(n, 5))

Reads(f, n, rows, at, Shown, Full) ==
  /\ f \in Seq(Texts) /\ Shown \subseteq 1 .. Len(rows)
  /\ Connections(f) = {at[i] : i \in Shown}
  /\ \A i \in Shown : ShowsConnection(f, n, rows[i], at[i])
  /\ Full \subseteq Shown /\ \A i \in Shown : Intact(f, at[i]) <=> i \in Full
  /\ \A i \in Full : ShowsBuckets(f, n, rows[i], at[i])

(* Small numbers come back. *)
LEMMA SmallComeBack == \A v \in Small : v \in Int /\ atoi(Text(v)) = v
<1> SUFFICES ASSUME NEW v \in Small PROVE v \in Int /\ atoi(Text(v)) = v
  OBVIOUS
<1>1. v \in 0 .. WORD - 1 /\ v < WORD \div 2
  BY WordAssumption DEF WordAssumption, Small
<1> QED
  BY <1>1, AtoiKeeps

(* The handler reads a connection that is legible, *)
LEMMA ConnectionRead ==
  ASSUME NEW f, NEW n \in Nat, NEW rows, NEW at, Layout(f, n, rows, at),
         NEW i \in 1 .. Len(rows), Len(f) >= at[i] + 4, isValid(rows[i].addr.addr)
  PROVE  ShowsConnection(f, n, rows[i], at[i])
<1>1. /\ Len(f) \in Nat /\ rows[i] \in Rows /\ at[i] \in Nat /\ at[i] >= 1
  BY LayoutNumbers
<1>2. /\ f[at[i]] = rows[i].addr /\ f[at[i] + 1] = Text(rows[i].port)
      /\ f[at[i] + 2] = Text(Value(n, 1)) /\ f[at[i] + 3] = Text(Value(n, 2))
  BY PartsRead
<1>3. PICK p \in Nat, N \in Nat : p = at[i] /\ p >= 1 /\ N >= p + 4 /\ N = Len(f)
  BY <1>1, Zenon
<1>4. p \in 1 .. N /\ p + 1 \in 1 .. N /\ p + 2 \in 1 .. N /\ p + 3 \in 1 .. N
  <2>1. p >= 1 /\ N >= p + 4
    BY <1>3, Zenon
  <2> QED
    BY <2>1
<1>5. atoi(f[p + 1]) = rows[i].port
  <2>1. rows[i].port \in Small
    BY <1>1 DEF Rows
  <2> QED
    BY <1>2, <1>3, <2>1, SmallComeBack, Zenon
<1> QED
  BY <1>1, <1>2, <1>3, <1>4, <1>5, Zenon DEF ShowsConnection

(* and the buckets of one that is whole. *)
LEMMA BucketsRead ==
  ASSUME NEW f, NEW n \in Nat, NEW rows, NEW at, Layout(f, n, rows, at),
         NEW i \in 1 .. Len(rows), Len(rows[i].buckets) \in Small,
         Len(f) >= at[i + 1] - 1, isValid(rows[i].addr.addr)
  PROVE  ShowsBuckets(f, n, rows[i], at[i])
<1>1. rows[i] \in Rows
  BY LayoutNumbers
<1>2. Buckets(f, at[i]) = BucketStarts(at[i] + 5, Len(rows[i].buckets))
  <2>1. IsParsed(f, rows, at, i)
    BY Parsed, Zenon
  <2>2. Intact(f, at[i])
    BY <2>1, Zenon DEF IsParsed
  <2> QED
    BY <2>1, <2>2, Zenon DEF IsParsed, Intact
<1>3. ASSUME NEW b \in 1 .. Len(rows[i].buckets), NEW j \in Nat, j = at[i] + 5 + 4 * (b - 1)
      PROVE  /\ j \in 1 .. Len(f) /\ j + 1 \in 1 .. Len(f) /\ j + 2 \in 1 .. Len(f)
             /\ j + 3 \in 1 .. Len(f)
             /\ atoi(f[j]) = rows[i].buckets[b] /\ f[j + 1] = Text(Value(n, 3))
             /\ f[j + 2] = Text(Value(n, 4)) /\ f[j + 3] = Text(Value(n, 5))
  <2>1. IsBucket(f, n, rows[i].buckets[b], j)
    BY <1>3, BucketRead, Zenon
  <2>2. rows[i].buckets[b] \in Small
    BY <1>1 DEF Rows
  <2> QED
    BY <2>1, <2>2, SmallComeBack, Zenon DEF IsBucket
<1> QED
  BY <1>2, <1>3, Zenon DEF ShowsBuckets

(* What it reads of the messages of a node. *)
WholeRow(n, shape, i) ==
  isValid(shape.rows[i].addr.addr) /\ Len(EncodeConnections(n, shape.rows)[i]) <= shape.parts

ShownRows(n, shape) ==
  {i \in DOMAIN shape.rows : /\ \A j \in 1 .. i - 1 : WholeRow(n, shape, j)
                             /\ isValid(shape.rows[i].addr.addr)
                             /\ Len(EncodeConnections(n, shape.rows)[i - 1]) + 5 <= shape.parts}

(* The handler reads the connections up to the first that is cut off or    *)
(* has no valid address, and the buckets of those that are whole.          *)
LEMMA MessageRead ==
  ASSUME NEW n \in Nat, NEW shape, IsShape("AstaireConnection", shape)
  PROVE  Reads(Encode(n, "AstaireConnection", shape), n, shape.rows, Starts(n, shape.rows),
               ShownRows(n, shape), {i \in ShownRows(n, shape) : WholeRow(n, shape, i)})
<1>1. PICK f, rows, at, Shown, Full :
        /\ f = Encode(n, "AstaireConnection", shape) /\ rows = shape.rows
        /\ at = Starts(n, shape.rows) /\ Shown = ShownRows(n, shape)
        /\ Full = {i \in ShownRows(n, shape) : WholeRow(n, shape, i)}
  BY Zenon
<1>2. Layout(f, n, rows, at) /\ Len(f) = shape.parts
  BY <1>1, Laid, Zenon
<1>3. \A i \in 1 .. Len(rows) : Len(rows[i].buckets) \in Small
  <2>1. rows \in Seq(Rows)
    BY <1>2 DEF Layout
  <2>2. \A r \in Range(rows) : Len(r.buckets) \in Small
    BY <1>1, Zenon DEF IsShape, Small
  <2>3. \A i \in 1 .. Len(rows) : rows[i] \in Range(rows)
    BY <2>1 DEF Range
  <2> QED
    BY <2>2, <2>3, Zenon
<1>4. f \in Seq(Texts) /\ rows \in Seq(Rows) /\ DOMAIN rows = 1 .. Len(rows)
  <2>1. f \in Seq(Texts) /\ rows \in Seq(Rows)
    BY <1>2 DEF Layout
  <2> QED
    BY <2>1
<1>5. ASSUME NEW i \in 1 .. Len(rows)
      PROVE  /\ Legible(f, at[i]) <=> Len(f) >= at[i] + 4 /\ isValid(rows[i].addr.addr)
             /\ Intact(f, at[i]) <=> Len(f) >= at[i + 1] - 1 /\ isValid(rows[i].addr.addr)
             /\ Len(f) >= at[i] + 4 <=> Len(EncodeConnections(n, rows)[i - 1]) + 5 <= Len(f)
             /\ Len(f) >= at[i + 1] - 1 <=> Len(EncodeConnections(n, rows)[i]) <= Len(f)
  <2>1. IsParsed(f, rows, at, i)
    BY <1>2, <1>3, Parsed, Zenon
  <2>2. /\ Legible(f, at[i]) <=> Len(f) >= at[i] + 4 /\ isValid(rows[i].addr.addr)
        /\ Intact(f, at[i]) <=> Len(f) >= at[i + 1] - 1 /\ isValid(rows[i].addr.addr)
    BY <2>1, Zenon DEF IsParsed
  <2>3. Len(rows) \in Nat /\ Len(f) \in Nat /\ at[i] \in Nat /\ at[i + 1] \in Nat
    BY <1>2, LayoutNumbers
  <2>4. i \in 1 .. Len(rows) + 1 /\ i + 1 \in 1 .. Len(rows) + 1 /\ i + 1 - 1 = i
        /\ i - 1 \in 0 .. Len(rows) /\ i \in 0 .. Len(rows)
    BY <2>3
  <2>5. /\ Len(EncodeConnections(n, rows)[i - 1]) \in Nat
        /\ Len(EncodeConnections(n, rows)[i]) \in Nat
    BY <1>4, <2>4, FirstTyped
  <2>6. /\ at[i] = Len(EncodeConnections(n, rows)[i - 1]) + 1
        /\ at[i + 1] = Len(EncodeConnections(n, rows)[i]) + 1
    BY <1>1, <2>4 DEF Starts
  <2> QED
    BY <2>2, <2>3, <2>5, <2>6
<1>6. \A i \in 1 .. Len(rows) : Intact(f, at[i]) <=> WholeRow(n, shape, i)
  BY <1>1, <1>2, <1>5, Zenon DEF WholeRow
<1>7. ASSUME NEW i
      PROVE  i \in Shown <=> /\ i \in 1 .. Len(rows) /\ Legible(f, at[i])
                             /\ \A j \in 1 .. i - 1 : Intact(f, at[j])
  <2>1. i \in Shown <=> /\ i \in 1 .. Len(rows) /\ Legible(f, at[i])
                        /\ \A j \in 1 .. i - 1 : WholeRow(n, shape, j)
    BY <1>1, <1>2, <1>4, <1>5, Zenon DEF ShownRows
  <2>2. ASSUME i \in 1 .. Len(rows), NEW j \in 1 .. i - 1 PROVE j \in 1 .. Len(rows)
    <3>1. Len(rows) \in Nat
      BY <1>4
    <3> QED
      BY <2>2, <3>1
  <2> QED
    BY <1>6, <2>1, <2>2, Zenon
<1>8. Connections(f) = {at[i] : i \in Shown}
  <2>1. Connections(f) = {at[i] : i \in Reached(f, rows, at)}
    BY <1>2, <1>3, ConnectionStarts
  <2>2. Shown = Reached(f, rows, at)
    BY <1>7, Zenon DEF Reached
  <2> QED
    BY <2>1, <2>2, Zenon
<1>9. Full \subseteq Shown /\ \A i \in Shown : Intact(f, at[i]) <=> i \in Full
  BY <1>1, <1>6, <1>7, Zenon
<1>10. ASSUME NEW i \in Shown PROVE ShowsConnection(f, n, rows[i], at[i])
  <2>1. /\ i \in 1 .. Len(rows) /\ Len(f) >= at[i] + 4 /\ isValid(rows[i].addr.addr)
    BY <1>5, <1>7, Zenon
  <2> QED
    BY <1>2, <2>1, ConnectionRead, Zenon
<1>11. ASSUME NEW i \in Full PROVE ShowsBuckets(f, n, rows[i], at[i])
  <2>1. /\ i \in 1 .. Len(rows) /\ Len(f) >= at[i + 1] - 1 /\ isValid(rows[i].addr.addr)
    BY <1>5, <1>7, <1>9, Zenon
  <2> QED
    BY <1>2, <1>3, <2>1, BucketsRead, Zenon
<1>12. Shown \subseteq 1 .. Len(rows)
  BY <1>7, Zenon
<1>13. Reads(f, n, rows, at, Shown, Full)
  BY <1>4, <1>8, <1>9, <1>10, <1>11, <1>12, Zenon DEF Reads
<1> QED
  BY <1>1, <1>13, Zenon
=============================================================================
