-------------------------- MODULE ConnectionProofs --------------------------
(***************************************************************************)
(* What AstaireConnectionStatHandler makes of a message of connections     *)
(* (AstaireRows), and so what every handler makes of the messages of a     *)
(* node (CountsComeBack).                                                  *)
(***************************************************************************)
EXTENDS NodeMessageProofs

(* The elements of two OIDs one after the other, *)
LEMMA Elements ==
  ASSUME NEW a \in OIDs, NEW b \in OIDs
  PROVE  /\ a \o b \in OIDs /\ Len(a) \in Nat /\ Len(b) \in Nat
         /\ Len(a \o b) = Len(a) + Len(b)
         /\ \A i \in 1 .. Len(a) : (a \o b)[i] = a[i]
         /\ \A i \in 1 .. Len(b) : (a \o b)[Len(a) + i] = b[i]
BY ConcatElements DEF OIDs

(* or of three, *)
Regroups(a, b, c) == (a \o b) \o c = a \o (b \o c)
LEMMA Associative ==
  ASSUME NEW a \in OIDs, NEW b \in OIDs, NEW c \in OIDs
  PROVE  Regroups(a, b, c)
BY SMTT(30) DEF OIDs, Regroups

(* which tell both apart when the second have the same length. *)
LEMMA EndTells ==
  ASSUME NEW a \in OIDs, NEW b \in OIDs, NEW c \in OIDs, NEW d \in OIDs, Len(b) = Len(d)
  PROVE  a \o b = c \o d => a = c /\ b = d
<1>1. /\ Len(a) \in Nat /\ Len(b) \in Nat /\ Len(c) \in Nat /\ Len(d) \in Nat
      /\ Len(a \o b) = Len(a) + Len(b) /\ Len(c \o d) = Len(c) + Len(d)
  BY Elements
<1>2. ASSUME Len(a \o b) = Len(c \o d) PROVE Len(a) = Len(c)
  BY <1>1, <1>2
<1> QED
  BY <1>2, ConcatTells

(* OIDs of a few numbers, *)
LEMMA ShortOIDs ==
  \A x, y, z \in Int :
    /\ <<x>> \in OIDs /\ <<x, y>> \in OIDs /\ <<x, y, z>> \in OIDs
    /\ Len(<<x>>) = 1 /\ Len(<<x, y>>) = 2 /\ Len(<<x, y, z>>) = 3
    /\ <<x>>[1] = x /\ <<x, y>>[1] = x /\ <<x, y>>[2] = y
    /\ <<x, y, z>>[1] = x /\ <<x, y, z>>[2] = y /\ <<x, y, z>>[3] = z
BY DEF OIDs

(* and longer ones made of them. *)
LEMMA Joined ==
  ASSUME NEW x \in Int, NEW y \in Int, NEW z \in Int
  PROVE  <<x, y>> \o <<z>> = <<x, y, z>> /\ <<x>> \o <<y>> = <<x, y>>
<1>1. PICK a, b, c, d, e : a = <<x>> /\ b = <<y>> /\ c = <<z>> /\ d = <<x, y>> /\ e = <<x, y, z>>
  BY Zenon
<1>2. /\ a \in OIDs /\ b \in OIDs /\ c \in OIDs /\ d \in OIDs /\ e \in OIDs
      /\ Len(a) = 1 /\ Len(b) = 1 /\ Len(c) = 1 /\ Len(d) = 2 /\ Len(e) = 3
      /\ a[1] = x /\ b[1] = y /\ c[1] = z /\ d[1] = x /\ d[2] = y
      /\ e[1] = x /\ e[2] = y /\ e[3] = z
  BY <1>1, ShortOIDs
<1>3. a \o b = d
  <2>1. /\ a \o b \in OIDs /\ Len(a \o b) = Len(a) + Len(b)
        /\ \A i \in 1 .. Len(a) : (a \o b)[i] = a[i]
        /\ \A i \in 1 .. Len(b) : (a \o b)[Len(a) + i] = b[i]
    <3>1. a \in OIDs /\ b \in OIDs
      BY <1>2
    <3> QED
      BY <3>1, Elements
  <2>2. PICK g : g = a \o b
    BY Zenon
  <2>3. g \in OIDs /\ Len(g) = 2 /\ g[1] = x /\ g[2] = y
    BY <1>2, <2>1, <2>2
  <2>4. g = d
    <3>1. g \in OIDs /\ d \in OIDs /\ Len(g) = 2 /\ Len(d) = 2
      BY <1>2, <2>3
    <3>2. g[1] = d[1] /\ g[2] = d[2]
      BY <1>2, <2>3
    <3>3. \A i \in 1 .. 2 : g[i] = d[i]
      BY <3>2
    <3>4. Len(g) = Len(d) /\ \A i \in 1 .. Len(g) : g[i] = d[i]
      BY <3>1, <3>3, Zenon
    <3> QED
      BY <3>1, <3>4, SameElements, Zenon
  <2> QED
    BY <2>2, <2>4
<1>4. d \o c = e
  <2>1. /\ d \o c \in OIDs /\ Len(d \o c) = Len(d) + Len(c)
        /\ \A i \in 1 .. Len(d) : (d \o c)[i] = d[i]
        /\ \A i \in 1 .. Len(c) : (d \o c)[Len(d) + i] = c[i]
    <3>1. d \in OIDs /\ c \in OIDs
      BY <1>2
    <3> QED
      BY <3>1, Elements
  <2>2. PICK g : g = d \o c
    BY Zenon
  <2>3. g \in OIDs /\ Len(g) = 3 /\ g[1] = x /\ g[2] = y /\ g[3] = z
    BY <1>2, <2>1, <2>2
  <2>4. g = e
    <3>1. g \in OIDs /\ e \in OIDs /\ Len(g) = 3 /\ Len(e) = 3
      BY <1>2, <2>3
    <3>2. g[1] = e[1] /\ g[2] = e[2] /\ g[3] = e[3]
      BY <1>2, <2>3
    <3>3. \A i \in 1 .. 3 : g[i] = e[i]
      BY <3>2
    <3>4. Len(g) = Len(e) /\ \A i \in 1 .. Len(g) : g[i] = e[i]
      BY <3>1, <3>3, Zenon
    <3> QED
      BY <3>1, <3>4, SameElements, Zenon
  <2> QED
    BY <2>2, <2>4
<1> QED
  BY <1>1, <1>3, <1>4, Zenon

(* A column and an index below a base. *)
Row(root, a, b, v, x) == root \o <<a, b, v>> \o x
Joins(root, a, b, v, x) == root \o <<a, b>> \o (<<v>> \o x) = Row(root, a, b, v, x)

(* The handler makes the OID of a cell in two steps. *)
LEMMA RowJoins ==
  ASSUME NEW root \in OIDs, NEW x \in OIDs, NEW a \in Int, NEW b \in Int, NEW v \in Int
  PROVE  Joins(root, a, b, v, x) /\ Row(root, a, b, v, x) \in OIDs
<1>1. PICK ab, c, abc : ab = <<a, b>> /\ c = <<v>> /\ abc = <<a, b, v>>
  BY Zenon
<1>2. ab \in OIDs /\ c \in OIDs /\ abc \in OIDs
  BY <1>1, ShortOIDs, Zenon
<1>3. ab \o c = abc
  BY <1>1, Joined, Zenon
<1>4. PICK r : r = root \o ab
  BY Zenon
<1>5. r \in OIDs /\ root \o abc \in OIDs
  BY <1>2, <1>4, Elements
<1>6. r \o (c \o x) = (r \o c) \o x
  <2>1. r \in OIDs /\ c \in OIDs
    BY <1>2, <1>5
  <2>2. Regroups(r, c, x)
    BY <2>1, Associative, Zenon
  <2> QED
    BY <2>2, Zenon DEF Regroups
<1>7. (root \o ab) \o c = root \o (ab \o c)
  <2>1. Regroups(root, ab, c)
    BY <1>2, Associative, Zenon
  <2> QED
    BY <2>1, Zenon DEF Regroups
<1>8. (root \o abc) \o x \in OIDs
  BY <1>5, Elements
<1> QED
  BY <1>1, <1>3, <1>4, <1>5, <1>6, <1>7, <1>8, Zenon DEF Joins, Row

(* So it does when something follows the index, *)
LongJoins(root, a, b, v, x, e) ==
  root \o <<a, b>> \o (<<v>> \o (x \o e)) = Row(root, a, b, v, x) \o e

(* The two steps come to the same. *)
LEMMA LongRowJoins ==
  ASSUME NEW root \in OIDs, NEW x \in OIDs, NEW a \in Int, NEW b \in Int, NEW v \in Int,
         NEW e \in OIDs
  PROVE  LongJoins(root, a, b, v, x, e)
<1>1. PICK y : y = x \o e
  BY Zenon
<1>2. y \in OIDs
  BY <1>1, Elements
<1>3. Joins(root, a, b, v, y)
  BY <1>2, RowJoins, Zenon
<1>4. PICK p : p = <<a, b, v>>
  BY Zenon
<1>5. p \in OIDs
  BY <1>4, ShortOIDs, Zenon
<1>6. PICK r : r = root \o p
  BY Zenon
<1>7. r \in OIDs
  BY <1>5, <1>6, Elements
<1>8. r \o (x \o e) = (r \o x) \o e
  <2>1. Regroups(r, x, e)
    BY <1>7, Associative, Zenon
  <2> QED
    BY <2>1, Zenon DEF Regroups
<1> QED
  BY <1>1, <1>3, <1>4, <1>6, <1>8, Zenon DEF Joins, Row, LongJoins

(* as the bucket and the 1 of a bandwidth do. *)
LEMMA BandwidthOID ==
  ASSUME NEW x \in OIDs, NEW id \in Int
  PROVE  <<6>> \o (x \o <<id>>) \o <<1>> = <<6>> \o (x \o <<id, 1>>)
<1>1. PICK s, d, u, du : s = <<6>> /\ d = <<id>> /\ u = <<1>> /\ du = <<id, 1>>
  BY Zenon
<1>2. s \in OIDs /\ d \in OIDs /\ u \in OIDs /\ du \in OIDs
  BY <1>1 DEF OIDs
<1>3. d \o u = du
  BY <1>1, Joined
<1>4. PICK y : y = x \o d
  BY Zenon
<1>5. y \in OIDs
  BY <1>2, <1>4, Elements
<1>6. (s \o y) \o u = s \o (y \o u)
  <2>1. Regroups(s, y, u)
    BY <1>2, <1>5, Associative, Zenon
  <2> QED
    BY <2>1, Zenon DEF Regroups
<1>7. (x \o d) \o u = x \o (d \o u)
  <2>1. Regroups(x, d, u)
    BY <1>2, Associative, Zenon
  <2> QED
    BY <2>1, Zenon DEF Regroups
<1> QED
  BY <1>1, <1>3, <1>4, <1>6, <1>7, Zenon

(* The OID of a cell tells its column and its index. *)
LEMMA RowTells ==
  ASSUME NEW root \in OIDs, NEW x \in OIDs, NEW y \in OIDs,
         NEW a \in Int, NEW b \in Int, NEW v \in Int, NEW w \in Int
  PROVE  Row(root, a, b, v, x) = Row(root, a, b, w, y) => v = w /\ x = y
<1>0. PICK p, q : p = <<a, b, v>> /\ q = <<a, b, w>>
  BY Zenon
<1>1. p \in OIDs /\ q \in OIDs /\ Len(p) = 3 /\ Len(q) = 3 /\ p[3] = v /\ q[3] = w
  BY <1>0, ShortOIDs
<1>2. PICK r, s : r = root \o p /\ s = root \o q /\ r \in OIDs /\ s \in OIDs
  BY <1>1, Elements, Zenon
<1>3. Len(r) = Len(s)
  <2>1. Len(r) = Len(root) + Len(p) /\ Len(s) = Len(root) + Len(q)
    BY <1>1, <1>2, Elements, Zenon
  <2> QED
    BY <1>1, <2>1, Zenon
<1>4. r \o x = s \o y => r = s /\ x = y
  BY <1>2, <1>3, ConcatTells, ZenonT(30)
<1>5. r = s => p = q
  <2>1. root \o p = root \o q => p = q
    BY <1>1, ConcatTells
  <2> QED
    BY <1>2, <2>1, Zenon
<1>6. p = q => v = w
  BY <1>1, Zenon
<1> QED
  BY <1>0, <1>2, <1>4, <1>5, <1>6, Zenon DEF Row

(* The places of counts t[3] that are to be at the OIDs t[1]. *)
Places(T) == {<<t[1], t[2]>> : t \in T}
HasCount(f, n, t) ==
  t[2] \in 1 .. Len(f) /\ t[3] \in 0 .. Counts - 1 /\ f[t[2]] = Text(Value(n, t[3]))
OneEach(T) == \A t, u \in T : t[1] = u[1] => t[2] = u[2]

(* What is then put into the tree. *)
IsTable(puts, n, T) ==
  /\ \A p \in puts : MessageOf(p[2] % WORD) = n
  /\ {<<p[1], p[2] % WORD>> : p \in puts} = {<<t[1], Value(n, t[3])>> : t \in T}

(* When there is one place for each OID, each put is the count at its place. *)
LEMMA TableAnswers ==
  ASSUME NEW f, Len(f) \in Nat, NEW root, NEW T, NEW n \in Nat, Counts * (n + 1) <= WORD,
         \A t \in T : HasCount(f, n, t), OneEach(T)
  PROVE  IsTable(Puts(ReplaceSubtree(root, Filled(Places(T), f))), n, T)
<1>0. PICK cells : cells = Places(T)
  BY Zenon
<1> DEFINE puts == Puts(ReplaceSubtree(root, Filled(cells, f)))
<1>1. \A c \in cells : \E t \in T : c = <<t[1], t[2]>> /\ c[1] = t[1] /\ c[2] = t[2]
  BY <1>0 DEF Places
<1>2. /\ \A p \in puts : \E c \in cells : p = <<c[1], atoi(f[c[2]])>>
      /\ \A c \in cells : <<c[1], atoi(f[c[2]])>> \in puts
  <2>1. \A c \in cells : c[2] \in 1 .. Len(f)
    BY <1>1 DEF HasCount
  <2>2. \A c, d \in cells : c[1] = d[1] => c[2] = d[2]
    BY <1>1 DEF OneEach
  <2> QED
    BY <2>1, <2>2, FilledPuts
<1> HIDE DEF puts
<1>3. ASSUME NEW t \in T
      PROVE  /\ atoi(f[t[2]]) % WORD = Value(n, t[3])
             /\ MessageOf(atoi(f[t[2]]) % WORD) = n
  BY CountAnswer DEF HasCount
<1>4. \A p \in puts : \E t \in T : /\ p[1] = t[1] /\ p[2] % WORD = Value(n, t[3])
                                   /\ MessageOf(p[2] % WORD) = n
  <2> SUFFICES ASSUME NEW p \in puts
               PROVE  \E t \in T : /\ p[1] = t[1] /\ p[2] % WORD = Value(n, t[3])
                                   /\ MessageOf(p[2] % WORD) = n
    OBVIOUS
  <2>1. PICK c \in cells : p = <<c[1], atoi(f[c[2]])>>
    BY <1>2
  <2>2. PICK t \in T : c[1] = t[1] /\ c[2] = t[2]
    BY <1>1
  <2>3. p[1] = t[1] /\ p[2] = atoi(f[t[2]])
    BY <2>1, <2>2
  <2> QED
    BY <1>3, <2>3, Zenon
<1>5. ASSUME NEW t \in T
      PROVE  <<t[1], Value(n, t[3])>> \in {<<p[1], p[2] % WORD>> : p \in puts}
  <2>1. PICK c \in cells : c = <<t[1], t[2]>>
    BY <1>0, Zenon DEF Places
  <2>2. c[1] = t[1] /\ c[2] = t[2]
    BY <2>1
  <2>3. PICK p \in puts : p = <<t[1], atoi(f[t[2]])>>
    BY <1>2, <2>2, Zenon
  <2>4. p[1] = t[1] /\ p[2] = atoi(f[t[2]])
    BY <2>3
  <2>5. <<p[1], p[2] % WORD>> = <<t[1], Value(n, t[3])>>
    BY <1>3, <2>4, Zenon
  <2> QED
    BY <2>5, Zenon
<1>6. {<<p[1], p[2] % WORD>> : p \in puts} = {<<t[1], Value(n, t[3])>> : t \in T}
  <2>1. ASSUME NEW p \in puts
        PROVE  <<p[1], p[2] % WORD>> \in {<<t[1], Value(n, t[3])>> : t \in T}
    BY <1>4, Zenon
  <2> QED
    BY <1>5, <2>1, Zenon
<1>7. \A p \in puts : MessageOf(p[2] % WORD) = n
  BY <1>4, Zenon
<1> QED
  BY <1>0, <1>6, <1>7, Zenon DEF puts, IsTable

(* The index of a connection. *)
RowIndex(c) == toOIDBytes(c.addr.addr) \o <<c.port>>

(* The cells of a connection with index x at part p and of its bucket id,  *)
(* with the number of the count each has.                                  *)
Cells6(root, x, p) ==
  {<<Row(root, 6, 1, 4, x), p + 2, 1>>, <<Row(root, 6, 1, 5, x), p + 3, 2>>}
Cells7(root, x, id, p) ==
  {<<Row(root, 7, 1, 5, x) \o <<id>>, p + 1, 3>>, <<Row(root, 7, 1, 6, x) \o <<id>>, p + 2, 4>>}
Cells8(root, x, id, p) == {<<Row(root, 8, 1, 6, x) \o <<id, 1>>, p + 3, 5>>}

(* The OIDs of cells below the base of their table. *)
Below(base, cells) == {<<base \o c[1], c[2]>> : c \in cells}

(* The cells the handler fills for a connection, *)
LEMMA CellsSixBelow ==
  ASSUME NEW root \in OIDs, NEW x \in OIDs, NEW p
  PROVE  Below(root \o connection_base_oid, ConnectionCells(x, p)) = Places(Cells6(root, x, p))
<1>1. Joins(root, 6, 1, 4, x) /\ Joins(root, 6, 1, 5, x)
  BY RowJoins
<1>2. /\ root \o connection_base_oid \o (<<4>> \o x) = Row(root, 6, 1, 4, x)
      /\ root \o connection_base_oid \o (<<5>> \o x) = Row(root, 6, 1, 5, x)
  BY <1>1, Zenon DEF Joins, connection_base_oid
<1>3. PICK y, z, r, u, v : /\ y = <<4>> \o x /\ z = <<5>> \o x /\ r = root \o connection_base_oid
                           /\ u = Row(root, 6, 1, 4, x) /\ v = Row(root, 6, 1, 5, x)
                           /\ r \o y = u /\ r \o z = v
  BY <1>2, Zenon
<1>4. ConnectionCells(x, p) = {<<y, p + 2>>, <<z, p + 3>>}
  BY <1>3, Zenon DEF ConnectionCells
<1>5. Cells6(root, x, p) = {<<u, p + 2, 1>>, <<v, p + 3, 2>>}
  BY <1>3, Zenon DEF Cells6
<1>6. Below(r, ConnectionCells(x, p)) = {<<r \o y, p + 2>>, <<r \o z, p + 3>>}
  BY <1>4 DEF Below
<1>7. Places(Cells6(root, x, p)) = {<<u, p + 2>>, <<v, p + 3>>}
  BY <1>5 DEF Places
<1> QED
  BY <1>3, <1>6, <1>7, Zenon

(* for the counts of a bucket, *)
LEMMA CellsSevenBelow ==
  ASSUME NEW root \in OIDs, NEW x \in OIDs, NEW id \in Int, NEW p
  PROVE  Below(root \o bucket_base_oid, BucketCells(x \o <<id>>, p)) = Places(Cells7(root, x, id, p))
<1>1. <<id>> \in OIDs
  BY ShortOIDs
<1>2. /\ root \o <<7, 1>> \o (<<5>> \o (x \o <<id>>)) = Row(root, 7, 1, 5, x) \o <<id>>
      /\ root \o <<7, 1>> \o (<<6>> \o (x \o <<id>>)) = Row(root, 7, 1, 6, x) \o <<id>>
  <2>1. PICK e : e = <<id>> /\ e \in OIDs
    BY <1>1
  <2>2. /\ root \o <<7, 1>> \o (<<5>> \o (x \o e)) = Row(root, 7, 1, 5, x) \o e
        /\ root \o <<7, 1>> \o (<<6>> \o (x \o e)) = Row(root, 7, 1, 6, x) \o e
    <3>1. LongJoins(root, 7, 1, 5, x, e) /\ LongJoins(root, 7, 1, 6, x, e)
      BY <2>1, LongRowJoins
    <3> QED
      BY <3>1, Zenon DEF LongJoins
  <2> QED
    BY <2>1, <2>2, Zenon
<1>3. PICK y, z, r, u, v :
        /\ y = <<5>> \o (x \o <<id>>) /\ z = <<6>> \o (x \o <<id>>) /\ r = root \o bucket_base_oid
        /\ u = Row(root, 7, 1, 5, x) \o <<id>> /\ v = Row(root, 7, 1, 6, x) \o <<id>>
        /\ r \o y = u /\ r \o z = v
  BY <1>2, Zenon DEF bucket_base_oid
<1>4. BucketCells(x \o <<id>>, p) = {<<y, p + 1>>, <<z, p + 2>>}
  BY <1>3, Zenon DEF BucketCells
<1>5. Cells7(root, x, id, p) = {<<u, p + 1, 3>>, <<v, p + 2, 4>>}
  BY <1>3, Zenon DEF Cells7
<1>6. Below(r, BucketCells(x \o <<id>>, p)) = {<<r \o y, p + 1>>, <<r \o z, p + 2>>}
  <2>1. PICK cells : cells = BucketCells(x \o <<id>>, p)
    BY Zenon
  <2>2. cells = {<<y, p + 1>>, <<z, p + 2>>}
    BY <1>4, <2>1, Zenon
  <2>3. Below(r, cells) = {<<r \o y, p + 1>>, <<r \o z, p + 2>>}
    BY <2>2 DEF Below
  <2> QED
    BY <2>1, <2>3, Zenon
<1>7. Places(Cells7(root, x, id, p)) = {<<u, p + 1>>, <<v, p + 2>>}
  BY <1>5 DEF Places
<1> QED
  BY <1>3, <1>6, <1>7, Zenon

(* and for its bandwidth. *)
LEMMA CellsEightBelow ==
  ASSUME NEW root \in OIDs, NEW x \in OIDs, NEW id \in Int, NEW p
  PROVE  Below(root \o bucket_bandwidth_base_oid, BandwidthCells(x \o <<id>>, p))
           = Places(Cells8(root, x, id, p))
<1>1. <<id, 1>> \in OIDs
  BY DEF OIDs
<1>2. root \o <<8, 1>> \o (<<6>> \o (x \o <<id>>) \o <<1>>) = Row(root, 8, 1, 6, x) \o <<id, 1>>
  <2>1. PICK e : e = <<id, 1>> /\ e \in OIDs
    BY <1>1
  <2>2. root \o <<8, 1>> \o (<<6>> \o (x \o e)) = Row(root, 8, 1, 6, x) \o e
    <3>1. LongJoins(root, 8, 1, 6, x, e)
      BY <2>1, LongRowJoins
    <3> QED
      BY <3>1, Zenon DEF LongJoins
  <2>3. <<6>> \o (x \o <<id>>) \o <<1>> = <<6>> \o (x \o <<id, 1>>)
    BY BandwidthOID
  <2> QED
    BY <2>1, <2>2, <2>3, Zenon
<1>3. PICK y, r, u : /\ y = <<6>> \o (x \o <<id>>) \o <<1>> /\ r = root \o bucket_bandwidth_base_oid
                     /\ u = Row(root, 8, 1, 6, x) \o <<id, 1>> /\ r \o y = u
  BY <1>2, Zenon DEF bucket_bandwidth_base_oid
<1>4. BandwidthCells(x \o <<id>>, p) = {<<y, p + 3>>}
  BY <1>3, Zenon DEF BandwidthCells
<1>5. Cells8(root, x, id, p) = {<<u, p + 3, 5>>}
  BY <1>3, Zenon DEF Cells8
<1>6. Below(r, BandwidthCells(x \o <<id>>, p)) = {<<r \o y, p + 3>>}
  <2>1. PICK cells : cells = BandwidthCells(x \o <<id>>, p)
    BY Zenon
  <2>2. cells = {<<y, p + 3>>}
    BY <1>4, <2>1, Zenon
  <2>3. Below(r, cells) = {<<r \o y, p + 3>>}
    BY <2>2 DEF Below
  <2> QED
    BY <2>1, <2>3, Zenon
<1>7. Places(Cells8(root, x, id, p)) = {<<u, p + 3>>}
  BY <1>5 DEF Places
<1> QED
  BY <1>3, <1>6, <1>7, Zenon

(* The index the handler reads at part p. *)
ReadIndex(f, p) == toOIDBytes(f[p].addr) \o <<atoi(f[p + 1])>>

(* Rows and buckets are told apart by their indexes. *)
Distinct(rows, Shown, Full) ==
  /\ \A i, k \in Shown : RowIndex(rows[i]) = RowIndex(rows[k]) => i = k
  /\ \A i \in Full : \A b, d \in 1 .. Len(rows[i].buckets) :
       rows[i].buckets[b] = rows[i].buckets[d] => b = d

(* The cells of the connections, with the part and the count of each. *)
Triples6(root, rows, at, Shown) ==
  UNION {Cells6(root, RowIndex(rows[i]), at[i]) : i \in Shown}

(* An index is an OID, *)
LEMMA RowIndexTyped ==
  \A c \in Rows : RowIndex(c) \in OIDs /\ toOIDBytes(c.addr.addr) \in OIDs /\ <<c.port>> \in OIDs
<1> SUFFICES ASSUME NEW c \in Rows
             PROVE  RowIndex(c) \in OIDs /\ toOIDBytes(c.addr.addr) \in OIDs /\ <<c.port>> \in OIDs
  OBVIOUS
<1>1. c.addr \in Texts /\ c.port \in Small
  BY DEF Rows
<1>2. c.addr.addr \in Addresses /\ c.port \in Int
  BY <1>1, SmallComeBack DEF Texts, Addresses
<1>3. PICK a, b : a = toOIDBytes(c.addr.addr) /\ b = <<c.port>>
  BY Zenon
<1>4. a \in OIDs
  BY <1>2, <1>3, IndexTyped, Zenon
<1>5. b \in OIDs
  BY <1>2, <1>3, ShortOIDs
<1>6. a \o b \in OIDs
  BY <1>4, <1>5, Elements
<1> QED
  BY <1>3, <1>4, <1>5, <1>6, Zenon DEF RowIndex

(* and the one the handler reads is the one of the connection. *)
LEMMA ShownIndex ==
  ASSUME NEW f, NEW n, NEW c, NEW p, ShowsConnection(f, n, c, p)
  PROVE  ReadIndex(f, p) = RowIndex(c) /\ RowIndex(c) \in OIDs
<1>1. c \in Rows /\ f[p] = c.addr /\ atoi(f[p + 1]) = c.port
  BY Zenon DEF ShowsConnection
<1> QED
  BY <1>1, RowIndexTyped, Zenon DEF ReadIndex, RowIndex

(* The counts of a connection are where its cells are filled from. *)
LEMMA SixAt ==
  ASSUME NEW f, NEW n, NEW c, NEW p, ShowsConnection(f, n, c, p), NEW root, NEW x,
         NEW t \in Cells6(root, x, p)
  PROVE  HasCount(f, n, t)
<1>1. /\ p + 2 \in 1 .. Len(f) /\ p + 3 \in 1 .. Len(f)
      /\ f[p + 2] = Text(Value(n, 1)) /\ f[p + 3] = Text(Value(n, 2))
  BY Zenon DEF ShowsConnection
<1>2. \/ t[2] = p + 2 /\ t[3] = 1
      \/ t[2] = p + 3 /\ t[3] = 2
  BY DEF Cells6
<1>3. 1 \in 0 .. Counts - 1 /\ 2 \in 0 .. Counts - 1
  BY CountsAssumption DEF CountsAssumption
<1> QED
  BY <1>1, <1>2, <1>3, Zenon DEF HasCount

(* Cells at the same OID are of the same connection and the same column. *)
Tells(t, u, x, y, p, q) == t[1] = u[1] => x = y /\ (p = q => t[2] = u[2])

(* So it is for the cells of connections, *)
LEMMA SixTells ==
  ASSUME NEW root \in OIDs, NEW x \in OIDs, NEW y \in OIDs, NEW p, NEW q,
         NEW t \in Cells6(root, x, p), NEW u \in Cells6(root, y, q)
  PROVE  Tells(t, u, x, y, p, q)
<1>1. PICK v \in Int : /\ t[1] = Row(root, 6, 1, v, x)
                       /\ (v = 4 /\ t[2] = p + 2) \/ (v = 5 /\ t[2] = p + 3)
  <2>1. \/ t[1] = Row(root, 6, 1, 4, x) /\ t[2] = p + 2
        \/ t[1] = Row(root, 6, 1, 5, x) /\ t[2] = p + 3
    BY DEF Cells6
  <2>2. 4 \in Int /\ 5 \in Int
    OBVIOUS
  <2> QED
    BY <2>1, <2>2, Zenon
<1>2. PICK w \in Int : /\ u[1] = Row(root, 6, 1, w, y)
                       /\ (w = 4 /\ u[2] = q + 2) \/ (w = 5 /\ u[2] = q + 3)
  <2>1. \/ u[1] = Row(root, 6, 1, 4, y) /\ u[2] = q + 2
        \/ u[1] = Row(root, 6, 1, 5, y) /\ u[2] = q + 3
    BY DEF Cells6
  <2>2. 4 \in Int /\ 5 \in Int
    OBVIOUS
  <2> QED
    BY <2>1, <2>2, Zenon
<1>3. Row(root, 6, 1, v, x) = Row(root, 6, 1, w, y) => v = w /\ x = y
  BY RowTells
<1>4. ASSUME v = w, p = q PROVE t[2] = u[2]
  BY <1>1, <1>2, <1>4
<1> QED
  BY <1>1, <1>2, <1>3, <1>4, Zenon DEF Tells

(* The handler puts the counts of each connection it reads at the OIDs of  *)
(* its index, and nothing else.                                            *)
LEMMA SixTable ==
  ASSUME NEW root \in OIDs, NEW n \in Nat, Counts * (n + 1) <= WORD, NEW f, NEW rows, NEW at,
         NEW Shown, NEW Full, Reads(f, n, rows, at, Shown, Full), Distinct(rows, Shown, Full),
         NEW base, base = root \o connection_base_oid, NEW cells,
         cells = Below(base, UNION {ConnectionCells(ReadIndex(f, p), p) : p \in Connections(f)})
  PROVE  IsTable(Puts(ReplaceSubtree(base, Filled(cells, f))), n, Triples6(root, rows, at, Shown))
<1>1. /\ f \in Seq(Texts) /\ Connections(f) = {at[i] : i \in Shown}
      /\ \A i \in Shown : ShowsConnection(f, n, rows[i], at[i])
  BY Zenon DEF Reads
<1>2. PICK T : T = Triples6(root, rows, at, Shown)
  BY Zenon
<1>3. \A t : t \in T <=> \E i \in Shown : t \in Cells6(root, RowIndex(rows[i]), at[i])
  BY <1>2, Zenon DEF Triples6
<1>4. \A i \in Shown : ReadIndex(f, at[i]) = RowIndex(rows[i]) /\ RowIndex(rows[i]) \in OIDs
  BY <1>1, ShownIndex, Zenon
<1>5. cells = Places(T)
  <2>1. PICK U : U = UNION {ConnectionCells(ReadIndex(f, p), p) : p \in Connections(f)}
    BY Zenon
  <2>2. \A y : y \in U <=> \E i \in Shown : y \in ConnectionCells(ReadIndex(f, at[i]), at[i])
    BY <1>1, <2>1
  <2>3. \A i \in Shown : Below(base, ConnectionCells(ReadIndex(f, at[i]), at[i]))
                           = Places(Cells6(root, RowIndex(rows[i]), at[i]))
    BY <1>4, CellsSixBelow, Zenon
  <2>4. ASSUME NEW c PROVE c \in cells <=> \E i \in Shown : c \in Below(base, ConnectionCells(ReadIndex(f, at[i]), at[i]))
    <3>1. c \in cells <=> \E y \in U : c = <<base \o y[1], y[2]>>
      BY <2>1, Zenon DEF Below
    <3>2. \A i \in Shown : c \in Below(base, ConnectionCells(ReadIndex(f, at[i]), at[i])) <=>
            \E y \in ConnectionCells(ReadIndex(f, at[i]), at[i]) : c = <<base \o y[1], y[2]>>
      BY Zenon DEF Below
    <3> QED
      BY <2>2, <3>1, <3>2, Zenon
  <2>5. ASSUME NEW c PROVE c \in Places(T) <=> \E i \in Shown : c \in Places(Cells6(root, RowIndex(rows[i]), at[i]))
    <3>1. c \in Places(T) <=> \E t \in T : c = <<t[1], t[2]>>
      BY Zenon DEF Places
    <3>2. \A i \in Shown : c \in Places(Cells6(root, RowIndex(rows[i]), at[i])) <=>
            \E t \in Cells6(root, RowIndex(rows[i]), at[i]) : c = <<t[1], t[2]>>
      BY Zenon DEF Places
    <3> QED
      BY <1>3, <3>1, <3>2, Zenon
  <2>6. \A c : c \in cells <=> c \in Places(T)
    BY <2>3, <2>4, <2>5, Zenon
  <2> QED
    BY <2>6, Zenon
<1>6. \A t \in T : HasCount(f, n, t)
  BY <1>1, <1>3, SixAt, Zenon
<1>7. ASSUME NEW t \in T, NEW u \in T, t[1] = u[1] PROVE t[2] = u[2]
  <2>1. PICK i \in Shown : t \in Cells6(root, RowIndex(rows[i]), at[i])
    BY <1>3, Zenon
  <2>2. PICK k \in Shown : u \in Cells6(root, RowIndex(rows[k]), at[k])
    BY <1>3, Zenon
  <2>3. Tells(t, u, RowIndex(rows[i]), RowIndex(rows[k]), at[i], at[k])
    BY <1>4, <2>1, <2>2, SixTells, Zenon
  <2>4. i = k
    BY <1>7, <2>3, Zenon DEF Distinct, Tells
  <2> QED
    BY <1>7, <2>3, <2>4, Zenon DEF Tells
<1>8. Len(f) \in Nat /\ OneEach(T)
  BY <1>1, <1>7 DEF OneEach
<1>9. IsTable(Puts(ReplaceSubtree(base, Filled(Places(T), f))), n, T)
  BY <1>6, <1>8, TableAnswers, Zenon
<1> QED
  BY <1>2, <1>5, <1>9, Zenon

(* Buckets e[2] of the connection with index e[1], at part e[3]. *)
IsEntry(f, n, e) ==
  /\ e[1] \in OIDs /\ e[2] \in Int
  /\ e[3] + 1 \in 1 .. Len(f) /\ e[3] + 2 \in 1 .. Len(f) /\ e[3] + 3 \in 1 .. Len(f)
  /\ f[e[3] + 1] = Text(Value(n, 3)) /\ f[e[3] + 2] = Text(Value(n, 4))
  /\ f[e[3] + 3] = Text(Value(n, 5))
Single(E) == \A d, e \in E : d[1] = e[1] /\ d[2] = e[2] => d[3] = e[3]
BucketKey(e) == e[1] \o <<e[2]>>
BucketsOf(E) == {<<BucketKey(e), e[3]>> : e \in E}

(* The pairs of an index and a part that the handler makes of buckets. *)
LEMMA BucketPairs ==
  ASSUME NEW E
  PROVE  /\ \A b \in BucketsOf(E) : \E e \in E : b[1] = BucketKey(e) /\ b[2] = e[3]
         /\ \A e \in E : \E b \in BucketsOf(E) : b[1] = BucketKey(e) /\ b[2] = e[3]
<1>1. ASSUME NEW e \in E, NEW b, b = <<BucketKey(e), e[3]>>
      PROVE  b[1] = BucketKey(e) /\ b[2] = e[3]
  <2>1. PICK k, j : k = BucketKey(e) /\ j = e[3]
    BY Zenon
  <2>2. b = <<k, j>>
    BY <1>1, <2>1, Zenon
  <2>3. b[1] = k /\ b[2] = j
    BY <2>2
  <2> QED
    BY <2>1, <2>3, Zenon
<1> QED
  BY <1>1, Zenon DEF BucketsOf

(* The cells of the buckets, with the part and the count of each. *)
Triples7(root, E) == UNION {Cells7(root, e[1], e[2], e[3]) : e \in E}
Triples8(root, E) == UNION {Cells8(root, e[1], e[2], e[3]) : e \in E}

(* Where a cell of a bucket is, and the part it is filled from. *)
IsSeven(root, x, id, p, t) ==
  \/ t[1] = Row(root, 7, 1, 5, x) \o <<id>> /\ t[2] = p + 1
  \/ t[1] = Row(root, 7, 1, 6, x) \o <<id>> /\ t[2] = p + 2
IsEight(root, x, id, p, t) == t[1] = Row(root, 8, 1, 6, x) \o <<id, 1>> /\ t[2] = p + 3

(* Each cell of a bucket is at one of these. *)
LEMMA SevenCells ==
  ASSUME NEW root, NEW x, NEW id, NEW p, NEW t \in Cells7(root, x, id, p)
  PROVE  IsSeven(root, x, id, p, t)
<1>1. PICK a, b : a = Row(root, 7, 1, 5, x) \o <<id>> /\ b = Row(root, 7, 1, 6, x) \o <<id>>
  BY Zenon
<1>2. t = <<a, p + 1, 3>> \/ t = <<b, p + 2, 4>>
  BY <1>1, Zenon DEF Cells7
<1>3. (t[1] = a /\ t[2] = p + 1) \/ (t[1] = b /\ t[2] = p + 2)
  BY <1>2
<1> QED
  BY <1>1, <1>3, Zenon DEF IsSeven

(* So is its bandwidth. *)
LEMMA EightCells ==
  ASSUME NEW root, NEW x, NEW id, NEW p, NEW t \in Cells8(root, x, id, p)
  PROVE  IsEight(root, x, id, p, t)
<1>1. PICK a : a = Row(root, 8, 1, 6, x) \o <<id, 1>>
  BY Zenon
<1>2. t = <<a, p + 3, 5>>
  BY <1>1, Zenon DEF Cells8
<1>3. t[1] = a /\ t[2] = p + 3
  BY <1>2
<1> QED
  BY <1>1, <1>3, Zenon DEF IsEight

(* The counts of a bucket are where its cells are filled from. *)
LEMMA SevenAt ==
  ASSUME NEW f, NEW n, NEW e, IsEntry(f, n, e), NEW root
  PROVE  /\ \A t \in Cells7(root, e[1], e[2], e[3]) : HasCount(f, n, t)
         /\ \A t \in Cells8(root, e[1], e[2], e[3]) : HasCount(f, n, t)
<1>1. PICK x, id, j : x = e[1] /\ id = e[2] /\ j = e[3]
  BY Zenon
<1>2. /\ j + 1 \in 1 .. Len(f) /\ j + 2 \in 1 .. Len(f) /\ j + 3 \in 1 .. Len(f)
      /\ f[j + 1] = Text(Value(n, 3)) /\ f[j + 2] = Text(Value(n, 4))
      /\ f[j + 3] = Text(Value(n, 5))
  BY <1>1, Zenon DEF IsEntry
<1>3. 3 \in 0 .. Counts - 1 /\ 4 \in 0 .. Counts - 1 /\ 5 \in 0 .. Counts - 1
  BY CountsAssumption DEF CountsAssumption
<1>4. ASSUME NEW t \in Cells7(root, x, id, j) PROVE HasCount(f, n, t)
  <2>1. (t[2] = j + 1 /\ t[3] = 3) \/ (t[2] = j + 2 /\ t[3] = 4)
    BY <1>4 DEF Cells7
  <2> QED
    BY <1>2, <1>3, <2>1, Zenon DEF HasCount
<1>5. ASSUME NEW t \in Cells8(root, x, id, j) PROVE HasCount(f, n, t)
  <2>1. t[2] = j + 3 /\ t[3] = 5
    BY <1>5 DEF Cells8
  <2> QED
    BY <1>2, <1>3, <2>1, Zenon DEF HasCount
<1> QED
  BY <1>1, <1>4, <1>5, Zenon

(* Cells at the same OID are of the same bucket and the same column. *)
TellsBucket(t, u, d, e) ==
  t[1] = u[1] => d[1] = e[1] /\ d[2] = e[2] /\ (d[3] = e[3] => t[2] = u[2])

(* So it is for the counts of buckets, *)
LEMMA SevenTells ==
  ASSUME NEW root \in OIDs, NEW d, NEW e, d[1] \in OIDs, e[1] \in OIDs, d[2] \in Int, e[2] \in Int,
         NEW t \in Cells7(root, d[1], d[2], d[3]), NEW u \in Cells7(root, e[1], e[2], e[3])
  PROVE  TellsBucket(t, u, d, e)
<1>1. PICK x, y, k, m, p, q : /\ x = d[1] /\ k = d[2] /\ p = d[3]
                              /\ y = e[1] /\ m = e[2] /\ q = e[3]
  BY Zenon
<1>2. x \in OIDs /\ y \in OIDs /\ k \in Int /\ m \in Int
      /\ t \in Cells7(root, x, k, p) /\ u \in Cells7(root, y, m, q)
  BY <1>1, Zenon
<1>20. IsSeven(root, x, k, p, t) /\ IsSeven(root, y, m, q, u)
  BY <1>2, SevenCells, Zenon
<1>3. PICK v \in Int : /\ t[1] = Row(root, 7, 1, v, x) \o <<k>>
                       /\ (v = 5 /\ t[2] = p + 1) \/ (v = 6 /\ t[2] = p + 2)
  <2>1. \/ t[1] = Row(root, 7, 1, 5, x) \o <<k>> /\ t[2] = p + 1
        \/ t[1] = Row(root, 7, 1, 6, x) \o <<k>> /\ t[2] = p + 2
    BY <1>20, Zenon DEF IsSeven
  <2>2. 5 \in Int /\ 6 \in Int
    OBVIOUS
  <2> QED
    BY <2>1, <2>2, Zenon
<1>4. PICK w \in Int : /\ u[1] = Row(root, 7, 1, w, y) \o <<m>>
                       /\ (w = 5 /\ u[2] = q + 1) \/ (w = 6 /\ u[2] = q + 2)
  <2>1. \/ u[1] = Row(root, 7, 1, 5, y) \o <<m>> /\ u[2] = q + 1
        \/ u[1] = Row(root, 7, 1, 6, y) \o <<m>> /\ u[2] = q + 2
    BY <1>20, Zenon DEF IsSeven
  <2>2. 5 \in Int /\ 6 \in Int
    OBVIOUS
  <2> QED
    BY <2>1, <2>2, Zenon
<1>5. PICK a, b, c, g : /\ a = Row(root, 7, 1, v, x) /\ b = <<k>>
                        /\ c = Row(root, 7, 1, w, y) /\ g = <<m>>
  BY Zenon
<1>6. a \in OIDs /\ c \in OIDs
  BY <1>2, <1>5, RowJoins
<1>7. b \in OIDs /\ g \in OIDs /\ Len(b) = Len(g) /\ b[1] = k /\ g[1] = m
  BY <1>2, <1>5, ShortOIDs
<1>8. a \o b = c \o g => a = c /\ b = g
  BY <1>6, <1>7, EndTells, Zenon
<1>9. a = c => v = w /\ x = y
  BY <1>2, <1>5, RowTells
<1>10. ASSUME v = w, p = q PROVE t[2] = u[2]
  BY <1>3, <1>4, <1>10
<1>11. b = g => k = m
  BY <1>7, Zenon
<1>12. t[1] = u[1] => a \o b = c \o g
  BY <1>3, <1>4, <1>5, Zenon
<1> QED
  BY <1>1, <1>8, <1>9, <1>10, <1>11, <1>12, Zenon DEF TellsBucket

(* and for their bandwidths. *)
LEMMA EightTells ==
  ASSUME NEW root \in OIDs, NEW d, NEW e, d[1] \in OIDs, e[1] \in OIDs, d[2] \in Int, e[2] \in Int,
         NEW t \in Cells8(root, d[1], d[2], d[3]), NEW u \in Cells8(root, e[1], e[2], e[3])
  PROVE  TellsBucket(t, u, d, e)
<1>1. PICK x, y, k, m, p, q : /\ x = d[1] /\ k = d[2] /\ p = d[3]
                              /\ y = e[1] /\ m = e[2] /\ q = e[3]
  BY Zenon
<1>2. x \in OIDs /\ y \in OIDs /\ k \in Int /\ m \in Int
      /\ t \in Cells8(root, x, k, p) /\ u \in Cells8(root, y, m, q)
  BY <1>1, Zenon
<1>20. IsEight(root, x, k, p, t) /\ IsEight(root, y, m, q, u)
  BY <1>2, EightCells, Zenon
<1>3. t[1] = Row(root, 8, 1, 6, x) \o <<k, 1>> /\ t[2] = p + 3
  BY <1>20, Zenon DEF IsEight
<1>4. u[1] = Row(root, 8, 1, 6, y) \o <<m, 1>> /\ u[2] = q + 3
  BY <1>20, Zenon DEF IsEight
<1>5. PICK a, b, c, g : /\ a = Row(root, 8, 1, 6, x) /\ b = <<k, 1>>
                        /\ c = Row(root, 8, 1, 6, y) /\ g = <<m, 1>>
  BY Zenon
<1>6. a \in OIDs /\ c \in OIDs
  BY <1>2, <1>5, RowJoins
<1>7. b \in OIDs /\ g \in OIDs /\ Len(b) = Len(g) /\ b[1] = k /\ g[1] = m
  BY <1>2, <1>5 DEF OIDs
<1>8. a \o b = c \o g => a = c /\ b = g
  BY <1>6, <1>7, EndTells, Zenon
<1>9. a = c => x = y
  BY <1>2, <1>5, RowTells
<1>10. p = q => t[2] = u[2]
  BY <1>3, <1>4, Zenon
<1>11. b = g => k = m
  BY <1>7, Zenon
<1>12. t[1] = u[1] => a \o b = c \o g
  BY <1>3, <1>4, <1>5, Zenon
<1> QED
  BY <1>1, <1>8, <1>9, <1>10, <1>11, <1>12, Zenon DEF TellsBucket

(* The handler puts the counts of each bucket at the OIDs of its index, *)
LEMMA SevenTable ==
  ASSUME NEW root \in OIDs, NEW n \in Nat, Counts * (n + 1) <= WORD, NEW f \in Seq(Texts),
         NEW E, \A e \in E : IsEntry(f, n, e), Single(E),
         NEW base, base = root \o bucket_base_oid, NEW cells,
         cells = Below(base, UNION {BucketCells(b[1], b[2]) : b \in BucketsOf(E)})
  PROVE  IsTable(Puts(ReplaceSubtree(base, Filled(cells, f))), n, Triples7(root, E))
<1>1. PICK T : T = Triples7(root, E)
  BY Zenon
<1>2. \A t : t \in T <=> \E e \in E : t \in Cells7(root, e[1], e[2], e[3])
  BY <1>1, Zenon DEF Triples7
<1>3. \A e \in E : e[1] \in OIDs /\ e[2] \in Int
  BY Zenon DEF IsEntry
<1>4. cells = Places(T)
  <2>1. PICK U : U = UNION {BucketCells(b[1], b[2]) : b \in BucketsOf(E)}
    BY Zenon
  <2>2. \A y : y \in U <=> \E e \in E : y \in BucketCells(e[1] \o <<e[2]>>, e[3])
    <3>1. \A y : y \in U <=> \E b \in BucketsOf(E) : y \in BucketCells(b[1], b[2])
      BY <2>1, Zenon
    <3>2. /\ \A b \in BucketsOf(E) : \E e \in E : b[1] = BucketKey(e) /\ b[2] = e[3]
          /\ \A e \in E : \E b \in BucketsOf(E) : b[1] = BucketKey(e) /\ b[2] = e[3]
      BY BucketPairs
    <3>3. \A y : y \in U <=> \E e \in E : y \in BucketCells(BucketKey(e), e[3])
      BY <3>1, <3>2, Zenon
    <3> QED
      BY <3>3, Zenon DEF BucketKey
  <2>3. \A e \in E : Below(base, BucketCells(e[1] \o <<e[2]>>, e[3]))
                       = Places(Cells7(root, e[1], e[2], e[3]))
    BY <1>3, CellsSevenBelow, Zenon
  <2>4. ASSUME NEW c
        PROVE  c \in cells <=> \E e \in E : c \in Below(base, BucketCells(e[1] \o <<e[2]>>, e[3]))
    <3>1. c \in cells <=> \E y \in U : c = <<base \o y[1], y[2]>>
      BY <2>1, Zenon DEF Below
    <3>2. \A e \in E : c \in Below(base, BucketCells(e[1] \o <<e[2]>>, e[3])) <=>
            \E y \in BucketCells(e[1] \o <<e[2]>>, e[3]) : c = <<base \o y[1], y[2]>>
      BY Zenon DEF Below
    <3> QED
      BY <2>2, <3>1, <3>2, Zenon
  <2>5. ASSUME NEW c
        PROVE  c \in Places(T) <=> \E e \in E : c \in Places(Cells7(root, e[1], e[2], e[3]))
    <3>1. c \in Places(T) <=> \E t \in T : c = <<t[1], t[2]>>
      BY Zenon DEF Places
    <3>2. \A e \in E : c \in Places(Cells7(root, e[1], e[2], e[3])) <=>
            \E t \in Cells7(root, e[1], e[2], e[3]) : c = <<t[1], t[2]>>
      BY Zenon DEF Places
    <3> QED
      BY <1>2, <3>1, <3>2, Zenon
  <2>6. \A c : c \in cells <=> c \in Places(T)
    BY <2>3, <2>4, <2>5, Zenon
  <2> QED
    BY <2>6, Zenon
<1>5. \A t \in T : HasCount(f, n, t)
  BY <1>2, SevenAt, Zenon
<1>6. ASSUME NEW t \in T, NEW u \in T, t[1] = u[1] PROVE t[2] = u[2]
  <2>1. PICK d \in E : t \in Cells7(root, d[1], d[2], d[3])
    BY <1>2, Zenon
  <2>2. PICK e \in E : u \in Cells7(root, e[1], e[2], e[3])
    BY <1>2, Zenon
  <2>3. TellsBucket(t, u, d, e)
    BY <1>3, <2>1, <2>2, SevenTells, Zenon
  <2> QED
    BY <1>6, <2>3, Zenon DEF Single, TellsBucket
<1>7. Len(f) \in Nat /\ OneEach(T)
  BY <1>6 DEF OneEach
<1>8. IsTable(Puts(ReplaceSubtree(base, Filled(Places(T), f))), n, T)
  BY <1>5, <1>7, TableAnswers, Zenon
<1> QED
  BY <1>1, <1>4, <1>8, Zenon

(* and its bandwidth. *)
LEMMA EightTable ==
  ASSUME NEW root \in OIDs, NEW n \in Nat, Counts * (n + 1) <= WORD, NEW f \in Seq(Texts),
         NEW E, \A e \in E : IsEntry(f, n, e), Single(E),
         NEW base, base = root \o bucket_bandwidth_base_oid, NEW cells,
         cells = Below(base, UNION {BandwidthCells(b[1], b[2]) : b \in BucketsOf(E)})
  PROVE  IsTable(Puts(ReplaceSubtree(base, Filled(cells, f))), n, Triples8(root, E))
<1>1. PICK T : T = Triples8(root, E)
  BY Zenon
<1>2. \A t : t \in T <=> \E e \in E : t \in Cells8(root, e[1], e[2], e[3])
  BY <1>1, Zenon DEF Triples8
<1>3. \A e \in E : e[1] \in OIDs /\ e[2] \in Int
  BY Zenon DEF IsEntry
<1>4. cells = Places(T)
  <2>1. PICK U : U = UNION {BandwidthCells(b[1], b[2]) : b \in BucketsOf(E)}
    BY Zenon
  <2>2. \A y : y \in U <=> \E e \in E : y \in BandwidthCells(e[1] \o <<e[2]>>, e[3])
    <3>1. \A y : y \in U <=> \E b \in BucketsOf(E) : y \in BandwidthCells(b[1], b[2])
      BY <2>1, Zenon
    <3>2. /\ \A b \in BucketsOf(E) : \E e \in E : b[1] = BucketKey(e) /\ b[2] = e[3]
          /\ \A e \in E : \E b \in BucketsOf(E) : b[1] = BucketKey(e) /\ b[2] = e[3]
      BY BucketPairs
    <3>3. \A y : y \in U <=> \E e \in E : y \in BandwidthCells(BucketKey(e), e[3])
      BY <3>1, <3>2, Zenon
    <3> QED
      BY <3>3, Zenon DEF BucketKey
  <2>3. \A e \in E : Below(base, BandwidthCells(e[1] \o <<e[2]>>, e[3]))
                       = Places(Cells8(root, e[1], e[2], e[3]))
    BY <1>3, CellsEightBelow, Zenon
  <2>4. ASSUME NEW c
        PROVE  c \in cells <=> \E e \in E : c \in Below(base, BandwidthCells(e[1] \o <<e[2]>>, e[3]))
    <3>1. c \in cells <=> \E y \in U : c = <<base \o y[1], y[2]>>
      BY <2>1, Zenon DEF Below
    <3>2. \A e \in E : c \in Below(base, BandwidthCells(e[1] \o <<e[2]>>, e[3])) <=>
            \E y \in BandwidthCells(e[1] \o <<e[2]>>, e[3]) : c = <<base \o y[1], y[2]>>
      BY Zenon DEF Below
    <3> QED
      BY <2>2, <3>1, <3>2, Zenon
  <2>5. ASSUME NEW c
        PROVE  c \in Places(T) <=> \E e \in E : c \in Places(Cells8(root, e[1], e[2], e[3]))
    <3>1. c \in Places(T) <=> \E t \in T : c = <<t[1], t[2]>>
      BY Zenon DEF Places
    <3>2. \A e \in E : c \in Places(Cells8(root, e[1], e[2], e[3])) <=>
            \E t \in Cells8(root, e[1], e[2], e[3]) : c = <<t[1], t[2]>>
      BY Zenon DEF Places
    <3> QED
      BY <1>2, <3>1, <3>2, Zenon
  <2>6. \A c : c \in cells <=> c \in Places(T)
    BY <2>3, <2>4, <2>5, Zenon
  <2> QED
    BY <2>6, Zenon
<1>5. \A t \in T : HasCount(f, n, t)
  BY <1>2, SevenAt, Zenon
<1>6. ASSUME NEW t \in T, NEW u \in T, t[1] = u[1] PROVE t[2] = u[2]
  <2>1. PICK d \in E : t \in Cells8(root, d[1], d[2], d[3])
    BY <1>2, Zenon
  <2>2. PICK e \in E : u \in Cells8(root, e[1], e[2], e[3])
    BY <1>2, Zenon
  <2>3. TellsBucket(t, u, d, e)
    BY <1>3, <2>1, <2>2, EightTells, Zenon
  <2> QED
    BY <1>6, <2>3, Zenon DEF Single, TellsBucket
<1>7. Len(f) \in Nat /\ OneEach(T)
  BY <1>6 DEF OneEach
<1>8. IsTable(Puts(ReplaceSubtree(base, Filled(Places(T), f))), n, T)
  BY <1>5, <1>7, TableAnswers, Zenon
<1> QED
  BY <1>1, <1>4, <1>8, Zenon

(* The buckets of whole connections. *)
EntryOf(rows, at, i, b) ==
  <<RowIndex(rows[i]), rows[i].buckets[b], at[i] + 5 + 4 * (b - 1)>>
Entries(rows, at, Full) ==
  UNION {{EntryOf(rows, at, i, b) : b \in 1 .. Len(rows[i].buckets)} : i \in Full}

(* Bucket b of connection i, by its components. *)
IsEntryOf(e, rows, at, i, b) ==
  /\ e = EntryOf(rows, at, i, b)
  /\ e[1] = RowIndex(rows[i]) /\ e[2] = rows[i].buckets[b]
  /\ e[3] = at[i] + 5 + 4 * (b - 1)

(* EntryOf has these components. *)
LEMMA EntryParts ==
  ASSUME NEW rows, NEW at, NEW i, NEW b
  PROVE  IsEntryOf(EntryOf(rows, at, i, b), rows, at, i, b)
<1>0. PICK e : e = EntryOf(rows, at, i, b)
  BY Zenon
<1>1. PICK x, y, z : /\ x = RowIndex(rows[i]) /\ y = rows[i].buckets[b]
                     /\ z = at[i] + 5 + 4 * (b - 1)
  BY Zenon
<1>2. e = <<x, y, z>>
  BY <1>0, <1>1, Zenon DEF EntryOf
<1>3. e[1] = x /\ e[2] = y /\ e[3] = z
  BY <1>2
<1> QED
  BY <1>0, <1>1, <1>3, Zenon DEF IsEntryOf

(* The buckets of whole connections are these. *)
LEMMA EntryMember ==
  ASSUME NEW rows, NEW at, NEW Full, NEW e
  PROVE  e \in Entries(rows, at, Full) <=>
           \E i \in Full : \E b \in 1 .. Len(rows[i].buckets) : IsEntryOf(e, rows, at, i, b)
<1>1. e \in Entries(rows, at, Full) <=>
        \E i \in Full : e \in {EntryOf(rows, at, i, b) : b \in 1 .. Len(rows[i].buckets)}
  BY DEF Entries
<1>2. ASSUME NEW i, NEW b
      PROVE  e = EntryOf(rows, at, i, b) <=> IsEntryOf(e, rows, at, i, b)
  <2>1. IsEntryOf(EntryOf(rows, at, i, b), rows, at, i, b)
    BY EntryParts, Zenon
  <2>2. IsEntryOf(e, rows, at, i, b) => e = EntryOf(rows, at, i, b)
    BY Zenon DEF IsEntryOf
  <2> QED
    BY <2>1, <2>2, Zenon
<1>3. ASSUME NEW i
      PROVE  e \in {EntryOf(rows, at, i, b) : b \in 1 .. Len(rows[i].buckets)} <=>
               \E b \in 1 .. Len(rows[i].buckets) : IsEntryOf(e, rows, at, i, b)
  BY <1>2, Zenon
<1> QED
  BY <1>1, <1>3, Zenon

(* The places of buckets. *)
BucketsAt(f, rows, at, i) ==
  \A j : j \in Range(Buckets(f, at[i])) <=>
    \E b \in 1 .. Len(rows[i].buckets) : j = at[i] + 5 + 4 * (b - 1)

(* The handler finds each bucket of a whole connection at its place, *)
LEMMA EntryPlaces ==
  ASSUME NEW f, NEW n, NEW rows, NEW at, NEW Shown, NEW Full, Reads(f, n, rows, at, Shown, Full),
         NEW i \in Full
  PROVE  /\ RowIndex(rows[i]) \in OIDs /\ ReadIndex(f, at[i]) = RowIndex(rows[i])
         /\ \A b \in 1 .. Len(rows[i].buckets) :
              /\ rows[i].buckets[b] \in Int /\ at[i] + 5 + 4 * (b - 1) \in Nat
              /\ atoi(f[at[i] + 5 + 4 * (b - 1)]) = rows[i].buckets[b]
              /\ IsEntry(f, n, EntryOf(rows, at, i, b))
         /\ BucketsAt(f, rows, at, i)
<1>1. ShowsConnection(f, n, rows[i], at[i]) /\ ShowsBuckets(f, n, rows[i], at[i])
  BY Zenon DEF Reads
<1>2. RowIndex(rows[i]) \in OIDs /\ ReadIndex(f, at[i]) = RowIndex(rows[i])
  BY <1>1, ShownIndex, Zenon
<1>3. rows[i] \in Rows /\ at[i] \in Nat
  BY <1>1, Zenon DEF ShowsConnection
<1>4. ASSUME NEW b \in 1 .. Len(rows[i].buckets)
      PROVE  /\ rows[i].buckets[b] \in Int /\ at[i] + 5 + 4 * (b - 1) \in Nat
             /\ atoi(f[at[i] + 5 + 4 * (b - 1)]) = rows[i].buckets[b]
             /\ IsEntry(f, n, EntryOf(rows, at, i, b))
  <2>1. rows[i].buckets[b] \in Int
    <3>1. rows[i].buckets[b] \in Small
      BY <1>3 DEF Rows
    <3> QED
      BY <3>1, SmallComeBack, Zenon
  <2>2. PICK j : j = at[i] + 5 + 4 * (b - 1)
    BY Zenon
  <2>3. j \in Nat
    <3>1. b \in Nat /\ b >= 1 /\ at[i] \in Nat
      BY <1>3
    <3> QED
      BY <2>2, <3>1
  <2>4. /\ j \in 1 .. Len(f) /\ j + 1 \in 1 .. Len(f) /\ j + 2 \in 1 .. Len(f)
        /\ j + 3 \in 1 .. Len(f)
        /\ atoi(f[j]) = rows[i].buckets[b] /\ f[j + 1] = Text(Value(n, 3))
        /\ f[j + 2] = Text(Value(n, 4)) /\ f[j + 3] = Text(Value(n, 5))
    BY <1>1, <2>2, <2>3, Zenon DEF ShowsBuckets
  <2>5. PICK e : e = EntryOf(rows, at, i, b)
    BY Zenon
  <2>8. IsEntryOf(e, rows, at, i, b)
    BY <2>5, EntryParts, Zenon
  <2>6. e[1] = RowIndex(rows[i]) /\ e[2] = rows[i].buckets[b] /\ e[3] = j
    BY <2>2, <2>8, Zenon DEF IsEntryOf
  <2>7. IsEntry(f, n, e)
    BY <1>2, <2>1, <2>4, <2>6, Zenon DEF IsEntry
  <2> QED
    BY <2>1, <2>2, <2>3, <2>4, <2>5, <2>7, Zenon
<1>5. ASSUME NEW j
      PROVE  j \in Range(Buckets(f, at[i])) <=>
               \E b \in 1 .. Len(rows[i].buckets) : j = at[i] + 5 + 4 * (b - 1)
  <2>1. PICK p, B, q : p = at[i] /\ B = Len(rows[i].buckets) /\ q = p + 5
    BY Zenon
  <2>2. Buckets(f, at[i]) = [b \in 1 .. B |-> q + 4 * (b - 1)]
    BY <1>1, <2>1, Zenon DEF ShowsBuckets, BucketStarts
  <2>3. j \in Range(Buckets(f, at[i])) <=> \E b \in 1 .. B : j = q + 4 * (b - 1)
    BY <2>2, Zenon DEF Range
  <2> QED
    BY <2>1, <2>3, Zenon
<1>6. BucketsAt(f, rows, at, i)
  BY <1>5, Zenon DEF BucketsAt
<1> QED
  BY <1>2, <1>4, <1>6, Zenon

(* and a bucket has only one place. *)
LEMMA EntriesSingle ==
  ASSUME NEW f, NEW n, NEW rows, NEW at, NEW Shown, NEW Full, Reads(f, n, rows, at, Shown, Full),
         Distinct(rows, Shown, Full)
  PROVE  /\ \A e \in Entries(rows, at, Full) : IsEntry(f, n, e)
         /\ Single(Entries(rows, at, Full))
<1>1. ASSUME NEW e \in Entries(rows, at, Full) PROVE IsEntry(f, n, e)
  <2>1. PICK i \in Full : \E b \in 1 .. Len(rows[i].buckets) : IsEntryOf(e, rows, at, i, b)
    BY EntryMember, Zenon
  <2>2. PICK b \in 1 .. Len(rows[i].buckets) : IsEntryOf(e, rows, at, i, b)
    BY <2>1, Zenon
  <2>3. IsEntry(f, n, EntryOf(rows, at, i, b))
    BY EntryPlaces
  <2> QED
    BY <2>2, <2>3, Zenon DEF IsEntryOf
<1>2. ASSUME NEW d \in Entries(rows, at, Full), NEW e \in Entries(rows, at, Full),
             d[1] = e[1], d[2] = e[2]
      PROVE  d[3] = e[3]
  <2>1. PICK i \in Full : \E b \in 1 .. Len(rows[i].buckets) : IsEntryOf(d, rows, at, i, b)
    BY EntryMember, Zenon
  <2>2. PICK b \in 1 .. Len(rows[i].buckets) : IsEntryOf(d, rows, at, i, b)
    BY <2>1, Zenon
  <2>3. PICK k \in Full : \E c \in 1 .. Len(rows[k].buckets) : IsEntryOf(e, rows, at, k, c)
    BY EntryMember, Zenon
  <2>4. PICK c \in 1 .. Len(rows[k].buckets) : IsEntryOf(e, rows, at, k, c)
    BY <2>3, Zenon
  <2>5. /\ d[1] = RowIndex(rows[i]) /\ d[2] = rows[i].buckets[b] /\ d[3] = at[i] + 5 + 4 * (b - 1)
    BY <2>2, Zenon DEF IsEntryOf
  <2>6. /\ e[1] = RowIndex(rows[k]) /\ e[2] = rows[k].buckets[c] /\ e[3] = at[k] + 5 + 4 * (c - 1)
    BY <2>4, Zenon DEF IsEntryOf
  <2>7. i \in Shown /\ k \in Shown
    BY Zenon DEF Reads
  <2>10. RowIndex(rows[i]) = RowIndex(rows[k])
    BY <1>2, <2>5, <2>6, Zenon
  <2>8. i = k
    BY <2>7, <2>10, Zenon DEF Distinct
  <2>9. b = c
    BY <1>2, <2>5, <2>6, <2>8, Zenon DEF Distinct
  <2> QED
    BY <2>5, <2>6, <2>8, <2>9, Zenon
<1> QED
  BY <1>1, <1>2, Zenon DEF Single

(* The buckets the handler collects, *)
ReadBuckets(f) ==
  UNION {{<<ReadIndex(f, i) \o <<atoi(f[j])>>, j>> : j \in Range(Buckets(f, i))} :
           i \in {j \in Connections(f) : Intact(f, j)}}

(* those of one connection, as it reads them and as the node sent them. *)
BucketIn(f, at, i, y) ==
  \E j \in Range(Buckets(f, at[i])) : y = <<ReadIndex(f, at[i]) \o <<atoi(f[j])>>, j>>
EntryIn(rows, at, i, y) ==
  \E b \in 1 .. Len(rows[i].buckets) :
    y = <<RowIndex(rows[i]) \o <<rows[i].buckets[b]>>, at[i] + 5 + 4 * (b - 1)>>

(* They are the buckets of the whole connections. *)
LEMMA EntriesRead ==
  ASSUME NEW f, NEW n, NEW rows, NEW at, NEW Shown, NEW Full, Reads(f, n, rows, at, Shown, Full)
  PROVE  ReadBuckets(f) = BucketsOf(Entries(rows, at, Full))
<1>1. \A p : p \in Connections(f) /\ Intact(f, p) <=> \E i \in Full : p = at[i]
  BY Zenon DEF Reads
<1>2. ASSUME NEW y
      PROVE  y \in ReadBuckets(f) <=>
               \E i \in Full : BucketIn(f, at, i, y)
  <2>1. y \in ReadBuckets(f) <=>
          \E p \in {j \in Connections(f) : Intact(f, j)} :
            y \in {<<ReadIndex(f, p) \o <<atoi(f[j])>>, j>> : j \in Range(Buckets(f, p))}
    BY Zenon DEF ReadBuckets
  <2>2. \A p : y \in {<<ReadIndex(f, p) \o <<atoi(f[j])>>, j>> : j \in Range(Buckets(f, p))} <=>
          \E j \in Range(Buckets(f, p)) : y = <<ReadIndex(f, p) \o <<atoi(f[j])>>, j>>
    BY Zenon
  <2> QED
    BY <1>1, <2>1, <2>2, Zenon DEF BucketIn
<1>3. ASSUME NEW y
      PROVE  y \in BucketsOf(Entries(rows, at, Full)) <=>
               \E i \in Full : EntryIn(rows, at, i, y)
  <2>1. y \in BucketsOf(Entries(rows, at, Full)) <=>
          \E e \in Entries(rows, at, Full) : y = <<BucketKey(e), e[3]>>
    BY Zenon DEF BucketsOf
  <2>2. ASSUME NEW i, NEW b, NEW e, IsEntryOf(e, rows, at, i, b)
        PROVE  <<BucketKey(e), e[3]>> =
                 <<RowIndex(rows[i]) \o <<rows[i].buckets[b]>>, at[i] + 5 + 4 * (b - 1)>>
    BY <2>2, Zenon DEF BucketKey, IsEntryOf
  <2>3. ASSUME NEW i \in Full, NEW b \in 1 .. Len(rows[i].buckets),
               y = <<RowIndex(rows[i]) \o <<rows[i].buckets[b]>>, at[i] + 5 + 4 * (b - 1)>>
        PROVE  \E e \in Entries(rows, at, Full) : y = <<BucketKey(e), e[3]>>
    <3>1. PICK e : e = EntryOf(rows, at, i, b)
      BY Zenon
    <3>2. IsEntryOf(e, rows, at, i, b)
      BY <3>1, EntryParts, Zenon
    <3>3. e \in Entries(rows, at, Full)
      BY <3>2, EntryMember, Zenon
    <3> QED
      BY <2>2, <2>3, <3>2, <3>3, Zenon
  <2>4. ASSUME NEW e \in Entries(rows, at, Full), y = <<BucketKey(e), e[3]>>
        PROVE  \E i \in Full : \E b \in 1 .. Len(rows[i].buckets) :
                 y = <<RowIndex(rows[i]) \o <<rows[i].buckets[b]>>, at[i] + 5 + 4 * (b - 1)>>
    <3>1. PICK i \in Full : \E b \in 1 .. Len(rows[i].buckets) : IsEntryOf(e, rows, at, i, b)
      BY EntryMember, Zenon
    <3>2. PICK b \in 1 .. Len(rows[i].buckets) : IsEntryOf(e, rows, at, i, b)
      BY <3>1, Zenon
    <3> QED
      BY <2>2, <2>4, <3>2, Zenon
  <2> QED
    BY <2>1, <2>3, <2>4, Zenon DEF EntryIn
<1>4. ASSUME NEW i \in Full, NEW y
      PROVE  BucketIn(f, at, i, y) <=> EntryIn(rows, at, i, y)
  <2>1. ReadIndex(f, at[i]) = RowIndex(rows[i])
    BY EntryPlaces
  <2>2. \A b \in 1 .. Len(rows[i].buckets) : atoi(f[at[i] + 5 + 4 * (b - 1)]) = rows[i].buckets[b]
    BY EntryPlaces
  <2>3. BucketsAt(f, rows, at, i)
    BY EntryPlaces
  <2> QED
    BY <2>1, <2>2, <2>3, Zenon DEF BucketsAt, BucketIn, EntryIn
<1>5. \A y : y \in ReadBuckets(f) <=> y \in BucketsOf(Entries(rows, at, Full))
  BY <1>2, <1>3, <1>4, Zenon
<1> QED
  BY <1>5, Zenon

(* The connections of a shape, *)
LEMMA ShapeRows ==
  ASSUME NEW shape, IsShape("AstaireConnection", shape), NEW rows, rows = shape.rows
  PROVE  /\ rows \in Seq(Rows)
         /\ \A i, k \in DOMAIN rows :
              isValid(rows[i].addr.addr) /\ rows[i].addr.addr = rows[k].addr.addr
              /\ rows[i].port = rows[k].port => i = k
         /\ \A r \in Range(rows) : \A b, d \in DOMAIN r.buckets : r.buckets[b] = r.buckets[d] => b = d
BY Zenon DEF IsShape, Rows, Small

(* which their indexes tell apart. *)
LEMMA ShapeDistinct ==
  ASSUME NEW n, NEW shape, IsShape("AstaireConnection", shape)
  PROVE  Distinct(shape.rows, ShownRows(n, shape), {i \in ShownRows(n, shape) : WholeRow(n, shape, i)})
<1>1. PICK rows : rows = shape.rows
  BY Zenon
<1>2. rows \in Seq(Rows)
  BY <1>1, ShapeRows, Zenon
<1>3. \A i \in ShownRows(n, shape) : i \in DOMAIN rows /\ isValid(rows[i].addr.addr)
  BY <1>1, Zenon DEF ShownRows
<1>4. \A i \in DOMAIN rows : rows[i] \in Rows
  BY <1>2
<1>5. ASSUME NEW i \in ShownRows(n, shape), NEW k \in ShownRows(n, shape),
             RowIndex(rows[i]) = RowIndex(rows[k])
      PROVE  i = k
  <2>1. /\ i \in DOMAIN rows /\ k \in DOMAIN rows /\ rows[i] \in Rows /\ rows[k] \in Rows
        /\ isValid(rows[i].addr.addr) /\ isValid(rows[k].addr.addr)
    BY <1>3, <1>4
  <2>2. PICK a, b, c, d : /\ a = toOIDBytes(rows[i].addr.addr) /\ b = <<rows[i].port>>
                          /\ c = toOIDBytes(rows[k].addr.addr) /\ d = <<rows[k].port>>
    BY Zenon
  <2>3. a \in OIDs /\ b \in OIDs /\ c \in OIDs /\ d \in OIDs
    BY <2>1, <2>2, RowIndexTyped, Zenon
  <2>4. Len(b) = 1 /\ Len(d) = 1 /\ b[1] = rows[i].port /\ d[1] = rows[k].port
    BY <2>2
  <2>5. a \o b = c \o d
    BY <1>5, <2>2, Zenon DEF RowIndex
  <2>6. a = c /\ b = d
    BY <2>3, <2>4, <2>5, EndTells
  <2>7. PICK x, y : x = rows[i].addr.addr /\ y = rows[k].addr.addr
    BY Zenon
  <2>8. x \in Addresses /\ y \in Addresses
    BY <2>1, <2>7 DEF Rows, Texts, Addresses
  <2>9. x = y
    BY <2>1, <2>2, <2>6, <2>7, <2>8, IndexTells, Zenon
  <2>10. rows[i].port = rows[k].port
    BY <2>4, <2>6, Zenon
  <2> QED
    BY <1>1, <2>1, <2>7, <2>9, <2>10, ShapeRows, Zenon
<1>6. ASSUME NEW i \in ShownRows(n, shape),
             NEW b \in 1 .. Len(rows[i].buckets), NEW d \in 1 .. Len(rows[i].buckets),
             rows[i].buckets[b] = rows[i].buckets[d]
      PROVE  b = d
  <2>1. i \in DOMAIN rows /\ rows[i] \in Rows
    BY <1>3, <1>4
  <2>2. rows[i] \in Range(rows)
    BY <2>1, Zenon DEF Range
  <2>3. b \in DOMAIN rows[i].buckets /\ d \in DOMAIN rows[i].buckets
    BY <2>1 DEF Rows
  <2> QED
    BY <1>1, <1>6, <2>2, <2>3, ShapeRows, Zenon
<1> QED
  BY <1>1, <1>5, <1>6, Zenon DEF Distinct

(* The rows of a table with their counts, *)
Valued(n, T) == {<<t[1], Value(n, t[3])>> : t \in T}

(* one of a connection, of a bucket, and of its bandwidth. *)
SixValue(root, n, x, z) ==
  z = <<Row(root, 6, 1, 4, x), Value(n, 1)>> \/ z = <<Row(root, 6, 1, 5, x), Value(n, 2)>>
SevenValue(root, n, x, id, z) ==
  \/ z = <<Row(root, 7, 1, 5, x) \o <<id>>, Value(n, 3)>>
  \/ z = <<Row(root, 7, 1, 6, x) \o <<id>>, Value(n, 4)>>
EightValue(root, n, x, id, z) == z = <<Row(root, 8, 1, 6, x) \o <<id, 1>>, Value(n, 5)>>

(* The cells of a connection and of a bucket have these rows. *)
LEMMA CellsValued ==
  ASSUME NEW root, NEW n, NEW x, NEW id, NEW p
  PROVE  /\ \A z : z \in Valued(n, Cells6(root, x, p)) <=> SixValue(root, n, x, z)
         /\ \A z : z \in Valued(n, Cells7(root, x, id, p)) <=> SevenValue(root, n, x, id, z)
         /\ \A z : z \in Valued(n, Cells8(root, x, id, p)) <=> EightValue(root, n, x, id, z)
<1>1. PICK a, b, c, d, e : /\ a = Row(root, 6, 1, 4, x) /\ b = Row(root, 6, 1, 5, x)
                           /\ c = Row(root, 7, 1, 5, x) \o <<id>> /\ d = Row(root, 7, 1, 6, x) \o <<id>>
                           /\ e = Row(root, 8, 1, 6, x) \o <<id, 1>>
  BY Zenon
<1>2. PICK u, v, w : u = p + 1 /\ v = p + 2 /\ w = p + 3
  BY Zenon
<1>4. Valued(n, {<<a, v, 1>>, <<b, w, 2>>}) = {<<a, Value(n, 1)>>, <<b, Value(n, 2)>>}
  BY DEF Valued
<1>5. Valued(n, {<<c, u, 3>>, <<d, v, 4>>}) = {<<c, Value(n, 3)>>, <<d, Value(n, 4)>>}
  BY DEF Valued
<1>6. Valued(n, {<<e, w, 5>>}) = {<<e, Value(n, 5)>>}
  BY DEF Valued
<1>7. \A z : z \in Valued(n, Cells6(root, x, p)) <=> SixValue(root, n, x, z)
  BY <1>1, <1>2, <1>4, Zenon DEF Cells6, SixValue
<1>8. \A z : z \in Valued(n, Cells7(root, x, id, p)) <=> SevenValue(root, n, x, id, z)
  BY <1>1, <1>2, <1>5, Zenon DEF Cells7, SevenValue
<1>9. \A z : z \in Valued(n, Cells8(root, x, id, p)) <=> EightValue(root, n, x, id, z)
  BY <1>1, <1>2, <1>6, Zenon DEF Cells8, EightValue
<1> QED
  BY <1>7, <1>8, <1>9, Zenon

(* Rows of several sets of cells. *)
LEMMA UnionValued ==
  ASSUME NEW n, NEW z, NEW T, NEW S, T = UNION S
  PROVE  z \in Valued(n, T) <=> \E C \in S : z \in Valued(n, C)
BY Zenon DEF Valued

(* A row of the connections in Shown or of the buckets of those in Full. *)
RowValue(root, n, rows, Shown, Full, z) ==
  \/ \E i \in Shown : SixValue(root, n, RowIndex(rows[i]), z)
  \/ \E i \in Full : \E id \in Range(rows[i].buckets) :
       SevenValue(root, n, RowIndex(rows[i]), id, z) \/ EightValue(root, n, RowIndex(rows[i]), id, z)

(* ConnectionRows are these, *)
LEMMA ConnectionRowsAre ==
  ASSUME NEW root, NEW n, NEW shape, NEW z
  PROVE  z \in ConnectionRows(root, n, shape) <=>
           RowValue(root, n, shape.rows, ShownRows(n, shape),
                    {i \in ShownRows(n, shape) : WholeRow(n, shape, i)}, z)
<1> DEFINE rows == shape.rows
           Shown == ShownRows(n, shape)
           Full == {i \in Shown : WholeRow(n, shape, i)}
           Six(i) == {<<Row(root, 6, 1, 4, RowIndex(rows[i])), Value(n, 1)>>,
                      <<Row(root, 6, 1, 5, RowIndex(rows[i])), Value(n, 2)>>}
           Buckets7(i, id) == {<<Row(root, 7, 1, 5, RowIndex(rows[i])) \o <<id>>, Value(n, 3)>>,
                               <<Row(root, 7, 1, 6, RowIndex(rows[i])) \o <<id>>, Value(n, 4)>>,
                               <<Row(root, 8, 1, 6, RowIndex(rows[i])) \o <<id, 1>>, Value(n, 5)>>}
<1>1. ConnectionRows(root, n, shape) =
        (UNION {Six(i) : i \in Shown}) \cup
        (UNION {UNION {Buckets7(i, id) : id \in Range(rows[i].buckets)} : i \in Full})
  BY Zenon DEF ConnectionRows, ShownRows, WholeRow, Row, RowIndex
<1>2. \A i : z \in Six(i) <=> SixValue(root, n, RowIndex(rows[i]), z)
  BY Zenon DEF SixValue
<1>3. \A i, id : z \in Buckets7(i, id) <=>
        SevenValue(root, n, RowIndex(rows[i]), id, z) \/ EightValue(root, n, RowIndex(rows[i]), id, z)
  BY Zenon DEF SevenValue, EightValue
<1> HIDE DEF Six, Buckets7, Full, Shown, rows
<1> DEFINE Group(i) == UNION {Buckets7(i, id) : id \in Range(rows[i].buckets)}
<1>5. \A i : z \in Group(i) <=> \E id \in Range(rows[i].buckets) : z \in Buckets7(i, id)
  BY Zenon
<1>7. PICK A, B : /\ ConnectionRows(root, n, shape) = A \cup B
                  /\ A = UNION {Six(i) : i \in Shown} /\ B = UNION {Group(i) : i \in Full}
  BY <1>1, Zenon
<1> HIDE DEF Group
<1>8. z \in A <=> \E i \in Shown : z \in Six(i)
  BY <1>7, Zenon
<1>9. z \in B <=> \E i \in Full : z \in Group(i)
  BY <1>7, Zenon
<1>4. z \in ConnectionRows(root, n, shape) <=> z \in A \/ z \in B
  BY <1>7, Zenon
<1>6. z \in ConnectionRows(root, n, shape) <=> RowValue(root, n, rows, Shown, Full, z)
  BY <1>2, <1>3, <1>4, <1>5, <1>8, <1>9, Zenon DEF RowValue
<1> QED
  BY <1>6, Zenon DEF rows, Shown, Full

(* and so are the rows of the cells the handler fills. *)
LEMMA TriplesValued ==
  ASSUME NEW root, NEW n, NEW f, NEW rows, NEW at, NEW Shown, NEW Full,
         Reads(f, n, rows, at, Shown, Full), NEW E, E = Entries(rows, at, Full), NEW z
  PROVE  (\/ z \in Valued(n, Triples6(root, rows, at, Shown))
          \/ z \in Valued(n, Triples7(root, E)) \/ z \in Valued(n, Triples8(root, E)))
         <=> RowValue(root, n, rows, Shown, Full, z)
<1>1. z \in Valued(n, Triples6(root, rows, at, Shown)) <=>
        \E i \in Shown : SixValue(root, n, RowIndex(rows[i]), z)
  <2>1. z \in Valued(n, Triples6(root, rows, at, Shown)) <=>
          \E C \in {Cells6(root, RowIndex(rows[i]), at[i]) : i \in Shown} : z \in Valued(n, C)
    BY UnionValued, Zenon DEF Triples6
  <2>2. \A i : z \in Valued(n, Cells6(root, RowIndex(rows[i]), at[i])) <=>
          SixValue(root, n, RowIndex(rows[i]), z)
    BY CellsValued, Zenon
  <2> QED
    BY <2>1, <2>2, Zenon
<1>2. z \in Valued(n, Triples7(root, E)) <=> \E e \in E : SevenValue(root, n, e[1], e[2], z)
  <2>1. z \in Valued(n, Triples7(root, E)) <=>
          \E C \in {Cells7(root, e[1], e[2], e[3]) : e \in E} : z \in Valued(n, C)
    BY UnionValued, Zenon DEF Triples7
  <2>2. \A e : z \in Valued(n, Cells7(root, e[1], e[2], e[3])) <=> SevenValue(root, n, e[1], e[2], z)
    BY CellsValued, Zenon
  <2> QED
    BY <2>1, <2>2, Zenon
<1>3. z \in Valued(n, Triples8(root, E)) <=> \E e \in E : EightValue(root, n, e[1], e[2], z)
  <2>1. z \in Valued(n, Triples8(root, E)) <=>
          \E C \in {Cells8(root, e[1], e[2], e[3]) : e \in E} : z \in Valued(n, C)
    BY UnionValued, Zenon DEF Triples8
  <2>2. \A e : z \in Valued(n, Cells8(root, e[1], e[2], e[3])) <=> EightValue(root, n, e[1], e[2], z)
    BY CellsValued, Zenon
  <2> QED
    BY <2>1, <2>2, Zenon
<1>4. ASSUME NEW e \in E
      PROVE  \E i \in Full : e[1] = RowIndex(rows[i]) /\ e[2] \in Range(rows[i].buckets)
  <2>1. PICK i \in Full : \E b \in 1 .. Len(rows[i].buckets) : IsEntryOf(e, rows, at, i, b)
    BY EntryMember, Zenon
  <2>2. PICK b \in 1 .. Len(rows[i].buckets) : IsEntryOf(e, rows, at, i, b)
    BY <2>1, Zenon
  <2>3. rows[i] \in Rows
    BY Zenon DEF Reads, ShowsConnection
  <2>4. b \in DOMAIN rows[i].buckets
    BY <2>3 DEF Rows
  <2>5. e[1] = RowIndex(rows[i]) /\ e[2] = rows[i].buckets[b]
    BY <2>2, Zenon DEF IsEntryOf
  <2> QED
    BY <2>4, <2>5, Zenon DEF Range
<1>5. ASSUME NEW i \in Full, NEW id \in Range(rows[i].buckets)
      PROVE  \E e \in E : e[1] = RowIndex(rows[i]) /\ e[2] = id
  <2>1. rows[i] \in Rows
    BY Zenon DEF Reads, ShowsConnection
  <2>2. PICK b \in DOMAIN rows[i].buckets : id = rows[i].buckets[b]
    BY Zenon DEF Range
  <2>3. b \in 1 .. Len(rows[i].buckets)
    BY <2>1 DEF Rows
  <2>4. PICK e : e = EntryOf(rows, at, i, b)
    BY Zenon
  <2>5. IsEntryOf(e, rows, at, i, b)
    BY <2>4, EntryParts, Zenon
  <2>6. e \in E
    BY <2>3, <2>5, EntryMember, Zenon
  <2> QED
    BY <2>2, <2>5, <2>6, Zenon DEF IsEntryOf
<1>6. (\E e \in E : SevenValue(root, n, e[1], e[2], z)) <=>
      (\E i \in Full : \E id \in Range(rows[i].buckets) : SevenValue(root, n, RowIndex(rows[i]), id, z))
  BY <1>4, <1>5, Zenon
<1>7. (\E e \in E : EightValue(root, n, e[1], e[2], z)) <=>
      (\E i \in Full : \E id \in Range(rows[i].buckets) : EightValue(root, n, RowIndex(rows[i]), id, z))
  BY <1>4, <1>5, Zenon
<1> QED
  BY <1>1, <1>2, <1>3, <1>6, <1>7, Zenon DEF RowValue

(* The three subtrees the handler replaces. *)
ReplacesThree(ops, f, b6, b7, b8) ==
  ops = <<ReplaceSubtree(b6, Filled(Below(b6, UNION {ConnectionCells(ReadIndex(f, i), i) :
                                                       i \in Connections(f)}), f)),
          ReplaceSubtree(b7, Filled(Below(b7, UNION {BucketCells(b[1], b[2]) :
                                                       b \in ReadBuckets(f)}), f)),
          ReplaceSubtree(b8, Filled(Below(b8, UNION {BandwidthCells(b[1], b[2]) :
                                                       b \in ReadBuckets(f)}), f))>>

(* AstaireConnectionStatHandler makes these calls. *)
LEMMA AstaireOps ==
  ASSUME NEW root, NEW f
  PROVE  ReplacesThree(AstaireConnectionStatHandler(root, f), f, root \o connection_base_oid,
                       root \o bucket_base_oid, root \o bucket_bandwidth_base_oid)
BY Zenon DEF ReplacesThree, AstaireConnectionStatHandler, Below, ReadIndex, ReadBuckets

(* Puts as an answer shows them. *)
Unsigned(puts) == {<<p[1], p[2] % WORD>> : p \in puts}

(* The rows of three calls. *)
LEMMA ThreeAnswers ==
  ASSUME NEW a, NEW b, NEW c, NEW ops, ops = <<a, b, c>>
  PROVE  /\ \A i \in DOMAIN ops : ops[i] = a \/ ops[i] = b \/ ops[i] = c
         /\ \A z : z \in Answers(ops) <=>
              (z \in Unsigned(Puts(a)) \/ z \in Unsigned(Puts(b)) \/ z \in Unsigned(Puts(c)))
<1>1. DOMAIN ops = {1, 2, 3} /\ ops[1] = a /\ ops[2] = b /\ ops[3] = c
  OBVIOUS
<1>2. Range(ops) = {a, b, c}
  BY <1>1, Zenon DEF Range
<1>3. \A p : p \in UNION {Puts(o) : o \in Range(ops)} <=>
        (p \in Puts(a) \/ p \in Puts(b) \/ p \in Puts(c))
  BY <1>2, Zenon
<1>4. ASSUME NEW z
      PROVE  z \in Answers(ops) <=>
              (z \in Unsigned(Puts(a)) \/ z \in Unsigned(Puts(b)) \/ z \in Unsigned(Puts(c)))
  BY <1>3, Zenon DEF Answers, Unsigned
<1>5. \A i \in DOMAIN ops : ops[i] = a \/ ops[i] = b \/ ops[i] = c
  BY <1>1, Zenon
<1> QED
  BY <1>4, <1>5, Zenon

(* AstaireConnectionStatHandler answers with the connections and buckets   *)
(* that the message has whole, each count at the OID of its own row.       *)
LEMMA AstaireRows ==
  ASSUME NEW root \in OIDs, NEW n \in Nat, NEW shape, IsShape("AstaireConnection", shape),
         Counts * (n + 1) <= WORD
  PROVE  LET ops == AstaireConnectionStatHandler(root, Encode(n, "AstaireConnection", shape)) IN
         /\ \A i \in DOMAIN ops : \A p \in Puts(ops[i]) : MessageOf(p[2] % WORD) = n
         /\ Answers(ops) = ConnectionRows(root, n, shape)
<1>1. PICK f, rows, at, Shown, Full :
        /\ f = Encode(n, "AstaireConnection", shape) /\ rows = shape.rows
        /\ at = Starts(n, shape.rows) /\ Shown = ShownRows(n, shape)
        /\ Full = {i \in ShownRows(n, shape) : WholeRow(n, shape, i)}
  BY Zenon
<1>2. Reads(f, n, rows, at, Shown, Full)
  BY <1>1, MessageRead, Zenon
<1>3. Distinct(rows, Shown, Full)
  BY <1>1, ShapeDistinct, Zenon
<1>4. PICK E : E = Entries(rows, at, Full)
  BY Zenon
<1>5. /\ \A e \in E : IsEntry(f, n, e)
      /\ Single(E) /\ ReadBuckets(f) = BucketsOf(E) /\ f \in Seq(Texts)
  <2>1. /\ \A e \in E : IsEntry(f, n, e)
        /\ Single(E)
    BY <1>2, <1>3, <1>4, EntriesSingle, Zenon
  <2>2. ReadBuckets(f) = BucketsOf(E)
    BY <1>2, <1>4, EntriesRead, Zenon
  <2>3. f \in Seq(Texts)
    BY <1>2, Zenon DEF Reads
  <2> QED
    BY <2>1, <2>2, <2>3, Zenon
<1>6. PICK ops, b6, b7, b8, c6, c7, c8 :
        /\ ops = AstaireConnectionStatHandler(root, f)
        /\ b6 = root \o connection_base_oid /\ b7 = root \o bucket_base_oid
        /\ b8 = root \o bucket_bandwidth_base_oid
        /\ c6 = Below(b6, UNION {ConnectionCells(ReadIndex(f, i), i) : i \in Connections(f)})
        /\ c7 = Below(b7, UNION {BucketCells(b[1], b[2]) : b \in ReadBuckets(f)})
        /\ c8 = Below(b8, UNION {BandwidthCells(b[1], b[2]) : b \in ReadBuckets(f)})
  BY Zenon
<1>7. PICK a, b, c : /\ a = ReplaceSubtree(b6, Filled(c6, f)) /\ b = ReplaceSubtree(b7, Filled(c7, f))
                     /\ c = ReplaceSubtree(b8, Filled(c8, f)) /\ ops = <<a, b, c>>
  <2>1. ReplacesThree(ops, f, b6, b7, b8)
    BY <1>6, AstaireOps, Zenon
  <2> QED
    BY <1>6, <2>1, Zenon DEF ReplacesThree
<1>8. IsTable(Puts(a), n, Triples6(root, rows, at, Shown))
  BY <1>2, <1>3, <1>6, <1>7, SixTable, Zenon
<1>9. IsTable(Puts(b), n, Triples7(root, E))
  <2>1. c7 = Below(b7, UNION {BucketCells(d[1], d[2]) : d \in BucketsOf(E)})
    BY <1>5, <1>6, Zenon
  <2> QED
    BY <1>5, <1>6, <1>7, <2>1, SevenTable, Zenon
<1>10. IsTable(Puts(c), n, Triples8(root, E))
  <2>1. c8 = Below(b8, UNION {BandwidthCells(d[1], d[2]) : d \in BucketsOf(E)})
    BY <1>5, <1>6, Zenon
  <2> QED
    BY <1>5, <1>6, <1>7, <2>1, EightTable, Zenon
<1>11. /\ \A i \in DOMAIN ops : ops[i] = a \/ ops[i] = b \/ ops[i] = c
       /\ \A z : z \in Answers(ops) <=>
              (z \in Unsigned(Puts(a)) \/ z \in Unsigned(Puts(b)) \/ z \in Unsigned(Puts(c)))
  BY <1>7, ThreeAnswers
<1>12. \A i \in DOMAIN ops : \A p \in Puts(ops[i]) : MessageOf(p[2] % WORD) = n
  BY <1>8, <1>9, <1>10, <1>11, Zenon DEF IsTable
<1>13. /\ Unsigned(Puts(a)) = Valued(n, Triples6(root, rows, at, Shown))
       /\ Unsigned(Puts(b)) = Valued(n, Triples7(root, E))
       /\ Unsigned(Puts(c)) = Valued(n, Triples8(root, E))
  BY <1>8, <1>9, <1>10, Zenon DEF IsTable, Unsigned, Valued
<1>14. ASSUME NEW z
       PROVE  z \in Answers(ops) <=> z \in ConnectionRows(root, n, shape)
  <2>1. z \in Answers(ops) <=>
          (\/ z \in Valued(n, Triples6(root, rows, at, Shown))
           \/ z \in Valued(n, Triples7(root, E)) \/ z \in Valued(n, Triples8(root, E)))
    BY <1>11, <1>13, Zenon
  <2>2. (\/ z \in Valued(n, Triples6(root, rows, at, Shown))
         \/ z \in Valued(n, Triples7(root, E)) \/ z \in Valued(n, Triples8(root, E)))
        <=> RowValue(root, n, rows, Shown, Full, z)
    BY <1>2, <1>4, TriplesValued, Zenon
  <2>3. z \in ConnectionRows(root, n, shape) <=> RowValue(root, n, rows, Shown, Full, z)
    BY <1>1, ConnectionRowsAre, Zenon
  <2> QED
    BY <2>1, <2>2, <2>3, Zenon
<1>15. Answers(ops) = ConnectionRows(root, n, shape)
  <2>1. PICK A, B : A = Answers(ops) /\ B = ConnectionRows(root, n, shape)
    BY Zenon
  <2>2. \A z : z \in A <=> z \in B
    BY <1>14, <2>1, Zenon
  <2>3. A = B
    BY <2>2
  <2> QED
    BY <2>1, <2>3, Zenon
<1> QED
  BY <1>1, <1>6, <1>12, <1>15, Zenon

(* Nodes send texts, whatever the handler. *)
LEMMA TextsHold == MessagesAreTexts
<1> SUFFICES ASSUME NEW class \in Classes, NEW shape, NEW n \in Nat, IsShape(class, shape)
             PROVE  Encode(n, class, shape) \in Seq(Texts)
  BY DEF MessagesAreTexts
<1>1. CASE class = "IPCount"
  BY <1>1, EncodeIPCount
<1>2. CASE class = "AstaireConnection"
  BY <1>2, MessageRead, Zenon DEF Reads
<1>3. CASE class \notin {"IPCount", "AstaireConnection"}
  BY <1>3, EncodeNumbers
<1> QED
  BY <1>1, <1>2, <1>3

(* Handlers put the counts of the message they are given into the tree,    *)
(* those of a table at the OIDs of their rows.                             *)
LEMMA CountsHold == CountsComeBack
<1> SUFFICES ASSUME NEW h, NEW shape, NEW n \in Nat,
                    IsHandler(h), IsShape(h.class, shape), Counts * (n + 1) <= WORD
             PROVE  LET ops == handle(h, Encode(n, h.class, shape))
                    IN  /\ \A i \in DOMAIN ops : \A p \in Puts(ops[i]) : MessageOf(p[2] % WORD) = n
                        /\ h.class = "IPCount" => Answers(ops) = PairRows(h.oid, n, shape)
                        /\ h.class = "AstaireConnection" =>
                             Answers(ops) = ConnectionRows(h.oid, n, shape)
  BY Zenon DEF CountsComeBack
<1>0. h.oid \in OIDs
  BY DEF IsHandler
<1>1. CASE h.class = "IPCount"
  <2>1. handle(h, Encode(n, h.class, shape)) = IPCountStatHandler(h.oid, Encode(n, "IPCount", shape))
    BY <1>1 DEF handle
  <2>2. h.class # "AstaireConnection"
    BY <1>1
  <2> QED
    BY <1>0, <1>1, <2>1, <2>2, IPCountRows, Zenon
<1>2. CASE h.class = "AstaireConnection"
  <2>1. handle(h, Encode(n, h.class, shape)) =
          AstaireConnectionStatHandler(h.oid, Encode(n, "AstaireConnection", shape))
    BY <1>2 DEF handle
  <2>2. h.class # "IPCount"
    BY <1>2
  <2> QED
    BY <1>0, <1>2, <2>1, <2>2, AstaireRows, Zenon
<1>3. CASE h.class \notin {"IPCount", "AstaireConnection"}
  BY <1>3, NumberCounts, Zenon
<1> QED
  BY <1>1, <1>2, <1>3, Zenon
=============================================================================
