---------------------------- MODULE OIDTreeProofs ---------------------------
(***************************************************************************)
(* OIDs of any length and maps of any size: std::map and a manager's walk  *)
(* rely on OIDCompare being a strict total order and on get_next finding   *)
(* the successor in it.  Messages of any length and content: a handler's   *)
(* calls keep to the OIDs it is there for and do not get in each other's   *)
(* way.                                                                    *)
(***************************************************************************)
EXTENDS NodeMessageProofs, FiniteSetTheorems

(* What a prefix is, by its elements. *)
LEMMA PrefixElements ==
  ASSUME NEW a \in OIDs, NEW b \in OIDs
  PROVE  IsPrefix(a, b) <=> Len(a) <= Len(b) /\ \A i \in 1 .. Len(a) : a[i] = b[i]
<1>1. Len(a) \in Nat /\ Len(b) \in Nat
  BY DEF OIDs
<1>2. SUFFICES ASSUME Len(a) <= Len(b)
               PROVE  SubSeq(a, 1, Len(a)) = SubSeq(b, 1, Len(a)) <=>
                        \A i \in 1 .. Len(a) : a[i] = b[i]
  BY DEF IsPrefix
<1>3. PICK c, d : c = SubSeq(a, 1, Len(a)) /\ d = SubSeq(b, 1, Len(a))
  BY Zenon
<1>4. /\ c \in Seq(Int) /\ Len(c) = Len(a) /\ \A i \in 1 .. Len(a) : c[i] = a[i]
      /\ d \in Seq(Int) /\ Len(d) = Len(a) /\ \A i \in 1 .. Len(a) : d[i] = b[i]
  BY <1>1, <1>2, <1>3 DEF OIDs
<1>5. c = d <=> \A i \in 1 .. Len(a) : c[i] = d[i]
  BY <1>1, <1>4
<1> QED
  BY <1>3, <1>4, <1>5

(* OIDCompare by elements: the first difference, or the end of a, decides. *)
LEMMA CompareElements ==
  ASSUME NEW a \in OIDs, NEW b \in OIDs
  PROVE  OIDCompare(a, b) <=>
           \/ Len(a) < Len(b) /\ \A i \in 1 .. Len(a) : a[i] = b[i]
           \/ \E i \in 1 .. Len(a) : /\ i <= Len(b)
                                     /\ \A j \in 1 .. i - 1 : a[j] = b[j]
                                     /\ a[i] < b[i]
<1>1. Len(a) \in Nat /\ Len(b) \in Nat
  BY DEF OIDs
<1>2. DOMAIN a \cap DOMAIN b = {i \in 1 .. Len(a) : i <= Len(b)}
  BY DEF OIDs
<1> QED
  BY <1>1, <1>2, PrefixElements DEF OIDCompare

(* Any two different elements have a first difference. *)
LEMMA FirstDifference ==
  ASSUME NEW a \in OIDs, NEW b \in OIDs,
         NEW n \in 1 .. Len(a), n <= Len(b), a[n] # b[n]
  PROVE  \E i \in 1 .. Len(a) : /\ i <= Len(b) /\ a[i] # b[i]
                                /\ \A j \in 1 .. i - 1 : a[j] = b[j]
<1>0. Len(a) \in Nat /\ Len(b) \in Nat
  BY DEF OIDs
<1> DEFINE D == {i \in 1 .. Len(a) : i <= Len(b) /\ a[i] # b[i]}
<1>1. D \subseteq Nat /\ D # {}
  BY <1>0
<1>2. \E x \in D : \A y \in D : ~(<<y, x>> \in OpToRel(<, Nat))
  BY <1>1, NatLessThanWellFounded, WFMin, Zenon
<1>3. PICK x \in D : \A y \in D : ~(y < x)
  BY <1>1, <1>2, Zenon DEF OpToRel
<1>4. ASSUME NEW j \in 1 .. x - 1 PROVE a[j] = b[j]
  <2>1. j \in 1 .. Len(a) /\ j <= Len(b) /\ j < x
    <3>1. x \in 1 .. Len(a) /\ x <= Len(b)
      OBVIOUS
    <3> HIDE DEF D
    <3> QED
      BY <1>0, <3>1
  <2> QED
    BY <1>3, <2>1
<1> QED
  BY <1>3, <1>4

(* Nothing comes before itself. *)
LEMMA CompareIrreflexive ==
  ASSUME NEW a \in OIDs PROVE ~OIDCompare(a, a)
  BY CompareElements DEF OIDs

(* What comes before what comes before c comes before c. *)
LEMMA CompareTransitive ==
  ASSUME NEW a \in OIDs, NEW b \in OIDs, NEW c \in OIDs,
         OIDCompare(a, b), OIDCompare(b, c)
  PROVE  OIDCompare(a, c)
<1> Len(a) \in Nat /\ Len(b) \in Nat /\ Len(c) \in Nat
  BY DEF OIDs
<1> /\ \A i \in 1 .. Len(a) : a[i] \in Int
    /\ \A i \in 1 .. Len(b) : b[i] \in Int
    /\ \A i \in 1 .. Len(c) : c[i] \in Int
  BY DEF OIDs
<1>1. \/ Len(a) < Len(b) /\ \A i \in 1 .. Len(a) : a[i] = b[i]
      \/ \E i \in 1 .. Len(a) : /\ i <= Len(b)
                                /\ \A j \in 1 .. i - 1 : a[j] = b[j]
                                /\ a[i] < b[i]
  BY CompareElements
<1>2. \/ Len(b) < Len(c) /\ \A i \in 1 .. Len(b) : b[i] = c[i]
      \/ \E i \in 1 .. Len(b) : /\ i <= Len(c)
                                /\ \A j \in 1 .. i - 1 : b[j] = c[j]
                                /\ b[i] < c[i]
  BY CompareElements
<1>3. \/ Len(a) < Len(c) /\ \A i \in 1 .. Len(a) : a[i] = c[i]
      \/ \E i \in 1 .. Len(a) : /\ i <= Len(c)
                                /\ \A j \in 1 .. i - 1 : a[j] = c[j]
                                /\ a[i] < c[i]
  <2>1. CASE /\ Len(a) < Len(b) /\ \A i \in 1 .. Len(a) : a[i] = b[i]
             /\ Len(b) < Len(c) /\ \A i \in 1 .. Len(b) : b[i] = c[i]
    BY <2>1
  <2>2. ASSUME Len(a) < Len(b), \A i \in 1 .. Len(a) : a[i] = b[i],
               NEW i \in 1 .. Len(b), i <= Len(c), b[i] < c[i],
               \A j \in 1 .. i - 1 : b[j] = c[j]
        PROVE  <1>3
    <3>1. CASE i <= Len(a)
      BY <2>2, <3>1
    <3>2. CASE ~(i <= Len(a))
      BY <2>2, <3>2
    <3> QED
      BY <3>1, <3>2
  <2>3. ASSUME NEW i \in 1 .. Len(a), i <= Len(b), a[i] < b[i],
               \A j \in 1 .. i - 1 : a[j] = b[j],
               Len(b) < Len(c), \A j \in 1 .. Len(b) : b[j] = c[j]
        PROVE  <1>3
    BY <2>3
  <2>4. ASSUME NEW i \in 1 .. Len(a), i <= Len(b), a[i] < b[i],
               \A j \in 1 .. i - 1 : a[j] = b[j],
               NEW k \in 1 .. Len(b), k <= Len(c), b[k] < c[k],
               \A j \in 1 .. k - 1 : b[j] = c[j]
        PROVE  <1>3
    <3>1. CASE i <= k
      <4>1. i <= Len(c) /\ \A j \in 1 .. i - 1 : a[j] = c[j]
        BY <2>4, <3>1
      <4>2. a[i] < c[i]
        <5>1. a[i] \in Int /\ b[i] \in Int /\ c[i] \in Int
          BY <2>4, <4>1
        <5>2. b[i] <= c[i]
          BY <2>4, <3>1, <5>1
        <5> QED
          BY <2>4, <5>1, <5>2
      <4> QED
        BY <4>1, <4>2
    <3>2. CASE k < i
      BY <2>4, <3>2
    <3> QED
      BY <3>1, <3>2
  <2> QED
    BY <1>1, <1>2, <2>1, <2>2, <2>3, <2>4, Zenon
<1> QED
  BY <1>3, CompareElements

(* Of two different OIDs one comes before the other. *)
LEMMA CompareTotal ==
  ASSUME NEW a \in OIDs, NEW b \in OIDs, a # b
  PROVE  OIDCompare(a, b) \/ OIDCompare(b, a)
<1> Len(a) \in Nat /\ Len(b) \in Nat
  BY DEF OIDs
<1>1. CASE \E n \in 1 .. Len(a) : n <= Len(b) /\ a[n] # b[n]
  <2>1. PICK i \in 1 .. Len(a) : /\ i <= Len(b) /\ a[i] # b[i]
                                 /\ \A j \in 1 .. i - 1 : a[j] = b[j]
    BY <1>1, FirstDifference
  <2>2. a[i] < b[i] \/ b[i] < a[i]
    BY <2>1 DEF OIDs
  <2> QED
    BY <2>1, <2>2, CompareElements
<1>2. CASE \A n \in 1 .. Len(a) : n <= Len(b) => a[n] = b[n]
  <2>1. Len(a) # Len(b)
    BY <1>2, SameElements
  <2> QED
    BY <1>2, <2>1, CompareElements
<1> QED
  BY <1>1, <1>2

(* OIDCompare is a strict total order on OIDs of any length: std::map      *)
(* tells any two OIDs apart, and a walk by GETNEXT cannot come back to an  *)
(* OID it has met.                                                         *)
THEOREM OIDOrder ==
  \A a, b, c \in OIDs :
    /\ ~OIDCompare(a, a)
    /\ OIDCompare(a, b) /\ OIDCompare(b, c) => OIDCompare(a, c)
    /\ a = b \/ OIDCompare(a, b) \/ OIDCompare(b, a)
  BY CompareIrreflexive, CompareTransitive, CompareTotal

(* Any OIDs of a finite set have a first one. *)
LEMMA FirstExists ==
  ASSUME NEW S \in SUBSET OIDs, IsFiniteSet(S), S # {}
  PROVE  \E k \in S : \A j \in S \ {k} : OIDCompare(k, j)
<1> DEFINE Below(k) == {j \in S : OIDCompare(j, k)}
           sizes == {Cardinality(Below(k)) : k \in S}
<1>1. ASSUME NEW k \in S
      PROVE  IsFiniteSet(Below(k)) /\ Cardinality(Below(k)) \in Nat
  BY FS_Subset, FS_CardinalityType, Below(k) \in SUBSET S
<1>2. PICK n \in sizes : \A l \in sizes : ~(l < n)
  <2>1. sizes \subseteq Nat /\ sizes # {}
    BY <1>1, Zenon
  <2>2. IsWellFoundedOn(OpToRel(<, Nat), Nat)
    BY NatLessThanWellFounded, Zenon
  <2>3. \E n \in sizes : \A l \in sizes : ~(<<l, n>> \in OpToRel(<, Nat))
    <3> HIDE DEF sizes
    <3> QED
      BY <2>1, <2>2, WFMin, Zenon
  <2> QED
    BY <2>1, <2>3, Zenon DEF OpToRel
<1>3. PICK k \in S : n = Cardinality(Below(k))
  OBVIOUS
<1>4. ASSUME NEW j \in S, OIDCompare(j, k)
      PROVE  FALSE
  <2>1. Below(j) \in SUBSET Below(k)
    BY <1>4, CompareTransitive
  <2>2. j \in Below(k) /\ j \notin Below(j)
    BY <1>4, CompareIrreflexive
  <2>3. Cardinality(Below(j)) <= n /\ Cardinality(Below(j)) # n
    <3> HIDE DEF Below
    <3> QED
      BY <1>1, <1>3, <2>1, <2>2, FS_Subset
  <2>4. Cardinality(Below(j)) \in Nat /\ n \in Nat
    BY <1>1, <1>3, Zenon
  <2>5. Cardinality(Below(j)) \in sizes
    BY Zenon
  <2>6. ~(Cardinality(Below(j)) < n)
    <3> HIDE DEF sizes, Below
    <3> QED
      BY <1>2, <2>5
  <2> QED
    <3> HIDE DEF sizes, Below
    <3> QED
      BY <2>3, <2>4, <2>6
<1>5. \A j \in S \ {k} : OIDCompare(k, j)
  BY <1>4, CompareTotal
<1> QED
  BY <1>5

(* GETNEXT finds the successor of any OID, which need not be in the tree   *)
(* itself: what it answers is in the tree, comes after the OID and before  *)
(* everything else that does.  A walk therefore skips nothing that stays.  *)
THEOREM GetNextIsSuccessor ==
  ASSUME NEW m, IsFiniteSet(DOMAIN m), DOMAIN m \subseteq OIDs,
         NEW o \in OIDs, after(m, o) # {}
  PROVE  LET next == get_next(m, o) IN
         /\ next \in DOMAIN m
         /\ OIDCompare(o, next)
         /\ \A k \in DOMAIN m : OIDCompare(o, k) => k = next \/ OIDCompare(next, k)
<1>1. after(m, o) \in SUBSET OIDs /\ IsFiniteSet(after(m, o))
  BY FS_Subset, after(m, o) \in SUBSET DOMAIN m DEF after
<1>2. \E k \in after(m, o) : \A j \in after(m, o) \ {k} : OIDCompare(k, j)
  BY <1>1, FirstExists
<1>3. /\ get_next(m, o) \in after(m, o)
      /\ \A j \in after(m, o) \ {get_next(m, o)} : OIDCompare(get_next(m, o), j)
  BY <1>2 DEF get_next
<1> QED
  BY <1>3 DEF after

-----------------------------------------------------------------------------
(* Prefixes.  An OID below another is below all those above that.          *)
LEMMA PrefixTransitive ==
  ASSUME NEW a \in OIDs, NEW b \in OIDs, NEW c \in OIDs,
         IsPrefix(a, b), IsPrefix(b, c)
  PROVE  IsPrefix(a, c)
<1>1. Len(a) \in Nat /\ Len(b) \in Nat /\ Len(c) \in Nat
  BY DEF OIDs
<1> QED
  BY <1>1, PrefixElements

(* Two OIDs above the same one are above each other. *)
LEMMA PrefixesComparable ==
  ASSUME NEW a \in OIDs, NEW b \in OIDs, NEW c \in OIDs,
         IsPrefix(a, c), IsPrefix(b, c)
  PROVE  subtree_contains(a, b)
<1>1. Len(a) \in Nat /\ Len(b) \in Nat /\ Len(c) \in Nat
  BY DEF OIDs
<1> QED
  BY <1>1, PrefixElements DEF subtree_contains

(* What subtree_contains finds near an OID it finds near every root above  *)
(* that OID.                                                               *)
LEMMA ContainsRoot ==
  ASSUME NEW q \in OIDs, NEW r \in OIDs, NEW k \in OIDs,
         IsPrefix(r, k), subtree_contains(q, k)
  PROVE  subtree_contains(q, r)
BY PrefixesComparable, PrefixTransitive DEF subtree_contains

(* An OID that is extended. *)
LEMMA ConcatPrefix ==
  ASSUME NEW a \in OIDs, NEW b \in OIDs
  PROVE  a \o b \in OIDs /\ IsPrefix(a, a \o b)
<1> DEFINE x == a \o b
<1>1. x \in OIDs /\ Len(x) = Len(a) + Len(b) /\ Len(a) \in Nat /\ Len(b) \in Nat
  BY DEF OIDs
<1>2. \A i \in 1 .. Len(a) : a[i] = x[i]
  BY DEF OIDs
<1> HIDE DEF x
<1>3. IsPrefix(a, x)
  BY <1>1, <1>2, PrefixElements
<1> QED
  BY <1>1, <1>3 DEF x

(* An extension that is above another of the same OID. *)
LEMMA ConcatPrefixes ==
  ASSUME NEW a \in OIDs, NEW b \in OIDs, NEW c \in OIDs, IsPrefix(a \o b, a \o c)
  PROVE  IsPrefix(b, c)
<1> DEFINE x == a \o b
           y == a \o c
<1>1. /\ Len(a) \in Nat /\ Len(b) \in Nat /\ Len(c) \in Nat
      /\ x \in OIDs /\ y \in OIDs
      /\ Len(x) = Len(a) + Len(b) /\ Len(y) = Len(a) + Len(c)
  BY DEF OIDs
<1>2. /\ \A i \in 1 .. Len(b) : b[i] = x[Len(a) + i]
      /\ \A i \in 1 .. Len(c) : c[i] = y[Len(a) + i]
  BY DEF OIDs
<1>3. IsPrefix(x, y)
  OBVIOUS
<1> HIDE DEF x, y
<1>4. Len(x) <= Len(y) /\ \A i \in 1 .. Len(x) : x[i] = y[i]
  BY <1>1, <1>3, PrefixElements, Zenon
<1>5. \A i \in 1 .. Len(b) : b[i] = c[i]
  BY <1>1, <1>2, <1>4
<1> QED
  BY <1>1, <1>4, <1>5, PrefixElements

(* Extensions of one OID are apart if what it is extended by is. *)
LEMMA ConcatComparable ==
  ASSUME NEW a \in OIDs, NEW b \in OIDs, NEW c \in OIDs,
         subtree_contains(a \o b, a \o c)
  PROVE  subtree_contains(b, c)
BY ConcatPrefixes DEF subtree_contains

-----------------------------------------------------------------------------
(* The cases of Puts. *)
LEMMA PutsCases ==
  ASSUME NEW o
  PROVE  /\ o.op = "set" => /\ Puts(o) = {<<o.key, o.value>>}
                            /\ {p[1] : p \in Puts(o)} = {o.key}
         /\ o.op = "replace_subtree" =>
              /\ Puts(o) = {<<k, o.map[k]>> : k \in DOMAIN o.map}
              /\ {p[1] : p \in Puts(o)} = DOMAIN o.map
         /\ o.op \in {"remove", "remove_subtree"} =>
              Puts(o) = {} /\ {p[1] : p \in Puts(o)} = {}
<1>1. o.op = "set" => Puts(o) = {<<o.key, o.value>>}
  BY DEF Puts
<1>2. o.op = "replace_subtree" => Puts(o) = {<<k, o.map[k]>> : k \in DOMAIN o.map}
  BY DEF Puts
<1>3. o.op \in {"remove", "remove_subtree"} => Puts(o) = {}
  BY DEF Puts
<1>4. {p[1] : p \in {<<k, o.map[k]>> : k \in DOMAIN o.map}} = DOMAIN o.map
  <2> DEFINE P == {<<k, o.map[k]>> : k \in DOMAIN o.map}
  <2>1. \A p \in P : p[1] \in DOMAIN o.map
    OBVIOUS
  <2>2. ASSUME NEW k \in DOMAIN o.map PROVE \E p \in P : p[1] = k
    <3>1. <<k, o.map[k]>> \in P /\ <<k, o.map[k]>>[1] = k
      OBVIOUS
    <3> QED
      BY <3>1, Zenon
  <2> HIDE DEF P
  <2>3. {p[1] : p \in P} = DOMAIN o.map
    BY <2>1, <2>2
  <2> QED
    BY <2>3 DEF P
<1>5. {p[1] : p \in {<<o.key, o.value>>}} = {o.key}
  OBVIOUS
<1>6. CASE o.op = "set"
  BY <1>1, <1>5, <1>6
<1>7. CASE o.op = "replace_subtree"
  BY <1>2, <1>4, <1>7
<1>8. CASE o.op \in {"remove", "remove_subtree"}
  BY <1>3, <1>8
<1> QED
  BY <1>6, <1>7, <1>8

(* What an operation puts into the tree are ints at OIDs it is about. *)
LEMMA PutsTyped ==
  ASSUME NEW o, IsOperation(o)
  PROVE  /\ \A p \in Puts(o) : /\ p = <<p[1], p[2]>> /\ p[1] \in OIDs /\ p[2] \in int
                               /\ Touches(o, p[1])
         /\ \A p, q \in Puts(o) : p[1] = q[1] => p = q
         /\ IsFiniteSet({p[1] : p \in Puts(o)})
         /\ \A k : Removes(o, k) <=> Touches(o, k) /\ \A p \in Puts(o) : p[1] # k
<1>1. CASE o.op = "set"
  <2>1. Puts(o) = {<<o.key, o.value>>} /\ {p[1] : p \in Puts(o)} = {o.key}
    BY <1>1, PutsCases
  <2>2. \A k : Touches(o, k) <=> k = o.key
    BY <1>1 DEF Touches
  <2>3. \A k : ~Removes(o, k)
    BY <1>1 DEF Removes
  <2>4. IsFiniteSet({p[1] : p \in Puts(o)})
    BY <2>1, FS_Singleton, Zenon
  <2>5. o.key \in OIDs /\ o.value \in int
    BY <1>1 DEF IsOperation
  <2>6. \A p \in Puts(o) : p[1] = o.key /\ p[2] = o.value /\ p = <<p[1], p[2]>>
    BY <2>1
  <2> QED
    BY <2>1, <2>2, <2>3, <2>4, <2>5, <2>6
<1>2. CASE o.op = "replace_subtree"
  <2>1. /\ Puts(o) = {<<k, o.map[k]>> : k \in DOMAIN o.map}
        /\ {p[1] : p \in Puts(o)} = DOMAIN o.map
    BY <1>2, PutsCases
  <2>2. \A k : Touches(o, k) <=> subtree_contains(o.key, k)
    BY <1>2 DEF Touches
  <2>3. \A k : Removes(o, k) <=> subtree_contains(o.key, k) /\ k \notin DOMAIN o.map
    BY <1>2 DEF Removes
  <2>4. IsFiniteSet({p[1] : p \in Puts(o)})
    BY <1>2, <2>1 DEF IsOperation
  <2>5. \A p \in Puts(o) : p[1] \in DOMAIN o.map /\ p[2] = o.map[p[1]] /\ p = <<p[1], p[2]>>
    BY <2>1
  <2>6. \A k \in DOMAIN o.map : \E p \in Puts(o) : p[1] = k
    BY <2>1
  <2>7. \A k \in DOMAIN o.map : k \in OIDs /\ o.map[k] \in int /\ Touches(o, k)
    BY <1>2, <2>2 DEF IsOperation, subtree_contains
  <2> HIDE DEF Touches
  <2> QED
    BY <2>2, <2>3, <2>4, <2>5, <2>6, <2>7
<1>3. CASE o.op \in {"remove", "remove_subtree"}
  <2>1. Puts(o) = {} /\ {p[1] : p \in Puts(o)} = {}
    BY <1>3, PutsCases
  <2>2. \A k : Removes(o, k) <=> Touches(o, k)
    BY <1>3 DEF Removes, Touches
  <2> QED
    BY <2>1, <2>2, FS_EmptySet
<1> QED
  BY <1>1, <1>2, <1>3 DEF IsOperation

(* The OIDTree after an operation: what it is not about stays as it was,   *)
(* and of what it is about there is what it puts there.                    *)
LEMMA ApplyEffect ==
  ASSUME NEW o, IsOperation(o), NEW m
  PROVE  /\ DOMAIN Apply(m, o) = {k \in DOMAIN m : ~Touches(o, k)} \cup {p[1] : p \in Puts(o)}
         /\ \A k \in DOMAIN m : ~Touches(o, k) => Apply(m, o)[k] = m[k]
         /\ \A p \in Puts(o) : Apply(m, o)[p[1]] = p[2]
<1>1. CASE o.op = "set"
  <2>1. Apply(m, o) = [k \in DOMAIN m \cup {o.key} |-> IF k = o.key THEN o.value ELSE m[k]]
    BY <1>1 DEF Apply, set
  <2>2. Puts(o) = {<<o.key, o.value>>} /\ {p[1] : p \in Puts(o)} = {o.key}
    BY <1>1, PutsCases
  <2>3. \A k : Touches(o, k) <=> k = o.key
    BY <1>1 DEF Touches
  <2> QED
    BY <2>1, <2>2, <2>3
<1>2. CASE o.op = "replace_subtree"
  <2> DEFINE stay == {k \in DOMAIN m : ~subtree_contains(o.key, k)}
             kept == [k \in stay |-> m[k]]
  <2>1. Apply(m, o) = [k \in stay \cup DOMAIN o.map |->
                         IF k \in stay THEN kept[k] ELSE o.map[k]]
    BY <1>2 DEF Apply, replace_subtree, remove_subtree, Restrict
  <2>2. /\ Puts(o) = {<<k, o.map[k]>> : k \in DOMAIN o.map}
        /\ {p[1] : p \in Puts(o)} = DOMAIN o.map
    BY <1>2, PutsCases
  <2>3. \A k : Touches(o, k) <=> subtree_contains(o.key, k)
    BY <1>2 DEF Touches
  <2>4. \A k \in DOMAIN o.map : k \notin stay
    BY <1>2 DEF IsOperation, subtree_contains
  <2> QED
    BY <2>1, <2>2, <2>3, <2>4
<1>3. CASE o.op \in {"remove", "remove_subtree"}
  <2>1. Puts(o) = {}
    BY <1>3 DEF Puts
  <2>2. Apply(m, o) = [k \in {j \in DOMAIN m : ~Touches(o, j)} |-> m[k]]
    <3>1. CASE o.op = "remove"
      <4>1. DOMAIN m \ {o.key} = {j \in DOMAIN m : ~Touches(o, j)}
        BY <3>1 DEF Touches
      <4> QED
        BY <3>1, <4>1 DEF Apply, remove, Restrict
    <3>2. CASE o.op = "remove_subtree"
      <4>1. {j \in DOMAIN m : ~subtree_contains(o.key, j)} = {j \in DOMAIN m : ~Touches(o, j)}
        BY <3>2 DEF Touches
      <4> QED
        BY <3>2, <4>1 DEF Apply, remove_subtree, Restrict
    <3> QED
      BY <1>3, <3>1, <3>2
  <2> QED
    BY <2>1, <2>2
<1> QED
  BY <1>1, <1>2, <1>3 DEF IsOperation

(* The same by values: an OID that is touched holds what was put there.     *)
LEMMA ApplyHolds ==
  ASSUME NEW o, IsOperation(o), NEW m
  PROVE  LET next == Apply(m, o) IN
         /\ \A k, v : Touches(o, k) =>
              ((k \in DOMAIN next /\ next[k] = v) <=> <<k, v>> \in Puts(o))
         /\ \A k, v : ~Touches(o, k) =>
              ((k \in DOMAIN next /\ next[k] = v) <=> (k \in DOMAIN m /\ m[k] = v))
         /\ IsFiniteSet(DOMAIN m) => IsFiniteSet(DOMAIN next)
<1> DEFINE next == Apply(m, o)
           put == {p[1] : p \in Puts(o)}
           kept == {k \in DOMAIN m : ~Touches(o, k)}
<1>1. /\ DOMAIN next = kept \cup put
      /\ \A k \in DOMAIN m : ~Touches(o, k) => next[k] = m[k]
      /\ \A p \in Puts(o) : next[p[1]] = p[2]
  BY ApplyEffect, Zenon
<1>2. /\ \A p \in Puts(o) : p = <<p[1], p[2]>> /\ Touches(o, p[1])
      /\ IsFiniteSet(put)
  BY PutsTyped
<1>3. /\ \A k \in put : \E p \in Puts(o) : p[1] = k
      /\ \A p \in Puts(o) : p[1] \in put
  OBVIOUS
<1> HIDE DEF next, put
<1>4. ASSUME NEW k, NEW v, Touches(o, k)
      PROVE  (k \in DOMAIN next /\ next[k] = v) <=> <<k, v>> \in Puts(o)
  <2>1. ASSUME k \in DOMAIN next, next[k] = v PROVE <<k, v>> \in Puts(o)
    <3>1. PICK p \in Puts(o) : p[1] = k
      BY <1>1, <1>3, <1>4, <2>1
    <3>2. p[2] = v
      BY <1>1, <2>1, <3>1
    <3> QED
      BY <1>2, <3>1, <3>2
  <2>2. ASSUME <<k, v>> \in Puts(o) PROVE k \in DOMAIN next /\ next[k] = v
    <3>1. <<k, v>>[1] = k /\ <<k, v>>[2] = v
      OBVIOUS
    <3> QED
      BY <1>1, <1>3, <2>2, <3>1
  <2> QED
    BY <2>1, <2>2
<1>5. ASSUME NEW k, NEW v, ~Touches(o, k)
      PROVE  (k \in DOMAIN next /\ next[k] = v) <=> (k \in DOMAIN m /\ m[k] = v)
  BY <1>1, <1>2, <1>3, <1>5
<1>6. IsFiniteSet(DOMAIN m) => IsFiniteSet(DOMAIN next)
  <2>1. kept \subseteq DOMAIN m
    OBVIOUS
  <2> HIDE DEF kept
  <2> QED
    BY <1>1, <1>2, <2>1, FS_Subset, FS_Union, Zenon
<1> QED
  BY <1>4, <1>5, <1>6 DEF next

-----------------------------------------------------------------------------
(* atoi keeps the bits of an int. *)
LEMMA AtoiIsInt ==
  ASSUME NEW text \in Texts
  PROVE  atoi(text) \in int
<1> DEFINE half == WORD \div 2
           x == text.number + half
<1>1. WORD \in Nat \ {0} /\ half \in Int /\ WORD = 2 * half
  BY WordAssumption
<1>2. x \in Int
  BY <1>1 DEF Texts
<1>3. atoi(text) = (x % WORD) - half /\ int = -half .. half - 1
  BY DEF atoi, int
<1> HIDE DEF half, x
<1>4. x % WORD \in 0 .. WORD - 1
  BY <1>1, <1>2
<1> QED
  BY <1>1, <1>3, <1>4

(* What a function makes of finitely many values are finitely many. *)
LEMMA FiniteImage ==
  ASSUME NEW S, IsFiniteSet(S), NEW g, g = [x \in S |-> g[x]]
  PROVE  IsFiniteSet({g[x] : x \in S})
<1> DEFINE T == {g[x] : x \in S}
<1>1. g \in [S -> T]
  OBVIOUS
<1>2. g \in Surjection(S, T)
  BY <1>1 DEF Surjection
<1> QED
  BY <1>2, FS_Surjection

(* The numbers in a map that is filled from a message are ints. *)
LEMMA FilledTyped ==
  ASSUME NEW f \in Seq(Texts), NEW cells, \A c \in cells : c[2] \in 1 .. Len(f)
  PROVE  /\ DOMAIN Filled(cells, f) = {c[1] : c \in cells}
         /\ \A o \in DOMAIN Filled(cells, f) : Filled(cells, f)[o] \in int
<1>1. DOMAIN Filled(cells, f) = {c[1] : c \in cells}
  BY DEF Filled
<1>2. ASSUME NEW o \in {c[1] : c \in cells} PROVE Filled(cells, f)[o] \in int
  <2> DEFINE parts == {c[2] : c \in {d \in cells : d[1] = o}}
  <2>1. parts \in SUBSET (1 .. Len(f)) /\ parts # {}
    BY <1>2
  <2>2. Max(parts) \in 1 .. Len(f)
    <3> HIDE DEF parts
    <3> QED
      BY <2>1, MaxIsElement, Len(f) \in Nat, Zenon
  <2>3. f[Max(parts)] \in Texts
    BY <2>2
  <2>4. Filled(cells, f)[o] = atoi(f[Max(parts)])
    BY <1>2 DEF Filled
  <2> QED
    BY <2>3, <2>4, AtoiIsInt
<1> QED
  BY <1>1, <1>2

(* A handler that fills a map with OIDs below a root and replaces it. *)
LEMMA ReplaceIsOperation ==
  ASSUME NEW root \in OIDs, NEW f \in Seq(Texts), NEW cells, IsFiniteSet(cells),
         \A c \in cells : /\ c[1] \in OIDs /\ IsPrefix(root, c[1])
                          /\ c[2] \in 1 .. Len(f)
  PROVE  IsOperation(ReplaceSubtree(root, Filled(cells, f)))
<1> DEFINE m == Filled(cells, f)
           o == ReplaceSubtree(root, m)
<1>1. DOMAIN m = {c[1] : c \in cells} /\ \A k \in DOMAIN m : m[k] \in int
  BY FilledTyped, Zenon
<1>2. IsFiniteSet({c[1] : c \in cells})
  <2> DEFINE g == [c \in cells |-> c[1]]
  <2>1. g = [c \in cells |-> g[c]]
    OBVIOUS
  <2>2. IsFiniteSet({g[c] : c \in cells})
    <3> HIDE DEF g
    <3> QED
      BY <2>1, FiniteImage
  <2>3. {g[c] : c \in cells} = {c[1] : c \in cells}
    OBVIOUS
  <2> QED
    BY <2>2, <2>3, Zenon
<1>3. o.op = "replace_subtree" /\ o.key = root /\ o.map = m
  BY DEF ReplaceSubtree
<1> HIDE DEF m, o
<1>4. IsOperation(o)
  BY <1>1, <1>2, <1>3 DEF IsOperation
<1> QED
  BY <1>4 DEF o, m

-----------------------------------------------------------------------------
(* Finitely many finite sets have finitely many elements. *)
LEMMA FiniteUnion ==
  ASSUME NEW S, IsFiniteSet(S), NEW g, g = [x \in S |-> g[x]],
         \A x \in S : IsFiniteSet(g[x])
  PROVE  IsFiniteSet(UNION {g[x] : x \in S})
<1>1. IsFiniteSet({g[x] : x \in S})
  BY FiniteImage
<1>2. \A T \in {g[x] : x \in S} : IsFiniteSet(T)
  OBVIOUS
<1> QED
  BY <1>1, <1>2, FS_UNION, Zenon

(* A handler that makes a single call. *)
LEMMA SingleCall ==
  ASSUME NEW h, IsHandler(h), h.class \notin {"AstaireGlobal", "AstaireConnection"},
         NEW o, IsOperation(o), o.key = h.oid,
         h.class = "Bare" <=> o.op \in {"set", "remove"}
  PROVE  Calls(h, <<o>>)
<1>1. Roots(h) = {h.oid}
  BY DEF IsHandler, Classes, Roots
<1>2. Scalars(h) <=> h.class = "Bare"
  BY DEF Scalars
<1>3. <<o>> \in Seq({o}) /\ DOMAIN <<o>> = {1} /\ <<o>>[1] = o
  OBVIOUS
<1> HIDE DEF Scalars
<1> DEFINE ops == <<o>>
<1> HIDE DEF ops
<1>4. ops \in Seq({o}) /\ DOMAIN ops = {1} /\ ops[1] = o
  BY <1>3 DEF ops
<1>5. Calls(h, ops)
  BY <1>1, <1>2, <1>4 DEF Calls
<1> QED
  BY <1>5 DEF ops

(* IPCountStatHandler replaces its subtree. *)
LEMMA IPCountCalls ==
  ASSUME NEW h, IsHandler(h), h.class = "IPCount", NEW f \in Seq(Texts)
  PROVE  Calls(h, IPCountStatHandler(h.oid, f))
<1> DEFINE D == {j \in 1 .. Len(f) - 1 : isValid(f[j].addr)}
           Pair(i) == <<h.oid \o <<1, 3>> \o toOIDBytes(f[i].addr), i + 1>>
           cells == {Pair(i) : i \in D}
           o == ReplaceSubtree(h.oid, Filled(cells, f))
<1>1. h.oid \in OIDs /\ Len(f) \in Nat
  BY DEF IsHandler
<1>2. IsFiniteSet(cells)
  <2> DEFINE g == [i \in D |-> Pair(i)]
  <2>1. IsFiniteSet(D)
    <3>1. IsFiniteSet(1 .. Len(f) - 1)
      BY <1>1, FS_Interval
    <3> QED
      BY <3>1, FS_Subset
  <2>2. g = [i \in D |-> g[i]] /\ {g[i] : i \in D} = cells
    BY Zenon
  <2> HIDE DEF g, D, cells
  <2> QED
    BY <2>1, <2>2, FiniteImage
<1>3. ASSUME NEW c \in cells
      PROVE  c[1] \in OIDs /\ IsPrefix(h.oid, c[1]) /\ c[2] \in 1 .. Len(f)
  <2>1. PICK i \in D : c = Pair(i)
    BY Zenon
  <2>2. i \in 1 .. Len(f) /\ i + 1 \in 1 .. Len(f)
    BY <1>1
  <2>3. toOIDBytes(f[i].addr) \in OIDs
    BY <2>2, BytesTyped
  <2> DEFINE x == <<1, 3>>
             y == toOIDBytes(f[i].addr)
             z == h.oid \o x
  <2>4. x \in OIDs /\ z \in OIDs /\ IsPrefix(h.oid, z)
    <3>1. x \in OIDs
      BY DEF OIDs
    <3> QED
      BY <1>1, <3>1, ConcatPrefix
  <2>5. z \o y \in OIDs /\ IsPrefix(z, z \o y)
    BY <2>3, <2>4, ConcatPrefix
  <2>6. IsPrefix(h.oid, z \o y)
    <3> HIDE DEF z, y
    <3> QED
      BY <1>1, <2>4, <2>5, PrefixTransitive
  <2>7. c[1] = z \o y /\ c[2] = i + 1
    BY <2>1, Zenon
  <2> QED
    BY <2>2, <2>5, <2>6, <2>7
<1>4. IsOperation(o)
  <2> HIDE DEF cells
  <2> QED
    BY <1>1, <1>2, <1>3, ReplaceIsOperation
<1>5. o.key = h.oid /\ o.op = "replace_subtree"
  BY DEF ReplaceSubtree
<1>6. IPCountStatHandler(h.oid, f) = <<o>>
  BY DEF IPCountStatHandler
<1> HIDE DEF o
<1> QED
  BY <1>4, <1>5, <1>6, SingleCall

(* BareStatHandler sets its OID or leaves it. *)
LEMMA BareCalls ==
  ASSUME NEW h, IsHandler(h), h.class = "Bare", NEW f \in Seq(Texts)
  PROVE  Calls(h, BareStatHandler(h.oid, f))
<1>1. CASE Len(f) >= 1
  <2> DEFINE o == Set(h.oid, atoi(f[1]))
  <2>1. f[1] \in Texts
    BY <1>1
  <2>2. o.op = "set" /\ o.key = h.oid /\ o.value = atoi(f[1]) /\ h.oid \in OIDs
    BY DEF Set, IsHandler
  <2>3. IsOperation(o)
    <3> HIDE DEF o
    <3> QED
      BY <2>1, <2>2, AtoiIsInt DEF IsOperation
  <2>4. BareStatHandler(h.oid, f) = <<o>>
    BY <1>1 DEF BareStatHandler
  <2> HIDE DEF o
  <2> QED
    BY <2>2, <2>3, <2>4, SingleCall
<1>2. CASE ~(Len(f) >= 1)
  <2>1. BareStatHandler(h.oid, f) = <<>>
    BY <1>2 DEF BareStatHandler
  <2>2. <<>> \in Seq({}) /\ DOMAIN <<>> = {}
    OBVIOUS
  <2> QED
    BY <2>1, <2>2 DEF Calls
<1> QED
  BY <1>1, <1>2

(* The handlers that replace or remove their whole subtree. *)
LEMMA WholeSubtreeCalls ==
  ASSUME NEW h, IsHandler(h), h.class \notin {"AstaireGlobal", "AstaireConnection", "Bare"},
         NEW f \in Seq(Texts), NEW columns \in Seq(OIDs)
  PROVE  Calls(h, WholeSubtree(h.oid, f, columns))
<1> DEFINE D == DOMAIN columns
           cells == {<<h.oid \o columns[i], i>> : i \in D}
           o == ReplaceSubtree(h.oid, Filled(cells, f))
           e == RemoveSubtree(h.oid)
<1>1. h.oid \in OIDs /\ Len(f) \in Nat /\ Len(columns) \in Nat /\ D = 1 .. Len(columns)
  BY DEF IsHandler
<1>2. CASE Len(f) >= Len(columns)
  <2>1. IsFiniteSet(cells)
    <3> DEFINE g == [i \in D |-> <<h.oid \o columns[i], i>>]
    <3>1. IsFiniteSet(D)
      BY <1>1, FS_Interval
    <3>2. g = [i \in D |-> g[i]] /\ {g[i] : i \in D} = cells
      OBVIOUS
    <3> HIDE DEF g, D, cells
    <3> QED
      BY <3>1, <3>2, FiniteImage
  <2>2. ASSUME NEW c \in cells
        PROVE  c[1] \in OIDs /\ IsPrefix(h.oid, c[1]) /\ c[2] \in 1 .. Len(f)
    <3>1. PICK i \in D : c = <<h.oid \o columns[i], i>>
      OBVIOUS
    <3>2. columns[i] \in OIDs /\ i \in 1 .. Len(f)
      BY <1>1, <1>2
    <3>3. h.oid \o columns[i] \in OIDs /\ IsPrefix(h.oid, h.oid \o columns[i])
      BY <1>1, <3>2, ConcatPrefix
    <3> QED
      BY <3>1, <3>2, <3>3
  <2>3. IsOperation(o)
    <3> HIDE DEF cells
    <3> QED
      BY <1>1, <2>1, <2>2, ReplaceIsOperation
  <2>4. o.key = h.oid /\ o.op = "replace_subtree"
    BY DEF ReplaceSubtree
  <2>5. WholeSubtree(h.oid, f, columns) = <<o>>
    BY <1>2 DEF WholeSubtree
  <2> HIDE DEF o
  <2> QED
    BY <2>3, <2>4, <2>5, SingleCall
<1>3. CASE ~(Len(f) >= Len(columns))
  <2>1. e.key = h.oid /\ e.op = "remove_subtree"
    BY DEF RemoveSubtree
  <2>2. WholeSubtree(h.oid, f, columns) = <<e>>
    BY <1>3 DEF WholeSubtree
  <2> HIDE DEF e
  <2>3. IsOperation(e)
    BY <1>1, <2>1 DEF IsOperation
  <2> QED
    BY <2>1, <2>2, <2>3, SingleCall
<1> QED
  BY <1>2, <1>3

(* The OIDs that AstaireGlobalStatHandler sets or removes. *)
LEMMA GlobalOIDs ==
  /\ DOMAIN Global_oids = 1 .. 5 /\ Len(Global_oids) = 5
  /\ \A i \in 1 .. 5 : Global_oids[i] \in OIDs
  /\ \A i, j \in 1 .. 5 : subtree_contains(Global_oids[i], Global_oids[j]) => i = j
<1>1. /\ DOMAIN Global_oids = 1 .. 5 /\ Len(Global_oids) = 5
      /\ Global_oids[1] = <<1, 0>> /\ Global_oids[2] = <<2, 0>>
      /\ Global_oids[3] = <<3, 0>> /\ Global_oids[4] = <<4, 0>>
      /\ Global_oids[5] = <<5, 1, 2, 1>>
  BY DEF Global_oids
<1>2. \A i \in 1 .. 5 : i = 1 \/ i = 2 \/ i = 3 \/ i = 4 \/ i = 5
  OBVIOUS
<1>3. \A i \in 1 .. 5 : Global_oids[i] \in OIDs
  <2>1. /\ <<1, 0>> \in OIDs /\ <<2, 0>> \in OIDs /\ <<3, 0>> \in OIDs
        /\ <<4, 0>> \in OIDs /\ <<5, 1, 2, 1>> \in OIDs
    BY DEF OIDs
  <2> QED
    BY <1>1, <1>2, <2>1
<1>4. \A i \in 1 .. 5 : Global_oids[i][1] = i /\ Len(Global_oids[i]) >= 1
  <2>1. /\ <<1, 0>>[1] = 1 /\ <<2, 0>>[1] = 2 /\ <<3, 0>>[1] = 3
        /\ <<4, 0>>[1] = 4 /\ <<5, 1, 2, 1>>[1] = 5
        /\ Len(<<1, 0>>) >= 1 /\ Len(<<2, 0>>) >= 1 /\ Len(<<3, 0>>) >= 1
        /\ Len(<<4, 0>>) >= 1 /\ Len(<<5, 1, 2, 1>>) >= 1
    OBVIOUS
  <2> QED
    BY <1>1, <1>2, <2>1
<1>5. ASSUME NEW i \in 1 .. 5, NEW j \in 1 .. 5,
             subtree_contains(Global_oids[i], Global_oids[j])
      PROVE  i = j
  <2> DEFINE a == Global_oids[i]
             b == Global_oids[j]
  <2>1. a \in OIDs /\ b \in OIDs /\ a[1] = i /\ b[1] = j /\ Len(a) >= 1 /\ Len(b) >= 1
    BY <1>3, <1>4
  <2>2. IsPrefix(a, b) \/ IsPrefix(b, a)
    BY <1>5 DEF subtree_contains
  <2> HIDE DEF a, b
  <2>3. Len(a) \in Nat /\ Len(b) \in Nat
    BY <2>1 DEF OIDs
  <2>4. a[1] = b[1]
    BY <2>1, <2>2, <2>3, PrefixElements
  <2> QED
    BY <2>1, <2>4
<1> QED
  BY <1>1, <1>3, <1>5

(* The bases of the Astaire tables. *)
LEMMA AstaireBases ==
  LET B == {connection_base_oid, bucket_base_oid, bucket_bandwidth_base_oid} IN
  /\ \A a \in B : a \in OIDs
  /\ \A a, b \in B : subtree_contains(a, b) => a = b
  /\ connection_base_oid # bucket_base_oid
  /\ connection_base_oid # bucket_bandwidth_base_oid
  /\ bucket_base_oid # bucket_bandwidth_base_oid
<1> DEFINE B == {connection_base_oid, bucket_base_oid, bucket_bandwidth_base_oid}
<1>1. \A a \in B : a \in OIDs
  <2>1. connection_base_oid \in OIDs
    BY DEF OIDs, connection_base_oid
  <2>2. bucket_base_oid \in OIDs
    BY DEF OIDs, bucket_base_oid
  <2>3. bucket_bandwidth_base_oid \in OIDs
    BY DEF OIDs, bucket_bandwidth_base_oid
  <2> QED
    BY <2>1, <2>2, <2>3
<1>2. /\ connection_base_oid[1] = 6 /\ Len(connection_base_oid) = 2
      /\ bucket_base_oid[1] = 7 /\ Len(bucket_base_oid) = 2
      /\ bucket_bandwidth_base_oid[1] = 8 /\ Len(bucket_bandwidth_base_oid) = 2
  BY DEF connection_base_oid, bucket_base_oid, bucket_bandwidth_base_oid
<1>3. \A a, b \in B : subtree_contains(a, b) => a[1] = b[1]
  <2> SUFFICES ASSUME NEW a \in B, NEW b \in B, subtree_contains(a, b)
               PROVE  a[1] = b[1]
    OBVIOUS
  <2>1. Len(a) >= 1 /\ Len(b) >= 1
    BY <1>2
  <2>2. a \in OIDs /\ b \in OIDs
    BY <1>1
  <2> HIDE DEF B
  <2> QED
    BY <2>1, <2>2, PrefixElements DEF subtree_contains
<1> QED
  BY <1>1, <1>2, <1>3

(* The roots of a handler are OIDs, none of them below another. *)
LEMMA RootsApart ==
  ASSUME NEW h, IsHandler(h)
  PROVE  /\ \A r \in Roots(h) : r \in OIDs
         /\ \A r, q \in Roots(h) : subtree_contains(r, q) => r = q
<1>1. h.oid \in OIDs
  BY DEF IsHandler
<1>2. CASE h.class = "AstaireGlobal"
  <2>1. Roots(h) = {h.oid \o Global_oids[i] : i \in 1 .. 5}
    BY <1>2, GlobalOIDs DEF Roots
  <2>2. \A i \in 1 .. 5 : h.oid \o Global_oids[i] \in OIDs
    BY <1>1, GlobalOIDs, ConcatPrefix
  <2>3. ASSUME NEW i \in 1 .. 5, NEW j \in 1 .. 5,
               subtree_contains(h.oid \o Global_oids[i], h.oid \o Global_oids[j])
        PROVE  i = j
    <3>1. Global_oids[i] \in OIDs /\ Global_oids[j] \in OIDs
      BY GlobalOIDs
    <3>2. subtree_contains(Global_oids[i], Global_oids[j])
      BY <1>1, <2>3, <3>1, ConcatComparable
    <3> QED
      BY <3>2, GlobalOIDs
  <2> QED
    BY <2>1, <2>2, <2>3, Zenon
<1>3. CASE h.class = "AstaireConnection"
  <2> DEFINE B == {connection_base_oid, bucket_base_oid, bucket_bandwidth_base_oid}
  <2>1. Roots(h) = {h.oid \o b : b \in B}
    BY <1>3 DEF Roots
  <2>2. \A b \in B : b \in OIDs
    BY AstaireBases
  <2>3. \A a, b \in B : subtree_contains(a, b) => a = b
    BY AstaireBases
  <2> HIDE DEF B
  <2>4. \A b \in B : h.oid \o b \in OIDs
    BY <1>1, <2>2, ConcatPrefix
  <2>5. ASSUME NEW a \in B, NEW b \in B, subtree_contains(h.oid \o a, h.oid \o b)
        PROVE  a = b
    <3>1. subtree_contains(a, b)
      BY <1>1, <2>2, <2>5, ConcatComparable
    <3> QED
      BY <2>3, <3>1
  <2> QED
    BY <2>1, <2>4, <2>5, Zenon
<1>4. CASE h.class \notin {"AstaireGlobal", "AstaireConnection"}
  <2>1. Roots(h) = {h.oid}
    BY <1>4 DEF IsHandler, Classes, Roots
  <2> QED
    BY <1>1, <2>1
<1> QED
  BY <1>2, <1>3, <1>4

(* AstaireGlobalStatHandler sets or removes each of its OIDs. *)
LEMMA AstaireGlobalCalls ==
  ASSUME NEW h, IsHandler(h), h.class = "AstaireGlobal", NEW f \in Seq(Texts)
  PROVE  Calls(h, AstaireGlobalStatHandler(h.oid, f))
<1> DEFINE ops == AstaireGlobalStatHandler(h.oid, f)
           r(i) == h.oid \o Global_oids[i]
           v(i) == IF Len(f) >= 5 THEN Set(r(i), atoi(f[i])) ELSE Erase(r(i))
<1>1. ops = [i \in 1 .. 5 |-> v(i)]
  BY GlobalOIDs DEF AstaireGlobalStatHandler
<1>2. h.oid \in OIDs /\ Scalars(h) /\ Roots(h) = {r(i) : i \in 1 .. 5}
  BY GlobalOIDs DEF IsHandler, Scalars, Roots
<1>3. \A i \in 1 .. 5 : r(i) \in OIDs
  BY <1>2, GlobalOIDs, ConcatPrefix
<1>4. \A i, j \in 1 .. 5 : r(i) = r(j) => i = j
  <2> SUFFICES ASSUME NEW i \in 1 .. 5, NEW j \in 1 .. 5, r(i) = r(j) PROVE i = j
    BY Zenon
  <2>1. Global_oids[i] \in OIDs /\ Global_oids[j] \in OIDs
    BY GlobalOIDs
  <2>2. IsPrefix(r(i), r(j))
    <3>1. \A x \in OIDs : IsPrefix(x, x)
      BY PrefixElements DEF OIDs
    <3> QED
      BY <1>3, <3>1
  <2>3. subtree_contains(Global_oids[i], Global_oids[j])
    BY <1>2, <2>1, <2>2, ConcatPrefixes, Zenon DEF subtree_contains
  <2> QED
    BY <2>3, GlobalOIDs
<1>5. ASSUME NEW i \in 1 .. 5
      PROVE  IsOperation(v(i)) /\ v(i).key = r(i) /\ v(i).op \in {"set", "remove"}
  <2> DEFINE o == v(i)
             k == r(i)
  <2> k \in OIDs
    BY <1>3
  <2>1. CASE Len(f) >= 5
    <3>1. f[i] \in Texts
      BY <2>1
    <3>2. o = Set(k, atoi(f[i])) /\ atoi(f[i]) \in int
      BY <2>1, <3>1, AtoiIsInt
    <3> HIDE DEF o, k
    <3>3. IsOperation(o) /\ o.key = k /\ o.op \in {"set", "remove"}
      BY <3>2 DEF IsOperation, Set
    <3> QED
      BY <3>3, Zenon DEF o, k
  <2>2. CASE ~(Len(f) >= 5)
    <3>1. o = Erase(k)
      BY <2>2
    <3> HIDE DEF o, k
    <3>2. IsOperation(o) /\ o.key = k /\ o.op \in {"set", "remove"}
      BY <3>1 DEF IsOperation, Erase
    <3> QED
      BY <3>2, Zenon DEF o, k
  <2> QED
    BY <2>1, <2>2, Zenon
<1> HIDE DEF r, v
<1>6. ops \in Seq({v(i) : i \in 1 .. 5}) /\ DOMAIN ops = 1 .. 5
  BY <1>1
<1>7. \A i \in 1 .. 5 : ops[i] = v(i)
  BY <1>1
<1> HIDE DEF ops
<1>8. Calls(h, ops)
  BY <1>2, <1>4, <1>5, <1>6, <1>7 DEF Calls
<1> QED
  BY <1>8 DEF ops

(* Where the buckets of a connection are. *)
LEMMA BucketsInside ==
  ASSUME NEW f \in Seq(Texts), NEW i \in 1 .. Len(f), Intact(f, i),
         NEW j \in Range(Buckets(f, i))
  PROVE  j \in 1 .. Len(f) /\ j + 3 \in 1 .. Len(f)
<1> DEFINE n == atoi(f[i + 4])
<1>1. Len(f) \in Nat /\ i + 4 \in 1 .. Len(f)
  BY DEF Intact, Legible
<1>2. n \in Int
  BY <1>1, AtoiIsInt, WordAssumption DEF int
<1> HIDE DEF n
<1>3. Buckets(f, i) = [b \in 1 .. n |-> i + 5 + 4 * (b - 1)]
  BY DEF Buckets, BucketStarts, n
<1>4. PICK b \in 1 .. n : j = i + 5 + 4 * (b - 1)
  BY <1>3 DEF Range
<1>5. n \in Nat /\ Len(Buckets(f, i)) = n
  BY <1>2, <1>3, <1>4
<1>6. Len(f) >= i + 5 + 4 * n - 1
  BY <1>5 DEF Intact, End
<1> QED
  BY <1>1, <1>4, <1>5, <1>6

(* A handler that replaces the rows below a base. *)
LEMMA ReplaceRows ==
  ASSUME NEW root \in OIDs, NEW f \in Seq(Texts), NEW cells, IsFiniteSet(cells),
         \A c \in cells : c[1] \in OIDs /\ c[2] \in 1 .. Len(f)
  PROVE  LET rows == {<<root \o c[1], c[2]>> : c \in cells}
         IN  IsOperation(ReplaceSubtree(root, Filled(rows, f)))
<1> DEFINE rows == {<<root \o c[1], c[2]>> : c \in cells}
           g == [c \in cells |-> <<root \o c[1], c[2]>>]
<1>1. IsFiniteSet(rows)
  <2>1. g = [c \in cells |-> g[c]] /\ {g[c] : c \in cells} = rows
    OBVIOUS
  <2> HIDE DEF g, rows
  <2> QED
    BY <2>1, FiniteImage
<1>2. ASSUME NEW d \in rows
      PROVE  d[1] \in OIDs /\ IsPrefix(root, d[1]) /\ d[2] \in 1 .. Len(f)
  <2>1. PICK c \in cells : d = <<root \o c[1], c[2]>>
    OBVIOUS
  <2>2. root \o c[1] \in OIDs /\ IsPrefix(root, root \o c[1])
    BY ConcatPrefix
  <2> QED
    BY <2>1, <2>2
<1> HIDE DEF rows
<1>3. IsOperation(ReplaceSubtree(root, Filled(rows, f)))
  BY <1>1, <1>2, ReplaceIsOperation
<1> QED
  BY <1>3 DEF rows

(* The cells of a connection or a bucket are few. *)
LEMMA FewCells ==
  ASSUME NEW id, NEW i
  PROVE  /\ IsFiniteSet(ConnectionCells(id, i)) /\ IsFiniteSet(BucketCells(id, i))
         /\ IsFiniteSet(BandwidthCells(id, i))
<1>1. \A a, b : IsFiniteSet({a, b})
  <2> SUFFICES ASSUME NEW a, NEW b PROVE IsFiniteSet({a, b})
    OBVIOUS
  <2>1. {a, b} = {a} \cup {b}
    OBVIOUS
  <2>2. IsFiniteSet({a}) /\ IsFiniteSet({b})
    BY FS_Singleton
  <2> QED
    BY <2>1, <2>2, FS_Union, Zenon
<1>2. \A a : IsFiniteSet({a})
  BY FS_Singleton
<1> QED
  BY <1>1, <1>2, Zenon DEF ConnectionCells, BucketCells, BandwidthCells

(* AstaireConnectionStatHandler replaces its three subtrees. *)
LEMMA AstaireConnectionCalls ==
  ASSUME NEW h, IsHandler(h), h.class = "AstaireConnection", NEW f \in Seq(Texts)
  PROVE  Calls(h, AstaireConnectionStatHandler(h.oid, f))
<1> DEFINE index(i) == toOIDBytes(f[i].addr) \o <<atoi(f[i + 1])>>
           C == Connections(f)
           I == {j \in Connections(f) : Intact(f, j)}
           bucketsOf(i) == {<<index(i) \o <<atoi(f[j])>>, j>> : j \in Range(Buckets(f, i))}
           buckets == UNION {bucketsOf(i) : i \in I}
           cc == UNION {ConnectionCells(index(i), i) : i \in C}
           bc == UNION {BucketCells(b[1], b[2]) : b \in buckets}
           wc == UNION {BandwidthCells(b[1], b[2]) : b \in buckets}
           Replace(base, cells) ==
             ReplaceSubtree(h.oid \o base,
                            Filled({<<h.oid \o base \o c[1], c[2]>> : c \in cells}, f))
           ops == AstaireConnectionStatHandler(h.oid, f)
<1>1. ops = <<Replace(connection_base_oid, cc), Replace(bucket_base_oid, bc),
              Replace(bucket_bandwidth_base_oid, wc)>>
  BY DEF AstaireConnectionStatHandler
<1>2. /\ Len(f) \in Nat /\ h.oid \in OIDs
      /\ \A i \in C : i \in 1 .. Len(f) /\ Legible(f, i)
      /\ \A i \in I : i \in C /\ Intact(f, i)
  BY DEF Connections, IsHandler
<1>3. IsFiniteSet(C) /\ IsFiniteSet(I)
  <2>1. IsFiniteSet(1 .. Len(f)) /\ C \subseteq 1 .. Len(f) /\ I \subseteq 1 .. Len(f)
    BY <1>2, FS_Interval
  <2> HIDE DEF C, I
  <2> QED
    BY <2>1, FS_Subset, Zenon
<1> HIDE DEF C, I
<1>4. \A i \in 1 .. Len(f) : <<atoi(f[i])>> \in OIDs
  <2>1. \A x \in Int : <<x>> \in OIDs
    BY DEF OIDs
  <2>2. \A i \in 1 .. Len(f) : atoi(f[i]) \in Int
    BY AtoiIsInt, WordAssumption DEF int
  <2> QED
    BY <2>1, <2>2
<1>5. ASSUME NEW i \in C
      PROVE  /\ index(i) \in OIDs
             /\ i \in 1 .. Len(f) /\ i + 1 \in 1 .. Len(f)
             /\ i + 2 \in 1 .. Len(f) /\ i + 3 \in 1 .. Len(f)
  <2>1. i \in 1 .. Len(f) /\ Len(f) >= i + 4
    BY <1>2 DEF Legible
  <2>2. /\ i \in 1 .. Len(f) /\ i + 1 \in 1 .. Len(f)
        /\ i + 2 \in 1 .. Len(f) /\ i + 3 \in 1 .. Len(f)
    BY <1>2, <2>1
  <2>3. toOIDBytes(f[i].addr) \in OIDs /\ <<atoi(f[i + 1])>> \in OIDs
    BY <1>4, <2>2, BytesTyped
  <2> QED
    BY <2>2, <2>3, ConcatPrefix
<1> HIDE DEF index
<1>6. /\ IsFiniteSet(buckets)
      /\ \A b \in buckets : /\ b[1] \in OIDs
                            /\ b[2] + 1 \in 1 .. Len(f) /\ b[2] + 2 \in 1 .. Len(f)
                            /\ b[2] + 3 \in 1 .. Len(f)
  <2>1. ASSUME NEW i \in I, NEW b \in bucketsOf(i)
        PROVE  /\ b[1] \in OIDs /\ b[2] + 1 \in 1 .. Len(f)
               /\ b[2] + 2 \in 1 .. Len(f) /\ b[2] + 3 \in 1 .. Len(f)
    <3>1. PICK j \in Range(Buckets(f, i)) : b = <<index(i) \o <<atoi(f[j])>>, j>>
      BY <2>1, Zenon
    <3>2. j \in 1 .. Len(f) /\ j + 3 \in 1 .. Len(f)
      BY <1>2, BucketsInside
    <3>3. index(i) \o <<atoi(f[j])>> \in OIDs
      BY <1>2, <1>4, <1>5, <3>2, ConcatPrefix
    <3>4. b[1] \in OIDs /\ b[2] = j
      BY <3>1, <3>3
    <3> QED
      BY <1>2, <3>2, <3>4
  <2>2. ASSUME NEW i \in I PROVE IsFiniteSet(bucketsOf(i))
    <3> DEFINE S == Range(Buckets(f, i))
               g == [j \in S |-> <<index(i) \o <<atoi(f[j])>>, j>>]
    <3>1. S \subseteq 1 .. Len(f)
      BY <1>2, BucketsInside
    <3>2. IsFiniteSet(S)
      <4>1. IsFiniteSet(1 .. Len(f))
        BY <1>2, FS_Interval
      <4> HIDE DEF S
      <4> QED
        BY <3>1, <4>1, FS_Subset, Zenon
    <3>3. g = [j \in S |-> g[j]] /\ {g[j] : j \in S} = bucketsOf(i)
      BY Zenon
    <3> HIDE DEF g, S, bucketsOf
    <3> QED
      BY <3>2, <3>3, FiniteImage
  <2> HIDE DEF bucketsOf
  <2>3. IsFiniteSet(buckets)
    <3> DEFINE g == [i \in I |-> bucketsOf(i)]
    <3>1. g = [i \in I |-> g[i]] /\ buckets = UNION {g[i] : i \in I}
      OBVIOUS
    <3>2. \A i \in I : IsFiniteSet(g[i])
      BY <2>2
    <3> HIDE DEF g, buckets
    <3> QED
      BY <1>3, <3>1, <3>2, FiniteUnion
  <2> QED
    BY <2>1, <2>3
<1> HIDE DEF buckets
<1>7. IsFiniteSet(cc) /\ \A c \in cc : c[1] \in OIDs /\ c[2] \in 1 .. Len(f)
  <2>1. ASSUME NEW i \in C, NEW c \in ConnectionCells(index(i), i)
        PROVE  c[1] \in OIDs /\ c[2] \in 1 .. Len(f)
    <3>1. <<4>> \in OIDs /\ <<5>> \in OIDs
      BY DEF OIDs
    <3>2. <<4>> \o index(i) \in OIDs /\ <<5>> \o index(i) \in OIDs
      BY <1>5, <3>1, ConcatPrefix
    <3>3. i + 2 \in 1 .. Len(f) /\ i + 3 \in 1 .. Len(f)
      BY <1>5
    <3> DEFINE x == <<4>> \o index(i)
               y == <<5>> \o index(i)
    <3>4. c = <<x, i + 2>> \/ c = <<y, i + 3>>
      BY <2>1 DEF ConnectionCells
    <3> HIDE DEF x, y
    <3>5. x \in OIDs /\ y \in OIDs
      BY <3>2 DEF x, y
    <3> QED
      BY <3>3, <3>4, <3>5
  <2>2. IsFiniteSet(cc)
    <3> DEFINE g == [i \in C |-> ConnectionCells(index(i), i)]
    <3>1. g = [i \in C |-> g[i]] /\ cc = UNION {g[i] : i \in C}
      OBVIOUS
    <3>2. \A i \in C : IsFiniteSet(g[i])
      BY FewCells
    <3> HIDE DEF g, cc
    <3> QED
      BY <1>3, <3>1, <3>2, FiniteUnion
  <2> QED
    BY <2>1, <2>2
<1>8. IsFiniteSet(bc) /\ \A c \in bc : c[1] \in OIDs /\ c[2] \in 1 .. Len(f)
  <2>1. ASSUME NEW b \in buckets, NEW c \in BucketCells(b[1], b[2])
        PROVE  c[1] \in OIDs /\ c[2] \in 1 .. Len(f)
    <3>1. <<5>> \in OIDs /\ <<6>> \in OIDs
      BY DEF OIDs
    <3>2. <<5>> \o b[1] \in OIDs /\ <<6>> \o b[1] \in OIDs
      BY <1>6, <3>1, ConcatPrefix
    <3>3. b[2] + 1 \in 1 .. Len(f) /\ b[2] + 2 \in 1 .. Len(f)
      BY <1>6
    <3> DEFINE x == <<5>> \o b[1]
               y == <<6>> \o b[1]
    <3>4. c = <<x, b[2] + 1>> \/ c = <<y, b[2] + 2>>
      BY <2>1 DEF BucketCells
    <3> HIDE DEF x, y
    <3>5. x \in OIDs /\ y \in OIDs
      BY <3>2 DEF x, y
    <3> QED
      BY <3>3, <3>4, <3>5
  <2>2. IsFiniteSet(bc)
    <3> DEFINE g == [b \in buckets |-> BucketCells(b[1], b[2])]
    <3>1. /\ g = [b \in buckets |-> g[b]]
          /\ bc = UNION {g[b] : b \in buckets}
      OBVIOUS
    <3>2. \A b \in buckets : IsFiniteSet(g[b])
      BY FewCells
    <3> HIDE DEF g, bc
    <3> QED
      BY <1>6, <3>1, <3>2, FiniteUnion
  <2> QED
    BY <2>1, <2>2
<1>9. IsFiniteSet(wc) /\ \A c \in wc : c[1] \in OIDs /\ c[2] \in 1 .. Len(f)
  <2>1. ASSUME NEW b \in buckets, NEW c \in BandwidthCells(b[1], b[2])
        PROVE  c[1] \in OIDs /\ c[2] \in 1 .. Len(f)
    <3>1. <<6>> \in OIDs /\ <<1>> \in OIDs
      BY DEF OIDs
    <3>2. <<6>> \o b[1] \o <<1>> \in OIDs
      BY <1>6, <3>1, ConcatPrefix
    <3>3. b[2] + 3 \in 1 .. Len(f)
      BY <1>6
    <3> DEFINE x == <<6>> \o b[1] \o <<1>>
    <3>4. c = <<x, b[2] + 3>>
      BY <2>1 DEF BandwidthCells
    <3> HIDE DEF x
    <3>5. x \in OIDs
      BY <3>2 DEF x
    <3> QED
      BY <3>3, <3>4, <3>5
  <2>2. IsFiniteSet(wc)
    <3> DEFINE g == [b \in buckets |-> BandwidthCells(b[1], b[2])]
    <3>1. /\ g = [b \in buckets |-> g[b]]
          /\ wc = UNION {g[b] : b \in buckets}
      OBVIOUS
    <3>2. \A b \in buckets : IsFiniteSet(g[b])
      BY FewCells
    <3> HIDE DEF g, wc
    <3> QED
      BY <1>6, <3>1, <3>2, FiniteUnion
  <2> QED
    BY <2>1, <2>2
<1> HIDE DEF cc, bc, wc
<1> DEFINE a1 == connection_base_oid
           a2 == bucket_base_oid
           a3 == bucket_bandwidth_base_oid
<1>10. a1 \in OIDs /\ a2 \in OIDs /\ a3 \in OIDs /\ a1 # a2 /\ a1 # a3 /\ a2 # a3
  BY AstaireBases
<1>11. Scalars(h) = FALSE /\ Roots(h) = {h.oid \o a1, h.oid \o a2, h.oid \o a3}
  BY DEF Scalars, Roots
<1> HIDE DEF a1, a2, a3
<1>12. \A a \in {a1, a2, a3} : h.oid \o a \in OIDs
  BY <1>2, <1>10, ConcatPrefix
<1>13. h.oid \o a1 # h.oid \o a2 /\ h.oid \o a1 # h.oid \o a3 /\ h.oid \o a2 # h.oid \o a3
  <2>1. \A a, b \in {a1, a2, a3} : h.oid \o a = h.oid \o b => a = b
    <3> SUFFICES ASSUME NEW a \in {a1, a2, a3}, NEW b \in {a1, a2, a3},
                        h.oid \o a = h.oid \o b
                 PROVE  a = b
      BY Zenon
    <3>1. \A x \in OIDs : IsPrefix(x, x)
      BY PrefixElements DEF OIDs
    <3>2. IsPrefix(h.oid \o a, h.oid \o b)
      BY <1>12, <3>1
    <3>3. subtree_contains(a, b)
      BY <1>2, <1>10, <3>2, ConcatPrefixes, Zenon DEF subtree_contains
    <3> QED
      BY <3>3, AstaireBases DEF a1, a2, a3
  <2> QED
    BY <1>10, <2>1, Zenon
<1>14. /\ IsOperation(Replace(a1, cc)) /\ IsOperation(Replace(a2, bc))
       /\ IsOperation(Replace(a3, wc))
  BY <1>7, <1>8, <1>9, <1>12, ReplaceRows, Zenon
<1>15. \A a, c : Replace(a, c).key = h.oid \o a /\ Replace(a, c).op = "replace_subtree"
  BY DEF ReplaceSubtree
<1> DEFINE o1 == Replace(a1, cc)
           o2 == Replace(a2, bc)
           o3 == Replace(a3, wc)
<1>16. /\ IsOperation(o1) /\ o1.key = h.oid \o a1 /\ o1.op = "replace_subtree"
       /\ IsOperation(o2) /\ o2.key = h.oid \o a2 /\ o2.op = "replace_subtree"
       /\ IsOperation(o3) /\ o3.key = h.oid \o a3 /\ o3.op = "replace_subtree"
  BY <1>14, <1>15, Zenon
<1>17. ops = <<o1, o2, o3>>
  BY <1>1 DEF a1, a2, a3
<1> HIDE DEF o1, o2, o3, ops, Replace
<1>18. /\ ops \in Seq({o1, o2, o3}) /\ DOMAIN ops = {1, 2, 3}
       /\ ops[1] = o1 /\ ops[2] = o2 /\ ops[3] = o3
  BY <1>17
<1>19. \A i \in DOMAIN ops : i = 1 \/ i = 2 \/ i = 3
  BY <1>18
<1>20. Calls(h, ops)
  BY <1>11, <1>13, <1>16, <1>18, <1>19, ZenonT(40) DEF Calls
<1> QED
  BY <1>20 DEF ops

(* Every handler, on every message. *)
LEMMA HandleCalls ==
  ASSUME NEW h, IsHandler(h), NEW f \in Seq(Texts)
  PROVE  Calls(h, handle(h, f))
<1>1. /\ << <<0>> >> \in Seq(OIDs) /\ << <<1, 2>> >> \in Seq(OIDs)
      /\ Accumulated_columns \in Seq(OIDs)
  <2>1. <<0>> \in OIDs /\ <<1, 2>> \in OIDs /\ <<1, 3>> \in OIDs
    BY DEF OIDs
  <2>2. <<1, 5>> \in OIDs /\ <<1, 4>> \in OIDs /\ <<1, 6>> \in OIDs
    BY DEF OIDs
  <2>3. \A a, b, c, d, e \in OIDs : <<a>> \in Seq(OIDs) /\ <<a, b, c, d, e>> \in Seq(OIDs)
    OBVIOUS
  <2> QED
    BY <2>1, <2>2, <2>3 DEF Accumulated_columns
<1>2. CASE h.class = "IPCount"
  BY <1>2, IPCountCalls DEF handle
<1>3. CASE h.class = "Bare"
  BY <1>3, BareCalls DEF handle
<1>4. CASE h.class = "SingleNumber"
  <2>1. handle(h, f) = WholeSubtree(h.oid, f, << <<0>> >>)
    BY <1>4 DEF handle, SingleNumberStatHandler
  <2> QED
    BY <1>1, <1>4, <2>1, WholeSubtreeCalls, Zenon
<1>5. CASE h.class = "SingleNumberWithScope"
  <2>1. handle(h, f) = WholeSubtree(h.oid, f, << <<1, 2>> >>)
    BY <1>5 DEF handle, SingleNumberWithScopeStatHandler
  <2> QED
    BY <1>1, <1>5, <2>1, WholeSubtreeCalls, Zenon
<1>6. CASE h.class = "AccumulatedWithCount"
  <2>1. handle(h, f) = WholeSubtree(h.oid, f, Accumulated_columns)
    BY <1>6 DEF handle, AccumulatedWithCountStatHandler
  <2> QED
    BY <1>1, <1>6, <2>1, WholeSubtreeCalls
<1>7. CASE h.class = "AstaireGlobal"
  BY <1>7, AstaireGlobalCalls DEF handle
<1>8. CASE h.class = "AstaireConnection"
  BY <1>8, AstaireConnectionCalls DEF handle
<1> QED
  BY <1>2, <1>3, <1>4, <1>5, <1>6, <1>7, <1>8 DEF IsHandler, Classes

(* A call touches an OID of its handler when it is for the root of that    *)
(* OID.                                                                    *)
LEMMA TouchesRoot ==
  ASSUME NEW h, IsHandler(h), NEW ops, Calls(h, ops), NEW i \in DOMAIN ops,
         NEW k \in OIDs, NEW r \in Roots(h), IF Scalars(h) THEN k = r ELSE IsPrefix(r, k)
  PROVE  Touches(ops[i], k) <=> ops[i].key = r
<1> DEFINE q == ops[i].key
<1>1. q \in Roots(h) /\ (Scalars(h) <=> ops[i].op \in {"set", "remove"})
  BY DEF Calls
<1>2. q \in OIDs /\ r \in OIDs /\ (subtree_contains(q, r) => q = r)
  BY <1>1, RootsApart
<1>3. CASE Scalars(h)
  BY <1>1, <1>3 DEF Touches
<1>4. CASE ~Scalars(h)
  <2>1. Touches(ops[i], k) <=> subtree_contains(q, k)
    BY <1>1, <1>4 DEF Touches
  <2>2. IsPrefix(r, k)
    BY <1>4
  <2>3. subtree_contains(q, k) => q = r
    BY <1>2, <2>2, ContainsRoot
  <2>4. q = r => subtree_contains(q, k)
    BY <2>2 DEF subtree_contains
  <2> QED
    BY <2>1, <2>3, <2>4
<1> QED
  BY <1>3, <1>4

(* What the calls of a handler do to its own OIDs: each is touched by one  *)
(* call, and what they put there is its own.                               *)
LEMMA OwnCalls ==
  ASSUME NEW h, IsHandler(h), NEW ops, Calls(h, ops)
  PROVE  /\ \A i \in DOMAIN ops : \A p \in Puts(ops[i]) : Owns(h, p[1])
         /\ \A i, j \in DOMAIN ops : \A k \in OIDs :
              Owns(h, k) /\ Touches(ops[i], k) /\ Touches(ops[j], k) => i = j
         /\ ops = <<>> \/ \A k \in OIDs :
              Owns(h, k) => \E i \in DOMAIN ops : Touches(ops[i], k)
<1>1. ASSUME NEW i \in DOMAIN ops, NEW p \in Puts(ops[i])
      PROVE  Owns(h, p[1])
  <2> DEFINE o == ops[i]
  <2>1. IsOperation(o) /\ o.key \in Roots(h) /\ (Scalars(h) <=> o.op \in {"set", "remove"})
    BY DEF Calls
  <2>2. p[1] \in {e[1] : e \in Puts(o)} /\ Puts(o) # {}
    BY <1>1
  <2> HIDE DEF o
  <2>3. CASE o.op = "set"
    <3>1. p[1] = o.key
      BY <2>2, <2>3, PutsCases
    <3> QED
      BY <2>1, <2>3, <3>1 DEF Owns
  <2>4. CASE o.op = "replace_subtree"
    <3>1. p[1] \in DOMAIN o.map
      BY <2>2, <2>4, PutsCases
    <3>2. IsPrefix(o.key, p[1]) /\ ~Scalars(h)
      BY <2>1, <2>4, <3>1 DEF IsOperation
    <3> QED
      BY <2>1, <3>2 DEF Owns
  <2>5. CASE o.op \in {"remove", "remove_subtree"}
    BY <2>2, <2>5, PutsCases
  <2> QED
    BY <2>1, <2>3, <2>4, <2>5 DEF IsOperation
<1>2. ASSUME NEW i \in DOMAIN ops, NEW j \in DOMAIN ops, NEW k \in OIDs,
             Owns(h, k), Touches(ops[i], k), Touches(ops[j], k)
      PROVE  i = j
  <2>1. PICK r \in Roots(h) : IF Scalars(h) THEN k = r ELSE IsPrefix(r, k)
    BY <1>2 DEF Owns
  <2>2. ops[i].key = r /\ ops[j].key = r
    BY <1>2, <2>1, TouchesRoot
  <2> QED
    BY <2>2 DEF Calls
<1>3. ASSUME ops # <<>>, NEW k \in OIDs, Owns(h, k)
      PROVE  \E i \in DOMAIN ops : Touches(ops[i], k)
  <2>1. PICK r \in Roots(h) : IF Scalars(h) THEN k = r ELSE IsPrefix(r, k)
    BY <1>3 DEF Owns
  <2>2. PICK i \in DOMAIN ops : ops[i].key = r
    BY <1>3 DEF Calls
  <2>3. Touches(ops[i], k)
    BY <2>1, <2>2, TouchesRoot
  <2> QED
    BY <2>3
<1> QED
  BY <1>1, <1>2, <1>3

(* Such handlers have no OID in common, and one does not touch another's.  *)
LEMMA OthersCalls ==
  ASSUME NEW g, IsHandler(g), NEW h, IsHandler(h), Apart(g, h),
         NEW k \in OIDs, Owns(g, k)
  PROVE  /\ ~Owns(h, k)
         /\ \A ops : Calls(h, ops) => \A i \in DOMAIN ops : ~Touches(ops[i], k)
<1>0. \A x \in OIDs : IsPrefix(x, x)
  BY PrefixElements DEF OIDs
<1>1. PICK r \in Roots(g) : IsPrefix(r, k)
  BY <1>0 DEF Owns
<1>2. \A q \in Roots(h) : q \in OIDs /\ ~subtree_contains(q, k) /\ q # k
  <2> SUFFICES ASSUME NEW q \in Roots(h)
               PROVE  q \in OIDs /\ ~subtree_contains(q, k) /\ q # k
    OBVIOUS
  <2>1. q \in OIDs /\ r \in OIDs
    BY RootsApart
  <2>2. ~subtree_contains(q, r)
    BY DEF Apart, subtree_contains
  <2>3. ~subtree_contains(q, k)
    BY <1>1, <2>1, <2>2, ContainsRoot
  <2> QED
    BY <1>0, <2>1, <2>3 DEF subtree_contains
<1>3. ~Owns(h, k)
  BY <1>2 DEF Owns, subtree_contains
<1>4. ASSUME NEW ops, Calls(h, ops), NEW i \in DOMAIN ops
      PROVE  ~Touches(ops[i], k)
  <2>1. ops[i].key \in Roots(h)
    BY <1>4 DEF Calls
  <2> QED
    BY <1>2, <2>1 DEF Touches
<1> QED
  BY <1>3, <1>4

(* Whatever a message holds, handle() puts ints at OIDs of its own only,   *)
(* although remove_subtree also takes away OIDs above its root; it settles *)
(* each of its OIDs by one call, or leaves all of them alone; and it does  *)
(* not touch an OID of a handler that is there for others.                 *)
THEOREM HandlersKeepToTheirOIDs ==
  ASSUME NEW h, IsHandler(h), NEW f \in Seq(Texts)
  PROVE  LET ops == handle(h, f) IN
         /\ \A i \in DOMAIN ops : \A p \in Puts(ops[i]) : Owns(h, p[1]) /\ p[2] \in int
         /\ \/ ops = <<>>
            \/ \A k \in OIDs : Owns(h, k) =>
                 \E i \in DOMAIN ops : \A j \in DOMAIN ops : Touches(ops[j], k) <=> j = i
         /\ \A g : IsHandler(g) /\ Apart(g, h) =>
              \A k \in OIDs : Owns(g, k) => \A i \in DOMAIN ops : ~Touches(ops[i], k)
<1> DEFINE ops == handle(h, f)
<1>1. Calls(h, ops)
  BY HandleCalls
<1> HIDE DEF ops
<1>2. \A i \in DOMAIN ops : \A p \in Puts(ops[i]) : p[2] \in int
  BY <1>1, PutsTyped, Zenon DEF Calls
<1>3. /\ \A i \in DOMAIN ops : \A p \in Puts(ops[i]) : Owns(h, p[1])
      /\ \A i, j \in DOMAIN ops : \A k \in OIDs :
           Owns(h, k) /\ Touches(ops[i], k) /\ Touches(ops[j], k) => i = j
      /\ ops = <<>> \/ \A k \in OIDs :
           Owns(h, k) => \E i \in DOMAIN ops : Touches(ops[i], k)
  BY <1>1, OwnCalls
<1>4. \A g : IsHandler(g) /\ Apart(g, h) =>
        \A k \in OIDs : Owns(g, k) => \A i \in DOMAIN ops : ~Touches(ops[i], k)
  BY <1>1, OthersCalls
<1>5. \/ ops = <<>>
      \/ \A k \in OIDs : Owns(h, k) =>
           \E i \in DOMAIN ops : \A j \in DOMAIN ops : Touches(ops[j], k) <=> j = i
  BY <1>3
<1> QED
  BY <1>2, <1>3, <1>4, <1>5, Zenon DEF ops
=============================================================================
