---------------------------- MODULE StatHandlers ----------------------------
(***************************************************************************)
(* The message handlers: what handle() does to the tree, as the sequence   *)
(* of OIDTree operations it calls.  The argument f is the message after    *)
(* its first two parts, the name of the statistic and "OK".  A part is a   *)
(* text, of which the handlers only read a number or an address.           *)
(***************************************************************************)
EXTENDS OIDTree

Texts == [number : Int, addr : [type : {0, 1, 2}, bytes : Seq(0 .. 255)]]

(* Slip: the value is not cut to the width of an int. *)
atoi_Wide(text) == text.number

(* glibc reads a long and keeps the bits of an int. *)
atoi(text) == ((text.number + WORD \div 2) % WORD) - WORD \div 2

Set(k, v) == [op |-> "set", key |-> k, value |-> v]
Erase(k) == [op |-> "remove", key |-> k]
RemoveSubtree(root) == [op |-> "remove_subtree", key |-> root]
ReplaceSubtree(root, m) == [op |-> "replace_subtree", key |-> root, map |-> m]

Apply(m, o) ==
  CASE o.op = "set" -> set(m, o.key, o.value)
    [] o.op = "remove" -> remove(m, o.key)
    [] o.op = "remove_subtree" -> remove_subtree(m, o.key)
    [] o.op = "replace_subtree" -> replace_subtree(m, o.key, o.map)

(* What an operation puts into the tree, and what it takes out of it. *)
Puts(o) ==
  CASE o.op = "set" -> {<<o.key, o.value>>}
    [] o.op = "replace_subtree" -> {<<k, o.map[k]>> : k \in DOMAIN o.map}
    [] OTHER -> {}

Removes(o, k) ==
  \/ o.op = "remove" /\ k = o.key
  \/ o.op = "remove_subtree" /\ subtree_contains(o.key, k)
  \/ o.op = "replace_subtree" /\ subtree_contains(o.key, k) /\ k \notin DOMAIN o.map

-----------------------------------------------------------------------------
(* The map a handler fills: of each OID the number in a part of f.  A      *)
(* later part replaces an earlier one.                                     *)
Filled(cells, f) ==
  [o \in {c[1] : c \in cells} |->
     atoi(f[Max({c[2] : c \in {d \in cells : d[1] = o}})])]

(* Addresses, each followed by its count.  The iterators advance by one    *)
(* part, as the second ++ of it_ip++++ is applied to a copy: a count is    *)
(* looked at as an address too, and skipped like any invalid one.          *)
IPCountStatHandler(root, f) ==
  LET Pair(i) == <<root \o <<1, 3>> \o toOIDBytes(f[i].addr), i + 1>>
  IN  << ReplaceSubtree(root,
           Filled({Pair(i) : i \in {j \in 1 .. Len(f) - 1 : isValid(f[j].addr)}}, f)) >>

(* A message without a value leaves the old one. *)
BareStatHandler(root, f) ==
  IF Len(f) >= 1 THEN << Set(root, atoi(f[1])) >> ELSE <<>>

(* The column or columns of a handler that replaces its whole subtree, or  *)
(* removes it when the message is too short.                               *)
WholeSubtree(root, f, columns) ==
  IF Len(f) >= Len(columns)
    THEN << ReplaceSubtree(root,
              Filled({<<root \o columns[i], i>> : i \in DOMAIN columns}, f)) >>
    ELSE << RemoveSubtree(root) >>

SingleNumberStatHandler(root, f) == WholeSubtree(root, f, << <<0>> >>)

SingleNumberWithScopeStatHandler(root, f) ==
  WholeSubtree(root, f, << <<1, 2>> >>)

Accumulated_columns == << <<1, 2>>, <<1, 3>>, <<1, 5>>, <<1, 4>>, <<1, 6>> >>

(* Slip: the subtree is emptied first, under a lock of its own. *)
AccumulatedWithCountStatHandler_TwoSteps(root, f) ==
  << RemoveSubtree(root) >> \o WholeSubtree(root, f, Accumulated_columns)

(* Average, variance, low and high water mark and count; the message and   *)
(* the subtree have the marks in different orders.                         *)
AccumulatedWithCountStatHandler(root, f) ==
  WholeSubtree(root, f, Accumulated_columns)

-----------------------------------------------------------------------------
(* Astaire. *)
Global_oids == << <<1, 0>>, <<2, 0>>, <<3, 0>>, <<4, 0>>, <<5, 1, 2, 1>> >>

AstaireGlobalStatHandler(root, f) ==
  [i \in DOMAIN Global_oids |->
     IF Len(f) >= Len(Global_oids)
       THEN Set(root \o Global_oids[i], atoi(f[i]))
       ELSE Erase(root \o Global_oids[i])]

connection_base_oid == <<6, 1>>
bucket_base_oid == <<7, 1>>
bucket_bandwidth_base_oid == <<8, 1>>

(* Slip: a bucket is taken to have three parts. *)
BucketStarts_Short(i, n) == [b \in 1 .. n |-> i + 3 * (b - 1)]

(* Where the n buckets start that follow part i; none if n is negative. *)
BucketStarts(i, n) == [b \in 1 .. n |-> i + 4 * (b - 1)]

Buckets(f, i) == BucketStarts(i + 5, atoi(f[i + 4]))
End(f, i) == i + 5 + 4 * Len(Buckets(f, i))

(* A connection that starts at part i is not cut off and has a valid       *)
(* address; neither are its buckets.                                       *)
Legible(f, i) == Len(f) >= i + 4 /\ isValid(f[i].addr)
Intact(f, i) == Legible(f, i) /\ Len(f) >= End(f, i) - 1

(* Where connections start: parsing goes on from the end of one to the     *)
(* first that is cut off or has no valid address.                          *)
Connections(f) ==
  LET reached[i \in 1 .. Len(f)] ==
        i = 1 \/ \E j \in 1 .. i - 1 : Intact(f, j) /\ End(f, j) = i /\ reached[j]
  IN  {i \in 1 .. Len(f) : reached[i] /\ Legible(f, i)}

ConnectionCells(index, i) ==
  {<< <<4>> \o index, i + 2>>, << <<5>> \o index, i + 3>>}

BucketCells(id, i) ==
  {<< <<5>> \o id, i + 1>>, << <<6>> \o id, i + 2>>}

BandwidthCells(id, i) == {<< <<6>> \o id \o <<1>>, i + 3>>}

(* A connection whose buckets are cut off still has rows itself. *)
AstaireConnectionStatHandler(root, f) ==
  LET index(i) == toOIDBytes(f[i].addr) \o <<atoi(f[i + 1])>>
      buckets == UNION {{<<index(i) \o <<atoi(f[j])>>, j>> : j \in Range(Buckets(f, i))} :
                          i \in {j \in Connections(f) : Intact(f, j)}}
      Replace(base, cells) ==
        ReplaceSubtree(root \o base,
                       Filled({<<root \o base \o c[1], c[2]>> : c \in cells}, f))
  IN  << Replace(connection_base_oid,
                 UNION {ConnectionCells(index(i), i) : i \in Connections(f)}),
         Replace(bucket_base_oid,
                 UNION {BucketCells(b[1], b[2]) : b \in buckets}),
         Replace(bucket_bandwidth_base_oid,
                 UNION {BandwidthCells(b[1], b[2]) : b \in buckets}) >>

-----------------------------------------------------------------------------
Classes ==
  {"IPCount", "Bare", "SingleNumber", "SingleNumberWithScope",
   "AccumulatedWithCount", "AstaireGlobal", "AstaireConnection"}

(* handler->handle(msgs) *)
handle(h, f) ==
  CASE h.class = "IPCount" -> IPCountStatHandler(h.oid, f)
    [] h.class = "Bare" -> BareStatHandler(h.oid, f)
    [] h.class = "SingleNumber" -> SingleNumberStatHandler(h.oid, f)
    [] h.class = "SingleNumberWithScope" ->
         SingleNumberWithScopeStatHandler(h.oid, f)
    [] h.class = "AccumulatedWithCount" ->
         AccumulatedWithCountStatHandler(h.oid, f)
    [] h.class = "AstaireGlobal" -> AstaireGlobalStatHandler(h.oid, f)
    [] h.class = "AstaireConnection" -> AstaireConnectionStatHandler(h.oid, f)

(* The OIDs handler h is there for: some, or all those below some. *)
Roots(h) ==
  CASE h.class = "AstaireGlobal" -> {h.oid \o Global_oids[i] : i \in DOMAIN Global_oids}
    [] h.class = "AstaireConnection" ->
         {h.oid \o connection_base_oid, h.oid \o bucket_base_oid,
          h.oid \o bucket_bandwidth_base_oid}
    [] OTHER -> {h.oid}

Scalars(h) == h.class \in {"Bare", "AstaireGlobal"}

Owns(h, o) == \E r \in Roots(h) : IF Scalars(h) THEN o = r ELSE IsPrefix(r, o)
=============================================================================
