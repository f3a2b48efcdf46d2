---------------------------- MODULE NodeMessages ----------------------------
(***************************************************************************)
(* The messages a node publishes, as the parts its statistics handlers are *)
(* given.  Message n carries the numbers Value(n, 1), Value(n, 2), ..., so *)
(* that a value tells which message it came in.  Its shape says which rows *)
(* it has and after how many parts it ends.                                *)
(***************************************************************************)
EXTENDS StatHandlers

CONSTANT Counts   \* bound: the numbers of one message

ASSUME CountsAssumption == Counts \in Nat /\ Counts > 5

Value(n, i) == Counts * n + i
MessageOf(v) == v \div Counts

Text(v) == [number |-> v, addr |-> [type |-> 0, bytes |-> <<>>]]
Numbers(n, k) == [i \in 1 .. k |-> Text(Value(n, i))]

(* Addresses, each followed by its count. *)
EncodePairs(n, rows) ==
  [k \in 1 .. 2 * Len(rows) |->
     IF k % 2 = 1 THEN rows[(k + 1) \div 2] ELSE Text(Value(n, k \div 2))]

(* Each bucket is followed by its three counts. *)
EncodeConnection(n, c) ==
  << c.addr, Text(c.port) >> \o Numbers(n, 2) \o << Text(Len(c.buckets)) >>
    \o [k \in 1 .. 4 * Len(c.buckets) |->
          IF k % 4 = 1 THEN Text(c.buckets[(k + 3) \div 4])
                       ELSE Text(Value(n, 3 + ((k + 2) % 4)))]

(* The parts of the first i connections, for each i. *)
EncodeConnections(n, rows) ==
  LET first[i \in 0 .. Len(rows)] ==
        IF i = 0 THEN <<>> ELSE first[i - 1] \o EncodeConnection(n, rows[i])
  IN  first

Encode(n, class, shape) ==
  LET all == CASE class = "IPCount" -> EncodePairs(n, shape.rows)
               [] class = "AstaireConnection" ->
                    EncodeConnections(n, shape.rows)[Len(shape.rows)]
               [] OTHER -> Numbers(n, shape.parts)
  IN  SubSeq(all, 1, shape.parts)

(* The shapes of messages: an address has one count, a connection one row  *)
(* and a bucket of it as well, and a message ends with its last part or    *)
(* before.                                                                 *)
IsShape(class, shape) ==
  LET rows == shape.rows
      Small == 0 .. WORD \div 2 - 1
  IN  CASE class = "IPCount" ->
             /\ rows \in Seq(Texts) /\ Len(rows) < Counts
             /\ \A i, j \in DOMAIN rows :
                  isValid(rows[i].addr) /\ rows[i].addr = rows[j].addr => i = j
             /\ shape.parts \in 0 .. 2 * Len(rows)
        [] class = "AstaireConnection" ->
             /\ rows \in Seq([addr : Texts, port : Small, buckets : Seq(Small)])
             /\ \A i, j \in DOMAIN rows :
                  /\ isValid(rows[i].addr.addr) /\ rows[i].addr.addr = rows[j].addr.addr
                  /\ rows[i].port = rows[j].port
                  => i = j
             /\ \A r \in Range(rows) : /\ Len(r.buckets) \in Small
                                       /\ \A b, d \in DOMAIN r.buckets :
                                            r.buckets[b] = r.buckets[d] => b = d
             /\ shape.parts \in 0 .. Len(EncodeConnections(0, rows)[Len(rows)])
        [] OTHER -> shape.parts \in 0 .. Counts - 1

-----------------------------------------------------------------------------
(* The rows below root a message stands for: of the addresses that have a  *)
(* count,                                                                  *)
PairRows(root, n, shape) ==
  {<<root \o <<1, 3>> \o toOIDBytes(shape.rows[i].addr), Value(n, i)>> :
     i \in {j \in DOMAIN shape.rows : /\ shape.rows[j].addr.type # 0
                                      /\ 2 * j <= shape.parts}}

(* and of the connections up to the first that is cut off or has no valid  *)
(* address.                                                                *)
ConnectionRows(root, n, shape) ==
  LET rows == shape.rows
      Parts(i) == Len(EncodeConnections(n, rows)[i])
      Whole(i) == isValid(rows[i].addr.addr) /\ Parts(i) <= shape.parts
      Shown == {i \in DOMAIN rows : /\ \A j \in 1 .. i - 1 : Whole(j)
                                    /\ isValid(rows[i].addr.addr)
                                    /\ Parts(i - 1) + 5 <= shape.parts}
      Index(i) == toOIDBytes(rows[i].addr.addr) \o <<rows[i].port>>
  IN  (UNION {{<<root \o <<6, 1, 4>> \o Index(i), Value(n, 1)>>,
               <<root \o <<6, 1, 5>> \o Index(i), Value(n, 2)>>} : i \in Shown}) \cup
      (UNION {UNION {{<<root \o <<7, 1, 5>> \o Index(i) \o <<id>>, Value(n, 3)>>,
                      <<root \o <<7, 1, 6>> \o Index(i) \o <<id>>, Value(n, 4)>>,
                      <<root \o <<8, 1, 6>> \o Index(i) \o <<id, 1>>, Value(n, 5)>>} :
                        id \in Range(rows[i].buckets)} : i \in {j \in Shown : Whole(j)}})
=============================================================================
