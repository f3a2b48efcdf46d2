------------------------------ MODULE OIDTree -------------------------------
(***************************************************************************)
(* OIDs, the index an internet address makes, and the operations of        *)
(* OIDTree on its map.  An OID is a sequence of numbers, a map a function  *)
(* from OIDs to ints.  Every operation holds _map_lock from its beginning  *)
(* to its end, so it is a function of the map, applied in one step.        *)
(***************************************************************************)
EXTENDS Integers, Sequences, TLC, FiniteSetsExt

CONSTANT WORD   \* the number of values of an int, 2^32

ASSUME WordAssumption == WORD \in Nat \ {0} /\ WORD % 2 = 0

int == -(WORD \div 2) .. WORD \div 2 - 1

(* OID o is root or lies below it. *)
IsPrefix(root, o) == Len(root) <= Len(o) /\ \A i \in DOMAIN root : root[i] = o[i]

(* snmp_oidtree_compare compares up to the shorter length, so that an OID  *)
(* also "contains" those above it.                                         *)
subtree_contains(root, o) == IsPrefix(root, o) \/ IsPrefix(o, root)

(* snmp_oid_compare is -1: at the first difference, or by the length. *)
OIDCompare(a, b) ==
  \/ IsPrefix(a, b) /\ Len(a) < Len(b)
  \/ \E i \in DOMAIN a \cap DOMAIN b :
       /\ \A j \in 1 .. i - 1 : a[j] = b[j]
       /\ a[i] < b[i]

(* An address is a record of its type (0 unknown, 1 IPv4, 2 IPv6) and its  *)
(* bytes.                                                                  *)

(* Slip: every text passes for an address. *)
isValid_Any(addr) == TRUE

isValid(addr) == addr.type # 0

toOIDBytes(addr) ==
  IF isValid(addr) THEN <<addr.type, Len(addr.bytes)>> \o addr.bytes ELSE <<>>

-----------------------------------------------------------------------------
EmptyMap == <<>>

(* The value of an OID that is in the map. *)
get(m, o) == m[o]

(* What upper_bound looks at. *)
after(m, o) == {k \in DOMAIN m : OIDCompare(o, k)}

(* The OID of the answer, for an OID with another one after it. *)
get_next(m, o) ==
  CHOOSE k \in after(m, o) : \A j \in after(m, o) \ {k} : OIDCompare(k, j)

set(m, k, v) == [o \in DOMAIN m \cup {k} |-> IF o = k THEN v ELSE m[o]]

remove(m, k) == Restrict(m, DOMAIN m \ {k})

remove_subtree(m, root) ==
  Restrict(m, {k \in DOMAIN m : ~subtree_contains(root, k)})

(* Slip: what the subtree held before stays. *)
replace_subtree_Merge(m, root, update) ==
  [o \in DOMAIN m \cup DOMAIN update |->
     IF o \in DOMAIN update THEN update[o] ELSE m[o]]

(* std::map::insert leaves a key that is there alone. *)
replace_subtree(m, root, update) ==
  LET kept == remove_subtree(m, root)
  IN  [o \in DOMAIN kept \cup DOMAIN update |->
         IF o \in DOMAIN kept THEN kept[o] ELSE update[o]]

(* Slip: _map_lock is a plain mutex. *)
Relock_Plain == FALSE

(* The owner of _map_lock, a recursive mutex, may lock it again:           *)
(* replace_subtree calls remove_subtree.                                   *)
Relock == TRUE
=============================================================================
