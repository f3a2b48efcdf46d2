---------------------------- MODULE HandlerCalls ----------------------------
(***************************************************************************)
(* What the proofs about a statistics library use of its handlers and      *)
(* their messages: HandlerFacts says it, and is a theorem.                 *)
(***************************************************************************)
EXTENDS NodeMessages

OIDs == Seq(Int)

(* What an operation is about: one OID, or a root with what is above and   *)
(* below it.                                                               *)
Touches(o, k) ==
  IF o.op \in {"set", "remove"} THEN k = o.key ELSE subtree_contains(o.key, k)

(* The operations handlers call: a replacement lies below its root. *)
IsOperation(o) ==
  /\ o.op \in {"set", "remove", "remove_subtree", "replace_subtree"}
  /\ o.key \in OIDs
  /\ o.op = "set" => o.value \in int
  /\ o.op = "replace_subtree" =>
       /\ IsFiniteSet(DOMAIN o.map)
       /\ \A k \in DOMAIN o.map : k \in OIDs /\ IsPrefix(o.key, k) /\ o.map[k] \in int

IsHandler(h) == h.class \in Classes /\ h.oid \in OIDs

(* The calls handler h makes for a message: different ones of its roots,   *)
(* and if any then all of them.                                            *)
Calls(h, ops) ==
  /\ \E S : ops \in Seq(S)
  /\ \A i \in DOMAIN ops :
       /\ IsOperation(ops[i]) /\ ops[i].key \in Roots(h)
       /\ Scalars(h) <=> ops[i].op \in {"set", "remove"}
  /\ \A i, j \in DOMAIN ops : ops[i].key = ops[j].key => i = j
  /\ ops = <<>> \/ \A r \in Roots(h) : \E i \in DOMAIN ops : ops[i].key = r

(* Handlers that are there for different OIDs. *)
Apart(g, h) == \A r \in Roots(g), q \in Roots(h) : ~subtree_contains(r, q)

-----------------------------------------------------------------------------
(* Operations put ints at OIDs they are about, and remove the others.      *)
PutsAreTyped ==
  \A o : IsOperation(o) =>
    /\ \A p \in Puts(o) : /\ p = <<p[1], p[2]>> /\ p[1] \in OIDs /\ p[2] \in int
                          /\ Touches(o, p[1])
    /\ \A k : Removes(o, k) <=> Touches(o, k) /\ \A p \in Puts(o) : p[1] # k

(* What they are about then holds what they put there. *)
ApplyIsExact ==
  /\ IsFiniteSet({})
  /\ \A o, m : IsOperation(o) =>
       /\ \A k, v : Touches(o, k) =>
            ((k \in DOMAIN Apply(m, o) /\ Apply(m, o)[k] = v) <=> <<k, v>> \in Puts(o))
       /\ \A k, v : ~Touches(o, k) =>
            ((k \in DOMAIN Apply(m, o) /\ Apply(m, o)[k] = v)
               <=> (k \in DOMAIN m /\ m[k] = v))
       /\ IsFiniteSet(DOMAIN m) => IsFiniteSet(DOMAIN Apply(m, o))

(* What a handler does are calls, whatever the message. *)
HandlersMakeCalls ==
  \A h : IsHandler(h) => \A f \in Seq(Texts) : Calls(h, handle(h, f))

(* Its calls keep to its OIDs and settle each of them once. *)
CallsKeepToOwn ==
  \A h, ops : IsHandler(h) /\ Calls(h, ops) =>
    /\ \A i \in DOMAIN ops : \A p \in Puts(ops[i]) : Owns(h, p[1])
    /\ \A i, j \in DOMAIN ops : \A k \in OIDs :
         Owns(h, k) /\ Touches(ops[i], k) /\ Touches(ops[j], k) => i = j
    /\ ops = <<>> \/ \A k \in OIDs :
         Owns(h, k) => \E i \in DOMAIN ops : Touches(ops[i], k)

RootsAreOIDs ==
  \A h : IsHandler(h) => \A r \in Roots(h) : r \in OIDs

(* They leave those of handlers that are apart alone. *)
CallsLeaveOthers ==
  \A g, h : IsHandler(g) /\ IsHandler(h) /\ Apart(g, h) =>
    \A k \in OIDs : Owns(g, k) =>
      \A ops : Calls(h, ops) => \A i \in DOMAIN ops : ~Touches(ops[i], k)

(* GETNEXT finds the successor. *)
NextIsSuccessor ==
  \A m : \A o \in OIDs :
    IsFiniteSet(DOMAIN m) /\ DOMAIN m \subseteq OIDs /\ after(m, o) # {} =>
      /\ get_next(m, o) \in DOMAIN m
      /\ \A k \in DOMAIN m :
           OIDCompare(o, k) => k = get_next(m, o) \/ OIDCompare(get_next(m, o), k)

(* A message is made of texts. *)
MessagesAreTexts ==
  \A n \in Nat, class \in Classes : \A shape :
    IsShape(class, shape) => Encode(n, class, shape) \in Seq(Texts)

(* Of what handlers are given they put counts into the tree, which are the *)
(* same when they are read as the unsigned of an answer; a handler with a  *)
(* table makes it the rows of the message.                                 *)
Answers(ops) == {<<p[1], p[2] % WORD>> : p \in UNION {Puts(o) : o \in Range(ops)}}

CountsComeBack ==
  \A h, shape : \A n \in Nat :
    IsHandler(h) /\ IsShape(h.class, shape) /\ Counts * (n + 1) <= WORD =>
      LET ops == handle(h, Encode(n, h.class, shape))
      IN  /\ \A i \in DOMAIN ops : \A p \in Puts(ops[i]) : MessageOf(p[2] % WORD) = n
          /\ h.class = "IPCount" => Answers(ops) = PairRows(h.oid, n, shape)
          /\ h.class = "AstaireConnection" => Answers(ops) = ConnectionRows(h.oid, n, shape)

HandlerFacts ==
  /\ PutsAreTyped /\ ApplyIsExact /\ HandlersMakeCalls /\ CallsKeepToOwn
  /\ RootsAreOIDs /\ CallsLeaveOthers /\ NextIsSuccessor /\ MessagesAreTexts
  /\ CountsComeBack
=============================================================================
