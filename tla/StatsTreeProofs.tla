--------------------------- MODULE StatsTreeProofs --------------------------
(***************************************************************************)
(* What the tree of a statistics library holds while messages are applied  *)
(* to it, for handlers that are apart from each other (TreeInv), and what  *)
(* requests read from it meanwhile: what a walk has yet to meet (WalkInv), *)
(* and which messages answers come from (AnswerInv).                       *)
(***************************************************************************)
EXTENDS StatsProofs, HandlerCalls

(* The handlers of the node data are handlers that are apart. *)
LEMMA NodeHandlers ==
  ASSUME LogInv, ThreadInv
  PROVE  /\ Names \subseteq Stats
         /\ \A s \in Names : /\ IsHandler(HandlerOf(s)) /\ HandlerOf(s) \in Handlers
                             /\ <<>> \notin Roots(HandlerOf(s))
         /\ \A s, u \in Names : s # u => Apart(HandlerOf(s), HandlerOf(u))
<1>1. \A x \in Seq(Nat) : x \in OIDs
  BY DEF OIDs
<1> QED
  BY <1>1, NodeDataOfLibrary DEF IsHandler, Apart

(* What is called for a message. *)
LEMMA MessageHandled ==
  ASSUME LogInv, ThreadInv, MessageInv, NEW n, IsCall(n)
  PROVE  LET h == HandlerOf(log[n].name)
             shape == log[n].shape
         IN  /\ IsHandler(h) /\ n \in Nat
             /\ IsShape(h.class, shape) /\ Counts * (n + 1) <= WORD
             /\ Operations(global_node_data, n) = handle(h, Encode(n, h.class, shape))
<1> DEFINE h == HandlerOf(log[n].name)
           shape == log[n].shape
<1>1. IsHandler(h) /\ h \in Handlers
  BY NodeHandlers DEF IsCall
<1>2. n \in 1 .. MaxMessages /\ shape \in Shapes[h.class] /\ MaxMessages \in Nat
  <2>1. Len(log) \in Nat
    BY DEF LogInv
  <2> QED
    BY <2>1, StatsAssumption DEF MessageInv, IsCall, StatsAssumption
<1>3. Operations(global_node_data, n) = Handled[h][shape][n]
  BY DEF Operations, HandlerOf
<1> HIDE DEF h, shape
<1>4. Handled[h][shape][n] = handle(h, Encode(n, h.class, shape))
  BY <1>1, <1>2 DEF Handled
<1>5. IsShape(h.class, shape) /\ Counts * (MaxMessages + 1) <= WORD
  BY <1>1, <1>2, ShapesAssumption DEF ShapesAssumption
<1>6. Counts * (n + 1) <= WORD
  <2>1. Counts \in Nat /\ WORD \in Nat
    BY CountsAssumption, WordAssumption DEF CountsAssumption, WordAssumption
  <2>2. PICK d \in Nat : MaxMessages = n + d
    <3>1. MaxMessages - n \in Nat
      BY <1>2
    <3> QED
      BY <1>2, <3>1
  <2>3. Counts * (MaxMessages + 1) = Counts * (n + 1) + Counts * d /\ Counts * d \in Nat
    BY <1>2, <2>1, <2>2
  <2> QED
    BY <1>2, <1>5, <2>1, <2>3
<1> QED
  BY <1>1, <1>2, <1>3, <1>4, <1>5, <1>6 DEF h, shape

(* They are calls of its handler. *)
LEMMA MessageCalls ==
  ASSUME HandlerFacts, LogInv, ThreadInv, MessageInv, NEW n, IsCall(n)
  PROVE  Calls(HandlerOf(log[n].name), Operations(global_node_data, n))
<1>1. PICK h, shape : /\ h = HandlerOf(log[n].name) /\ IsHandler(h) /\ n \in Nat
                      /\ IsShape(h.class, shape)
                      /\ Operations(global_node_data, n) = handle(h, Encode(n, h.class, shape))
  BY MessageHandled
<1>2. Encode(n, h.class, shape) \in Seq(Texts)
  BY <1>1 DEF HandlerFacts, MessagesAreTexts, IsHandler
<1> QED
  BY <1>1, <1>2 DEF HandlerFacts, HandlersMakeCalls

(* Calls of a handler keep to its OIDs and settle each of them once. *)
LEMMA OwnSettled ==
  ASSUME HandlerFacts, NEW h, IsHandler(h), NEW ops, Calls(h, ops)
  PROVE  /\ \A i \in DOMAIN ops : \A p \in Puts(ops[i]) : Owns(h, p[1])
         /\ \A i, j \in DOMAIN ops : \A k \in OIDs :
              Owns(h, k) /\ Touches(ops[i], k) /\ Touches(ops[j], k) => i = j
         /\ ops = <<>> \/ \A k \in OIDs :
              Owns(h, k) => \E i \in DOMAIN ops : Touches(ops[i], k)
BY DEF HandlerFacts, CallsKeepToOwn

(* What is left after the first of some calls. *)
LEMMA TailElements ==
  ASSUME NEW S, NEW q \in Seq(S), q # <<>>, NEW i \in DOMAIN Tail(q)
  PROVE  i + 1 \in DOMAIN q /\ Tail(q)[i] = q[i + 1]
OBVIOUS

(* The positions of a sequence. *)
LEMMA SequenceDomain == \A S : \A q \in Seq(S) : DOMAIN q = 1 .. Len(q)
OBVIOUS

(* The numbers up to one. *)
LEMMA UpTo == \A L \in Nat : \A x \in 0 .. L : x \in Nat /\ x <= x
OBVIOUS

(* When something is left of the calls there are some. *)
LEMMA RestOfSome ==
  ASSUME NEW rest, NEW ops, IsRest(rest, ops), rest # <<>>
  PROVE  ops # <<>>
<1>1. PICK S : rest \in Seq(S)
  BY DEF IsRest
<1>2. Len(rest) \in Nat /\ Len(rest) # 0 /\ Len(rest) <= Len(ops)
  BY <1>1 DEF IsRest
<1>3. ops = <<>> => Len(ops) = 0
  OBVIOUS
<1> QED
  BY <1>2, <1>3

Holds(k, v) == k \in DOMAIN tree /\ tree[k] = v
InCalls(ops, k, v) == \E i \in DOMAIN ops : <<k, v>> \in Puts(ops[i])

(* While thread t makes the calls of a message, the tree holds what those  *)
(* that are made have put there, and for the others what it held before.   *)
HalfDone(t) ==
  LET s == log[handling[t]].name
      ops == Operations(global_node_data, handling[t])
  IN  \A i \in DOMAIN ops, k \in OIDs, v \in int :
        Owns(HandlerOf(s), k) /\ Touches(ops[i], k) =>
          (Holds(k, v) <=> IF i <= Len(ops) - Len(todo[t])
                             THEN <<k, v>> \in Puts(ops[i])
                             ELSE InCalls(LastCalls(s), k, v))

(* Every OID of the tree is of one of the node's handlers and holds what   *)
(* the last message of it put there.                                       *)
TreeInv ==
  /\ IsFiniteSet(DOMAIN tree)
  /\ \A k \in DOMAIN tree : /\ k \in OIDs /\ tree[k] \in int
                            /\ \E s \in Names : Owns(HandlerOf(s), k)
  /\ \A s \in Names : ~Handling(s) =>
       \A k \in OIDs, v \in int :
         Owns(HandlerOf(s), k) => (Holds(k, v) <=> InCalls(LastCalls(s), k, v))
  /\ \A t \in Threads : todo[t] # <<>> => HalfDone(t)

(* The invariant says what the tree holds. *)
LEMMA TreeInvIsLatest ==
  ASSUME HandlerFacts, TreeInv, MessageInv, LogInv, ThreadInv
  PROVE  TreeIsLatest
<1>1. \A k \in DOMAIN tree : \E s \in DOMAIN global_node_data.stat_to_handler :
        Owns(global_node_data.stat_to_handler[s], k)
  BY DEF TreeInv, Names, HandlerOf
<1>2. ASSUME NEW s \in Names, ~Handling(s)
      PROVE  Held(s) = UNION {Puts(o) : o \in Range(LastCalls(s))}
  <2> DEFINE ops == LastCalls(s)
             h == HandlerOf(s)
  <2>1. s \in Stats /\ IsHandler(h)
    BY <1>2, NodeHandlers
  <2>2. Calls(h, ops)
    <3>1. CASE applied[s] = 0
      <4>1. ops = <<>> /\ <<>> \in Seq({}) /\ DOMAIN <<>> = {}
        BY <3>1 DEF LastCalls
      <4> QED
        BY <4>1 DEF Calls
    <3>2. CASE applied[s] # 0
      <4>1. IsCall(applied[s]) /\ log[applied[s]].name = s
        BY <2>1, <3>2 DEF MessageInv
      <4>2. ops = Operations(global_node_data, applied[s])
        BY <3>2 DEF LastCalls
      <4> QED
        BY <4>1, <4>2, MessageCalls
    <3> QED
      BY <3>1, <3>2
  <2> HIDE DEF ops, h
  <2>3. Held(s) = {<<k, tree[k]>> : k \in {o \in DOMAIN tree : Owns(h, o)}}
    BY DEF Held, HandlerOf, h
  <2>4. \A k \in OIDs, v \in int : Owns(h, k) => (Holds(k, v) <=> InCalls(ops, k, v))
    BY <1>2 DEF TreeInv, h, ops
  <2>5. ASSUME NEW k \in DOMAIN tree, Owns(h, k)
        PROVE  <<k, tree[k]>> \in UNION {Puts(o) : o \in Range(ops)}
    <3>1. InCalls(ops, k, tree[k])
      BY <2>4, <2>5 DEF TreeInv, Holds
    <3>2. PICK i \in DOMAIN ops : <<k, tree[k]>> \in Puts(ops[i])
      BY <3>1 DEF InCalls
    <3>3. ops[i] \in Range(ops)
      BY DEF Range
    <3> QED
      BY <3>2, <3>3
  <2>6. ASSUME NEW i \in DOMAIN ops, NEW p \in Puts(ops[i])
        PROVE  p \in {<<k, tree[k]>> : k \in {o \in DOMAIN tree : Owns(h, o)}}
    <3>1. IsOperation(ops[i])
      BY <2>2 DEF Calls
    <3>2. p = <<p[1], p[2]>> /\ p[1] \in OIDs /\ p[2] \in int
      BY <3>1, Zenon DEF HandlerFacts, PutsAreTyped
    <3>3. Owns(h, p[1])
      BY <2>1, <2>2, OwnSettled
    <3>4. InCalls(ops, p[1], p[2])
      BY <3>2 DEF InCalls
    <3>5. p[1] \in DOMAIN tree /\ tree[p[1]] = p[2]
      BY <2>4, <3>2, <3>3, <3>4 DEF Holds
    <3> QED
      BY <3>2, <3>3, <3>5
  <2>7. \A p \in UNION {Puts(o) : o \in Range(ops)} : \E i \in DOMAIN ops : p \in Puts(ops[i])
    BY DEF Range
  <2>8. Held(s) \subseteq UNION {Puts(o) : o \in Range(ops)}
    BY <2>3, <2>5
  <2>9. UNION {Puts(o) : o \in Range(ops)} \subseteq Held(s)
    BY <2>3, <2>6, <2>7
  <2> QED
    BY <2>8, <2>9 DEF ops
<1> QED
  BY <1>1, <1>2 DEF TreeIsLatest, Names

(* Initially the tree is empty. *)
LEMMA InitTreeInv == HandlerFacts /\ StatsInit => TreeInv
<1> SUFFICES ASSUME HandlerFacts, StatsInit PROVE TreeInv
  OBVIOUS
<1>1. /\ tree = <<>> /\ todo = [t \in Threads |-> <<>>]
      /\ global_node_data.stat_to_handler = <<>>
  BY DEF StatsInit, ListenerInit, EmptyMap, NoNode
<1>2. DOMAIN tree = {} /\ Names = {} /\ \A t \in Threads : todo[t] = <<>>
  BY <1>1 DEF Names
<1>3. IsFiniteSet(DOMAIN tree)
  BY <1>2 DEF HandlerFacts, ApplyIsExact
<1> QED
  BY <1>2, <1>3 DEF TreeInv

(* A step that keeps the tree and the calls keeps the invariant. *)
LEMMA KeptTree ==
  ASSUME TreeInv, UNCHANGED <<tree, todo, handling, log, applied, global_node_data>>
  PROVE  TreeInv'
<1>1. /\ Names' = Names /\ \A s : HandlerOf(s)' = HandlerOf(s)
      /\ \A s : (Handling(s)' <=> Handling(s)) /\ LastCalls(s)' = LastCalls(s)
      /\ \A k, v : (Holds(k, v)' <=> Holds(k, v))
  BY DEF Names, HandlerOf, Handling, LastCalls, Operations, Holds
<1>2. \A t \in Threads : HalfDone(t)' <=> HalfDone(t)
  BY DEF HalfDone, HandlerOf, Operations, Holds, LastCalls, InCalls
<1>3. \A ops, k, v : InCalls(ops, k, v)' <=> InCalls(ops, k, v)
  BY DEF InCalls
<1> HIDE DEF Holds, Handling, LastCalls, HalfDone
<1>4. ASSUME NEW s \in Names, ~Handling(s)', NEW k \in OIDs, NEW v \in int, Owns(HandlerOf(s), k)'
      PROVE  (Holds(k, v) <=> InCalls(LastCalls(s), k, v))'
  <2>1. ~Handling(s) /\ Owns(HandlerOf(s), k)
    BY <1>1, <1>4
  <2>2. Holds(k, v) <=> InCalls(LastCalls(s), k, v)
    BY <2>1 DEF TreeInv
  <2> QED
    BY <1>1, <2>2 DEF InCalls
<1>5. \A k \in DOMAIN tree' : /\ k \in OIDs /\ tree'[k] \in int
                              /\ \E s \in Names' : Owns(HandlerOf(s), k)'
  BY <1>1 DEF TreeInv
<1>6. \A t \in Threads : todo'[t] # <<>> => HalfDone(t)'
  BY <1>2 DEF TreeInv
<1>7. IsFiniteSet(DOMAIN tree')
  BY DEF TreeInv
<1> QED
  BY <1>1, <1>4, <1>5, <1>6, <1>7 DEF TreeInv

(* There is nothing in the tree before the first message. *)
LEMMA EmptyBefore ==
  ASSUME TreeInv, MessageInv, LogInv, ThreadInv, log = <<>>
  PROVE  /\ DOMAIN tree = {}
         /\ \A t \in Threads : todo[t] = <<>>
         /\ \A s \in Stats : applied[s] = 0
<1>1. \A n : ~IsCall(n)
  BY DEF IsCall
<1>2. /\ \A t \in Threads : todo[t] = <<>>
      /\ \A s \in Stats : applied[s] = 0
  BY <1>1 DEF MessageInv
<1>3. \A s : ~Handling(s)
  BY <1>2 DEF Handling
<1>4. ASSUME NEW k \in DOMAIN tree PROVE FALSE
  <2>1. PICK s \in Names : Owns(HandlerOf(s), k)
    BY DEF TreeInv
  <2>2. s \in Stats
    BY NodeHandlers
  <2>3. LastCalls(s) = <<>>
    BY <1>2, <2>2 DEF LastCalls
  <2>4. InCalls(LastCalls(s), k, tree[k])
    BY <1>3, <2>1 DEF TreeInv, Holds
  <2> QED
    BY <2>3, <2>4 DEF InCalls
<1> QED
  BY <1>2, <1>4, Zenon

(* The handlers of the next state. *)
LEMMA NamesNext == (LogInv /\ ThreadInv => Names \subseteq Stats)'
<1>1. LogInv /\ ThreadInv => Names \subseteq Stats
  BY NodeHandlers
<1> QED
  BY <1>1, PTL

(* Initialisation finds the tree empty. *)
LEMMA InitializeTree ==
  ASSUME HandlerFacts, TreeInv, MessageInv, MessageInv', LogInv, LogInv',
         ThreadInv, ThreadInv',
         initialize_handler
  PROVE  TreeInv'
<1>1. ~thread_created /\ UNCHANGED <<tree, todo, log, applied, library>>
  BY LibraryLength DEF initialize_handler, ThreadInv, threadVars
<1>2. log = <<>>
  BY <1>1 DEF MessageInv
<1>3. /\ DOMAIN tree = {} /\ \A t \in Threads : todo[t] = <<>>
      /\ \A s \in Stats : applied[s] = 0
  BY <1>2, EmptyBefore
<1>4. DOMAIN tree' = {} /\ \A t \in Threads : todo'[t] = <<>>
  BY <1>1, <1>3
<1>5. Names' \subseteq Stats'
  BY NamesNext
<1>6. Stats' = Stats
  BY <1>1 DEF Stats
<1>7. \A s \in Names' : LastCalls(s)' = <<>>
  BY <1>1, <1>3, <1>5, <1>6 DEF LastCalls
<1>8. \A s \in Names' : \A k, v : ~InCalls(LastCalls(s), k, v)' /\ ~Holds(k, v)'
  BY <1>4, <1>7 DEF InCalls, Holds
<1>9. IsFiniteSet(DOMAIN tree')
  BY <1>4 DEF HandlerFacts, ApplyIsExact
<1> QED
  BY <1>4, <1>8, <1>9 DEF TreeInv

(* A new message leaves those before it. *)
LEMMA PublishTree ==
  ASSUME TreeInv, MessageInv, LogInv, ThreadInv, NEW m,
         Publish(global_node_data, m), UNCHANGED handlerVars
  PROVE  TreeInv'
<1>1. /\ Len(log) \in Nat /\ Len(log') = Len(log) + 1
      /\ \A n \in 1 .. Len(log) : log'[n] = log[n]
  BY PublishLog
<1>2. UNCHANGED <<tree, handling, todo, applied, library, global_node_data>>
  BY DEF Publish, handlerVars, initVars
<1>3. /\ Names' = Names /\ \A s : HandlerOf(s)' = HandlerOf(s)
      /\ \A n \in 1 .. Len(log) :
           Operations(global_node_data, n)' = Operations(global_node_data, n)
  BY <1>1, <1>2, SameOperations
<1>4. \A k, v : (Holds(k, v)' <=> Holds(k, v))
  BY <1>2 DEF Holds
<1>5. \A t \in Threads : todo[t] # <<>> => handling[t] \in 1 .. Len(log)
  BY DEF MessageInv, IsCall
<1>6. \A s : Handling(s)' <=> Handling(s)
  BY <1>1, <1>2, <1>5 DEF Handling
<1>7. \A s \in Names : LastCalls(s)' = LastCalls(s)
  <2> SUFFICES ASSUME NEW s \in Names PROVE LastCalls(s)' = LastCalls(s)
    OBVIOUS
  <2>1. s \in Stats
    BY NodeHandlers
  <2>2. applied[s] # 0 => applied[s] \in 1 .. Len(log)
    BY <2>1 DEF MessageInv, IsCall
  <2> QED
    BY <1>2, <1>3, <2>2 DEF LastCalls
<1>8. ASSUME NEW s \in Names, ~Handling(s)', NEW k \in OIDs, NEW v \in int, Owns(HandlerOf(s), k)'
      PROVE  (Holds(k, v) <=> InCalls(LastCalls(s), k, v))'
  <2>1. ~Handling(s) /\ Owns(HandlerOf(s), k)
    BY <1>3, <1>6, <1>8
  <2>2. Holds(k, v) <=> InCalls(LastCalls(s), k, v)
    BY <2>1 DEF TreeInv
  <2> QED
    BY <1>4, <1>7, <2>2 DEF InCalls
<1>9. ASSUME NEW t \in Threads, todo'[t] # <<>> PROVE HalfDone(t)'
  <2> DEFINE s == log[handling[t]].name
             ops == Operations(global_node_data, handling[t])
  <2>1. todo[t] # <<>> /\ handling[t] \in 1 .. Len(log)
    BY <1>2, <1>5, <1>9
  <2>2. s' = s /\ ops' = ops /\ s \in Names /\ todo'[t] = todo[t]
    BY <1>1, <1>2, <1>3, <2>1, Zenon DEF MessageInv, IsCall
  <2>3. LastCalls(s)' = LastCalls(s) /\ HandlerOf(s)' = HandlerOf(s)
    BY <1>3, <1>7, <2>2, Zenon
  <2>4. HalfDone(t)
    BY <2>1, Zenon DEF TreeInv
  <2> QED
    BY <1>4, <2>2, <2>3, <2>4, Zenon DEF HalfDone, InCalls
<1>10. \A k \in DOMAIN tree' : /\ k \in OIDs /\ tree'[k] \in int
                               /\ \E s \in Names' : Owns(HandlerOf(s), k)'
  BY <1>2, <1>3, Zenon DEF TreeInv
<1>11. IsFiniteSet(DOMAIN tree')
  BY <1>2, Zenon DEF TreeInv
<1> QED
  BY <1>3, <1>8, <1>9, <1>10, <1>11, Zenon DEF TreeInv

(* One thread at most has anything to do. *)
LEMMA OneBusy ==
  ASSUME ThreadInv, MessageInv, NEW t \in Threads, listener[t] # NULL
  PROVE  \A u \in Threads : u # t => todo[u] = <<>> /\ queue[u] = <<>>
BY DEF ThreadInv, OneListener, MessageInv

(* At first no call of a message is made. *)
LEMMA ReceiveTree ==
  ASSUME HandlerFacts, TreeInv, MessageInv, LogInv, ThreadInv, NEW t \in Threads,
         Receive(t, global_node_data), UNCHANGED <<initVars, thread_created>>
  PROVE  TreeInv'
<1>1. /\ UNCHANGED <<tree, log, applied, global_node_data>> /\ listener[t] # NULL
      /\ todo[t] = <<>>
  BY DEF Receive, initVars, NULL
<1>2. CASE UNCHANGED <<handling, todo>>
  BY <1>1, <1>2, KeptTree
<1>3. CASE /\ IsCall(Head(queue[t]))
           /\ handling' = [handling EXCEPT ![t] = Head(queue[t])]
           /\ todo' = [todo EXCEPT ![t] = Operations(global_node_data, Head(queue[t]))]
  <2>0. PICK n, s, ops : /\ n = Head(queue[t]) /\ s = log[n].name
                         /\ ops = Operations(global_node_data, n)
    OBVIOUS
  <2>1. \A u \in Threads : todo[u] = <<>>
    BY <1>1, OneBusy
  <2>2. /\ handling'[t] = n /\ todo'[t] = ops
        /\ \A u \in Threads : u # t => todo'[u] = <<>>
    BY <1>3, <2>0, <2>1, Zenon DEF MessageInv
  <2>3. /\ Names' = Names /\ \A u : HandlerOf(u)' = HandlerOf(u)
        /\ \A u : LastCalls(u)' = LastCalls(u)
        /\ \A k, v : (Holds(k, v)' <=> Holds(k, v))
        /\ Operations(global_node_data, n)' = ops
    BY <1>1, <2>0, <2>2, Zenon DEF Names, HandlerOf, LastCalls, Holds, Operations
  <2>4. s \in Names /\ Calls(HandlerOf(s), ops)
    BY <1>3, <2>0, MessageCalls DEF IsCall
  <2>5. DOMAIN ops = 1 .. Len(ops) /\ Len(ops) \in Nat
    BY <2>4 DEF Calls
  <2>6. \A u : ~Handling(u)
    BY <2>1 DEF Handling
  <2>7. ASSUME NEW u \in Names, NEW k \in OIDs, NEW v \in int, Owns(HandlerOf(u), k)
        PROVE  (Holds(k, v) <=> InCalls(LastCalls(u), k, v))'
    <3>1. Holds(k, v) <=> InCalls(LastCalls(u), k, v)
      BY <2>6, <2>7, Zenon DEF TreeInv
    <3> QED
      BY <2>3, <3>1 DEF InCalls
  <2>8. HalfDone(t)'
    <3>1. /\ (log[handling[t]].name)' = s
          /\ Operations(global_node_data, handling[t])' = ops
      BY <1>1, <2>0, <2>2, <2>3, Zenon DEF Operations
    <3>2. ASSUME NEW i \in DOMAIN ops, NEW k \in OIDs, NEW v \in int,
                 Owns(HandlerOf(s)', k), Touches(ops[i], k)
          PROVE  Holds(k, v)' <=> IF i <= Len(ops) - Len(todo'[t])
                                    THEN <<k, v>> \in Puts(ops[i])
                                    ELSE InCalls(LastCalls(s)', k, v)
      <4>1. ~(i <= Len(ops) - Len(todo'[t]))
        BY <2>2, <2>5
      <4>2. Holds(k, v)' <=> InCalls(LastCalls(s)', k, v)
        BY <2>3, <2>4, <2>7, <3>2 DEF InCalls
      <4> QED
        BY <4>1, <4>2
    <3> QED
      BY <3>1, <3>2, Zenon DEF HalfDone, InCalls
  <2>9. \A u \in Threads : todo'[u] # <<>> => HalfDone(u)'
    BY <2>2, <2>8
  <2>10. \A k \in DOMAIN tree' : /\ k \in OIDs /\ tree'[k] \in int
                                 /\ \E u \in Names' : Owns(HandlerOf(u), k)'
    BY <1>1, <2>3 DEF TreeInv
  <2>11. IsFiniteSet(DOMAIN tree')
    BY <1>1, Zenon DEF TreeInv
  <2>12. \A u \in Names', k \in OIDs, v \in int :
           Owns(HandlerOf(u), k)' => (Holds(k, v) <=> InCalls(LastCalls(u), k, v))'
    BY <2>3, <2>7
  <2> QED
    BY <2>9, <2>10, <2>11, <2>12, Zenon DEF TreeInv
<1> QED
  BY <1>2, <1>3, ReceiveMessages

(* The next call of a thread, the dth of message n of statistic s is made. *)
NextCall(t, n, s, ops, d) ==
  /\ n = handling[t] /\ s = log[n].name /\ ops = Operations(global_node_data, n)
  /\ IsCall(n) /\ Calls(HandlerOf(s), ops) /\ s \in Names /\ s \in Stats
  /\ Len(ops) \in Nat /\ DOMAIN ops = 1 .. Len(ops)
  /\ d \in 1 .. Len(ops) /\ d = Len(ops) - Len(todo[t]) + 1
  /\ tree' = Apply(tree, ops[d]) /\ todo' = [todo EXCEPT ![t] = Tail(@)]
  /\ Len(todo'[t]) = Len(ops) - d /\ (todo'[t] = <<>> <=> d = Len(ops))
  /\ applied' = IF d = Len(ops) THEN [applied EXCEPT ![s] = n] ELSE applied
  /\ UNCHANGED <<log, handling, queue, global_node_data, library>>
  /\ \A u \in Threads : u # t => todo[u] = <<>> /\ todo'[u] = <<>>

(* CallTree makes it. *)
LEMMA CallIsNext ==
  ASSUME HandlerFacts, MessageInv, LogInv, ThreadInv,
         NEW t \in Threads, CallTree(t), UNCHANGED initVars
  PROVE  \E n, s, ops, d : NextCall(t, n, s, ops, d)
<1> DEFINE n == handling[t]
           s == log[n].name
           ops == Operations(global_node_data, n)
           d == Len(ops) - Len(todo[t]) + 1
<1>1. /\ todo[t] # <<>> /\ todo' = [todo EXCEPT ![t] = Tail(@)]
      /\ tree' = Apply(tree, Head(todo[t]))
      /\ applied' = IF Len(todo[t]) = 1 THEN [applied EXCEPT ![s] = n] ELSE applied
      /\ UNCHANGED <<log, handling, queue, global_node_data, library>>
  BY DEF CallTree, initVars
<1>2. IsCall(n) /\ IsRest(todo[t], ops)
  BY <1>1 DEF MessageInv
<1>3. Calls(HandlerOf(s), ops)
  BY <1>2, MessageCalls
<1>4. s \in Names /\ s \in Stats
  BY <1>2, NodeHandlers DEF IsCall
<1>5. /\ Len(ops) \in Nat
      /\ Len(todo[t]) \in 1 .. Len(ops) /\ Len(Tail(todo[t])) = Len(todo[t]) - 1
      /\ Head(todo[t]) = ops[d] /\ (Tail(todo[t]) = <<>> <=> Len(todo[t]) = 1)
  <2>1. \E S : ops \in Seq(S)
    BY <1>3, Zenon DEF Calls
  <2> QED
    BY <1>1, <1>2, <2>1, RestOfCalls, Zenon
<1>6. DOMAIN ops = 1 .. Len(ops)
  BY <1>3, SequenceDomain, Zenon DEF Calls
<1>7. listener[t] # NULL
  BY <1>1 DEF MessageInv
<1>8. \A u \in Threads : u # t => todo[u] = <<>> /\ todo'[u] = <<>>
  BY <1>1, <1>7, OneBusy, Zenon DEF MessageInv
<1>9. todo'[t] = Tail(todo[t])
  BY <1>1 DEF MessageInv
<1> HIDE DEF ops, n, s
<1>10. d \in 1 .. Len(ops) /\ (Len(todo[t]) = 1 <=> d = Len(ops))
  <2>1. \A a \in Nat : \A b \in 1 .. a :
          a - b + 1 \in 1 .. a /\ (b = 1 <=> a - b + 1 = a)
    OBVIOUS
  <2> QED
    BY <1>5, <2>1, Zenon
<1>11. Len(todo'[t]) = Len(ops) - d /\ (todo'[t] = <<>> <=> d = Len(ops))
  BY <1>5, <1>9, <1>10
<1>12. applied' = IF d = Len(ops) THEN [applied EXCEPT ![s] = n] ELSE applied
  BY <1>1, <1>10
<1>13. tree' = Apply(tree, ops[d])
  BY <1>1, <1>5, Zenon
<1> HIDE DEF d
<1>14. NextCall(t, n, s, ops, d)
  BY <1>1, <1>2, <1>3, <1>4, <1>5, <1>6, <1>8, <1>10, <1>11, <1>12, <1>13, Zenon
     DEF NextCall, n, s, ops, d
<1> QED
  BY <1>14

(* What it leaves and what it puts into the tree. *)
LEMMA CallEffect ==
  ASSUME HandlerFacts, MessageInv, LogInv, ThreadInv,
         NEW t, NEW n, NEW s, NEW ops, NEW d,
         NextCall(t, n, s, ops, d)
  PROVE  /\ \A k, v : Touches(ops[d], k) => (Holds(k, v)' <=> <<k, v>> \in Puts(ops[d]))
         /\ \A k, v : ~Touches(ops[d], k) => (Holds(k, v)' <=> Holds(k, v))
         /\ \A u \in Names, k \in OIDs : u # s /\ Owns(HandlerOf(u), k) => ~Touches(ops[d], k)
         /\ \A i \in DOMAIN ops, k \in OIDs :
              Owns(HandlerOf(s), k) /\ Touches(ops[i], k) /\ i # d => ~Touches(ops[d], k)
<1>1. IsOperation(ops[d])
  BY Zenon DEF NextCall, Calls
<1>2. /\ \A k, v : Touches(ops[d], k) => (Holds(k, v)' <=> <<k, v>> \in Puts(ops[d]))
      /\ \A k, v : ~Touches(ops[d], k) => (Holds(k, v)' <=> Holds(k, v))
  <2> DEFINE next == Apply(tree, ops[d])
  <2>1. tree' = next
    BY Zenon DEF NextCall
  <2>2. /\ \A k, v : Touches(ops[d], k) =>
             ((k \in DOMAIN next /\ next[k] = v) <=> <<k, v>> \in Puts(ops[d]))
        /\ \A k, v : ~Touches(ops[d], k) =>
             ((k \in DOMAIN next /\ next[k] = v) <=> (k \in DOMAIN tree /\ tree[k] = v))
    BY <1>1, Zenon DEF HandlerFacts, ApplyIsExact
  <2> HIDE DEF next
  <2> QED
    BY <2>1, <2>2, Zenon DEF Holds
<1>3. ASSUME NEW u \in Names, NEW k \in OIDs, u # s, Owns(HandlerOf(u), k)
      PROVE  ~Touches(ops[d], k)
  <2>1. /\ IsHandler(HandlerOf(u)) /\ IsHandler(HandlerOf(s))
        /\ Apart(HandlerOf(u), HandlerOf(s))
    BY <1>3, NodeHandlers, Zenon DEF NextCall
  <2>2. Calls(HandlerOf(s), ops) /\ d \in DOMAIN ops
    BY Zenon DEF NextCall
  <2> QED
    BY <1>3, <2>1, <2>2 DEF HandlerFacts, CallsLeaveOthers
<1>4. ASSUME NEW i \in DOMAIN ops, NEW k \in OIDs, Owns(HandlerOf(s), k),
             Touches(ops[i], k), i # d
      PROVE  ~Touches(ops[d], k)
  <2>1. IsHandler(HandlerOf(s)) /\ Calls(HandlerOf(s), ops) /\ d \in DOMAIN ops
    BY NodeHandlers, Zenon DEF NextCall
  <2> QED
    BY <1>4, <2>1, OwnSettled
<1> QED
  BY <1>2, <1>3, <1>4

(* What is put there is the statistic's own. *)
LEMMA CallTreeTyped ==
  ASSUME HandlerFacts, TreeInv, MessageInv, LogInv, ThreadInv,
         NEW t, NEW n, NEW s, NEW ops, NEW d,
         NextCall(t, n, s, ops, d)
  PROVE  /\ IsFiniteSet(DOMAIN tree')
         /\ \A k \in DOMAIN tree' : /\ k \in OIDs /\ tree'[k] \in int
                                    /\ \E u \in Names : Owns(HandlerOf(u), k)
<1>1. IsOperation(ops[d]) /\ d \in DOMAIN ops /\ s \in Names
  BY Zenon DEF NextCall, Calls
<1>2. IsFiniteSet(DOMAIN tree')
  <2>1. IsFiniteSet(DOMAIN Apply(tree, ops[d]))
    BY <1>1, Zenon DEF TreeInv, HandlerFacts, ApplyIsExact
  <2> QED
    BY <2>1, Zenon DEF NextCall
<1>3. ASSUME NEW k \in DOMAIN tree'
      PROVE  k \in OIDs /\ tree'[k] \in int /\ \E u \in Names : Owns(HandlerOf(u), k)
  <2>2. CASE Touches(ops[d], k)
    <3>1. PICK v : v = tree'[k]
      OBVIOUS
    <3>2. <<k, v>> \in Puts(ops[d])
      <4>1. Holds(k, v)'
        BY <1>3, <3>1 DEF Holds
      <4> QED
        BY <2>2, <4>1, CallEffect
    <3>3. <<k, v>>[1] = k /\ <<k, v>>[2] = v
      OBVIOUS
    <3>4. k \in OIDs /\ v \in int
      BY <1>1, <3>2, <3>3, Zenon DEF HandlerFacts, PutsAreTyped
    <3>5. IsHandler(HandlerOf(s)) /\ Calls(HandlerOf(s), ops)
      BY <1>1, NodeHandlers, Zenon DEF NextCall
    <3>6. Owns(HandlerOf(s), k)
      BY <1>1, <3>2, <3>3, <3>5, OwnSettled
    <3> QED
      BY <1>1, <3>1, <3>4, <3>6
  <2>3. CASE ~Touches(ops[d], k)
    <3>1. PICK v : v = tree'[k]
      OBVIOUS
    <3>2. Holds(k, v)'
      BY <1>3, <3>1 DEF Holds
    <3>3. Holds(k, v)
      BY <2>3, <3>2, CallEffect
    <3> QED
      BY <3>1, <3>3, Zenon DEF TreeInv, Holds
  <2> QED
    BY <2>2, <2>3
<1> QED
  BY <1>2, <1>3

(* What the tree holds when a call is made. *)
LEMMA CallHolds ==
  ASSUME HandlerFacts, TreeInv, MessageInv, LogInv, ThreadInv,
         NEW t \in Threads, NEW n, NEW s, NEW ops,
         NEW d, NextCall(t, n, s, ops, d), todo[t] # <<>>,
         NEW i \in DOMAIN ops, NEW k \in OIDs, NEW v \in int,
         Owns(HandlerOf(s), k), Touches(ops[i], k)
  PROVE  Holds(k, v)' <=> IF i <= d THEN <<k, v>> \in Puts(ops[i])
                                    ELSE InCalls(LastCalls(s), k, v)
<1>1. CASE i = d
  <2>1. Holds(k, v)' <=> <<k, v>> \in Puts(ops[d])
    <3>1. Touches(ops[d], k)
      BY <1>1, Zenon
    <3> QED
      BY <3>1, CallEffect, Zenon
  <2>2. d \in Nat
    <3>1. d \in 1 .. Len(ops) /\ Len(ops) \in Nat
      BY Zenon DEF NextCall
    <3> QED
      BY <3>1
  <2>3. i <= d
    BY <1>1, <2>2
  <2> QED
    BY <1>1, <2>1, <2>3, Zenon
<1>2. CASE i # d
  <2>1. ~Touches(ops[d], k)
    BY <1>2, CallEffect, Zenon
  <2>2. Holds(k, v)' <=> Holds(k, v)
    <3>1. \A l, w : ~Touches(ops[d], l) => (Holds(l, w)' <=> Holds(l, w))
      BY CallEffect, Zenon
    <3> QED
      BY <2>1, <3>1, Zenon
  <2>3. i \in Nat /\ d \in Nat /\ Len(ops) - Len(todo[t]) = d - 1
    <3>1. /\ i \in 1 .. Len(ops) /\ d \in 1 .. Len(ops) /\ Len(ops) \in Nat
          /\ d = Len(ops) - Len(todo[t]) + 1
      BY Zenon DEF NextCall
    <3>2. PICK S : todo[t] \in Seq(S)
      BY Zenon DEF MessageInv, IsRest
    <3>3. PICK L \in Nat : L = Len(todo[t])
      BY <3>2
    <3> QED
      BY <3>1, <3>3
  <2>4. (i <= Len(ops) - Len(todo[t])) <=> i <= d
    BY <1>2, <2>3
  <2>5. HalfDone(t)
    BY Zenon DEF TreeInv
  <2>6. /\ s = log[handling[t]].name
        /\ ops = Operations(global_node_data, handling[t])
    BY Zenon DEF NextCall
  <2>7. Holds(k, v) <=> IF i <= Len(ops) - Len(todo[t])
                          THEN <<k, v>> \in Puts(ops[i])
                          ELSE InCalls(LastCalls(s), k, v)
    BY <2>5, <2>6, Zenon DEF HalfDone
  <2> QED
    BY <2>2, <2>4, <2>7, Zenon
<1> QED
  BY <1>1, <1>2, Zenon

(* A call of a message keeps the invariant; after the last one the tree    *)
(* holds what that message put there.                                      *)
LEMMA CallKeepsTree ==
  ASSUME HandlerFacts, TreeInv, MessageInv, LogInv, ThreadInv, NEW t \in Threads,
         CallTree(t), UNCHANGED initVars
  PROVE  TreeInv'
<1>1. PICK n, s, ops, d : NextCall(t, n, s, ops, d)
  BY CallIsNext
<1>2. todo[t] # <<>>
  BY DEF CallTree
<1>3. /\ n = handling[t] /\ handling'[t] = n /\ s = log[n].name /\ s = log'[n].name
      /\ ops = Operations(global_node_data, n) /\ s \in Names /\ s \in Stats
      /\ Calls(HandlerOf(s), ops) /\ IsHandler(HandlerOf(s)) /\ Len(ops) \in Nat
      /\ DOMAIN ops = 1 .. Len(ops) /\ d \in 1 .. Len(ops)
      /\ todo' = [todo EXCEPT ![t] = Tail(@)]
      /\ Len(todo'[t]) = Len(ops) - d /\ (todo'[t] = <<>> <=> d = Len(ops))
      /\ applied' = IF d = Len(ops) THEN [applied EXCEPT ![s] = n] ELSE applied
      /\ UNCHANGED <<log, handling, queue, global_node_data, library>>
      /\ \A u \in Threads : u # t => todo[u] = <<>> /\ todo'[u] = <<>>
  BY <1>1, NodeHandlers, Zenon DEF NextCall
<1>4. /\ Names' = Names /\ \A u : HandlerOf(u)' = HandlerOf(u)
      /\ \A m : Operations(global_node_data, m)' = Operations(global_node_data, m)
  BY <1>3, Zenon DEF Names, HandlerOf, Operations
<1>5. /\ \A u \in Stats : u # s => applied'[u] = applied[u]
      /\ d = Len(ops) => applied'[s] = n
      /\ d # Len(ops) => applied' = applied
  BY <1>3, Zenon DEF MessageInv
<1>6. /\ \A u \in Names : u # s => LastCalls(u)' = LastCalls(u)
      /\ d = Len(ops) => LastCalls(s)' = ops
      /\ d # Len(ops) => LastCalls(s)' = LastCalls(s)
  <2>1. n # 0
    BY <1>1 DEF NextCall, IsCall
  <2>2. Names \subseteq Stats
    BY NodeHandlers
  <2> QED
    BY <1>3, <1>4, <1>5, <2>1, <2>2, Zenon DEF LastCalls
<1>7. \A u : u # s => ~Handling(u) /\ ~Handling(u)'
  BY <1>3, Zenon DEF Handling
<1>8. d # Len(ops) => Handling(s)'
  BY <1>3, Zenon DEF Handling
<1>9. ASSUME NEW u \in Names, u # s, NEW k \in OIDs, NEW v \in int, Owns(HandlerOf(u), k)
      PROVE  (Holds(k, v) <=> InCalls(LastCalls(u), k, v))'
  <2>1. Holds(k, v)' <=> Holds(k, v)
    BY <1>1, <1>9, CallEffect
  <2>2. Holds(k, v) <=> InCalls(LastCalls(u), k, v)
    BY <1>7, <1>9 DEF TreeInv
  <2>3. LastCalls(u)' = LastCalls(u)
    BY <1>6, <1>9
  <2> QED
    BY <2>1, <2>2, <2>3 DEF InCalls
<1>10. ASSUME d = Len(ops), NEW k \in OIDs, NEW v \in int, Owns(HandlerOf(s), k)
       PROVE  (Holds(k, v) <=> InCalls(LastCalls(s), k, v))'
  <2>0. /\ Calls(HandlerOf(s), ops) /\ IsHandler(HandlerOf(s)) /\ Len(ops) \in Nat
        /\ DOMAIN ops = 1 .. Len(ops) /\ d \in 1 .. Len(ops)
    BY <1>3, Zenon
  <2>1. ops # <<>>
    BY <2>0
  <2>2. PICK i \in DOMAIN ops : Touches(ops[i], k)
    BY <1>10, <2>0, <2>1, OwnSettled
  <2>3. i <= d
    BY <1>10, <2>0
  <2>4. Holds(k, v)' <=> <<k, v>> \in Puts(ops[i])
    BY <1>1, <1>2, <1>10, <2>2, <2>3, CallHolds, Zenon
  <2>5. ASSUME NEW j \in DOMAIN ops, <<k, v>> \in Puts(ops[j]) PROVE j = i
    <3>1. IsOperation(ops[j])
      BY <1>3, Zenon DEF Calls
    <3>2. <<k, v>>[1] = k
      OBVIOUS
    <3>3. Touches(ops[j], k)
      BY <2>5, <3>1, <3>2, Zenon DEF HandlerFacts, PutsAreTyped
    <3> QED
      BY <1>10, <2>0, <2>2, <3>3, OwnSettled
  <2>6. InCalls(ops, k, v) <=> <<k, v>> \in Puts(ops[i])
    BY <2>5 DEF InCalls
  <2>7. LastCalls(s)' = ops
    BY <1>6, <1>10
  <2> QED
    BY <2>4, <2>6, <2>7 DEF InCalls
<1>11. ASSUME NEW u \in Names, ~Handling(u)', NEW k \in OIDs, NEW v \in int,
              Owns(HandlerOf(u), k)
       PROVE  (Holds(k, v) <=> InCalls(LastCalls(u), k, v))'
  BY <1>8, <1>9, <1>10, <1>11
<1>12. ASSUME todo'[t] # <<>> PROVE HalfDone(t)'
  <2>1. d # Len(ops) /\ LastCalls(s)' = LastCalls(s)
    BY <1>3, <1>6, <1>12, Zenon
  <2>2. /\ (log[handling[t]].name)' = s
        /\ Operations(global_node_data, handling[t])' = ops
    BY <1>3, <1>4, Zenon
  <2>3. Len(ops) - Len(todo'[t]) = d
    BY <1>3
  <2>4. ASSUME NEW i \in DOMAIN ops, NEW k \in OIDs, NEW v \in int,
               Owns(HandlerOf(s)', k), Touches(ops[i], k)
        PROVE  Holds(k, v)' <=> IF i <= Len(ops) - Len(todo'[t])
                                  THEN <<k, v>> \in Puts(ops[i])
                                  ELSE InCalls(LastCalls(s)', k, v)
    <3>1. Owns(HandlerOf(s), k)
      BY <1>4, <2>4
    <3>2. Holds(k, v)' <=> IF i <= d THEN <<k, v>> \in Puts(ops[i])
                                     ELSE InCalls(LastCalls(s), k, v)
      BY <1>1, <1>2, <2>4, <3>1, CallHolds, Zenon
    <3> QED
      BY <2>1, <2>3, <3>2 DEF InCalls
  <2> QED
    BY <2>2, <2>4, Zenon DEF HalfDone, InCalls
<1>13. \A u \in Threads : todo'[u] # <<>> => HalfDone(u)'
  BY <1>3, <1>12, Zenon
<1>14. /\ IsFiniteSet(DOMAIN tree')
       /\ \A k \in DOMAIN tree' : /\ k \in OIDs /\ tree'[k] \in int
                                  /\ \E u \in Names : Owns(HandlerOf(u), k)
  BY <1>1, CallTreeTyped
<1>15. \A k \in DOMAIN tree' : \E u \in Names' : Owns(HandlerOf(u), k)'
  BY <1>4, <1>14
<1>16. \A u \in Names' : ~Handling(u)' => \A k \in OIDs, v \in int :
         Owns(HandlerOf(u), k)' => (Holds(k, v) <=> InCalls(LastCalls(u), k, v))'
  BY <1>4, <1>11
<1> QED
  BY <1>13, <1>14, <1>15, <1>16, Zenon DEF TreeInv

(* Every step keeps the invariant. *)
LEMMA StepTreeInv ==
  /\ HandlerFacts /\ TreeInv /\ MessageInv /\ LogInv /\ ThreadInv
  /\ MessageInv' /\ LogInv' /\ ThreadInv' /\ [StatsNext]_statsVars
  => TreeInv'
<1> SUFFICES ASSUME HandlerFacts, TreeInv, MessageInv, LogInv, ThreadInv,
                    MessageInv', LogInv', ThreadInv', [StatsNext]_statsVars
             PROVE  TreeInv'
  OBVIOUS
<1>1. CASE UNCHANGED statsVars
  BY <1>1, KeptTree DEF statsVars, listenerVars, threadVars, handlerVars, initVars
<1>2. CASE Aside
  BY <1>2, KeptTree DEF Aside
<1>3. ASSUME NEW t \in Threads, ListenerStep(t) PROVE TreeInv'
  <2>1. UNCHANGED <<initVars, thread_created>>
    BY <1>3 DEF ListenerStep
  <2>2. CASE connect_and_subscribe(t)
    BY <2>1, <2>2, KeptTree DEF connect_and_subscribe, threadVars, initVars
  <2>3. CASE CallTree(t)
    BY <2>1, <2>3, CallKeepsTree
  <2>4. CASE Receive(t, global_node_data)
    BY <2>1, <2>4, ReceiveTree
  <2> QED
    BY <1>3, <2>2, <2>3, <2>4 DEF ListenerStep, handle_requests_forever
<1>4. ASSUME NEW t \in Threads, ZmqError(t), UNCHANGED handlerVars PROVE TreeInv'
  <2>1. UNCHANGED <<tree, handling, todo, log, applied, global_node_data>>
    BY <1>4 DEF ZmqError, connect_and_subscribe_Fails, zmq_ctx_new_Fails, Receive_Fails,
                threadVars, handlerVars, initVars
  <2> QED
    BY <2>1, KeptTree
<1> QED
  BY <1>1, <1>2, <1>3, <1>4, StepCases, InitializeTree, PublishTree

(* What the later theorems take as known of every state. *)
KnownInv == HandlerFacts /\ TreeInv /\ MessageInv /\ LogInv /\ ThreadInv

(* It holds of every state. *)
LEMMA Known ==
  ASSUME HandlerFacts
  PROVE  StatsSpec => []KnownInv
<1>1. TreeInv /\ ListeningInv => KnownInv
  BY DEF KnownInv, ListeningInv
<1>2. StatsInit => TreeInv
  BY InitTreeInv
<1>3. TreeInv /\ ListeningInv /\ ListeningInv' /\ [StatsNext]_statsVars => TreeInv'
  BY StepTreeInv DEF ListeningInv
<1> QED
  BY <1>1, <1>2, <1>3, Listening, PTL DEF StatsSpec

-----------------------------------------------------------------------------
(* What a walk must still meet is in the tree, and no call that is left to *)
(* make removes it.                                                        *)
WalkInv ==
  /\ walk \in [on : BOOLEAN, at : OIDs, due : SUBSET DOMAIN tree]
  /\ WalkSkipsNothing
  /\ \A t \in Threads : \A i \in DOMAIN todo[t] : \A k \in walk.due : ~Removes(todo[t][i], k)

(* Initially there is no walk. *)
LEMMA InitWalkInv == StatsInit => WalkInv
<1> SUFFICES ASSUME StatsInit PROVE WalkInv
  OBVIOUS
<1>1. walk = NoWalk
  BY DEF StatsInit
<1>2. <<>> \in OIDs
  BY DEF OIDs
<1> QED
  BY <1>1, <1>2, Zenon DEF NoWalk, WalkInv, WalkSkipsNothing

(* A walk begins before every OID of the tree. *)
LEMMA WalkBegins ==
  ASSUME KnownInv, NEW k \in DOMAIN tree
  PROVE  k \in OIDs /\ <<>> \in OIDs /\ OIDCompare(<<>>, k)
<1>1. PICK s \in Names : k \in OIDs /\ Owns(HandlerOf(s), k)
  BY Zenon DEF KnownInv, TreeInv
<1>2. PICK r \in Roots(HandlerOf(s)) : k = r \/ IsPrefix(r, k)
  BY <1>1 DEF Owns
<1>3. r \in OIDs /\ r # <<>>
  BY NodeHandlers DEF KnownInv, HandlerFacts, RootsAreOIDs
<1>4. <<>> \in OIDs /\ Len(<<>>) = 0 /\ Len(k) \in Nat
  BY <1>1 DEF OIDs
<1>5. Len(k) > 0
  <2>1. Len(r) > 0
    BY <1>3 DEF OIDs
  <2> QED
    BY <1>1, <1>2, <1>3, <1>4, <2>1 DEF IsPrefix, OIDs
<1>6. IsPrefix(<<>>, k)
  BY <1>1, <1>4 DEF IsPrefix, OIDs
<1> QED
  BY <1>1, <1>4, <1>5, <1>6 DEF OIDCompare

(* What a call of a message removes no later one puts back: another call   *)
(* is about other OIDs.                                                    *)
LEMMA RemovedForGood ==
  ASSUME KnownInv, NEW n, IsCall(n), NEW rest, IsRest(rest, Operations(global_node_data, n)),
         NEW k \in DOMAIN tree, NEW i \in DOMAIN rest, Removes(rest[i], k)
  PROVE  k \in Dropped(rest)
<1>1. PICK s, ops : /\ s = log[n].name /\ ops = Operations(global_node_data, n)
                    /\ s \in Names /\ Calls(HandlerOf(s), ops) /\ IsHandler(HandlerOf(s))
  BY MessageCalls, NodeHandlers DEF KnownInv, IsCall
<1>2. /\ Len(rest) \in Nat /\ DOMAIN rest = 1 .. Len(rest)
      /\ Len(ops) \in Nat /\ DOMAIN ops = 1 .. Len(ops)
  <2>1. PICK S, R : ops \in Seq(S) /\ rest \in Seq(R)
    BY <1>1, Zenon DEF IsRest, Calls
  <2> QED
    BY <2>1
<1>3. \A j \in DOMAIN rest : /\ Len(ops) - Len(rest) + j \in DOMAIN ops
                             /\ rest[j] = ops[Len(ops) - Len(rest) + j]
  <2>1. /\ Len(rest) <= Len(ops)
        /\ \A j \in 1 .. Len(rest) : rest[j] = ops[Len(ops) - Len(rest) + j]
    BY <1>1 DEF IsRest
  <2>2. \A j \in 1 .. Len(rest) : Len(ops) - Len(rest) + j \in 1 .. Len(ops)
    BY <1>2, <2>1
  <2> QED
    BY <1>2, <2>1, <2>2
<1>4. \A j \in DOMAIN rest : IsOperation(rest[j])
  BY <1>1, <1>3, Zenon DEF Calls
<1>5. \A j \in DOMAIN rest : Touches(rest[j], k) => j = i
  <2>1. Touches(rest[i], k)
    BY <1>4, Zenon DEF KnownInv, HandlerFacts, PutsAreTyped
  <2>2. PICK u \in Names : k \in OIDs /\ Owns(HandlerOf(u), k)
    BY Zenon DEF KnownInv, TreeInv
  <2>3. u = s
    <3>1. IsHandler(HandlerOf(u)) /\ (u # s => Apart(HandlerOf(u), HandlerOf(s)))
      BY <1>1, <2>2, NodeHandlers DEF KnownInv
    <3> QED
      BY <1>1, <1>3, <2>1, <2>2, <3>1, Zenon DEF KnownInv, HandlerFacts, CallsLeaveOthers
  <2>4. ASSUME NEW j \in DOMAIN rest, Touches(rest[j], k)
        PROVE  Len(ops) - Len(rest) + j = Len(ops) - Len(rest) + i
    <3>1. PICK p, q : p = Len(ops) - Len(rest) + j /\ q = Len(ops) - Len(rest) + i
      BY Zenon
    <3>2. /\ p \in DOMAIN ops /\ Touches(ops[p], k)
          /\ q \in DOMAIN ops /\ Touches(ops[q], k)
      BY <1>3, <2>1, <2>4, <3>1, Zenon
    <3>3. p = q
      BY <1>1, <2>2, <2>3, <3>2, OwnSettled, Zenon DEF KnownInv
    <3> QED
      BY <3>1, <3>3, Zenon
  <2> QED
    BY <1>2, <2>4
<1>6. ASSUME NEW j \in i + 1 .. Len(rest), NEW p \in Puts(rest[j]) PROVE p[1] # k
  <2>0. i \in 1 .. Len(rest)
    BY <1>2
  <2>1. j \in DOMAIN rest /\ j # i
    BY <1>2, <2>0
  <2>2. Touches(rest[j], p[1])
    BY <1>4, <2>1, Zenon DEF KnownInv, HandlerFacts, PutsAreTyped
  <2> QED
    BY <1>5, <2>1, <2>2, Zenon
<1> QED
  BY <1>6, Zenon DEF Dropped

(* Beginning a walk. *)
LEMMA BeginWalkInv ==
  ASSUME KnownInv, BeginWalk
  PROVE  WalkInv'
<1> DEFINE due == DOMAIN tree \ UNION {Dropped(todo[t]) : t \in Threads}
<1>1. walk' = [on |-> TRUE, at |-> <<>>, due |-> due] /\ UNCHANGED <<tree, todo>>
  BY DEF BeginWalk, listenerVars, threadVars
<1>2. ASSUME NEW t \in Threads, NEW i \in DOMAIN todo[t], NEW k \in due
      PROVE  ~Removes(todo[t][i], k)
  <2>1. todo[t] # <<>>
    OBVIOUS
  <2>2. k \in DOMAIN tree /\ k \notin Dropped(todo[t])
    OBVIOUS
  <2> QED
    BY <2>1, <2>2, RemovedForGood, Zenon DEF KnownInv, MessageInv
<1>3. <<>> \in OIDs
  BY DEF OIDs
<1>4. \A k \in due : OIDCompare(<<>>, k)
  BY WalkBegins
<1>5. due \subseteq DOMAIN tree
  OBVIOUS
<1> HIDE DEF due
<1> QED
  BY <1>1, <1>2, <1>3, <1>4, <1>5 DEF WalkInv, WalkSkipsNothing

(* A step of GETNEXT meets the first OID that is due, or nothing is.       *)
LEMMA GetNextInv ==
  ASSUME KnownInv, WalkInv, NEW r, GetNext(r)
  PROVE  WalkInv'
<1>1. UNCHANGED <<tree, todo>>
  BY DEF GetNext, listenerVars, threadVars
<1>2. /\ IsFiniteSet(DOMAIN tree) /\ DOMAIN tree \subseteq OIDs
      /\ walk.at \in OIDs /\ walk.due \subseteq DOMAIN tree
      /\ walk \in [on : BOOLEAN, at : OIDs, due : SUBSET DOMAIN tree]
      /\ \A k \in walk.due : OIDCompare(walk.at, k)
      /\ \A t \in Threads : \A i \in DOMAIN todo[t] : \A k \in walk.due : ~Removes(todo[t][i], k)
  BY Zenon DEF KnownInv, TreeInv, WalkInv, WalkSkipsNothing
<1>3. CASE after(tree, walk.at) = {}
  <2>1. walk.due = {}
    BY <1>2, <1>3 DEF after
  <2>2. walk' = [walk EXCEPT !.on = FALSE]
    BY <1>3 DEF GetNext
  <2>3. walk' \in [on : BOOLEAN, at : OIDs, due : SUBSET DOMAIN tree] /\ walk'.due = {}
    BY <1>2, <2>1, <2>2, Zenon
  <2> QED
    BY <1>1, <2>3 DEF WalkInv, WalkSkipsNothing
<1>4. CASE after(tree, walk.at) # {}
  <2> DEFINE o == get_next(tree, walk.at)
  <2>1. walk' = [on |-> TRUE, at |-> o, due |-> walk.due \ {o}]
    BY <1>4 DEF GetNext
  <2>2. /\ o \in DOMAIN tree
        /\ \A k \in DOMAIN tree : OIDCompare(walk.at, k) => k = o \/ OIDCompare(o, k)
    BY <1>2, <1>4 DEF KnownInv, HandlerFacts, NextIsSuccessor
  <2> HIDE DEF o
  <2>3. /\ walk' \in [on : BOOLEAN, at : OIDs, due : SUBSET DOMAIN tree]
        /\ walk'.on /\ walk'.at = o /\ walk'.due = walk.due \ {o}
    BY <1>2, <2>1, <2>2
  <2>4. \A k \in walk'.due : OIDCompare(walk'.at, k)
    BY <1>2, <2>2, <2>3
  <2>5. \A t \in Threads : \A i \in DOMAIN todo[t] : \A k \in walk'.due : ~Removes(todo[t][i], k)
    BY <1>2, <2>3
  <2> QED
    BY <1>1, <2>3, <2>4, <2>5 DEF WalkInv, WalkSkipsNothing
<1> QED
  BY <1>3, <1>4

(* What a message does not drop stays due while its calls are made.        *)
LEMMA ListenerWalkInv ==
  ASSUME KnownInv, WalkInv, NEW t \in Threads, ListenerStep(t)
  PROVE  WalkInv'
<1>1. /\ UNCHANGED <<initVars, thread_created>> /\ DOMAIN todo = Threads
      /\ walk \in [on : BOOLEAN, at : OIDs, due : SUBSET DOMAIN tree]
      /\ \A k \in walk.due : OIDCompare(walk.at, k)
      /\ ~walk.on => walk.due = {}
      /\ \A u \in Threads : \A i \in DOMAIN todo[u] : \A k \in walk.due : ~Removes(todo[u][i], k)
  BY DEF ListenerStep, KnownInv, MessageInv, WalkInv, WalkSkipsNothing
<1>2. PICK due : /\ walk' = [walk EXCEPT !.due = due] /\ due \subseteq walk.due
                 /\ todo[t] = <<>> => due \cap Dropped(todo'[t]) = {}
                 /\ todo[t] # <<>> => due = walk.due
  <2>1. CASE todo[t] = <<>> /\ walk.due # {}
    <3>1. walk' = [walk EXCEPT !.due = walk.due \ Dropped(todo'[t])]
      BY <2>1 DEF ListenerStep
    <3> QED
      BY <2>1, <3>1, Zenon
  <2>2. CASE ~(todo[t] = <<>> /\ walk.due # {})
    <3>1. walk' = [walk EXCEPT !.due = walk.due]
      BY <2>2 DEF ListenerStep
    <3> QED
      BY <2>2, <3>1, Zenon
  <2> QED
    BY <2>1, <2>2, Zenon
<1>3. ASSUME NEW T, due \subseteq T
      PROVE  /\ walk' \in [on : BOOLEAN, at : OIDs, due : SUBSET T]
             /\ walk'.on = walk.on /\ walk'.at = walk.at /\ walk'.due = due
  BY <1>1, <1>2, <1>3
<1>4. (\A k \in walk'.due : OIDCompare(walk'.at, k)) /\ (~walk'.on => walk'.due = {})
  BY <1>1, <1>2, <1>3
<1>5. ASSUME due \subseteq DOMAIN tree',
             \A u \in Threads : \A i \in DOMAIN todo'[u] : \A k \in due : ~Removes(todo'[u][i], k)
      PROVE  WalkInv'
  <2>1. /\ walk' \in [on : BOOLEAN, at : OIDs, due : SUBSET DOMAIN tree'] /\ walk'.due = due
    BY <1>3, <1>5
  <2> QED
    BY <1>4, <1>5, <2>1, Zenon DEF WalkInv, WalkSkipsNothing
<1>6. due \subseteq DOMAIN tree
  BY <1>1, <1>2
<1>7. CASE connect_and_subscribe(t)
  BY <1>1, <1>2, <1>5, <1>6, <1>7 DEF connect_and_subscribe, threadVars
<1>8. CASE Receive(t, global_node_data)
  <2>1. UNCHANGED tree /\ todo[t] = <<>>
    BY <1>8, Zenon DEF Receive
  <2>2. CASE UNCHANGED todo
    BY <1>1, <1>2, <1>5, <1>6, <2>1, <2>2
  <2>3. CASE /\ IsCall(Head(queue[t]))
             /\ todo' = [todo EXCEPT ![t] = Operations(global_node_data, Head(queue[t]))]
    <3>1. PICK n, ops : /\ IsCall(n) /\ ops = Operations(global_node_data, n)
                        /\ todo' = [todo EXCEPT ![t] = ops]
      BY <2>3, Zenon
    <3>2. Calls(HandlerOf(log[n].name), ops)
      BY <3>1, MessageCalls DEF KnownInv
    <3>3. IsRest(ops, ops)
      BY <3>2, RestOfCalls, Zenon DEF Calls
    <3>4. todo'[t] = ops /\ \A u \in Threads : u # t => todo'[u] = todo[u]
      BY <1>1, <3>1
    <3>5. ASSUME NEW k \in due, NEW i \in DOMAIN ops PROVE ~Removes(ops[i], k)
      BY <1>2, <1>6, <2>1, <3>1, <3>3, <3>4, RemovedForGood
    <3> QED
      BY <1>1, <1>2, <1>5, <1>6, <2>1, <3>4, <3>5
  <2> QED
    BY <1>1, <1>8, <2>2, <2>3, ReceiveMessages DEF KnownInv
<1>9. CASE CallTree(t)
  <2>1. PICK n, s, ops, d : NextCall(t, n, s, ops, d)
    BY <1>1, <1>9, CallIsNext DEF KnownInv
  <2>2. /\ todo[t] # <<>> /\ \E S : todo[t] \in Seq(S)
        /\ Len(todo[t]) \in Nat /\ DOMAIN todo[t] = 1 .. Len(todo[t]) /\ Len(todo[t]) # 0
        /\ \A i \in 1 .. Len(todo[t]) : todo[t][i] = ops[Len(ops) - Len(todo[t]) + i]
        /\ todo'[t] = Tail(todo[t])
        /\ \A u \in Threads : u # t => todo'[u] = todo[u]
    <3>1. todo[t] # <<>> /\ todo'[t] = Tail(todo[t]) /\ \A u \in Threads : u # t => todo'[u] = todo[u]
      BY <1>1, <1>9, Zenon DEF CallTree
    <3>2. IsRest(todo[t], ops)
      BY <2>1, <3>1, Zenon DEF KnownInv, MessageInv, NextCall
    <3>3. PICK S : todo[t] \in Seq(S)
      BY <3>2 DEF IsRest
    <3>4. Len(todo[t]) \in Nat /\ DOMAIN todo[t] = 1 .. Len(todo[t]) /\ Len(todo[t]) # 0
      BY <3>1, <3>3
    <3> QED
      BY <3>1, <3>2, <3>3, <3>4, Zenon DEF IsRest
  <2>3. ops[d] = todo[t][1]
    <3>1. 1 \in 1 .. Len(todo[t]) /\ d = Len(ops) - Len(todo[t]) + 1
      <4>1. d = Len(ops) - Len(todo[t]) + 1
        BY <2>1, Zenon DEF NextCall
      <4>2. PICK L \in Nat : L = Len(todo[t]) /\ L # 0
        BY <2>2, Zenon
      <4>3. 1 \in 1 .. L
        BY <4>2
      <4> QED
        BY <4>1, <4>2, <4>3, Zenon
    <3> QED
      BY <2>2, <3>1, Zenon
  <2>4. due \subseteq DOMAIN tree'
    <3> SUFFICES ASSUME NEW k \in due PROVE k \in DOMAIN tree'
      OBVIOUS
    <3>1. ~Removes(ops[d], k) /\ k \in DOMAIN tree
      BY <1>1, <1>2, <1>6, <2>2, <2>3
    <3>2. IsOperation(ops[d])
      BY <2>1, Zenon DEF NextCall, Calls
    <3>3. tree' = Apply(tree, ops[d])
      BY <2>1, Zenon DEF NextCall
    <3>4. CASE Touches(ops[d], k)
      <4>1. PICK p \in Puts(ops[d]) : p[1] = k /\ p = <<p[1], p[2]>>
        BY <3>1, <3>2, <3>4, Zenon DEF KnownInv, HandlerFacts, PutsAreTyped
      <4>2. PICK v : <<k, v>> \in Puts(ops[d])
        BY <4>1, Zenon
      <4> QED
        BY <3>2, <3>3, <3>4, <4>2, Zenon DEF KnownInv, HandlerFacts, ApplyIsExact
    <3>5. CASE ~Touches(ops[d], k)
      BY <3>1, <3>2, <3>3, <3>5, Zenon DEF KnownInv, HandlerFacts, ApplyIsExact
    <3> QED
      BY <3>4, <3>5
  <2>5. ASSUME NEW i \in DOMAIN todo'[t], NEW k \in due PROVE ~Removes(todo'[t][i], k)
    <3>1. i + 1 \in DOMAIN todo[t] /\ todo'[t][i] = todo[t][i + 1]
      <4>1. PICK S : todo[t] \in Seq(S)
        BY <2>2, Zenon
      <4>2. todo[t] # <<>> /\ todo'[t] = Tail(todo[t]) /\ i \in DOMAIN Tail(todo[t])
        BY <2>2, <2>5, Zenon
      <4>3. i + 1 \in DOMAIN todo[t] /\ Tail(todo[t])[i] = todo[t][i + 1]
        BY <4>1, <4>2, TailElements, Zenon
      <4> QED
        BY <4>2, <4>3, Zenon
    <3> QED
      BY <1>1, <1>2, <3>1
  <2> QED
    BY <1>1, <1>2, <1>5, <2>2, <2>4, <2>5, Zenon
<1> QED
  BY <1>7, <1>8, <1>9 DEF ListenerStep, handle_requests_forever

(* Every step keeps the invariant. *)
LEMMA StepWalkInv == WalkInv /\ KnownInv /\ [StatsNext]_statsVars => WalkInv'
<1> SUFFICES ASSUME WalkInv, KnownInv, [StatsNext]_statsVars
             PROVE  WalkInv'
  OBVIOUS
<1>1. UNCHANGED <<tree, todo, walk>> => WalkInv'
  BY DEF WalkInv, WalkSkipsNothing
<1>2. ASSUME NEW r \in DOMAIN request,
             BeginRequest(r) \/ CheckAge(r) \/ EndRequest(r) \/ Get(r) \/ CreateThread(r)
      PROVE  UNCHANGED <<tree, todo, walk>>
  BY <1>2, Zenon DEF BeginRequest, CheckAge, EndRequest, Get, CreateThread, listenerVars, threadVars
<1>3. initialize_handler \/ UNCHANGED statsVars => UNCHANGED <<tree, todo, walk>>
  BY DEF initialize_handler, statsVars, listenerVars, threadVars, handlerVars
<1>4. ASSUME UNCHANGED handlerVars, Environment \/ Second
      PROVE  UNCHANGED <<tree, todo, walk>>
  BY <1>4, Zenon DEF handlerVars, Environment, Second, Publish, ZmqError, connect_and_subscribe_Fails,
              zmq_ctx_new_Fails, Receive_Fails, threadVars
<1> QED
  BY <1>1, <1>2, <1>3, <1>4, BeginWalkInv, GetNextInv, ListenerWalkInv DEF StatsNext, Request

(* It holds of every state. *)
LEMMA Walks ==
  ASSUME HandlerFacts
  PROVE  StatsSpec => []WalkInv
BY InitWalkInv, StepWalkInv, Known, PTL DEF StatsSpec

-----------------------------------------------------------------------------
(* What handlers put into the tree are counts of the message. *)
LEMMA Counted ==
  ASSUME KnownInv
  PROVE  ValuesAreCounts
<1> SUFFICES ASSUME NEW n \in DOMAIN log, log[n].ok,
                    log[n].name \in DOMAIN global_node_data.stat_to_handler,
                    NEW o \in Range(Operations(global_node_data, n)), NEW p \in Puts(o)
             PROVE  MessageOf(retval(p[2])) = n
  BY Zenon DEF ValuesAreCounts
<1>1. IsCall(n)
  BY DEF KnownInv, LogInv, IsCall, Names
<1>2. PICK h, shape : /\ IsHandler(h) /\ n \in Nat /\ IsShape(h.class, shape)
                      /\ Counts * (n + 1) <= WORD
                      /\ Operations(global_node_data, n) = handle(h, Encode(n, h.class, shape))
  BY <1>1, MessageHandled, Zenon DEF KnownInv
<1>3. PICK i \in DOMAIN Operations(global_node_data, n) : o = Operations(global_node_data, n)[i]
  BY Zenon DEF Range
<1> QED
  BY <1>2, <1>3, Zenon DEF KnownInv, HandlerFacts, CountsComeBack, retval

(* A table of a message that is applied has the rows of the message. *)
LEMMA TableRows ==
  ASSUME KnownInv, NEW s \in Names, applied[s] # 0, ~Handling(s)
  PROVE  LET h == HandlerOf(s)
             n == applied[s]
             table == {<<k, retval(tree[k])>> : k \in {o \in DOMAIN tree : Owns(h, o)}}
         IN  /\ h.class = "IPCount" => table = PairRows(h.oid, n, log[n].shape)
             /\ h.class = "AstaireConnection" => table = ConnectionRows(h.oid, n, log[n].shape)
<1> DEFINE h == HandlerOf(s)
           n == applied[s]
           shape == log[n].shape
           ops == Operations(global_node_data, n)
           table == {<<k, retval(tree[k])>> : k \in {o \in DOMAIN tree : Owns(h, o)}}
<1>1. IsCall(n) /\ log[n].name = s
  BY NodeHandlers, Zenon DEF KnownInv, MessageInv
<1>2. /\ IsHandler(h) /\ n \in Nat /\ IsShape(h.class, shape) /\ Counts * (n + 1) <= WORD
      /\ ops = handle(h, Encode(n, h.class, shape))
  BY <1>1, MessageHandled, Zenon DEF KnownInv
<1>3. Held(s) = UNION {Puts(o) : o \in Range(ops)}
  BY TreeInvIsLatest, Zenon DEF KnownInv, TreeIsLatest, LastCalls, Names
<1>4. table = Answers(ops)
  <2>1. table = {<<p[1], retval(p[2])>> : p \in Held(s)}
    <3> DEFINE own == {o \in DOMAIN tree : Owns(h, o)}
    <3>1. Held(s) = {<<k, tree[k]>> : k \in own} /\ table = {<<k, retval(tree[k])>> : k \in own}
      BY Zenon DEF Held, HandlerOf
    <3>2. \A k : <<k, tree[k]>>[1] = k /\ <<k, tree[k]>>[2] = tree[k]
      OBVIOUS
    <3> HIDE DEF own, h, table
    <3>3. ASSUME NEW k \in own
          PROVE  <<k, retval(tree[k])>> \in {<<p[1], retval(p[2])>> : p \in Held(s)}
      <4>1. <<k, tree[k]>> \in Held(s)
        BY <3>1
      <4> QED
        BY <3>2, <4>1, Zenon
    <3>4. ASSUME NEW p \in Held(s) PROVE <<p[1], retval(p[2])>> \in table
      <4>1. PICK k \in own : p = <<k, tree[k]>>
        BY <3>1
      <4>2. p[1] = k /\ p[2] = tree[k]
        BY <3>2, <4>1, Zenon
      <4> QED
        BY <3>1, <4>2
    <3> QED
      BY <3>1, <3>3, <3>4, Zenon
  <2> QED
    BY <1>3, <2>1, Zenon DEF Answers, retval
<1> HIDE DEF h, n, shape, ops, table
<1>5. /\ h.class = "IPCount" => table = PairRows(h.oid, n, shape)
      /\ h.class = "AstaireConnection" => table = ConnectionRows(h.oid, n, shape)
  BY <1>2, <1>4, Zenon DEF KnownInv, HandlerFacts, CountsComeBack
<1> QED
  BY <1>5, Zenon DEF h, n, shape, table

-----------------------------------------------------------------------------
(* A value of the tree tells which message it came in: the last one that   *)
(* was applied, or the one that is being applied.                          *)
LEMMA TreeTells ==
  ASSUME KnownInv, ValuesAreCounts, NEW s \in Names, NEW k \in DOMAIN tree,
         Owns(HandlerOf(s), k)
  PROVE  \/ MessageOf(retval(tree[k])) = applied[s]
         \/ \E t \in Threads : /\ todo[t] # <<>> /\ log[handling[t]].name = s
                               /\ MessageOf(retval(tree[k])) = handling[t]
<1>1. PICK v : v = tree[k] /\ k \in OIDs /\ v \in int /\ Holds(k, v)
  BY Zenon DEF KnownInv, TreeInv, Holds
<1>2. ASSUME NEW n, IsCall(n), NEW i \in DOMAIN Operations(global_node_data, n),
             <<k, v>> \in Puts(Operations(global_node_data, n)[i])
      PROVE  MessageOf(retval(v)) = n
  <2>1. n \in DOMAIN log /\ log[n].ok /\ log[n].name \in DOMAIN global_node_data.stat_to_handler
    <3>1. PICK S : log \in Seq(S)
      BY DEF KnownInv, LogInv
    <3>2. DOMAIN log = 1 .. Len(log)
      BY <3>1
    <3> QED
      BY <1>2, <3>2, Zenon DEF IsCall, Names
  <2>2. Operations(global_node_data, n)[i] \in Range(Operations(global_node_data, n))
    BY <1>2, Zenon DEF Range
  <2>3. <<k, v>>[2] = v
    OBVIOUS
  <2> QED
    BY <1>2, <2>1, <2>2, <2>3, Zenon DEF ValuesAreCounts
<1>3. ASSUME InCalls(LastCalls(s), k, v) PROVE MessageOf(retval(v)) = applied[s]
  <2>1. s \in Stats /\ (applied[s] # 0 => IsCall(applied[s]))
    BY NodeHandlers, Zenon DEF KnownInv, MessageInv
  <2>2. applied[s] # 0
    BY <1>3 DEF InCalls, LastCalls
  <2>3. LastCalls(s) = Operations(global_node_data, applied[s])
    BY <2>2 DEF LastCalls
  <2> QED
    BY <1>2, <1>3, <2>1, <2>2, <2>3, Zenon DEF InCalls
<1>4. CASE ~Handling(s)
  BY <1>1, <1>3, <1>4, Zenon DEF KnownInv, TreeInv
<1>5. CASE Handling(s)
  <2>1. PICK t \in Threads : todo[t] # <<>> /\ log[handling[t]].name = s
    BY <1>5, Zenon DEF Handling
  <2>2. PICK n, ops : /\ n = handling[t] /\ ops = Operations(global_node_data, n)
                      /\ IsCall(n) /\ Calls(HandlerOf(s), ops) /\ IsRest(todo[t], ops)
    BY <2>1, MessageCalls, Zenon DEF KnownInv, MessageInv
  <2>3. ops # <<>>
    BY <2>1, <2>2, RestOfSome, Zenon
  <2>4. PICK i \in DOMAIN ops : Touches(ops[i], k)
    BY <1>1, <2>2, <2>3, NodeHandlers, OwnSettled, Zenon DEF KnownInv
  <2>5. IF i <= Len(ops) - Len(todo[t]) THEN <<k, v>> \in Puts(ops[i])
                                        ELSE InCalls(LastCalls(s), k, v)
    BY <1>1, <2>1, <2>2, <2>4, Zenon DEF KnownInv, TreeInv, HalfDone
  <2> QED
    BY <1>1, <1>2, <1>3, <2>1, <2>2, <2>4, <2>5, Zenon
<1> QED
  BY <1>4, <1>5, Zenon

(* No answer is newer than what was applied or is being applied. *)
AnswerInv ==
  /\ answered \in [Stats -> 0 .. Len(log)]
  /\ \A s \in Stats :
       \/ answered[s] <= applied[s]
       \/ \E t \in Threads : /\ todo[t] # <<>> /\ log[handling[t]].name = s
                             /\ answered[s] <= handling[t]

(* Initially nothing was answered. *)
LEMMA InitAnswerInv == StatsInit => AnswerInv
<1> SUFFICES ASSUME StatsInit PROVE AnswerInv
  OBVIOUS
<1>1. Len(log) = 0 /\ applied = [s \in Stats |-> 0] /\ answered = [s \in Stats |-> 0]
  BY Zenon DEF StatsInit, ListenerInit
<1>2. 0 \in 0 .. Len(log)
  BY <1>1
<1>3. answered \in [Stats -> 0 .. Len(log)]
  BY <1>1, <1>2
<1>4. ASSUME NEW s \in Stats PROVE answered[s] <= applied[s]
  <2>1. answered[s] = 0 /\ applied[s] = 0
    BY <1>1, <1>4
  <2> QED
    BY <2>1
<1> QED
  BY <1>3, <1>4, Zenon DEF AnswerInv

(* What an answer may go back to, and only while a message is applied. *)
LEMMA AnswerStep ==
  ASSUME KnownInv, ValuesAreCounts, OrderInv, AnswerInv, NEW o \in DOMAIN tree, Answer(o),
         UNCHANGED <<log, applied, handling, todo, library>>
  PROVE  /\ AnswerInv'
         /\ \A s \in Stats : answered'[s] < answered[s] =>
              Handling(s) /\ answered'[s] = applied[s]
<1>1. PICK s : s = StatOf(o)
  OBVIOUS
<1>2. s \in Names /\ Owns(HandlerOf(s), o) /\ s \in Stats
  <2>1. \E u \in Names : Owns(HandlerOf(u), o)
    BY Zenon DEF KnownInv, TreeInv
  <2>2. s \in Names /\ Owns(HandlerOf(s), o)
    BY <1>1, <2>1 DEF StatOf, Names, HandlerOf
  <2> QED
    BY <2>2, NodeHandlers DEF KnownInv
<1>3. PICK m : m = MessageOf(retval(tree[o]))
  OBVIOUS
<1>4. answered' = [answered EXCEPT ![s] = m]
  BY <1>1, <1>3 DEF Answer, get
<1>5. \/ m = applied[s]
      \/ \E t \in Threads : todo[t] # <<>> /\ log[handling[t]].name = s /\ m = handling[t]
  BY <1>2, <1>3, TreeTells, Zenon
<1>6. /\ Len(log) \in Nat /\ applied[s] \in 0 .. Len(log) /\ answered[s] \in 0 .. Len(log)
      /\ DOMAIN answered = Stats
      /\ \A t \in Threads : handling[t] \in 0 .. Len(log)
  BY <1>2, LogLength, Zenon DEF KnownInv, MessageInv, AnswerInv
<1>7. m \in 0 .. Len(log)
  BY <1>5, <1>6
<1>8. /\ answered'[s] = m /\ \A u \in Stats : u # s => answered'[u] = answered[u]
      /\ answered' \in [Stats -> 0 .. Len(log)]
  BY <1>2, <1>4, <1>6, <1>7, Zenon DEF AnswerInv
<1>9. ASSUME NEW t \in Threads, todo[t] # <<>>, log[handling[t]].name = s, m = handling[t]
      PROVE  answered[s] <= m
  <2>1. listener[t] # NULL
    BY <1>9, Zenon DEF KnownInv, MessageInv
  <2>2. applied[s] <= handling[t]
    BY <1>2, <2>1, Zenon DEF OrderInv
  <2>3. \A u \in Threads : todo[u] # <<>> => u = t
    BY <2>1, OneBusy DEF KnownInv
  <2>4. answered[s] <= applied[s] \/ answered[s] <= handling[t]
    BY <1>2, <2>3, Zenon DEF AnswerInv
  <2>5. PICK a, p, h : a = answered[s] /\ p = applied[s] /\ h = handling[t]
    BY Zenon
  <2>6. a \in Int /\ p \in Int /\ h \in Int
    BY <1>6, <2>5
  <2>7. p <= h /\ (a <= p \/ a <= h)
    BY <2>2, <2>4, <2>5, Zenon
  <2>8. a <= h
    BY <2>6, <2>7
  <2> QED
    BY <1>9, <2>5, <2>8, Zenon
<1>10. ASSUME m = applied[s], ~Handling(s) PROVE answered[s] <= m
  BY <1>2, <1>10 DEF AnswerInv, Handling
<1>11. \A u \in Stats : answered'[u] < answered[u] => Handling(u) /\ answered'[u] = applied[u]
  BY <1>5, <1>6, <1>7, <1>8, <1>9, <1>10
<1>12. \A u \in Stats :
         \/ answered'[u] <= applied[u]
         \/ \E t \in Threads : /\ todo[t] # <<>> /\ log[handling[t]].name = u
                               /\ answered'[u] <= handling[t]
  <2>1. CASE m = applied[s]
    <3>1. answered'[s] <= applied[s]
      BY <1>6, <1>8, <2>1, UpTo, Zenon
    <3>2. \A u \in Stats : \/ answered[u] <= applied[u]
                           \/ \E t \in Threads : /\ todo[t] # <<>> /\ log[handling[t]].name = u
                                                 /\ answered[u] <= handling[t]
      BY <1>2, Zenon DEF AnswerInv
    <3> QED
      BY <1>8, <3>1, <3>2, Zenon
  <2>2. ASSUME NEW t \in Threads, todo[t] # <<>>, log[handling[t]].name = s, m = handling[t]
        PROVE  todo[t] # <<>> /\ log[handling[t]].name = s /\ m <= handling[t]
    BY <1>6, <2>2, UpTo, Zenon
  <2>3. CASE m # applied[s]
    BY <1>5, <1>8, <2>2, <2>3, Zenon DEF AnswerInv
  <2> QED
    BY <2>1, <2>3, Zenon
<1>13. AnswerInv'
  <2>1. Stats' = Stats
    BY DEF Stats
  <2> QED
    BY <1>8, <1>12, <2>1, Zenon DEF AnswerInv
<1> QED
  BY <1>11, <1>13

(* Steps that answer nothing and apply nothing. *)
LEMMA KeptAnswers ==
  ASSUME AnswerInv, UNCHANGED <<answered, applied, log, handling, todo, library>>
  PROVE  AnswerInv'
BY DEF AnswerInv, Stats

(* A new message changes no answer. *)
LEMMA PublishAnswers ==
  ASSUME AnswerInv, KnownInv, NEW m, Publish(global_node_data, m), UNCHANGED handlerVars
  PROVE  AnswerInv'
<1>1. /\ UNCHANGED <<answered, applied, handling, todo, library>> /\ log' = Append(log, m)
  BY Zenon DEF Publish, handlerVars, initVars
<1>2. PICK S : log \in Seq(S)
  BY DEF KnownInv, LogInv
<1>3. Len(log) \in Nat /\ Len(log') = Len(log) + 1 /\ \A n \in 1 .. Len(log) : log'[n] = log[n]
  BY <1>1, <1>2
<1>4. \A t \in Threads : todo[t] # <<>> => log'[handling[t]] = log[handling[t]]
  BY <1>3, Zenon DEF KnownInv, MessageInv, IsCall
<1>5. answered \in [Stats -> 0 .. Len(log')]
  <2>1. 0 .. Len(log) \subseteq 0 .. Len(log')
    BY <1>3
  <2> QED
    BY <2>1, Zenon DEF AnswerInv
<1>6. \A s \in Stats :
        \/ answered[s] <= applied[s]
        \/ \E t \in Threads : /\ todo[t] # <<>> /\ log'[handling[t]].name = s
                              /\ answered[s] <= handling[t]
  BY <1>4 DEF AnswerInv
<1>7. Stats' = Stats
  BY <1>1 DEF Stats
<1> QED
  BY <1>1, <1>5, <1>6, <1>7, Zenon DEF AnswerInv

(* Neither does the listener thread: what it applies is newer. *)
LEMMA ListenerAnswers ==
  ASSUME AnswerInv, OrderInv, KnownInv, NEW t \in Threads, ListenerStep(t)
  PROVE  AnswerInv'
<1>1. UNCHANGED <<initVars, thread_created, library, answered>>
  BY DEF ListenerStep, initVars
<1>2. CASE connect_and_subscribe(t)
  BY <1>1, <1>2, KeptAnswers DEF connect_and_subscribe, threadVars
<1>3. CASE Receive(t, global_node_data)
  <2>1. UNCHANGED <<log, applied>> /\ todo[t] = <<>> /\ listener[t] # NULL
    BY <1>3, Zenon DEF Receive, NULL
  <2>2. \A u \in Threads : todo[u] = <<>>
    BY <2>1, OneBusy DEF KnownInv
  <2> QED
    BY <1>1, <2>1, <2>2 DEF AnswerInv, Stats
<1>4. CASE CallTree(t)
  <2>1. PICK n, s, ops, d : NextCall(t, n, s, ops, d)
    BY <1>1, <1>4, CallIsNext DEF KnownInv
  <2>2. /\ UNCHANGED <<log, handling>> /\ todo[t] # <<>>
        /\ n = handling[t] /\ s = log[n].name /\ s \in Stats
        /\ todo'[t] # <<>> => applied' = applied
        /\ todo'[t] = <<>> => applied' = [applied EXCEPT ![s] = n]
        /\ \A u \in Threads : u # t => todo[u] = <<>>
    BY <1>4, <2>1, Zenon DEF CallTree, NextCall
  <2>3. /\ Len(log) \in Nat /\ n \in Nat /\ DOMAIN applied = Stats
        /\ \A u \in Stats : applied[u] \in Nat /\ answered[u] \in Nat
    <3>1. PICK L \in Nat : L = Len(log)
      BY LogLength, Zenon DEF KnownInv
    <3>2. /\ handling \in [Threads -> 0 .. L] /\ applied \in [Stats -> 0 .. L]
          /\ answered \in [Stats -> 0 .. L]
      BY <3>1, Zenon DEF KnownInv, MessageInv, AnswerInv
    <3>3. handling[t] \in 0 .. L /\ \A u \in Stats : applied[u] \in 0 .. L /\ answered[u] \in 0 .. L
      BY <3>2, Zenon
    <3>4. DOMAIN applied = Stats
      BY <3>2, Zenon
    <3> QED
      BY <2>2, <3>1, <3>3, <3>4, UpTo, Zenon
  <2>4. listener[t] # NULL
    BY <2>2, Zenon DEF KnownInv, MessageInv
  <2>5. answered[s] <= n
    <3>1. applied[s] <= n
      BY <2>2, <2>4, Zenon DEF OrderInv
    <3>2. answered[s] <= applied[s] \/ answered[s] <= n
      BY <2>2, Zenon DEF AnswerInv
    <3>3. applied[s] \in Nat /\ answered[s] \in Nat /\ n \in Nat
      BY <2>2, <2>3, Zenon
    <3> QED
      BY <3>1, <3>2, <3>3
  <2>6. \A u \in Stats : u # s => answered[u] <= applied[u] /\ applied'[u] = applied[u]
    <3>1. ASSUME NEW u \in Stats, u # s PROVE answered[u] <= applied[u]
      BY <2>2, <3>1, Zenon DEF AnswerInv
    <3>2. ASSUME NEW u \in Stats, u # s PROVE applied'[u] = applied[u]
      BY <2>2, <2>3, <3>2
    <3> QED
      BY <3>1, <3>2
  <2>7. todo'[t] = <<>> => applied'[s] = n
    BY <2>2, <2>3
  <2>8. \A u \in Stats :
          \/ answered[u] <= applied'[u]
          \/ /\ todo'[t] # <<>> /\ log[handling[t]].name = u
             /\ answered[u] <= handling[t]
    BY <2>2, <2>5, <2>6, <2>7, Zenon
  <2>9. Stats' = Stats
    BY <1>1 DEF Stats
  <2> QED
    BY <1>1, <2>2, <2>8, <2>9, Zenon DEF AnswerInv
<1> QED
  BY <1>2, <1>3, <1>4 DEF ListenerStep, handle_requests_forever

(* What any step does to the answers. *)
LEMMA StepAnswerInv ==
  /\ AnswerInv /\ OrderInv /\ WalkInv /\ KnownInv /\ ValuesAreCounts /\ [StatsNext]_statsVars
  => /\ AnswerInv'
     /\ \/ UNCHANGED answered
        \/ \A s \in Stats : answered'[s] < answered[s] => Handling(s) /\ answered'[s] = applied[s]
<1> SUFFICES ASSUME AnswerInv, OrderInv, WalkInv, KnownInv, ValuesAreCounts,
                    [StatsNext]_statsVars
             PROVE  /\ AnswerInv'
                    /\ \/ UNCHANGED answered
                       \/ \A s \in Stats : answered'[s] < answered[s] =>
                            Handling(s) /\ answered'[s] = applied[s]
  OBVIOUS
<1> DEFINE Good == /\ AnswerInv'
                   /\ \/ UNCHANGED answered
                      \/ \A s \in Stats : answered'[s] < answered[s] =>
                           Handling(s) /\ answered'[s] = applied[s]
<1>1. UNCHANGED <<answered, applied, log, handling, todo, library>> => Good
  BY KeptAnswers
<1>2. ASSUME NEW o \in DOMAIN tree, Answer(o), UNCHANGED <<listenerVars, initVars>>
      PROVE  Good
  BY <1>2, AnswerStep, Zenon DEF listenerVars, threadVars, initVars
<1>3. ASSUME NEW r, GetNext(r) PROVE Good
  <2>1. UNCHANGED <<listenerVars, initVars>>
    BY <1>3 DEF GetNext
  <2>2. CASE UNCHANGED answered
    BY <1>1, <2>1, <2>2, Zenon DEF listenerVars, threadVars, initVars
  <2>3. CASE after(tree, walk.at) # {} /\ Answer(get_next(tree, walk.at))
    <3>1. get_next(tree, walk.at) \in DOMAIN tree
      <4>1. walk.at \in OIDs /\ IsFiniteSet(DOMAIN tree) /\ DOMAIN tree \subseteq OIDs
        BY Zenon DEF WalkInv, KnownInv, TreeInv
      <4> QED
        BY <2>3, <4>1, Zenon DEF KnownInv, HandlerFacts, NextIsSuccessor
    <3> QED
      BY <1>2, <2>1, <2>3, <3>1, Zenon
  <2> QED
    BY <1>3, <2>2, <2>3 DEF GetNext
<1>4. ASSUME NEW r, Get(r) PROVE Good
  BY <1>2, <1>4, Zenon DEF Get
<1>5. ASSUME NEW r, BeginRequest(r) \/ CheckAge(r) \/ EndRequest(r) \/ CreateThread(r)
      PROVE  Good
  BY <1>1, <1>5, Zenon DEF BeginRequest, CheckAge, EndRequest, CreateThread, listenerVars, threadVars,
                    initVars
<1>6. initialize_handler \/ BeginWalk \/ UNCHANGED statsVars \/ (Second /\ UNCHANGED handlerVars)
        => Good
  BY <1>1, Zenon DEF initialize_handler, BeginWalk, Second, statsVars, listenerVars, threadVars,
              handlerVars, initVars
<1>7. ASSUME NEW t \in Threads, ZmqError(t), UNCHANGED handlerVars PROVE Good
  BY <1>1, <1>7, Zenon DEF ZmqError, connect_and_subscribe_Fails, zmq_ctx_new_Fails, Receive_Fails,
                    threadVars, handlerVars, initVars
<1>8. ASSUME NEW t \in Threads, ListenerStep(t) PROVE Good
  BY <1>8, ListenerAnswers DEF ListenerStep
<1>9. ASSUME NEW m, Publish(global_node_data, m), UNCHANGED handlerVars PROVE Good
  BY <1>9, PublishAnswers, Zenon DEF handlerVars
<1> HIDE DEF Good
<1>10. Good
  BY <1>3, <1>4, <1>5, <1>6, <1>7, <1>8, <1>9 DEF StatsNext, Request, Environment
<1> QED
  BY <1>10 DEF Good

(* No answer is newer than what is applied. *)
LEMMA Answered ==
  ASSUME HandlerFacts
  PROVE  StatsSpec => [](AnswerInv /\ OrderInv /\ WalkInv /\ KnownInv /\ ValuesAreCounts)
<1>1. KnownInv => ValuesAreCounts
  BY Counted
<1>2. AnswerInv /\ OrderInv /\ WalkInv /\ KnownInv /\ ValuesAreCounts /\ [StatsNext]_statsVars
      => AnswerInv'
  BY StepAnswerInv, Zenon
<1> QED
  BY <1>1, <1>2, InitAnswerInv, Ordered, Walks, Known, PTL DEF StatsSpec

(* Answers do not go back. *)
LEMMA Forward ==
  ASSUME HandlerFacts
  PROVE  StatsSpec => AnswersGoForward
<1>1. AnswerInv /\ OrderInv /\ WalkInv /\ KnownInv /\ ValuesAreCounts /\ [StatsNext]_statsVars
      => [\A s \in Stats : answered'[s] < answered[s] =>
            Handling(s) /\ answered'[s] = applied[s]]_answered
  BY StepAnswerInv
<1> QED
  BY <1>1, Answered, PTL DEF StatsSpec, AnswersGoForward

(* Every variable keeps to its type. *)
LEMMA Typed ==
  ASSUME OwnTypeOK, AnswerInv, KnownInv
  PROVE  StatsTypeOK
<1>1. \A t \in Threads : Range(queue[t]) \cup {handling[t]} \subseteq 0 .. Len(log)
  <2>1. Len(log) \in Nat
    BY LogLength DEF KnownInv
  <2>2. \A t \in Threads : Range(queue[t]) \subseteq 1 .. Len(log)
    BY DEF Range, KnownInv, LogInv
  <2>3. 1 .. Len(log) \subseteq 0 .. Len(log)
    BY <2>1
  <2>4. \A t \in Threads : handling[t] \in 0 .. Len(log)
    BY DEF KnownInv, MessageInv
  <2> QED
    BY <2>2, <2>3, <2>4, Zenon
<1>2. \A k \in DOMAIN tree : tree[k] \in int
  BY Zenon DEF KnownInv, TreeInv
<1> QED
  BY <1>1, <1>2, Zenon DEF StatsTypeOK, OwnTypeOK, AnswerInv, KnownInv, ThreadInv, MessageInv
=============================================================================
