----------------------------- MODULE ZMQListener ----------------------------
(***************************************************************************)
(* The listener thread of a statistics library: it subscribes to the node  *)
(* and applies what the node publishes to the tree, one operation of       *)
(* OIDTree a step.  The time of the last message is kept as its age.       *)
(***************************************************************************)
EXTENDS NodeMessages

CONSTANTS
  Instances,          \* libraries, as the node data they initialise in order,
                      \* and the threads requests come from
  Threads,            \* the listener threads that may be created, 1 .. n
  Shapes,             \* the messages of each class of handler
  Extensions,         \* pairs of a statistic and a longer name that begins so
  TIMEOUT_THRESHOLD,
  MaxMessages         \* bound: messages published in a behaviour

ASSUME StatsAssumption ==
  /\ TIMEOUT_THRESHOLD \in Nat \ {0} /\ MaxMessages \in Nat
  /\ \A i \in Instances : i.library \in Seq(Range(i.library))

VARIABLES
  age,                 \* of last_seen_time, up to TIMEOUT_THRESHOLD
  tree,
  listener,            \* where each listener thread is
  queue,               \* the messages that wait at its socket
  handling,            \* the message it handles
  todo,                \* the operations of that it has still to call
  log,                 \* the messages published, by their numbers
  applied,             \* the last message applied, of each statistic
  ctx_failed, crashed  \* zmq_ctx_new has failed; snmpd has ended

threadVars == <<queue, handling, todo>>
listenerVars == <<age, tree, listener, threadVars, log, applied, ctx_failed,
                  crashed>>

NULL == "NULL"

ListenerInit(Stats) ==
  /\ age = TIMEOUT_THRESHOLD
  /\ tree = EmptyMap
  /\ listener = [t \in Threads |-> NULL]
  /\ queue = [t \in Threads |-> <<>>]
  /\ handling = [t \in Threads |-> 0]
  /\ todo = [t \in Threads |-> <<>>]
  /\ log = <<>>
  /\ applied = [s \in Stats |-> 0]
  /\ ctx_failed = FALSE
  /\ crashed = FALSE

-----------------------------------------------------------------------------
(* A subscription lets every name through that begins with it. *)
Subscribed(node, name) ==
  \E s \in node.stats : s = name \/ <<s, name>> \in Extensions

Handlers ==
  UNION {UNION {Range(node.stat_to_handler) : node \in Range(i.library)} :
           i \in Instances}

(* The messages have shapes, and their numbers differ as words. *)
ASSUME ShapesAssumption ==
  /\ \A h \in Handlers : \A shape \in Shapes[h.class] : IsShape(h.class, shape)
  /\ Counts * (MaxMessages + 1) <= WORD

(* The handlers of a node are there for different OIDs, which lie below    *)
(* the prefix that is left out.                                            *)
ASSUME NodesAssumption ==
  \A i \in Instances : \A node \in Range(i.library) :
    LET handler == node.stat_to_handler IN
    /\ DOMAIN handler \subseteq node.stats
    /\ \A s \in DOMAIN handler : /\ handler[s].class \in Classes
                                 /\ handler[s].oid \in Seq(Nat)
                                 /\ <<>> \notin Roots(handler[s])
    /\ \A s, t \in DOMAIN handler : s # t =>
         \A r \in Roots(handler[s]), q \in Roots(handler[t]) : ~subtree_contains(r, q)

(* What each handler does on each message. *)
Handled ==
  [h \in Handlers |-> [shape \in Shapes[h.class] |-> [n \in 1 .. MaxMessages |->
     handle(h, Encode(n, h.class, shape))]]]

Operations(node, n) ==
  Handled[node.stat_to_handler[log[n].name]][log[n].shape][n]

(* The node publishes a message; threads that have subscribed get it, or   *)
(* lose it when their queue is full.                                       *)
Publish(node, m) ==
  /\ Len(log) < MaxMessages
  /\ Subscribed(node, m.name)
  /\ log' = Append(log, m)
  /\ \E got \in SUBSET {t \in Threads : listener[t] = "receiving"} :
       /\ got # {}
       /\ queue' = [t \in Threads |-> IF t \in got
                                        THEN Append(queue[t], Len(log) + 1)
                                        ELSE queue[t]]
  /\ UNCHANGED <<age, tree, listener, handling, todo, applied, ctx_failed,
                 crashed>>

-----------------------------------------------------------------------------
connect_and_subscribe(t) ==
  /\ listener[t] = "connecting"
  /\ listener' = [listener EXCEPT ![t] = "receiving"]
  /\ UNCHANGED <<age, tree, threadVars, log, applied, ctx_failed, crashed>>

(* Any of its calls fails, and handle_requests_forever returns. *)
connect_and_subscribe_Fails(t) ==
  /\ listener[t] = "connecting"
  /\ listener' = [listener EXCEPT ![t] = "returned"]
  /\ UNCHANGED <<age, tree, threadVars, log, applied, ctx_failed, crashed>>

(* Without a context _sck was never set, and the destructor closes what it *)
(* happens to hold.                                                        *)
zmq_ctx_new_Fails(t) ==
  /\ listener[t] = "connecting"
  /\ listener' = [listener EXCEPT ![t] = "returned"]
  /\ ctx_failed' = TRUE
  /\ crashed' \in BOOLEAN
  /\ UNCHANGED <<age, tree, threadVars, log, applied>>

(* A whole message has been read: last_seen_time is stored, and a message  *)
(* that is "OK" is given to its handler.  A name without one throws, which *)
(* nobody catches.                                                         *)
Receive(t, node) ==
  /\ listener[t] = "receiving"
  /\ todo[t] = <<>>
  /\ queue[t] # <<>>
  /\ LET n == Head(queue[t]) IN
     /\ age' = 0
     /\ queue' = [queue EXCEPT ![t] = Tail(@)]
     /\ \/ /\ ~log[n].ok
           /\ UNCHANGED <<handling, todo, crashed>>
        \/ /\ log[n].ok
           /\ log[n].name \in DOMAIN node.stat_to_handler
           /\ handling' = [handling EXCEPT ![t] = n]
           /\ todo' = [todo EXCEPT ![t] = Operations(node, n)]
           /\ UNCHANGED crashed
        \/ /\ log[n].ok
           /\ log[n].name \notin DOMAIN node.stat_to_handler
           /\ crashed' = TRUE
           /\ UNCHANGED <<handling, todo>>
  /\ UNCHANGED <<tree, listener, log, applied, ctx_failed>>

(* The handler calls the tree. *)
CallTree(t) ==
  /\ todo[t] # <<>>
  /\ Head(todo[t]).op = "replace_subtree" => Relock
  /\ tree' = Apply(tree, Head(todo[t]))
  /\ todo' = [todo EXCEPT ![t] = Tail(@)]
  /\ applied' = IF Len(todo[t]) = 1
                  THEN [applied EXCEPT ![log[handling[t]].name] = handling[t]]
                  ELSE applied
  /\ UNCHANGED <<age, listener, queue, handling, log, ctx_failed, crashed>>

(* A call fails other than by being interrupted. *)
Receive_Fails(t) ==
  /\ listener[t] = "receiving"
  /\ todo[t] = <<>>
  /\ listener' = [listener EXCEPT ![t] = "returned"]
  /\ queue' = [queue EXCEPT ![t] = <<>>]
  /\ UNCHANGED <<age, tree, handling, todo, log, applied, ctx_failed, crashed>>

handle_requests_forever(t, node) ==
  connect_and_subscribe(t) \/ Receive(t, node) \/ CallTree(t)

ZmqError(t) ==
  connect_and_subscribe_Fails(t) \/ zmq_ctx_new_Fails(t) \/ Receive_Fails(t)

Second ==
  /\ age < TIMEOUT_THRESHOLD
  /\ age' = age + 1
  /\ UNCHANGED <<tree, listener, threadVars, log, applied, ctx_failed, crashed>>
=============================================================================
