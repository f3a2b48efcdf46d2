----------------------------- MODULE StatsProofs ----------------------------
(***************************************************************************)
(* Safety of a statistics library, for every set of libraries, listener    *)
(* threads, requesters and messages: who listens (ThreadInv), which        *)
(* message is applied (LogInv, MessageInv) and in which order (OrderInv).  *)
(***************************************************************************)
EXTENDS StatsHandler, TLAPS

Nodes == UNION {Range(i.library) : i \in Instances}

(* Node data with a handler for every statistic it subscribes to. *)
Complete == \A node \in Nodes : node.stats \subseteq DOMAIN node.stat_to_handler

(* The flag may be reset by initialize_handler, so the invariant has to    *)
(* say that initialisation is over before the first request comes.         *)
ThreadInv ==
  /\ library \in {i.library : i \in Instances}
  /\ initialised \in Nat
  /\ thread_created \in BOOLEAN
  /\ DOMAIN listener = Threads
  /\ ~thread_created => \A t \in Threads : listener[t] = NULL
  /\ thread_created => initialised = Len(library)
  /\ \A r \in DOMAIN request : request[r] # "idle" => initialised = Len(library)
  /\ OneListener

(* Initially no thread was created. *)
LEMMA InitThreadInv == StatsInit => ThreadInv
<1> SUFFICES ASSUME StatsInit PROVE ThreadInv
  OBVIOUS
<1>1. PICK i \in Instances :
        library = i.library /\ request = [r \in i.requesters |-> "idle"]
  BY DEF StatsInit
<1>2. library \in {j.library : j \in Instances}
  BY <1>1
<1>3. \A r \in DOMAIN request : request[r] = "idle"
  BY <1>1
<1>4. DOMAIN listener = Threads /\ \A t \in Threads : listener[t] = NULL
  BY DEF StatsInit, ListenerInit
<1> QED
  BY <1>2, <1>3, <1>4, Zenon DEF StatsInit, ThreadInv, OneListener

(* The number of nodes of a library is a natural number. *)
LEMMA LibraryLength == ThreadInv => Len(library) \in Nat
<1> SUFFICES ASSUME ThreadInv PROVE Len(library) \in Nat
  OBVIOUS
<1>1. PICK i \in Instances : library = i.library
  BY DEF ThreadInv
<1>2. i.library \in Seq(Range(i.library))
  BY StatsAssumption DEF StatsAssumption
<1> QED
  BY <1>1, <1>2

(* Threads are created by CreateThread only, and later steps of a thread   *)
(* keep it.                                                                *)
LEMMA ListenerKept ==
  ASSUME ThreadInv, NEW t \in Threads, ListenerStep(t) \/ (ZmqError(t) /\ UNCHANGED handlerVars)
  PROVE  ThreadInv'
<1>1. UNCHANGED <<initVars, thread_created, request>>
  BY DEF ListenerStep, handlerVars
<1>2. \/ listener' = listener
      \/ /\ listener[t] = "connecting" \/ listener[t] = "receiving"
         /\ \E s \in {"receiving", "returned"} : listener' = [listener EXCEPT ![t] = s]
  BY DEF ListenerStep, ZmqError, handle_requests_forever, connect_and_subscribe,
         Receive, CallTree, connect_and_subscribe_Fails, zmq_ctx_new_Fails,
         Receive_Fails
<1>3. CASE listener' = listener
  BY <1>1, <1>3 DEF ThreadInv, OneListener, initVars
<1>4. CASE listener' # listener
  <2>1. PICK s \in {"receiving", "returned"} : listener' = [listener EXCEPT ![t] = s]
    BY <1>2, <1>4
  <2>2. listener[t] # NULL
    BY <1>2, <1>4 DEF NULL
  <2>3. thread_created
    BY <2>2 DEF ThreadInv
  <2>4. \A u \in Threads : listener'[u] # NULL => listener[u] # NULL
    BY <2>1, <2>2 DEF ThreadInv
  <2>5. DOMAIN listener' = Threads
    BY <2>1 DEF ThreadInv
  <2> QED
    BY <1>1, <2>3, <2>4, <2>5 DEF ThreadInv, OneListener, initVars
<1> QED
  BY <1>3, <1>4

(* A request creates a thread under the lock only if there is none yet. *)
LEMMA CreateKept ==
  ASSUME ThreadInv, NEW r \in DOMAIN request, CreateThread(r)
  PROVE  ThreadInv'
<1>1. initialised = Len(library) /\ UNCHANGED initVars
  BY DEF CreateThread, ThreadInv
<1>2. request' = [request EXCEPT ![r] = "checking"]
  BY DEF CreateThread
<1>3. CASE UNCHANGED <<thread_created, listener>>
  BY <1>1, <1>2, <1>3 DEF ThreadInv, OneListener, initVars
<1>4. CASE ~thread_created /\ thread_created' = TRUE /\ UNCHANGED listener
  BY <1>1, <1>2, <1>4 DEF ThreadInv, OneListener, initVars
<1>5. CASE /\ ~thread_created /\ thread_created' = TRUE
           /\ \E t \in Threads : listener' = [listener EXCEPT ![t] = "connecting"]
  <2>1. PICK t \in Threads : listener' = [listener EXCEPT ![t] = "connecting"]
    BY <1>5, Zenon
  <2>2. \A u \in Threads : listener'[u] # NULL => u = t
    BY <2>1, <1>5 DEF ThreadInv
  <2>3. DOMAIN listener' = Threads
    BY <2>1 DEF ThreadInv
  <2> QED
    BY <1>1, <1>2, <1>5, <2>2, <2>3 DEF ThreadInv, OneListener, initVars
<1> QED
  BY <1>3, <1>4, <1>5, Zenon DEF CreateThread, MayCreate

(* Every step keeps the invariant. *)
LEMMA StepThreadInv == ThreadInv /\ [StatsNext]_statsVars => ThreadInv'
<1> SUFFICES ASSUME ThreadInv, [StatsNext]_statsVars PROVE ThreadInv'
  OBVIOUS
<1>1. CASE initialize_handler
  <2>1. initialised # Len(library) /\ initialised' \in Nat /\ ~thread_created
    BY <1>1, LibraryLength DEF initialize_handler, ThreadInv
  <2>2. \A q \in DOMAIN request : request[q] = "idle"
    BY <2>1 DEF ThreadInv
  <2> QED
    BY <1>1, <2>1, <2>2, Zenon DEF initialize_handler, ThreadInv, OneListener
<1>2. ASSUME NEW r \in DOMAIN request, BeginRequest(r) PROVE ThreadInv'
  BY <1>2 DEF BeginRequest, ThreadInv, OneListener, listenerVars, initVars
<1>3. ASSUME NEW r \in DOMAIN request, CreateThread(r) PROVE ThreadInv'
  BY <1>3, CreateKept
<1>4. ASSUME NEW r \in DOMAIN request, CheckAge(r) \/ EndRequest(r) PROVE ThreadInv'
  BY <1>4 DEF CheckAge, EndRequest, ThreadInv, OneListener, listenerVars, initVars
<1>5. ASSUME NEW r \in DOMAIN request, Get(r) \/ GetNext(r) PROVE ThreadInv'
  BY <1>5 DEF Get, GetNext, ThreadInv, OneListener, listenerVars, initVars
<1>6. CASE BeginWalk
  BY <1>6 DEF BeginWalk, ThreadInv, OneListener, listenerVars, initVars
<1>7. ASSUME NEW t \in Threads, ListenerStep(t) PROVE ThreadInv'
  BY <1>7, ListenerKept
<1>8. CASE Environment /\ UNCHANGED handlerVars
  <2>1. ASSUME NEW t \in Threads, ZmqError(t) PROVE ThreadInv'
    BY <1>8, <2>1, ListenerKept
  <2>2. ASSUME NEW m, Publish(global_node_data, m) PROVE ThreadInv'
    BY <1>8, <2>2 DEF Publish, ThreadInv, OneListener, handlerVars, initVars
  <2> QED
    BY <1>8, <2>1, <2>2 DEF Environment
<1>9. CASE Second /\ UNCHANGED handlerVars
  BY <1>9 DEF Second, ThreadInv, OneListener, handlerVars, initVars
<1>10. CASE UNCHANGED statsVars
  BY <1>10 DEF statsVars, listenerVars, handlerVars, initVars, ThreadInv, OneListener
<1> QED
  BY <1>1, <1>2, <1>3, <1>4, <1>5, <1>6, <1>7, <1>8, <1>9, <1>10 DEF StatsNext, Request

(* However many requests come in at once, one listener thread at most is   *)
(* ever created.                                                           *)
THEOREM OneListenerThm == StatsSpec => []OneListener
<1>1. ThreadInv => OneListener
  BY DEF ThreadInv
<1> QED
  BY <1>1, InitThreadInv, StepThreadInv, PTL DEF StatsSpec

-----------------------------------------------------------------------------
(* What waits at a socket was published, and the thread works with node    *)
(* data of the library.                                                    *)
LogInv ==
  /\ \E S : log \in Seq(S)
  /\ queue \in [Threads -> Seq(1 .. Len(log))]
  /\ global_node_data \in Range(library) \cup {NoNode}

(* Initially nothing was published. *)
LEMMA InitLogInv == StatsInit => LogInv
<1> SUFFICES ASSUME StatsInit PROVE LogInv
  OBVIOUS
<1>1. log \in Seq({}) /\ global_node_data = NoNode
  BY DEF StatsInit, ListenerInit
<1>2. queue \in [Threads -> Seq(1 .. Len(log))]
  BY DEF StatsInit, ListenerInit
<1> QED
  BY <1>1, <1>2 DEF LogInv

(* A library's next node data is one of its nodes. *)
LEMMA InitializeLog ==
  ASSUME LogInv, ThreadInv, initialize_handler
  PROVE  LogInv'
<1>1. UNCHANGED <<log, queue, library>>
  BY DEF initialize_handler, threadVars
<1>2. global_node_data' \in Range(library) \cup {NoNode}
  <2>1. PICK i \in Instances : library = i.library
    BY DEF ThreadInv
  <2>2. library \in Seq(Range(library))
    BY <2>1, StatsAssumption DEF StatsAssumption
  <2>3. initialised + 1 \in 1 .. Len(library)
    BY LibraryLength DEF initialize_handler, ThreadInv
  <2>4. library[initialised + 1] \in Range(library)
    BY <2>2, <2>3
  <2> QED
    BY <2>4 DEF initialize_handler, LogInv
<1> QED
  BY <1>1, <1>2 DEF LogInv

(* Publishing appends to the log and to queues. *)
LEMMA PublishLog ==
  ASSUME LogInv, NEW m, Publish(global_node_data, m), UNCHANGED handlerVars
  PROVE  /\ LogInv'
         /\ Len(log) \in Nat /\ Len(log') = Len(log) + 1 /\ log'[Len(log) + 1] = m
         /\ \A n \in 1 .. Len(log) : log'[n] = log[n]
<1>1. PICK S : log \in Seq(S)
  BY DEF LogInv
<1>2. log' = Append(log, m) /\ UNCHANGED <<library, global_node_data>>
  BY DEF Publish, handlerVars, initVars
<1>3. /\ log' \in Seq(S \cup {m}) /\ Len(log') = Len(log) + 1 /\ Len(log) \in Nat
      /\ log'[Len(log) + 1] = m /\ \A n \in 1 .. Len(log) : log'[n] = log[n]
  <2>1. log \in Seq(S \cup {m})
    BY <1>1
  <2> QED
    BY <1>1, <1>2, <2>1
<1>4. queue' \in [Threads -> Seq(1 .. Len(log'))]
  <2>1. \A t \in Threads : queue[t] \in Seq(1 .. Len(log'))
    BY <1>3 DEF LogInv
  <2>2. PICK got \in SUBSET Threads :
          queue' = [t \in Threads |-> IF t \in got THEN Append(queue[t], Len(log) + 1)
                                     ELSE queue[t]]
    BY Zenon DEF Publish
  <2>3. \A t \in Threads : Append(queue[t], Len(log) + 1) \in Seq(1 .. Len(log'))
    BY <1>3, <2>1
  <2> QED
    BY <2>1, <2>2, <2>3, Zenon
<1> QED
  BY <1>2, <1>3, <1>4 DEF LogInv

(* The thread takes the first message of its queue. *)
LEMMA ReceiveLog ==
  ASSUME LogInv, NEW t \in Threads, Receive(t, global_node_data), UNCHANGED initVars
  PROVE  LogInv' /\ Head(queue[t]) \in DOMAIN log /\ Head(queue[t]) \in 1 .. Len(log)
<1> DEFINE n == Head(queue[t])
<1>1. UNCHANGED <<log, library, global_node_data>>
  BY DEF Receive, initVars
<1>2. queue[t] \in Seq(1 .. Len(log)) /\ queue[t] # <<>>
  BY DEF LogInv, Receive
<1>3. n \in 1 .. Len(log) /\ Tail(queue[t]) \in Seq(1 .. Len(log))
  <2>1. \A S : \A q \in Seq(S) : q # <<>> => Head(q) \in S /\ Tail(q) \in Seq(S)
    OBVIOUS
  <2> QED
    BY <1>2, <2>1, Zenon
<1>4. queue' \in [Threads -> Seq(1 .. Len(log'))]
  <2>1. queue' = [queue EXCEPT ![t] = Tail(@)]
    BY DEF Receive
  <2> QED
    BY <1>1, <1>3, <2>1 DEF LogInv
<1>5. n \in DOMAIN log
  <2>1. PICK S : log \in Seq(S)
    BY DEF LogInv
  <2> QED
    BY <1>3, <2>1
<1> QED
  BY <1>1, <1>3, <1>4, <1>5 DEF LogInv

(* So are the other steps of the thread, and the errors of ZeroMQ. *)
LEMMA ListenerLog ==
  ASSUME LogInv, NEW t \in Threads,
         \/ ListenerStep(t)
         \/ ZmqError(t) /\ UNCHANGED handlerVars
  PROVE  LogInv'
<1>1. UNCHANGED initVars
  BY DEF ListenerStep, handlerVars
<1>2. CASE Receive(t, global_node_data)
  BY <1>1, <1>2, ReceiveLog
<1>3. CASE connect_and_subscribe(t) \/ CallTree(t) \/ connect_and_subscribe_Fails(t)
           \/ zmq_ctx_new_Fails(t)
  <2>1. UNCHANGED <<log, queue, library, global_node_data>>
    BY <1>1, <1>3 DEF connect_and_subscribe, CallTree, connect_and_subscribe_Fails,
                      zmq_ctx_new_Fails, threadVars, initVars
  <2> QED
    BY <2>1 DEF LogInv
<1>4. CASE Receive_Fails(t)
  <2>1. /\ UNCHANGED <<log, library, global_node_data>>
        /\ queue' = [queue EXCEPT ![t] = <<>>]
    BY <1>1, <1>4 DEF Receive_Fails, initVars
  <2>2. queue' \in [Threads -> Seq(1 .. Len(log'))]
    BY <2>1 DEF LogInv
  <2> QED
    BY <2>1, <2>2 DEF LogInv
<1> QED
  BY <1>2, <1>3, <1>4 DEF ListenerStep, ZmqError, handle_requests_forever

(* The steps that touch neither messages, nor the tree, nor a thread that  *)
(* is there.                                                               *)
Aside ==
  /\ UNCHANGED <<tree, queue, handling, todo, log, applied, library, global_node_data>>
  /\ \A t \in Threads : listener'[t] = NULL => listener[t] = NULL
  /\ thread_created => thread_created'

(* The other steps are of the thread or the node, or initialise.           *)
LEMMA StepCases ==
  ASSUME ThreadInv, [StatsNext]_statsVars
  PROVE  \/ ~crashed /\ initialize_handler
         \/ ~crashed /\ \E m \in Messages \cup OtherMessages :
              Publish(global_node_data, m) /\ UNCHANGED handlerVars
         \/ ~crashed /\ \E t \in Threads : ListenerStep(t)
         \/ ~crashed /\ \E t \in Threads : ZmqError(t) /\ UNCHANGED handlerVars
         \/ ~crashed /\ Aside /\ UNCHANGED <<crashed, ctx_failed>>
         \/ UNCHANGED statsVars
<1>1. CASE UNCHANGED statsVars
  BY <1>1
<1>2. CASE ~crashed /\ initialize_handler
  BY <1>2
<1>3. ASSUME NEW r \in DOMAIN request,
             BeginRequest(r) \/ CheckAge(r) \/ EndRequest(r) \/ Get(r)
      PROVE  Aside /\ UNCHANGED <<crashed, ctx_failed>>
  BY <1>3 DEF BeginRequest, CheckAge, EndRequest, Get, listenerVars, threadVars,
              initVars, Aside
<1>4. ASSUME NEW r \in DOMAIN request, CreateThread(r)
      PROVE  Aside /\ UNCHANGED <<crashed, ctx_failed>>
  <2>1. \A t \in Threads : listener'[t] = NULL => listener[t] = NULL
    <3>1. CASE UNCHANGED listener
      BY <3>1
    <3>2. ASSUME NEW t \in Threads, listener' = [listener EXCEPT ![t] = "connecting"]
          PROVE  \A u \in Threads : listener'[u] = NULL => listener[u] = NULL
      BY <3>2 DEF ThreadInv, NULL
    <3> QED
      BY <1>4, <3>1, <3>2 DEF CreateThread
  <2>2. thread_created => thread_created'
    BY <1>4, Zenon DEF CreateThread
  <2> QED
    BY <1>4, <2>1, <2>2 DEF CreateThread, threadVars, initVars, Aside
<1>5. ASSUME NEW r \in DOMAIN request, GetNext(r)
      PROVE  Aside /\ UNCHANGED <<crashed, ctx_failed>>
  BY <1>5 DEF GetNext, listenerVars, threadVars, initVars, Aside
<1>6. BeginWalk => Aside /\ UNCHANGED <<crashed, ctx_failed>>
  BY DEF BeginWalk, listenerVars, threadVars, initVars, Aside
<1>7. Second /\ UNCHANGED handlerVars => Aside /\ UNCHANGED <<crashed, ctx_failed>>
  BY DEF Second, threadVars, handlerVars, initVars, Aside
<1>8. CASE ~crashed /\ Environment /\ UNCHANGED handlerVars
  BY <1>8 DEF Environment
<1> QED
  BY <1>1, <1>2, <1>3, <1>4, <1>5, <1>6, <1>7, <1>8 DEF StatsNext, Request

(* Every step keeps the invariant. *)
LEMMA StepLogInv == LogInv /\ ThreadInv /\ [StatsNext]_statsVars => LogInv'
<1> SUFFICES ASSUME LogInv, ThreadInv, [StatsNext]_statsVars PROVE LogInv'
  OBVIOUS
<1>1. CASE UNCHANGED statsVars
  BY <1>1 DEF LogInv, statsVars, listenerVars, threadVars, handlerVars, initVars
<1>2. CASE Aside
  BY <1>2 DEF LogInv, Aside
<1> QED
  BY <1>1, <1>2, StepCases, InitializeLog, PublishLog, ListenerLog

(* A message the thread takes from its queue crashes it only when its name *)
(* is not one of the library's.                                            *)
LEMMA StepSafe ==
  ASSUME Complete
  PROVE  OwnStatsAreSafe /\ LogInv /\ ThreadInv /\ [StatsNext]_statsVars => OwnStatsAreSafe'
<1> SUFFICES ASSUME OwnStatsAreSafe, LogInv, ThreadInv, [StatsNext]_statsVars, crashed'
             PROVE  OwnStatsAreSafe'
  BY DEF OwnStatsAreSafe
<1>1. CASE UNCHANGED statsVars
  BY <1>1 DEF OwnStatsAreSafe, statsVars, listenerVars, handlerVars, initVars
<1>2. CASE ~crashed
  <2>1. PICK t \in Threads :
          \/ ListenerStep(t) /\ Receive(t, global_node_data)
          \/ zmq_ctx_new_Fails(t)
    <3>1. ASSUME NEW t \in Threads, ZmqError(t) PROVE zmq_ctx_new_Fails(t)
      BY <1>2, <3>1, Zenon DEF ZmqError, connect_and_subscribe_Fails, Receive_Fails
    <3>2. ASSUME NEW t \in Threads, ListenerStep(t) PROVE Receive(t, global_node_data)
      BY <1>2, <3>2, Zenon
         DEF ListenerStep, handle_requests_forever, connect_and_subscribe, CallTree
    <3>3. ~initialize_handler
      BY <1>2, Zenon DEF initialize_handler
    <3>4. \A m : ~Publish(global_node_data, m)
      BY <1>2, Zenon DEF Publish
    <3>5. ~UNCHANGED statsVars
      BY <1>2, Zenon DEF statsVars, listenerVars
    <3> QED
      BY <1>2, <3>1, <3>2, <3>3, <3>4, <3>5, StepCases, Zenon
  <2>2. CASE zmq_ctx_new_Fails(t)
    BY <2>2 DEF zmq_ctx_new_Fails, OwnStatsAreSafe
  <2>3. CASE ListenerStep(t) /\ Receive(t, global_node_data)
    <3> DEFINE n == Head(queue[t])
    <3>1. log[n].name \notin DOMAIN global_node_data.stat_to_handler
      BY <1>2, <2>3, Zenon DEF Receive
    <3>2. global_node_data.stats \subseteq DOMAIN global_node_data.stat_to_handler
      <4>1. global_node_data \in Nodes \cup {NoNode}
        BY DEF LogInv, ThreadInv, Nodes
      <4> QED
        BY <4>1 DEF Complete, NoNode
    <3>3. UNCHANGED <<log, global_node_data>> /\ UNCHANGED initVars
      BY <2>3 DEF ListenerStep, Receive, initVars
    <3>4. n \in DOMAIN log
      BY <2>3, <3>3, ReceiveLog
    <3> QED
      BY <3>1, <3>2, <3>3, <3>4 DEF OwnStatsAreSafe
  <2> QED
    BY <2>1, <2>2, <2>3
<1> QED
  BY <1>1, <1>2, StepCases, Zenon

(* A library with a handler for every statistic it subscribes to never     *)
(* makes snmpd crash on a message of one of them.                          *)
THEOREM OwnStatsAreSafeThm ==
  ASSUME Complete
  PROVE  StatsSpec => []OwnStatsAreSafe
<1>1. StatsInit => OwnStatsAreSafe
  BY DEF StatsInit, ListenerInit, OwnStatsAreSafe
<1>2. OwnStatsAreSafe /\ LogInv /\ ThreadInv /\ [StatsNext]_statsVars => OwnStatsAreSafe'
  BY StepSafe
<1> QED
  BY <1>1, <1>2, InitThreadInv, StepThreadInv, InitLogInv, StepLogInv, PTL DEF StatsSpec

-----------------------------------------------------------------------------
Names == DOMAIN global_node_data.stat_to_handler
HandlerOf(s) == global_node_data.stat_to_handler[s]

(* Message n is given to a handler. *)
IsCall(n) == n \in 1 .. Len(log) /\ log[n].ok /\ log[n].name \in Names

(* What rest there is of the calls ops. *)
IsRest(rest, ops) ==
  /\ \E S : rest \in Seq(S)
  /\ Len(rest) <= Len(ops)
  /\ \A i \in 1 .. Len(rest) : rest[i] = ops[Len(ops) - Len(rest) + i]

(* A thread makes the calls of a message its node has published; before    *)
(* there is a thread there is no message.                                  *)
MessageInv ==
  /\ Len(log) <= MaxMessages
  /\ \A n \in 1 .. Len(log) : IsCall(n) => log[n].shape \in Shapes[HandlerOf(log[n].name).class]
  /\ handling \in [Threads -> 0 .. Len(log)]
  /\ DOMAIN todo = Threads
  /\ \A t \in Threads : todo[t] # <<>> =>
       IsCall(handling[t]) /\ IsRest(todo[t], Operations(global_node_data, handling[t]))
  /\ applied \in [Stats -> 0 .. Len(log)]
  /\ \A s \in Stats : applied[s] # 0 => IsCall(applied[s]) /\ log[applied[s]].name = s
  /\ \A t \in Threads : listener[t] = NULL => queue[t] = <<>> /\ todo[t] = <<>>
  /\ ~thread_created => log = <<>>

(* The statistics depend on nothing but the library. *)
LEMMA SameStats == UNCHANGED library => Stats' = Stats
BY DEF Stats

(* The handlers depend on nothing but the node data. *)
LEMMA SameHandlers ==
  UNCHANGED global_node_data => Names' = Names /\ \A s : HandlerOf(s)' = HandlerOf(s)
BY DEF Names, HandlerOf

(* The handlers of the node data a library works with. *)
LEMMA NodeDataOfLibrary ==
  ASSUME LogInv, ThreadInv
  PROVE  /\ Names \subseteq Stats
         /\ \A s \in Names : /\ HandlerOf(s).class \in Classes /\ HandlerOf(s).oid \in Seq(Nat)
                             /\ HandlerOf(s) \in Handlers /\ <<>> \notin Roots(HandlerOf(s))
         /\ \A s, u \in Names : s # u =>
              \A r \in Roots(HandlerOf(s)), q \in Roots(HandlerOf(u)) : ~subtree_contains(r, q)
<1>1. CASE global_node_data = NoNode
  <2>1. Names = {}
    BY <1>1 DEF Names, NoNode, EmptyMap
  <2> QED
    BY <2>1
<1>2. CASE global_node_data \in Range(library)
  <2>1. PICK i \in Instances : library = i.library
    BY DEF ThreadInv
  <2> DEFINE node == global_node_data
             handler == node.stat_to_handler
  <2>2. /\ DOMAIN handler \subseteq node.stats
        /\ \A s \in DOMAIN handler : /\ handler[s].class \in Classes
                                     /\ handler[s].oid \in Seq(Nat)
                                     /\ <<>> \notin Roots(handler[s])
        /\ \A s, t \in DOMAIN handler : s # t =>
             \A r \in Roots(handler[s]), q \in Roots(handler[t]) : ~subtree_contains(r, q)
    BY <1>2, <2>1, NodesAssumption DEF NodesAssumption
  <2>3. \E j \in DOMAIN library : node = library[j]
    BY <1>2 DEF Range
  <2>4. node.stats \subseteq Stats
    BY <2>3 DEF Stats
  <2>5. Range(handler) \subseteq Handlers
    BY <1>2, <2>1 DEF Handlers
  <2>6. \A s \in DOMAIN handler : handler[s] \in Handlers
    BY <2>5 DEF Range
  <2> QED
    BY <2>2, <2>4, <2>6 DEF Names, HandlerOf
<1> QED
  BY <1>1, <1>2 DEF LogInv

(* What a handler does is a sequence of calls. *)
LEMMA HandleSequence ==
  ASSUME NEW h, h.class \in Classes, NEW f
  PROVE  \E S : handle(h, f) \in Seq(S)
<1>1. \A a, b, c : /\ <<>> \in Seq({a}) /\ <<a>> \in Seq({a})
                  /\ <<a, b, c>> \in Seq({a, b, c})
  OBVIOUS
<1>2. \A root, columns : \E S : WholeSubtree(root, f, columns) \in Seq(S)
  BY <1>1, Zenon DEF WholeSubtree
<1>3. \A root : /\ \E S : IPCountStatHandler(root, f) \in Seq(S)
                /\ \E S : BareStatHandler(root, f) \in Seq(S)
                /\ \E S : AstaireConnectionStatHandler(root, f) \in Seq(S)
  BY <1>1, Zenon DEF IPCountStatHandler, BareStatHandler, AstaireConnectionStatHandler
<1>4. \A root : /\ \E S : SingleNumberStatHandler(root, f) \in Seq(S)
                /\ \E S : SingleNumberWithScopeStatHandler(root, f) \in Seq(S)
                /\ \E S : AccumulatedWithCountStatHandler(root, f) \in Seq(S)
  BY <1>2 DEF SingleNumberStatHandler, SingleNumberWithScopeStatHandler,
              AccumulatedWithCountStatHandler
<1>5. \A root : \E S : AstaireGlobalStatHandler(root, f) \in Seq(S)
  <2> SUFFICES ASSUME NEW root PROVE \E S : AstaireGlobalStatHandler(root, f) \in Seq(S)
    OBVIOUS
  <2> DEFINE call(i) == IF Len(f) >= Len(Global_oids)
                          THEN Set(root \o Global_oids[i], atoi(f[i]))
                          ELSE Erase(root \o Global_oids[i])
  <2>1. DOMAIN Global_oids = 1 .. 5
    BY DEF Global_oids
  <2>2. AstaireGlobalStatHandler(root, f) = [i \in 1 .. 5 |-> call(i)]
    BY <2>1 DEF AstaireGlobalStatHandler
  <2> HIDE DEF call
  <2>3. [i \in 1 .. 5 |-> call(i)] \in Seq({call(i) : i \in 1 .. 5})
    OBVIOUS
  <2> QED
    BY <2>2, <2>3, Zenon
<1> QED
  BY <1>3, <1>4, <1>5 DEF handle, Classes

(* The calls for a message are a sequence. *)
LEMMA MessageSequence ==
  ASSUME LogInv, ThreadInv, MessageInv, NEW n, IsCall(n)
  PROVE  \E S : Operations(global_node_data, n) \in Seq(S)
<1> DEFINE h == HandlerOf(log[n].name)
           shape == log[n].shape
<1>1. /\ h.class \in Classes /\ h \in Handlers /\ n \in 1 .. MaxMessages
      /\ shape \in Shapes[h.class]
  <2>1. Len(log) \in Nat
    BY DEF LogInv
  <2> QED
    BY <2>1, NodeDataOfLibrary, StatsAssumption, SMTT(20) DEF MessageInv, IsCall, StatsAssumption
<1>2. Operations(global_node_data, n) = Handled[h][shape][n]
  BY DEF Operations, HandlerOf
<1> HIDE DEF h, shape
<1>3. Handled[h][shape][n] = handle(h, Encode(n, h.class, shape))
  BY <1>1 DEF Handled
<1> QED
  BY <1>1, <1>2, <1>3, HandleSequence

(* Initially there are no messages. *)
LEMMA InitMessageInv == StatsInit => MessageInv
<1> SUFFICES ASSUME StatsInit PROVE MessageInv
  OBVIOUS
<1>1. /\ log = <<>> /\ handling = [t \in Threads |-> 0] /\ todo = [t \in Threads |-> <<>>]
      /\ queue = [t \in Threads |-> <<>>] /\ applied = [s \in Stats |-> 0]
  BY DEF StatsInit, ListenerInit
<1>2. Len(log) = 0
  BY <1>1
<1>3. /\ handling \in [Threads -> 0 .. Len(log)] /\ applied \in [Stats -> 0 .. Len(log)]
      /\ \A s \in Stats : applied[s] = 0
      /\ \A t \in Threads : todo[t] = <<>> /\ queue[t] = <<>>
  BY <1>1, <1>2
<1>4. Len(log) <= MaxMessages
  BY <1>2, StatsAssumption DEF StatsAssumption
<1>5. \A n \in 1 .. Len(log) : FALSE
  BY <1>2
<1>6. DOMAIN todo = Threads
  BY <1>1
<1> QED
  BY <1>1, <1>3, <1>4, <1>5, <1>6 DEF MessageInv

(* Messages keep their calls when the library stays as it is. *)
LEMMA SameOperations ==
  ASSUME UNCHANGED global_node_data, Len(log) \in Nat, Len(log') \in Nat,
         Len(log) <= Len(log'), \A n \in 1 .. Len(log) : log'[n] = log[n]
  PROVE  /\ Names' = Names /\ \A s : HandlerOf(s)' = HandlerOf(s)
         /\ \A n \in 1 .. Len(log) :
              /\ IsCall(n)' <=> IsCall(n)
              /\ Operations(global_node_data, n)' = Operations(global_node_data, n)
<1>1. Names' = Names /\ \A s : HandlerOf(s)' = HandlerOf(s)
  BY DEF Names, HandlerOf
<1>2. \A n \in 1 .. Len(log) : n \in 1 .. Len(log')
  OBVIOUS
<1>3. ASSUME NEW n \in 1 .. Len(log) PROVE IsCall(n)' <=> IsCall(n)
  BY <1>1, <1>2, <1>3, Zenon DEF IsCall
<1>4. ASSUME NEW n \in 1 .. Len(log)
      PROVE  Operations(global_node_data, n)' = Operations(global_node_data, n)
  BY <1>4, Zenon DEF Operations
<1> QED
  BY <1>1, <1>3, <1>4, Zenon

(* The log is a sequence. *)
LEMMA LogLength == LogInv => Len(log) \in Nat
BY DEF LogInv

(* A step that keeps messages and calls keeps the invariant. *)
LEMMA KeptMessages ==
  ASSUME MessageInv,
         UNCHANGED <<handling, todo, log, applied, library, global_node_data>>,
         \A t \in Threads : listener'[t] = NULL => listener[t] = NULL,
         \A t \in Threads : queue[t] = <<>> => queue'[t] = <<>>,
         thread_created => thread_created'
  PROVE  MessageInv'
<1>1. /\ Names' = Names /\ \A s : HandlerOf(s)' = HandlerOf(s)
      /\ \A n : IsCall(n)' <=> IsCall(n)
      /\ \A n : Operations(global_node_data, n)' = Operations(global_node_data, n)
      /\ Stats' = Stats
  BY Zenon DEF Names, HandlerOf, IsCall, Operations, Stats
<1> QED
  BY <1>1, Zenon DEF MessageInv

(* Initialisation comes before all messages. *)
LEMMA InitializeMessages ==
  ASSUME MessageInv, ThreadInv, LogInv, initialize_handler
  PROVE  MessageInv'
<1>1. ~thread_created /\ UNCHANGED <<handling, todo, queue, log, applied, library, listener>>
  <2>1. initialised < Len(library) /\ UNCHANGED <<library, listener, threadVars, log, applied>>
    BY Zenon DEF initialize_handler
  <2>2. /\ Len(library) \in Nat /\ initialised \in Nat
        /\ thread_created => initialised = Len(library)
    BY LibraryLength, Zenon DEF ThreadInv
  <2>3. initialised # Len(library)
    BY <2>1, <2>2
  <2> QED
    BY <2>1, <2>2, <2>3, Zenon DEF threadVars
<1>2. log = <<>> /\ Len(log) = 0 /\ \A n : ~IsCall(n) /\ ~IsCall(n)'
  BY <1>1 DEF MessageInv, IsCall
<1>3. Stats' = Stats
  BY <1>1 DEF Stats
<1> QED
  BY <1>1, <1>2, <1>3, Zenon DEF MessageInv

(* The node publishes messages its handlers know. *)
LEMMA PublishMessages ==
  ASSUME MessageInv, ThreadInv, LogInv, NEW m \in Messages \cup OtherMessages,
         Publish(global_node_data, m), UNCHANGED handlerVars
  PROVE  MessageInv'
<1>1. /\ Len(log) \in Nat /\ Len(log') = Len(log) + 1 /\ log'[Len(log) + 1] = m
      /\ \A n \in 1 .. Len(log) : log'[n] = log[n]
  BY PublishLog
<1>2. /\ UNCHANGED <<handling, todo, applied, listener, thread_created, library, global_node_data>>
      /\ Len(log) < MaxMessages
  BY DEF Publish, handlerVars, initVars
<1>3. /\ Names' = Names /\ \A s : HandlerOf(s)' = HandlerOf(s)
      /\ \A n \in 1 .. Len(log) :
           /\ IsCall(n)' <=> IsCall(n)
           /\ Operations(global_node_data, n)' = Operations(global_node_data, n)
  BY <1>1, <1>2, SameOperations
<1>4. Stats' = Stats
  BY <1>2 DEF Stats
<1>5. PICK u \in Threads : listener[u] = "receiving"
  BY DEF Publish
<1>6. thread_created'
  BY <1>2, <1>5 DEF ThreadInv, NULL
<1>7. \A t \in Threads : listener'[t] = NULL => queue'[t] = <<>> /\ todo'[t] = <<>>
  <2>1. PICK got \in SUBSET {t \in Threads : listener[t] = "receiving"} :
          queue' = [t \in Threads |-> IF t \in got THEN Append(queue[t], Len(log) + 1)
                                      ELSE queue[t]]
    BY Zenon DEF Publish
  <2> QED
    BY <1>2, <2>1 DEF MessageInv, NULL
<1>8. ASSUME NEW n \in 1 .. Len(log'), IsCall(n)'
      PROVE  (log[n].shape \in Shapes[HandlerOf(log[n].name).class])'
  <2>1. CASE n \in 1 .. Len(log)
    <3>1. log'[n] = log[n] /\ IsCall(n) /\ HandlerOf(log[n].name)' = HandlerOf(log[n].name)
      BY <1>1, <1>3, <1>8, <2>1
    <3> QED
      BY <2>1, <3>1, Zenon DEF MessageInv
  <2>2. CASE n = Len(log) + 1
    <3>1. log'[n] = m /\ m.ok /\ m.name \in Names
      BY <1>1, <1>3, <1>8, <2>2, Zenon DEF IsCall
    <3>2. m \notin OtherMessages
      BY <3>1, Zenon DEF OtherMessages, Names
    <3>3. PICK s \in Names : m \in [name : {s}, ok : {TRUE}, shape : Shapes[HandlerOf(s).class]]
      BY <3>2, Zenon DEF Messages, Names, HandlerOf
    <3>4. m.name = s /\ m.shape \in Shapes[HandlerOf(s).class]
      BY <3>3
    <3>5. HandlerOf(log[n].name)' = HandlerOf(s)
      BY <1>3, <3>1, <3>4, Zenon
    <3> QED
      BY <3>1, <3>4, <3>5
  <2> QED
    BY <1>1, <2>1, <2>2
<1>9. /\ Len(log') <= MaxMessages
      /\ handling' \in [Threads -> 0 .. Len(log')] /\ applied' \in [Stats -> 0 .. Len(log')]
  <2>1. handling' \in [Threads -> 0 .. Len(log)] /\ applied' \in [Stats -> 0 .. Len(log)]
    BY <1>2, Zenon DEF MessageInv
  <2>2. Len(log') <= MaxMessages /\ 0 .. Len(log) \subseteq 0 .. Len(log')
    BY <1>1, <1>2, StatsAssumption DEF StatsAssumption
  <2> QED
    BY <2>1, <2>2
<1>10. ASSUME NEW t \in Threads, todo'[t] # <<>>
       PROVE  /\ IsCall(handling[t])'
              /\ IsRest(todo[t], Operations(global_node_data, handling[t]))'
  <2>1. IsCall(handling[t]) /\ IsRest(todo[t], Operations(global_node_data, handling[t]))
    BY <1>2, <1>10 DEF MessageInv
  <2>2. handling[t] \in 1 .. Len(log)
    BY <2>1 DEF IsCall
  <2>3. /\ IsCall(handling[t])'
        /\ Operations(global_node_data, handling[t])' = Operations(global_node_data, handling[t])
    BY <1>2, <1>3, <2>1, <2>2, Zenon
  <2> QED
    BY <1>2, <2>1, <2>3, Zenon DEF IsRest
<1>11. ASSUME NEW s \in Stats', applied'[s] # 0
       PROVE  IsCall(applied[s])' /\ log'[applied'[s]].name = s
  <2>1. IsCall(applied[s]) /\ log[applied[s]].name = s
    BY <1>2, <1>4, <1>11, Zenon DEF MessageInv
  <2>2. applied[s] \in 1 .. Len(log)
    BY <2>1 DEF IsCall
  <2> QED
    BY <1>1, <1>2, <1>3, <2>1, <2>2, Zenon
<1>12. DOMAIN todo' = Threads
  BY <1>2, Zenon DEF MessageInv
<1> QED
  BY <1>4, <1>6, <1>7, <1>8, <1>9, <1>10, <1>11, <1>12 DEF MessageInv

(* The calls all remain at first, and are made one after the other. *)
LEMMA RestOfCalls ==
  ASSUME NEW ops, \E S : ops \in Seq(S)
  PROVE  /\ Len(ops) \in Nat /\ IsRest(ops, ops)
         /\ \A rest : IsRest(rest, ops) /\ rest # <<>> =>
              /\ IsRest(Tail(rest), ops)
              /\ Len(rest) \in 1 .. Len(ops) /\ Len(Tail(rest)) = Len(rest) - 1
              /\ Head(rest) = ops[Len(ops) - Len(rest) + 1]
              /\ Tail(rest) = <<>> <=> Len(rest) = 1
<1>1. Len(ops) \in Nat
  OBVIOUS
<1>2. IsRest(ops, ops)
  BY <1>1 DEF IsRest
<1>3. ASSUME NEW rest, IsRest(rest, ops), rest # <<>>
      PROVE  /\ IsRest(Tail(rest), ops)
             /\ Len(rest) \in 1 .. Len(ops) /\ Len(Tail(rest)) = Len(rest) - 1
             /\ Head(rest) = ops[Len(ops) - Len(rest) + 1]
             /\ Tail(rest) = <<>> <=> Len(rest) = 1
  <2>1. PICK S : rest \in Seq(S)
    BY <1>3 DEF IsRest
  <2> DEFINE tail == Tail(rest)
  <2>2. /\ tail \in Seq(S) /\ Len(rest) \in Nat \ {0} /\ Len(tail) = Len(rest) - 1
        /\ \A i \in 1 .. Len(tail) : tail[i] = rest[i + 1]
        /\ Head(rest) = rest[1]
    BY <1>3, <2>1
  <2>3. tail = <<>> <=> Len(tail) = 0
    BY <2>2
  <2> HIDE DEF tail
  <2>4. \A i \in 1 .. Len(rest) : rest[i] = ops[Len(ops) - Len(rest) + i]
    BY <1>3 DEF IsRest
  <2>5. Len(rest) <= Len(ops)
    BY <1>3 DEF IsRest
  <2>6. ASSUME NEW i \in 1 .. Len(tail) PROVE tail[i] = ops[Len(ops) - Len(tail) + i]
    <3>1. i + 1 \in 1 .. Len(rest) /\ Len(ops) - Len(rest) + (i + 1) = Len(ops) - Len(tail) + i
      BY <1>1, <2>2
    <3> QED
      BY <2>2, <2>4, <3>1, Zenon
  <2>7. IsRest(tail, ops)
    BY <1>1, <2>2, <2>5, <2>6 DEF IsRest
  <2>8. rest[1] = ops[Len(ops) - Len(rest) + 1]
    BY <2>2, <2>4
  <2> QED
    BY <1>1, <2>2, <2>3, <2>5, <2>7, <2>8 DEF tail
<1> QED
  BY <1>1, <1>2, <1>3

(* What Receive does with a message that has a handler. *)
LEMMA ReceiveMessages ==
  ASSUME MessageInv, ThreadInv, LogInv, NEW t \in Threads,
         Receive(t, global_node_data), UNCHANGED <<initVars, thread_created>>
  PROVE  /\ MessageInv'
         /\ \/ UNCHANGED <<handling, todo>>
            \/ /\ IsCall(Head(queue[t]))
               /\ handling' = [handling EXCEPT ![t] = Head(queue[t])]
               /\ todo' = [todo EXCEPT ![t] = Operations(global_node_data, Head(queue[t]))]
<1> DEFINE n == Head(queue[t])
           ops == Operations(global_node_data, n)
<1>1. /\ UNCHANGED <<log, applied, listener, library, global_node_data, thread_created>>
      /\ queue' = [queue EXCEPT ![t] = Tail(@)] /\ listener[t] # NULL
  BY DEF Receive, initVars, NULL
<1>2. n \in 1 .. Len(log)
  BY ReceiveLog
<1>3. \/ UNCHANGED <<handling, todo>>
      \/ /\ IsCall(n)
         /\ handling' = [handling EXCEPT ![t] = n] /\ todo' = [todo EXCEPT ![t] = ops]
  <2>1. \/ UNCHANGED <<handling, todo>>
        \/ /\ log[n].ok /\ log[n].name \in DOMAIN global_node_data.stat_to_handler
           /\ handling' = [handling EXCEPT ![t] = n] /\ todo' = [todo EXCEPT ![t] = ops]
    BY DEF Receive
  <2> QED
    BY <1>2, <2>1 DEF IsCall, Names
<1>4. /\ Names' = Names /\ Stats' = Stats /\ \A s : HandlerOf(s)' = HandlerOf(s)
      /\ \A k : (IsCall(k)' <=> IsCall(k))
      /\ \A k : Operations(global_node_data, k)' = Operations(global_node_data, k)
  BY <1>1 DEF Names, HandlerOf, IsCall, Operations, Stats
<1>5. \A u \in Threads : u # t => queue'[u] = queue[u]
  BY <1>1 DEF LogInv
<1> HIDE DEF n, ops
<1>6. CASE UNCHANGED <<handling, todo>>
  <2>1. \A u \in Threads : listener'[u] = NULL => queue'[u] = <<>> /\ todo'[u] = <<>>
    BY <1>1, <1>5, <1>6, Zenon DEF MessageInv
  <2> QED
    BY <1>1, <1>3, <1>4, <1>6, <2>1, SMTT(20) DEF MessageInv, n, ops
<1>7. CASE /\ IsCall(n)
           /\ handling' = [handling EXCEPT ![t] = n] /\ todo' = [todo EXCEPT ![t] = ops]
  <2>1. \E S : ops \in Seq(S)
    BY <1>7, MessageSequence DEF ops
  <2>2. IsRest(ops, ops)
    BY <2>1, RestOfCalls
  <2>3. /\ handling'[t] = n /\ todo'[t] = ops
        /\ \A u \in Threads : u # t => handling'[u] = handling[u] /\ todo'[u] = todo[u]
        /\ DOMAIN todo' = Threads
    BY <1>7, Zenon DEF MessageInv
  <2>4. ASSUME NEW u \in Threads, todo'[u] # <<>>
        PROVE  IsCall(handling[u])' /\ IsRest(todo[u], Operations(global_node_data, handling[u]))'
    <3>1. CASE u = t
      BY <1>4, <1>7, <2>2, <2>3, <3>1 DEF ops, IsRest
    <3>2. CASE u # t
      <4>1. IsCall(handling[u]) /\ IsRest(todo[u], Operations(global_node_data, handling[u]))
        BY <2>3, <2>4, <3>2, Zenon DEF MessageInv
      <4>2. handling'[u] = handling[u] /\ todo'[u] = todo[u]
        BY <2>3, <3>2, Zenon
      <4>3. Operations(global_node_data, handling[u])' = Operations(global_node_data, handling[u])
        BY <1>4, <4>2
      <4> QED
        BY <1>4, <4>1, <4>2, <4>3, Zenon DEF IsRest
    <3> QED
      BY <3>1, <3>2, Zenon
  <2>5. \A u \in Threads : listener'[u] = NULL => queue'[u] = <<>> /\ todo'[u] = <<>>
    BY <1>1, <1>5, <2>3, Zenon DEF MessageInv
  <2>6. handling' \in [Threads -> 0 .. Len(log)]
    BY <1>2, <1>7, SMTT(20) DEF MessageInv, LogInv, n
  <2>7. \A u \in Threads : todo'[u] # <<>> =>
          IsCall(handling[u])' /\ IsRest(todo[u], Operations(global_node_data, handling[u]))'
    BY <2>4, Zenon
  <2>8. /\ Len(log') <= MaxMessages /\ handling' \in [Threads -> 0 .. Len(log')]
        /\ applied' \in [Stats' -> 0 .. Len(log')] /\ (~thread_created' => log' = <<>>)
    <3>1. /\ Len(log) <= MaxMessages /\ applied \in [Stats -> 0 .. Len(log)]
          /\ ~thread_created => log = <<>>
      BY Zenon DEF MessageInv
    <3>2. UNCHANGED <<log, applied, thread_created>> /\ Stats' = Stats
      BY <1>1, <1>4, Zenon
    <3> QED
      BY <2>6, <3>1, <3>2
  <2>9. /\ \A k \in 1 .. Len(log') : IsCall(k)' => log'[k].shape \in Shapes[HandlerOf(log[k].name)'.class]
        /\ \A s \in Stats' : applied'[s] # 0 => IsCall(applied[s])' /\ log'[applied'[s]].name = s
    BY <1>1, <1>4, Zenon DEF MessageInv
  <2>10. MessageInv'
    BY <2>3, <2>5, <2>7, <2>8, <2>9, Zenon DEF MessageInv
  <2> QED
    BY <1>3, <2>10 DEF n, ops
<1> QED
  BY <1>3, <1>6, <1>7

(* The thread makes the next call of its message. *)
LEMMA CallMessages ==
  ASSUME MessageInv, ThreadInv, LogInv, NEW t \in Threads,
         CallTree(t), UNCHANGED <<initVars, thread_created>>
  PROVE  MessageInv'
<1> DEFINE n == handling[t]
           ops == Operations(global_node_data, n)
           s == log[n].name
<1>1. /\ UNCHANGED <<handling, log, queue, listener, library, global_node_data, thread_created>>
      /\ todo[t] # <<>> /\ todo' = [todo EXCEPT ![t] = Tail(@)]
      /\ applied' = applied \/ applied' = [applied EXCEPT ![s] = n]
  BY DEF CallTree, initVars
<1>2. IsCall(n) /\ IsRest(todo[t], ops)
  BY <1>1, Zenon DEF MessageInv
<1>3. n \in 1 .. Len(log) /\ s \in Names /\ s \in Stats
  BY <1>2, NodeDataOfLibrary, Zenon DEF IsCall
<1>4. IsRest(Tail(todo[t]), ops)
  <2>1. \E S : ops \in Seq(S)
    BY <1>2, MessageSequence, Zenon
  <2> QED
    BY <1>1, <1>2, <2>1, RestOfCalls, Zenon
<1>5. /\ Names' = Names /\ Stats' = Stats /\ \A u : HandlerOf(u)' = HandlerOf(u)
      /\ \A k : (IsCall(k)' <=> IsCall(k))
      /\ \A k : Operations(global_node_data, k)' = Operations(global_node_data, k)
  <2>1. Names' = Names /\ Stats' = Stats /\ \A u : HandlerOf(u)' = HandlerOf(u)
    <3>1. UNCHANGED library /\ UNCHANGED global_node_data
      BY <1>1, Zenon
    <3> QED
      BY <3>1, SameStats, SameHandlers, Zenon
  <2>2. \A k : (IsCall(k)' <=> IsCall(k))
    BY <1>1, <2>1 DEF IsCall
  <2>3. \A k : Operations(global_node_data, k)' = Operations(global_node_data, k)
    BY <1>1, Zenon DEF Operations
  <2> QED
    BY <2>1, <2>2, <2>3, Zenon
<1>6. /\ todo'[t] = Tail(todo[t]) /\ DOMAIN todo' = Threads
      /\ \A u \in Threads : u # t => todo'[u] = todo[u]
  BY <1>1, Zenon DEF MessageInv
<1>7. ASSUME NEW u \in Threads, todo'[u] # <<>>
      PROVE  IsCall(handling[u])' /\ IsRest(todo[u], Operations(global_node_data, handling[u]))'
  <2>1. handling'[u] = handling[u]
    BY <1>1
  <2>2. Operations(global_node_data, handling[u])' = Operations(global_node_data, handling[u])
    BY <1>5, <2>1
  <2>3. IsCall(handling[u]) /\ IsRest(todo'[u], Operations(global_node_data, handling[u]))
    <3>1. CASE u = t
      BY <1>2, <1>4, <1>6, <3>1, Zenon
    <3>2. CASE u # t
      BY <1>6, <1>7, <3>2 DEF MessageInv
    <3> QED
      BY <3>1, <3>2
  <2> QED
    BY <1>5, <2>1, <2>2, <2>3, Zenon DEF IsRest
<1> HIDE DEF n, s, ops
<1>8. /\ applied' \in [Stats -> 0 .. Len(log)]
      /\ \A u \in Stats : applied'[u] = applied[u] \/ (u = s /\ applied'[u] = n)
  <2>1. applied \in [Stats -> 0 .. Len(log)]
    BY Zenon DEF MessageInv
  <2>2. n \in 0 .. Len(log)
    BY <1>3
  <2> QED
    BY <1>1, <1>3, <2>1, <2>2, Zenon
<1>9. \A u \in Stats : applied'[u] # 0 => IsCall(applied'[u]) /\ log[applied'[u]].name = u
  BY <1>2, <1>8, Zenon DEF MessageInv, s
<1>10. \A u \in Threads : listener'[u] = NULL => queue'[u] = <<>> /\ todo'[u] = <<>>
  BY <1>1, <1>6, Zenon DEF MessageInv
<1>11. (\A u \in Stats : applied[u] # 0 => IsCall(applied[u]) /\ log[applied[u]].name = u)'
  BY <1>1, <1>5, <1>9
<1>12. \A u \in Threads : todo'[u] # <<>> =>
         IsCall(handling[u])' /\ IsRest(todo[u], Operations(global_node_data, handling[u]))'
  BY <1>7, Zenon
<1>13. /\ Len(log') <= MaxMessages /\ handling' \in [Threads -> 0 .. Len(log')]
       /\ applied' \in [Stats' -> 0 .. Len(log')] /\ (~thread_created' => log' = <<>>)
  BY <1>1, <1>5, <1>8, SMTT(20) DEF MessageInv
<1>14. \A k \in 1 .. Len(log') : IsCall(k)' => log'[k].shape \in Shapes[HandlerOf(log[k].name)'.class]
  BY <1>1, <1>5 DEF MessageInv
<1> QED
  BY <1>6, <1>10, <1>11, <1>12, <1>13, <1>14, Zenon DEF MessageInv

(* Every step keeps the invariant. *)
LEMMA StepMessageInv ==
  MessageInv /\ LogInv /\ ThreadInv /\ [StatsNext]_statsVars => MessageInv'
<1> SUFFICES ASSUME MessageInv, LogInv, ThreadInv, [StatsNext]_statsVars PROVE MessageInv'
  OBVIOUS
<1>1. CASE UNCHANGED statsVars
  BY <1>1, KeptMessages DEF statsVars, listenerVars, threadVars, handlerVars, initVars
<1>2. CASE Aside
  BY <1>2, KeptMessages DEF Aside
<1>3. ASSUME NEW t \in Threads, ListenerStep(t) PROVE MessageInv'
  <2>1. UNCHANGED <<initVars, thread_created>>
    BY <1>3 DEF ListenerStep
  <2>2. CASE connect_and_subscribe(t)
    <3>1. \A u \in Threads : listener'[u] = NULL => listener[u] = NULL
      BY <2>2 DEF connect_and_subscribe, ThreadInv, NULL
    <3> QED
      BY <2>1, <2>2, <3>1, KeptMessages DEF connect_and_subscribe, threadVars, initVars
  <2> QED
    BY <1>3, <2>1, <2>2, ReceiveMessages, CallMessages DEF ListenerStep, handle_requests_forever
<1>4. ASSUME NEW t \in Threads, ZmqError(t), UNCHANGED handlerVars PROVE MessageInv'
  <2>1. UNCHANGED <<handling, todo, log, applied, library, global_node_data, thread_created>>
    BY <1>4 DEF ZmqError, connect_and_subscribe_Fails, zmq_ctx_new_Fails, Receive_Fails,
                threadVars, handlerVars, initVars
  <2>2. listener' = [listener EXCEPT ![t] = "returned"]
    BY <1>4 DEF ZmqError, connect_and_subscribe_Fails, zmq_ctx_new_Fails, Receive_Fails
  <2>3. \A u \in Threads : listener'[u] = NULL => listener[u] = NULL
    BY <2>2 DEF ThreadInv, NULL
  <2>4. queue' = queue \/ queue' = [queue EXCEPT ![t] = <<>>]
    BY <1>4 DEF ZmqError, connect_and_subscribe_Fails, zmq_ctx_new_Fails, Receive_Fails,
                threadVars
  <2>5. \A u \in Threads : queue[u] = <<>> => queue'[u] = <<>>
    BY <2>4 DEF LogInv
  <2> QED
    BY <2>1, <2>3, <2>5, KeptMessages
<1> QED
  BY <1>1, <1>2, <1>3, <1>4, StepCases, InitializeMessages, PublishMessages

ListeningInv == MessageInv /\ LogInv /\ ThreadInv

(* All of it holds of every state. *)
LEMMA Listening == StatsSpec => []ListeningInv
<1>1. MessageInv /\ LogInv /\ ThreadInv => ListeningInv
  BY DEF ListeningInv
<1> QED
  BY <1>1, InitThreadInv, StepThreadInv, InitLogInv, StepLogInv, InitMessageInv,
     StepMessageInv, PTL DEF StatsSpec

-----------------------------------------------------------------------------
(* Messages wait in the order they were published, after the one that is   *)
(* handled, and what was applied is not newer than that.                   *)
OrderInv ==
  \A t \in Threads : listener[t] # NULL =>
    /\ \A i \in DOMAIN queue[t] : /\ handling[t] < queue[t][i]
                                  /\ \A j \in 1 .. i - 1 : queue[t][j] < queue[t][i]
    /\ \A s \in Stats : /\ applied[s] <= handling[t]
                        /\ todo[t] # <<>> => applied[s] < handling[t]

(* Initially there is no thread. *)
LEMMA InitOrderInv == StatsInit => OrderInv
BY DEF StatsInit, ListenerInit, OrderInv, NULL

(* Steps that leave messages alone. *)
LEMMA KeptOrder ==
  ASSUME OrderInv, UNCHANGED <<queue, handling, todo, applied, library>>,
         \A t \in Threads : listener'[t] # NULL => listener[t] # NULL
  PROVE  OrderInv'
BY Zenon DEF OrderInv, Stats

(* A thread is created before there are messages. *)
LEMMA CreateOrder ==
  ASSUME OrderInv, ListeningInv, NEW r, CreateThread(r)
  PROVE  OrderInv'
<1>1. UNCHANGED <<queue, handling, todo, applied, library>>
  BY DEF CreateThread, threadVars, initVars
<1>2. CASE UNCHANGED listener
  BY <1>1, <1>2, KeptOrder
<1>3. ASSUME ~thread_created, NEW t \in Threads, listener' = [listener EXCEPT ![t] = "connecting"]
      PROVE  OrderInv'
  <2>1. log = <<>> /\ Len(log) = 0 /\ \A u \in Threads : listener[u] = NULL
    BY <1>3 DEF ListeningInv, MessageInv, ThreadInv
  <2>2. \A u \in Threads : queue[u] = <<>> /\ todo[u] = <<>> /\ handling[u] = 0
    BY <2>1 DEF ListeningInv, MessageInv
  <2>3. \A s \in Stats : applied[s] = 0
    BY <2>1 DEF ListeningInv, MessageInv
  <2> QED
    BY <1>1, <2>2, <2>3 DEF OrderInv, Stats
<1> QED
  BY <1>2, <1>3 DEF CreateThread, MayCreate

(* A new message is newer than all others. *)
LEMMA PublishOrder ==
  ASSUME OrderInv, ListeningInv, NEW m, Publish(global_node_data, m), UNCHANGED handlerVars
  PROVE  OrderInv'
<1>1. UNCHANGED <<listener, handling, todo, applied, library>>
  BY Zenon DEF Publish, handlerVars, initVars
<1>2. PICK got \in SUBSET {t \in Threads : listener[t] = "receiving"} :
        queue' = [t \in Threads |-> IF t \in got THEN Append(queue[t], Len(log) + 1)
                                    ELSE queue[t]]
  BY Zenon DEF Publish
<1>3. ASSUME NEW t \in Threads, listener[t] # NULL, NEW i \in DOMAIN queue'[t]
      PROVE  handling[t] < queue'[t][i] /\ \A j \in 1 .. i - 1 : queue'[t][j] < queue'[t][i]
  <2>1. /\ queue[t] \in Seq(1 .. Len(log)) /\ Len(log) \in Nat /\ handling[t] \in 0 .. Len(log)
    BY LogLength, Zenon DEF ListeningInv, LogInv, MessageInv
  <2>2. \A j \in DOMAIN queue[t] : /\ handling[t] < queue[t][j]
                                   /\ \A l \in 1 .. j - 1 : queue[t][l] < queue[t][j]
    BY <1>3 DEF OrderInv
  <2>3. CASE t \notin got
    BY <1>2, <1>3, <2>2, <2>3, Zenon
  <2>4. CASE t \in got
    <3>1. queue'[t] = Append(queue[t], Len(log) + 1)
      BY <1>2, <2>4
    <3>2. /\ Len(queue[t]) \in Nat /\ DOMAIN queue[t] = 1 .. Len(queue[t])
          /\ i \in 1 .. Len(queue[t]) + 1
          /\ \A j \in 1 .. Len(queue[t]) : queue'[t][j] = queue[t][j] /\ queue[t][j] \in 1 .. Len(log)
          /\ queue'[t][Len(queue[t]) + 1] = Len(log) + 1
      BY <1>3, <2>1, <3>1
    <3>3. CASE i = Len(queue[t]) + 1
      BY <2>1, <3>2, <3>3, SMTT(20)
    <3>4. CASE i # Len(queue[t]) + 1
      <4>1. i \in 1 .. Len(queue[t]) /\ \A j \in 1 .. i - 1 : j \in 1 .. Len(queue[t])
        BY <3>2, <3>4
      <4> QED
        BY <2>2, <3>2, <4>1
    <3> QED
      BY <3>3, <3>4, Zenon
  <2> QED
    BY <2>3, <2>4
<1> QED
  BY <1>1, <1>3, Zenon DEF OrderInv, Stats

(* The thread takes the oldest message. *)
LEMMA ReceiveOrder ==
  ASSUME OrderInv, ListeningInv, NEW t \in Threads,
         Receive(t, global_node_data), UNCHANGED <<initVars, thread_created>>
  PROVE  OrderInv'
<1>1. /\ UNCHANGED <<listener, applied, library>> /\ listener[t] # NULL /\ todo[t] = <<>>
      /\ queue[t] # <<>> /\ queue' = [queue EXCEPT ![t] = Tail(@)]
  BY Zenon DEF Receive, initVars, NULL
<1>2. \A u \in Threads : u # t => listener[u] = NULL
  BY <1>1 DEF ListeningInv, ThreadInv, OneListener
<1>3. PICK q : /\ q = queue[t] /\ q \in Seq(1 .. Len(log)) /\ q # <<>> /\ queue'[t] = Tail(q)
  BY <1>1 DEF ListeningInv, LogInv
<1>4. Len(log) \in Nat /\ handling[t] \in 0 .. Len(log)
  BY LogLength DEF ListeningInv, MessageInv
<1>5. /\ Len(q) \in Nat /\ Len(q) # 0 /\ DOMAIN q = 1 .. Len(q) /\ 1 \in DOMAIN q
      /\ Head(q) = q[1] /\ Head(q) \in 1 .. Len(log)
      /\ \A i \in DOMAIN Tail(q) : /\ i \in Nat \ {0} /\ i + 1 \in DOMAIN q
                                   /\ Tail(q)[i] = q[i + 1] /\ q[i + 1] \in 1 .. Len(log)
                                   /\ \A j \in 1 .. i - 1 : j \in DOMAIN Tail(q)
  <2>1. /\ Len(q) \in Nat /\ Len(q) # 0 /\ DOMAIN q = 1 .. Len(q) /\ Head(q) = q[1]
        /\ \A i \in 1 .. Len(q) : q[i] \in 1 .. Len(log)
    BY <1>3
  <2>2. /\ DOMAIN Tail(q) = 1 .. Len(q) - 1
        /\ \A i \in 1 .. Len(q) - 1 : Tail(q)[i] = q[i + 1]
    BY <1>3
  <2>3. \A i \in 1 .. Len(q) - 1 : /\ i \in Nat \ {0} /\ i + 1 \in 1 .. Len(q)
                                   /\ \A j \in 1 .. i - 1 : j \in 1 .. Len(q) - 1
    BY <2>1
  <2>4. 1 \in 1 .. Len(q)
    BY <2>1
  <2> QED
    BY <2>1, <2>2, <2>3, <2>4
<1>6. /\ \A i \in DOMAIN q : /\ handling[t] < q[i]
                             /\ \A j \in 1 .. i - 1 : q[j] < q[i]
      /\ \A s \in Stats : applied[s] <= handling[t]
  BY <1>1, <1>3, Zenon DEF OrderInv
<1>7. \A i \in DOMAIN Tail(q) : /\ Head(q) < Tail(q)[i] /\ handling[t] < Tail(q)[i]
                                /\ \A j \in 1 .. i - 1 : Tail(q)[j] < Tail(q)[i]
  <2> SUFFICES ASSUME NEW i \in DOMAIN Tail(q)
               PROVE  /\ Head(q) < Tail(q)[i] /\ handling[t] < Tail(q)[i]
                      /\ \A j \in 1 .. i - 1 : Tail(q)[j] < Tail(q)[i]
    OBVIOUS
  <2>1. 1 \in 1 .. i + 1 - 1 /\ \A j \in 1 .. i - 1 : j + 1 \in 1 .. i + 1 - 1
    BY <1>5
  <2> QED
    BY <1>5, <1>6, <2>1
<1>8. handling[t] < Head(q)
  BY <1>5, <1>6
<1>9. \A s \in Stats : applied[s] \in Nat
  <2>1. applied \in [Stats -> 0 .. Len(log)]
    BY <1>4, Zenon DEF ListeningInv, MessageInv
  <2>2. 0 .. Len(log) \subseteq Nat
    OBVIOUS
  <2> QED
    BY <2>1, <2>2, Zenon
<1>10. \A s \in Stats : applied[s] < Head(q)
  BY <1>4, <1>5, <1>6, <1>8, <1>9
<1>11. \/ UNCHANGED <<handling, todo>>
       \/ handling'[t] = Head(q)
  BY <1>3, ReceiveMessages, Zenon DEF ListeningInv, MessageInv
<1>12. /\ \A i \in DOMAIN queue'[t] : /\ handling'[t] < queue'[t][i]
                                      /\ \A j \in 1 .. i - 1 : queue'[t][j] < queue'[t][i]
       /\ \A s \in Stats : /\ applied[s] <= handling'[t]
                           /\ todo'[t] # <<>> => applied[s] < handling'[t]
  <2>1. CASE UNCHANGED <<handling, todo>>
    BY <1>1, <1>3, <1>6, <1>7, <2>1, Zenon
  <2>2. CASE handling'[t] = Head(q)
    <3>1. \A s \in Stats : applied[s] <= Head(q)
      BY <1>5, <1>9, <1>10
    <3> QED
      BY <1>3, <1>7, <1>10, <2>2, <3>1, Zenon
  <2> QED
    BY <1>11, <2>1, <2>2, Zenon
<1> QED
  BY <1>1, <1>2, <1>12, Zenon DEF OrderInv, Stats

(* What is applied last is the message that is handled. *)
LEMMA CallOrder ==
  ASSUME OrderInv, ListeningInv, NEW t \in Threads, CallTree(t), UNCHANGED initVars
  PROVE  OrderInv'
<1>1. PICK n, s : n = handling[t] /\ s = log[n].name
  OBVIOUS
<1>2. /\ UNCHANGED <<queue, handling, listener, library>> /\ todo[t] # <<>>
      /\ n = handling[t] /\ s \in Stats
      /\ todo'[t] # <<>> => applied' = applied
      /\ applied' = applied \/ applied' = [applied EXCEPT ![s] = n]
  <2>1. /\ UNCHANGED <<queue, handling, listener, library>> /\ todo[t] # <<>>
        /\ todo' = [todo EXCEPT ![t] = Tail(@)]
        /\ applied' = IF Len(todo[t]) = 1 THEN [applied EXCEPT ![s] = n] ELSE applied
    BY <1>1, Zenon DEF CallTree, initVars
  <2>2. IsCall(n) /\ \E S : todo[t] \in Seq(S)
    BY <1>1, <2>1, Zenon DEF ListeningInv, MessageInv, IsRest
  <2>3. s \in Stats
    BY <1>1, <2>2, NodeDataOfLibrary DEF ListeningInv, IsCall
  <2>4. todo'[t] = Tail(todo[t])
    BY <2>1, Zenon DEF ListeningInv, MessageInv
  <2>5. Len(todo[t]) = 1 => Tail(todo[t]) = <<>>
    <3>1. PICK rest : rest = todo[t] /\ \E S : rest \in Seq(S)
      BY <2>2
    <3>2. rest # <<>> => Tail(rest) = <<>> <=> Len(rest) = 1
      BY <3>1, RestOfCalls
    <3> QED
      BY <2>1, <3>1, <3>2
  <2> QED
    BY <1>1, <2>1, <2>3, <2>4, <2>5, Zenon
<1>3. Stats' = Stats /\ DOMAIN applied = Stats
  <2>1. UNCHANGED library /\ applied \in [Stats -> 0 .. Len(log)]
    BY <1>2, Zenon DEF ListeningInv, MessageInv
  <2> QED
    BY <2>1, SameStats, Zenon
<1>4. listener[t] # NULL
  BY <1>2, Zenon DEF ListeningInv, MessageInv
<1>5. \A u \in Threads : u # t => listener[u] = NULL
  <2>1. OneListener
    BY Zenon DEF ListeningInv, ThreadInv
  <2> QED
    BY <1>4, <2>1 DEF OneListener
<1>6. \A u \in Stats : /\ applied[u] < n /\ applied[u] <= n /\ applied'[u] <= n
                       /\ todo'[t] # <<>> => applied'[u] < n
  <2>1. n \in Nat
    <3>1. PICK L \in Nat : L = Len(log)
      BY LogLength, Zenon DEF ListeningInv
    <3>2. handling \in [Threads -> 0 .. L]
      BY <3>1, Zenon DEF ListeningInv, MessageInv
    <3> QED
      BY <1>2, <3>1, <3>2
  <2>2. \A u \in Stats : applied[u] < n /\ applied[u] <= n
    BY <1>2, <1>4 DEF OrderInv
  <2> QED
    BY <1>2, <1>3, <2>1, <2>2
<1>7. \A i \in DOMAIN queue[t] : /\ n < queue[t][i]
                                 /\ \A j \in 1 .. i - 1 : queue[t][j] < queue[t][i]
  BY <1>2, <1>4 DEF OrderInv
<1>8. \A u \in Threads : listener'[u] # NULL => u = t
  BY <1>2, <1>5
<1>9. /\ \A i \in DOMAIN queue'[t] : /\ handling'[t] < queue'[t][i]
                                     /\ \A j \in 1 .. i - 1 : queue'[t][j] < queue'[t][i]
      /\ \A u \in Stats' : /\ applied'[u] <= handling'[t]
                           /\ todo'[t] # <<>> => applied'[u] < handling'[t]
  BY <1>2, <1>3, <1>6, <1>7
<1> QED
  BY <1>8, <1>9, Zenon DEF OrderInv

(* Every step keeps the order. *)
LEMMA StepOrderInv == OrderInv /\ ListeningInv /\ [StatsNext]_statsVars => OrderInv'
<1> SUFFICES ASSUME OrderInv, ListeningInv, [StatsNext]_statsVars
             PROVE  OrderInv'
  OBVIOUS
<1>1. UNCHANGED <<queue, handling, todo, applied, library, listener>> => OrderInv'
  BY KeptOrder
<1>2. ASSUME NEW r \in DOMAIN request,
             BeginRequest(r) \/ CheckAge(r) \/ EndRequest(r) \/ Get(r) \/ GetNext(r)
      PROVE  OrderInv'
  BY <1>1, <1>2 DEF BeginRequest, CheckAge, EndRequest, Get, GetNext, listenerVars, threadVars,
                    initVars
<1>3. initialize_handler \/ BeginWalk \/ UNCHANGED statsVars \/ (Second /\ UNCHANGED handlerVars)
        => OrderInv'
  BY <1>1, Zenon DEF initialize_handler, BeginWalk, Second, statsVars, listenerVars, threadVars,
              handlerVars, initVars
<1>4. ASSUME NEW t \in Threads, ZmqError(t), UNCHANGED handlerVars PROVE OrderInv'
  <2>1. UNCHANGED <<handling, todo, applied, library>> /\ listener[t] # NULL
    BY <1>4 DEF ZmqError, connect_and_subscribe_Fails, zmq_ctx_new_Fails, Receive_Fails,
                threadVars, handlerVars, initVars, NULL
  <2>2. \A u \in Threads : listener'[u] # NULL => listener[u] # NULL
    BY <1>4, <2>1, Zenon DEF ZmqError, connect_and_subscribe_Fails, zmq_ctx_new_Fails, Receive_Fails,
                      ListeningInv, ThreadInv
  <2>3. CASE UNCHANGED queue
    BY <2>1, <2>2, <2>3, KeptOrder
  <2>4. CASE queue' = [queue EXCEPT ![t] = <<>>]
    <3>1. queue'[t] = <<>> /\ \A u \in Threads : u # t => listener[u] = NULL
      BY <2>1, <2>4, Zenon DEF ListeningInv, LogInv, ThreadInv, OneListener
    <3>2. \A i \in DOMAIN queue'[t] : FALSE
      BY <3>1
    <3>3. Stats' = Stats
      BY <2>1, Zenon DEF Stats
    <3>4. ASSUME NEW u \in Threads, listener'[u] # NULL PROVE u = t /\ listener[t] # NULL
      BY <2>1, <2>2, <3>1, <3>4, Zenon
    <3> QED
      BY <2>1, <3>2, <3>3, <3>4, Zenon DEF OrderInv
  <2> QED
    BY <1>4, <2>3, <2>4 DEF ZmqError, connect_and_subscribe_Fails, zmq_ctx_new_Fails,
                            Receive_Fails, threadVars
<1>5. ASSUME NEW t \in Threads, ListenerStep(t) PROVE OrderInv'
  <2>1. UNCHANGED <<initVars, thread_created>>
    BY <1>5 DEF ListenerStep
  <2>2. CASE connect_and_subscribe(t)
    <3>1. UNCHANGED <<queue, handling, todo, applied, library>> /\ listener[t] # NULL
      BY <2>1, <2>2 DEF connect_and_subscribe, threadVars, initVars, NULL
    <3>2. \A u \in Threads : listener'[u] # NULL => listener[u] # NULL
      BY <2>2, <3>1 DEF connect_and_subscribe, ListeningInv, ThreadInv
    <3> QED
      BY <3>1, <3>2, KeptOrder
  <2> QED
    BY <1>5, <2>1, <2>2, ReceiveOrder, CallOrder DEF ListenerStep, handle_requests_forever
<1> QED
  BY <1>2, <1>3, <1>4, <1>5, CreateOrder, PublishOrder DEF StatsNext, Request, Environment

(* The order holds in every state. *)
LEMMA Ordered == StatsSpec => []OrderInv
BY InitOrderInv, StepOrderInv, Listening, PTL DEF StatsSpec

-----------------------------------------------------------------------------
(* The types of the variables the invariants above say nothing about. *)
OwnTypeOK ==
  /\ initialised \in 0 .. Len(library)
  /\ registered \subseteq {library[i] : i \in 1 .. initialised}
  /\ global_node_data \in {library[i] : i \in 1 .. initialised} \cup {NoNode}
  /\ ctx_failed \in BOOLEAN /\ crashed \in BOOLEAN
  /\ age \in 0 .. TIMEOUT_THRESHOLD
  /\ listener \in [Threads -> {NULL, "connecting", "receiving", "returned"}]
  /\ request \in [DOMAIN request -> {"idle", "locking", "checking", "reading"}]

(* Initially they have their types. *)
LEMMA InitOwnType == StatsInit => OwnTypeOK
<1> SUFFICES ASSUME StatsInit PROVE OwnTypeOK
  OBVIOUS
<1>1. /\ initialised = 0 /\ registered = {} /\ global_node_data = NoNode
      /\ ctx_failed = FALSE /\ crashed = FALSE /\ age = TIMEOUT_THRESHOLD
      /\ listener = [t \in Threads |-> NULL]
  BY DEF StatsInit, ListenerInit
<1>2. Len(library) \in Nat
  BY InitThreadInv, LibraryLength
<1>3. request \in [DOMAIN request -> {"idle", "locking", "checking", "reading"}]
  BY DEF StatsInit
<1>4. /\ TIMEOUT_THRESHOLD \in 0 .. TIMEOUT_THRESHOLD /\ 0 \in 0 .. Len(library)
  BY <1>2, StatsAssumption DEF StatsAssumption
<1>5. ctx_failed \in BOOLEAN /\ crashed \in BOOLEAN
  BY <1>1, Zenon
<1>6. listener \in [Threads -> {NULL, "connecting", "receiving", "returned"}]
  BY <1>1
<1> QED
  BY <1>1, <1>3, <1>4, <1>5, <1>6 DEF OwnTypeOK

(* Every step keeps them. *)
LEMMA StepOwnType == OwnTypeOK /\ ThreadInv /\ [StatsNext]_statsVars => OwnTypeOK'
<1> SUFFICES ASSUME OwnTypeOK, ThreadInv, [StatsNext]_statsVars PROVE OwnTypeOK'
  OBVIOUS
<1>1. ASSUME UNCHANGED <<initVars, request>>,
             /\ ctx_failed' \in BOOLEAN /\ crashed' \in BOOLEAN /\ age' \in 0 .. TIMEOUT_THRESHOLD
             /\ listener' \in [Threads -> {NULL, "connecting", "receiving", "returned"}]
      PROVE  OwnTypeOK'
  BY <1>1 DEF OwnTypeOK, initVars
<1>2. ASSUME UNCHANGED <<listenerVars, initVars>>,
             request' \in [DOMAIN request' -> {"idle", "locking", "checking", "reading"}]
      PROVE  OwnTypeOK'
  BY <1>2 DEF OwnTypeOK, initVars, listenerVars
<1>3. CASE UNCHANGED statsVars
  BY <1>2, <1>3 DEF OwnTypeOK, statsVars, handlerVars
<1>4. CASE initialize_handler
  <2>1. Len(library) \in Nat /\ initialised \in 0 .. Len(library) /\ initialised < Len(library)
    BY <1>4, LibraryLength DEF initialize_handler, OwnTypeOK
  <2>2. initialised + 1 \in 0 .. Len(library) /\ initialised + 1 \in 1 .. initialised + 1
        /\ 1 .. initialised \subseteq 1 .. initialised + 1
    BY <2>1
  <2>3. /\ initialised' = initialised + 1 /\ age' = TIMEOUT_THRESHOLD
        /\ UNCHANGED <<library, listener, request, ctx_failed, crashed>>
    BY <1>4 DEF initialize_handler
  <2>4. registered' \subseteq registered \cup {library[initialised + 1]}
    BY <1>4 DEF initialize_handler
  <2>5. global_node_data' \in {global_node_data, library[initialised + 1]}
    BY <1>4 DEF initialize_handler
  <2>6. TIMEOUT_THRESHOLD \in 0 .. TIMEOUT_THRESHOLD
    BY StatsAssumption DEF StatsAssumption
  <2>7. {library[i] : i \in 1 .. initialised} \cup {library[initialised + 1]}
          \subseteq {library[i] : i \in 1 .. initialised + 1}
    BY <2>2
  <2> QED
    BY <2>2, <2>3, <2>4, <2>5, <2>6, <2>7 DEF OwnTypeOK
<1>5. ASSUME NEW r \in DOMAIN request, NEW v \in {"idle", "locking", "checking", "reading"},
             request' = [request EXCEPT ![r] = v], UNCHANGED <<listenerVars, initVars>>
      PROVE  OwnTypeOK'
  BY <1>2, <1>5 DEF OwnTypeOK
<1>6. ASSUME NEW r \in DOMAIN request, BeginRequest(r) \/ CheckAge(r) \/ EndRequest(r)
      PROVE  OwnTypeOK'
  BY <1>5, <1>6 DEF BeginRequest, CheckAge, EndRequest, Checked
<1>7. ASSUME NEW r \in DOMAIN request, Get(r) \/ GetNext(r) PROVE OwnTypeOK'
  BY <1>2, <1>7 DEF OwnTypeOK, Get, GetNext
<1>8. CASE BeginWalk
  BY <1>2, <1>8 DEF OwnTypeOK, BeginWalk
<1>9. ASSUME NEW r \in DOMAIN request, CreateThread(r) PROVE OwnTypeOK'
  <2>1. request' \in [DOMAIN request' -> {"idle", "locking", "checking", "reading"}]
    BY <1>9 DEF OwnTypeOK, CreateThread
  <2>2. listener' \in [Threads -> {NULL, "connecting", "receiving", "returned"}]
    BY <1>9 DEF OwnTypeOK, CreateThread
  <2> QED
    BY <1>9, <2>1, <2>2 DEF OwnTypeOK, CreateThread, initVars
<1>10. ASSUME NEW t \in Threads, ListenerStep(t) PROVE OwnTypeOK'
  <2>1. UNCHANGED <<initVars, request, ctx_failed>>
    BY <1>10 DEF ListenerStep, handle_requests_forever, connect_and_subscribe, Receive, CallTree
  <2>2. listener' \in [Threads -> {NULL, "connecting", "receiving", "returned"}]
    BY <1>10 DEF ListenerStep, handle_requests_forever, connect_and_subscribe, Receive, CallTree,
                 OwnTypeOK
  <2>3. age' \in {age, 0} /\ crashed' \in {crashed, TRUE}
    BY <1>10, Zenon
       DEF ListenerStep, handle_requests_forever, connect_and_subscribe, Receive, CallTree
  <2>4. age' \in 0 .. TIMEOUT_THRESHOLD
    BY <2>3, StatsAssumption DEF OwnTypeOK, StatsAssumption
  <2>5. ctx_failed' \in BOOLEAN /\ crashed' \in BOOLEAN
    BY <2>1, <2>3, Zenon DEF OwnTypeOK
  <2> QED
    BY <1>1, <2>1, <2>2, <2>4, <2>5
<1>11. ASSUME UNCHANGED handlerVars, NEW t \in Threads, ZmqError(t) PROVE OwnTypeOK'
  BY <1>1, <1>11, Zenon DEF handlerVars, ZmqError, connect_and_subscribe_Fails, zmq_ctx_new_Fails,
                            Receive_Fails, OwnTypeOK
<1>12. ASSUME UNCHANGED handlerVars, NEW m, Publish(global_node_data, m) PROVE OwnTypeOK'
  BY <1>1, <1>12 DEF handlerVars, Publish, OwnTypeOK
<1>13. ASSUME UNCHANGED handlerVars, Second PROVE OwnTypeOK'
  <2>1. age' \in 0 .. TIMEOUT_THRESHOLD
    BY <1>13, StatsAssumption DEF Second, OwnTypeOK, StatsAssumption
  <2> QED
    BY <1>1, <1>13, <2>1 DEF handlerVars, Second, OwnTypeOK
<1> QED
  BY <1>3, <1>4, <1>6, <1>7, <1>8, <1>9, <1>10, <1>11, <1>12, <1>13
     DEF StatsNext, Request, Environment

(* The types hold in every state. *)
LEMMA OwnTypes == StatsSpec => []OwnTypeOK
<1>1. ListeningInv => ThreadInv
  BY DEF ListeningInv
<1> QED
  BY <1>1, InitOwnType, StepOwnType, Listening, PTL DEF StatsSpec
=============================================================================
