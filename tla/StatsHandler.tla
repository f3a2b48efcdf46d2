---------------------------- MODULE StatsHandler ----------------------------
(***************************************************************************)
(* A statistics library inside snmpd: its initialisation, requests, which  *)
(* create the listener thread and read the tree, composed with the thread. *)
(* Each variable of a request is a step.                                   *)
(***************************************************************************)
EXTENDS ZMQListener

CONSTANT Requesters   \* the threads that may be inside clearwater_handler

VARIABLES
  library, initialised,  \* what is initialised, and how much of it has been
  registered,            \* the node data whose root OID is registered
  global_node_data,
  thread_created,
  request,               \* where each requester is
  walk,                  \* a manager's walk of the tree by GETNEXT
  answered               \* the message the last answer came from

initVars    == <<library, initialised, registered, global_node_data>>
handlerVars == <<initVars, thread_created, request, walk, answered>>
statsVars   == <<listenerVars, handlerVars>>

NoNode == [root_oid |-> <<>>, stats |-> {}, stat_to_handler |-> EmptyMap]
NoWalk == [on |-> FALSE, at |-> <<>>, due |-> {}]
Stats == UNION {library[i].stats : i \in DOMAIN library}

StatsInit ==
  /\ \E i \in Instances : /\ library = i.library
                          /\ request = [r \in i.requesters |-> "idle"]
  /\ ListenerInit(Stats)
  /\ initialised = 0
  /\ registered = {}
  /\ global_node_data = NoNode
  /\ thread_created = FALSE
  /\ walk = NoWalk
  /\ answered = [s \in Stats |-> 0]

(* snmpd calls the library's init function before it takes requests.  The  *)
(* registration may not be allocated, which leaves global_node_data, or    *)
(* may fail, which nobody looks at.                                        *)
initialize_handler ==
  /\ initialised < Len(library)
  /\ initialised' = initialised + 1
  /\ thread_created' = FALSE
  /\ age' = TIMEOUT_THRESHOLD
  /\ \/ /\ registered' \in {registered, registered \cup {library[initialised + 1]}}
        /\ global_node_data' = library[initialised + 1]
     \/ UNCHANGED <<registered, global_node_data>>
  /\ UNCHANGED <<library, tree, listener, threadVars, log, request, walk,
                 applied, answered, ctx_failed, crashed>>

-----------------------------------------------------------------------------
(* clearwater_handler. *)

(* Slip: data that was up to date once stays so. *)
up_to_date_Ever == \E s \in Stats : applied[s] # 0

up_to_date == age < TIMEOUT_THRESHOLD

Checked == IF up_to_date THEN "reading" ELSE "idle"

(* A request below a registered root.  A flag that is set stays set, so    *)
(* the age is read in the same step.                                       *)
BeginRequest(r) ==
  /\ initialised = Len(library)
  /\ registered # {}
  /\ request[r] = "idle"
  /\ request' = [request EXCEPT ![r] = IF ~thread_created THEN "locking"
                                       ELSE Checked]
  /\ UNCHANGED <<listenerVars, initVars, thread_created, walk, answered>>

(* Slip: the flag is not read again under the lock. *)
MayCreate_Unchecked == TRUE

MayCreate == ~thread_created

(* Under thread_creation_lock.  The result of pthread_create is ignored. *)
CreateThread(r) ==
  /\ request[r] = "locking"
  /\ request' = [request EXCEPT ![r] = "checking"]
  /\ \/ /\ MayCreate
        /\ thread_created' = TRUE
        /\ \/ \E t \in Threads :
                /\ \A u \in Threads : listener[u] = NULL <=> u >= t
                /\ listener' = [listener EXCEPT ![t] = "connecting"]
           \/ UNCHANGED listener
     \/ /\ ~MayCreate
        /\ UNCHANGED <<thread_created, listener>>
  /\ UNCHANGED <<age, tree, threadVars, log, applied, ctx_failed, crashed,
                 initVars, walk, answered>>

CheckAge(r) ==
  /\ request[r] = "checking"
  /\ request' = [request EXCEPT ![r] = Checked]
  /\ UNCHANGED <<listenerVars, initVars, thread_created, walk, answered>>

StatOf(o) ==
  CHOOSE s \in DOMAIN global_node_data.stat_to_handler :
    Owns(global_node_data.stat_to_handler[s], o)

(* Slip: the int is answered with its sign. *)
retval_Signed(outval) == outval

(* The int is answered as an unsigned of the same bits. *)
retval(outval) == outval % WORD

Answer(o) == answered' = [answered EXCEPT ![StatOf(o)] = MessageOf(retval(get(tree, o)))]

(* MODE_GET of a variable; one that is not in the tree is left as it is. *)
Get(r) ==
  /\ request[r] = "reading"
  /\ \E o \in DOMAIN tree : Answer(o)
  /\ UNCHANGED <<listenerVars, initVars, thread_created, request, walk>>

(* What is in the tree and is no longer when the operations ops are done. *)
Dropped(ops) ==
  {k \in DOMAIN tree : \E i \in DOMAIN ops :
     /\ Removes(ops[i], k)
     /\ \A j \in i + 1 .. Len(ops) : \A p \in Puts(ops[j]) : p[1] # k}

(* A manager begins a walk; each of its requests is for the OID after the  *)
(* last answer.  Due is what the walk must still meet.                     *)
BeginWalk ==
  /\ ~walk.on
  /\ tree # EmptyMap
  /\ walk' = [on |-> TRUE, at |-> <<>>,
              due |-> DOMAIN tree \ UNION {Dropped(todo[t]) : t \in Threads}]
  /\ UNCHANGED <<listenerVars, initVars, thread_created, request, answered>>

(* MODE_GETNEXT *)
GetNext(r) ==
  /\ request[r] = "reading"
  /\ walk.on
  /\ \/ /\ after(tree, walk.at) = {}
        /\ walk' = [walk EXCEPT !.on = FALSE]
        /\ UNCHANGED answered
     \/ /\ after(tree, walk.at) # {}
        /\ LET o == get_next(tree, walk.at)
           IN  /\ walk' = [on |-> TRUE, at |-> o, due |-> walk.due \ {o}]
               /\ Answer(o)
  /\ UNCHANGED <<listenerVars, initVars, thread_created, request>>

(* The request has no more variables. *)
EndRequest(r) ==
  /\ request[r] = "reading"
  /\ request' = [request EXCEPT ![r] = "idle"]
  /\ UNCHANGED <<listenerVars, initVars, thread_created, walk, answered>>

-----------------------------------------------------------------------------
(* A walk need not meet what a message it overlaps with takes away. *)
ListenerStep(t) ==
  /\ handle_requests_forever(t, global_node_data)
  /\ walk' = [walk EXCEPT !.due =
                IF todo[t] = <<>> /\ @ # {} THEN @ \ Dropped(todo'[t]) ELSE @]
  /\ UNCHANGED <<initVars, thread_created, request, answered>>

Messages ==
  UNION {[name : {s}, ok : {TRUE},
          shape : Shapes[global_node_data.stat_to_handler[s].class]] :
            s \in DOMAIN global_node_data.stat_to_handler}

(* Messages that are not "OK", or of a statistic without a handler, such   *)
(* as another one whose name begins like one of this node.                 *)
OtherMessages ==
  [name : {CHOOSE s \in global_node_data.stats : TRUE}, ok : {FALSE}, shape : {NULL}] \cup
  [name : (global_node_data.stats \cup {e[2] : e \in Extensions})
            \ DOMAIN global_node_data.stat_to_handler,
   ok : {TRUE}, shape : {NULL}]

Environment ==
  \/ /\ global_node_data # NoNode
     /\ \E m \in Messages \cup OtherMessages : Publish(global_node_data, m)
  \/ \E t \in Threads : ZmqError(t)

Request(r) == CreateThread(r) \/ CheckAge(r) \/ EndRequest(r)

StatsNext ==
  \/ /\ ~crashed
     /\ \/ initialize_handler
        \/ \E r \in DOMAIN request :
             BeginRequest(r) \/ Request(r) \/ Get(r) \/ GetNext(r)
        \/ BeginWalk
        \/ \E t \in Threads : ListenerStep(t)
        \/ Environment /\ UNCHANGED handlerVars
        \/ Second /\ UNCHANGED handlerVars
  \/ /\ crashed \/ (initialised = Len(library) /\ registered = {})
     /\ UNCHANGED statsVars

(* The listener thread runs, requests that were begun get on and end, as   *)
(* they have finitely many variables, and time passes.                     *)
StatsSpec ==
  /\ StatsInit
  /\ [][StatsNext]_statsVars
  /\ \A t \in Threads : WF_statsVars(~crashed /\ ListenerStep(t))
  /\ \A r \in Requesters :
       WF_statsVars(~crashed /\ r \in DOMAIN request /\ Request(r))
  /\ WF_statsVars(~crashed /\ Second /\ UNCHANGED handlerVars)

-----------------------------------------------------------------------------
(* Every variable keeps to its type; in particular what the handlers put   *)
(* into the tree fits an int.                                              *)
StatsTypeOK ==
  /\ library \in {i.library : i \in Instances} /\ initialised \in 0 .. Len(library)
  /\ registered \subseteq {library[i] : i \in 1 .. initialised}
  /\ global_node_data \in {library[i] : i \in 1 .. initialised} \cup {NoNode}
  /\ thread_created \in BOOLEAN /\ ctx_failed \in BOOLEAN /\ crashed \in BOOLEAN
  /\ age \in 0 .. TIMEOUT_THRESHOLD
  /\ \A k \in DOMAIN tree : tree[k] \in int
  /\ listener \in [Threads -> {NULL, "connecting", "receiving", "returned"}]
  /\ \A t \in Threads : Range(queue[t]) \cup {handling[t]} \subseteq 0 .. Len(log)
  /\ request \in [DOMAIN request -> {"idle", "locking", "checking", "reading"}]
  /\ applied \in [Stats -> 0 .. Len(log)]
  /\ answered \in [Stats -> 0 .. Len(log)]

Handling(s) ==
  \E t \in Threads : todo[t] # <<>> /\ log[handling[t]].name = s

(* The calls of the last message of statistic s that was applied. *)
LastCalls(s) ==
  IF applied[s] = 0 THEN <<>> ELSE Operations(global_node_data, applied[s])

(* What the tree holds for statistic s. *)
Held(s) ==
  {<<k, tree[k]>> :
     k \in {o \in DOMAIN tree : Owns(global_node_data.stat_to_handler[s], o)}}

(* "update the statistics structs with that information": when no message  *)
(* of a statistic is being applied, the tree holds for it exactly what the *)
(* calls for its last message put there: nothing of earlier messages, of   *)
(* longer tables, or of other statistics, and nothing belongs to nobody.   *)
TreeIsLatest ==
  /\ \A k \in DOMAIN tree : \E s \in DOMAIN global_node_data.stat_to_handler :
       Owns(global_node_data.stat_to_handler[s], k)
  /\ \A s \in DOMAIN global_node_data.stat_to_handler :
       Handling(s) \/ Held(s) = UNION {Puts(o) : o \in Range(LastCalls(s))}

(* Every number the handlers put into the tree for a message is one of its *)
(* counts, never a port, a bucket or a piece of an address, and the answer *)
(* gives that number back: neither the int of the tree nor the unsigned of *)
(* the answer changes it.                                                  *)
ValuesAreCounts ==
  \A n \in DOMAIN log :
    log[n].ok /\ log[n].name \in DOMAIN global_node_data.stat_to_handler =>
      \A o \in Range(Operations(global_node_data, n)) : \A p \in Puts(o) :
        MessageOf(retval(p[2])) = n

(* "Messages are in [ip_address, count, ip_address, count] pairs": after   *)
(* such a message a manager finds exactly the counts of its pairs with a   *)
(* valid address, although the handler does not step from pair to pair,    *)
(* and none for an address the message ends after.                         *)
CountsMatchPairs ==
  \A s \in DOMAIN global_node_data.stat_to_handler :
    LET h == global_node_data.stat_to_handler[s]
        n == applied[s]
    IN  h.class = "IPCount" /\ n # 0 /\ ~Handling(s) =>
          {<<k, retval(tree[k])>> : k \in {o \in DOMAIN tree : Owns(h, o)}}
            = PairRows(h.oid, n, log[n].shape)

(* "Connections are indexed by internet address and port", "Buckets are    *)
(* indexed by their identity": after a message of Astaire a manager finds  *)
(* exactly the rows of its connections and buckets, with their values,     *)
(* whatever earlier messages held and wherever the message is broken.      *)
AstaireRowsMatch ==
  \A s \in DOMAIN global_node_data.stat_to_handler :
    LET h == global_node_data.stat_to_handler[s]
        n == applied[s]
    IN  h.class = "AstaireConnection" /\ n # 0 /\ ~Handling(s) =>
          {<<k, retval(tree[k])>> : k \in {o \in DOMAIN tree : Owns(h, o)}}
            = ConnectionRows(h.oid, n, log[n].shape)

(* However many requests come in at once, at most one listener thread is   *)
(* ever created: the flag is tested again under thread_creation_lock.      *)
OneListener ==
  \A t, u \in Threads : listener[t] # NULL /\ listener[u] # NULL => t = u

(* No answer is older than one given before for the same statistic, across *)
(* the columns of its table, except while a message that takes several     *)
(* calls is half applied, and then it is of the message before.            *)
AnswersGoForward ==
  [][\A s \in Stats : answered'[s] < answered[s] =>
       Handling(s) /\ answered'[s] = applied[s]]_answered

(* A walk by GETNEXT meets every OID that was there when it began and that *)
(* no message since has taken away, while messages replace whole subtrees  *)
(* under it.                                                               *)
WalkSkipsNothing ==
  /\ \A k \in walk.due : OIDCompare(walk.at, k)
  /\ ~walk.on => walk.due = {}

(* snmpd survives every message of a statistic the library subscribes to;  *)
(* only a name that merely begins like one, or a context that could not be *)
(* made, may end it.                                                       *)
OwnStatsAreSafe ==
  crashed => \/ ctx_failed
             \/ \E n \in DOMAIN log : log[n].name \notin global_node_data.stats

(* "Ignoring request because data out of date": once the listener thread   *)
(* has returned, or could not be created, answers stop for good.           *)
DeadListenerIsNoticed ==
  thread_created /\ (\A t \in Threads : listener[t] \in {NULL, "returned"}) ~>
    [](\A r \in DOMAIN request : request[r] # "reading")

(* Every message that reached the thread's queue is handled, unless a      *)
(* ZeroMQ error or the end of snmpd comes first.                           *)
MessageIsHandled ==
  \A t \in Threads :
    listener[t] = "receiving" /\ (queue[t] # <<>> \/ todo[t] # <<>>) ~>
      \/ listener[t] = "receiving" /\ queue[t] = <<>> /\ todo[t] = <<>>
      \/ listener[t] = "returned"
      \/ crashed

(* "stats for Memento (HTTP) nodes": a listener that runs has subscribed   *)
(* to the statistics of every node whose root OID snmpd passes on.         *)
RegisteredIsSubscribed ==
  \A t \in Threads : listener[t] = "receiving" =>
    \A node \in registered, s \in Stats :
      s \in node.stats => Subscribed(global_node_data, s)
=============================================================================
