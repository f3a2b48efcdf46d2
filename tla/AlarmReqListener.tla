-------------------------- MODULE AlarmReqListener --------------------------
(***************************************************************************)
(* AlarmReqListener: start() and stop(), called by the thread that owns    *)
(* the listener, the listener thread, and the ZeroMQ REP socket its        *)
(* clients send requests to.  A call into the scheduler is the step that   *)
(* leaves "handling"; AlarmScheduler models what it does.                  *)
(***************************************************************************)
EXTENDS Integers

CONSTANTS
  Clients,      \* the processes that raise alarms, one REQ socket each
  MaxRequests   \* bound: requests made in a behaviour

VARIABLES
  main,       \* where the owner is in start() or stop()
  listener,   \* where the listener thread is
  ctx,        \* the ZeroMQ context
  sck,        \* the REP socket
  rep_owes,   \* the client the REP socket owes an answer, or nobody
  request,    \* the request a client waits for the answer of
  msg,        \* the request next_msg() has read
  requests,   \* how many requests were made
  zmq_failed, \* a ZeroMQ call has failed for no reason of the listener's
  term_sem    \* _term_sem

zmqVars      == <<ctx, sck, rep_owes, request, requests>>
listenerVars == <<main, listener, zmqVars, msg, zmq_failed, term_sem>>

ASSUME MaxRequestsAssumption == MaxRequests \in Nat

Requests == {"issue-alarm", "sync-alarms", "poll", "unexpected"}
none == "none"

ListenerInit ==
  /\ main = "init"
  /\ listener = none
  /\ ctx = "NULL" /\ sck = "NULL"
  /\ rep_owes = none
  /\ request = [c \in Clients |-> none]
  /\ msg = none
  /\ requests = 0
  /\ zmq_failed = FALSE
  /\ term_sem = 0

-----------------------------------------------------------------------------
(* start().  zmq_init_ctx or zmq_init_sck may fail; nothing they made is   *)
(* undone.  Otherwise _start_mutex is locked.                              *)
InitZmq ==
  /\ main = "init"
  /\ \/ main' = "failed" /\ UNCHANGED <<ctx, sck>>
     \/ main' = "failed" /\ ctx' = "open" /\ UNCHANGED sck
     \/ main' = "failed" /\ ctx' = "open" /\ sck' = "open"
     \/ main' = "locked" /\ ctx' = "open" /\ sck' = "open"
  /\ UNCHANGED <<listener, rep_owes, request, msg, requests, zmq_failed,
                 term_sem>>

CreateThread ==
  /\ main = "locked"
  /\ main' = "created"
  /\ listener' = "created"
  /\ UNCHANGED <<zmqVars, msg, zmq_failed, term_sem>>

(* pthread_create fails: zmq_clean_ctx() begins. *)
CreateThreadFails ==
  /\ main = "locked"
  /\ main' = "cleaning"
  /\ ctx' = "terminating"
  /\ UNCHANGED <<listener, sck, rep_owes, request, msg, requests, zmq_failed,
                 term_sem>>

(* pthread_cond_wait gives _start_mutex up. *)
WaitForStart ==
  /\ main = "created"
  /\ main' = "waiting"
  /\ UNCHANGED <<listener, zmqVars, msg, zmq_failed, term_sem>>

(* pthread_cond_wait returns, signalled or not; it has no predicate. *)
SpuriousStart ==
  /\ main = "waiting"
  /\ main' = "woken"
  /\ UNCHANGED <<listener, zmqVars, msg, zmq_failed, term_sem>>

Started ==
  /\ main = "woken"
  /\ main' = "started"
  /\ UNCHANGED <<listener, zmqVars, msg, zmq_failed, term_sem>>

(* stop(): zmq_ctx_destroy begins; ZeroMQ calls fail with ETERM from now   *)
(* on.                                                                     *)
stop ==
  /\ main = "started"
  /\ main' = "destroying"
  /\ ctx' = "terminating"
  /\ UNCHANGED <<listener, sck, rep_owes, request, msg, requests, zmq_failed,
                 term_sem>>

(* zmq_ctx_destroy returns once the socket is closed, or is interrupted.   *)
ReturnFromDestroy ==
  \/ main = "destroying" /\ main' = "joining"
  \/ main = "cleaning" /\ main' = "failed"

zmq_clean_ctx ==
  /\ sck # "open"
  /\ ReturnFromDestroy
  /\ ctx' = "destroyed"
  /\ UNCHANGED <<listener, sck, rep_owes, request, msg, requests, zmq_failed,
                 term_sem>>

zmq_clean_ctx_Interrupted ==
  /\ sck = "open"
  /\ ReturnFromDestroy
  /\ UNCHANGED <<listener, zmqVars, msg, zmq_failed, term_sem>>

JoinListener ==
  /\ main = "joining"
  /\ listener = "exited"
  /\ main' = "stopped"
  /\ UNCHANGED <<listener, zmqVars, msg, zmq_failed, term_sem>>

-----------------------------------------------------------------------------
(* The listener thread.                                                    *)

(* Slip: start() does not hold _start_mutex while it creates the thread. *)
StartMutexFree_Always == TRUE

(* start() holds _start_mutex from before pthread_create to its wait, and  *)
(* again once the wait returns.  If it woke up spuriously the mutex is     *)
(* soon destroyed; locking it then fails without blocking, and nobody is   *)
(* left to signal.                                                         *)
StartMutexFree == main \notin {"created", "woken"}

SignalStart ==
  /\ listener = "created"
  /\ StartMutexFree
  /\ main' = IF main = "waiting" THEN "woken" ELSE main
  /\ listener' = "receiving"
  /\ UNCHANGED <<zmqVars, msg, zmq_failed, term_sem>>

(* next_msg() reads all parts of a request; interrupted calls are retried. *)
next_msg(c) ==
  /\ listener = "receiving"
  /\ ctx = "open"
  /\ rep_owes = none
  /\ request[c] # none
  /\ rep_owes' = c
  /\ msg' = request[c]
  /\ listener' = "handling"
  /\ UNCHANGED <<main, ctx, sck, request, requests, zmq_failed, term_sem>>

(* next_msg() fails: the context is terminated (ETERM), the socket still   *)
(* owes an answer (EFSM), or another ZeroMQ error.                         *)
next_msg_Fails ==
  /\ listener = "receiving"
  /\ IF ctx # "open" \/ rep_owes # none
       THEN UNCHANGED zmq_failed
       ELSE zmq_failed' = TRUE
  /\ listener' = "closing"
  /\ UNCHANGED <<main, zmqVars, msg, term_sem>>

(* issue_alarm or sync_alarms returns; poll and unexpected requests call   *)
(* nothing.                                                                *)
HandleRequest ==
  /\ listener = "handling"
  /\ listener' = "replying"
  /\ msg' = none
  /\ UNCHANGED <<main, zmqVars, zmq_failed, term_sem>>

(* Slip: the answer is not sent. *)
reply_Forgotten ==
  /\ listener = "replying"
  /\ ctx = "open"
  /\ listener' = "receiving"
  /\ UNCHANGED <<main, zmqVars, msg, zmq_failed, term_sem>>

reply ==
  /\ listener = "replying"
  /\ ctx = "open"
  /\ request' = [request EXCEPT ![rep_owes] = none]
  /\ rep_owes' = none
  /\ listener' = "receiving"
  /\ UNCHANGED <<main, ctx, sck, msg, requests, zmq_failed, term_sem>>

(* zmq_send fails; it is logged, and the socket still owes the answer. *)
reply_Fails ==
  /\ listener = "replying"
  /\ zmq_failed' = (zmq_failed \/ ctx = "open")
  /\ listener' = "receiving"
  /\ UNCHANGED <<main, zmqVars, msg, term_sem>>

(* Slip: the socket stays open. *)
zmq_clean_sck_Forgotten == UNCHANGED sck

zmq_clean_sck == sck' = "closed"

CloseSocket ==
  /\ listener = "closing"
  /\ zmq_clean_sck
  /\ listener' = "posting"
  /\ UNCHANGED <<main, ctx, rep_owes, request, msg, requests, zmq_failed,
                 term_sem>>

(* Slip: the thread goes back to its loop. *)
listener_thread_Again ==
  /\ listener = "posting"
  /\ term_sem' = term_sem + 1
  /\ listener' = "receiving"
  /\ UNCHANGED <<main, zmqVars, msg, zmq_failed>>

(* Slip: the semaphore is not posted. *)
listener_thread_Silent ==
  /\ listener = "posting"
  /\ listener' = "exited"
  /\ UNCHANGED <<main, zmqVars, msg, zmq_failed, term_sem>>

(* The thread posts the semaphore the main thread waits on, and exits;     *)
(* main() always passes one to start().                                    *)
listener_thread ==
  /\ listener = "posting"
  /\ term_sem' = term_sem + 1
  /\ listener' = "exited"
  /\ UNCHANGED <<main, zmqVars, msg, zmq_failed>>

-----------------------------------------------------------------------------
(* A client sends a request and waits for the answer. *)
SendRequest(c, r) ==
  /\ requests < MaxRequests
  /\ request[c] = none
  /\ request' = [request EXCEPT ![c] = r]
  /\ requests' = requests + 1
  /\ UNCHANGED <<main, listener, ctx, sck, rep_owes, msg, zmq_failed, term_sem>>

start ==
  InitZmq \/ CreateThread \/ WaitForStart \/ Started \/ zmq_clean_ctx

(* Steps of the listener thread that succeed, in its main loop or leaving  *)
(* it after the context was terminated.                                    *)
ListenerThread ==
  \/ SignalStart
  \/ \E c \in Clients : next_msg(c)
  \/ HandleRequest
  \/ reply
  \/ ctx # "open" /\ (next_msg_Fails \/ reply_Fails)
  \/ rep_owes # none /\ next_msg_Fails
  \/ CloseSocket
  \/ listener_thread

(* What the environment may do, and need not. *)
Environment ==
  \/ CreateThreadFails
  \/ SpuriousStart
  \/ zmq_clean_ctx_Interrupted
  \/ next_msg_Fails
  \/ reply_Fails
  \/ \E c \in Clients, r \in Requests : SendRequest(c, r)

-----------------------------------------------------------------------------
(* Every variable keeps to its type; the thread only uses a socket that is *)
(* open.                                                                   *)
ListenerTypeOK ==
  /\ main \in {"init", "locked", "created", "waiting", "woken", "started",
               "cleaning", "failed", "destroying", "joining", "stopped",
               "running", "terminating", "listener_deleted", "heap_told",
               "heap_joined", "scheduler_deleted", "exited"}
  /\ listener \in {none, "created", "receiving", "handling", "replying",
                   "closing", "posting", "exited"}
  /\ ctx \in {"NULL", "open", "terminating", "destroyed"}
  /\ sck \in {"NULL", "open", "closed"}
  /\ rep_owes \in Clients \cup {none}
  /\ request \in [Clients -> Requests \cup {none}]
  /\ msg \in Requests \cup {none}
  /\ requests \in 0 .. MaxRequests
  /\ zmq_failed \in BOOLEAN
  /\ term_sem \in Nat
  /\ listener \in {"receiving", "handling", "replying", "closing"} =>
       sck = "open"

(* No request, whatever it asks for, ends the listener: the thread leaves  *)
(* its loop only after a ZeroMQ error or once stop() ended the context.    *)
OnlyErrorsEndListener ==
  listener \in {"closing", "posting", "exited"} =>
    zmq_failed \/ ctx # "open"

(* A listener that was stopped has left nothing behind: no thread, socket  *)
(* or half-read request, also when zmq_ctx_destroy was interrupted.        *)
StoppedIsClean ==
  main = "stopped" => listener = "exited" /\ sck = "closed" /\ msg = none

(* start()'s wait for its thread ends: the signal cannot come before the   *)
(* wait, since start() holds _start_mutex from before it creates the       *)
(* thread.                                                                 *)
StartReturns == main = "created" ~> main \notin {"created", "waiting"}

(* stop() returns: the thread sees the context end wherever it is, closes  *)
(* the socket zmq_ctx_destroy waits for, and exits.                        *)
StopReturns == main = "destroying" ~> main = "stopped"

(* Every request is answered unless a ZeroMQ error or stop() comes first,  *)
(* or the process ends with the listener thread still running.             *)
RequestIsAnswered ==
  \A c \in Clients :
    listener = "receiving" /\ request[c] # none ~>
      \/ request[c] = none \/ zmq_failed \/ ctx # "open"
      \/ main = "exited" /\ listener # "exited"
=============================================================================
