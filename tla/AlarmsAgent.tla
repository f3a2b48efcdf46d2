---------------------------- MODULE AlarmsAgent -----------------------------
(***************************************************************************)
(* main() of the alarms agent, once the tables are set up: it starts the   *)
(* request listener, waits for its termination semaphore, deletes listener *)
(* and scheduler and returns.  The owner of AlarmReqListener is main(),    *)
(* which never calls stop(), or a program that does, as the tests do.      *)
(* Scheduler and net-snmp's thread share the lock of SNMP::Agent; a call   *)
(* on the scheduler takes and releases it in one step, net-snmp's thread   *)
(* holds it while others wait.                                             *)
(***************************************************************************)
EXTENDS AlarmReqListener

CONSTANT MaxPosts   \* bound: no SIGTERM while this many posts are pending

VARIABLES
  heap_thread,   \* the scheduler has its heap thread
  lock           \* of SNMP::Agent: "free", "snmp" or "destroyed"

agentVars == <<listenerVars, heap_thread, lock>>

(* The scheduler has been constructed.  A heap thread that cannot be       *)
(* created goes unnoticed: pthread_create reports it by a positive number. *)
AgentInit == ListenerInit /\ heap_thread \in BOOLEAN /\ lock = "free"

(* start() failed: main() returns 1. *)
ReturnFailure ==
  /\ main = "failed"
  /\ main' = "exited"
  /\ UNCHANGED <<listener, zmqVars, msg, zmq_failed, term_sem, lock>>

(* signal(SIGTERM, agent_terminate_handler) *)
InstallHandler ==
  /\ main = "started"
  /\ main' = "running"
  /\ UNCHANGED <<listener, zmqVars, msg, zmq_failed, term_sem, lock>>

(* Before that SIGTERM ends the process. *)
Killed ==
  /\ main \in {"init", "locked", "created", "waiting", "woken", "cleaning",
               "started"}
  /\ main' = "exited"
  /\ UNCHANGED <<listener, zmqVars, msg, zmq_failed, term_sem, lock>>

Deleting ==
  {"terminating", "listener_deleted", "heap_told", "heap_joined",
   "scheduler_deleted"}

agent_terminate_handler ==
  /\ main \in {"running"} \cup Deleting
  /\ term_sem < MaxPosts
  /\ term_sem' = term_sem + 1
  /\ UNCHANGED <<main, listener, zmqVars, msg, zmq_failed, lock>>

sem_wait ==
  /\ main = "running"
  /\ term_sem > 0
  /\ term_sem' = term_sem - 1
  /\ main' = "terminating"
  /\ UNCHANGED <<listener, zmqVars, msg, zmq_failed, lock>>

(* delete alarm_req_listener, whose destructor does nothing, and           *)
(* snmp_terminate.                                                         *)
DeleteListener ==
  /\ \/ main = "terminating" /\ main' = "listener_deleted"
     \/ main = "scheduler_deleted" /\ main' = "exited"
  /\ UNCHANGED <<listener, zmqVars, msg, zmq_failed, term_sem, lock>>

(* The scheduler's destructor tells the heap thread, under the lock, and   *)
(* joins it, which needs the lock to get to its end.                       *)
JoinHeapThread ==
  /\ \/ main = "listener_deleted" /\ main' = "heap_told"
     \/ main = "heap_told" /\ heap_thread /\ main' = "heap_joined"
  /\ lock # "snmp"
  /\ UNCHANGED <<listener, zmqVars, msg, zmq_failed, term_sem, lock>>

(* The handle of a thread that was never created: joining it returns, or   *)
(* the process crashes.                                                    *)
JoinNoThread ==
  /\ main = "heap_told"
  /\ ~heap_thread
  /\ main' \in {"heap_joined", "exited"}
  /\ UNCHANGED <<listener, zmqVars, msg, zmq_failed, term_sem, lock>>

(* pthread_mutex_destroy leaves a lock alone that is held. *)
DestroyLock ==
  /\ main = "heap_joined"
  /\ main' = "scheduler_deleted"
  /\ lock' = IF lock = "free" THEN "destroyed" ELSE lock
  /\ UNCHANGED <<listener, zmqVars, msg, zmq_failed, term_sem>>

(* The listener thread uses an object that was deleted, or net-snmp's      *)
(* thread reports a timeout to the deleted scheduler: it goes on as if it  *)
(* had not been, or the process crashes.                                   *)
Crash ==
  /\ \/ main \in Deleting \ {"terminating"} /\ listener # "exited"
     \/ main = "scheduler_deleted"
  /\ main' = "exited"
  /\ UNCHANGED <<listener, zmqVars, msg, zmq_failed, term_sem, lock>>

(* net-snmp's thread; locking a destroyed lock fails and changes nothing.  *)
SnmpLock == lock = "free" /\ lock' = "snmp" /\ UNCHANGED listenerVars
SnmpUnlock == lock = "snmp" /\ lock' = "free" /\ UNCHANGED listenerVars

(* The listener thread waits for the lock inside a call on the scheduler. *)
Blocked ==
  listener = "handling" /\ msg \in {"issue-alarm", "sync-alarms"} /\ lock = "snmp"

Main ==
  \/ ReturnFailure \/ InstallHandler \/ sem_wait \/ DeleteListener
  \/ JoinHeapThread \/ JoinNoThread \/ DestroyLock
  \/ (start \/ JoinListener) /\ UNCHANGED lock

Listener == ~Blocked /\ ListenerThread /\ UNCHANGED lock

AgentNext ==
  \/ /\ main # "exited"
     /\ \/ Main \/ Listener
        \/ Killed \/ agent_terminate_handler \/ Crash
        \/ SnmpLock \/ SnmpUnlock
        \/ (Environment \/ stop) /\ UNCHANGED lock
     /\ UNCHANGED heap_thread
  \/ main \in {"exited", "stopped"} /\ UNCHANGED agentVars

Running(A) == main # "exited" /\ A /\ UNCHANGED heap_thread

(* The owner and the listener thread run, and get the lock in the end, as  *)
(* net-snmp's thread releases it and has no work most of the time.         *)
(* Signals, requests and failures may or may not come.                     *)
AgentSpec ==
  /\ AgentInit
  /\ [][AgentNext]_agentVars
  /\ SF_agentVars(Running(Main))
  /\ SF_agentVars(Running(Listener))
  /\ WF_agentVars(Running(SnmpUnlock))

-----------------------------------------------------------------------------
(* "If this thread exits, fire the termination semaphore to ensure the     *)
(* main thread shuts down": whenever the listener thread ends, also before *)
(* main() waits, or a SIGTERM is handled, the agent exits, also when it    *)
(* never got its heap thread, and whoever has the lock.                    *)
TerminationEndsAgent ==
  listener = "exited" \/ (main = "running" /\ term_sem > 0) ~>
    main \in {"exited", "stopped"}

(* stop() is to "gracefully stop the listener thread": the thread makes no *)
(* call on the scheduler once main() has deleted it.                       *)
NoCallAfterDelete ==
  [][HandleRequest /\ msg \in {"issue-alarm", "sync-alarms"} =>
       main # "scheduler_deleted"]_listenerVars
=============================================================================
