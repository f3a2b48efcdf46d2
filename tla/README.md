# A TLA+ model of clearwater-snmp-handlers

The repository holds two programs that share little but net-snmp: the **alarms
agent**, a process that turns requests from the Clearwater processes of a node
into SNMP informs and tables, and the **stats handlers**, libraries that snmpd
loads to serve statistics. This project models both.

## The system

| part | state | operations | talks to |
|---|---|---|---|
| alarm definitions (`alarm_table_defs`) | map (index, severity) to definition | load at start-up, look up | JSON files |
| model and ITU tables (`alarm_model_table`, `itu_alarm_table`) | one container of rows each | fill at start-up, read a column | definitions; rows point at each other |
| active table (`alarm_active_table`) | container of rows, map index to row, counter | create, replace, delete a row | scheduler |
| trap sender (`alarm_trap_sender`) | informs not answered yet (in net-snmp) | send, callback | scheduler, the NMS |
| scheduler (`alarm_scheduler`) | per alarm the severity last sent and one timer; a heap of timers; a lock and a condition variable | issue, resync, failed inform, heap thread, destructor | all the above |
| request listener (`alarm_req_listener`) | ZeroMQ context and REP socket, a thread | start, stop, receive, dispatch, reply | clients, scheduler, main |
| agent (`alarms_agent`) | a termination semaphore | main, SIGTERM handler | all |
| stats handler (`custom_handler`) | thread-created flag, global node data | initialise, SNMP request | snmpd, OID tree, stats listener |
| stats listener (`zmq_listener`) | SUB socket, time of the last message | connect, receive, dispatch by name | the node, message handlers |
| message handlers (`zmq_message_handler`, `astairedata`) | root OID | handle a message | OID tree |
| OID tree (`oidtree`, `oid`, `oid_inet_addr`) | map of OIDs to values, a recursive lock | set, remove, remove or replace a subtree, get, get-next | |
| node data (`cdivdata`, `mementodata`, `mementoasdata`, `astairedata`) | names, roots, handlers | one init function per library | stats handler |

A request arrives at the listener thread, which calls `issue_alarm` or
`sync_alarms`. The scheduler puts the alarm's only timer into the heap, at once
for an increase and 30 s ahead for a reduction. The heap thread pops it, sends
the inform and updates the active table. When the NMS does not answer, net-snmp
calls back and the scheduler puts the timer in the heap again.

On the other side, snmpd loads a library and calls its init function. The first
SNMP request below the registered root creates the listener thread, which
subscribes to the node's statistics and applies each message to the OID tree
through the handler of its name. Requests are answered from the tree as long as
the last message is less than 15 s old.

What makes this hard: there is one timer per alarm for a change, a retry and a
resync; a timer taken out of the heap keeps what it held; the pop time is only
set when the severity changes; a signal is lost unless the heap thread waits;
the socket is closed by one thread and its context ended by another; `main()`
deletes objects other threads use and destroys a lock it does not own. In the
libraries a message is applied under several short locks while managers walk the
tree, the thread is created by whichever request comes first and never again,
and parsers meet messages that are cut off. `hazards` in `PROJECT.json` lists these, each
at its line, with the properties that are about it.

## Modules

| module | models |
|---|---|
| `AlarmDef` | the severities |
| `AlarmTableDefs` | the loaded definitions, as constants, and the order `operator>` has on severities |
| `AlarmTables` | loading of the files, the two static tables, what columns and informs point at |
| `AlarmTrapSender` | the bag of unanswered informs, one per notification type and sink |
| `ActiveAlarms` | what the active table promises: the severity shown for each alarm |
| `AlarmActiveTable` | its container, map, counter and row keys; implements `ActiveAlarms` |
| `AlarmScheduler` | the scheduler composed with the trap sender and `ActiveAlarms` |
| `AlarmNotifier` | what the scheduler promises: per alarm what the NMS was told and what it will be told next |
| `AlarmHistory` | the scheduler with a history of the requests, of the acknowledgements and of the send times |
| `AlarmReqListener` | the listener thread, its owner and its clients |
| `AlarmsAgent` | `main()` as the owner of the listener, composed with it, with the scheduler's destructor and net-snmp's thread on the shared lock |
| `OIDTree` | OIDs, address indexes, the map and its operations |
| `StatHandlers` | what each message handler does to the tree, with Astaire's parser |
| `NodeData` | the four libraries' tables |
| `NodeMessages` | the messages a node publishes, and the rows a message of pairs or connections stands for |
| `HandlerCalls` | no code: the facts about handlers that the proofs about a library rest on, each as a formula |
| `ZMQListener` | the listener thread of a library, and the node that publishes |
| `StatsHandler` | initialisation and requests, composed with the thread and the tree |
| `AlarmSchedulerProofs`, `AgentProofs`, `OIDTreeProofs`, `NodeMessageProofs`, `ConnectionProofs`, `StatsProofs`, `StatsTreeProofs`, `StatsTheorems` | theorems |
| `MC...` | small instances |

Definitions keep the names of the source. A definition called `X_Something`
with a comment that starts with *Slip* is `X` with a plausible mistake; it is
not used by the specification, and stands there so that one can see which
property such a mistake breaks (`mutants` in `PROJECT.json`).

**Scheduler.** Every handler runs under `_lock` from beginning to end, so it is
one action, with the lock free as its guard. Only the heap thread holds the lock
over several steps (`thread = "sending"`), one per alarm it sends; the clock may
advance between them, while `time_now` stays what it was at the wake-up. A wait
ends by a signal, by its deadline or spuriously. `handle_failed_alarm` is called
by net-snmp with the same lock held. The destructor is two actions, before and
after `pthread_join`. A timer's `pop_time` is an absolute time, in units of the
model's clock.

**Listener.** `start()` and the thread are modelled call by call where they
interact: the start mutex and condition variable, `zmq_ctx_destroy` (which waits
until the socket is closed, or is interrupted), receive, dispatch, reply. A REP
socket that owes a reply refuses to receive. Any ZeroMQ call may fail. The owner
is `main()`, which never calls `stop()`, or a program that does, like the tests.

**Agent.** net-snmp's thread takes and releases the lock it shares with the
scheduler; the listener thread waits for it inside a call, `main()` inside the
destructor. The heap thread may not exist, since `pthread_create` reports failure
by a positive number and the code tests for a negative one; joining it then
returns or crashes. After a `delete` a thread that uses the object goes on or
crashes.

**Statistics.** An OID is a sequence of numbers without the common prefix, the
tree a function. Every operation of `OIDTree` holds its lock throughout and is
one step; a handler is the sequence of operations it calls, so that requests and
walks come between them (`todo` is what is left of it). A message is a sequence
of parts, each a number or an address; its *shape* says which rows it lists and
after how many parts it ends. The numbers of message *n* are `Counts` times *n*
plus *i*, so a value tells which message it came in. An `int` has `WORD` values; `atoi` wraps.
The time of the last message is kept as its age. `walk` follows a manager that
asks for the OID after each answer; `due` is what it must still meet. An unknown
name throws, and closing a socket that was never made may crash; both end snmpd.

**Tables.** A file holds a sequence of definitions, or is invalid, or is no JSON
file. The columns of a row are a record, and so is what an inform of each type
says; a text stands for its definition, a pointer is the key of the row it names.
Each table may lack rows that could not be allocated (`model_lost`, `itu_lost`): a
pointer to one must lead nowhere, not to another row.

## Runs

| run | asks | instance |
|---|---|---|
| `one_alarm` | what a timer may hold, which request decides, what reaches the NMS and when, refinement of `AlarmNotifier` | one alarm with three levels, delays of 2, clock to 5, 2 copies of an inform |
| `two_alarms` | no missed wake-up, everything scheduled is handled, the destructor returns | two alarms with two levels, clock to 3 |
| `requests_sync` | the last request is sent, whatever resyncs there are: **violated** | as `one_alarm` |
| `resync_waits` | a resync is due at once: **violated** | as `one_alarm` |
| `reduced_stale` | a reduction waits its full delay: **violated** | one alarm, clock to 6 |
| `active_table` | container and map agree, the table shows what it was told | three alarms, counter to 3, three seconds |
| `agent` | start, stop and requests complete, only errors end the thread, and its end or a SIGTERM ends the agent | two clients, three requests, two posts |
| `agent_delete` | no call on a deleted scheduler: **violated** | as `agent` |
| `tables` | all or nothing is loaded, and rows point at each other | two files of at most two alarms |
| `tables_active` | the active table points at the model table: **violated** | as `tables` |
| `stats` | tree and answers match the messages, walks skip nothing, one listener, every message handled, a dead listener noticed | all four libraries and one with the remaining handlers, two messages |
| `stats_memento` | a registered node is subscribed to: **violated** | the Memento library |

*Bounds.* The two delays are equal in the code, and twice the clock's unit is
enough to be early, on time or late by one. `MaxNow` leaves room to send,
reduce, cancel and reduce or retry again; new requests and timeouts stop when
what they schedule would come due after the clock has stopped, so that liveness
is not cut off by the bound. `MaxInforms` stops new requests, not sends. One
alarm with three levels shows every order of increase, reduction, clear and
cancellation; two copies of an inform in flight are also what a second
notification type would make. The second alarm of `two_alarms` is there for what alarms share:
the heap, its order and its thread. Three alarms and a counter up to 3 let rows
survive a round of the counter. Two files of up to two alarms have every clash
within and between files; at most one row, or all, cannot be allocated. Two
messages are one to leave something behind and one to apply over it, of every
pair of statistics and shapes: whole, too short by one part, with an invalid
address, without buckets, cut off within a bucket list. With `WORD` 32 the second
message's values exceed the largest `int`. A threshold of one second has both
sides. Two threads are enough to see a second one created. snmpd takes one
request at a time; the instance with the remaining handlers has two requesters,
because the code locks against it.

*Fairness.* In the scheduler, weak fairness of the heap thread, of the join in the
destructor and of the clock. In the agent, strong fairness of `main()` and of the
listener thread's successful steps, since both wait for a lock that net-snmp's
thread takes again and again, but is without most of the time; weak fairness of
its release. In the libraries, weak fairness of the listener thread, of requests
that were begun (they have finitely many variables) and of the clock. All of
these are running threads and their blocking calls. Requests, answers, timeouts,
resyncs, messages, signals, spurious wake-ups, failures and `stop()` are not fair.
Every run checks for deadlock; only an agent that exited or was stopped, and an
snmpd that crashed or registered nothing, may stop.

## Findings

* **A resync loses a request.** `sync_alarms` puts the severity last sent into
  the only timer of the alarm. A change that was waiting there is forgotten; the
  client believes the alarm raised or cleared, the NMS does not
  (`requests_sync`). `LastRequestWins` and `RequestIsReachedOrOverwritten` show
  that there is no other way to lose one.
* **A resync does not bring a waiting retry forward.** `sync_alarms` asks for no
  delay, but the timer already has the severity and keeps its pop time, up to
  30 s ahead, where the header and a test say that resyncs are sent immediately
  (`resync_waits`). `OnlyRetriesDelayResyncs` shows that nothing else is delayed:
  a pop time of a waiting or cancelled change is never taken over.
* **A reduction may be sent at once.** Raise, clear, raise again within 30 s:
  the clear is cancelled, but its timer keeps severity and pop time, and a later
  clear finds the severity unchanged and keeps the old pop time
  (`reduced_stale`). `ReductionsAreSpaced` shows the damage is limited: at the
  NMS a reduction is still a full delay after the inform before it.
* **`main()` never stops the listener** before it deletes the scheduler
  (`agent_delete`).
* **The active table's model pointer uses the severity** where the model table's
  rows are keyed by the state (`tables_active`).
* **The Memento library forgets its first node.** It registers the HTTP and the
  authentication statistics, but keeps and subscribes to the data of the second
  only (`stats_memento`).

Three more observations have no run of their own. When `pthread_create` fails in
`AlarmReqListener::start`, it destroys the context while its own socket is open;
`zmq_ctx_destroy` waits for the socket, which nobody is left to close, and the
agent hangs instead of exiting. `it_ip++++` in `IPCountStatHandler` advances by
one part, as the second `++` is applied to a copy; `CountsMatchPairs` shows that
this does no harm as long as no count reads as an address. A published name that
merely begins like a subscribed one ends snmpd; `OwnStatsAreSafe` says that names
the library knows never do.

A timeout that arrives while a change is scheduled is dropped, and when the
change is cancelled nobody retries. No line of the repository promises more;
`OnlyCancellingLosesRetries` says this is the only way to lose a retry.

## Proofs

Every safety invariant, action property and refinement the passing runs check is
also a theorem, for all values of the constants; what is left to TLC is liveness.

`AlarmSchedulerProofs` proves, for every set of alarms and levels, every order on
the severities with "nothing sent" lowest, every delay and every bound: `TypeOK`,
`ScheduledIsSendable`, `ScheduledIsNear`, `LeftoverIsNotCurrent`,
`IncreaseIsDue`, `NoMissedWakeup` as invariants and `RetryWaits`,
`RepeatNeverPostpones`, `OnlyRetriesDelayResyncs` as action properties.

The properties speak of timers in the heap and are not inductive: a request may
put a timer back that an earlier one took out. The invariant `IInv` therefore
says of *every* timer that it is idle, or has a defined severity, a pop time no
further than a delay away, already due if it is an increase, and in the heap if
it is of the current severity (`TimerInv`). With it go `SentInv` (what was sent
is defined, so a resync schedules something defined) and `LockInv` (the
destructor cannot set the flag while the heap thread is between waking and
waiting, so the thread does not go to sleep after it).

It also proves that the scheduler implements `AlarmNotifier`: every step maps to a
request, a cancellation, a reminder, a notification, the stop, or to a stutter.
This uses `IInv`: a retry is a reminder only because what it repeats is the
current severity.

It then proves what the scheduler does over time, on top of `IInv`,
which holds in `AlarmHistory` too since that only adds variables.
`LastRequestWins` is inductive together with it (`RequestsInv`): what an alarm will be sent as
stays what was last requested, except where a resync overwrote it.
`ReductionsAreSpaced` needs that a timer which reduces a severity, also one left
over from a cancelled change, was set after the alarm was last sent
(`SpacedInv`): this is why the stale timer of `reduced_stale` cannot do worse.
`OnlyCancellingLosesRetries` (`RetryInv`) has one hypothesis, `Sinks`: at least one
notification type and one sink are configured. Without a sink a send leaves
nothing behind that could fail, so nothing is retried either.

`AgentProofs` has the theorems about the tables and about the agent itself. It
proves `ContainerMatchesMap` and `ImplementsActiveAlarms` for
any alarms and any `UINT_MAX`. Agreement of container and map needs different keys
for different rows, and that a key is free when it is used: `TableInv` says of
every row of the current second that its counter is among the last `created`
values, going round at `UINT_MAX` (`Used`), so the next value is not among them
(`NextIsFree`). Older rows differ in the time. `TableTypeOK` adds the range of the
counter (`RangeInv`).

It proves `LoadIsFaithful` and `PointersResolve` for any set of
files, in any order, with any definitions. `LoadInv` says what the files read so
far have in common with the whole directory: the indexes seen and the definitions
kept are theirs, and no two of them clash. `RowsInv` says that each table holds
the row of every definition but the lost ones. A pointer then leads to the right
row or to none because different definitions have different keys (`KeysDiffer`):
of one index they differ in severity, and the states of different severities
differ too.

Finally it proves `OnlyErrorsEndListener` and `StoppedIsClean` for any number of
clients, requests and signals. `ListenerInv` adds that the socket owes an answer
only while the thread works on it or after an error, since a receive would fail
otherwise; that before `start()` has created the thread nothing of it is there;
and that a thread past its loop has closed its socket. `ListenerTypeOK`, which
says that the thread uses open sockets only, also needs that the socket is
opened before the thread is created (`SocketInv`).

`OIDTreeProofs` proves that `OIDCompare` is a strict total order on OIDs of any
length (`OIDOrder`), on which `std::map` relies, and that `get_next` finds the
successor of any OID in any finite tree (`GetNextIsSuccessor`). It then follows
each handler through a message of any length and content, Astaire's parser
included: `HandlersKeepToTheirOIDs` says that it puts ints at OIDs of its own
only, settles each of them by exactly one call or leaves all alone, and touches no
OID of a handler that is apart from it. The last is not obvious, because
`remove_subtree` also removes what is above its root.

`NodeMessageProofs` and `ConnectionProofs` compare what a handler reads with what
the node wrote, for messages of any length that end after any part. The node
writes connections one after the other, and the handler reads them back by a
recursive parser; both are functions on numbers, and what they compute is proved by
induction on the number of connections and of buckets. The library's induction
theorems cannot be used, since they take a predicate; `Induction` states the
principle for a *set* of numbers, which follows from the smallest element of its
complement. `Laid` says where in the message each connection begins and what
stands there, `MessageRead` that the parser, at each connection it gets to,
is at this place and reads these parts. That the rows then have
different OIDs, so that none overwrites another, is `IndexTells` and `RowTells`: an
address tells its length, so an index can be taken apart again. The result is
`CountsHold`: the calls of a message put exactly the rows it stands for, each
with its count.

`StatsProofs`, `StatsTreeProofs` and `StatsTheorems` prove, for any libraries,
handlers, messages, requesters and threads, the properties below. The lemmas of
`StatsTreeProofs` take the facts about handlers as a hypothesis (`HandlerFacts` of
`HandlerCalls`), so that they can be read without the handlers; `StatsTheorems`
proves that hypothesis (`HandlersHold`), and its theorems have none.

* `OneListener`. Initialisation resets the flag, so it has to be over before the
  first request (`ThreadInv`).
* `OwnStatsAreSafe`, assuming that every statistic a library subscribes to has a
  handler (`Complete`). What waits in a queue was published (`LogInv`). The run
  `stats` checks it without that assumption on the four libraries' own tables.
* `TreeIsLatest`. While a message is applied, the tree holds its values for the
  calls that were made and the former ones for those that are left (`HalfDone`);
  every other handler's OIDs hold what its last message put there, and there are
  no OIDs besides (`TreeInv`). `MessageInv` says that what is left to do is the end
  of the calls of one message. The step for a call rests on `HandlerFacts`.
* `ValuesAreCounts`, `CountsMatchPairs` and `AstaireRowsMatch`, from `TreeIsLatest`
  and `CountsHold`: what the last message put into the tree is what it stands for.
  This is where stepping by one part (`it_ip++++`) is shown to do no harm.
* `WalkSkipsNothing`. What a walk must still meet is in the tree, after the OID it
  has reached, and no call that is left removes it (`WalkInv`): a call that put an
  OID back after another one of the same message removed it would break this.
  That GETNEXT then meets it is `GetNextIsSuccessor`.
* `AnswersGoForward`. Messages wait in the order of publication, behind the one
  that is handled (`OrderInv`); no answer is newer than what was or is being
  applied (`AnswerInv`).
* `StatsTypeOK`, from these invariants and the types of the remaining variables
  (`OwnTypeOK`).

The assumptions are those on the constants (`LevelsAssumption`,
`RankAssumption`, `DelayAssumption`, `CounterAssumption`, `ContentsAssumption`,
`MaxRequestsAssumption`, `WordAssumption`, `CountsAssumption`,
`StatsAssumption`, `ShapesAssumption`,
`NodesAssumption`); TLC evaluates them in the runs. `UINT64_MAX` is larger than any
time plus delay, as it is for the code until the clock nears 2^64 ms.
`ShapesAssumption` is about what a node sends (`IsShape`): no valid address is listed
twice in a message of pairs, no address and port twice in one of connections and no
bucket twice in a connection, ports and lists of buckets fit an `int`, and a message
may end after any part. Since a message lists what is in a table of the node, this
is what the code expects. It also says that the numbers of all messages differ as
words, so that the properties can tell them apart. `NodesAssumption` says that
the handlers of a node are for different OIDs, none above another's, as they are in
the libraries' tables.

Only model-checked: liveness (`ScheduledIsHandled`, `ShutdownCompletes`,
`RequestIsReachedOrOverwritten`, `StartReturns`, `StopReturns`, `RequestIsAnswered`,
`TerminationEndsAgent`, `DeadListenerIsNoticed`, `MessageIsHandled`), which rests on
fairness and so on `ENABLED`, beyond the prover. The runs that end in a violation
need no proof.

## Not modelled, and assumptions

* JSON validation, `operator>` on severities, the timer heap, condition
  variables, ZeroMQ and net-snmp are other repositories' code, modelled from
  how they are used. A definition has a severity at most once.
* The wording of texts, of identifiers and log lines; the options
  and the net-snmp set-up in `main()`.
* The registration of the active table is taken to have succeeded. Its clock
  does not step back, which it does for one hour a year since the keys hold the
  local time, and fewer than `UINT_MAX` rows are created in a second. After a row
  could not be allocated at the counter's limit the counter runs past it, as in the
  code; that the key then holds the lower 32 bits only is not modelled.
* `main()` always passes its semaphore to the listener, so the test for one is left
  out. Locking the start mutex after it was destroyed fails without blocking.
* In `AlarmsAgent` a call on the scheduler takes the lock and returns in one step;
  what it does there is the subject of `AlarmScheduler`. The heap thread ends once
  it is told to and has the lock; `ShutdownCompletes` is about that.
* Of the libraries: log lines and `dump()`; reading an OID from a text; the name of
  the socket the listener connects to; components of OIDs above 2^31 (a negative
  port or bucket number); a bucket count so large that four times it overflows an
  `int`; a wall clock that steps back. Publishers send a value where a value is
  due, so `atoi` of other texts does not occur.
* Right after an outage old values are served as up to date until the first
  message has been applied, since its time is stored first. No line of the
  repository says otherwise, so no property does.
* A GETNEXT that is refused because the data is out of date leaves the walk where it
  is, as if the manager asked again. With snmpd the unanswered variable passes to
  the next subtree, and the manager's walk of this one ends early:
  `WalkSkipsNothing` is about walks that are answered.

What is left is text handling, set-up without branches and code of other
repositories. Worth adding next: the whole scheduler in place of the one-step
calls of `AlarmsAgent`.
