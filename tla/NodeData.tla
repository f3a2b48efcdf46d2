------------------------------ MODULE NodeData ------------------------------
(***************************************************************************)
(* The node data of the libraries: the root OID they register, the         *)
(* statistics they subscribe to and the handler of each.  OIDs leave out   *)
(* the prefix 1.2.826.0.1.1578918.9 they share.                            *)
(***************************************************************************)
EXTENDS StatHandlers

Handler(class, oid) == [class |-> class, oid |-> oid]
Bare(oid) == Handler("Bare", oid)
Accumulated(oid) == Handler("AccumulatedWithCount", oid)

cdiv_stats ==
  {"cdiv_total", "cdiv_unconditional", "cdiv_busy", "cdiv_not_registered",
   "cdiv_no_answer", "cdiv_not_reachable"}

(* Slip: a statistic that is subscribed to has no handler. *)
cdiv_handlers_NoBusy ==
  "cdiv_total" :> Bare(<<7, 1, 1, 2>>) @@
  "cdiv_unconditional" :> Bare(<<7, 1, 1, 3>>) @@
  "cdiv_not_registered" :> Bare(<<7, 1, 1, 5>>) @@
  "cdiv_no_answer" :> Bare(<<7, 1, 1, 6>>) @@
  "cdiv_not_reachable" :> Bare(<<7, 1, 1, 7>>)

cdiv_handlers ==
  "cdiv_total" :> Bare(<<7, 1, 1, 2>>) @@
  "cdiv_unconditional" :> Bare(<<7, 1, 1, 3>>) @@
  "cdiv_busy" :> Bare(<<7, 1, 1, 4>>) @@
  "cdiv_not_registered" :> Bare(<<7, 1, 1, 5>>) @@
  "cdiv_no_answer" :> Bare(<<7, 1, 1, 6>>) @@
  "cdiv_not_reachable" :> Bare(<<7, 1, 1, 7>>)

cdiv_node_data ==
  [root_oid |-> <<7>>, stats |-> cdiv_stats, stat_to_handler |-> cdiv_handlers]

memento_as_node_data ==
  [root_oid |-> <<8, 1>>,
   stats |-> {"memento_completed_calls", "memento_failed_calls",
              "memento_not_recorded_overload",
              "memento_cassandra_read_latency",
              "memento_cassandra_write_latency"},
   stat_to_handler |->
     "memento_completed_calls" :> Bare(<<8, 1, 1, 1, 2>>) @@
     "memento_failed_calls" :> Bare(<<8, 1, 1, 1, 3>>) @@
     "memento_not_recorded_overload" :> Bare(<<8, 1, 1, 1, 4>>) @@
     "memento_cassandra_read_latency" :> Accumulated(<<8, 1, 2>>) @@
     "memento_cassandra_write_latency" :> Accumulated(<<8, 1, 3>>)]

memento_http_node_data ==
  [root_oid |-> <<8, 2>>,
   stats |-> {"http_incoming_requests", "http_rejected_overload",
              "http_latency_us", "cassandra_read_latency", "record_size",
              "record_length"},
   stat_to_handler |->
     "http_incoming_requests" :> Bare(<<8, 2, 1, 1, 2>>) @@
     "http_rejected_overload" :> Bare(<<8, 2, 1, 1, 3>>) @@
     "http_latency_us" :> Accumulated(<<8, 2, 2>>) @@
     "cassandra_read_latency" :> Accumulated(<<8, 2, 3>>) @@
     "record_size" :> Accumulated(<<8, 2, 4>>) @@
     "record_length" :> Accumulated(<<8, 2, 5>>)]

memento_auth_node_data ==
  [root_oid |-> <<8, 3>>,
   stats |-> {"auth_challenges", "auth_attempts", "auth_successes",
              "auth_failures", "auth_stales"},
   stat_to_handler |->
     "auth_challenges" :> Bare(<<8, 3, 2, 1, 2>>) @@
     "auth_attempts" :> Bare(<<8, 3, 2, 1, 3>>) @@
     "auth_successes" :> Bare(<<8, 3, 2, 1, 4>>) @@
     "auth_failures" :> Bare(<<8, 3, 2, 1, 5>>) @@
     "auth_stales" :> Bare(<<8, 3, 2, 1, 6>>)]

astaire_node_data ==
  [root_oid |-> <<9>>,
   stats |-> {"astaire_global", "astaire_connections"},
   stat_to_handler |->
     "astaire_global" :> Handler("AstaireGlobal", <<9>>) @@
     "astaire_connections" :> Handler("AstaireConnection", <<9>>)]

(* What the init function of each library initialises, in order. *)
init_cdiv_handler == << cdiv_node_data >>
init_memento_as_handler == << memento_as_node_data >>
init_memento_handler == << memento_http_node_data, memento_auth_node_data >>
init_astaire_handler == << astaire_node_data >>
=============================================================================
