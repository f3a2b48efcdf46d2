------------------------------- MODULE MCStats ------------------------------
(* A small instance of the statistics libraries.                           *)
EXTENDS StatsHandler, NodeData

(* The handlers no library of the repository uses any more. *)
OtherHandlers ==
  << [root_oid |-> <<3>>,
      stats |-> {"connected_homers", "queue_size", "latency_scope"},
      stat_to_handler |->
        "connected_homers" :> Handler("IPCount", <<3, 1>>) @@
        "queue_size" :> Handler("SingleNumber", <<3, 2>>) @@
        "latency_scope" :> Handler("SingleNumberWithScope", <<3, 3>>)] >>

(* snmpd takes one request at a time; two at once are checked where it is  *)
(* cheapest.                                                               *)
Instance(init, who) ==
  [library |-> init, requesters |-> who]

AllInstances ==
  {Instance(init, {1}) :
     init \in {init_cdiv_handler, init_memento_as_handler,
               init_memento_handler, init_astaire_handler}} \cup
  {Instance(OtherHandlers, {1, 2})}

MementoInstances == {Instance(init_memento_handler, {1})}

Longer == {<<"auth_stales", "auth_stales_total">>}

IPv4 == [number |-> 10, addr |-> [type |-> 1, bytes |-> <<10, 0, 0, 1>>]]
IPv6 == [number |-> 0,
         addr |-> [type |-> 2, bytes |-> [i \in 1 .. 16 |-> i \div 16]]]
NoAddress == [number |-> 7, addr |-> [type |-> 0, bytes |-> <<>>]]

Parts(ns) == [parts : ns]
Connection(addr, buckets) == [addr |-> addr, port |-> 11, buckets |-> buckets]

MCShapes ==
  [IPCount |-> {[rows |-> <<IPv4, NoAddress, IPv6>>, parts |-> 6],
                [rows |-> <<IPv6, IPv4>>, parts |-> 3]},
   Bare |-> Parts({0, 1}),
   SingleNumber |-> Parts({0, 1}),
   SingleNumberWithScope |-> Parts({0, 1}),
   AccumulatedWithCount |-> Parts({4, 5}),
   AstaireGlobal |-> Parts({4, 5}),
   AstaireConnection |->
     {[rows |-> <<Connection(IPv4, <<1>>)>>, parts |-> 4],
      [rows |-> <<Connection(IPv4, <<1, 2>>), Connection(IPv6, <<1>>)>>, parts |-> 22],
      [rows |-> <<Connection(IPv4, <<2>>), Connection(IPv6, <<1>>)>>, parts |-> 17],
      [rows |-> <<Connection(IPv6, << >>), Connection(NoAddress, <<1>>)>>, parts |-> 14]}]
=============================================================================
