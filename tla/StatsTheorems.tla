---------------------------- MODULE StatsTheorems ---------------------------
(***************************************************************************)
(* What holds of every statistics library, for every node data, message    *)
(* and number of threads: the facts about handlers (HandlerFacts) hold, so *)
(* the invariants of StatsProofs and StatsTreeProofs do, and they imply    *)
(* the properties of StatsHandler.                                         *)
(***************************************************************************)
EXTENDS OIDTreeProofs, ConnectionProofs, StatsTreeProofs

(* What the proofs about a library use of its handlers holds. *)
LEMMA HandlersHold == HandlerFacts
<1>1. PutsAreTyped
  BY PutsTyped, Zenon DEF PutsAreTyped
<1>2. ApplyIsExact
  BY FS_EmptySet, ApplyHolds, Zenon DEF ApplyIsExact
<1>3. HandlersMakeCalls
  BY HandleCalls, Zenon DEF HandlersMakeCalls
<1>4. CallsKeepToOwn
  BY OwnCalls, Zenon DEF CallsKeepToOwn
<1>5. RootsAreOIDs
  BY RootsApart, Zenon DEF RootsAreOIDs
<1>6. CallsLeaveOthers
  BY OthersCalls, Zenon DEF CallsLeaveOthers
<1>7. NextIsSuccessor
  BY GetNextIsSuccessor, Zenon DEF NextIsSuccessor
<1> QED
  BY <1>1, <1>2, <1>3, <1>4, <1>5, <1>6, <1>7, TextsHold, CountsHold, Zenon DEF HandlerFacts

(* When no message of a statistic is being applied, the tree holds for it  *)
(* exactly what the calls of its last message put there, however messages  *)
(* and requests interleave: handlers replace what they own and leave what  *)
(* belongs to others alone.                                                *)
THEOREM TreeIsLatestThm == StatsSpec => []TreeIsLatest
<1>1. KnownInv => TreeIsLatest
  BY TreeInvIsLatest DEF KnownInv
<1> QED
  BY <1>1, HandlersHold, Known, PTL

(* Every number the handlers put into the tree is a count of the message   *)
(* they are given, and answers show it as it was sent.                     *)
THEOREM ValuesAreCountsThm == StatsSpec => []ValuesAreCounts
<1>1. KnownInv => ValuesAreCounts
  BY Counted
<1> QED
  BY <1>1, HandlersHold, Known, PTL

(* IPCountStatHandler: after a message of pairs the table has exactly the  *)
(* pairs with a valid address that the message has whole.                  *)
THEOREM CountsMatchPairsThm == StatsSpec => []CountsMatchPairs
<1>1. KnownInv => CountsMatchPairs
  BY TableRows, Zenon DEF CountsMatchPairs, Names, HandlerOf
<1> QED
  BY <1>1, HandlersHold, Known, PTL

(* AstaireConnectionStatHandler: after a message of connections the three  *)
(* tables have exactly the connections and buckets it can be read to, each *)
(* under its own index.                                                    *)
THEOREM AstaireRowsMatchThm == StatsSpec => []AstaireRowsMatch
<1>1. KnownInv => AstaireRowsMatch
  BY TableRows, Zenon DEF AstaireRowsMatch, Names, HandlerOf
<1> QED
  BY <1>1, HandlersHold, Known, PTL

(* A walk meets every OID that no message has taken away since it began.   *)
THEOREM WalkSkipsNothingThm == StatsSpec => []WalkSkipsNothing
<1>1. WalkInv => WalkSkipsNothing
  BY DEF WalkInv
<1> QED
  BY <1>1, HandlersHold, Walks, PTL

(* No answer is of an older message than one before, except from a table   *)
(* that is half replaced.                                                  *)
THEOREM AnswersGoForwardThm == StatsSpec => AnswersGoForward
BY HandlersHold, Forward

(* Every variable keeps to its type; above all no value of the tree leaves *)
(* the range of an int.                                                    *)
THEOREM StatsTypeThm == StatsSpec => []StatsTypeOK
<1>1. OwnTypeOK /\ AnswerInv /\ KnownInv => StatsTypeOK
  BY Typed
<1> QED
  BY <1>1, HandlersHold, OwnTypes, Answered, PTL
=============================================================================
