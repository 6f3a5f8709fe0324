---------------------------- MODULE MCStreamLane ----------------------------
(***************************************************************************)
(* Small instances of StreamLane.  Every stream starts at time 0 and pays  *)
(* one unit per period of one tick.                                        *)
(***************************************************************************)
EXTENDS StreamLane, TLC

CONSTANTS s1, s2, LandsOf

Both == {"direct", "offer"}
MCRate == [s \in Streams |-> 1]
MCTerms ==
  [ s \in Streams |->
      [vestingMode |-> Linear, totalDeposited |-> 2, startTime |-> 0, endTime |-> 2] ]
MCLands == [s \in Streams |-> IF s = s1 THEN Both ELSE LandsOf]
OnlyDirect == [s \in Streams |-> {"direct"}]
MCTermEnd == [s \in Streams |-> IF s = s1 THEN 2 ELSE 0]
OwnPairs == [s \in Streams |-> s]
AnyWorker == Permutations(Workers)
OnePair == [s \in Streams |-> s1]
============================================================================
