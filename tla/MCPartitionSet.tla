--------------------------- MODULE MCPartitionSet ---------------------------
(* PartitionSet with two senders: one tells two messages, the other one.   *)
EXTENDS PartitionSet, TLC

CONSTANTS s1, s2, m1, m2, m3

TwoSenders == {s1, s2}

TwoAndOne == (s1 :> <<m1, m2>>) @@ (s2 :> <<m3>>)

Once(faults) == [fault \in AllFaults |-> IF fault \in faults THEN 1 ELSE 0]

OneFault == {Once({fault}) : fault \in AllFaults}

NoFault == {Once({})}
=============================================================================
