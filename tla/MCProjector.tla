---------------------------- MODULE MCProjector ----------------------------
(* Projector with two sources, the first of which records two facts.       *)
EXTENDS Projector

CONSTANTS a, b

TwoSources == {a, b}

TwoAndOne == [s \in TwoSources |-> IF s = a THEN 2 ELSE 1]

Once(faults) == [fault \in AllFaults |-> IF fault \in faults THEN 1 ELSE 0]

OneFault == {Once({fault}) : fault \in AllFaults}

NoFault == {Once({})}
============================================================================
