------------------------------- MODULE MCAsks -------------------------------
(* Asks with two actors, one of which asks the other; or both.             *)
EXTENDS Asks, TLC

CONSTANTS a, b, c

Chain  == (a :> b) @@ (b :> Nobody)
Mutual == (a :> b) @@ (b :> a)

ChainOrMutual == {Chain, Mutual}

OneFault ==
  {[fault \in AllFaults |-> IF fault = it THEN 1 ELSE 0] : it \in AllFaults}
=============================================================================
