----------------------------- MODULE MCStopTree -----------------------------
(* StopTree with a service actor and its two event-sourced children.       *)
EXTENDS StopTree, TLC

CONSTANTS top, c1, c2, h1, h2

Family == {top, c1, c2}

Descent == (top :> Nobody) @@ (c1 :> top) @@ (c2 :> top)

TwoHosts == {h1, h2}

(* A stop or a sweep of the whole family; with one child, two stops that   *)
(* may meet, or a stop and a sweep.                                        *)
Scenario(alive, stops, sweeps) == [alive |-> alive, stops |-> stops, sweeps |-> sweeps]

FourScenarios ==
  {Scenario(Family, 1, 0), Scenario(Family, 0, 1),
   Scenario({top, c1}, 2, 0), Scenario({top, c1}, 1, 1)}
=============================================================================
