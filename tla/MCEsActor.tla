----------------------------- MODULE MCEsActor -----------------------------
(* Small instances of EsActor: commands that record none, one or several    *)
(* facts, one that nobody handles, one that also records an undeclared     *)
(* fact.                                                                   *)
EXTENDS EsActor, TLC

CONSTANTS c1, c2, c3, c4

Commands == {c1, c2, c3, c4}
Mixed    == <<c2, c1, c3, c4>>
Weights  == (c1 :> 1) @@ (c2 :> 2) @@ (c3 :> 0) @@ (c4 :> 1)
OddOne   == {c3}
Loose    == {c4}
Nobody   == {}

Sp(batch, cadence, every) ==
  [batch |-> batch, cadence |-> cadence, every |-> every]

(* Batches without a count cadence; a count cadence over single messages,  *)
(* whose first command lands on the boundary by itself.                    *)
Various  == {Sp(2, "Time", 1), Sp(1, "Off", 1), Sp(1, "Messages", 2)}

Counted  == {Sp(2, "Messages", 2)}

ASSUME EveryCommandSentOnce == DistinctScript
=============================================================================
