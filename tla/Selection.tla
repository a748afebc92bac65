----------------------------- MODULE Selection -----------------------------
(***************************************************************************)
(* The part of a sequence at some of its places, in order: what a filter   *)
(* or a retain keeps.  (SelectSeq, stated by places and not by recursion.) *)
(***************************************************************************)
EXTENDS Naturals, Sequences, FiniteSets

(* How many of the places are k or come before it.                         *)
RankIn(places, k) == Cardinality({j \in places : j <= k})

(* places \subseteq DOMAIN s                                               *)
Select(s, places) ==
  [n \in 1 .. Cardinality(places) |-> s[CHOOSE k \in places : RankIn(places, k) = n]]
============================================================================
