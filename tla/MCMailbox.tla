----------------------------- MODULE MCMailbox -----------------------------
(* Small instances of Mailbox: two senders, up to four messages.           *)
EXTENDS Mailbox, TLC

CONSTANTS s1, s2, m1, m2, m3, m4

TwoSenders == {s1, s2}
Messages3  == {m1, m2, m3}
Messages4  == {m1, m2, m3, m4}

(* One sender sends a run of messages, the other a single one: enough for  *)
(* order within a sender and for overtaking by another.                    *)
ThreeAndOne == (s1 :> <<m1, m2, m3>>) @@ (s2 :> <<m4>>)
TwoAndOne   == (s1 :> <<m1, m2>>) @@ (s2 :> <<m3>>)

Sp(tier, policy, capacity, batch) ==
  [tier |-> tier, policy |-> policy, capacity |-> capacity, batch |-> batch]

(* Every policy whose mailbox loses nothing to a panic of its own.         *)
Sound ==
  {Sp("EventSourced", "Block", 2, 2), Sp("EventSourced", "Unbounded", 2, 2),
   Sp("EventSourced", "DropNew", 1, 1), Sp("Service", "Block", 1, 2)}

(* Every policy and both tiers, as small as they come.                     *)
Smallest ==
  {Sp("EventSourced", "Block", 1, 1), Sp("EventSourced", "DropOld", 1, 1),
   Sp("Service", "DropNew", 1, 2), Sp("Service", "Unbounded", 1, 2)}

Evicting      == {Sp("EventSourced", "DropOld", 1, 1)}
Blocking      == {Sp("EventSourced", "Block", 1, 1)}
ServiceBlocks == {Sp("Service", "Block", 1, 1)}

(* The properties read a message as its (sender, position).                *)
ASSUME EveryEnvelopeSentOnce == DistinctPrograms

(* The offsets do not run out.                                             *)
ASSUME MaxOffsetSuffices == OffsetsSuffice
=============================================================================
