--------------------------- MODULE JournalStore ----------------------------
(***************************************************************************)
(* What a journal store promises its callers: one growing sequence of      *)
(* facts per path, with the anchor of its last snapshot.  An acknowledged  *)
(* fact stays where it was recorded until the path is dropped; the death   *)
(* of the process may cut journals short, never out of their middle.       *)
(* Buffers, flushes, loads and cold storage are not visible here.          *)
(***************************************************************************)
EXTENDS Integers, Sequences

CONSTANTS
  Paths,     \* the actors' paths
  Recorded   \* the origin of a decision, as against a catch-up

VARIABLES
  events,    \* for each path, the facts it holds and their origins
  anchor,    \* for each path, the seq of the last fact its snapshot covers
  lives      \* how often the process may still die

vars == <<events, anchor, lives>>

NoAnchor == -1

Holds(p, origin) == \E i \in DOMAIN events[p] : events[p][i].origin = origin

(* What a step appends to the path.                                        *)
Fresh(p) == SubSeq(events'[p], Len(events[p]) + 1, Len(events'[p]))

Extend(p) ==
  /\ Fresh(p) # <<>>
  /\ events' = [events EXCEPT ![p] = @ \o Fresh(p)]
  /\ UNCHANGED <<anchor, lives>>

Init ==
  /\ events = [p \in Paths |-> <<>>]
  /\ anchor = [p \in Paths |-> NoAnchor]
  /\ lives \in Nat

(* A batch of decisions.                                                   *)
Record(p) ==
  /\ \A i \in DOMAIN Fresh(p) : Fresh(p)[i].origin = Recorded
  /\ Extend(p)

(* A fact seeded from another path, at most once for each origin.          *)
Checkpoint(p) ==
  /\ Len(Fresh(p)) = 1
  /\ Fresh(p)[1].origin # Recorded
  /\ ~Holds(p, Fresh(p)[1].origin)
  /\ Extend(p)

Memoize(p) ==
  /\ events[p] # <<>>
  /\ anchor' = [anchor EXCEPT ![p] = Len(events[p]) - 1]
  /\ UNCHANGED <<events, lives>>

Drop(p) ==
  /\ events' = [events EXCEPT ![p] = <<>>]
  /\ anchor' = [anchor EXCEPT ![p] = NoAnchor]
  /\ UNCHANGED lives

(* What survives of a journal is a beginning of it, and of its snapshots   *)
(* one that covers no more than survives.                                  *)
Cut(p) ==
  \E n \in 0 .. Len(events[p]) :
    /\ events'[p] = SubSeq(events[p], 1, n)
    /\ anchor'[p] \in NoAnchor .. n - 1
    /\ anchor'[p] <= anchor[p]

Die ==
  /\ lives' = lives - 1
  /\ DOMAIN events' = Paths /\ DOMAIN anchor' = Paths
  /\ \A p \in Paths : Cut(p)

Next ==
  \/ \E p \in Paths : Record(p) \/ Checkpoint(p) \/ Memoize(p) \/ Drop(p)
  \/ Die

Spec == Init /\ [][Next]_vars
============================================================================
