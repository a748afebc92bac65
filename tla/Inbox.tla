------------------------------- MODULE Inbox -------------------------------
(***************************************************************************)
(* The per-actor inbox of src/src/inbox.rs: a bounded FIFO under a         *)
(* monotonic offset space, with claims.  A step CLAIMS a run of envelopes  *)
(* by moving them out of their slots; a tombstone keeps each slot (and its *)
(* share of the capacity) until the claim is committed or restored.        *)
(*                                                                         *)
(* The code keeps a VecDeque of (offset, Option<Envelope>).  Offsets are   *)
(* handed out in push order and entries never change position, so the      *)
(* deque is the function `slots' from offsets to contents read in offset   *)
(* order: Vacant is "no entry", Tombstone is the None of a claimed entry.  *)
(*                                                                         *)
(* This module is pure: operators on an inbox value, no variables.         *)
(***************************************************************************)
EXTENDS Naturals, FiniteSets

CONSTANTS
  Envelope,    \* the messages
  MaxOffset,   \* MODEL BOUND: the last offset the run can hand out
  Tombstone,   \* the content of a claimed slot
  Vacant       \* an offset with no entry

Policies == {"Block", "DropNew", "DropOld", "Unbounded"}

ASSUME InboxAssumption ==
  /\ MaxOffset \in Nat
  /\ Tombstone \notin Envelope
  /\ Vacant \notin Envelope
  /\ Tombstone # Vacant

Offset == 0 .. MaxOffset

InboxType ==
  [slots    : [Offset -> Envelope \cup {Tombstone, Vacant}],
   next     : Nat,
   cursor   : Nat,
   open     : BOOLEAN,
   capacity : Nat \ {0},   \* the bound on entries, claims in flight included
   policy   : Policies]    \* what a full inbox does: OverloadPolicy

EmptyInbox(capacity, policy) ==
  [slots    |-> [o \in Offset |-> Vacant],
   next     |-> 0,
   cursor   |-> 0,
   open     |-> TRUE,
   capacity |-> capacity,
   policy   |-> policy]

Queued(box) == {o \in Offset : box.slots[o] # Vacant}
Live(box)   == {o \in Offset : box.slots[o] \in Envelope}

IsFull(box) ==
  /\ box.policy # "Unbounded"
  /\ Cardinality(Queued(box)) >= box.capacity

(* The offset at the front of the deque (of a box that holds an entry). *)
Front(box) == CHOOSE o \in Queued(box) : \A p \in Queued(box) : o <= p

----------------------------------------------------------------------------
(* push: what a push into `box' answers, and the box it leaves.  A DropOld *)
(* eviction pops the front BEFORE it looks at its content: on a tombstone   *)
(* the expect() panics with the entry gone and nothing queued.             *)

PushAnswer(box) ==
  CASE ~box.open                                         -> "Closed"
    [] box.open /\ ~IsFull(box)                          -> "Queued"
    [] box.open /\ IsFull(box) /\ box.policy # "DropOld" -> "Full"
    [] box.open /\ IsFull(box) /\ box.policy = "DropOld" ->
         IF box.slots[Front(box)] = Tombstone THEN "EvictPanic" ELSE "Evicted"

QueueNext(box, e) == [box EXCEPT !.slots[box.next] = e, !.next = @ + 1]

PopFront(box) == [box EXCEPT !.slots[Front(box)] = Vacant]

Push(box, e) ==
  CASE PushAnswer(box) = "Queued"     -> QueueNext(box, e)
    [] PushAnswer(box) = "Evicted"    ->
         QueueNext([PopFront(box) EXCEPT !.cursor = @ + 1], e)
    [] PushAnswer(box) = "EvictPanic" -> PopFront(box)
    [] OTHER                          -> box

----------------------------------------------------------------------------
(* claim_up_to: the run of entries contiguous from the cursor, at most n.  *)

ClaimRun(box, n) ==
  {o \in Offset : /\ box.cursor <= o /\ o < box.cursor + n
                  /\ \A p \in Offset :
                       box.cursor <= p /\ p <= o => box.slots[p] # Vacant}

(* The expect() of claim_up_to: a tombstone inside the run. *)
ClaimPanics(box, n) == \E o \in ClaimRun(box, n) : box.slots[o] = Tombstone

Take(box, offsets) ==
  [box EXCEPT !.slots = [o \in Offset |->
                           IF o \in offsets THEN Tombstone ELSE @[o]]]

(* What those entries hold, before they are taken.                          *)
Contents(box, offsets) ==
  [o \in Offset |-> IF o \in offsets THEN box.slots[o] ELSE Vacant]

(* restore_claims: `claims' maps an offset to the envelope claimed there.   *)
RestorePanics(box, claims) ==
  \E o \in Offset : /\ claims[o] # Vacant
                    /\ box.slots[o] # Tombstone \/ o < box.cursor

(* Mutants: the restore drops the claims; it fills the slots backwards.     *)
RestoreDropsClaims(box, claims) ==
  [box EXCEPT !.slots = [o \in Offset |-> IF claims[o] # Vacant THEN Vacant ELSE @[o]]]

RestoreBackwards(box, claims) ==
  LET mine == {o \in Offset : claims[o] # Vacant}
      lo == CHOOSE o \in mine : \A p \in mine : o <= p
      hi == CHOOSE o \in mine : \A p \in mine : p <= o
  IN  [box EXCEPT !.slots = [o \in Offset |->
                               IF o \in mine THEN claims[lo + hi - o] ELSE @[o]]]

Restore(box, claims) ==
  [box EXCEPT !.slots = [o \in Offset |->
                           IF claims[o] # Vacant THEN claims[o] ELSE @[o]]]

(* commit_through: pops every entry at or before `offset'.                  *)
CommitThrough(box, offset) ==
  [box EXCEPT !.slots  = [o \in Offset |-> IF o <= offset THEN Vacant ELSE @[o]],
              !.cursor = offset + 1]

CommitPops(box, offset) == \E o \in Queued(box) : o <= offset

(* Mutant: the drain copies what it returns.                               *)
DrainLiveCopies(box) == box

(* close, reopen, and drain_live: live entries leave, tombstones stay.      *)
Close(box)  == [box EXCEPT !.open = FALSE]
Reopen(box) == [box EXCEPT !.open = TRUE]
DrainLive(box) ==
  [box EXCEPT !.slots = [o \in Offset |->
                           IF @[o] \in Envelope THEN Vacant ELSE @[o]]]
============================================================================
