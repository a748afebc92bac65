----------------------------- MODULE FifoQueue -----------------------------
(***************************************************************************)
(* What an actor's mailbox promises its actor: a FIFO queue.  A message is *)
(* accepted at the back; the actor finishes a batch at the front by        *)
(* removing it whole; a full DropOld mailbox trades its oldest message for *)
(* the new one.  A crash is not an action of this specification: an actor  *)
(* that fails before it finishes a batch leaves the queue as it was.       *)
(***************************************************************************)
EXTENDS Naturals, Sequences

CONSTANTS
  Envelope,  \* the messages
  Contracts  \* the mailboxes there are: records with a policy and a batch

VARIABLES
  contract,  \* this mailbox's: what it does when full, how many it finishes
  pending,   \* accepted and not finished, oldest first
  done       \* finished, in order

vars == <<contract, pending, done>>

Init == contract \in Contracts /\ pending = <<>> /\ done = <<>>

Accept(e) ==
  /\ pending' = Append(pending, e)
  /\ UNCHANGED <<contract, done>>

Evict(e) ==
  /\ contract.policy = "DropOld" /\ pending # <<>>
  /\ pending' = Append(Tail(pending), e)
  /\ UNCHANGED <<contract, done>>

Finish(n) ==
  /\ n <= contract.batch /\ n <= Len(pending)
  /\ done' = done \o SubSeq(pending, 1, n)
  /\ pending' = SubSeq(pending, n + 1, Len(pending))
  /\ UNCHANGED contract

Next ==
  \/ \E e \in Envelope : Accept(e) \/ Evict(e)
  \/ \E n \in 1 .. Len(pending) : Finish(n)

Spec == Init /\ [][Next]_vars
============================================================================
