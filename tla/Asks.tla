-------------------------------- MODULE Asks --------------------------------
(***************************************************************************)
(* Asks between service actors and from the host: the reply lease          *)
(* (ReplyTable), the request's way into the mailbox, the handler that may  *)
(* ask in its turn before its reply is flushed, the timeout and the        *)
(* settlement (ask_via_port_payload).                                      *)
(*                                                                         *)
(* Time is free: a lease may expire on the injected clock, and a timeout   *)
(* fire on tokio's, at any moment; the two clocks are not compared.  An    *)
(* ask is numbered by its opening; a reply is named by the ask that its    *)
(* request came from.                                                      *)
(***************************************************************************)
EXTENDS Naturals, Sequences, FiniteSets, Functions

CONSTANTS
  Actors,    \* the service actors
  Clients,   \* tasks of the host that ask
  Nobody,    \* a handler that asks nobody
  Wirings,   \* whom each actor's handler asks, one choice per run
  Capacity,  \* the mailboxes' capacity (Block)
  MaxAsks,   \* MODEL BOUND: asks opened
  Budgets    \* MODEL BOUND: how often each of AllFaults may happen, one choice per run

AllFaults ==
  {"panic",  \* a handler panics; supervision starts a fresh cell
   "stop",   \* an idle actor is stopped
   "abort"}  \* a task that awaits an ask is aborted

ASSUME AsksAssumption ==
  /\ Actors \cap Clients = {} /\ Nobody \notin Actors
  /\ Wirings \subseteq [Actors -> Actors \cup {Nobody}]
  /\ {Capacity, MaxAsks} \subseteq Nat
  /\ Budgets \subseteq [AllFaults -> Nat]

VARIABLES
  wiring,   \* this run's wiring; never changes
  asks,     \* every ask there has been
  replies,  \* the ReplyTable: each live lease's ask
  expired,  \* the leases whose time is over
  mailbox,  \* per actor: the requests on their way through door and inbox
  actor,    \* per actor: what it is doing, for which request
  left      \* faults still to come

vars == <<wiring, asks, replies, expired, mailbox, actor, left>>

Asked == DOMAIN asks
Underway == {"delivering", "waiting", "decided"}
(* Mutant: the wait for the reply has no timeout.                          *)
OutcomesUntimed == {"Replied", "Failed"}

(* ask_channel: what the wait for the reply, under its timeout, ends with. *)
Outcomes == {"Replied", "Failed", "Timeout"}

TypeOK ==
  /\ wiring \in Wirings
  /\ asks \in Seq([asker : Actors \cup Clients, dest : Actors,
                   at : Underway \cup {"settled", "aborted"},
                   lost : BOOLEAN, got : Nat, outcome : {"none"} \cup Outcomes])
  /\ DOMAIN replies \subseteq Asked /\ \A lease \in DOMAIN replies : replies[lease] \in Asked
  /\ expired \subseteq Asked
  /\ mailbox \in [Actors -> Seq(Asked)]
  /\ actor \in [Actors -> [at : {"idle", "handling", "asking", "flushing", "gone"},
                           request : {0} \cup Asked]]
  /\ left \in [AllFaults -> Nat]

Init ==
  /\ wiring \in Wirings
  /\ asks = <<>> /\ replies = <<>> /\ expired = {}
  /\ mailbox = [a \in Actors |-> <<>>]
  /\ actor = [a \in Actors |-> [at |-> "idle", request |-> 0]]
  /\ left \in Budgets

Spend(fault) == left[fault] > 0 /\ left' = [left EXCEPT ![fault] = @ - 1]

(* A mailbox under Block: the channel, the door's hand, the inbox.         *)
Room == Capacity + 1 + Capacity

Busy(x) == \E k \in Asked : asks[k].asker = x /\ asks[k].at \in Underway

----------------------------------------------------------------------------
(* The asker.                                                              *)

(* Mutant: one lease for all asks of an asker.                             *)
LeasePerAsker(k, asker) == asker

(* next_lease_id never repeats.                                            *)
Lease(k, asker) == k

(* ask_channel: expired leases are reaped, then the new one is entered.    *)
(* An ask of a path without a slot fails before that and leaves no trace.  *)
Open(asker, dest) ==
  LET k == Len(asks) + 1
  IN  /\ Len(asks) < MaxAsks
      /\ actor[dest].at # "gone"
      /\ asks' = Append(asks, [asker |-> asker, dest |-> dest, at |-> "delivering",
                               lost |-> FALSE, got |-> 0, outcome |-> "none"])
      /\ replies' = [lease \in {Lease(k, asker)} \cup (DOMAIN replies \ expired) |->
                       IF lease = Lease(k, asker) THEN k ELSE replies[lease]]
      /\ expired' = {}
      /\ UNCHANGED <<wiring, mailbox, left>>

ClientAsks(c) ==
  /\ ~Busy(c)
  /\ \E a \in Actors : Open(c, a)
  /\ UNCHANGED actor

(* deliver_with_retry waits for room in the channel, without a timeout.    *)
Deliver(k) ==
  LET peer == asks[k].dest
  IN  /\ asks[k].at = "delivering"
      /\ IF asks[k].lost
         THEN UNCHANGED mailbox
         ELSE /\ Len(mailbox[peer]) < Room
              /\ mailbox' = [mailbox EXCEPT ![peer] = Append(@, k)]
      /\ asks' = [asks EXCEPT ![k].at = "waiting"]
      /\ UNCHANGED <<wiring, replies, expired, actor, left>>

Live(k) == \E lease \in DOMAIN replies : replies[lease] = k

(* The wait under the timeout ends; a reply that is there wins over it.    *)
Decide(k) ==
  /\ asks[k].at = "waiting"
  /\ \E outcome \in Outcomes :
       /\ (outcome = "Replied") <=> (asks[k].got # 0)
       /\ outcome = "Failed" => ~Live(k)
       /\ asks' = [asks EXCEPT ![k].at = "decided", ![k].outcome = outcome]
  /\ UNCHANGED <<wiring, replies, expired, mailbox, actor, left>>

Without(lease) == Restrict(replies, DOMAIN replies \ {lease})

(* Mutant: an ask that ends without its reply leaves its lease.            *)
CancelNothing(lease) == UNCHANGED <<replies, expired>>

(* ReplyTable::cancel.                                                     *)
Cancel(lease) == replies' = Without(lease) /\ expired' = expired \ {lease}

(* ask_settled drops the lease; a handler that asked goes on to its reply. *)
Settle(k) ==
  LET x == asks[k].asker
  IN  /\ asks[k].at = "decided"
      /\ asks' = [asks EXCEPT ![k].at = "settled"]
      /\ Cancel(Lease(k, x))
      /\ actor' = IF x \in Actors THEN [actor EXCEPT ![x].at = "flushing"] ELSE actor
      /\ UNCHANGED <<wiring, mailbox, left>>

(* The task is dropped where it awaits: nothing settles, the lease stays.  *)
Abort(k) ==
  LET x == asks[k].asker
  IN  /\ asks[k].at \in {"delivering", "waiting"}
      /\ Spend("abort")
      /\ asks' = [asks EXCEPT ![k].at = "aborted"]
      /\ IF x \in Actors
         THEN /\ actor' = [actor EXCEPT ![x] = [at |-> "gone", request |-> 0]]
              /\ mailbox' = [mailbox EXCEPT ![x] = <<>>]
         ELSE UNCHANGED <<actor, mailbox>>
      /\ UNCHANGED <<wiring, replies, expired>>

Expire ==
  /\ \E lease \in DOMAIN replies \ expired : expired' = expired \cup {lease}
  /\ UNCHANGED <<wiring, asks, replies, mailbox, actor, left>>

----------------------------------------------------------------------------
(* The answering actor.                                                    *)

(* The request is consumed when it is handed to the handler.               *)
Begin(a) ==
  /\ actor[a].at = "idle" /\ mailbox[a] # <<>>
  /\ actor' = [actor EXCEPT ![a] = [at |-> "handling", request |-> Head(mailbox[a])]]
  /\ mailbox' = [mailbox EXCEPT ![a] = Tail(@)]
  /\ UNCHANGED <<wiring, asks, replies, expired, left>>

AskPeer(a) ==
  /\ actor[a].at = "handling" /\ wiring[a] # Nobody
  /\ Open(a, wiring[a])
  /\ actor' = [actor EXCEPT ![a].at = "asking"]

(* ReplyTable::complete: the lease is used up, its ask gets the value.     *)
Complete(lease, value) ==
  IF lease \in DOMAIN replies
  THEN /\ asks' = [asks EXCEPT ![replies[lease]].got = value]
       /\ replies' = Without(lease) /\ expired' = expired \ {lease}
  ELSE UNCHANGED <<asks, replies, expired>>

(* flush_outbox: the reply, if the handler made one it may emit.           *)
Flush(a) ==
  LET k == actor[a].request
  IN  /\ actor[a].at = "flushing" \/ (actor[a].at = "handling" /\ wiring[a] = Nobody)
      /\ \/ Complete(Lease(k, asks[k].asker), k)
         \/ UNCHANGED <<asks, replies, expired>>
      /\ actor' = [actor EXCEPT ![a] = [at |-> "idle", request |-> 0]]
      /\ UNCHANGED <<wiring, mailbox, left>>

(* A handler need not ask, nor find its peer.                              *)
AskNot(a) ==
  /\ actor[a].at = "handling" /\ wiring[a] # Nobody
  /\ actor' = [actor EXCEPT ![a].at = "flushing"]
  /\ UNCHANGED <<wiring, asks, replies, expired, mailbox, left>>

(* What is queued, and what was sent to the old endpoint, is lost.         *)
Loses(a) ==
  /\ mailbox' = [mailbox EXCEPT ![a] = <<>>]
  /\ asks' = [k \in Asked |->
       IF asks[k].dest = a /\ asks[k].at = "delivering"
       THEN [asks[k] EXCEPT !.lost = TRUE] ELSE asks[k]]

Panic(a) ==
  /\ actor[a].at \in {"handling", "flushing"}
  /\ Spend("panic")
  /\ Loses(a)
  /\ actor' = [actor EXCEPT ![a] = [at |-> "idle", request |-> 0]]
  /\ UNCHANGED <<wiring, replies, expired>>

Stop(a) ==
  /\ actor[a].at = "idle"
  /\ Spend("stop")
  /\ Loses(a)
  /\ actor' = [actor EXCEPT ![a].at = "gone"]
  /\ UNCHANGED <<wiring, replies, expired>>

----------------------------------------------------------------------------
Ask(k) == Deliver(k) \/ Decide(k) \/ Settle(k)

Serve(a) == Begin(a) \/ AskPeer(a) \/ AskNot(a) \/ Flush(a)

Next ==
  \/ \E c \in Clients : ClientAsks(c)
  \/ \E k \in Asked : Ask(k) \/ Abort(k)
  \/ \E a \in Actors : Serve(a) \/ Panic(a) \/ Stop(a)
  \/ Expire

Spec == Init /\ [][Next]_vars

(* Handlers return, timeouts fire; nobody has to ask.                      *)
Fairness ==
  /\ WF_vars(\E k \in Asked : Ask(k))
  /\ WF_vars(\E a \in Actors : Serve(a))

FairSpec == Spec /\ Fairness

----------------------------------------------------------------------------
(* Properties.                                                             *)

(* However late a reply comes, and however often the asker has asked again,*)
(* an ask gets the reply to its own request or none.                       *)
OwnReply == \A k \in Asked : asks[k].got \in {0, k}

(* A lease dies with its ask: the table has no slot of an ask that has     *)
(* settled, and of an aborted one only until another ask reaps it.         *)
LeaseDies ==
  \A k \in Asked :
    Live(k) => asks[k].at \in Underway \cup {"aborted"}

(* Every ask is settled in the end, though its peer panics, stops, never   *)
(* replies, or asks the asker back: as long as the mailboxes have room for *)
(* the requests, since the delivery itself is not under the timeout.       *)
Pending == {k \in Asked : asks[k].at \in Underway}

AsksSettle == []<>(Pending = {})
=============================================================================
