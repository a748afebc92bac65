------------------------------ MODULE Mailbox ------------------------------
(***************************************************************************)
(* One actor's delivery path: senders push the inbox directly and fall     *)
(* back to the front-door channel; the door task holds what Block refuses; *)
(* the step loop claims, commits or restores; supervision restarts a       *)
(* crashed loop behind a fresh endpoint over the SAME inbox; teardown       *)
(* flushes what is left to the dead letters.                               *)
(*                                                                         *)
(* An incarnation is one endpoint swap: a front-door channel, the door     *)
(* task draining it and the step loop started with it.  Old doors never    *)
(* end (each owns, through its endpoint, the sending half of the channel   *)
(* it reads), so all incarnations' doors push the one inbox.               *)
(***************************************************************************)
EXTENDS Inbox, Sequences, FiniteSetsExt

CONSTANTS
  Senders,        \* the sending tasks
  Program,        \* what each sender sends, in order
  Spawns,         \* the spawn configurations the actor may have: Spawn
  MaxIncarnation, \* MODEL BOUND: supervised restarts + 1
  MaxParks,       \* BLOCK_HOLD_MAX_PARKS
  Faults          \* which of AllFaults the environment may do

AllFaults ==
  {"panic",        \* a handler panics, or the journal append fails
   "selfStop",     \* a service handler's stop_self
   "passivation",  \* an idle window elapses (event-sourced tier)
   "externalStop", \* ActorSystem::stop
   "contention",   \* teardown's try_lock meets another task in the inbox
   "earlyRestart"} \* supervision restarts before the old step has unwound

(* What a spawn fixes in the cell: the tier (when a claim commits), the    *)
(* mailbox and the step batch.                                             *)
Spawn ==
  [tier     : {"EventSourced", "Service"},
   policy   : Policies,
   capacity : Nat \ {0},
   batch    : Nat \ {0}]

ASSUME MailboxAssumption ==
  /\ Program \in [Senders -> Seq(Envelope)]
  /\ Spawns \subseteq Spawn
  /\ MaxIncarnation \in Nat \ {0}
  /\ MaxParks \in Nat
  /\ Faults \subseteq AllFaults

Incarnation == 1 .. MaxIncarnation

VARIABLES
  cell,         \* the spawn's configuration; never changes
  inbox,        \* the actor's Inbox (cell.inbox)
  work,         \* cell.work holds a permit
  space,        \* cell.space_available holds a permit
  chan,         \* per incarnation: its front-door channel
  held,         \* per incarnation: what its door has in hand
  parks,        \* per incarnation: parks of the envelope in hand
  door,         \* per incarnation: where its door task stands
  claims,       \* per incarnation: its step's un-committed claims
  loop,         \* per incarnation: where its step loop stands
  after,        \* per incarnation: the loop's state once it has unwound
  passivating,  \* per incarnation: draining before it passivates
  current,      \* the incarnation the registry slot resolves to
  crashed,      \* cell.crashed
  stopping,     \* cell.stopping
  slot,         \* the registry slot: "live", "drained" or "gone"
  stop,         \* the external stop: "none", "signalled", "joined"
  at,           \* per sender: where its delivery stands
  idx,          \* per sender: the message it is on
  target,       \* per sender: the endpoint it resolved
  consumed,     \* the committed messages, in commit order
  dead          \* per message: its dead letters

doorVars   == <<chan, held, parks, door>>
loopVars   == <<claims, loop, after, passivating>>
lifeVars   == <<current, crashed, stopping, slot, stop>>
senderVars == <<at, idx, target>>
vars == <<cell, inbox, work, space, doorVars, loopVars, lifeVars, senderVars,
          consumed, dead>>

Policy == cell.policy
Tier == cell.tier
Batch == cell.batch

NoClaims == [o \in Offset |-> Vacant]
Held(i) == {o \in Offset : claims[i][o] # Vacant}

DoorStates == {"ready", "pushed", "refused", "parked", "panicked"}
LoopStates == {"absent", "step", "claimed", "dispatch", "idling", "idle",
               "unwind", "restore", "flush", "exit", "crashed", "ended",
               "panicked"}

TypeOK ==
  /\ cell \in Spawns
  /\ inbox \in InboxType
  /\ work \in BOOLEAN /\ space \in BOOLEAN
  /\ chan \in [Incarnation -> Seq(Envelope)]
  /\ held \in [Incarnation -> Envelope \cup {Vacant}]
  /\ parks \in [Incarnation -> Nat]
  /\ door \in [Incarnation -> DoorStates]
  /\ claims \in [Incarnation -> [Offset -> Envelope \cup {Vacant}]]
  /\ loop \in [Incarnation -> LoopStates]
  /\ after \in [Incarnation -> {"crashed", "exit", "ended"}]
  /\ passivating \in [Incarnation -> BOOLEAN]
  /\ current \in Incarnation
  /\ crashed \in BOOLEAN /\ stopping \in BOOLEAN
  /\ slot \in {"live", "drained", "gone"}
  /\ stop \in {"none", "signalled", "joined"}
  /\ at \in [Senders -> {"send", "resolved", "pushed", "refused", "panicked"}]
  /\ idx \in [Senders -> Nat]
  /\ target \in [Senders -> Incarnation]
  /\ consumed \in Seq(Envelope)
  /\ dead \in [Envelope -> Nat]

Init ==
  /\ cell \in Spawns
  /\ inbox = EmptyInbox(cell.capacity, cell.policy)
  /\ work = FALSE /\ space = FALSE
  /\ chan = [i \in Incarnation |-> <<>>]
  /\ held = [i \in Incarnation |-> Vacant]
  /\ parks = [i \in Incarnation |-> 0]
  /\ door = [i \in Incarnation |-> "ready"]
  /\ claims = [i \in Incarnation |-> NoClaims]
  /\ loop = [i \in Incarnation |-> IF i = 1 THEN "step" ELSE "absent"]
  /\ after = [i \in Incarnation |-> "ended"]
  /\ passivating = [i \in Incarnation |-> FALSE]
  /\ current = 1
  /\ crashed = FALSE /\ stopping = FALSE
  /\ slot = "live"
  /\ stop = "none"
  /\ at = [s \in Senders |-> "send"]
  /\ idx = [s \in Senders |-> 1]
  /\ target = [s \in Senders |-> 1]
  /\ consumed = <<>>
  /\ dead = [e \in Envelope |-> 0]

----------------------------------------------------------------------------
(* tokio's Notify::notify_one: a waiting task is woken, else the permit is *)
(* stored (at most one).                                                   *)

(* A mutant: notify_waiters in the place of notify_one stores no permit.   *)
NotifySpaceWaiters ==
  /\ UNCHANGED space
  /\ door' = [d \in Incarnation |-> IF door[d] = "parked" THEN "ready" ELSE door[d]]

NotifyWork ==
  LET idlers == {i \in Incarnation : loop[i] = "idle"}
  IN  IF idlers = {}
      THEN work' = TRUE /\ UNCHANGED loop
      ELSE /\ \E i \in idlers : loop' = [loop EXCEPT ![i] = "step"]
           /\ UNCHANGED work

Parked == {d \in Incarnation : door[d] = "parked"}

NotifySpace ==
  IF Parked = {}
  THEN space' = TRUE /\ UNCHANGED door
  ELSE /\ \E d \in Parked : door' = [door EXCEPT ![d] = "ready"]
       /\ UNCHANGED space

NotifySpaceIf(freed) ==
  IF freed THEN NotifySpace ELSE UNCHANGED <<space, door>>

DeadLetter(es) ==
  dead' = [e \in Envelope |-> IF e \in es THEN dead[e] + 1 ELSE dead[e]]

----------------------------------------------------------------------------
(* Senders: route_inner for a plain path.                                  *)

Message(s) == Program[s][idx[s]]
Sending(s) == idx[s] <= Len(Program[s])

(* The registry read.  An unresolved destination returns the envelope and  *)
(* the flush dead-letters it.                                              *)
Resolve(s) ==
  /\ at[s] = "send" /\ Sending(s)
  /\ IF slot = "gone"
     THEN /\ DeadLetter({Message(s)})
          /\ idx' = [idx EXCEPT ![s] = @ + 1]
          /\ UNCHANGED <<at, target>>
     ELSE /\ at' = [at EXCEPT ![s] = "resolved"]
          /\ target' = [target EXCEPT ![s] = current]
          /\ UNCHANGED <<idx, dead>>
  /\ UNCHANGED <<cell, inbox, work, space, doorVars, loopVars, lifeVars,
                 consumed>>

(* direct_push, up to the release of the inbox lock.                       *)
DirectPush(s) ==
  /\ at[s] = "resolved"
  /\ LET answer == PushAnswer(inbox)
     IN /\ inbox' = Push(inbox, Message(s))
        /\ at' = [at EXCEPT ![s] =
                    CASE answer \in {"Queued", "Evicted"} -> "pushed"
                      [] answer \in {"Full", "Closed"}    -> "refused"
                      [] answer = "EvictPanic"            -> "panicked"]
        /\ IF answer = "Evicted"
           THEN DeadLetter({inbox.slots[Front(inbox)]})
           ELSE UNCHANGED dead
  /\ UNCHANGED <<cell, work, space, doorVars, loopVars, lifeVars, idx, target,
                 consumed>>

(* direct_push after the guard dropped: wake the loop.                     *)
NotifyAfterPush(s) ==
  /\ at[s] = "pushed"
  /\ NotifyWork
  /\ at' = [at EXCEPT ![s] = "send"]
  /\ idx' = [idx EXCEPT ![s] = @ + 1]
  /\ UNCHANGED <<cell, inbox, space, doorVars, claims, after, passivating,
                 lifeVars, target, consumed, dead>>

(* The channel's depth: door_capacity.                                     *)
DoorHasRoom(i) ==
  CASE Policy = "Block"                 -> Len(chan[i]) < cell.capacity
    [] Policy \in {"DropNew", "DropOld"} -> Len(chan[i]) < 2 * cell.capacity
    [] Policy = "Unbounded"             -> TRUE

(* deliver_with_retry: into the channel, now or when it has room.          *)
DeliverToDoor(s) ==
  /\ at[s] = "refused"
  /\ DoorHasRoom(target[s])
  /\ chan' = [chan EXCEPT ![target[s]] = Append(@, Message(s))]
  /\ at' = [at EXCEPT ![s] = "send"]
  /\ idx' = [idx EXCEPT ![s] = @ + 1]
  /\ UNCHANGED <<cell, inbox, work, space, held, parks, door, loopVars,
                 lifeVars, target, consumed, dead>>

----------------------------------------------------------------------------
(* The door task: front_door_loop and push_holding_block.                  *)

SetDoor(d, state) == door' = [door EXCEPT ![d] = state]

DoorReceive(d) ==
  /\ door[d] = "ready" /\ held[d] = Vacant /\ chan[d] # <<>>
  /\ held' = [held EXCEPT ![d] = Head(chan[d])]
  /\ chan' = [chan EXCEPT ![d] = Tail(@)]
  /\ parks' = [parks EXCEPT ![d] = 0]
  /\ UNCHANGED <<cell, inbox, work, space, door, loopVars, lifeVars,
                 senderVars, consumed, dead>>

DoorPush(d) ==
  /\ door[d] = "ready" /\ held[d] # Vacant
  /\ PushAnswer(inbox) = "Queued"
  /\ inbox' = Push(inbox, held[d])
  /\ held' = [held EXCEPT ![d] = Vacant]
  /\ SetDoor(d, "pushed")
  /\ UNCHANGED <<cell, work, space, chan, parks, loopVars, lifeVars,
                 senderVars, consumed, dead>>

(* A landed push wakes the loop. *)
DoorNotify(d) ==
  /\ door[d] = "pushed"
  /\ NotifyWork
  /\ SetDoor(d, "ready")
  /\ UNCHANGED <<cell, inbox, space, chan, held, parks, claims, after,
                 passivating, lifeVars, senderVars, consumed, dead>>

(* Full under Block, cap not reached: hold the envelope ...                *)
DoorHold(d) ==
  /\ door[d] = "ready" /\ held[d] # Vacant
  /\ PushAnswer(inbox) = "Full" /\ Policy = "Block" /\ parks[d] < MaxParks
  /\ parks' = [parks EXCEPT ![d] = @ + 1]
  /\ SetDoor(d, "refused")
  /\ UNCHANGED <<cell, inbox, work, space, chan, held, loopVars, lifeVars,
                 senderVars, consumed, dead>>

(* ... and, the inbox lock released, await space_available: a stored permit *)
(* is taken and the push tried again.                                      *)
DoorPark(d) ==
  /\ door[d] = "refused"
  /\ SetDoor(d, IF space THEN "ready" ELSE "parked")
  /\ space' = FALSE
  /\ UNCHANGED <<cell, inbox, work, chan, held, parks, loopVars, lifeVars,
                 senderVars, consumed, dead>>

(* Every other refusal dead-letters what came back: the envelope, or the   *)
(* victim of an eviction that queued it.  The loop is NOT woken.           *)
DoorRefuse(d) ==
  /\ door[d] = "ready" /\ held[d] # Vacant
  /\ \/ PushAnswer(inbox) \in {"Closed", "Evicted"}
     \/ PushAnswer(inbox) = "Full" /\ (Policy # "Block" \/ parks[d] >= MaxParks)
  /\ DeadLetter({IF PushAnswer(inbox) = "Evicted"
                 THEN inbox.slots[Front(inbox)] ELSE held[d]})
  /\ inbox' = Push(inbox, held[d])
  /\ held' = [held EXCEPT ![d] = Vacant]
  /\ UNCHANGED <<cell, work, space, chan, parks, door, loopVars, lifeVars,
                 senderVars, consumed>>

(* The eviction of a tombstone kills the door task, its envelope with it.  *)
DoorPanic(d) ==
  /\ door[d] = "ready" /\ held[d] # Vacant
  /\ PushAnswer(inbox) = "EvictPanic"
  /\ inbox' = Push(inbox, held[d])
  /\ held' = [held EXCEPT ![d] = Vacant]
  /\ SetDoor(d, "panicked")
  /\ UNCHANGED <<cell, work, space, chan, parks, loopVars, lifeVars,
                 senderVars, consumed, dead>>

----------------------------------------------------------------------------
(* The step loop of one incarnation: es_actor_loop, service_actor_loop.    *)

SetLoop(i, state) == loop' = [loop EXCEPT ![i] = state]

(* Only the first incarnation's shutdown channel has a sender: restart_es  *)
(* drops the sending half of the one it makes.                             *)
ShutdownSeen(i) == i = 1 /\ stop # "none"

Claim(i) ==
  /\ loop[i] = "step" /\ (ShutdownSeen(i) => passivating[i])
  /\ LET run == ClaimRun(inbox, Batch)
     IN IF ClaimPanics(inbox, Batch)
        THEN SetLoop(i, "panicked") /\ UNCHANGED <<inbox, claims>>
        ELSE IF run = {}
        THEN /\ SetLoop(i, IF passivating[i] THEN "exit" ELSE "idling")
             /\ UNCHANGED <<inbox, claims>>
        ELSE /\ inbox' = Take(inbox, run)
             /\ claims' = [claims EXCEPT ![i] = Contents(inbox, run)]
             /\ SetLoop(i, "claimed")
  /\ UNCHANGED <<cell, work, space, doorVars, after, passivating, lifeVars,
                 senderVars, consumed, dead>>

(* Step::Idle, then idle_wait: a stored permit is consumed.  The shutdown   *)
(* arm is ready at once when a stop was signalled, and in every restarted  *)
(* loop, whose sender is gone: it then races the work arm and never parks. *)
IdleWait(i) ==
  /\ loop[i] = "idling"
  /\ IF i > 1 \/ ShutdownSeen(i)
     THEN SetLoop(i, "step") /\ work' \in {work, FALSE}
     ELSE SetLoop(i, IF work THEN "step" ELSE "idle") /\ work' = FALSE
  /\ UNCHANGED <<cell, inbox, space, doorVars, claims, after, passivating,
                 lifeVars, senderVars, consumed, dead>>

(* maybe_passivate: the door closes first, then the step path drains what  *)
(* is queued; when it finds nothing more, or crashes, the loop exits.      *)
Passivate(i) ==
  /\ "passivation" \in Faults /\ Tier = "EventSourced"
  /\ loop[i] = "idling"
  /\ inbox' = Close(inbox)
  /\ passivating' = [passivating EXCEPT ![i] = TRUE]
  /\ SetLoop(i, "step")
  /\ UNCHANGED <<cell, work, space, doorVars, claims, after, lifeVars,
                 senderVars, consumed, dead>>

(* step_es: the append landed; the whole batch commits.                    *)
CommitBatch(i) ==
  /\ Tier = "EventSourced" /\ loop[i] = "claimed"
  /\ consumed' = consumed \o [k \in 1 .. Cardinality(Held(i)) |->
                                claims[i][Min(Held(i)) + k - 1]]
  /\ inbox' = CommitThrough(inbox, Max(Held(i)))
  /\ NotifySpaceIf(CommitPops(inbox, Max(Held(i))))
  /\ claims' = [claims EXCEPT ![i] = NoClaims]
  /\ SetLoop(i, "step")
  /\ UNCHANGED <<cell, work, chan, held, parks, after, passivating, lifeVars,
                 senderVars, dead>>

(* step_service: one claim commits, before its dispatch.                   *)
CommitOne(i) ==
  /\ Tier = "Service" /\ loop[i] = "claimed"
  /\ LET o == Min(Held(i))
     IN /\ consumed' = Append(consumed, claims[i][o])
        /\ inbox' = CommitThrough(inbox, o)
        /\ NotifySpaceIf(CommitPops(inbox, o))
        /\ claims' = [claims EXCEPT ![i][o] = Vacant]
  /\ SetLoop(i, "dispatch")
  /\ UNCHANGED <<cell, work, chan, held, parks, after, passivating, lifeVars,
                 senderVars, dead>>

Dispatched(i) ==
  /\ loop[i] = "dispatch"
  /\ SetLoop(i, IF Held(i) = {} THEN "step" ELSE "claimed")
  /\ UNCHANGED <<cell, inbox, work, space, doorVars, claims, after,
                 passivating, lifeVars, senderVars, consumed, dead>>

Unwind(i, then) ==
  /\ SetLoop(i, "unwind")
  /\ after' = [after EXCEPT ![i] = then]
  /\ UNCHANGED <<cell, inbox, work, space, doorVars, claims, passivating,
                 current, stopping, slot, stop, senderVars, consumed, dead>>

(* A panic in the handler (ES: before the append; service: of the message  *)
(* just committed), or the failed append of an ES batch.                   *)
Crash(i) ==
  /\ "panic" \in Faults
  /\ Tier = "EventSourced" => i < MaxIncarnation
  /\ loop[i] = IF Tier = "Service" THEN "dispatch" ELSE "claimed"
  /\ crashed' = TRUE
  /\ Unwind(i, IF passivating[i] THEN "exit" ELSE "crashed")

(* A service handler's stop_self concludes the step before its tail.       *)
StopSelf(i) ==
  /\ "selfStop" \in Faults
  /\ Tier = "Service" /\ loop[i] = "dispatch"
  /\ UNCHANGED crashed
  /\ Unwind(i, "exit")

(* The bounded stop's join timed out: the loop task is aborted where it    *)
(* awaits, and its step frame unwinds.                                     *)
Abort(i) ==
  /\ i = 1 /\ stop = "signalled"
  /\ loop[i] = IF Tier = "Service" THEN "dispatch" ELSE "claimed"
  /\ UNCHANGED crashed
  /\ Unwind(i, "ended")

(* ClaimGuard::drop reads the stopping flag ...                            *)
GuardReads(i) ==
  /\ loop[i] = "unwind"
  /\ SetLoop(i, IF Held(i) = {} THEN after[i]
                ELSE IF stopping THEN "flush" ELSE "restore")
  /\ UNCHANGED <<cell, inbox, work, space, doorVars, claims, after,
                 passivating, lifeVars, senderVars, consumed, dead>>

(* ... and then puts every un-committed claim back into its slot ...       *)
GuardRestores(i) ==
  /\ loop[i] = "restore"
  /\ IF RestorePanics(inbox, claims[i])
     THEN SetLoop(i, "panicked") /\ UNCHANGED <<inbox, claims, space, door>>
     ELSE /\ inbox' = Restore(inbox, claims[i])
          /\ claims' = [claims EXCEPT ![i] = NoClaims]
          /\ NotifySpace
          /\ SetLoop(i, after[i])
  /\ UNCHANGED <<cell, work, chan, held, parks, after, passivating, lifeVars,
                 senderVars, consumed, dead>>

(* ... or, under a stopping actor, dead-letters the tail.                  *)
GuardFlushes(i) ==
  /\ loop[i] = "flush"
  /\ DeadLetter({claims[i][o] : o \in Held(i)})
  /\ claims' = [claims EXCEPT ![i] = NoClaims]
  /\ SetLoop(i, after[i])
  /\ UNCHANGED <<cell, inbox, work, space, doorVars, after, passivating,
                 lifeVars, senderVars, consumed>>

(* The loop's end: drain_inbox_on_stop leaves the inbox OPEN.  It is       *)
(* reached from a shutdown seen at the top of the loop or in idle_wait,    *)
(* from a crash, and from a graceful exit that has torn the tables down.   *)
LoopEnds(i) ==
  /\ \/ loop[i] \in {"step", "idle"} /\ ShutdownSeen(i) /\ ~passivating[i]
     \/ loop[i] = "crashed"
     \/ loop[i] = "exit" /\ slot = "gone"
  /\ inbox' = Reopen(Close(inbox))
  /\ SetLoop(i, "ended")
  /\ UNCHANGED <<cell, work, space, doorVars, claims, after, passivating,
                 lifeVars, senderVars, consumed, dead>>

----------------------------------------------------------------------------
(* Supervision: restart_es over the same cell.  (A service restarts in a   *)
(* fresh cell: module Supervision.)                                        *)

(* Whether the crashed step has unwound (its claims are back).             *)
Unwound == \A i \in Incarnation : loop[i] \notin {"unwind", "restore", "flush"}

Restart ==
  /\ Tier = "EventSourced"
  /\ crashed /\ slot # "gone" /\ current < MaxIncarnation
  /\ Unwound \/ "earlyRestart" \in Faults
  /\ crashed' = FALSE
  /\ current' = current + 1
  /\ loop' = [loop EXCEPT ![current + 1] = "step"]
  /\ inbox' = Reopen(inbox)
  /\ UNCHANGED <<cell, work, space, doorVars, claims, after, passivating,
                 stopping, slot, stop, senderVars, consumed, dead>>

----------------------------------------------------------------------------
(* Stopping: stop_bounded and teardown_tables.                             *)

ExternalStop ==
  /\ "externalStop" \in Faults /\ stop = "none"
  /\ stop' = "signalled"
  /\ UNCHANGED <<cell, inbox, work, space, doorVars, loopVars, current,
                 crashed, stopping, slot, senderVars, consumed, dead>>

(* The handle joins the loop task the spawn started, and only that one.    *)
Join ==
  /\ stop = "signalled" /\ loop[1] \in {"ended", "panicked"}
  /\ stop' = "joined"
  /\ UNCHANGED <<cell, inbox, work, space, doorVars, loopVars, current,
                 crashed, stopping, slot, senderVars, consumed, dead>>

TeardownDue == stop = "joined" \/ \E i \in Incarnation : loop[i] = "exit"

(* Another task may be inside the inbox lock when try_lock runs.           *)
LockBusy ==
  /\ "contention" \in Faults
  /\ \/ \E s \in Senders : at[s] = "resolved"
     \/ \E d \in Incarnation : held[d] # Vacant /\ door[d] = "ready"

TeardownDrain ==
  /\ TeardownDue /\ slot = "live"
  /\ stopping' = TRUE
  /\ slot' = "drained"
  /\ \/ /\ inbox' = DrainLive(Close(inbox))
        /\ DeadLetter({inbox.slots[o] : o \in Live(inbox)})
     \/ LockBusy /\ UNCHANGED <<inbox, dead>>
  /\ UNCHANGED <<cell, work, space, doorVars, loopVars, current, crashed,
                 stop, senderVars, consumed>>

TeardownUnregister ==
  /\ slot = "drained"
  /\ slot' = "gone"
  /\ UNCHANGED <<cell, inbox, work, space, doorVars, loopVars, current,
                 crashed, stopping, stop, senderVars, consumed, dead>>

----------------------------------------------------------------------------
SenderStep(s) ==
  Resolve(s) \/ DirectPush(s) \/ NotifyAfterPush(s) \/ DeliverToDoor(s)

DoorStep(d) ==
  \/ DoorReceive(d) \/ DoorPush(d) \/ DoorNotify(d)
  \/ DoorHold(d) \/ DoorPark(d)
  \/ DoorRefuse(d) \/ DoorPanic(d)

(* What the loop task does by itself, whatever its handlers do.            *)
LoopStep(i) ==
  \/ Claim(i) \/ IdleWait(i)
  \/ CommitBatch(i) \/ CommitOne(i) \/ Dispatched(i)
  \/ GuardReads(i) \/ GuardRestores(i) \/ GuardFlushes(i)
  \/ LoopEnds(i)

Teardown == TeardownDrain \/ TeardownUnregister

Next ==
  \/ \E s \in Senders : SenderStep(s)
  \/ \E d \in Incarnation : DoorStep(d)
  \/ \E i \in Incarnation : LoopStep(i) \/ Passivate(i) \/ Crash(i) \/ StopSelf(i) \/ Abort(i)
  \/ Restart \/ ExternalStop \/ Join \/ Teardown

Spec == Init /\ [][Next]_vars

(* Every task is scheduled: tokio polls a woken task eventually, and a     *)
(* handler that neither panics nor stops returns.                          *)
Fairness ==
  /\ \A s \in Senders : WF_vars(SenderStep(s))
  /\ \A d \in Incarnation : WF_vars(DoorStep(d))
  /\ \A i \in Incarnation : WF_vars(LoopStep(i))
  /\ WF_vars(Restart) /\ WF_vars(Join) /\ WF_vars(Teardown)

FairSpec == Spec /\ Fairness
----------------------------------------------------------------------------
(* Properties.  They read a message as the pair (sender, position): the    *)
(* programs are assumed to send every envelope once.                       *)

DistinctPrograms ==
  \A s, r \in Senders : \A j \in DOMAIN Program[s], k \in DOMAIN Program[r] :
    Program[s][j] = Program[r][k] => s = r /\ j = k

(* What a sender has yet to let go of.                                     *)
Unsent(s) ==
  {k \in DOMAIN Program[s] : \/ k > idx[s]
                             \/ k = idx[s] /\ at[s] \in {"send", "resolved", "refused"}}

Indices(e, f) == {k \in DOMAIN f : f[k] = e}

(* Every place a message can be in.                                        *)
Places(e) ==
  (UNION {{<<"sender", s, k>> : k \in Unsent(s) \cap Indices(e, Program[s])} : s \in Senders})
    \cup (UNION {{<<"channel", i, k>> : k \in Indices(e, chan[i])}
                   \cup {<<"claim", i, o>> : o \in Indices(e, claims[i])} : i \in Incarnation})
    \cup {<<"door", d, 0>> : d \in Indices(e, held)}
    \cup {<<"slot", 0, o>> : o \in Indices(e, inbox.slots)}
    \cup {<<"consumed", 0, k>> : k \in Indices(e, consumed)}
    \cup {<<"dead", 0, k>> : k \in 1 .. dead[e]}

Sendable == UNION {{Program[s][k] : k \in DOMAIN Program[s]} : s \in Senders}

(* MaxOffset hides nothing: a message is pushed once.                      *)
OffsetsSuffice == IsFiniteSet(Sendable) /\ Cardinality(Sendable) <= MaxOffset + 1

(* A message is never lost and never duplicated: from its send to its      *)
(* commit or its dead letter it is in exactly one place, across refusals,  *)
(* holds, claims, crashes, restores and restarts (inbox.rs:83-91,          *)
(* kernel.rs ClaimGuard).                                                  *)
Conservation == \A e \in Sendable : Cardinality(Places(e)) = 1

(* The same through every stop and every lost race, for the policies whose *)
(* push never evicts (teardown_tables, ClaimGuard, stop_bounded).          *)
ConservedUnlessEvicting == Policy # "DropOld" => Conservation

(* The expect()s and panic!s of inbox.rs on claims never fire: one loop    *)
(* claims at a time, it finds no tombstone in its run, and its restore     *)
(* finds every slot as it left it (inbox.rs claim_up_to, restore_claims).  *)
NoPanic ==
  /\ \A i \in Incarnation : loop[i] # "panicked"
  /\ \A s \in Senders : at[s] # "panicked"
  /\ \A d \in Incarnation : door[d] # "panicked"

(* Every message sent is eventually committed or dead-lettered, whatever   *)
(* stops the actor (actors.md: "a message is delivered or it dead-letters").*)
Disposed(e) == dead[e] > 0 \/ \E k \in DOMAIN consumed : consumed[k] = e
EventuallyDisposed == \A e \in Sendable : <>Disposed(e)

(* An event-sourced actor drops nothing under Block and Unbounded: every   *)
(* message eventually commits, however often the actor crashes and         *)
(* restarts on the way (push_holding_block, restart_es).                   *)
EventuallyConsumed ==
  Tier = "EventSourced" /\ Policy \in {"Block", "Unbounded"} =>
  \A e \in Sendable : <>(\E k \in DOMAIN consumed : consumed[k] = e)

----------------------------------------------------------------------------
(* The queue the mailbox implements: entries between the cursor and the    *)
(* write head, a claimed one seen as still queued.                         *)

Content(o) ==
  IF inbox.slots[o] \in Envelope THEN inbox.slots[o]
  ELSE LET i == CHOOSE i \in Incarnation : claims[i][o] # Vacant
       IN claims[i][o]

Pending ==
  [k \in 1 .. (inbox.next - inbox.cursor) |-> Content(inbox.cursor + k - 1)]

Queue == INSTANCE FifoQueue WITH
  pending <- Pending, done <- consumed, contract <- cell,
  Contracts <- Spawns

(* Claims, restores, crashes and restarts are invisible: the mailbox is a  *)
(* FIFO queue whose front batch is removed at the commit.                  *)
ImplementsFifoQueue == Queue!Spec
============================================================================
