---------------------------- MODULE PartitionSet ----------------------------
(***************************************************************************)
(* One key of a partition set: senders route to the public path            *)
(* (route_inner, resolve_partition), the first one that finds no member    *)
(* spawns it, idle members passivate (maybe_passivate, graceful_exit) and  *)
(* the next message spawns another over the same journal.  The host may    *)
(* stop the key's path or raise the barrier of a shutdown.                 *)
(*                                                                         *)
(* All members share one path: the registry's slot and the kernel's cell   *)
(* name one of them each, and what works by path works on whoever is       *)
(* there.  Inboxes have room for everything (Mailbox has the policies);    *)
(* a step takes one message and records one fact.  Members are spawned     *)
(* without supervision (Supervision has it).                               *)
(***************************************************************************)
EXTENDS Naturals, Sequences, FiniteSets, Functions

CONSTANTS
  Senders,     \* the sending tasks
  Program,     \* what each of them tells the key, in order
  Poison,      \* the messages whose handling panics
  Budgets,     \* MODEL BOUND: how often each of AllFaults may happen, one choice per run
  MaxMembers   \* MODEL BOUND: spawns of the key

AllFaults ==
  {"stop",     \* the host stops the key's path
   "barrier"}  \* a graceful shutdown begins

Message == UNION {Range(Program[s]) : s \in Senders}

ASSUME PartitionSetAssumption ==
  /\ \A s \in Senders : Program[s] \in Seq(Message) /\ IsInjective(Program[s])
  /\ \A s, t \in Senders : s # t => Range(Program[s]) \cap Range(Program[t]) = {}
  /\ Poison \subseteq Message
  /\ Budgets \subseteq [AllFaults -> Nat]
  /\ MaxMembers \in Nat

VARIABLES
  slot,     \* the member behind the registry's slot, or 0
  cell,     \* the member behind the kernel's cell and es_state, or 0
  members,  \* every member there has been
  journal,  \* the key's journal: the messages handled
  dead,     \* per message: its dead letters
  sender,   \* per sender: where its delivery stands
  host,     \* where the host's stop stands
  barrier,  \* shutting_down
  left,     \* faults still to come
  overrun   \* a teardown has met another member than its own (history)

tables == <<slot, cell>>
vars == <<tables, members, journal, dead, sender, host, barrier, left, overrun>>

Members == DOMAIN members
None == <<>>

Working == {"idle", "claimed"}
Leaving == {"draining", "drainClaimed", "exit", "leaving"}

MemberType ==
  [at : {"slotted", "armed", "boot", "crashed", "ended"} \cup Working \cup Leaving,
   inbox : Seq(Message), chan : Seq(Message), hand : Seq(Message),
   open : BOOLEAN, stopping : BOOLEAN, signalled : BOOLEAN,
   handle : Nat, folded : Seq(Message)]

TypeOK ==
  /\ {slot, cell} \subseteq {0} \cup Members
  /\ members \in Seq(MemberType)
  /\ journal \in Seq(Message)
  /\ dead \in [Message -> Nat]
  /\ sender \in [Senders -> [at : {"send", "activate", "arm", "start", "resolve", "push",
                                   "panicked"},
                             idx : Nat, target : {0} \cup Members]]
  /\ host \in [at : {"none", "stop", "join", "flush", "remove"}, joins : Nat]
  /\ barrier \in BOOLEAN /\ overrun \in BOOLEAN
  /\ left \in [AllFaults -> Nat]

Init ==
  /\ slot = 0 /\ cell = 0 /\ members = <<>> /\ journal = <<>>
  /\ dead = [m \in Message |-> 0]
  /\ sender = [s \in Senders |-> [at |-> "send", idx |-> 1, target |-> 0]]
  /\ host = [at |-> "none", joins |-> 0]
  /\ barrier = FALSE /\ left \in Budgets /\ overrun = FALSE

Letters(messages) == [m \in Message |-> dead[m] + (IF m \in Range(messages) THEN 1 ELSE 0)]

Set(i, fields) ==
  members' = [members EXCEPT ![i] =
                [f \in DOMAIN @ |-> IF f \in DOMAIN fields THEN fields[f] ELSE @[f]]]

----------------------------------------------------------------------------
(* A sender: route_inner to the set's public path.                         *)

Telling(s) == sender[s].idx <= Len(Program[s])
Told(s) == Program[s][sender[s].idx]

Goes(s, at, target) ==
  sender' = [sender EXCEPT ![s].at = at, ![s].target = target]

Done(s) ==
  sender' = [sender EXCEPT ![s] = [at |-> "send", idx |-> @.idx + 1, target |-> 0]]

DeadLetter(s) == Done(s) /\ dead' = Letters(<<Told(s)>>)

(* The barrier, then the lookup of the key's path.                         *)
Look(s) ==
  /\ Telling(s) /\ sender[s].at = "send"
  /\ IF barrier
     THEN DeadLetter(s)
     ELSE Goes(s, IF slot # 0 THEN "resolve" ELSE "activate", 0) /\ UNCHANGED dead
  /\ UNCHANGED <<tables, members, journal, host, barrier, left, overrun>>

Member == [at |-> "slotted", inbox |-> None, chan |-> None, hand |-> None, open |-> TRUE,
           stopping |-> FALSE, signalled |-> FALSE, handle |-> 0, folded |-> None]

(* Mutant: insert_slot overwrites the slot of a spawn that was first.      *)
ActivateOverwrites(s) ==
  /\ sender[s].at = "activate" /\ ~barrier
  /\ Len(members) < MaxMembers
  /\ members' = Append(members, Member)
  /\ slot' = Len(members) + 1
  /\ Goes(s, "arm", Len(members) + 1)
  /\ UNCHANGED <<cell, journal, dead, host, barrier, left, overrun>>

(* Nobody was there: the factory spawns a member, unless the barrier went  *)
(* up.  insert_slot expects the path to be free; when another sender's     *)
(* spawn was first, the task panics and takes its message with it.         *)
Activate(s) ==
  /\ sender[s].at = "activate"
  /\ IF barrier
     THEN DeadLetter(s) /\ UNCHANGED <<members, slot>>
     ELSE /\ UNCHANGED dead
          /\ IF slot # 0
             THEN Goes(s, "panicked", 0) /\ UNCHANGED <<members, slot>>
             ELSE /\ Len(members) < MaxMembers
                  /\ members' = Append(members, Member)
                  /\ slot' = Len(members) + 1
                  /\ Goes(s, "arm", Len(members) + 1)
  /\ UNCHANGED <<cell, journal, host, barrier, left, overrun>>

(* arm_es_erased enters the cell and a fresh state.                        *)
Arm(s) ==
  /\ sender[s].at = "arm"
  /\ cell' = sender[s].target
  /\ Set(sender[s].target, [at |-> "armed"])
  /\ Goes(s, "start", sender[s].target)
  /\ UNCHANGED <<slot, journal, dead, host, barrier, left, overrun>>

(* start_loop: door and loop are spawned, the handle goes to the cell the  *)
(* kernel has for the path.                                                *)
Start(s) ==
  LET i == sender[s].target
  IN  /\ sender[s].at = "start"
      /\ members' = [k \in Members |->
           [members[k] EXCEPT !.at = IF k = i THEN "boot" ELSE @,
                              !.handle = IF k = cell THEN i ELSE @]]
      /\ Goes(s, "resolve", 0)
      /\ UNCHANGED <<tables, journal, dead, host, barrier, left, overrun>>

Resolve(s) ==
  /\ sender[s].at = "resolve"
  /\ IF slot = 0
     THEN DeadLetter(s)
     ELSE Goes(s, "push", slot) /\ UNCHANGED dead
  /\ UNCHANGED <<tables, members, journal, host, barrier, left, overrun>>

(* direct_push; a closed inbox hands the message back, and the front-door  *)
(* channel takes it.  No door's channel ever closes, so the retry behind   *)
(* it, a second activation, is never reached.                              *)
Push(s) ==
  LET i == sender[s].target
  IN  /\ sender[s].at = "push"
      /\ IF members[i].open
         THEN Set(i, [inbox |-> Append(members[i].inbox, Told(s))])
         ELSE Set(i, [chan |-> Append(members[i].chan, Told(s))])
      /\ Done(s)
      /\ UNCHANGED <<tables, journal, dead, host, barrier, left, overrun>>

(* Mutant: the door gives up at a closed inbox.                            *)
DoorOpen(i) ==
  LET m == members[i]
  IN  /\ m.at \notin {"slotted", "armed"} /\ m.chan # None /\ m.open
      /\ Set(i, [chan |-> Tail(m.chan), inbox |-> Append(m.inbox, Head(m.chan))])
      /\ UNCHANGED <<tables, journal, dead, sender, host, barrier, left, overrun>>

(* The door task: push_holding_block dead-letters at a closed inbox.       *)
Door(i) ==
  LET m == members[i]
  IN  /\ m.at \notin {"slotted", "armed"} /\ m.chan # None
      /\ IF m.open
         THEN Set(i, [chan |-> Tail(m.chan), inbox |-> Append(m.inbox, Head(m.chan))])
              /\ UNCHANGED dead
         ELSE Set(i, [chan |-> Tail(m.chan)]) /\ dead' = Letters(<<Head(m.chan)>>)
      /\ UNCHANGED <<tables, journal, sender, host, barrier, left, overrun>>

----------------------------------------------------------------------------
(* A member's loop.                                                        *)

(* recover_at_boot; there is nothing to rebuild when the path's state has  *)
(* been torn down.                                                         *)
Replay == IF cell = 0 THEN None ELSE journal

Boot(i) ==
  /\ members[i].at = "boot"
  /\ Set(i, [at |-> "idle", folded |-> Replay])
  /\ UNCHANGED <<tables, journal, dead, sender, host, barrier, left, overrun>>

Claim(i) ==
  LET m == members[i]
  IN  /\ m.at \in {"idle", "draining"} /\ m.inbox # None
      /\ m.at = "idle" => ~m.signalled
      /\ Set(i, [at |-> IF m.at = "idle" THEN "claimed" ELSE "drainClaimed",
                 hand |-> <<Head(m.inbox)>>, inbox |-> Tail(m.inbox)])
      /\ UNCHANGED <<tables, journal, dead, sender, host, barrier, left, overrun>>

InStep(i) == members[i].at \in {"claimed", "drainClaimed"}

(* The step records its fact and folds it.                                 *)
Handle(i) ==
  LET m == members[i]
  IN  /\ InStep(i) /\ Head(m.hand) \notin Poison
      /\ journal' = journal \o m.hand
      /\ Set(i, [at |-> IF m.at = "claimed" THEN "idle" ELSE "draining",
                 hand |-> None, folded |-> m.folded \o m.hand])
      /\ UNCHANGED <<tables, dead, sender, host, barrier, left, overrun>>

(* The step panics: the claim goes back, or to the dead letters when a     *)
(* teardown has marked the cell.  A loop at work ends crashed, a drain     *)
(* goes on to the exit.                                                    *)
Crash(i) ==
  LET m == members[i]
  IN  /\ InStep(i) /\ Head(m.hand) \in Poison
      /\ Set(i, [at |-> IF m.at = "claimed" THEN "crashed" ELSE "exit", hand |-> None,
                 inbox |-> IF m.stopping THEN m.inbox ELSE m.hand \o m.inbox])
      /\ dead' = IF m.stopping THEN Letters(m.hand) ELSE dead
      /\ UNCHANGED <<tables, journal, sender, host, barrier, left, overrun>>

(* The shutdown signal ends an idle loop; its inbox is open again then.    *)
Obey(i) ==
  /\ members[i].at = "idle" /\ members[i].signalled
  /\ Set(i, [at |-> "ended", open |-> TRUE])
  /\ UNCHANGED <<tables, journal, dead, sender, host, barrier, left, overrun>>

(* maybe_passivate closes the inbox; mail may have come since the step     *)
(* found none.                                                             *)
Passivate(i) ==
  /\ members[i].at = "idle" /\ ~barrier
  /\ Set(i, [at |-> "draining", open |-> FALSE])
  /\ UNCHANGED <<tables, journal, dead, sender, host, barrier, left, overrun>>

(* teardown_tables, first part: the path's cell is marked, closed and      *)
(* flushed to the dead letters.                                            *)
Flushed ==
  IF cell = 0
  THEN members
  ELSE [members EXCEPT ![cell] = [@ EXCEPT !.open = FALSE, !.stopping = TRUE, !.inbox = None]]

(* Mutant: what is still queued dies with the cell.                        *)
UndeliveredForgotten == None

Undelivered == IF cell = 0 THEN None ELSE members[cell].inbox

AtRest == {"exit", "leaving", "ended", "crashed"}

Overruns(i) == \E k \in {slot, cell} \ {0, i} : members[k].at \notin AtRest

(* Mutant: the exit leaves the slot to whoever comes next.                 *)
RemovedCellOnly == cell' = 0 /\ UNCHANGED slot

(* Second part: slot, cell and state go.                                   *)
Removed == cell' = 0 /\ slot' = 0

(* graceful_exit tears down by path; then the loop ends and opens its own  *)
(* inbox again (drain_inbox_on_stop).                                      *)
Exit(i) ==
  /\ members[i].at = "exit" \/ (members[i].at = "draining" /\ members[i].inbox = None)
  /\ members' = [Flushed EXCEPT ![i].at = "leaving"]
  /\ dead' = Letters(Undelivered)
  /\ overrun' = (overrun \/ Overruns(i))
  /\ UNCHANGED <<tables, journal, sender, host, barrier, left>>

Leave(i) ==
  /\ members[i].at = "leaving"
  /\ Removed
  /\ Set(i, [at |-> "ended", open |-> TRUE])
  /\ overrun' = (overrun \/ Overruns(i))
  /\ UNCHANGED <<journal, dead, sender, host, barrier, left>>

----------------------------------------------------------------------------
(* The host.                                                               *)

Spend(fault) == left[fault] > 0 /\ left' = [left EXCEPT ![fault] = @ - 1]

BeginStop ==
  /\ host.at = "none" /\ Spend("stop")
  /\ host' = [at |-> "stop", joins |-> 0]
  /\ UNCHANGED <<tables, members, journal, dead, sender, barrier, overrun>>

(* stop_bounded, after its wait of up to a second for a service: the       *)
(* path's handle is taken and signalled.                                   *)
Signal ==
  /\ host.at = "stop"
  /\ IF cell # 0 /\ members[cell].handle # 0
     THEN LET j == members[cell].handle
          IN  /\ members' = [[members EXCEPT ![j].signalled = TRUE] EXCEPT ![cell].handle = 0]
              /\ host' = [at |-> "join", joins |-> j]
     ELSE host' = [host EXCEPT !.at = "flush"] /\ UNCHANGED members
  /\ UNCHANGED <<tables, journal, dead, sender, barrier, left, overrun>>

(* Its budget is taken to outlast the loop's step.                         *)
Join ==
  /\ host.at = "join" /\ members[host.joins].at \in {"ended", "crashed"}
  /\ host' = [host EXCEPT !.at = "flush"]
  /\ UNCHANGED <<tables, members, journal, dead, sender, barrier, left, overrun>>

StopFlushes ==
  /\ host.at = "flush"
  /\ members' = Flushed
  /\ dead' = Letters(Undelivered)
  /\ overrun' = (overrun \/ Overruns(0))
  /\ host' = [host EXCEPT !.at = "remove"]
  /\ UNCHANGED <<tables, journal, sender, barrier, left>>

StopRemoves ==
  /\ host.at = "remove"
  /\ Removed
  /\ overrun' = (overrun \/ Overruns(0))
  /\ host' = [at |-> "none", joins |-> 0]
  /\ UNCHANGED <<members, journal, dead, sender, barrier, left>>

Barrier ==
  /\ ~barrier /\ Spend("barrier")
  /\ barrier' = TRUE
  /\ UNCHANGED <<tables, members, journal, dead, sender, host, overrun>>

----------------------------------------------------------------------------
Route(s) == Activate(s) \/ Arm(s) \/ Start(s) \/ Resolve(s) \/ Push(s)

Loop(i) == Boot(i) \/ Claim(i) \/ Handle(i) \/ Crash(i) \/ Obey(i) \/ Exit(i) \/ Leave(i)

Stop == Signal \/ Join \/ StopFlushes \/ StopRemoves

Next ==
  \/ \E s \in Senders : Look(s) \/ Route(s)
  \/ \E i \in Members : Door(i) \/ Loop(i) \/ Passivate(i)
  \/ BeginStop \/ Stop \/ Barrier

Spec == Init /\ [][Next]_vars

(* Every task is polled; nobody has to tell anything.  The work of each is *)
(* finite, so that none keeps another from being polled.                   *)
Fairness ==
  /\ WF_vars(\E s \in Senders : Route(s))
  /\ WF_vars(\E i \in Members : Loop(i) \/ Door(i))
  /\ WF_vars(Stop)

FairSpec == Spec /\ Fairness

----------------------------------------------------------------------------
(* Properties.                                                             *)

(* A member decides each message on everything the key has ever recorded,  *)
(* whoever recorded it: no member is at work behind another's back.  (Not  *)
(* once a teardown has taken the tables from a member at work.)            *)
DecidesOnCurrent ==
  ~overrun => \A i \in Members : InStep(i) => members[i].folded = journal

(* A message whose sender has let go of it is in one place: waiting for a  *)
(* member, in its hands, recorded, or a dead letter.                       *)
Spots(m, messages) == {k \in DOMAIN messages : messages[k] = m}

Places(m) ==
  (UNION {{<<i, "hand", k>> : k \in Spots(m, members[i].hand)}
            \cup {<<i, "inbox", k>> : k \in Spots(m, members[i].inbox)}
            \cup {<<i, "chan", k>> : k \in Spots(m, members[i].chan)} : i \in Members})
    \cup {<<0, "journal", k>> : k \in Spots(m, journal)}
    \cup {<<0, "dead", k>> : k \in 1 .. dead[m]}

Sent == UNION {{Program[s][k] : k \in 1 .. sender[s].idx - 1} : s \in Senders}

OnePlace == \A m \in Message : Cardinality(Places(m)) = IF m \in Sent THEN 1 ELSE 0

(* The key never stays with a member that has left: its slot comes free,   *)
(* so that the next message finds a member or spawns one.  (A member that  *)
(* crashed at work keeps its slot: it is supervision's.)                   *)
HeldByTheGone == slot # 0 /\ members[slot].at \in {"exit", "leaving", "ended"}

SlotComesFree == []<>~HeldByTheGone

(* What a live sender told the key is recorded or becomes a dead letter,   *)
(* or lies with a member that crashed or that had left when it came; again *)
(* and again nothing is left waiting for a member.                         *)
Over == {i \in Members : members[i].at \in {"ended", "crashed"}}

Held(i) == members[i].hand \o members[i].inbox \o members[i].chan

Abandoned == UNION {Range(Held(i)) : i \in Over}

Settled == Range(journal) \cup {m \in Message : dead[m] > 0} \cup Abandoned

Underway == {Told(s) : s \in {t \in Senders : sender[t].at \notin {"send", "panicked"}}}

Answered == []<>((Sent \cup Underway) \subseteq Settled)

(* Passivation is transparent: what is told to the key is handled by the   *)
(* member that leaves or by the next one.                                  *)
Transparent == \A m \in Message : dead[m] = 0
============================================================================
