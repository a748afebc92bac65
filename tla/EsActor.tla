------------------------------ MODULE EsActor ------------------------------
(***************************************************************************)
(* An event-sourced actor from its queue to its journal: the atomic step   *)
(* (step_es), fan-out, snapshots, the supervised restart (restart_es), the *)
(* stop, and the recovery of a spawn onto a journaled path                 *)
(* (recover_at_boot).                                                      *)
(*                                                                         *)
(* The queue is the FIFO that module Mailbox implements: a claim leaves it *)
(* as it is, a commit removes the batch.  The fold is free: the state IS   *)
(* the sequence of facts applied, so two histories fold alike only if they *)
(* are the same, and a lost, repeated or misplaced fact shows.  A fact     *)
(* remembers how many facts had been applied when it was decided.          *)
(***************************************************************************)
EXTENDS Naturals, Sequences, FiniteSets

CONSTANTS
  Message,      \* the commands
  Script,       \* the commands the actor is sent, in order
  Facts,        \* how many declared facts a command records
  Unhandled,    \* commands of an unknown schema, or that do not decode
  Undeclared,   \* commands that also record a fact the actor never declared
  Spawns,       \* the spawn configurations the actor may have: Spawn
  Faults,       \* which of AllFaults may happen
  MaxFailures,  \* MODEL BOUND: faults in a run
  MaxSpawns     \* MODEL BOUND: spawns of the path

AllFaults ==
  {"panic",     \* a handler panics
   "append",    \* the store refuses an append, unchanged
   "snapshot",  \* the store refuses a snapshot
   "load",      \* the store cannot be read
   "stop",      \* the loop is stopped between two steps
   "abort",     \* the stop's budget runs out and the loop task is aborted
   "die"}       \* the process dies; a write-through store survives

(* What a spawn fixes in the cell: the step batch and the snapshot cadence *)
(* (`every' is the n of Messages(n)).                                      *)
Spawn ==
  [batch   : Nat \ {0},
   cadence : {"Off", "Time", "Messages"},
   every   : Nat \ {0}]

ASSUME EsAssumption ==
  /\ Script \in Seq(Message)
  /\ Facts \in [Message -> Nat]
  /\ Unhandled \subseteq Message /\ Undeclared \subseteq Message
  /\ Spawns \subseteq Spawn
  /\ Faults \subseteq AllFaults
  /\ MaxFailures \in Nat /\ MaxSpawns \in Nat \ {0}

VARIABLES
  cell,      \* the spawn's configuration; never changes
  sent,      \* how much of the script has been sent
  queue,     \* the inbox, claims in flight included
  claimed,   \* how many of its front entries the step has claimed
  decided,   \* how many of those the decide pass has handled
  events,    \* the facts they recorded
  first,     \* the seq of the batch's first fact
  journal,   \* the store's events of this path; the k-th has seq k - 1
  snaps,     \* the store's snapshots of this path
  state,     \* the live state
  lastSeq,   \* cell.last_event_seq: 0 is CELL_SENTINEL, else the seq + 1
  phase,     \* where the loop stands
  blind,     \* some boot could not read the store (history)
  fanned,    \* how many of the batch's facts have been broadcast
  boundary,  \* the anchor the snapshot loop is at
  told,      \* every broadcast copy, with its stamped seq
  dead,      \* the commands dead-lettered at least once
  failures,  \* how many faults have happened
  spawns     \* spawns of the path so far

passVars  == <<claimed, decided>>
stepVars  == <<passVars, events, first, fanned, boundary>>
storeVars == <<journal, snaps>>
envVars   == <<sent, failures, spawns>>
vars == <<cell, stepVars, storeVars, envVars, queue, state, lastSeq, phase,
          blind, told, dead>>

Batch == cell.batch
Cadence == cell.cadence
Every == cell.every

Sentinel == 0

Phases == {"boot", "step", "decide", "append", "commit", "apply", "fanout",
           "snapshot", "crashed", "abandoned", "stopped"}

Fact == [cmd : Message, nth : Nat, basis : Nat]

MailTypes ==
  /\ sent \in 0 .. Len(Script)
  /\ queue \in Seq(Message)
  /\ claimed \in 0 .. Len(queue)
  /\ decided \in 0 .. claimed
  /\ dead \subseteq Message

BatchTypes ==
  /\ events \in Seq(Fact)
  /\ first \in Nat
  /\ fanned \in Nat
  /\ boundary \in Nat
  /\ told \in Seq([fact : Fact, seq : Nat])

StoreTypes ==
  /\ journal \in Seq(Fact)
  /\ snaps \in Seq([seq : Nat, state : Seq(Fact)])
  /\ state \in Seq(Fact)
  /\ lastSeq \in Nat

ControlTypes ==
  /\ cell \in Spawns
  /\ phase \in Phases
  /\ blind \in BOOLEAN
  /\ failures \in Nat
  /\ spawns \in Nat

TypeOK == MailTypes /\ BatchTypes /\ StoreTypes /\ ControlTypes

Init ==
  /\ cell \in Spawns
  /\ sent = 0 /\ queue = <<>> /\ claimed = 0 /\ decided = 0
  /\ events = <<>> /\ first = 0 /\ fanned = 0 /\ boundary = 0
  /\ journal = <<>> /\ snaps = <<>>
  /\ state = <<>> /\ lastSeq = Sentinel
  /\ phase = "boot" /\ blind = FALSE
  /\ told = <<>> /\ dead = {}
  /\ failures = 0 /\ spawns = 1

Fail(kind) ==
  /\ kind \in Faults
  /\ failures < MaxFailures
  /\ failures' = failures + 1

----------------------------------------------------------------------------
(* Mail arrives; a path with no slot dead-letters it.                      *)

Send ==
  /\ sent < Len(Script)
  /\ sent' = sent + 1
  /\ IF phase = "stopped"
     THEN dead' = dead \cup {Script[sent + 1]} /\ UNCHANGED queue
     ELSE queue' = Append(queue, Script[sent + 1]) /\ UNCHANGED dead
  /\ UNCHANGED <<cell, blind, stepVars, storeVars, failures, spawns, state,
                 lastSeq, phase, told>>

----------------------------------------------------------------------------
(* The step: claim, decide, append, commit, apply.                         *)

ClaimSize == IF Len(queue) < Batch THEN Len(queue) ELSE Batch

Claim ==
  /\ phase = "step" /\ queue # <<>>
  /\ claimed' = ClaimSize
  /\ decided' = 0
  /\ events' = <<>>
  /\ phase' = "decide"
  /\ UNCHANGED <<cell, blind, first, fanned, boundary, storeVars, envVars,
                 queue, state, lastSeq, told, dead>>

(* The declared facts a command decides on a state of `basis' facts.       *)
Decision(m, basis) ==
  IF m \in Unhandled THEN <<>>
  ELSE [k \in 1 .. Facts[m] |-> [cmd |-> m, nth |-> k, basis |-> basis]]

(* The decide pass, one claim: its handler sees the state as it was BEFORE *)
(* the batch, for nothing is applied inside the pass.  A command nobody    *)
(* handles is dead-lettered, and only it.                                  *)
Decide ==
  /\ phase = "decide" /\ decided < claimed
  /\ LET m == queue[decided + 1]
     IN /\ events' = events \o Decision(m, Len(state))
        /\ dead' = dead \cup ({m} \cap Unhandled)
  /\ decided' = decided + 1
  /\ UNCHANGED <<cell, blind, claimed, first, fanned, boundary, storeVars,
                 envVars, queue, state, lastSeq, phase, told>>

(* The handler of the next claim panics: the claims go back, the loop ends.*)
DecidePanics ==
  /\ phase = "decide" /\ decided < claimed
  /\ queue[decided + 1] \notin Unhandled
  /\ Fail("panic")
  /\ claimed' = 0 /\ decided' = 0
  /\ phase' = "crashed"
  /\ UNCHANGED <<cell, blind, events, first, fanned, boundary, storeVars,
                 sent, spawns, queue, state, lastSeq, told, dead>>

(* After the pass, the emit filter over the whole batch: an undeclared     *)
(* fact is dead-lettered and not recorded.                                 *)
Mail == {queue[k] : k \in 1 .. claimed}

FilterEmits ==
  /\ phase = "decide" /\ decided = claimed
  /\ dead' = dead \cup ((Mail \cap Undeclared) \ Unhandled)
  /\ phase' = IF events = <<>> THEN "commit" ELSE "append"
  /\ UNCHANGED <<cell, blind, stepVars, storeVars, envVars, queue, state,
                 lastSeq, told>>

AppendJournal ==
  /\ phase = "append"
  /\ journal' = journal \o events
  /\ first' = Len(journal)
  /\ phase' = "commit"
  /\ UNCHANGED <<cell, blind, passVars, events, fanned, boundary, snaps,
                 envVars, queue, state, lastSeq, told, dead>>

(* Mutant: the refused append has written the batch.                       *)
AppendFailsDirty ==
  /\ phase = "append"
  /\ Fail("append")
  /\ journal' = journal \o events
  /\ claimed' = 0 /\ decided' = 0
  /\ phase' = "crashed"
  /\ UNCHANGED <<cell, blind, events, first, fanned, boundary, snaps, sent,
                 spawns, queue, state, lastSeq, told, dead>>

AppendFails ==
  /\ phase = "append"
  /\ Fail("append")
  /\ claimed' = 0 /\ decided' = 0
  /\ phase' = "crashed"
  /\ UNCHANGED <<cell, blind, events, first, fanned, boundary, storeVars,
                 sent, spawns, queue, state, lastSeq, told, dead>>

(* Mutant: the commit leaves the claims in the queue.                      *)
NothingCommitted == queue

Committed == SubSeq(queue, claimed + 1, Len(queue))

Commit ==
  /\ phase = "commit"
  /\ queue' = Committed
  /\ claimed' = 0 /\ decided' = 0
  /\ lastSeq' = IF events = <<>> THEN lastSeq ELSE first + Len(events)
  /\ phase' = "apply"
  /\ UNCHANGED <<cell, blind, events, first, fanned, boundary, storeVars,
                 envVars, state, told, dead>>

Apply ==
  /\ phase = "apply"
  /\ state' = state \o events
  /\ fanned' = 0
  /\ phase' = "fanout"
  /\ UNCHANGED <<cell, blind, passVars, events, first, boundary, storeVars,
                 envVars, queue, lastSeq, told, dead>>

(* Mutant: every copy carries the batch's last seq.                        *)
LastStamp == first + Len(events) - 1

(* The zip with the seqs the append answered.                              *)
Stamp == first + fanned

(* fan_out_emits: one stamped broadcast at a time, awaiting each.          *)
FanOut ==
  /\ phase = "fanout" /\ fanned < Len(events)
  /\ told' = Append(told, [fact |-> events[fanned + 1], seq |-> Stamp])
  /\ fanned' = fanned + 1
  /\ UNCHANGED <<cell, blind, passVars, events, first, boundary, storeVars,
                 envVars, queue, state, lastSeq, phase, dead>>

----------------------------------------------------------------------------
(* Snapshots.                                                              *)

(* maybe_snapshot: too few facts in THIS batch and it returns.             *)
CrossesBoundary ==
  Cadence = "Messages" /\ events # <<>> /\ Len(events) >= Every

FirstBoundary == ((first + Every) \div Every) * Every - 1

MaybeSnapshot ==
  /\ phase = "fanout" /\ fanned = Len(events)
  /\ IF CrossesBoundary
     THEN phase' = "snapshot" /\ boundary' = FirstBoundary
     ELSE phase' = "step" /\ UNCHANGED boundary
  /\ UNCHANGED <<cell, blind, passVars, events, first, fanned, storeVars,
                 envVars, queue, state, lastSeq, told, dead>>

(* snapshot_now: the LIVE state under the anchor it was handed.            *)
Snapshot(anchor) == [seq |-> anchor, state |-> state]

SnapshotBoundary ==
  /\ phase = "snapshot"
  /\ \/ snaps' = Append(snaps, Snapshot(boundary)) /\ UNCHANGED failures
     \/ Fail("snapshot") /\ UNCHANGED snaps
  /\ IF boundary + Every > first + Len(events) - 1
     THEN phase' = "step" /\ UNCHANGED boundary
     ELSE boundary' = boundary + Every /\ UNCHANGED phase
  /\ UNCHANGED <<cell, blind, passVars, events, first, fanned, journal,
                 sent, spawns, queue, state, lastSeq, told, dead>>

(* maybe_snapshot_on_idle, when the interval has elapsed.  MODEL BOUND:    *)
(* one snapshot per committed seq.                                         *)
SnapshotOnIdle ==
  /\ phase = "step" /\ Cadence = "Time" /\ lastSeq # Sentinel
  /\ \A k \in DOMAIN snaps : snaps[k].seq # lastSeq - 1
  /\ snaps' = Append(snaps, Snapshot(lastSeq - 1))
  /\ UNCHANGED <<cell, blind, stepVars, journal, envVars, queue, state,
                 lastSeq, phase, told, dead>>

----------------------------------------------------------------------------
(* Recovery.                                                               *)

(* A mutant in which the tail repeats the anchored fact.                   *)
ReplayAnchorAgain ==
  IF snaps = <<>> THEN journal
  ELSE LET s == snaps[Len(snaps)]
       IN  s.state \o SubSeq(journal, s.seq + 1, Len(journal))

(* JournalStore::load, folded: the last snapshot and the tail after it.    *)
Replay ==
  IF snaps = <<>> THEN journal
  ELSE LET s == snaps[Len(snaps)]
       IN  s.state \o SubSeq(journal, s.seq + 2, Len(journal))

(* Mutant: a crash before the first append is not recovered.               *)
RestartNeedsJournal ==
  /\ phase = "crashed" /\ journal # <<>>
  /\ state' = Replay
  /\ lastSeq' = Len(journal)
  /\ phase' = "step"
  /\ UNCHANGED <<cell, blind, stepVars, storeVars, envVars, queue, told,
                 dead>>

(* restart_es, and the fresh loop's own boot replay (which reads the same).*)
Restart ==
  /\ phase = "crashed"
  /\ state' = Replay
  /\ lastSeq' = Len(journal)
  /\ phase' = "step"
  /\ UNCHANGED <<cell, blind, stepVars, storeVars, envVars, queue, told,
                 dead>>

(* The store cannot be read: the expect() kills the supervision task.      *)
RestartFails ==
  /\ phase = "crashed"
  /\ Fail("load")
  /\ phase' = "abandoned"
  /\ UNCHANGED <<cell, blind, stepVars, storeVars, sent, spawns, queue,
                 state, lastSeq, told, dead>>

(* recover_at_boot leaves last_event_seq alone.                            *)
Boot ==
  /\ phase = "boot"
  /\ state' = Replay
  /\ phase' = "step"
  /\ UNCHANGED <<cell, blind, stepVars, storeVars, envVars, queue, lastSeq,
                 told, dead>>

(* The store cannot be read: the loop starts on the genesis state.         *)
BootFails ==
  /\ phase = "boot"
  /\ Fail("load")
  /\ phase' = "step"
  /\ blind' = TRUE
  /\ UNCHANGED <<cell, stepVars, storeVars, sent, spawns, queue, state,
                 lastSeq, told, dead>>

(* A stop between steps, or one that aborts the loop where it awaits: the  *)
(* queue, claims included, dead-letters, and the state dies.               *)
StopWith(kind, where) ==
  /\ kind \in Faults
  /\ phase \in where
  /\ dead' = dead \cup {queue[k] : k \in DOMAIN queue}
  /\ queue' = <<>> /\ claimed' = 0 /\ decided' = 0
  /\ state' = <<>> /\ lastSeq' = Sentinel
  /\ phase' = "stopped"
  /\ UNCHANGED <<cell, blind, events, first, fanned, boundary, storeVars,
                 envVars, told>>

Stop  == StopWith("stop", {"step", "abandoned"})
Abort == StopWith("abort", {"decide", "append", "commit", "apply", "fanout", "snapshot"})

(* The process dies with everything it holds but the store.                *)
Die ==
  /\ phase # "stopped"
  /\ Fail("die")
  /\ queue' = <<>> /\ claimed' = 0 /\ decided' = 0
  /\ state' = <<>> /\ lastSeq' = Sentinel
  /\ phase' = "stopped"
  /\ UNCHANGED <<cell, blind, events, first, fanned, boundary, storeVars,
                 sent, spawns, told, dead>>

(* The path is spawned again: a fresh cell on the old journal.             *)
Respawn ==
  /\ phase = "stopped" /\ spawns < MaxSpawns
  /\ spawns' = spawns + 1
  /\ phase' = "boot"
  /\ UNCHANGED <<cell, blind, stepVars, storeVars, sent, failures, queue,
                 state, lastSeq, told, dead>>

----------------------------------------------------------------------------
Work ==
  \/ Claim \/ Decide \/ FilterEmits \/ AppendJournal \/ Commit \/ Apply \/ FanOut
  \/ MaybeSnapshot \/ SnapshotBoundary

Recover == Boot \/ Restart

Disturb ==
  \/ DecidePanics
  \/ AppendFails \/ RestartFails \/ BootFails \/ Stop \/ Abort \/ Die

Next == Send \/ Work \/ SnapshotOnIdle \/ Recover \/ Respawn \/ Disturb

Spec == Init /\ [][Next]_vars

(* The loop task and the supervision task are scheduled; whoever sends and *)
(* whoever respawns need not act.                                          *)
FairSpec == Spec /\ WF_vars(Work) /\ WF_vars(Recover)
----------------------------------------------------------------------------
(* Properties.  A command is known by its place in the script.             *)

DistinctScript ==
  \A j, k \in DOMAIN Script : Script[j] = Script[k] => j = k

(* The live state is the fold of the journal whenever a command is decided *)
(* on it, after any crash, restart, stop and respawn; between the append   *)
(* and the apply it lacks exactly the batch (step_es, restart_es,          *)
(* recover_at_boot, snapshot_now) - unless a boot could not read the store.*)
StateMatchesJournal ==
  ~blind =>
  /\ phase \in {"step", "decide", "append", "fanout", "snapshot"} => state = journal
  /\ phase \in {"commit", "apply"} => journal = state \o events

(* A command's facts are recorded once, however often it is redelivered    *)
(* (the append and the commit of step_es).                                 *)
RecordedOnce ==
  \A i, j \in DOMAIN journal :
    journal[i].cmd = journal[j].cmd /\ journal[i].nth = journal[j].nth => i = j

(* A broadcast copy carries the seq its fact really has in the journal,    *)
(* and no fact is broadcast twice or out of order, replays included        *)
(* (fan_out_emits).                                                        *)
ToldAsRecorded ==
  /\ \A k \in DOMAIN told :
       told[k].seq < Len(journal) /\ journal[told[k].seq + 1] = told[k].fact
  /\ \A j, k \in DOMAIN told : j < k => told[j].seq < told[k].seq

(* Nobody has heard a fact of a command that can still be redelivered      *)
(* (append before ack before effect).                                      *)
ToldNeverRedelivers ==
  \A k \in DOMAIN told, j \in DOMAIN queue : told[k].fact.cmd # queue[j]

(* A snapshot anchored at a seq is the fold of the facts up to that seq.   *)
SnapshotsFaithful ==
  ~blind => \A k \in DOMAIN snaps :
    /\ snaps[k].seq < Len(journal)
    /\ snaps[k].state = SubSeq(journal, 1, snaps[k].seq + 1)

(* A command accepted is eventually committed, or dead-lettered: it is not *)
(* left queued by any crash or restart, except by the restart that finds   *)
(* the store unreadable (es_actor_loop, restart_es).                       *)
EventuallyHandled ==
  \A m \in Message :
    (\E j \in DOMAIN queue : queue[j] = m)
      ~> (phase = "abandoned" \/ \A j \in DOMAIN queue : queue[j] # m)

(* The actor is an event log: the append is where a batch is handled; the  *)
(* queue then still holds what the log has already dealt with.             *)
Log == INSTANCE EventLog WITH
  pending <- IF phase = "commit" THEN Committed ELSE queue,
  log     <- journal,
  told    <- [k \in DOMAIN told |-> told[k].seq + 1]

ImplementsEventLog == Log!Spec
============================================================================
