----------------------------- MODULE Projector -----------------------------
(***************************************************************************)
(* One projector: its catch-up (catch_up_projector), the facts that reach  *)
(* it live (broadcast, step_es), its passivation, and the host that stops  *)
(* it, reads it (projector_state) and rebuilds it (rebuild_projector).     *)
(*                                                                         *)
(* A fact is told in two steps, its sources' append and the broadcast, and *)
(* reaches the projector live, by the catch-up's scan of the store, or     *)
(* both.  The fold is free: a state is the sequence of the facts folded.   *)
(* Each arm of the path is numbered.  A catch-up's replay and a boot put a *)
(* fresh instance of the state into the kernel's table; two numbers tell   *)
(* the new instance from the one it replaces.  Snapshots are off, the      *)
(* default.                                                                *)
(***************************************************************************)
EXTENDS Naturals, Sequences, FiniteSets, Functions, Selection

CONSTANTS
  Sources,    \* the actors whose facts the projector consumes
  Modes,      \* how the projector may live: a subset of AllModes
  Batch,      \* the step's batch
  FactsOf,    \* MODEL BOUND: how many facts each source records
  Budgets,    \* MODEL BOUND: how often each of AllFaults may happen, one choice per run
  MaxOps,     \* MODEL BOUND: operations of the host, starts aside
  MaxArms     \* MODEL BOUND: times the path is armed

AllModes ==
  {"owned",       \* by a projector set: broadcasts and reads wake it
   "standalone"}  \* the host starts it

AllFaults ==
  {"append",  \* the store refuses an append of the projector's step
   "mute"}    \* a source dies between its append and its broadcast

ASSUME ProjectorAssumption ==
  /\ Modes \subseteq AllModes
  /\ Batch \in Nat \ {0}
  /\ FactsOf \in [Sources -> Nat]
  /\ Budgets \subseteq [AllFaults -> Nat]
  /\ {MaxOps, MaxArms} \subseteq Nat

VARIABLES
  mode,      \* how this projector lives; never changes
  ingested,  \* the facts the sources have recorded, in the store's order
  own,       \* the projector's journal
  source,    \* each source: what it is doing, the facts it is done with
  told,      \* the facts broadcast (history)
  arms,      \* every arm of the path there has been
  slot,      \* the arm behind the registry's slot, or 0
  states,    \* the fold of each instance of the state
  table,     \* the instance in the kernel's es_state, or 0
  caughtUp,  \* the path's caught-up counter
  host,      \* what the host is doing
  ops, left, \* operations begun; faults still to come
  purged,    \* the journal was purged under a live projector (history)
  missed     \* what completed reads lacked (history)

storeVars == <<ingested, own>>
liveVars  == <<arms, slot, states, table>>
hostVars  == <<host, ops, purged, missed>>
vars == <<mode, storeVars, source, told, liveVars, caughtUp, hostVars, left>>

Fact == UNION {{s} \X (1 .. FactsOf[s]) : s \in Sources}

Owned == mode = "owned"

(* EventOrigin: a catch-up entry names the fact it is a checkpoint of, one *)
(* that is recorded plainly names none.                                    *)
Plain == {}
Entry == [fact : Fact, origin : SUBSET Fact]

CatchingUp == {"armed", "loaded", "scanned", "seeded"}
Looping    == {"boot", "idle", "claimed", "committed"}

Arms == DOMAIN arms

TypeOK ==
  /\ mode \in Modes
  /\ ingested \in Seq(Fact) /\ own \in Seq(Entry)
  /\ source \in [Sources -> [at : {"idle", "telling", "dead"}, done : Nat,
                             target : {0} \cup Arms]]
  /\ told \subseteq Fact
  /\ arms \in Seq([at : CatchingUp \cup Looping \cup {"crashed", "gone"},
                   inbox : Seq(Fact), open : BOOLEAN, hand : Seq(Fact),
                   found : Seq(Fact), state : {1, 2}])
  /\ slot \in {0} \cup Arms
  /\ states \in [{1, 2} -> Seq(Fact)] /\ table \in 0 .. 2
  /\ caughtUp \in 0 .. MaxArms
  /\ host \in [op : {"none", "read", "rebuild", "stop"},
               at : {"done", "wake", "factory", "mark", "wait", "quiesce", "read", "stop",
                     "purge", "dead"},
               mark : 0 .. MaxArms, owed : SUBSET Fact]
  /\ ops \in 0 .. MaxOps /\ left \in [AllFaults -> Nat]
  /\ purged \in BOOLEAN /\ missed \subseteq Fact

Idle == [op |-> "none", at |-> "done", mark |-> 0, owed |-> {}]

Shells == [k \in {1, 2} |-> <<>>]

Init ==
  /\ mode \in Modes
  /\ ingested = <<>> /\ own = <<>> /\ told = {}
  /\ source = [s \in Sources |-> [at |-> "idle", done |-> 0, target |-> 0]]
  /\ arms = <<>> /\ slot = 0 /\ states = Shells /\ table = 0 /\ caughtUp = 0
  /\ host = Idle
  /\ ops = 0 /\ left \in Budgets /\ purged = FALSE /\ missed = {}

Spend(fault) == left[fault] > 0 /\ left' = [left EXCEPT ![fault] = @ - 1]

Set(i, arm) == arms' = [arms EXCEPT ![i] = arm]

(* arm_projector: slot, routes, cell and a fresh state at once; the loop   *)
(* waits for the catch-up.  The mail is that of the sender that woke it.   *)
Arm(mail) ==
  /\ Len(arms) < MaxArms
  /\ arms' = Append(arms, [at |-> "armed", inbox |-> mail, open |-> TRUE, hand |-> <<>>,
                           found |-> <<>>, state |-> 1])
  /\ slot' = Len(arms) + 1 /\ table' = 1
  /\ UNCHANGED states

(* teardown_tables: what is queued becomes dead letters.                   *)
Teardown(i) ==
  /\ Set(i, [arms[i] EXCEPT !.at = "gone", !.inbox = <<>>, !.open = FALSE,
                             !.found = <<>>, !.state = 1])
  /\ slot' = 0 /\ table' = 0 /\ states' = Shells

----------------------------------------------------------------------------
(* The sources.                                                            *)

Count(s) == Cardinality({k \in DOMAIN ingested : ingested[k][1] = s})

(* A step of the source appends the facts of its batch together.           *)
Record(s, n) ==
  /\ source[s].at = "idle" /\ source[s].done = Count(s)
  /\ Count(s) + n <= FactsOf[s]
  /\ ingested' = ingested \o [k \in 1 .. n |-> <<s, Count(s) + k>>]
  /\ UNCHANGED <<mode, own, source, told, liveVars, caughtUp, hostVars, left>>

(* broadcast, its registry read: who gets the next fact's copy.            *)
Resolve(s) ==
  /\ source[s].at = "idle" /\ source[s].done < Count(s)
  /\ source' = [source EXCEPT ![s].at = "telling", ![s].target = slot]
  /\ UNCHANGED <<mode, storeVars, told, liveVars, caughtUp, hostVars, left>>

Telling(s) == source[s].at = "telling"
Next1(s) == <<s, source[s].done + 1>>

Told(s) ==
  /\ source' = [source EXCEPT ![s] = [at |-> "idle", done |-> @.done + 1, target |-> 0]]
  /\ told' = told \cup {Next1(s)}

(* The copy is pushed, or refused and dead-lettered when the inbox has     *)
(* closed meanwhile.                                                       *)
Deliver(s) ==
  LET i == source[s].target
  IN  /\ Telling(s) /\ i # 0
      /\ Told(s)
      /\ IF arms[i].open
         THEN Set(i, [arms[i] EXCEPT !.inbox = Append(@, Next1(s))]) ELSE UNCHANGED arms
      /\ UNCHANGED <<mode, storeVars, slot, states, table, caughtUp, hostVars, left>>

(* Nobody was there: a standalone projector gets no copy, a set's is armed *)
(* by its factory, which panics in the source's task if another was first. *)
DeliverCold(s) ==
  /\ Telling(s) /\ source[s].target = 0
  /\ \/ ~Owned /\ Told(s) /\ UNCHANGED liveVars
     \/ Owned /\ slot = 0 /\ Told(s) /\ Arm(<<Next1(s)>>)
     \/ /\ Owned /\ slot # 0
        /\ source' = [source EXCEPT ![s].at = "dead"]
        /\ UNCHANGED <<told, liveVars>>
  /\ UNCHANGED <<mode, storeVars, caughtUp, hostVars, left>>

(* The source stops or crashes and never tells the fact; its next life     *)
(* goes on behind it.                                                      *)
Mute(s) ==
  /\ source[s].at # "dead" /\ source[s].done < Count(s)
  /\ Spend("mute")
  /\ source' = [source EXCEPT ![s] = [at |-> "idle", done |-> Count(s), target |-> 0]]
  /\ UNCHANGED <<mode, storeVars, told, liveVars, caughtUp, hostVars>>

----------------------------------------------------------------------------
(* The catch-up.                                                           *)

Facts(journal) == [k \in DOMAIN journal |-> journal[k].fact]

Fresh == 3 - table

Rebuilt ==
  /\ states' = [states EXCEPT ![Fresh] = Facts(own)]
  /\ table' = Fresh

(* 1. Replay the projector's own journal.                                  *)
LoadOwn(i) ==
  /\ arms[i].at = "armed"
  /\ Set(i, [arms[i] EXCEPT !.at = "loaded"])
  /\ IF own = <<>> THEN UNCHANGED <<states, table>> ELSE Rebuilt
  /\ UNCHANGED <<mode, storeVars, source, told, slot, caughtUp, hostVars, left>>

(* Mutant: the scan's answer is sorted the wrong way round.                *)
ScannedDescending == [k \in DOMAIN ingested |-> ingested[Len(ingested) + 1 - k]]

(* 2. Scan what the sources have recorded, in the order of its ingest.     *)
Scanned == ingested

Scan(i) ==
  /\ arms[i].at = "loaded"
  /\ Set(i, [arms[i] EXCEPT !.at = "scanned", !.found = Scanned])
  /\ UNCHANGED <<mode, storeVars, source, told, slot, states, table, caughtUp, hostVars, left>>

(* Mutant: append_catchup does not look for the origin.                    *)
LackingAll(facts) == facts

(* append_catchup: what the journal holds no checkpoint of.                *)
Held(f) == \E k \in DOMAIN own : f \in own[k].origin
Lacking(facts) == Select(facts, {k \in DOMAIN facts : ~Held(facts[k])})
Checkpoints(facts) == [k \in DOMAIN facts |-> [fact |-> facts[k], origin |-> {facts[k]}]]

Seed(i) ==
  /\ arms[i].at = "scanned"
  /\ own' = own \o Checkpoints(Lacking(arms[i].found))
  /\ Set(i, [arms[i] EXCEPT !.at = "seeded", !.hand = Lacking(arms[i].found)])
  /\ UNCHANGED <<mode, ingested, source, told, slot, states, table, caughtUp, hostVars, left>>

(* Mutant: the loop starts only if something was seeded.                   *)
GoLiveSeeded(i) ==
  /\ arms[i].hand # <<>>
  /\ arms[i].at = "seeded"
  /\ states' = [states EXCEPT ![table] = @ \o arms[i].hand]
  /\ Set(i, [arms[i] EXCEPT !.at = "boot", !.hand = <<>>, !.state = table])
  /\ caughtUp' = caughtUp + 1
  /\ UNCHANGED <<mode, storeVars, source, told, slot, table, hostVars, left>>

(* The new facts fold, the loop takes the table's state and starts, the    *)
(* counter goes up.                                                        *)
GoLive(i) ==
  /\ arms[i].at = "seeded"
  /\ states' = [states EXCEPT ![table] = @ \o arms[i].hand]
  /\ Set(i, [arms[i] EXCEPT !.at = "boot", !.hand = <<>>, !.state = table])
  /\ caughtUp' = caughtUp + 1
  /\ UNCHANGED <<mode, storeVars, source, told, slot, table, hostVars, left>>

----------------------------------------------------------------------------
(* The loop.                                                               *)

(* Mutant: the boot's replay does not rebind the loop's state.             *)
BootUnbound(i) ==
  /\ arms[i].at = "boot"
  /\ Set(i, [arms[i] EXCEPT !.at = "idle"])
  /\ IF own = <<>> THEN UNCHANGED <<states, table>> ELSE Rebuilt
  /\ UNCHANGED <<mode, storeVars, source, told, slot, caughtUp, hostVars, left>>

(* recover_at_boot replays the journal once more into a fresh state.       *)
Boot(i) ==
  /\ arms[i].at = "boot"
  /\ IF own = <<>>
     THEN Set(i, [arms[i] EXCEPT !.at = "idle"]) /\ UNCHANGED <<states, table>>
     ELSE Rebuilt /\ Set(i, [arms[i] EXCEPT !.at = "idle", !.state = Fresh])
  /\ UNCHANGED <<mode, storeVars, source, told, slot, caughtUp, hostVars, left>>

Claim(i) ==
  /\ arms[i].at = "idle" /\ arms[i].inbox # <<>>
  /\ LET inbox == arms[i].inbox
         n == IF Len(inbox) < Batch THEN Len(inbox) ELSE Batch
     IN  Set(i, [arms[i] EXCEPT !.at = "claimed", !.hand = SubSeq(inbox, 1, n),
                                 !.inbox = SubSeq(inbox, n + 1, Len(inbox))])
  /\ UNCHANGED <<mode, storeVars, source, told, slot, states, table, caughtUp, hostVars, left>>

(* The checkpoint path is for copies of one fact; a mixed batch takes the  *)
(* plain append.                                                           *)
OneOrigin(copies) == \A k \in DOMAIN copies : copies[k] = copies[1]

Rerecords(copies) ==
  IF OneOrigin(copies)
  THEN Checkpoints(Lacking(copies))
  ELSE [k \in DOMAIN copies |-> [fact |-> copies[k], origin |-> Plain]]

(* A copy the journal held is committed and not folded.                    *)
Journal(i) ==
  LET copies == arms[i].hand
  IN  /\ arms[i].at = "claimed"
      /\ own' = own \o Rerecords(copies)
      /\ IF Len(Rerecords(copies)) < Len(copies)
         THEN Set(i, [arms[i] EXCEPT !.at = "idle", !.hand = <<>>])
         ELSE Set(i, [arms[i] EXCEPT !.at = "committed"])
      /\ UNCHANGED <<mode, ingested, source, told, slot, states, table, caughtUp, hostVars,
                     left>>

JournalFails(i) ==
  /\ arms[i].at = "claimed"
  /\ Spend("append")
  /\ Set(i, [arms[i] EXCEPT !.at = "crashed", !.hand = <<>>,
                             !.inbox = arms[i].hand \o arms[i].inbox])
  /\ UNCHANGED <<mode, storeVars, source, told, slot, states, table, caughtUp, hostVars>>

Apply(i) ==
  /\ arms[i].at = "committed"
  /\ states' = [states EXCEPT ![arms[i].state] = @ \o arms[i].hand]
  /\ Set(i, [arms[i] EXCEPT !.at = "idle", !.hand = <<>>])
  /\ UNCHANGED <<mode, storeVars, source, told, slot, table, caughtUp, hostVars, left>>

(* maybe_passivate: the idle loop of a set's projector closes its inbox,   *)
(* steps through what is queued, and leaves, crashed or not.               *)
Close(i) ==
  /\ Owned /\ arms[i].at = "idle" /\ arms[i].inbox = <<>> /\ arms[i].open
  /\ Set(i, [arms[i] EXCEPT !.open = FALSE])
  /\ UNCHANGED <<mode, storeVars, source, told, slot, states, table, caughtUp, hostVars, left>>

Leave(i) ==
  /\ ~arms[i].open
  /\ \/ arms[i].at = "idle" /\ arms[i].inbox = <<>>
     \/ arms[i].at = "crashed"
  /\ Teardown(i)
  /\ UNCHANGED <<mode, storeVars, source, told, caughtUp, hostVars, left>>

----------------------------------------------------------------------------
(* The host: one task, one operation at a time.                            *)

Begin(op, at, owed) ==
  /\ host.at = "done" /\ ops < MaxOps
  /\ ops' = ops + 1
  /\ host' = [op |-> op, at |-> at, mark |-> 0, owed |-> owed]

Goes(at) == host' = IF at = "done" THEN Idle ELSE [host EXCEPT !.at = at]

(* Start the standalone projector.                                         *)
Start ==
  /\ ~Owned /\ slot = 0 /\ host.at = "done"
  /\ Arm(<<>>)
  /\ UNCHANGED <<mode, storeVars, source, told, caughtUp, hostVars, left>>

(* projector_state, hot: what has been told is owed, less what a catch-up  *)
(* still has to find.                                                      *)
ReadHot ==
  /\ table # 0
  /\ Begin("read", "quiesce", IF arms[slot].at \in Looping THEN told ELSE {})
  /\ UNCHANGED <<mode, storeVars, source, told, liveVars, caughtUp, purged, missed, left>>

ReadCold ==
  /\ table = 0 /\ Owned
  /\ Begin("read", "wake", Range(ingested))
  /\ UNCHANGED <<mode, storeVars, source, told, liveVars, caughtUp, purged, missed, left>>

(* wake_projector_until_caught_up: the watermark, then the look whether    *)
(* another woke it.                                                        *)
Wake ==
  /\ host.at = "wake"
  /\ IF table # 0
     THEN host' = [host EXCEPT !.at = "quiesce", !.owed = {}]
     ELSE host' = [host EXCEPT !.at = "factory", !.mark = caughtUp]
  /\ UNCHANGED <<mode, storeVars, source, told, liveVars, caughtUp, ops, purged, missed, left>>

(* Mutant: a wake reads its watermark after the factory.                   *)
FactoryFirst ==
  /\ host.at = "factory"
  /\ IF slot # 0
     THEN Goes("dead") /\ UNCHANGED liveVars
     ELSE Arm(<<>>) /\ Goes("mark")
  /\ UNCHANGED <<mode, storeVars, source, told, caughtUp, ops, purged, missed, left>>

(* The set's factory; it panics in the host's task when the path is taken. *)
Factory ==
  /\ host.at = "factory"
  /\ IF slot # 0
     THEN Goes("dead") /\ UNCHANGED liveVars
     ELSE Arm(<<>>) /\ Goes(IF host.op = "read" THEN "wait" ELSE "mark")
  /\ UNCHANGED <<mode, storeVars, source, told, caughtUp, ops, purged, missed, left>>

(* rebuild_projector reads its watermark after the factory.                *)
Mark ==
  /\ host.at = "mark"
  /\ host' = [host EXCEPT !.at = "wait", !.mark = caughtUp]
  /\ UNCHANGED <<mode, storeVars, source, told, liveVars, caughtUp, ops, purged, missed, left>>

(* wait_caught_up_past; its budget is longer than the model's catch-ups.   *)
Wait ==
  /\ host.at = "wait" /\ caughtUp > host.mark
  /\ Goes("quiesce")
  /\ UNCHANGED <<mode, storeVars, source, told, liveVars, caughtUp, ops, purged, missed, left>>

(* Mutant: quiescence looks at the queue and not at the claims.            *)
QuietQueue(i) == arms[i].inbox = <<>>

(* await_quiescent: claims count until their commit.  It gives up on a     *)
(* projector that no longer works.                                         *)
Quiet(i) == arms[i].inbox = <<>> /\ arms[i].at # "claimed"

Quiesce ==
  LET stuck == slot # 0 /\ arms[slot].at = "crashed"
  IN  /\ host.at = "quiesce"
      /\ \A i \in Arms : i = slot => stuck \/ Quiet(i)
      /\ host' = IF host.op # "read" THEN Idle
                 ELSE [host EXCEPT !.at = "read", !.owed = IF stuck THEN {} ELSE @]
      /\ UNCHANGED <<mode, storeVars, source, told, liveVars, caughtUp, ops, purged, missed,
                     left>>

(* The state is captured, if there is one.  It may be caught between a     *)
(* step's commit and its apply, in another catch-up, or in a passivation,  *)
(* which refuses what it is told.                                          *)
Lacks ==
  IF \/ table = 0
     \/ arms[slot].at \in CatchingUp \cup {"committed"}
     \/ ~arms[slot].open
  THEN {}
  ELSE host.owed \ Range(states[table])

Read ==
  /\ host.at = "read"
  /\ missed' = missed \cup Lacks
  /\ Goes("done")
  /\ UNCHANGED <<mode, storeVars, source, told, liveVars, caughtUp, ops, purged, left>>

BeginStop ==
  /\ slot # 0
  /\ \/ Begin("stop", "stop", {})
     \/ Owned /\ Begin("rebuild", "stop", {})
  /\ UNCHANGED <<mode, storeVars, source, told, liveVars, caughtUp, purged, missed, left>>

(* stop_bounded waits for the loop's step.  It is taken to wait for a      *)
(* catch-up too: a second (1787-1797), or the budget of the catch-up.      *)
Stop ==
  /\ host.at = "stop"
  /\ IF slot = 0
     THEN UNCHANGED liveVars
     ELSE arms[slot].at \in {"idle", "crashed"} /\ Teardown(slot)
  /\ Goes(IF host.op = "stop" THEN "done" ELSE "purge")
  /\ UNCHANGED <<mode, storeVars, source, told, caughtUp, ops, purged, missed, left>>

Purge ==
  /\ host.at = "purge"
  /\ own' = <<>>
  /\ purged' = (purged \/ slot # 0)
  /\ Goes("factory")
  /\ UNCHANGED <<mode, ingested, source, told, liveVars, caughtUp, ops, missed, left>>

----------------------------------------------------------------------------
CatchUp(i) == LoadOwn(i) \/ Scan(i) \/ Seed(i) \/ GoLive(i)

Step(i) == Boot(i) \/ Claim(i) \/ Journal(i) \/ Apply(i)

Tell(s) == Resolve(s) \/ Deliver(s) \/ DeliverCold(s)

Reads == Wake \/ Factory \/ Mark \/ Wait \/ Quiesce \/ Read

Host == Start \/ ReadHot \/ ReadCold \/ BeginStop \/ Stop \/ Purge

Next ==
  \/ \E s \in Sources : (\E n \in 1 .. 2 : Record(s, n)) \/ Tell(s) \/ Mute(s)
  \/ \E i \in Arms : CatchUp(i) \/ Step(i) \/ JournalFails(i) \/ Close(i) \/ Leave(i)
  \/ Reads \/ Host

Spec == Init /\ [][Next]_vars

(* The tasks of the projector and a read in progress are polled.  Only one *)
(* arm is at work at a time.                                               *)
Fairness ==
  /\ WF_vars(\E i \in Arms : CatchUp(i) \/ Step(i) \/ Leave(i))
  /\ WF_vars(Reads)

FairSpec == Spec /\ Fairness

----------------------------------------------------------------------------
(* Properties.                                                             *)

(* The catch-up of live facts races their copies; whichever way a fact     *)
(* comes, by both or by both twice, across passivations, restarts and      *)
(* rebuilds, the state holds it once.  (Not once a rebuild has purged the  *)
(* journal of a projector that a broadcast woke in between.)               *)
FoldedOnce ==
  table # 0 /\ ~purged =>
    \A j, k \in DOMAIN states[table] : states[table][j] = states[table][k] => j = k

(* No gap: an open projector at rest has folded every fact told and every  *)
(* fact its catch-up found, into the very state that readers see.          *)
NothingMissed ==
  slot # 0 /\ arms[slot].at = "idle" /\ arms[slot].inbox = <<>> /\ arms[slot].open =>
    /\ table = arms[slot].state
    /\ told \cup Range(arms[slot].found) \subseteq Range(states[table])

(* Facts of one source fold in its order, whether they came from history   *)
(* or live; only one its source never told may be found late.              *)
SourceOrder ==
  table # 0 /\ ~purged =>
    \A j, k \in DOMAIN states[table] :
      LET early == states[table][j]
          late  == states[table][k]
      IN  j < k /\ early[1] = late[1] /\ late \in told => early[2] < late[2]

(* What a read owes: a read that woke the projector has every fact the     *)
(* store held when it began, one of a live projector every fact told by    *)
(* then.                                                                   *)
ReadWhole == missed = {}

(* A fact told to a live projector is folded in the end, unless the        *)
(* projector goes cold or crashes.                                         *)
EventuallyFolded ==
  \A f \in Fact :
    (f \in told /\ slot # 0) ~>
      (slot = 0 \/ arms[slot].at = "crashed" \/ f \in Range(states[table]))

(* The wait of a read for the catch-up it started is ended by it, however  *)
(* soon the catch-up was over.                                             *)
WakeSeesCatchUp == (host.op = "read" /\ host.at = "wait") ~> host.at # "wait"
============================================================================
