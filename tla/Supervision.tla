---------------------------- MODULE Supervision ----------------------------
(***************************************************************************)
(* One supervised child: its engine (supervise_child, escalate), its cells *)
(* and loops across crashes and restarts of both tiers (restart_es, the    *)
(* spec's spawn closure), the stop (stop_bounded_inner, teardown_tables)   *)
(* and the host.                                                           *)
(*                                                                         *)
(* A cell outlives its loop; a restart of an event-sourced child starts a  *)
(* fresh loop on the old cell, any other restart a fresh loop on a fresh   *)
(* cell.  Cells and loops are numbered as they come; 0 is none.  The step  *)
(* itself is in modules Mailbox and EsActor.                               *)
(***************************************************************************)
EXTENDS Naturals, Sequences, FiniteSets

CONSTANTS
  Specs,        \* the specs the child may have: ActorSpec
  Faults,       \* which of AllFaults may happen
  MaxTime,      \* MODEL BOUND: ticks of the clock
  MaxCrashes,   \* MODEL BOUND: panics and failed inits
  MaxStops,     \* MODEL BOUND: stops and spawns by the host
  MaxMail       \* MODEL BOUND: messages sent to the child

AllFaults ==
  {"initFails",  \* a service's init returns an error
   "load",       \* the store cannot be read at a restart
   "stop",       \* the host stops the child
   "abort",      \* the stop's budget runs out in the join
   "respawn",    \* the host spawns the path again once its slot is free
   "shutdown"}   \* the host shuts the system's engines down

(* `max' and `window' are the budget's.                                    *)
ActorSpec ==
  [tier    : {"es", "service"},
   restart : {"Permanent", "Transient", "Never"},
   max     : Nat,
   window  : Nat]

ASSUME SupervisionAssumption ==
  /\ Specs \subseteq ActorSpec
  /\ Faults \subseteq AllFaults
  /\ {MaxTime, MaxCrashes, MaxStops, MaxMail} \subseteq Nat

VARIABLES
  spec,      \* the child's spec; never changes
  now,       \* the system's clock
  cells,     \* every cell there has been
  loops,     \* every loop task there has been
  live,      \* the cell in the kernel's table, or 0
  slot,      \* the cell the registry's slot leads to, or 0
  esState,   \* the kernel's es_state has the path
  instance,  \* the kernel's services has the path
  engine,    \* the supervision task: where it stands, the cell it watches
  failures,  \* the path's FailureWindow
  restarts,  \* when the engine has restarted the child (history)
  host,      \* the stop in progress: where it stands, the loop it joins
  shutdown,  \* the engines have been told to exit
  crashes, stops, sent,
  done,      \* the messages committed
  dead,      \* the messages dead-lettered
  slips,     \* crashes that fell into a window of the engine (history)
  respawned  \* the host has spawned the path itself (history)

kids     == <<cells, loops>>
tables   == <<live, slot, esState>>
bookVars == <<failures, restarts>>
mailVars == <<sent, done, dead>>
hostVars == <<host, shutdown, stops, respawned>>
vars == <<spec, now, kids, tables, instance, engine, bookVars, hostVars,
          crashes, mailVars, slips>>

Mail == 1 .. MaxMail
Cells == DOMAIN cells
Loops == DOMAIN loops
IsEs == spec.tier = "es"

Working == {"init", "idle", "busy"}

(* A cell's handle is a loop, a loop's cell a cell, of those there are.    *)
CellRecord(ls) ==
  [crashed : BOOLEAN, stopping : BOOLEAN, handle : {0} \cup DOMAIN ls, mail : SUBSET Mail]

LoopRecord(cs) ==
  [cell : DOMAIN cs, at : Working \cup {"ended"}, hand : SUBSET Mail, told : BOOLEAN]

KidTypes == cells \in Seq(CellRecord(loops)) /\ loops \in Seq(LoopRecord(cells))

TableTypes ==
  /\ live \in {0} \cup Cells /\ slot \in {0} \cup Cells
  /\ esState \in BOOLEAN /\ instance \in BOOLEAN
  /\ shutdown \in BOOLEAN /\ respawned \in BOOLEAN

TaskTypes ==
  /\ engine \in
       [at : {"watch", "checked", "parked", "woken", "judge", "escalate", "backoff",
              "loading", "rebuilding", "spawned", "done", "dead"},
        cell : {0} \cup Cells, target : {0} \cup Cells]
  /\ engine.at \in {"loading", "rebuilding"} => engine.target # 0
  /\ host \in [at : {"none", "joining", "teardown"}, loop : {0} \cup Loops]
  /\ host.at = "joining" => host.loop # 0

BookTypes ==
  /\ spec \in Specs
  /\ now \in 0 .. MaxTime
  /\ failures \in Seq(0 .. MaxTime) /\ restarts \in Seq(0 .. MaxTime)
  /\ crashes \in 0 .. MaxCrashes /\ stops \in 0 .. MaxStops /\ sent \in 0 .. MaxMail
  /\ done \subseteq Mail /\ dead \subseteq Mail
  /\ slips \subseteq {"signal", "clear"}

TypeOK == KidTypes /\ TableTypes /\ TaskTypes /\ BookTypes

NewCell(handle) == [crashed |-> FALSE, stopping |-> FALSE, handle |-> handle, mail |-> {}]

NewLoop(cell) == [cell |-> cell, at |-> "init", hand |-> {}, told |-> FALSE]

(* ActorSystem::spawn: the spec's spawn closure, then the engine.  A       *)
(* service's handle is stored only when its loop starts.                   *)
Init ==
  /\ spec \in Specs
  /\ now = 0
  /\ cells = <<NewCell(IF IsEs THEN 1 ELSE 0)>> /\ loops = <<NewLoop(1)>>
  /\ live = 1 /\ slot = 1 /\ esState = IsEs /\ instance = FALSE
  /\ engine = [at |-> "watch", cell |-> 1, target |-> 0]
  /\ failures = <<>> /\ restarts = <<>>
  /\ host = [at |-> "none", loop |-> 0]
  /\ shutdown = FALSE /\ respawned = FALSE
  /\ crashes = 0 /\ stops = 0 /\ sent = 0
  /\ done = {} /\ dead = {} /\ slips = {}

(* arm_es_erased or spawn_service_erased, on a path whose slot is free.    *)
SpawnChild ==
  LET cell == Len(cells) + 1
  IN  /\ cells' = Append(cells, NewCell(IF IsEs THEN Len(loops) + 1 ELSE 0))
      /\ loops' = Append(loops, NewLoop(cell))
      /\ live' = cell /\ slot' = cell
      /\ esState' = (IsEs \/ esState)

----------------------------------------------------------------------------
(* The child's loops.                                                      *)

(* A message goes to the cell behind the slot, crashed or not.             *)
Send ==
  /\ sent < MaxMail
  /\ sent' = sent + 1
  /\ IF slot = 0
     THEN dead' = dead \cup {sent + 1} /\ UNCHANGED cells
     ELSE cells' = [cells EXCEPT ![slot].mail = @ \cup {sent + 1}] /\ UNCHANGED dead
  /\ UNCHANGED <<spec, now, loops, tables, instance, engine, bookVars, hostVars,
                 crashes, done, slips>>

(* The handle of a service goes to whatever cell the path has by then.     *)
HandleStored(l) ==
  IF IsEs \/ live = 0 THEN cells ELSE [cells EXCEPT ![live].handle = l]

(* recover_at_boot, or the service's init, is over: the loop runs.         *)
LoopStarts(l) ==
  /\ loops[l].at = "init"
  /\ loops' = [loops EXCEPT ![l].at = "idle"]
  /\ cells' = HandleStored(l)
  /\ instance' = (instance \/ ~IsEs)
  /\ UNCHANGED <<spec, now, tables, engine, bookVars, hostVars, crashes, mailVars, slips>>

(* mark_crashed stores the flag, then wakes those who are waiting.         *)
Woken(c) == IF engine.at = "parked" /\ engine.cell = c
            THEN [engine EXCEPT !.at = "woken"] ELSE engine

Slip(c) == IF engine.at = "checked" /\ engine.cell = c THEN {"signal"} ELSE {}

(* The init returns an error: the cell is crashed, the loop starts anyway. *)
InitFails(l) ==
  /\ "initFails" \in Faults
  /\ loops[l].at = "init" /\ ~IsEs /\ crashes < MaxCrashes
  /\ crashes' = crashes + 1
  /\ loops' = [loops EXCEPT ![l].at = "idle"]
  /\ LET c == loops[l].cell
     IN  /\ cells' = [HandleStored(l) EXCEPT ![c].crashed = TRUE]
         /\ engine' = Woken(c)
         /\ slips' = slips \cup Slip(c)
  /\ UNCHANGED <<spec, now, tables, instance, bookVars, hostVars, mailVars>>

Oldest(mail) == CHOOSE m \in mail : \A k \in mail : m <= k

(* A service consumes a message as it takes it.                            *)
Take(l) ==
  /\ loops[l].at = "idle" /\ ~loops[l].told
  /\ IsEs \/ instance
  /\ LET c == loops[l].cell
         m == Oldest(cells[c].mail)
     IN  /\ cells[c].mail # {}
         /\ cells' = [cells EXCEPT ![c].mail = @ \ {m}]
         /\ loops' = [loops EXCEPT ![l].at = "busy", ![l].hand = IF IsEs THEN {m} ELSE {}]
         /\ done' = IF IsEs THEN done ELSE done \cup {m}
  /\ UNCHANGED <<spec, now, tables, instance, engine, bookVars, hostVars, crashes,
                 sent, dead, slips>>

(* No instance of the service: the loop task panics, and nobody is told.   *)
TakePanics(l) ==
  /\ loops[l].at = "idle" /\ ~loops[l].told
  /\ ~IsEs /\ ~instance
  /\ cells[loops[l].cell].mail # {}
  /\ loops' = [loops EXCEPT ![l].at = "ended"]
  /\ UNCHANGED <<spec, now, cells, tables, instance, engine, bookVars, hostVars,
                 crashes, mailVars, slips>>

Finish(l) ==
  /\ loops[l].at = "busy"
  /\ loops' = [loops EXCEPT ![l].at = "idle", ![l].hand = {}]
  /\ done' = done \cup loops[l].hand
  /\ UNCHANGED <<spec, now, cells, tables, instance, engine, bookVars, hostVars,
                 crashes, sent, dead, slips>>

(* A panic: the claim goes back to the inbox, or dead-letters if the cell  *)
(* is stopping; the inbox stays open; the loop ends.                       *)
Crash(l) ==
  /\ loops[l].at = "busy" /\ crashes < MaxCrashes
  /\ crashes' = crashes + 1
  /\ loops' = [loops EXCEPT ![l].at = "ended", ![l].hand = {}]
  /\ LET c == loops[l].cell
         gone == cells[c].stopping
     IN  /\ cells' = [cells EXCEPT ![c].crashed = TRUE,
                                   ![c].mail = IF gone THEN @ ELSE @ \cup loops[l].hand]
         /\ dead' = IF gone THEN dead \cup loops[l].hand ELSE dead
         /\ engine' = Woken(c)
         /\ slips' = slips \cup Slip(c)
  /\ UNCHANGED <<spec, now, tables, instance, bookVars, hostVars, sent, done>>

LoopStops(l) ==
  /\ loops[l].at = "idle" /\ loops[l].told
  /\ loops' = [loops EXCEPT ![l].at = "ended"]
  /\ UNCHANGED <<spec, now, cells, tables, instance, engine, bookVars, hostVars,
                 crashes, mailVars, slips>>

----------------------------------------------------------------------------
(* The engine.                                                             *)

Goto(at) == engine' = [engine EXCEPT !.at = at]

(* The top of its cycle, the select while it waits, the end of the backoff.*)
EngineExits ==
  /\ shutdown
  /\ engine.at \in {"watch", "checked", "parked", "woken", "backoff"}
  /\ Goto("done")
  /\ UNCHANGED <<spec, now, kids, tables, instance, bookVars, hostVars, crashes,
                 mailVars, slips>>

(* Mutant: the engine parks without a look at the flag.                    *)
SeesNothing == FALSE

SeesCrash == engine.cell # 0 /\ cells[engine.cell].crashed

(* CHECK FIRST, then park.                                                 *)
EngineChecks ==
  /\ engine.at = "woken" \/ (engine.at = "watch" /\ ~shutdown)
  /\ Goto(IF SeesCrash THEN "judge" ELSE "checked")
  /\ UNCHANGED <<spec, now, kids, tables, instance, bookVars, hostVars, crashes,
                 mailVars, slips>>

EngineParks ==
  /\ engine.at = "checked"
  /\ Goto("parked")
  /\ UNCHANGED <<spec, now, kids, tables, instance, bookVars, hostVars, crashes,
                 mailVars, slips>>

Recent(window) == {i \in DOMAIN window : now - window[i] <= spec.window}

(* Mutant: one failure too many.                                           *)
ExhaustedLate(window) == Cardinality(Recent(window)) > spec.max

(* FailureWindow::exhausted, of a window that already has this failure.    *)
Exhausted(window) == Cardinality(Recent(window)) >= spec.max

(* record and prune: what is in front of the first recent one goes.        *)
Recorded ==
  LET window == Append(failures, now)
      oldest == CHOOSE i \in Recent(window) : \A j \in Recent(window) : i <= j
  IN  SubSeq(window, oldest, Len(window))

EngineJudges ==
  /\ engine.at = "judge"
  /\ IF spec.restart = "Never"
     THEN Goto("escalate") /\ UNCHANGED failures
     ELSE /\ failures' = Recorded
          /\ Goto(IF Exhausted(Recorded) THEN "escalate" ELSE "backoff")
  /\ UNCHANGED <<spec, now, kids, tables, instance, restarts, hostVars, crashes,
                 mailVars, slips>>

(* After the stop announcement: the child is gone from the registry; its   *)
(* cell and its mail stay behind.                                          *)
Escalate ==
  /\ engine.at = "escalate"
  /\ Goto("done")
  /\ cells' = IF live = 0 THEN cells ELSE [cells EXCEPT ![live].crashed = FALSE]
  /\ slot' = 0 /\ esState' = FALSE
  /\ UNCHANGED <<spec, now, loops, live, instance, bookVars, hostVars, crashes,
                 mailVars, slips>>

(* The backoff is over and the path is journaled: restart_es on its cell.  *)
RestartBegins ==
  /\ engine.at = "backoff" /\ ~shutdown /\ esState
  /\ engine' = [engine EXCEPT !.at = IF live = 0 THEN "dead" ELSE "loading", !.target = live]
  /\ UNCHANGED <<spec, now, kids, tables, instance, bookVars, hostVars, crashes,
                 mailVars, slips>>

(* The store answers; an error, or a child stopped by now, is a panic of   *)
(* the engine.                                                             *)
RestartLoads ==
  /\ engine.at = "loading"
  /\ \/ Goto(IF esState THEN "rebuilding" ELSE "dead")
     \/ "load" \in Faults /\ Goto("dead")
  /\ UNCHANGED <<spec, now, kids, tables, instance, bookVars, hostVars, crashes,
                 mailVars, slips>>

(* Mutant: the restarted cell is still marked crashed.                     *)
StillCrashed(c) == cells[c].crashed

ClearCrashed(c) == FALSE

(* The rebuilt state goes in, then the endpoint is swapped (which expects  *)
(* a slot) and a fresh loop starts.  The fresh loop's stop signal is       *)
(* dropped: the cell's handle stays what it was.                           *)
RestartEs ==
  /\ engine.at = "rebuilding"
  /\ LET c == engine.target
     IN  /\ cells' = [cells EXCEPT ![c].crashed = ClearCrashed(c)]
         /\ IF slot = 0
            THEN Goto("dead") /\ UNCHANGED <<loops, slot, restarts>>
            ELSE /\ Goto("watch")
                 /\ loops' = Append(loops, NewLoop(c))
                 /\ slot' = c
                 /\ restarts' = Append(restarts, now)
  /\ esState' = TRUE
  /\ UNCHANGED <<spec, now, live, instance, failures, hostVars, crashes, mailVars, slips>>

(* The backoff is over and the path is not journaled (any more): the slot  *)
(* goes, and the spec's closure spawns a fresh child.                      *)
RestartFresh ==
  /\ engine.at = "backoff" /\ ~shutdown /\ ~esState
  /\ SpawnChild
  /\ Goto("spawned")
  /\ restarts' = Append(restarts, now)
  /\ UNCHANGED <<spec, now, instance, failures, hostVars, crashes, mailVars, slips>>

(* The fresh cell is looked up, cleared and watched.                       *)
EngineRearms ==
  /\ engine.at = "spawned"
  /\ engine' = [engine EXCEPT !.at = "watch", !.cell = live]
  /\ IF live = 0
     THEN UNCHANGED <<cells, slips>>
     ELSE /\ cells' = [cells EXCEPT ![live].crashed = FALSE]
          /\ slips' = slips \cup (IF cells[live].crashed THEN {"clear"} ELSE {})
  /\ UNCHANGED <<spec, now, loops, tables, instance, bookVars, hostVars, crashes, mailVars>>

----------------------------------------------------------------------------
(* The host.                                                               *)

(* The stop signals the loop whose handle the cell holds, and joins it.    *)
StopSignals ==
  /\ "stop" \in Faults /\ stops < MaxStops
  /\ stops' = stops + 1
  /\ host.at = "none"
  /\ LET h == IF live = 0 THEN 0 ELSE cells[live].handle
     IN  IF h = 0
         THEN host' = [at |-> "teardown", loop |-> 0] /\ UNCHANGED kids
         ELSE /\ host' = [at |-> "joining", loop |-> h]
              /\ cells' = [cells EXCEPT ![live].handle = 0]
              /\ loops' = [loops EXCEPT ![h].told = TRUE]
  /\ UNCHANGED <<spec, now, tables, instance, engine, bookVars, shutdown, respawned,
                 crashes, mailVars, slips>>

StopJoins ==
  /\ host.at = "joining" /\ loops[host.loop].at = "ended"
  /\ host' = [host EXCEPT !.at = "teardown"]
  /\ UNCHANGED <<spec, now, kids, tables, instance, engine, bookVars, shutdown, stops,
                 respawned, crashes, mailVars, slips>>

(* The budget is spent: the loop is aborted, and its claim goes back.      *)
StopAborts ==
  /\ "abort" \in Faults
  /\ host.at = "joining" /\ loops[host.loop].at \in Working
  /\ host' = [host EXCEPT !.at = "teardown"]
  /\ LET l == host.loop
     IN  /\ cells' = [cells EXCEPT ![loops[l].cell].mail = @ \cup loops[l].hand]
         /\ loops' = [loops EXCEPT ![l].at = "ended", ![l].hand = {}]
  /\ UNCHANGED <<spec, now, tables, instance, engine, bookVars, shutdown, stops,
                 respawned, crashes, mailVars, slips>>

(* Mutant: the queue is dropped with the cell.                             *)
DrainNothing == {}

Undelivered == IF live = 0 THEN {} ELSE cells[live].mail

(* teardown_tables: the queue dead-letters, the path leaves the tables -   *)
(* all but the services'.                                                  *)
Teardown ==
  /\ host.at = "teardown"
  /\ host' = [at |-> "none", loop |-> 0]
  /\ dead' = dead \cup Undelivered
  /\ cells' = IF live = 0 THEN cells
              ELSE [cells EXCEPT ![live].stopping = TRUE, ![live].mail = {}]
  /\ live' = 0 /\ slot' = 0 /\ esState' = FALSE
  /\ UNCHANGED <<spec, now, loops, instance, engine, bookVars, shutdown, stops, respawned,
                 crashes, sent, done, slips>>

(* The host spawns the path again, unsupervised.                           *)
Respawn ==
  /\ "respawn" \in Faults /\ stops < MaxStops
  /\ slot = 0 /\ host.at = "none"
  /\ stops' = stops + 1 /\ respawned' = TRUE
  /\ SpawnChild
  /\ UNCHANGED <<spec, now, instance, engine, bookVars, host, shutdown, crashes,
                 mailVars, slips>>

Shutdown ==
  /\ "shutdown" \in Faults /\ ~shutdown
  /\ shutdown' = TRUE
  /\ UNCHANGED <<spec, now, kids, tables, instance, engine, bookVars, host, stops,
                 respawned, crashes, mailVars, slips>>

Tick ==
  /\ now < MaxTime
  /\ now' = now + 1
  /\ UNCHANGED <<spec, kids, tables, instance, engine, bookVars, hostVars, crashes,
                 mailVars, slips>>

----------------------------------------------------------------------------
LoopStep(l) ==
  LoopStarts(l) \/ Take(l) \/ TakePanics(l) \/ Finish(l) \/ LoopStops(l)

EngineStep ==
  \/ EngineExits \/ EngineChecks \/ EngineParks \/ EngineJudges \/ Escalate
  \/ RestartBegins \/ RestartLoads \/ RestartEs \/ RestartFresh \/ EngineRearms

StopStep == StopJoins \/ Teardown

Next ==
  \/ Send \/ Tick \/ EngineStep \/ StopStep
  \/ StopSignals \/ StopAborts \/ Respawn \/ Shutdown
  \/ \E l \in Loops : LoopStep(l) \/ InitFails(l) \/ Crash(l)

Spec == Init /\ [][Next]_vars

(* The engine and the stop are tasks the executor polls, and a backoff     *)
(* ends.  Nothing obliges a loop to take a message or a host to act.       *)
FairSpec == Spec /\ WF_vars(EngineStep) /\ WF_vars(StopStep)
----------------------------------------------------------------------------
(* Properties.                                                             *)

(* "At most `max` restarts per `window`" (supervision.rs), wherever the    *)
(* window is laid, although crashes are what is counted and a backoff may  *)
(* push restarts together (supervise_child, FailureWindow).                *)
WithinBudget ==
  \A i \in DOMAIN restarts :
    Cardinality({j \in DOMAIN restarts : restarts[j] \in restarts[i] .. restarts[i] + spec.window})
      <= spec.max

(* No two loops of an event-sourced path are at work at once, through      *)
(* every crash, restart and stop: each would append (restart_es, step_es's *)
(* "this loop is the only appender for the path").  The host must not have *)
(* spawned the path itself: see README.                                    *)
OneLoop ==
  IsEs /\ ~respawned => Cardinality({l \in Loops : loops[l].at \in Working}) <= 1

InHand == UNION {loops[l].hand : l \in Loops}

Queued == UNION {cells[c].mail : c \in {live, slot} \ {0}}

(* Every message sent is committed, dead-lettered, in a loop's hands or    *)
(* queued in a cell the kernel or the registry knows.                      *)
MailAccounted ==
  1 .. sent \subseteq done \cup dead \cup InHand \cup Queued

(* So it is for an event-sourced child (restart_es keeps the inbox, the    *)
(* teardown drains it) that the host does not spawn over.                  *)
EsMailAccounted == IsEs /\ ~respawned => MailAccounted

(* A graceful stop is final: the engine brings no child back.              *)
StopIsFinal ==
  [][live = 0 /\ ~respawned' => live' = 0]_vars

GivenUp == engine.at \in {"done", "dead"}

(* A crash of the child is never left alone: the engine restarts it,       *)
(* escalates, or is gone - or the child is stopped.                        *)
CrashHandled ==
  live # 0 /\ cells[live].crashed ~>
    GivenUp \/ live = 0 \/ ~cells[live].crashed

(* So it is unless the crash falls between the engine's look at the flag   *)
(* and its park, or between a fresh spawn and its clearing of the flag.    *)
CrashHandledUnlessSlipped ==
  live # 0 /\ cells[live].crashed ~>
    GivenUp \/ live = 0 \/ ~cells[live].crashed \/ slips # {} \/ respawned
============================================================================
