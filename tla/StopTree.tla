------------------------------ MODULE StopTree ------------------------------
(***************************************************************************)
(* Ending actors: a host's stop, which ends the children of an actor       *)
(* before the actor itself within one budget (stop_bounded_inner), the     *)
(* actor that ends itself (stop_self or passivation, graceful_exit), and   *)
(* the sweep of a graceful shutdown (shutdown_graceful).  They meet at the *)
(* cell's task handle, at the claim of the on_stop hook and in the tables. *)
(*                                                                         *)
(* Loops: a handler may hang for ever, and an actor without supervision    *)
(* may crash (Supervision has the others).  Mail is left out (Mailbox has  *)
(* it), and so is time: a budget may run out at any moment.                *)
(***************************************************************************)
EXTENDS Naturals, Sequences, FiniteSets

CONSTANTS
  Paths,     \* the actors
  Nobody,    \* the parent of an actor that has none
  Parent,    \* per actor: the parent its spec names
  Services,  \* the service actors; the others are event-sourced
  Hosts,     \* the tasks that stop actors
  MaxWork,   \* MODEL BOUND: the messages of each actor
  Scenarios  \* MODEL BOUND: the actors alive at first and what is asked for, one per run

ASSUME StopTreeAssumption ==
  /\ Nobody \notin Paths
  /\ Parent \in [Paths -> Paths \cup {Nobody}]
  /\ Services \subseteq Paths
  /\ MaxWork \in Nat
  /\ Scenarios \subseteq [alive : SUBSET Paths, stops : Nat, sweeps : 0 .. 1]

VARIABLES
  loop,       \* per actor: where its loop task is
  cell,       \* the actors with a cell, a slot and a spec
  handle,     \* the actors whose cell still holds the task handle
  signalled,  \* the actors told to shut down
  claimed,    \* the actors whose on_stop hook has been claimed
  hooks,      \* per actor: how often its hook has run
  work,       \* per actor: the messages it has begun
  stack,      \* per host: the frames of its stop, the innermost first
  left,       \* the stops and sweeps still to be asked for
  sweep,      \* the shutdown: its stage and the actors it has in hand
  barrier,    \* shutting_down
  raced       \* actors torn down or given up on while others were at them (history)

actors == <<loop, cell, handle, signalled, claimed, hooks, work>>
vars == <<actors, stack, left, sweep, barrier, raced>>

Over == {"ended", "crashed"}
Exiting == {"exiting", "hook", "tearing"}

Frame ==
  [path : Paths,
   at : {"children", "signal", "join", "claim", "hook", "tear"},
   todo : SUBSET Paths,  \* children not yet stopped
   spent : BOOLEAN]      \* the budget is zero

TypeOK ==
  /\ loop \in [Paths -> {"idle", "busy", "stuck"} \cup Exiting \cup Over]
  /\ cell \subseteq Paths /\ handle \subseteq cell
  /\ signalled \subseteq Paths /\ claimed \subseteq Paths
  /\ hooks \in [Paths -> Nat] /\ work \in [Paths -> 0 .. MaxWork]
  /\ stack \in [Hosts -> Seq(Frame)] /\ left \in [stops : Nat, sweeps : 0 .. 1]
  /\ sweep \in [at : {"none", "collect", "join", "tear", "swept"},
                todo : SUBSET Paths]
  /\ barrier \in BOOLEAN /\ raced \subseteq Paths

Init ==
  \E scenario \in Scenarios :
    /\ loop = [p \in Paths |-> IF p \in scenario.alive THEN "idle" ELSE "ended"]
    /\ cell = scenario.alive /\ handle = scenario.alive
    /\ signalled = {} /\ claimed = Paths \ scenario.alive
    /\ hooks = [p \in Paths |-> IF p \in scenario.alive THEN 0 ELSE 1]
    /\ work = [p \in Paths |-> 0]
    /\ stack = [h \in Hosts |-> <<>>]
    /\ left = [stops |-> scenario.stops, sweeps |-> scenario.sweeps]
    /\ sweep = [at |-> "none", todo |-> {}]
    /\ barrier = FALSE /\ raced = {}

IsOver(p) == loop[p] \in Over

(* run_on_stop stands down under the barrier; an event-sourced actor has   *)
(* its hook run over its folded state, which goes with the cell.           *)
HookRuns(p) == ~barrier /\ (p \in Services \/ p \in cell)

RunHook(p) == hooks' = [hooks EXCEPT ![p] = IF HookRuns(p) THEN @ + 1 ELSE @]

Removed(p) == cell' = cell \ {p} /\ handle' = handle \ {p}

----------------------------------------------------------------------------
(* The loop task of an actor.                                              *)

Goes(p, from, to) == loop[p] = from /\ loop' = [loop EXCEPT ![p] = to]

Begin(p) ==
  /\ p \notin signalled /\ work[p] < MaxWork
  /\ Goes(p, "idle", "busy")
  /\ work' = [work EXCEPT ![p] = @ + 1]
  /\ UNCHANGED <<cell, handle, signalled, claimed, hooks, stack, left, sweep, barrier, raced>>

Quietly ==
  UNCHANGED <<cell, handle, signalled, claimed, hooks, work, stack, left, sweep, barrier,
              raced>>

Finish(p) == Goes(p, "busy", "idle") /\ Quietly

StopSelf(p) == Goes(p, "busy", "exiting") /\ Quietly

Passivate(p) == ~barrier /\ Goes(p, "idle", "exiting") /\ Quietly

Stick(p) == Goes(p, "busy", "stuck") /\ Quietly

Crash(p) == Parent[p] = Nobody /\ Goes(p, "busy", "crashed") /\ Quietly

Obey(p) == p \in signalled /\ Goes(p, "idle", "ended") /\ Quietly

(* graceful_exit: the hook if nobody else has claimed it, then the tables  *)
(* of the actor itself; its children are left alone.                       *)
ExitClaims(p) ==
  /\ Goes(p, "exiting", IF p \in claimed THEN "tearing" ELSE "hook")
  /\ claimed' = claimed \cup {p}
  /\ UNCHANGED <<cell, handle, signalled, hooks, work, stack, left, sweep, barrier, raced>>

ExitHooks(p) ==
  /\ Goes(p, "hook", "tearing")
  /\ RunHook(p)
  /\ UNCHANGED <<cell, handle, signalled, claimed, work, stack, left, sweep, barrier, raced>>

ExitTears(p) ==
  /\ Goes(p, "tearing", "ended")
  /\ Removed(p)
  /\ UNCHANGED <<signalled, claimed, hooks, work, stack, left, sweep, barrier, raced>>

Loop(p) ==
  Finish(p) \/ Obey(p) \/ ExitClaims(p) \/ ExitHooks(p) \/ ExitTears(p)

----------------------------------------------------------------------------
(* A host's stop.  Each call is a frame; the outer ones wait for it with   *)
(* the children of theirs that are still to stop.                          *)

Call(p) ==
  [path |-> p, at |-> "children", todo |-> {c \in cell : Parent[c] = p}, spent |-> FALSE]

Calls(h, at) == stack[h] # <<>> /\ Head(stack[h]).at = at

Callee(h) == Head(stack[h]).path

Replaced(h, frames) == stack' = [stack EXCEPT ![h] = frames \o Tail(@)]

Advance(h, at) == Replaced(h, <<[Head(stack[h]) EXCEPT !.at = at]>>)

(* A call that has used its budget up has used up its caller's; any other  *)
(* may have.                                                               *)
Return(h) ==
  LET callers == Tail(stack[h])
  IN  IF callers = <<>>
      THEN stack' = [stack EXCEPT ![h] = <<>>]
      ELSE \E spent \in BOOLEAN :
             /\ Head(stack[h]).spent => spent
             /\ stack' = [stack EXCEPT ![h] = [callers EXCEPT ![1].spent = spent]]

BeginStop(h) ==
  /\ stack[h] = <<>> /\ left.stops > 0
  /\ \E p \in Paths : stack' = [stack EXCEPT ![h] = <<Call(p)>>]
  /\ left' = [left EXCEPT !.stops = @ - 1]
  /\ UNCHANGED <<actors, sweep, barrier, raced>>

Descend(h) ==
  /\ Calls(h, "children") /\ ~Head(stack[h]).spent
  /\ \E c \in Head(stack[h]).todo :
       Replaced(h, <<Call(c), [Head(stack[h]) EXCEPT !.todo = @ \ {c}]>>)
  /\ UNCHANGED <<actors, left, sweep, barrier, raced>>

(* A mutant in which the children are told and not waited for.             *)
DescendedEarly(h) ==
  /\ Calls(h, "children")
  /\ Replaced(h, <<[Head(stack[h]) EXCEPT !.at = "signal", !.todo = {}]>>)
  /\ UNCHANGED <<actors, left, sweep, barrier, raced>>

(* With the budget gone the children that are left are not stopped.        *)
Descended(h) ==
  /\ Calls(h, "children") /\ (Head(stack[h]).spent \/ Head(stack[h]).todo = {})
  /\ Advance(h, "signal")
  /\ UNCHANGED <<actors, left, sweep, barrier, raced>>

(* Whoever takes the handle waits for the loop; who finds none does not.   *)
Signal(h) ==
  LET p == Callee(h)
  IN  /\ Calls(h, "signal") /\ p \in cell
      /\ IF p \in handle
         THEN signalled' = signalled \cup {p} /\ handle' = handle \ {p} /\ Advance(h, "join")
         ELSE Advance(h, "tear") /\ UNCHANGED <<signalled, handle>>
      /\ UNCHANGED <<loop, cell, claimed, hooks, work, left, sweep, barrier, raced>>

SignalNobody(h) ==
  /\ Calls(h, "signal") /\ Callee(h) \notin cell
  /\ Return(h)
  /\ UNCHANGED <<actors, left, sweep, barrier, raced>>

(* A mutant that runs the hook without waiting for the loop.               *)
JoinedEarly(h) ==
  /\ Calls(h, "join")
  /\ Advance(h, "claim")
  /\ UNCHANGED <<actors, left, sweep, barrier, raced>>

Joined(h) ==
  /\ Calls(h, "join") /\ IsOver(Callee(h))
  /\ Advance(h, "claim")
  /\ UNCHANGED <<actors, left, sweep, barrier, raced>>

(* A mutant that waits for the loop however long it takes.                 *)
TimesOutNever(h) == Calls(h, "join") /\ FALSE /\ UNCHANGED vars

(* The wait for the loop outlasts the budget: the task is aborted and its  *)
(* hook is not run.                                                        *)
TimesOut(h) ==
  /\ Calls(h, "join") /\ ~IsOver(Callee(h))
  /\ loop' = [loop EXCEPT ![Callee(h)] = "ended"]
  /\ raced' = raced \cup {Callee(h)}
  /\ Replaced(h, <<[Head(stack[h]) EXCEPT !.at = "tear", !.spent = TRUE]>>)
  /\ UNCHANGED <<cell, handle, signalled, claimed, hooks, work, left, sweep, barrier>>

ClaimHook(h) ==
  LET p == Callee(h)
      mine == p \in cell \ claimed
  IN  /\ Calls(h, "claim")
      /\ claimed' = IF mine THEN claimed \cup {p} ELSE claimed
      /\ Advance(h, IF mine THEN "hook" ELSE "tear")
      /\ UNCHANGED <<loop, cell, handle, signalled, hooks, work, left, sweep, barrier, raced>>

Hook(h) ==
  /\ Calls(h, "hook")
  /\ RunHook(Callee(h))
  /\ Advance(h, "tear")
  /\ UNCHANGED <<loop, cell, handle, signalled, claimed, work, left, sweep, barrier, raced>>

(* Another host is between taking the handle of p and its teardown.        *)
StoppedBy(others, p) ==
  \E g \in others : stack[g] # <<>> /\ Callee(g) = p
                      /\ Head(stack[g]).at \in {"join", "claim", "hook"}

Tear(h) ==
  LET p == Callee(h)
  IN  /\ Calls(h, "tear")
      /\ Removed(p)
      /\ raced' = IF ~IsOver(p) \/ StoppedBy(Hosts \ {h}, p) THEN raced \cup {p} ELSE raced
      /\ Return(h)
      /\ UNCHANGED <<loop, signalled, claimed, hooks, work, left, sweep, barrier>>

Stop(h) ==
  \/ Descend(h) \/ Descended(h) \/ Signal(h) \/ SignalNobody(h)
  \/ Joined(h) \/ TimesOut(h) \/ ClaimHook(h) \/ Hook(h) \/ Tear(h)

----------------------------------------------------------------------------
(* The sweep.                                                              *)

RaiseBarrier ==
  /\ left.sweeps > 0
  /\ left' = [left EXCEPT !.sweeps = @ - 1]
  /\ barrier' = TRUE
  /\ sweep' = [sweep EXCEPT !.at = "collect"]
  /\ UNCHANGED <<actors, stack, raced>>

(* A mutant that leaves alone the actors at work.                          *)
CollectIdle ==
  LET idle == {p \in handle : loop[p] = "idle"}
  IN  /\ sweep.at = "collect"
      /\ signalled' = signalled \cup idle /\ handle' = handle \ idle
      /\ sweep' = [at |-> "join", todo |-> idle]
      /\ raced' = raced \cup (cell \ handle)
      /\ UNCHANGED <<loop, cell, claimed, hooks, work, stack, left, barrier>>

(* All handles at once; a cell without one is left to whoever has it.      *)
Collect ==
  /\ sweep.at = "collect"
  /\ signalled' = signalled \cup handle /\ handle' = {}
  /\ sweep' = [at |-> "join", todo |-> handle]
  /\ raced' = raced \cup (cell \ handle)
  /\ UNCHANGED <<loop, cell, claimed, hooks, work, stack, left, barrier>>

SweepJoined ==
  /\ sweep.at = "join" /\ \A p \in sweep.todo : IsOver(p)
  /\ sweep' = [sweep EXCEPT !.at = "tear"]
  /\ UNCHANGED <<actors, stack, left, barrier, raced>>

(* The deadline passes: the tasks still at work are let go, not aborted.   *)
SweepExpires ==
  /\ sweep.at = "join" /\ \E p \in sweep.todo : ~IsOver(p)
  /\ sweep' = [sweep EXCEPT !.at = "tear"]
  /\ raced' = raced \cup {p \in sweep.todo : ~IsOver(p)}
  /\ UNCHANGED <<actors, stack, left, barrier>>

SweepTears ==
  /\ sweep.at = "tear"
  /\ \E p \in sweep.todo :
       Removed(p) /\ sweep' = [sweep EXCEPT !.todo = @ \ {p}]
  /\ UNCHANGED <<loop, signalled, claimed, hooks, work, stack, left, barrier, raced>>

Flush ==
  /\ sweep.at = "tear" /\ sweep.todo = {}
  /\ sweep' = [sweep EXCEPT !.at = "swept"]
  /\ UNCHANGED <<actors, stack, left, barrier, raced>>

Sweep == Collect \/ SweepJoined \/ SweepExpires \/ SweepTears \/ Flush

----------------------------------------------------------------------------
Next ==
  \/ \E p \in Paths :
       Begin(p) \/ StopSelf(p) \/ Passivate(p) \/ Stick(p) \/ Crash(p) \/ Loop(p)
  \/ \E h \in Hosts : BeginStop(h) \/ Stop(h)
  \/ RaiseBarrier \/ Sweep

Spec == Init /\ [][Next]_vars

(* Every task is polled, and what each has to do is finite.  A hung        *)
(* handler is not taken to end.                                            *)
Fairness ==
  /\ WF_vars(\E p \in Paths : Loop(p))
  /\ WF_vars(\E h \in Hosts : Stop(h))
  /\ WF_vars(Sweep)

FairSpec == Spec /\ Fairness

----------------------------------------------------------------------------
(* Properties.  An actor in raced has been torn down while its loop or     *)
(* another stop was still at it, was aborted, or was let go by the sweep:  *)
(* nothing is promised for it beyond a single hook.                        *)

(* The hook runs at the end and once: never twice, by a stop only when the *)
(* loop is over, and unless a shutdown has begun it has run for every      *)
(* actor that is gone, whoever ended it.                                   *)
HookAtTheEnd ==
  \A p \in Paths :
    /\ hooks[p] <= 1
    /\ \A h \in Hosts : Calls(h, "hook") /\ Callee(h) = p => IsOver(p)
    /\ p \notin cell \cup raced /\ ~barrier => hooks[p] = 1

(* Children first: when a stop turns to the actor itself, no child of it   *)
(* is alive, except those it had no budget left for.                       *)
ChildrenFirst ==
  \A h \in Hosts : \A k \in DOMAIN stack[h] :
    LET frame == stack[h][k]
    IN  frame.at # "children" =>
          \A c \in Paths \ (frame.todo \cup raced) :
            Parent[c] = frame.path => c \notin cell /\ IsOver(c)

(* The sweep is final: after it no actor is left and no loop is at work.   *)
SweepFinal ==
  sweep.at = "swept" => \A p \in Paths \ raced : p \notin cell /\ IsOver(p)

(* Stops and sweeps come back, whatever the handlers do: again and again   *)
(* none is under way.                                                      *)
StopsEnd == []<>((\A h \in Hosts : stack[h] = <<>>) /\ sweep.at \in {"none", "swept"})
============================================================================
