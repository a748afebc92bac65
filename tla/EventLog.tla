----------------------------- MODULE EventLog -----------------------------
(***************************************************************************)
(* What an event-sourced actor promises: a log of facts.  A run of pending *)
(* messages is handled in one indivisible step that records the facts      *)
(* decided on the log it started from; a recorded fact is told to the      *)
(* fabric at most once, in the order of the log, and never before it is    *)
(* recorded.  Crashes, restarts and replays are not visible here.          *)
(***************************************************************************)
EXTENDS Naturals, Sequences

CONSTANTS
  Message,         \* the commands
  Decision(_, _)   \* the facts a command records, on a log of that length

VARIABLES
  pending,   \* accepted and not handled, oldest first
  log,       \* the recorded facts
  told       \* the positions told to the fabric, in order

vars == <<pending, log, told>>

Init == pending = <<>> /\ log = <<>> /\ told = <<>>

Accept(m) ==
  /\ pending' = Append(pending, m)
  /\ UNCHANGED <<log, told>>

(* What the first n pending commands record, all decided on one prefix of  *)
(* the log.                                                                *)
Decisions(n, basis) ==
  LET upTo[k \in 0 .. n] ==
        IF k = 0 THEN <<>> ELSE upTo[k - 1] \o Decision(pending[k], basis)
  IN  upTo[n]

Handle(n) ==
  /\ \E basis \in 0 .. Len(log) : log' = log \o Decisions(n, basis)
  /\ pending' = SubSeq(pending, n + 1, Len(pending))
  /\ UNCHANGED told

Tell(p) ==
  /\ \A k \in DOMAIN told : told[k] < p
  /\ told' = Append(told, p)
  /\ UNCHANGED <<pending, log>>

(* The actor is stopped: what it had not handled is dropped.               *)
Drop ==
  /\ pending' = <<>>
  /\ UNCHANGED <<log, told>>

Next ==
  \/ \E m \in Message : Accept(m)
  \/ \E n \in 1 .. Len(pending) : Handle(n)
  \/ \E p \in 1 .. Len(log) : Tell(p)
  \/ Drop

Spec == Init /\ [][Next]_vars
============================================================================
