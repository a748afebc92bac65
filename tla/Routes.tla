------------------------------- MODULE Routes -------------------------------
(***************************************************************************)
(* The registry and the three ways a message is addressed: to a path       *)
(* (route_inner, with the router rules and the sets that derive a path     *)
(* from the message's key), to any one handler of its schema (Registry's   *)
(* route, which rotates), and to all of them (broadcast).  Actors come and *)
(* go between the locked sections of a delivery.                           *)
(*                                                                         *)
(* A message comes from the outbox of an actor (flush_outbox), where what  *)
(* does not resolve is a dead letter; from a timer of an actor             *)
(* (schedule_self), which tells the actor itself and treats it the same    *)
(* way; or from the host, to whom it is handed back.  A mailbox takes what *)
(* it is handed (Mailbox has the policies), and the activation of a set's  *)
(* member is one step (PartitionSet and Projector have its inside).        *)
(***************************************************************************)
EXTENDS Naturals, Sequences, FiniteSets, TLC, SequencesExt

CONSTANTS
  Plain,          \* the actors spawned by name
  PartitionSets,  \* public paths of partition sets
  ProjectorSets,  \* public paths of projector sets
  Keys, NoKey,    \* shard keys, and none
  Schemas,        \* the schemas sent
  Events,         \* those that are declared as events
  Handles, Emits, \* per actor or set: the schemas declared, in and out
  Senders,        \* the sending tasks
  Program,        \* what each sends, in order
  Rules,          \* the router rules, in the order they are installed
  Anything,       \* a wildcard in a rule
  Nobody,         \* the sender of the host's messages
  Budgets         \* MODEL BOUND: how often each of Changes may happen, one choice per run

Changes ==
  {"stop",     \* an actor's tables are torn down
   "unslot",   \* a supervised service restarts, or a supervised child fails for good
   "rule",     \* a router rule is installed
   "barrier"}  \* a graceful shutdown begins

Sets == PartitionSets \cup ProjectorSets
Paths == Plain \cup ((Plain \cup Sets) \X Keys)

(* [id, verb, schema, dest, key, from]: dest matters to a tell only.  A     *)
(* value is what the host hands in from outside by its schema alone.       *)
Message == UNION {Range(Program[s]) : s \in Senders}

ASSUME RoutesAssumption ==
  /\ Handles \in [Plain \cup Sets -> SUBSET Schemas]
  /\ Emits \in [Plain \cup Sets -> SUBSET Schemas]
  /\ Events \subseteq Schemas
  /\ NoKey \notin Keys
  /\ \A s \in Senders : IsInjective(Program[s])
  /\ \A m \in Message : /\ m.verb \in {"tell", "any", "publish", "value"} /\ m.schema \in Schemas
                        /\ m.key \in Keys \cup {NoKey} /\ m.dest \in Paths \cup Sets
                        /\ m.from \in Paths \cup {Nobody}
                        /\ m.verb = "value" => m.from = Nobody
  /\ \A r \in Range(Rules) : r.kind \in {"tee", "inline"} /\ r.observer \in Plain
  /\ Budgets \subseteq [Changes -> Nat]

VARIABLES
  slots,    \* per registered path: the schemas its manifest handles
  gen,      \* per path: which of its endpoints is the current one
  routes,   \* per schema: its handlers in order, and whether the route rotates
  cursor,   \* the rotation's cursor, one for all schemas
  rules,    \* how many of Rules are installed
  barrier,  \* shutting_down
  sender,   \* per sender: where its delivery stands
  got,      \* per message and path: the copies handed to it
  dead,     \* per message: its dead letters
  back,     \* the messages handed back to the host
  left,     \* changes still to come
  began,    \* per message: the paths there when its delivery began (history)
  ended,    \* per message: those that have gone since, until it was over (history)
  unslot,   \* the paths that have ever lost a slot and kept its routes (history)
  turns     \* per schema: the picks since anything disturbed its rotation (history)

tables == <<slots, gen, routes, cursor>>
history == <<began, ended, unslot, turns>>
vars == <<tables, rules, barrier, sender, got, dead, back, left, history>>

Live == DOMAIN slots
Endpoint(p) == <<p, gen[p]>>
None == <<>>

Idle(idx) ==
  [at |-> "start", idx |-> idx, dest |-> None, set |-> None, tee |-> None, ends |-> <<>>,
   sets |-> {}]

TypeOK ==
  /\ Live \subseteq Paths /\ \A p \in Live : slots[p] \subseteq Schemas
  /\ gen \in [Paths -> Nat]
  /\ \A s \in Schemas : routes[s].paths \in Seq(Paths) /\ routes[s].rotates \in BOOLEAN
  /\ cursor \in Nat /\ rules \in 0 .. Len(Rules) /\ barrier \in BOOLEAN
  /\ \A s \in Senders :
       sender[s].at \in {"start", "tell", "tee", "resolve", "look", "push", "sets"}
  /\ got \in [Message -> [Paths -> Nat]] /\ dead \in [Message -> Nat]
  /\ back \subseteq Message
  /\ left \in [Changes -> Nat]

----------------------------------------------------------------------------
(* The registry.                                                           *)

NoRoute == [paths |-> <<>>, rotates |-> FALSE]

(* A second handler turns a route into a rotating one, for good.           *)
WithRoute(route, p) ==
  IF p \in Range(route.paths) THEN route
  ELSE [paths |-> Append(route.paths, p), rotates |-> route.paths # <<>>]

(* A mutant of the cascade that leaves the routes of a stopped actor.      *)
RoutesKept(p) == routes

(* A route that loses its last path is dropped.                            *)
RoutesWithout(p) ==
  [s \in Schemas |->
     LET rest == SelectSeq(routes[s].paths, LAMBDA q : q # p)
     IN  IF rest = <<>> THEN NoRoute ELSE [routes[s] EXCEPT !.paths = rest]]

(* A key-derived member of a projector set is nobody's choice.             *)
IsProjector(p) == p \in ProjectorSets \X Keys

PlainHandlers(s) == SelectSeq(routes[s].paths, LAMBDA p : ~IsProjector(p))

(* A mutant of the pick that forgets to move the cursor on.                *)
NextCursorStays(s) == cursor

NextCursor(s) ==
  IF routes[s].rotates THEN (cursor + 1) % Len(routes[s].paths) ELSE cursor

Candidate(s) ==
  IF routes[s].rotates
  THEN routes[s].paths[(cursor % Len(routes[s].paths)) + 1]
  ELSE routes[s].paths[1]

(* Registry::route, or None.                                               *)
Pick(s) ==
  IF routes[s].paths = <<>> THEN None
  ELSE IF ~IsProjector(Candidate(s)) THEN Candidate(s)
  ELSE IF PlainHandlers(s) = <<>> THEN None ELSE PlainHandlers(s)[1]

(* A spawn: the slot, and a route for each schema handled.                 *)
Registered(p, schemas) ==
  /\ slots' = (p :> schemas) @@ slots
  /\ gen' = [gen EXCEPT ![p] = @ + 1]
  /\ routes' = [s \in Schemas |-> IF s \in schemas THEN WithRoute(routes[s], p) ELSE routes[s]]
  /\ UNCHANGED cursor

Unregistered(p) == slots' = [q \in Live \ {p} |-> slots[q]] /\ UNCHANGED <<gen, cursor>>

----------------------------------------------------------------------------
Init ==
  /\ slots = [p \in Plain |-> Handles[p]]
  /\ gen = [p \in Paths |-> IF p \in Plain THEN 1 ELSE 0]
  /\ routes = [s \in Schemas |->
                 LET paths == SetToSeq({p \in Plain : s \in Handles[p]})
                 IN  [paths |-> paths, rotates |-> Len(paths) > 1]]
  /\ cursor = 0 /\ rules = 0 /\ barrier = FALSE
  /\ sender = [s \in Senders |-> Idle(1)]
  /\ got = [m \in Message |-> [p \in Paths |-> 0]]
  /\ dead = [m \in Message |-> 0] /\ back = {}
  /\ left \in Budgets
  /\ began = [m \in Message |-> {}] /\ ended = [m \in Message |-> {}]
  /\ unslot = {} /\ turns = [s \in Schemas |-> <<>>]

----------------------------------------------------------------------------
(* Actors come and go.                                                     *)

Sending(s) == sender[s].idx <= Len(Program[s])
Sent(s) == Program[s][sender[s].idx]
Underway == {Sent(s) : s \in {t \in Senders : sender[t].at # "start"}}

Spend(change) == left[change] > 0 /\ left' = [left EXCEPT ![change] = @ - 1]

Gone(p) ==
  /\ ended' = [m \in Message |-> IF m \in Underway THEN ended[m] \cup {p} ELSE ended[m]]
  /\ turns' = [s \in Schemas |-> <<>>]

(* teardown_tables: slot and routes in one locked section.                 *)
Stop(p) ==
  /\ p \in Live /\ Spend("stop")
  /\ Unregistered(p) /\ routes' = RoutesWithout(p)
  /\ Gone(p)
  /\ UNCHANGED <<rules, barrier, sender, got, dead, back, began, unslot>>

(* The engine restarts a service or gives up on a child: the slot goes and *)
(* the routes stay.                                                        *)
Unslot(p) ==
  /\ p \in Live \cap Plain /\ Spend("unslot")
  /\ Unregistered(p) /\ UNCHANGED routes
  /\ Gone(p)
  /\ unslot' = unslot \cup {p}
  /\ UNCHANGED <<rules, barrier, sender, got, dead, back, began>>

(* The second half of a restart, or a spawn by the host.                   *)
Respawn(p) ==
  /\ p \in Plain \ Live
  /\ Registered(p, Handles[p])
  /\ turns' = [s \in Schemas |-> <<>>]
  /\ UNCHANGED <<rules, barrier, sender, got, dead, back, left, began, ended, unslot>>

InstallRule ==
  /\ rules < Len(Rules) /\ Spend("rule")
  /\ rules' = rules + 1
  /\ UNCHANGED <<tables, barrier, sender, got, dead, back, history>>

RaiseBarrier ==
  /\ ~barrier /\ Spend("barrier")
  /\ barrier' = TRUE
  /\ UNCHANGED <<tables, rules, sender, got, dead, back, history>>

----------------------------------------------------------------------------
(* A delivery.                                                             *)

Goes(s, fields) ==
  sender' = [sender EXCEPT ![s] = [f \in DOMAIN @ |-> IF f \in DOMAIN fields THEN fields[f]
                                                      ELSE @[f]]]

Done(s) == sender' = [sender EXCEPT ![s] = Idle(@.idx + 1)]

Published(m) == m.verb = "publish" \/ (m.verb = "value" /\ m.schema \in Events)

(* After a path: the next set of a publication, or the end.                *)
Onward(s) ==
  IF Published(Sent(s)) THEN Goes(s, [at |-> "sets"]) ELSE Done(s)

DeadLetters(m, n) == dead' = [dead EXCEPT ![m] = @ + n]

(* route answers that it could not deliver: a dead letter by the outbox,   *)
(* the message back to the host, and nothing of it to one who hands in a   *)
(* value.                                                                  *)
Undelivered(s) ==
  LET m == Sent(s)
  IN  IF m.from # Nobody \/ Published(m)
      THEN DeadLetters(m, 1) /\ UNCHANGED back
      ELSE back' = (IF m.verb = "value" THEN back ELSE back \cup {m}) /\ UNCHANGED dead

(* A copy for an endpoint that has gone meets a closed inbox, and is a     *)
(* dead letter, or an inbox nobody reads.                                  *)
Handed(m, end) ==
  IF end[1] \in Live /\ Endpoint(end[1]) = end
  THEN got' = [got EXCEPT ![m][end[1]] = @ + 1] /\ UNCHANGED dead
  ELSE UNCHANGED got /\ (DeadLetters(m, 1) \/ UNCHANGED dead)

Begins(m) == began' = [began EXCEPT ![m] = Live] /\ UNCHANGED <<ended, unslot>>

Matches(rule, m, dest) ==
  /\ rule.source \in {Anything, m.from}
  /\ rule.schema \in {Anything, m.schema}
  /\ rule.dest \in {Anything, dest}

(* apply_rules: the first match, or None.                                  *)
RuleFor(m, dest) ==
  LET matching == {i \in 1 .. rules : Matches(Rules[i], m, dest)}
  IN  IF matching = {} THEN None
      ELSE Rules[CHOOSE i \in matching : \A j \in matching : i <= j]

(* The set a path belongs to: a public path, or a projector's own.         *)
SetOf(p) ==
  IF p \in Sets THEN p ELSE IF IsProjector(p) THEN p[1] ELSE None

(* The first locked section of route_inner for dest: the rule, the tee's   *)
(* endpoint, the set, and the endpoint itself if no set is concerned.  The *)
(* set is that of the original destination.                                *)
Decision(m, dest) ==
  LET rule == RuleFor(m, dest)
      primary == IF rule # None /\ rule.kind = "inline" THEN rule.observer ELSE dest
      tee == IF rule # None /\ rule.kind = "tee" /\ rule.observer \in Live
             THEN Endpoint(rule.observer) ELSE None
  IN  [at |-> IF tee # None THEN "tee" ELSE "resolve",
       dest |-> primary, set |-> SetOf(dest), tee |-> tee,
       ends |-> IF SetOf(dest) = None /\ primary \in Live THEN <<Endpoint(primary)>> ELSE <<>>]

(* The route writes a letter, ShuttingDown, and answers an outbox's sender *)
(* so that it writes another.                                              *)
Barred(s) ==
  LET m == Sent(s)
  IN  /\ DeadLetters(m, IF m.from # Nobody THEN 2 ELSE 1)
      /\ back' = IF m.from = Nobody /\ m.verb # "value" THEN back \cup {m} ELSE back
      /\ Done(s)

(* Every message of an outbox declares itself, but one to the actor itself.*)
Undeclared(m) ==
  /\ m.from # Nobody /\ (m.verb = "tell" => m.dest # m.from)
  /\ m.schema \notin Emits[IF m.from \in Plain THEN m.from ELSE m.from[1]]

Starts(s, verbs) ==
  sender[s].at = "start" /\ Sending(s) /\ Sent(s).verb \in verbs /\ ~Undeclared(Sent(s))

Gate(s) ==
  /\ sender[s].at = "start" /\ Sending(s) /\ Undeclared(Sent(s))
  /\ DeadLetters(Sent(s), 1) /\ Done(s)
  /\ UNCHANGED <<tables, rules, barrier, got, back, left, history>>

Decides(s, dest) ==
  IF barrier THEN Barred(s)
  ELSE Goes(s, Decision(Sent(s), dest)) /\ UNCHANGED <<dead, back>>

BeginTell(s) ==
  /\ Starts(s, {"tell"})
  /\ Decides(s, Sent(s).dest)
  /\ Begins(Sent(s))
  /\ UNCHANGED <<tables, rules, barrier, got, left, turns>>

Tee(s) ==
  /\ sender[s].at = "tee"
  /\ Handed(Sent(s), sender[s].tee)
  /\ Goes(s, [at |-> "resolve"])
  /\ UNCHANGED <<tables, rules, barrier, back, left, history>>

(* resolve_partition, resolve_projector_set: a member is spawned if it is  *)
(* not there.  A partition's member is derived from the path routed to, a  *)
(* projector from its set.                                                 *)
Derived(s) ==
  LET task == sender[s]
  IN  <<IF task.set \in PartitionSets THEN task.dest ELSE task.set, Sent(s).key>>

Resolve(s) ==
  LET task == sender[s]
      keyed == task.set # None /\ Sent(s).key # NoKey
      absent == keyed /\ Derived(s) \notin Live
  IN  /\ task.at = "resolve"
      /\ IF task.set # None /\ (~keyed \/ (absent /\ barrier))
         THEN DeadLetters(Sent(s), 1) /\ Onward(s) /\ UNCHANGED <<tables, turns>>
         ELSE /\ Goes(s, [at |-> IF task.ends # <<>> THEN "push" ELSE "look",
                          dest |-> IF keyed THEN Derived(s) ELSE task.dest])
              /\ IF absent
                 THEN Registered(Derived(s), Handles[task.set])
                        /\ turns' = [x \in Schemas |-> <<>>]
                 ELSE UNCHANGED <<tables, turns>>
              /\ UNCHANGED dead
      /\ UNCHANGED <<rules, barrier, got, back, left, began, ended, unslot>>

(* The second locked section, for what the first has not resolved.         *)
Look(s) ==
  /\ sender[s].at = "look"
  /\ IF sender[s].dest \in Live
     THEN Goes(s, [at |-> "push", ends |-> <<Endpoint(sender[s].dest)>>])
            /\ UNCHANGED <<dead, back>>
     ELSE Undelivered(s) /\ Onward(s)
  /\ UNCHANGED <<tables, rules, barrier, got, left, history>>

(* One endpoint after the other; after the last, the sets of a publication *)
(* or the end.                                                             *)
Push(s) ==
  LET rest == Tail(sender[s].ends)
  IN  /\ sender[s].at = "push"
      /\ Handed(Sent(s), Head(sender[s].ends))
      /\ IF rest # <<>> THEN Goes(s, [ends |-> rest]) ELSE Onward(s)
      /\ UNCHANGED <<tables, rules, barrier, back, left, history>>

(* Registry::route moves the cursor on.                                    *)
Picks(schema) ==
  /\ cursor' = NextCursor(schema)
  /\ turns' = [x \in Schemas |->
                 IF x = schema THEN Append(turns[x], Pick(schema))
                 ELSE IF routes[schema].rotates THEN <<>> ELSE turns[x]]

(* send_to_any: the pick and its endpoint in one locked section.           *)
BeginAny(s) ==
  LET picked == Pick(Sent(s).schema)
  IN  /\ Starts(s, {"any"})
      /\ IF barrier THEN Barred(s) /\ UNCHANGED <<cursor, turns>>
         ELSE /\ Picks(Sent(s).schema)
              /\ IF picked \in Live
                 THEN Goes(s, [at |-> "push", ends |-> <<Endpoint(picked)>>])
                        /\ UNCHANGED <<dead, back>>
                 ELSE Undelivered(s) /\ Done(s)
      /\ Begins(Sent(s))
      /\ UNCHANGED <<slots, gen, routes, rules, barrier, got, left>>

(* deliver_schema_value: the pick of a command in one section, its tell in *)
(* others; without a route it is nothing.                                  *)
BeginValue(s) ==
  LET picked == Pick(Sent(s).schema)
  IN  /\ Starts(s, {"value"}) /\ ~Published(Sent(s))
      /\ Picks(Sent(s).schema)
      /\ IF picked = None THEN Done(s) ELSE Goes(s, [at |-> "tell", dest |-> picked])
      /\ Begins(Sent(s))
      /\ UNCHANGED <<slots, gen, routes, rules, barrier, got, dead, back, left>>

TellPicked(s) ==
  /\ sender[s].at = "tell"
  /\ Decides(s, sender[s].dest)
  /\ UNCHANGED <<tables, rules, barrier, got, left, history>>

(* A mutant of the fan-out that serves the members of sets as well.        *)
TargetsAll(m) ==
  LET there == SelectSeq(routes[m.schema].paths, LAMBDA p : p \in Live)
  IN  [i \in DOMAIN there |-> Endpoint(there[i])]

(* The handlers that are there, but for the members of projector sets.     *)
Targets(m) ==
  LET there == SelectSeq(PlainHandlers(m.schema), LAMBDA p : p \in Live)
  IN  [i \in DOMAIN there |-> Endpoint(there[i])]

BeginPublish(s) ==
  LET m == Sent(s)
      consuming == {x \in ProjectorSets : m.schema \in Handles[x]}
      ends == Targets(m)
  IN  /\ Starts(s, {"publish", "value"}) /\ Published(m)
      /\ Goes(s, [at |-> IF ends = <<>> THEN "sets" ELSE "push", ends |-> ends,
                  sets |-> consuming])
      /\ Begins(m)
      /\ UNCHANGED <<tables, rules, barrier, got, dead, back, left, turns>>

(* The next projector set: a copy for the member of its key, routed like a *)
(* tell, unless a member of a set has published it.                        *)
ServeSet(s) ==
  LET m == Sent(s)
      skipped == m.key = NoKey \/ IsProjector(m.from) \/ barrier
  IN  /\ sender[s].at = "sets"
      /\ \E x \in sender[s].sets :
           LET rest == [sets |-> sender[s].sets \ {x}]
           IN  Goes(s, IF skipped THEN rest ELSE rest @@ Decision(m, <<x, m.key>>))
      /\ DeadLetters(m, IF m.key = NoKey THEN 1
                        ELSE IF barrier /\ ~IsProjector(m.from) THEN 2 ELSE 0)
      /\ UNCHANGED <<tables, rules, barrier, got, back, left, history>>

Served(s) ==
  /\ sender[s].at = "sets" /\ sender[s].sets = {}
  /\ Done(s)
  /\ UNCHANGED <<tables, rules, barrier, got, dead, back, left, history>>

----------------------------------------------------------------------------
Next ==
  \/ \E s \in Senders :
       \/ Gate(s) \/ BeginTell(s) \/ BeginAny(s) \/ BeginValue(s) \/ TellPicked(s)
       \/ BeginPublish(s)
       \/ Tee(s) \/ Resolve(s) \/ Look(s) \/ Push(s) \/ ServeSet(s) \/ Served(s)
  \/ \E p \in Paths : Stop(p) \/ Unslot(p) \/ Respawn(p)
  \/ InstallRule \/ RaiseBarrier

Spec == Init /\ [][Next]_vars
----------------------------------------------------------------------------
(* Properties.  A path counts as there for a message if it was registered  *)
(* when the delivery began and has not gone before its end.                *)

Over(m) ==
  \E s \in Senders : \E i \in 1 .. sender[s].idx - 1 : Program[s][i] = m

There(m) == began[m] \ ended[m]

Declares(p, schema) ==
  schema \in IF p \in Plain THEN Handles[p] ELSE IF p[1] \in Sets THEN Handles[p[1]] ELSE {}

Observers == {r.observer : r \in Range(Rules)}

(* A publication reaches every plain handler that is there, and the member *)
(* of its key of every projector set that consumes it, once; nobody gets   *)
(* it twice, nobody who does not declare it gets it (but for the observers *)
(* of rules), no member gets a fact of another key or of a projector.      *)
Owed(m) ==
  {p \in There(m) : ~IsProjector(p) /\ Declares(p, m.schema)}
    \cup IF m.key = NoKey \/ barrier \/ IsProjector(m.from) THEN {}
         ELSE {p \in ProjectorSets \X {m.key} : Declares(p, m.schema) /\ p \notin ended[m]}

PublishedOnce ==
  \A m \in {x \in Message : Published(x) /\ ~Undeclared(x)} :
    /\ \A p \in Paths \ Observers :
         /\ got[m][p] <= 1
         /\ got[m][p] = 1 => /\ Declares(p, m.schema)
                             /\ IsProjector(p) => p[2] = m.key /\ ~IsProjector(m.from)
    /\ Over(m) => \A p \in Owed(m) : got[m][p] >= 1

(* A message for a path or for any one handler arrives once and where its  *)
(* address, its key and the first rule that matches it say; it arrives if  *)
(* the place it has to go to is there all the while.  (Inline rules are    *)
(* not matched by messages for sets.)  An undeclared one arrives nowhere.  *)
FirstRule(m, dest, n) ==
  LET matching == {i \in 1 .. n : Matches(Rules[i], m, dest)}
  IN  IF matching = {} THEN 0 ELSE CHOOSE i \in matching : \A j \in matching : i <= j

Place(m, dest, n) ==
  LET i == FirstRule(m, dest, n)
  IN  IF i # 0 /\ Rules[i].kind = "inline" THEN Rules[i].observer
      ELSE IF dest \in Sets THEN <<dest, m.key>> ELSE dest

Dests(m) ==
  IF m.verb = "tell" THEN {m.dest} ELSE {p \in Paths : ~IsProjector(p) /\ Declares(p, m.schema)}

(* The rules are matched by what is told to a path.                        *)
Ruled(m) == IF m.verb = "any" THEN 0 .. 0 ELSE 0 .. rules

Places(m) ==
  IF Undeclared(m) THEN {} ELSE {Place(m, d, n) : d \in Dests(m), n \in Ruled(m)}

Asides(m) ==
  {Rules[i].observer : i \in {FirstRule(m, d, n) : d \in Dests(m), n \in Ruled(m)} \ {0}}

Certain(m) ==
  LET there == Places(m) \cap (IF m.dest \in Sets THEN Paths \ ended[m] ELSE There(m))
  IN  /\ there # {}
      /\ Places(m) \cap (IF m.verb = "any" THEN began[m] \cup unslot ELSE Paths) \subseteq there

Placed ==
  \A m \in {x \in Message : ~Published(x)} :
    /\ \A p \in Paths : got[m][p] > 0 => p \in Places(m) \cup Asides(m)
    /\ Cardinality({p \in Places(m) \ Asides(m) : got[m][p] > 0}) <= 1
    /\ \A p \in Paths : got[m][p] <= 1
    /\ Over(m) /\ Certain(m) /\ ~barrier /\ ~(m.dest \in Sets /\ m.key = NoKey) =>
         /\ Asides(m) = {} => dead[m] = 0 /\ m \notin back
         /\ \E p \in Places(m) : got[m][p] = 1

(* While the handlers of a schema stay as they are and no other rotating   *)
(* schema is sent, no handler is picked twice before each of the others    *)
(* has been.                                                               *)
Rotates ==
  \A x \in Schemas :
    LET n == Len(routes[x].paths)
    IN  ~(\E p \in Range(routes[x].paths) : IsProjector(p)) =>
          \A i, j \in DOMAIN turns[x] : i < j /\ j - i < n => turns[x][i] # turns[x][j]
============================================================================
