--------------------------- MODULE EsActorProofs ---------------------------
(***************************************************************************)
(* Proofs about EsActor, for every script, batch, fault set and bound.     *)
(***************************************************************************)
EXTENDS EsActor, Integers, WellFoundedInduction, FiniteSetTheorems, SequenceTheorems, TLAPS

----------------------------------------------------------------------------
(* Sets of naturals: the library's theorems on induction take an operator, *)
(* these take a set.                                                       *)

(* The order of the naturals as a relation.                                *)
Below == {p \in Nat \X Nat : p[1] < p[2]}

LEMMA BelowWellFounded == IsWellFoundedOn(Below, Nat)
<1>1. OpToRel(<, Nat) = Below
  BY DEF OpToRel, Below
<1>2. QED
  BY <1>1, NatLessThanWellFounded

(* A set of naturals that is not empty has a least element.                *)
LEMMA LeastNatural ==
  ASSUME NEW S, S \subseteq Nat, S # {}
  PROVE  \E n \in S : \A m \in S : n <= m
<1>1. PICK n \in S : \A m \in S : ~ (<<m, n>> \in Below)
  BY BelowWellFounded, WFMin
<1>2. \A m \in Nat : m < n => <<m, n>> \in Below
  BY DEF Below
<1>3. \A m \in S : ~ (m < n)
  BY <1>1, <1>2
<1>4. \A m \in S : n <= m
  BY <1>3
<1>5. QED
  BY <1>4

----------------------------------------------------------------------------
(* Sequences, as functions on an interval.                                 *)

LEMMA FunctionIsSeq ==
  ASSUME NEW S, NEW n \in Nat, NEW s \in [1 .. n -> S]
  PROVE  s \in Seq(S) /\ Len(s) = n /\ DOMAIN s = 1 .. n
<1>1. s \in Seq(S)
  BY SeqDef
<1>2. DOMAIN s = 1 .. n /\ Len(s) \in Nat /\ DOMAIN s = 1 .. Len(s)
  BY <1>1, LenProperties
<1>3. QED
  BY <1>1, <1>2

(* What is appended comes last and nothing before it changes.              *)
LEMMA AppendedIs ==
  ASSUME NEW S, NEW s \in Seq(S), NEW e \in S, NEW t, t = Append(s, e)
  PROVE  /\ t \in Seq(S) /\ Len(t) = Len(s) + 1
         /\ Len(s) \in Nat /\ DOMAIN s = 1 .. Len(s) /\ DOMAIN t = 1 .. Len(s) + 1
         /\ \A k \in DOMAIN s : t[k] = s[k]
         /\ t[Len(s) + 1] = e
<1>1. t \in Seq(S) /\ Len(t) = Len(s) + 1 /\ t[Len(s) + 1] = e
  BY AppendProperties
<1>2. \A k \in 1 .. Len(s) : t[k] = s[k]
  BY AppendProperties
<1>3. Len(s) \in Nat /\ DOMAIN s = 1 .. Len(s) /\ DOMAIN t = 1 .. Len(t)
  BY <1>1, LenProperties
<1>4. QED
  BY <1>1, <1>2, <1>3

----------------------------------------------------------------------------
(* Lemmas on the operators of the step.                                    *)

(* What a command decides is a sequence of facts.                          *)
LEMMA DecisionType ==
  ASSUME NEW m \in Message, NEW basis \in Nat
  PROVE  Decision(m, basis) \in Seq(Fact)
<1>1. Facts[m] \in Nat
  BY EsAssumption
<1>2. CASE m \in Unhandled
  BY <1>2 DEF Decision
<1>3. CASE m \notin Unhandled
  <2>1. Decision(m, basis) \in [1 .. Facts[m] -> Fact]
    BY <1>1, <1>3 DEF Decision, Fact
  <2>2. QED
    BY <2>1, <1>1, SeqDef
<1>4. QED
  BY <1>2, <1>3

(* A part of a sequence is a sequence of the same elements.                *)
LEMMA PartType ==
  ASSUME NEW S, NEW s \in Seq(S), NEW m \in Nat \ {0}
  PROVE  SubSeq(s, m, Len(s)) \in Seq(S)
<1>1. \A k \in m .. Len(s) : s[k] \in S
  BY ElementOfSeq
<1>2. QED
  BY <1>1, SubSeqProperties
----------------------------------------------------------------------------
(* Type correctness.                                                       *)

(* The initial state is well typed.                                        *)
LEMMA InitType == Init => TypeOK
<1>1. SUFFICES ASSUME Init PROVE TypeOK
  OBVIOUS
<1>2. Len(Script) \in Nat
  BY EsAssumption, LenProperties
<1>3. MailTypes
  BY <1>1, <1>2 DEF Init, MailTypes
<1>4. BatchTypes
  BY <1>1 DEF Init, BatchTypes
<1>5. StoreTypes
  BY <1>1 DEF Init, StoreTypes, Sentinel
<1>6. ControlTypes
  BY <1>1 DEF Init, ControlTypes, Phases
<1>7. QED
  BY <1>3, <1>4, <1>5, <1>6 DEF TypeOK

(* A recovery reads a sequence of facts out of a well-typed store.         *)
LEMMA ReplayType == TypeOK => Replay \in Seq(Fact)
<1>1. SUFFICES ASSUME TypeOK PROVE Replay \in Seq(Fact)
  OBVIOUS
<1>2. CASE snaps = <<>>
  BY <1>1, <1>2 DEF TypeOK, StoreTypes, Replay
<1>3. CASE snaps # <<>>
  <2> DEFINE s == snaps[Len(snaps)]
  <2>1. Len(snaps) \in 1 .. Len(snaps)
    BY <1>1, <1>3, EmptySeq DEF TypeOK, StoreTypes
  <2>2. s \in [seq : Nat, state : Seq(Fact)]
    BY <2>1, <1>1, ElementOfSeq DEF TypeOK, StoreTypes
  <2>3. SubSeq(journal, s.seq + 2, Len(journal)) \in Seq(Fact)
    BY <1>1, <2>2, PartType DEF TypeOK, StoreTypes
  <2>4. Replay = s.state \o SubSeq(journal, s.seq + 2, Len(journal))
    BY <1>3 DEF Replay
  <2>5. QED
    BY <2>2, <2>3, <2>4, ConcatProperties
<1>4. QED
  BY <1>2, <1>3

(* What a spawn fixes in the cell.                                         *)
LEMMA CellType ==
  TypeOK => /\ Batch \in Nat \ {0}
            /\ Every \in Nat \ {0}
            /\ Cadence \in {"Off", "Time", "Messages"}
<1>1. QED
  BY EsAssumption DEF TypeOK, ControlTypes, Spawn, Batch, Every, Cadence

(* The first multiple of n above k, less one, is a seq.                    *)
LEMMA BoundaryType ==
  ASSUME NEW k \in Nat, NEW n \in Nat \ {0}
  PROVE  ((k + n) \div n) * n - 1 \in Nat
<1> DEFINE q == (k + n) \div n
<1>1. q \in Int /\ q >= 1
  OBVIOUS
<1>2. q * n \in Int /\ q * n >= 1
  BY <1>1
<1>3. QED
  BY <1>2

(* Storing one more snapshot keeps the store well typed.                   *)
LEMMA SnapshotType ==
  ASSUME TypeOK, NEW anchor \in Nat
  PROVE  Append(snaps, Snapshot(anchor)) \in Seq([seq : Nat, state : Seq(Fact)])
<1>1. Snapshot(anchor) \in [seq : Nat, state : Seq(Fact)]
  BY DEF Snapshot, TypeOK, StoreTypes
<1>2. QED
  BY <1>1, AppendProperties DEF TypeOK, StoreTypes

(* Every step keeps the types.                                             *)
LEMMA StepType == TypeOK /\ [Next]_vars => TypeOK'
<1> SUFFICES ASSUME TypeOK, [Next]_vars PROVE TypeOK'
  OBVIOUS
<1>1. CASE Send
  <2>1. Script[sent + 1] \in Message
    BY <1>1, EsAssumption, ElementOfSeq DEF Send, TypeOK, MailTypes
  <2>2. /\ Append(queue, Script[sent + 1]) \in Seq(Message)
       /\ Len(Append(queue, Script[sent + 1])) = Len(queue) + 1
    BY <2>1, AppendProperties DEF TypeOK, MailTypes
  <2>3. MailTypes'
    BY <1>1, <2>1, <2>2, SMTT(30) DEF Send, TypeOK, MailTypes, stepVars, passVars, storeVars, envVars
  <2>4. BatchTypes'
    BY <1>1, <2>1, <2>2 DEF Send, TypeOK, BatchTypes, stepVars, passVars, storeVars, envVars
  <2>5. StoreTypes'
    BY <1>1, <2>1, <2>2 DEF Send, TypeOK, StoreTypes, stepVars, passVars, storeVars, envVars
  <2>6. ControlTypes'
    BY <1>1, <2>1, <2>2 DEF Send, TypeOK, ControlTypes, Phases, stepVars, passVars, storeVars, envVars
  <2>7. QED
    BY <2>3, <2>4, <2>5, <2>6 DEF TypeOK
<1>2. CASE Claim
  <2>1. ClaimSize \in 0 .. Len(queue)
    BY CellType DEF ClaimSize, TypeOK, MailTypes
  <2>2. MailTypes'
    BY <1>2, <2>1 DEF Claim, TypeOK, MailTypes, stepVars, passVars, storeVars, envVars
  <2>3. BatchTypes'
    BY <1>2, <2>1 DEF Claim, TypeOK, BatchTypes, stepVars, passVars, storeVars, envVars
  <2>4. StoreTypes'
    BY <1>2, <2>1 DEF Claim, TypeOK, StoreTypes, stepVars, passVars, storeVars, envVars
  <2>5. ControlTypes'
    BY <1>2, <2>1 DEF Claim, TypeOK, ControlTypes, Phases, stepVars, passVars, storeVars, envVars
  <2>6. QED
    BY <2>2, <2>3, <2>4, <2>5 DEF TypeOK
<1>3. CASE Decide
  <2>1. queue[decided + 1] \in Message
    BY <1>3, ElementOfSeq DEF Decide, TypeOK, MailTypes
  <2>2. Decision(queue[decided + 1], Len(state)) \in Seq(Fact)
    BY <2>1, DecisionType DEF TypeOK, StoreTypes
  <2>3. events' \in Seq(Fact)
    BY <1>3, <2>2, ConcatProperties DEF Decide, TypeOK, BatchTypes
  <2>4. MailTypes'
    BY <1>3, <2>1, <2>2, <2>3 DEF Decide, TypeOK, MailTypes, stepVars, passVars, storeVars, envVars
  <2>5. BatchTypes'
    BY <1>3, <2>1, <2>2, <2>3 DEF Decide, TypeOK, BatchTypes, stepVars, passVars, storeVars, envVars
  <2>6. StoreTypes'
    BY <1>3, <2>1, <2>2, <2>3 DEF Decide, TypeOK, StoreTypes, stepVars, passVars, storeVars, envVars
  <2>7. ControlTypes'
    BY <1>3, <2>1, <2>2, <2>3 DEF Decide, TypeOK, ControlTypes, Phases, stepVars, passVars, storeVars, envVars
  <2>8. QED
    BY <2>4, <2>5, <2>6, <2>7 DEF TypeOK
<1>4. CASE FilterEmits
  <2>1. Mail \subseteq Message
    BY ElementOfSeq DEF Mail, TypeOK, MailTypes
  <2>2. MailTypes'
    BY <1>4, <2>1 DEF FilterEmits, Mail, TypeOK, MailTypes, stepVars, passVars, storeVars, envVars
  <2>3. BatchTypes'
    BY <1>4, <2>1 DEF FilterEmits, Mail, TypeOK, BatchTypes, stepVars, passVars, storeVars, envVars
  <2>4. StoreTypes'
    BY <1>4, <2>1 DEF FilterEmits, Mail, TypeOK, StoreTypes, stepVars, passVars, storeVars, envVars
  <2>5. ControlTypes'
    BY <1>4, <2>1 DEF FilterEmits, Mail, TypeOK, ControlTypes, Phases, stepVars, passVars, storeVars, envVars
  <2>6. QED
    BY <2>2, <2>3, <2>4, <2>5 DEF TypeOK
<1>5. CASE AppendJournal
  <2>1. journal \o events \in Seq(Fact)
    BY ConcatProperties DEF TypeOK, BatchTypes, StoreTypes
  <2>2. MailTypes'
    BY <1>5, <2>1 DEF AppendJournal, TypeOK, MailTypes, stepVars, passVars, storeVars, envVars
  <2>3. BatchTypes'
    BY <1>5, <2>1 DEF AppendJournal, TypeOK, BatchTypes, stepVars, passVars, storeVars, envVars
  <2>4. StoreTypes'
    BY <1>5, <2>1 DEF AppendJournal, TypeOK, StoreTypes, stepVars, passVars, storeVars, envVars
  <2>5. ControlTypes'
    BY <1>5, <2>1 DEF AppendJournal, TypeOK, ControlTypes, Phases, stepVars, passVars, storeVars, envVars
  <2>6. QED
    BY <2>2, <2>3, <2>4, <2>5 DEF TypeOK
<1>6. CASE Commit
  <2>1. Committed \in Seq(Message)
    BY PartType DEF Committed, TypeOK, MailTypes
  <2>2. lastSeq' \in Nat
    BY <1>6 DEF Commit, TypeOK, BatchTypes, StoreTypes
  <2>3. MailTypes'
    BY <1>6, <2>1, <2>2 DEF Commit, TypeOK, MailTypes, stepVars, passVars, storeVars, envVars
  <2>4. BatchTypes'
    BY <1>6, <2>1, <2>2 DEF Commit, TypeOK, BatchTypes, stepVars, passVars, storeVars, envVars
  <2>5. StoreTypes'
    BY <1>6, <2>1, <2>2 DEF Commit, TypeOK, StoreTypes, stepVars, passVars, storeVars, envVars
  <2>6. ControlTypes'
    BY <1>6, <2>1, <2>2 DEF Commit, TypeOK, ControlTypes, Phases, stepVars, passVars, storeVars, envVars
  <2>7. QED
    BY <2>3, <2>4, <2>5, <2>6 DEF TypeOK
<1>7. CASE Apply
  <2>1. state \o events \in Seq(Fact)
    BY ConcatProperties DEF TypeOK, BatchTypes, StoreTypes
  <2>2. MailTypes'
    BY <1>7, <2>1 DEF Apply, TypeOK, MailTypes, stepVars, passVars, storeVars, envVars
  <2>3. BatchTypes'
    BY <1>7, <2>1 DEF Apply, TypeOK, BatchTypes, stepVars, passVars, storeVars, envVars
  <2>4. StoreTypes'
    BY <1>7, <2>1 DEF Apply, TypeOK, StoreTypes, stepVars, passVars, storeVars, envVars
  <2>5. ControlTypes'
    BY <1>7, <2>1 DEF Apply, TypeOK, ControlTypes, Phases, stepVars, passVars, storeVars, envVars
  <2>6. QED
    BY <2>2, <2>3, <2>4, <2>5 DEF TypeOK
<1>8. CASE FanOut
  <2>1. events[fanned + 1] \in Fact
    BY <1>8, ElementOfSeq DEF FanOut, TypeOK, BatchTypes
  <2>2. [fact |-> events[fanned + 1], seq |-> Stamp] \in [fact : Fact, seq : Nat]
    BY <2>1 DEF Stamp, TypeOK, BatchTypes
  <2>3. told' \in Seq([fact : Fact, seq : Nat])
    BY <1>8, <2>2, AppendProperties DEF FanOut, TypeOK, BatchTypes
  <2>4. MailTypes'
    BY <1>8, <2>1, <2>2, <2>3 DEF FanOut, TypeOK, MailTypes, stepVars, passVars, storeVars, envVars
  <2>5. BatchTypes'
    BY <1>8, <2>1, <2>2, <2>3 DEF FanOut, TypeOK, BatchTypes, stepVars, passVars, storeVars, envVars
  <2>6. StoreTypes'
    BY <1>8, <2>1, <2>2, <2>3 DEF FanOut, TypeOK, StoreTypes, stepVars, passVars, storeVars, envVars
  <2>7. ControlTypes'
    BY <1>8, <2>1, <2>2, <2>3 DEF FanOut, TypeOK, ControlTypes, Phases, stepVars, passVars, storeVars, envVars
  <2>8. QED
    BY <2>4, <2>5, <2>6, <2>7 DEF TypeOK
<1>9. CASE MaybeSnapshot
  <2>1. FirstBoundary \in Nat
    BY CellType, BoundaryType DEF FirstBoundary, TypeOK, BatchTypes
  <2>2. MailTypes'
    BY <1>9, <2>1 DEF MaybeSnapshot, TypeOK, MailTypes, stepVars, passVars, storeVars, envVars
  <2>3. BatchTypes'
    BY <1>9, <2>1 DEF MaybeSnapshot, TypeOK, BatchTypes, stepVars, passVars, storeVars, envVars
  <2>4. StoreTypes'
    BY <1>9, <2>1 DEF MaybeSnapshot, TypeOK, StoreTypes, stepVars, passVars, storeVars, envVars
  <2>5. ControlTypes'
    BY <1>9, <2>1 DEF MaybeSnapshot, TypeOK, ControlTypes, Phases, stepVars, passVars, storeVars, envVars
  <2>6. QED
    BY <2>2, <2>3, <2>4, <2>5 DEF TypeOK
<1>10. CASE SnapshotBoundary
  <2>1. snaps' \in Seq([seq : Nat, state : Seq(Fact)])
    BY <1>10, SnapshotType DEF SnapshotBoundary, Fail, TypeOK, BatchTypes, StoreTypes
  <2>2. boundary' \in Nat
    BY <1>10, CellType DEF SnapshotBoundary, TypeOK, BatchTypes
  <2>3. MailTypes'
    BY <1>10, <2>1, <2>2 DEF SnapshotBoundary, Fail, TypeOK, MailTypes, stepVars, passVars, storeVars, envVars
  <2>4. BatchTypes'
    BY <1>10, <2>1, <2>2 DEF SnapshotBoundary, Fail, TypeOK, BatchTypes, stepVars, passVars, storeVars, envVars
  <2>5. StoreTypes'
    BY <1>10, <2>1, <2>2 DEF SnapshotBoundary, Fail, TypeOK, StoreTypes, stepVars, passVars, storeVars, envVars
  <2>6. ControlTypes'
    BY <1>10, <2>1, <2>2 DEF SnapshotBoundary, Fail, TypeOK, ControlTypes, Phases, stepVars, passVars, storeVars, envVars
  <2>7. QED
    BY <2>3, <2>4, <2>5, <2>6 DEF TypeOK
<1>11. CASE SnapshotOnIdle
  <2>1. snaps' \in Seq([seq : Nat, state : Seq(Fact)])
    BY <1>11, SnapshotType DEF SnapshotOnIdle, Sentinel, TypeOK, StoreTypes
  <2>2. MailTypes'
    BY <1>11, <2>1 DEF SnapshotOnIdle, TypeOK, MailTypes, stepVars, passVars, storeVars, envVars
  <2>3. BatchTypes'
    BY <1>11, <2>1 DEF SnapshotOnIdle, TypeOK, BatchTypes, stepVars, passVars, storeVars, envVars
  <2>4. StoreTypes'
    BY <1>11, <2>1 DEF SnapshotOnIdle, TypeOK, StoreTypes, stepVars, passVars, storeVars, envVars
  <2>5. ControlTypes'
    BY <1>11, <2>1 DEF SnapshotOnIdle, TypeOK, ControlTypes, Phases, stepVars, passVars, storeVars, envVars
  <2>6. QED
    BY <2>2, <2>3, <2>4, <2>5 DEF TypeOK
<1>12. CASE Restart
  <2>1. Replay \in Seq(Fact)
    BY ReplayType
  <2>2. MailTypes'
    BY <1>12, <2>1 DEF Restart, TypeOK, MailTypes, stepVars, passVars, storeVars, envVars
  <2>3. BatchTypes'
    BY <1>12, <2>1 DEF Restart, TypeOK, BatchTypes, stepVars, passVars, storeVars, envVars
  <2>4. StoreTypes'
    BY <1>12, <2>1 DEF Restart, TypeOK, StoreTypes, stepVars, passVars, storeVars, envVars
  <2>5. ControlTypes'
    BY <1>12, <2>1 DEF Restart, TypeOK, ControlTypes, Phases, stepVars, passVars, storeVars, envVars
  <2>6. QED
    BY <2>2, <2>3, <2>4, <2>5 DEF TypeOK
<1>13. CASE Boot
  <2>1. Replay \in Seq(Fact)
    BY ReplayType
  <2>2. MailTypes'
    BY <1>13, <2>1 DEF Boot, TypeOK, MailTypes, stepVars, passVars, storeVars, envVars
  <2>3. BatchTypes'
    BY <1>13, <2>1 DEF Boot, TypeOK, BatchTypes, stepVars, passVars, storeVars, envVars
  <2>4. StoreTypes'
    BY <1>13, <2>1 DEF Boot, TypeOK, StoreTypes, stepVars, passVars, storeVars, envVars
  <2>5. ControlTypes'
    BY <1>13, <2>1 DEF Boot, TypeOK, ControlTypes, Phases, stepVars, passVars, storeVars, envVars
  <2>6. QED
    BY <2>2, <2>3, <2>4, <2>5 DEF TypeOK
<1>14. CASE DecidePanics
  <2>1. MailTypes'
    BY <1>14 DEF DecidePanics, Fail, TypeOK, MailTypes, stepVars, passVars, storeVars, envVars
  <2>2. BatchTypes'
    BY <1>14 DEF DecidePanics, Fail, TypeOK, BatchTypes, stepVars, passVars, storeVars, envVars
  <2>3. StoreTypes'
    BY <1>14 DEF DecidePanics, Fail, TypeOK, StoreTypes, stepVars, passVars, storeVars, envVars
  <2>4. ControlTypes'
    BY <1>14 DEF DecidePanics, Fail, TypeOK, ControlTypes, Phases, stepVars, passVars, storeVars, envVars
  <2>5. QED
    BY <2>1, <2>2, <2>3, <2>4 DEF TypeOK
<1>15. CASE AppendFails
  <2>1. MailTypes'
    BY <1>15 DEF AppendFails, Fail, TypeOK, MailTypes, stepVars, passVars, storeVars, envVars
  <2>2. BatchTypes'
    BY <1>15 DEF AppendFails, Fail, TypeOK, BatchTypes, stepVars, passVars, storeVars, envVars
  <2>3. StoreTypes'
    BY <1>15 DEF AppendFails, Fail, TypeOK, StoreTypes, stepVars, passVars, storeVars, envVars
  <2>4. ControlTypes'
    BY <1>15 DEF AppendFails, Fail, TypeOK, ControlTypes, Phases, stepVars, passVars, storeVars, envVars
  <2>5. QED
    BY <2>1, <2>2, <2>3, <2>4 DEF TypeOK
<1>16. CASE RestartFails
  <2>1. MailTypes'
    BY <1>16 DEF RestartFails, Fail, TypeOK, MailTypes, stepVars, passVars, storeVars, envVars
  <2>2. BatchTypes'
    BY <1>16 DEF RestartFails, Fail, TypeOK, BatchTypes, stepVars, passVars, storeVars, envVars
  <2>3. StoreTypes'
    BY <1>16 DEF RestartFails, Fail, TypeOK, StoreTypes, stepVars, passVars, storeVars, envVars
  <2>4. ControlTypes'
    BY <1>16 DEF RestartFails, Fail, TypeOK, ControlTypes, Phases, stepVars, passVars, storeVars, envVars
  <2>5. QED
    BY <2>1, <2>2, <2>3, <2>4 DEF TypeOK
<1>17. CASE BootFails
  <2>1. MailTypes'
    BY <1>17 DEF BootFails, Fail, TypeOK, MailTypes, stepVars, passVars, storeVars, envVars
  <2>2. BatchTypes'
    BY <1>17 DEF BootFails, Fail, TypeOK, BatchTypes, stepVars, passVars, storeVars, envVars
  <2>3. StoreTypes'
    BY <1>17 DEF BootFails, Fail, TypeOK, StoreTypes, stepVars, passVars, storeVars, envVars
  <2>4. ControlTypes'
    BY <1>17 DEF BootFails, Fail, TypeOK, ControlTypes, Phases, stepVars, passVars, storeVars, envVars
  <2>5. QED
    BY <2>1, <2>2, <2>3, <2>4 DEF TypeOK
<1>18. CASE Respawn
  <2>1. MailTypes'
    BY <1>18 DEF Respawn, TypeOK, MailTypes, stepVars, passVars, storeVars, envVars
  <2>2. BatchTypes'
    BY <1>18 DEF Respawn, TypeOK, BatchTypes, stepVars, passVars, storeVars, envVars
  <2>3. StoreTypes'
    BY <1>18 DEF Respawn, TypeOK, StoreTypes, stepVars, passVars, storeVars, envVars
  <2>4. ControlTypes'
    BY <1>18 DEF Respawn, TypeOK, ControlTypes, Phases, stepVars, passVars, storeVars, envVars
  <2>5. QED
    BY <2>1, <2>2, <2>3, <2>4 DEF TypeOK
<1>19. CASE Stop \/ Abort
  <2>1. {queue[k] : k \in DOMAIN queue} \subseteq Message
    BY ElementOfSeq, LenProperties DEF TypeOK, MailTypes
  <2>2. /\ queue' = <<>> /\ claimed' = 0 /\ decided' = 0 /\ sent' = sent
       /\ dead' = dead \cup {queue[k] : k \in DOMAIN queue}
    BY <1>19 DEF Stop, Abort, StopWith, envVars
  <2>3. /\ state' = <<>> /\ lastSeq' = 0 /\ journal' = journal /\ snaps' = snaps
    BY <1>19 DEF Stop, Abort, StopWith, Sentinel, storeVars
  <2>4. MailTypes'
    BY <1>19, <2>1, <2>2, <2>3 DEF Stop, Abort, StopWith, Sentinel, TypeOK, MailTypes, stepVars, passVars, storeVars, envVars
  <2>5. BatchTypes'
    BY <1>19, <2>1, <2>2, <2>3 DEF Stop, Abort, StopWith, Sentinel, TypeOK, BatchTypes, stepVars, passVars, storeVars, envVars
  <2>6. StoreTypes'
    BY <1>19, <2>1, <2>2, <2>3 DEF Stop, Abort, StopWith, Sentinel, TypeOK, StoreTypes, stepVars, passVars, storeVars, envVars
  <2>7. ControlTypes'
    BY <1>19, <2>1, <2>2, <2>3 DEF Stop, Abort, StopWith, Sentinel, TypeOK, ControlTypes, Phases, stepVars, passVars, storeVars, envVars
  <2>8. QED
    BY <2>4, <2>5, <2>6, <2>7 DEF TypeOK
<1>20. CASE Die
  <2>1. MailTypes'
    BY <1>20 DEF Die, Fail, Sentinel, TypeOK, MailTypes, stepVars, passVars, storeVars, envVars
  <2>2. BatchTypes'
    BY <1>20 DEF Die, Fail, Sentinel, TypeOK, BatchTypes, stepVars, passVars, storeVars, envVars
  <2>3. StoreTypes'
    BY <1>20 DEF Die, Fail, Sentinel, TypeOK, StoreTypes, stepVars, passVars, storeVars, envVars
  <2>4. ControlTypes'
    BY <1>20 DEF Die, Fail, Sentinel, TypeOK, ControlTypes, Phases, stepVars, passVars, storeVars, envVars
  <2>5. QED
    BY <2>1, <2>2, <2>3, <2>4 DEF TypeOK
<1>21. CASE UNCHANGED vars
  <2>1. MailTypes'
    BY <1>21 DEF vars, TypeOK, MailTypes, stepVars, passVars, storeVars, envVars
  <2>2. BatchTypes'
    BY <1>21 DEF vars, TypeOK, BatchTypes, stepVars, passVars, storeVars, envVars
  <2>3. StoreTypes'
    BY <1>21 DEF vars, TypeOK, StoreTypes, stepVars, passVars, storeVars, envVars
  <2>4. ControlTypes'
    BY <1>21 DEF vars, TypeOK, ControlTypes, Phases, stepVars, passVars, storeVars, envVars
  <2>5. QED
    BY <2>1, <2>2, <2>3, <2>4 DEF TypeOK
<1>22. QED
  BY <1>1, <1>2, <1>3, <1>4, <1>5, <1>6, <1>7, <1>8, <1>9, <1>10, <1>11, <1>12, <1>13, <1>14, <1>15, <1>16, <1>17, <1>18, <1>19, <1>20, <1>21
  DEF Next, Work, Recover, Disturb

(* Every variable keeps its type, whatever is sent and whatever fails.     *)
THEOREM TypeCorrect == Spec => []TypeOK
<1>1. QED
  BY InitType, StepType, PTL DEF Spec

----------------------------------------------------------------------------
(* Recovery is exact.  A count cadence may anchor a state that is ahead of *)
(* its seq (see VEsSnapshotAnchor): the theorems are about actors without. *)

NoCountCadence == \A c \in Spawns : c.cadence # "Messages"

(* What last_event_seq says of the journal: nothing yet, or its length;    *)
(* between an append and its commit, the batch is the journal's tail.      *)
LastSeqInv ==
  /\ phase # "commit" \/ events = <<>> => lastSeq \in {Sentinel, Len(journal)}
  /\ phase = "commit" /\ events # <<>> => Len(journal) = first + Len(events)

RecoveryInv ==
  /\ phase # "snapshot"
  /\ LastSeqInv
  /\ StateMatchesJournal
  /\ SnapshotsFaithful

(* A stored snapshot has an anchor and a state.                            *)
LEMMA SnapshotTyped ==
  ASSUME TypeOK, NEW k \in DOMAIN snaps
  PROVE  snaps[k] \in [seq : Nat, state : Seq(Fact)]
<1>1. snaps \in Seq([seq : Nat, state : Seq(Fact)])
  BY DEF TypeOK, StoreTypes
<1>2. k \in 1 .. Len(snaps)
  BY <1>1, LenProperties
<1>3. QED
  BY <1>1, <1>2, ElementOfSeq

(* A faithful snapshot and the tail after it fold to the whole journal.    *)
LEMMA ReplayFaithful ==
  ASSUME TypeOK, SnapshotsFaithful, ~blind
  PROVE  Replay = journal
<1>1. CASE snaps = <<>>
  BY <1>1 DEF Replay
<1>2. CASE snaps # <<>>
  <2> DEFINE s == snaps[Len(snaps)]
  <2>1. Len(snaps) \in DOMAIN snaps
    BY <1>2, EmptySeq, LenProperties DEF TypeOK, StoreTypes
  <2>2. s \in [seq : Nat, state : Seq(Fact)]
    BY <2>1, SnapshotTyped
  <2>3. s.seq < Len(journal) /\ s.state = SubSeq(journal, 1, s.seq + 1)
    BY <2>1 DEF SnapshotsFaithful
  <2>4. SubSeq(journal, 1, s.seq + 1) \o SubSeq(journal, (s.seq + 1) + 1, Len(journal))
          = SubSeq(journal, 1, Len(journal))
    <3>1. journal \in Seq(Fact) /\ Len(journal) \in Nat
      BY LenProperties DEF TypeOK, StoreTypes
    <3>2. /\ 1 \in 1 .. Len(journal) + 1
          /\ s.seq + 1 \in 1 - 1 .. Len(journal)
          /\ Len(journal) \in s.seq + 1 .. Len(journal)
      BY <2>2, <2>3, <3>1
    <3>3. QED
      BY <3>1, <3>2, ConcatAdjacentSubSeq
  <2>5. SubSeq(journal, 1, Len(journal)) = journal
    BY SubSeqFull DEF TypeOK, StoreTypes
  <2>6. (s.seq + 1) + 1 = s.seq + 2
    BY <2>2
  <2>7. QED
    BY <1>2, <2>3, <2>4, <2>5, <2>6 DEF Replay
<1>3. QED
  BY <1>1, <1>2

(* Facts are only ever added behind what a snapshot has folded.            *)
LEMMA FaithfulGrows ==
  ASSUME TypeOK, SnapshotsFaithful,
         journal' = journal \o events, snaps' = snaps, blind' = blind
  PROVE  SnapshotsFaithful'
<1>1. SUFFICES ASSUME ~blind, NEW k \in DOMAIN snaps
               PROVE  /\ snaps[k].seq < Len(journal')
                      /\ snaps[k].state = SubSeq(journal', 1, snaps[k].seq + 1)
  BY DEF SnapshotsFaithful
<1>2. /\ snaps[k].seq < Len(journal)
      /\ snaps[k].state = SubSeq(journal, 1, snaps[k].seq + 1)
  BY <1>1 DEF SnapshotsFaithful
<1>3. snaps[k].seq \in Nat
  BY SnapshotTyped
<1>4. Len(journal') = Len(journal) + Len(events)
  BY ConcatProperties DEF TypeOK, BatchTypes, StoreTypes
<1>5. SubSeq(journal', 1, snaps[k].seq + 1) = SubSeq(journal, 1, snaps[k].seq + 1)
  BY <1>2, <1>3, SubSeqOfConcat1, SMTT(30) DEF TypeOK, BatchTypes, StoreTypes
<1>6. QED
  BY <1>2, <1>3, <1>4, <1>5, SMTT(30) DEF TypeOK, BatchTypes, StoreTypes

(* A snapshot of the live state, anchored at the journal's last seq.       *)
LEMMA FaithfulSnapshot ==
  ASSUME TypeOK, SnapshotsFaithful, journal # <<>>, ~blind => state = journal,
         snaps' = Append(snaps, Snapshot(Len(journal) - 1)),
         journal' = journal, blind' = blind
  PROVE  SnapshotsFaithful'
<1> DEFINE new == Snapshot(Len(journal) - 1)
<1>1. SUFFICES ASSUME ~blind, NEW k \in DOMAIN snaps'
               PROVE  /\ snaps'[k].seq < Len(journal)
                      /\ snaps'[k].state = SubSeq(journal, 1, snaps'[k].seq + 1)
  BY DEF SnapshotsFaithful
<1>2. Len(journal) \in Nat \ {0}
  BY EmptySeq DEF TypeOK, StoreTypes
<1>3. /\ Len(snaps') = Len(snaps) + 1
      /\ DOMAIN snaps' = 1 .. Len(snaps) + 1
      /\ \A l \in 1 .. Len(snaps) : snaps'[l] = snaps[l]
      /\ snaps'[Len(snaps) + 1] = new
  BY <1>2, SnapshotType, AppendProperties, LenProperties DEF TypeOK, StoreTypes, Snapshot
<1>4. CASE k = Len(snaps) + 1
  <2>1. new.seq + 1 = Len(journal) /\ new.state = journal
    BY <1>1, <1>2 DEF Snapshot
  <2>2. SubSeq(journal, 1, Len(journal)) = journal
    BY SubSeqFull DEF TypeOK, StoreTypes
  <2>3. new.seq < Len(journal)
    BY <1>2 DEF Snapshot
  <2>4. QED
    BY <1>3, <1>4, <2>1, <2>2, <2>3
<1>5. CASE k # Len(snaps) + 1
  <2>1. k \in DOMAIN snaps /\ snaps'[k] = snaps[k]
    BY <1>1, <1>3, <1>5, LenProperties DEF TypeOK, StoreTypes
  <2>2. QED
    BY <1>1, <2>1 DEF SnapshotsFaithful
<1>6. QED
  BY <1>4, <1>5

(* The recovery invariant holds at first.                                  *)
LEMMA InitRecovery == Init => RecoveryInv
<1>1. SUFFICES ASSUME Init PROVE RecoveryInv
  OBVIOUS
<1>2. LastSeqInv /\ phase # "snapshot"
  BY <1>1 DEF Init, LastSeqInv
<1>3. StateMatchesJournal
  BY <1>1 DEF Init, StateMatchesJournal
<1>4. SnapshotsFaithful
  BY <1>1 DEF Init, SnapshotsFaithful
<1>5. QED
  BY <1>2, <1>3, <1>4 DEF RecoveryInv

(* Steps that leave the store, the state and the history alone.            *)
LEMMA FaithfulUnchanged ==
  ASSUME SnapshotsFaithful, journal' = journal, snaps' = snaps, blind' = blind
  PROVE  SnapshotsFaithful'
<1>1. QED
  BY DEF SnapshotsFaithful

(* Every step keeps the recovery invariant.                                *)
LEMMA StepRecovery ==
  ASSUME TypeOK, NoCountCadence, RecoveryInv, [Next]_vars
  PROVE  RecoveryInv'
<1> USE DEF RecoveryInv
<1>1. CASE Send \/ Claim
  <2>1. LastSeqInv' /\ phase' # "snapshot"
    BY <1>1 DEF Send, Claim, LastSeqInv, Sentinel, stepVars, passVars, storeVars, envVars
  <2>2. StateMatchesJournal'
    BY <1>1 DEF Send, Claim, StateMatchesJournal, stepVars, passVars, storeVars, envVars
  <2>3. SnapshotsFaithful'
    BY <1>1, FaithfulUnchanged DEF Send, Claim, stepVars, passVars, storeVars, envVars
  <2>4. QED
    BY <2>1, <2>2, <2>3
<1>2. CASE FilterEmits
  <2>1. state \o <<>> = state
    BY ConcatEmptySeq DEF TypeOK, StoreTypes
  <2>2. LastSeqInv' /\ phase' # "snapshot"
    BY <1>2, <2>1 DEF FilterEmits, LastSeqInv, Sentinel, stepVars, passVars, storeVars, envVars
  <2>3. StateMatchesJournal'
    BY <1>2, <2>1 DEF FilterEmits, StateMatchesJournal, stepVars, passVars, storeVars, envVars
  <2>4. SnapshotsFaithful'
    BY <1>2, FaithfulUnchanged DEF FilterEmits, stepVars, passVars, storeVars, envVars
  <2>5. QED
    BY <2>2, <2>3, <2>4
<1>3. CASE Decide
  <2>1. LastSeqInv' /\ phase' # "snapshot"
    BY <1>3 DEF Decide, LastSeqInv, Sentinel, stepVars, passVars, storeVars, envVars
  <2>2. StateMatchesJournal'
    BY <1>3 DEF Decide, StateMatchesJournal, stepVars, passVars, storeVars, envVars
  <2>3. SnapshotsFaithful'
    BY <1>3, FaithfulUnchanged DEF Decide, stepVars, passVars, storeVars, envVars
  <2>4. QED
    BY <2>1, <2>2, <2>3
<1>4. CASE AppendJournal
  <2>1. Len(journal') = Len(journal) + Len(events)
    BY <1>4, ConcatProperties DEF AppendJournal, TypeOK, BatchTypes, StoreTypes
  <2>2. LastSeqInv' /\ phase' # "snapshot"
    BY <1>4, <2>1 DEF AppendJournal, LastSeqInv, Sentinel, stepVars, passVars, storeVars, envVars
  <2>3. StateMatchesJournal'
    BY <1>4, <2>1 DEF AppendJournal, StateMatchesJournal, stepVars, passVars, storeVars, envVars
  <2>4. SnapshotsFaithful'
    BY <1>4, <2>1, FaithfulGrows DEF AppendJournal, stepVars, passVars, storeVars, envVars
  <2>5. QED
    BY <2>2, <2>3, <2>4
<1>5. CASE Commit
  <2>1. LastSeqInv' /\ phase' # "snapshot"
    BY <1>5 DEF Commit, LastSeqInv, Sentinel, stepVars, passVars, storeVars, envVars
  <2>2. StateMatchesJournal'
    BY <1>5 DEF Commit, StateMatchesJournal, stepVars, passVars, storeVars, envVars
  <2>3. SnapshotsFaithful'
    BY <1>5, FaithfulUnchanged DEF Commit, stepVars, passVars, storeVars, envVars
  <2>4. QED
    BY <2>1, <2>2, <2>3
<1>6. CASE Apply
  <2>1. LastSeqInv' /\ phase' # "snapshot"
    BY <1>6 DEF Apply, LastSeqInv, Sentinel, stepVars, passVars, storeVars, envVars
  <2>2. StateMatchesJournal'
    BY <1>6 DEF Apply, StateMatchesJournal, stepVars, passVars, storeVars, envVars
  <2>3. SnapshotsFaithful'
    BY <1>6, FaithfulUnchanged DEF Apply, stepVars, passVars, storeVars, envVars
  <2>4. QED
    BY <2>1, <2>2, <2>3
<1>7. CASE FanOut \/ MaybeSnapshot
  <2>1. Cadence # "Messages"
    BY DEF NoCountCadence, Cadence, TypeOK, ControlTypes
  <2>2. LastSeqInv' /\ phase' # "snapshot"
    BY <1>7, <2>1 DEF FanOut, MaybeSnapshot, CrossesBoundary, LastSeqInv, Sentinel, stepVars, passVars, storeVars, envVars
  <2>3. StateMatchesJournal'
    BY <1>7, <2>1 DEF FanOut, MaybeSnapshot, CrossesBoundary, StateMatchesJournal, stepVars, passVars, storeVars, envVars
  <2>4. SnapshotsFaithful'
    BY <1>7, FaithfulUnchanged DEF FanOut, MaybeSnapshot, CrossesBoundary, stepVars, passVars, storeVars, envVars
  <2>5. QED
    BY <2>2, <2>3, <2>4
<1>8. CASE SnapshotOnIdle
  <2>1. lastSeq = Len(journal) /\ journal # <<>>
    BY <1>8, EmptySeq DEF SnapshotOnIdle, LastSeqInv, Sentinel, TypeOK, StoreTypes
  <2>2. ~blind => state = journal
    BY <1>8 DEF SnapshotOnIdle, StateMatchesJournal
  <2>3. LastSeqInv' /\ phase' # "snapshot"
    BY <1>8, <2>1, <2>2 DEF SnapshotOnIdle, LastSeqInv, Sentinel, stepVars, passVars, storeVars, envVars
  <2>4. StateMatchesJournal'
    BY <1>8, <2>1, <2>2 DEF SnapshotOnIdle, StateMatchesJournal, stepVars, passVars, storeVars, envVars
  <2>5. SnapshotsFaithful'
    BY <1>8, <2>1, <2>2, FaithfulSnapshot DEF SnapshotOnIdle, stepVars, passVars, storeVars, envVars
  <2>6. QED
    BY <2>3, <2>4, <2>5
<1>9. CASE Restart \/ Boot
  <2>1. ~blind => Replay = journal
    BY ReplayFaithful
  <2>2. LastSeqInv' /\ phase' # "snapshot"
    BY <1>9, <2>1 DEF Restart, Boot, LastSeqInv, Sentinel, stepVars, passVars, storeVars, envVars
  <2>3. StateMatchesJournal'
    BY <1>9, <2>1 DEF Restart, Boot, StateMatchesJournal, stepVars, passVars, storeVars, envVars
  <2>4. SnapshotsFaithful'
    BY <1>9, FaithfulUnchanged DEF Restart, Boot, stepVars, passVars, storeVars, envVars
  <2>5. QED
    BY <2>2, <2>3, <2>4
<1>10. CASE DecidePanics \/ AppendFails
  <2>1. LastSeqInv' /\ phase' # "snapshot"
    BY <1>10 DEF DecidePanics, AppendFails, LastSeqInv, Sentinel, stepVars, passVars, storeVars, envVars
  <2>2. StateMatchesJournal'
    BY <1>10 DEF DecidePanics, AppendFails, StateMatchesJournal, stepVars, passVars, storeVars, envVars
  <2>3. SnapshotsFaithful'
    BY <1>10, FaithfulUnchanged DEF DecidePanics, AppendFails, stepVars, passVars, storeVars, envVars
  <2>4. QED
    BY <2>1, <2>2, <2>3
<1>11. CASE RestartFails \/ BootFails
  <2>1. LastSeqInv' /\ phase' # "snapshot"
    BY <1>11 DEF RestartFails, BootFails, LastSeqInv, Sentinel, stepVars, passVars, storeVars, envVars
  <2>2. StateMatchesJournal'
    BY <1>11 DEF RestartFails, BootFails, StateMatchesJournal, stepVars, passVars, storeVars, envVars
  <2>3. SnapshotsFaithful'
    BY <1>11 DEF RestartFails, BootFails, SnapshotsFaithful, stepVars, passVars, storeVars, envVars
  <2>4. QED
    BY <2>1, <2>2, <2>3
<1>12. CASE Respawn
  <2>1. LastSeqInv' /\ phase' # "snapshot"
    BY <1>12 DEF Respawn, LastSeqInv, Sentinel, stepVars, passVars, storeVars, envVars
  <2>2. StateMatchesJournal'
    BY <1>12 DEF Respawn, StateMatchesJournal, stepVars, passVars, storeVars, envVars
  <2>3. SnapshotsFaithful'
    BY <1>12, FaithfulUnchanged DEF Respawn, stepVars, passVars, storeVars, envVars
  <2>4. QED
    BY <2>1, <2>2, <2>3
<1>13. CASE Stop \/ Abort \/ Die
  <2>1. LastSeqInv' /\ phase' # "snapshot"
    BY <1>13 DEF Stop, Abort, StopWith, Die, LastSeqInv, Sentinel, stepVars, passVars, storeVars, envVars
  <2>2. StateMatchesJournal'
    BY <1>13 DEF Stop, Abort, StopWith, Die, StateMatchesJournal, stepVars, passVars, storeVars, envVars
  <2>3. SnapshotsFaithful'
    BY <1>13, FaithfulUnchanged DEF Stop, Abort, StopWith, Die, stepVars, passVars, storeVars, envVars
  <2>4. QED
    BY <2>1, <2>2, <2>3
<1>14. CASE UNCHANGED vars
  <2>1. LastSeqInv' /\ phase' # "snapshot"
    BY <1>14 DEF vars, LastSeqInv, Sentinel, stepVars, passVars, storeVars, envVars
  <2>2. StateMatchesJournal'
    BY <1>14 DEF vars, StateMatchesJournal, stepVars, passVars, storeVars, envVars
  <2>3. SnapshotsFaithful'
    BY <1>14, FaithfulUnchanged DEF vars, stepVars, passVars, storeVars, envVars
  <2>4. QED
    BY <2>1, <2>2, <2>3
<1>15. SnapshotBoundary => FALSE
  BY DEF SnapshotBoundary
<1>16. QED
  BY <1>1, <1>2, <1>3, <1>4, <1>5, <1>6, <1>7, <1>8, <1>9, <1>10, <1>11, <1>12, <1>13, <1>14, <1>15
  DEF Next, Work, Recover, Disturb

(* The live state is the fold of the journal whenever a command is decided *)
(* on it, however many crashes, restarts, stops, aborts, process deaths    *)
(* and respawns came before: the strengthening says what last_event_seq    *)
(* and every snapshot know of the journal.                                 *)
THEOREM RecoveryExact ==
  ASSUME NoCountCadence
  PROVE  Spec => []StateMatchesJournal
<1>1. Init => TypeOK /\ RecoveryInv
  BY InitType, InitRecovery
<1>2. TypeOK /\ RecoveryInv /\ [Next]_vars => (TypeOK /\ RecoveryInv)'
  BY NoCountCadence, StepType, StepRecovery
<1>3. RecoveryInv => StateMatchesJournal
  BY DEF RecoveryInv
<1>4. QED
  BY <1>1, <1>2, <1>3, PTL DEF Spec

(* Every snapshot ever stored is the fold of the facts up to its seq.      *)
THEOREM SnapshotsExact ==
  ASSUME NoCountCadence
  PROVE  Spec => []SnapshotsFaithful
<1>1. Init => TypeOK /\ RecoveryInv
  BY InitType, InitRecovery
<1>2. TypeOK /\ RecoveryInv /\ [Next]_vars => (TypeOK /\ RecoveryInv)'
  BY NoCountCadence, StepType, StepRecovery
<1>3. RecoveryInv => SnapshotsFaithful
  BY DEF RecoveryInv
<1>4. QED
  BY <1>1, <1>2, <1>3, PTL DEF Spec

----------------------------------------------------------------------------
(* What the fabric hears.                                                  *)

(* The batch is the journal's tail while it is being told, and what has    *)
(* been told comes before what is about to be.                             *)
BatchIsTail ==
  phase \in {"commit", "apply", "fanout"} /\ events # <<>> =>
    /\ Len(journal) = first + Len(events)
    /\ \A k \in 1 .. Len(events) : journal[first + k] = events[k]

ToldBehind ==
  /\ phase \in {"commit", "apply"} /\ events # <<>> =>
       \A k \in DOMAIN told : told[k].seq < first
  /\ phase = "fanout" /\ events # <<>> =>
       \A k \in DOMAIN told : told[k].seq < first + fanned

TellInv == BatchIsTail /\ ToldBehind /\ ToldAsRecorded

(* A broadcast copy has a fact and a seq.                                  *)
LEMMA ToldTyped ==
  ASSUME TypeOK, NEW k \in DOMAIN told
  PROVE  told[k] \in [fact : Fact, seq : Nat]
<1>1. told \in Seq([fact : Fact, seq : Nat])
  BY DEF TypeOK, BatchTypes
<1>2. k \in 1 .. Len(told)
  BY <1>1, LenProperties
<1>3. QED
  BY <1>1, <1>2, ElementOfSeq

(* The broadcast invariant holds at first.                                 *)
LEMMA InitTell == Init => TellInv
<1>1. QED
  BY DEF Init, TellInv, BatchIsTail, ToldBehind, ToldAsRecorded

(* Every step keeps the broadcast invariant.                               *)
LEMMA StepTell ==
  ASSUME TypeOK, TellInv, [Next]_vars
  PROVE  TellInv'
<1> USE DEF TellInv
<1>1. CASE AppendJournal
  <2>1. /\ Len(journal') = Len(journal) + Len(events)
        /\ \A p \in 1 .. Len(journal) : journal'[p] = journal[p]
        /\ \A k \in 1 .. Len(events) : journal'[Len(journal) + k] = events[k]
    BY <1>1, ConcatProperties, LenProperties
    DEF AppendJournal, TypeOK, BatchTypes, StoreTypes
  <2>2. told' = told /\ events' = events /\ first' = Len(journal) /\ phase' = "commit"
    BY <1>1 DEF AppendJournal
  <2>3. BatchIsTail'
    BY <2>1, <2>2 DEF BatchIsTail
  <2>4. ToldBehind'
    BY <2>2 DEF ToldBehind, ToldAsRecorded
  <2>5. \A k \in DOMAIN told : told[k].seq + 1 \in 1 .. Len(journal)
    BY ToldTyped DEF ToldAsRecorded, TypeOK, StoreTypes
  <2>6. Len(journal) \in Nat /\ Len(events) \in Nat
    BY LenProperties DEF TypeOK, BatchTypes, StoreTypes
  <2>7. \A k \in DOMAIN told :
          told[k].seq < Len(journal') /\ journal'[told[k].seq + 1] = told[k].fact
    BY <2>1, <2>5, <2>6, ToldTyped DEF ToldAsRecorded
  <2>8. ToldAsRecorded'
    BY <2>2, <2>7 DEF ToldAsRecorded
  <2>9. QED
    BY <2>3, <2>4, <2>8
<1>2. CASE FanOut
  <2> DEFINE copy == [fact |-> events[fanned + 1], seq |-> Stamp]
  <2>1. fanned + 1 \in 1 .. Len(events) /\ events # <<>>
    BY <1>2, EmptySeq DEF FanOut, TypeOK, BatchTypes
  <2>2. copy \in [fact : Fact, seq : Nat]
    BY <2>1, ElementOfSeq DEF Stamp, TypeOK, BatchTypes
  <2>3. /\ DOMAIN told = 1 .. Len(told) /\ Len(told) \in Nat
        /\ DOMAIN told' = 1 .. Len(told) + 1
        /\ \A k \in 1 .. Len(told) : told'[k] = told[k]
        /\ told'[Len(told) + 1] = copy
    BY <1>2, <2>2, AppendProperties, LenProperties DEF FanOut, TypeOK, BatchTypes
  <2>4. /\ journal' = journal /\ events' = events /\ first' = first
        /\ phase = "fanout" /\ phase' = "fanout" /\ fanned' = fanned + 1
    BY <1>2 DEF FanOut, storeVars
  <2>5. copy.seq < Len(journal) /\ journal[copy.seq + 1] = copy.fact
    <3>1. Len(journal) = first + Len(events) /\ journal[first + (fanned + 1)] = events[fanned + 1]
      BY <2>1, <2>4 DEF BatchIsTail
    <3>2. copy.seq + 1 = first + (fanned + 1)
      BY DEF Stamp, TypeOK, BatchTypes
    <3>3. QED
      BY <2>1, <3>1, <3>2 DEF Stamp, TypeOK, BatchTypes
  <2>6. \A k \in DOMAIN told : told[k].seq < copy.seq
    BY <2>1, <2>4 DEF ToldBehind, Stamp
  <2>7. ToldAsRecorded'
    <3>1. \A k \in DOMAIN told' :
            told'[k].seq < Len(journal') /\ journal'[told'[k].seq + 1] = told'[k].fact
      BY <2>3, <2>4, <2>5 DEF ToldAsRecorded
    <3>2. ASSUME NEW j \in DOMAIN told', NEW k \in DOMAIN told', j < k
          PROVE  told'[j].seq < told'[k].seq
      <4>1. CASE k = Len(told) + 1
        BY <2>3, <2>6, <3>2, <4>1
      <4>2. CASE k # Len(told) + 1
        BY <2>3, <3>2, <4>2 DEF ToldAsRecorded
      <4>3. QED
        BY <4>1, <4>2
    <3>3. QED
      BY <3>1, <3>2 DEF ToldAsRecorded
  <2>8. ToldBehind'
    <3>1. ASSUME NEW k \in DOMAIN told'
          PROVE  told'[k].seq < first + (fanned + 1)
      <4>1. CASE k = Len(told) + 1
        BY <2>3, <4>1 DEF Stamp, TypeOK, BatchTypes
      <4>2. CASE k # Len(told) + 1
        <5>1. k \in DOMAIN told /\ told'[k] = told[k]
          BY <2>3, <3>1, <4>2
        <5>2. told[k].seq \in Nat /\ told[k].seq < first + fanned
          BY <5>1, <2>1, <2>4, ToldTyped DEF ToldBehind
        <5>3. QED
          BY <5>1, <5>2 DEF TypeOK, BatchTypes
      <4>3. QED
        BY <4>1, <4>2
    <3>2. QED
      BY <2>4, <3>1 DEF ToldBehind
  <2>9. BatchIsTail'
    BY <2>4 DEF BatchIsTail
  <2>10. QED
    BY <2>7, <2>8, <2>9
<1>3. CASE Apply
  <2>1. /\ journal' = journal /\ events' = events /\ first' = first /\ told' = told
        /\ phase = "apply" /\ phase' = "fanout" /\ fanned' = 0
    BY <1>3 DEF Apply, storeVars
  <2>2. BatchIsTail' /\ ToldAsRecorded'
    BY <2>1 DEF BatchIsTail, ToldAsRecorded
  <2>3. ToldBehind'
    BY <2>1 DEF ToldBehind, TypeOK, BatchTypes
  <2>4. QED
    BY <2>2, <2>3
<1>4. CASE Commit
  BY <1>4 DEF Commit, storeVars, BatchIsTail, ToldBehind, ToldAsRecorded
<1>5. CASE Claim \/ Decide \/ FilterEmits
  BY <1>5 DEF Claim, Decide, FilterEmits, stepVars, passVars, storeVars, BatchIsTail,
              ToldBehind, ToldAsRecorded
<1>6. CASE Send \/ UNCHANGED vars
  BY <1>6 DEF Send, vars, stepVars, passVars, storeVars, BatchIsTail, ToldBehind, ToldAsRecorded
<1>7. CASE MaybeSnapshot \/ SnapshotBoundary \/ SnapshotOnIdle
  BY <1>7 DEF MaybeSnapshot, SnapshotBoundary, SnapshotOnIdle, stepVars, passVars,
              storeVars, BatchIsTail, ToldBehind, ToldAsRecorded
<1>8. CASE Recover \/ Respawn
  BY <1>8 DEF Recover, Boot, Restart, Respawn, stepVars, passVars, storeVars, BatchIsTail,
              ToldBehind, ToldAsRecorded
<1>9. CASE Disturb
  BY <1>9 DEF Disturb, DecidePanics, AppendFails, RestartFails, BootFails, Stop, Abort,
              StopWith, Die, stepVars, passVars, storeVars, BatchIsTail, ToldBehind,
              ToldAsRecorded
<1>10. QED
  BY <1>1, <1>2, <1>3, <1>4, <1>5, <1>6, <1>7, <1>8, <1>9 DEF Next, Work

(* A broadcast copy carries the seq its fact has in the journal, and no    *)
(* fact is told twice or out of order, whatever crashes in between.        *)
THEOREM ToldExact == Spec => []ToldAsRecorded
<1>1. Init => TypeOK /\ TellInv
  BY InitType, InitTell
<1>2. TypeOK /\ TellInv /\ [Next]_vars => (TypeOK /\ TellInv)'
  BY StepType, StepTell
<1>3. TellInv => ToldAsRecorded
  BY DEF TellInv
<1>4. QED
  BY <1>1, <1>2, <1>3, PTL DEF Spec

----------------------------------------------------------------------------
(* A command is recorded once.                                             *)

(* The commands accepted so far. *)
Accepted == {Script[k] : k \in 1 .. sent}

(* The queue holds accepted commands, each once ...                        *)
QueueInv ==
  /\ \A j \in 1 .. Len(queue) : queue[j] \in Accepted
  /\ \A i, j \in 1 .. Len(queue) : queue[i] = queue[j] => i = j

(* ... the batch holds facts of its decided claims, each once ...          *)
EventsInv ==
  phase \in {"decide", "append"} =>
    /\ \A i \in 1 .. Len(events) : \E k \in 1 .. decided : events[i].cmd = queue[k]
    /\ \A i, j \in 1 .. Len(events) :
         events[i].cmd = events[j].cmd /\ events[i].nth = events[j].nth => i = j

(* ... and a recorded command has left the queue, unless it is a claim of  *)
(* the batch that was just appended.                                       *)
InFlight(p, j) ==
  phase = "commit" /\ events # <<>> /\ p > first /\ j <= claimed

JournalInv ==
  /\ \A p \in 1 .. Len(journal) : journal[p].cmd \in Accepted
  /\ \A p \in 1 .. Len(journal), j \in 1 .. Len(queue) :
       journal[p].cmd = queue[j] => InFlight(p, j)

OnceInv == QueueInv /\ EventsInv /\ JournalInv /\ RecordedOnce

(* The domains and lengths of the sequences the actor keeps.               *)
LEMMA SeqDomains ==
  TypeOK => /\ DOMAIN queue = 1 .. Len(queue) /\ Len(queue) \in Nat
            /\ DOMAIN journal = 1 .. Len(journal) /\ Len(journal) \in Nat
            /\ DOMAIN events = 1 .. Len(events) /\ Len(events) \in Nat
            /\ DOMAIN state = 1 .. Len(state) /\ Len(state) \in Nat
<1>1. QED
  BY LenProperties DEF TypeOK, MailTypes, BatchTypes, StoreTypes

(* The exactly-once invariant holds at first.                              *)
LEMMA InitOnce == Init => OnceInv
<1>1. SUFFICES ASSUME Init PROVE OnceInv
  OBVIOUS
<1>2. QueueInv /\ EventsInv /\ JournalInv
  BY <1>1 DEF Init, QueueInv, EventsInv, JournalInv
<1>3. RecordedOnce
  BY <1>1 DEF Init, RecordedOnce
<1>4. QED
  BY <1>2, <1>3 DEF OnceInv

(* Steps that leave the queue, the batch and the journal alone.            *)
LEMMA OnceUnchanged ==
  ASSUME OnceInv, queue' = queue, events' = events, journal' = journal, sent' = sent,
         decided' = decided, phase' \in {"decide", "append"} => phase' = phase,
         phase # "commit", phase' # "commit"
  PROVE  OnceInv'
<1>1. QueueInv' /\ RecordedOnce'
  BY DEF OnceInv, QueueInv, RecordedOnce, Accepted
<1>2. EventsInv'
  BY DEF OnceInv, EventsInv
<1>3. JournalInv'
  BY DEF OnceInv, JournalInv, InFlight, Accepted
<1>4. QED
  BY <1>1, <1>2, <1>3 DEF OnceInv

(* Steps that drop the queue, between batches or not.                      *)
LEMMA OnceDropped ==
  ASSUME OnceInv, queue' = <<>>, journal' = journal, sent' = sent,
         phase' \notin {"decide", "append"}
  PROVE  OnceInv'
<1>1. Len(queue') = 0
  OBVIOUS
<1>2. QueueInv' /\ EventsInv'
  BY <1>1 DEF QueueInv, EventsInv
<1>3. JournalInv' /\ RecordedOnce'
  BY <1>1 DEF OnceInv, JournalInv, RecordedOnce, Accepted
<1>4. QED
  BY <1>2, <1>3 DEF OnceInv

(* A command sent is new to the queue and to the journal.                  *)
LEMMA SendOnce ==
  ASSUME TypeOK, DistinctScript, OnceInv, Send
  PROVE  OnceInv'
<1> DEFINE new == Script[sent + 1]
<1>1. /\ sent \in Nat /\ sent' = sent + 1 /\ sent + 1 \in 1 .. Len(Script)
      /\ DOMAIN Script = 1 .. Len(Script)
  BY EsAssumption, LenProperties DEF Send, TypeOK, MailTypes
<1>2. new \in Message /\ new \notin Accepted
  <2>1. new \in Message
    BY <1>1, EsAssumption, ElementOfSeq
  <2>2. ASSUME NEW k \in 1 .. sent PROVE Script[k] # new
    BY <1>1 DEF DistinctScript
  <2>3. QED
    BY <2>1, <2>2 DEF Accepted
<1>3. Accepted \subseteq Accepted' /\ new \in Accepted'
  BY <1>1 DEF Accepted
<1>4. /\ phase' = phase /\ events' = events /\ journal' = journal /\ first' = first
      /\ claimed' = claimed /\ decided' = decided
  BY DEF Send, stepVars, passVars, storeVars
<1>5. RecordedOnce'
  BY <1>4 DEF OnceInv, RecordedOnce
<1>6. CASE queue' = queue
  <2>1. QueueInv' /\ EventsInv' /\ JournalInv'
    BY <1>3, <1>4, <1>6 DEF OnceInv, QueueInv, EventsInv, JournalInv, InFlight
  <2>2. QED
    BY <1>5, <2>1 DEF OnceInv
<1>7. CASE queue' = Append(queue, new)
  <2>1. /\ Len(queue') = Len(queue) + 1
        /\ \A j \in 1 .. Len(queue) : queue'[j] = queue[j]
        /\ queue'[Len(queue) + 1] = new
        /\ Len(queue) \in Nat
    BY <1>2, <1>7, AppendProperties, LenProperties DEF TypeOK, MailTypes
  <2>2. \A j \in 1 .. Len(queue) : queue[j] \in Accepted /\ queue[j] # new
    BY <1>2 DEF OnceInv, QueueInv
  <2>3. QueueInv'
    BY <1>3, <2>1, <2>2 DEF OnceInv, QueueInv
  <2>4. EventsInv'
    BY <1>4, <2>1 DEF OnceInv, EventsInv, TypeOK, MailTypes
  <2>5. JournalInv'
    BY <1>2, <1>3, <1>4, <2>1 DEF OnceInv, JournalInv, InFlight
  <2>6. QED
    BY <1>5, <2>3, <2>4, <2>5 DEF OnceInv
<1>8. QED
  BY <1>6, <1>7 DEF Send

(* The facts a command decides are its own, numbered.                      *)
LEMMA DecisionFacts ==
  ASSUME NEW m \in Message, NEW basis \in Nat
  PROVE  LET d == Decision(m, basis)
         IN  /\ Len(d) \in Nat
             /\ \A k \in 1 .. Len(d) : d[k].cmd = m /\ d[k].nth = k
<1>1. Facts[m] \in Nat
  BY EsAssumption
<1>2. CASE m \in Unhandled
  BY <1>2 DEF Decision
<1>3. CASE m \notin Unhandled
  <2>1. Decision(m, basis)
          = [k \in 1 .. Facts[m] |-> [cmd |-> m, nth |-> k, basis |-> basis]]
    BY <1>3 DEF Decision
  <2>2. Len(Decision(m, basis)) = Facts[m]
    BY <1>1, <2>1
  <2>3. QED
    BY <1>1, <2>1, <2>2
<1>4. QED
  BY <1>2, <1>3

(* A decided command adds its own facts, once each, to the batch.          *)
LEMMA DecideOnce ==
  ASSUME TypeOK, OnceInv, Decide
  PROVE  OnceInv'
<1> DEFINE m == queue[decided + 1]
           more == Decision(m, Len(state))
<1>1. /\ decided \in Nat /\ decided + 1 \in 1 .. Len(queue)
      /\ m \in Message /\ Len(state) \in Nat
  BY SeqDomains, ElementOfSeq DEF Decide, TypeOK, MailTypes
<1>2. more \in Seq(Fact)
  BY <1>1, DecisionType
<1>3. /\ Len(more) \in Nat
      /\ \A k \in 1 .. Len(more) : more[k].cmd = m /\ more[k].nth = k
  BY <1>1, DecisionFacts
<1>4. /\ queue' = queue /\ journal' = journal /\ sent' = sent
      /\ phase = "decide" /\ phase' = "decide" /\ decided' = decided + 1
      /\ events' = events \o more
  BY DEF Decide, storeVars, envVars
<1>5. /\ Len(events') = Len(events) + Len(more) /\ Len(events) \in Nat
      /\ \A i \in 1 .. Len(events) : events'[i] = events[i]
      /\ \A i \in 1 .. Len(events) + Len(more) :
           i > Len(events) => events'[i] = more[i - Len(events)]
  BY <1>2, <1>3, <1>4, SeqDomains, ConcatProperties DEF TypeOK, BatchTypes
<1>6. ASSUME NEW i \in 1 .. Len(events'), i > Len(events)
      PROVE  events'[i].cmd = m /\ events'[i].nth = i - Len(events)
  BY <1>3, <1>5, <1>6
<1>7. ASSUME NEW i \in 1 .. Len(events)
      PROVE  \E k \in 1 .. decided : events'[i].cmd = queue[k]
  BY <1>4, <1>5 DEF OnceInv, EventsInv
<1>8. ASSUME NEW i \in 1 .. Len(events) PROVE events'[i].cmd # m
  <2>1. PICK k \in 1 .. decided : events'[i].cmd = queue[k]
    BY <1>7
  <2>2. k \in 1 .. Len(queue) /\ k # decided + 1
    BY <1>1
  <2>3. QED
    BY <1>1, <2>1, <2>2 DEF OnceInv, QueueInv
<1>9. \A i \in 1 .. Len(events') : \E k \in 1 .. decided' : events'[i].cmd = queue'[k]
  BY <1>1, <1>4, <1>5, <1>6, <1>7
<1>10. ASSUME NEW i \in 1 .. Len(events'), NEW j \in 1 .. Len(events'),
              events'[i].cmd = events'[j].cmd, events'[i].nth = events'[j].nth
       PROVE  i = j
  <2>1. CASE i > Len(events) /\ j > Len(events)
    BY <1>5, <1>6, <1>10, <2>1
  <2>2. CASE i <= Len(events) /\ j <= Len(events)
    BY <1>4, <1>5, <1>10, <2>2 DEF OnceInv, EventsInv
  <2>3. CASE i <= Len(events) /\ j > Len(events)
    BY <1>5, <1>6, <1>8, <1>10, <2>3
  <2>4. CASE i > Len(events) /\ j <= Len(events)
    BY <1>5, <1>6, <1>8, <1>10, <2>4
  <2>5. QED
    BY <1>5, <2>1, <2>2, <2>3, <2>4
<1>11. EventsInv'
  BY <1>9, <1>10 DEF EventsInv
<1>12. QueueInv' /\ JournalInv' /\ RecordedOnce'
  BY <1>4 DEF OnceInv, QueueInv, JournalInv, RecordedOnce, InFlight, Accepted
<1>13. QED
  BY <1>11, <1>12 DEF OnceInv

(* The batch recorded was nowhere in the journal.                          *)
LEMMA AppendOnce ==
  ASSUME TypeOK, OnceInv, AppendJournal
  PROVE  OnceInv'
<1>1. /\ queue' = queue /\ events' = events /\ sent' = sent /\ claimed' = claimed
      /\ phase = "append" /\ phase' = "commit" /\ first' = Len(journal)
  BY DEF AppendJournal, passVars, envVars
<1>2. /\ Len(journal') = Len(journal) + Len(events)
      /\ \A p \in 1 .. Len(journal) : journal'[p] = journal[p]
      /\ \A p \in 1 .. Len(journal) + Len(events) :
           p > Len(journal) => journal'[p] = events[p - Len(journal)]
  BY SeqDomains, ConcatProperties DEF AppendJournal, TypeOK, BatchTypes, StoreTypes
<1>3. ASSUME NEW i \in 1 .. Len(events)
      PROVE  \E k \in 1 .. claimed : k \in 1 .. Len(queue) /\ events[i].cmd = queue[k]
  <2>1. PICK k \in 1 .. decided : events[i].cmd = queue[k]
    BY <1>1 DEF OnceInv, EventsInv
  <2>2. k \in 1 .. claimed /\ k \in 1 .. Len(queue)
    BY SeqDomains DEF TypeOK, MailTypes
  <2>3. QED
    BY <2>1, <2>2
<1>4. \A p \in 1 .. Len(journal), j \in 1 .. Len(queue) : journal[p].cmd # queue[j]
  BY <1>1 DEF OnceInv, JournalInv, InFlight
<1>5. ASSUME NEW p \in 1 .. Len(journal'), p > Len(journal)
      PROVE  /\ p - Len(journal) \in 1 .. Len(events)
             /\ journal'[p] = events[p - Len(journal)]
  BY <1>2, <1>5, SeqDomains
<1>6. \A p \in 1 .. Len(journal') : journal'[p].cmd \in Accepted'
  <2>1. SUFFICES ASSUME NEW p \in 1 .. Len(journal') PROVE journal'[p].cmd \in Accepted
    BY <1>1 DEF Accepted
  <2>2. CASE p <= Len(journal)
    BY <1>2, <2>2, SeqDomains DEF OnceInv, JournalInv
  <2>3. CASE p > Len(journal)
    BY <1>3, <1>5, <2>3 DEF OnceInv, QueueInv
  <2>4. QED
    BY <2>2, <2>3, <1>2, SeqDomains
<1>7. ASSUME NEW p \in 1 .. Len(journal'), NEW j \in 1 .. Len(queue),
             journal'[p].cmd = queue[j]
      PROVE  InFlight(p, j)'
  <2>1. p > Len(journal)
    BY <1>2, <1>4, <1>7, SeqDomains
  <2>2. PICK k \in 1 .. claimed :
          k \in 1 .. Len(queue) /\ events[p - Len(journal)].cmd = queue[k]
    BY <1>3, <1>5, <2>1
  <2>3. j = k
    BY <1>5, <1>7, <2>1, <2>2 DEF OnceInv, QueueInv
  <2>4. events # <<>>
    BY <1>5, <2>1
  <2>5. QED
    BY <1>1, <2>1, <2>2, <2>3, <2>4 DEF InFlight, TypeOK, MailTypes
<1>8. JournalInv'
  BY <1>1, <1>6, <1>7 DEF JournalInv
<1>9. ASSUME NEW p \in 1 .. Len(journal'), NEW q \in 1 .. Len(journal'),
             journal'[p].cmd = journal'[q].cmd, journal'[p].nth = journal'[q].nth
      PROVE  p = q
  <2>1. ASSUME NEW a \in 1 .. Len(journal), NEW b \in 1 .. Len(journal'), b > Len(journal)
        PROVE  journal'[a].cmd # journal'[b].cmd
    <3>1. PICK e \in 1 .. Len(events) : journal'[b] = events[e]
      BY <1>5, <2>1
    <3>2. PICK k \in 1 .. Len(queue) : events[e].cmd = queue[k]
      BY <1>3
    <3>3. journal'[a] = journal[a] /\ journal[a].cmd # queue[k]
      BY <1>2, <1>4
    <3>4. QED
      BY <3>1, <3>2, <3>3
  <2>2. CASE p <= Len(journal) /\ q <= Len(journal)
    BY <1>2, <1>9, <2>2, SeqDomains DEF OnceInv, RecordedOnce
  <2>3. CASE p > Len(journal) /\ q > Len(journal)
    <3>1. PICK d, e \in 1 .. Len(events) :
            /\ d = p - Len(journal) /\ journal'[p] = events[d]
            /\ e = q - Len(journal) /\ journal'[q] = events[e]
      BY <1>5, <2>3
    <3>2. events[d].cmd = events[e].cmd /\ events[d].nth = events[e].nth
      BY <1>9, <3>1
    <3>3. phase \in {"decide", "append"}
      BY <1>1
    <3>4. d = e
      <4>1. EventsInv
        BY DEF OnceInv
      <4>2. QED
        BY <3>2, <3>3, <4>1 DEF EventsInv
    <3>5. QED
      BY <3>1, <3>4, SeqDomains
  <2>4. CASE p <= Len(journal) /\ q > Len(journal)
    BY <1>9, <2>1, <2>4, SeqDomains
  <2>5. CASE p > Len(journal) /\ q <= Len(journal)
    BY <1>9, <2>1, <2>5, SeqDomains
  <2>6. QED
    BY <1>2, <2>2, <2>3, <2>4, <2>5, SeqDomains
<1>10. DOMAIN journal' = 1 .. Len(journal')
  BY SeqDomains, ConcatProperties, LenProperties
  DEF AppendJournal, TypeOK, BatchTypes, StoreTypes
<1>11. RecordedOnce'
  BY <1>9, <1>10 DEF RecordedOnce
<1>12. QueueInv' /\ EventsInv'
  BY <1>1 DEF OnceInv, QueueInv, EventsInv, Accepted
<1>13. QED
  BY <1>8, <1>11, <1>12 DEF OnceInv

(* What is left after the commit has recorded nothing.                     *)
LEMMA CommitOnce ==
  ASSUME TypeOK, OnceInv, Commit
  PROVE  OnceInv'
<1>1. /\ queue' = SubSeq(queue, claimed + 1, Len(queue)) /\ phase' = "apply"
      /\ journal' = journal /\ sent' = sent
  BY DEF Commit, Committed, storeVars, envVars
<1>2. claimed \in 0 .. Len(queue) /\ Len(queue) \in Nat
  BY SeqDomains DEF TypeOK, MailTypes
<1>3. \A k \in claimed + 1 .. Len(queue) : queue[k] \in Message
  BY <1>2, ElementOfSeq DEF TypeOK, MailTypes
<1>4. /\ Len(queue') = Len(queue) - claimed
      /\ \A j \in 1 .. Len(queue') :
           queue'[j] = queue[claimed + j] /\ claimed + j \in 1 .. Len(queue)
  BY <1>1, <1>2, <1>3, SubSeqProperties
<1>5. QueueInv'
  <2>1. \A j \in 1 .. Len(queue') : queue'[j] \in Accepted'
    BY <1>1, <1>4 DEF OnceInv, QueueInv, Accepted
  <2>2. ASSUME NEW i \in 1 .. Len(queue'), NEW j \in 1 .. Len(queue'), queue'[i] = queue'[j]
        PROVE  i = j
    <3>1. claimed + i = claimed + j
      BY <1>4, <2>2 DEF OnceInv, QueueInv
    <3>2. QED
      BY <1>2, <3>1
  <2>3. QED
    BY <2>1, <2>2 DEF QueueInv
<1>6. JournalInv'
  <2>1. \A p \in 1 .. Len(journal') : journal'[p].cmd \in Accepted'
    BY <1>1 DEF OnceInv, JournalInv, Accepted
  <2>2. ASSUME NEW p \in 1 .. Len(journal'), NEW j \in 1 .. Len(queue'),
               journal'[p].cmd = queue'[j]
        PROVE  FALSE
    <3>1. claimed + j <= claimed
      BY <1>1, <1>4, <2>2 DEF OnceInv, JournalInv, InFlight
    <3>2. QED
      BY <1>2, <3>1
  <2>3. QED
    BY <2>1, <2>2 DEF JournalInv
<1>7. EventsInv' /\ RecordedOnce'
  BY <1>1 DEF OnceInv, EventsInv, RecordedOnce
<1>8. QED
  BY <1>5, <1>6, <1>7 DEF OnceInv

(* Every step keeps the exactly-once invariant.                            *)
LEMMA StepOnce ==
  ASSUME TypeOK, DistinctScript, OnceInv, [Next]_vars
  PROVE  OnceInv'
<1>1. CASE Send \/ Decide \/ AppendJournal \/ Commit
  BY <1>1, SendOnce, DecideOnce, AppendOnce, CommitOnce
<1>2. CASE Claim
  <2>1. /\ queue' = queue /\ journal' = journal /\ sent' = sent /\ events' = <<>>
        /\ phase = "step" /\ phase' = "decide"
    BY <1>2 DEF Claim, storeVars, envVars
  <2>2. QueueInv' /\ JournalInv' /\ RecordedOnce'
    BY <2>1 DEF OnceInv, QueueInv, JournalInv, RecordedOnce, InFlight, Accepted
  <2>3. EventsInv'
    BY <2>1 DEF EventsInv
  <2>4. QED
    BY <2>2, <2>3 DEF OnceInv
<1>3. CASE FilterEmits
  <2>1. /\ queue' = queue /\ journal' = journal /\ sent' = sent /\ events' = events
        /\ decided' = decided /\ phase = "decide" /\ phase' \in {"append", "commit"}
    BY <1>3 DEF FilterEmits, stepVars, passVars, storeVars, envVars
  <2>2. QueueInv' /\ JournalInv' /\ RecordedOnce'
    BY <2>1 DEF OnceInv, QueueInv, JournalInv, RecordedOnce, InFlight, Accepted
  <2>3. EventsInv'
    BY <2>1 DEF OnceInv, EventsInv
  <2>4. QED
    BY <2>2, <2>3 DEF OnceInv
<1>4. CASE Apply \/ FanOut \/ MaybeSnapshot
  BY <1>4, OnceUnchanged
  DEF Apply, FanOut, MaybeSnapshot, passVars, storeVars, envVars
<1>5. CASE SnapshotBoundary \/ SnapshotOnIdle
  BY <1>5, OnceUnchanged
  DEF SnapshotBoundary, SnapshotOnIdle, stepVars, passVars, envVars
<1>6. CASE Recover \/ Respawn \/ RestartFails \/ BootFails
  BY <1>6, OnceUnchanged
  DEF Recover, Boot, Restart, Respawn, RestartFails, BootFails, stepVars, passVars,
      storeVars, envVars
<1>7. CASE DecidePanics \/ AppendFails
  <2>1. /\ queue' = queue /\ journal' = journal /\ sent' = sent
        /\ phase \in {"decide", "append"} /\ phase' = "crashed"
    BY <1>7 DEF DecidePanics, AppendFails, storeVars
  <2>2. QueueInv' /\ JournalInv' /\ RecordedOnce' /\ EventsInv'
    BY <2>1 DEF OnceInv, QueueInv, JournalInv, RecordedOnce, EventsInv, InFlight, Accepted
  <2>3. QED
    BY <2>2 DEF OnceInv
<1>8. CASE Stop \/ Abort \/ Die
  BY <1>8, OnceDropped DEF Stop, Abort, StopWith, Die, storeVars, envVars
<1>9. CASE UNCHANGED vars
  BY <1>9 DEF vars, stepVars, passVars, storeVars, envVars, OnceInv, QueueInv, JournalInv,
              RecordedOnce, EventsInv, InFlight, Accepted
<1>10. QED
  BY <1>1, <1>2, <1>3, <1>4, <1>5, <1>6, <1>7, <1>8, <1>9
  DEF Next, Work, Recover, Disturb

(* A command's facts enter the journal once, however often a crash makes   *)
(* it redelivered: what is recorded has left the queue, or is a claim of   *)
(* the batch whose append has just landed.                                 *)
THEOREM RecordedExactlyOnce ==
  ASSUME DistinctScript
  PROVE  Spec => []RecordedOnce
<1>1. Init => TypeOK /\ OnceInv
  BY InitType, InitOnce
<1>2. TypeOK /\ OnceInv /\ [Next]_vars => (TypeOK /\ OnceInv)'
  BY DistinctScript, StepType, StepOnce
<1>3. OnceInv => RecordedOnce
  BY DEF OnceInv
<1>4. QED
  BY <1>1, <1>2, <1>3, PTL DEF Spec

(* Append before acknowledge before effect: whoever heard a fact never     *)
(* sees its command handled again.                                         *)
THEOREM EffectsAreFinal ==
  ASSUME DistinctScript
  PROVE  Spec => []ToldNeverRedelivers
<1> DEFINE Inv == TypeOK /\ OnceInv /\ TellInv
<1>1. Init => Inv
  BY InitType, InitOnce, InitTell
<1>2. Inv /\ [Next]_vars => Inv'
  BY DistinctScript, StepType, StepOnce, StepTell
<1>3. ASSUME Inv PROVE ToldNeverRedelivers
  <2>1. SUFFICES ASSUME NEW k \in DOMAIN told, NEW j \in DOMAIN queue,
                        told[k].fact.cmd = queue[j]
                 PROVE  FALSE
    BY DEF ToldNeverRedelivers
  <2>2. /\ told[k].seq \in Nat /\ told[k].seq < Len(journal)
        /\ journal[told[k].seq + 1] = told[k].fact
    BY <1>3, ToldTyped DEF TellInv, ToldAsRecorded
  <2>3. j \in 1 .. Len(queue) /\ told[k].seq + 1 \in 1 .. Len(journal)
    BY <1>3, <2>2, SeqDomains
  <2>4. InFlight(told[k].seq + 1, j)
    BY <1>3, <2>1, <2>2, <2>3 DEF OnceInv, JournalInv
  <2>5. told[k].seq < first
    BY <1>3, <2>4 DEF InFlight, TellInv, ToldBehind
  <2>6. QED
    BY <1>3, <2>2, <2>4, <2>5 DEF InFlight, TypeOK, BatchTypes
<1>4. QED
  BY <1>1, <1>2, <1>3, PTL DEF Spec

----------------------------------------------------------------------------
(* The actor is an event log.                                              *)

(* What the first claims have decided, claim by claim, all on one state.   *)
Chain(f, n, basis) ==
  f = [k \in 0 .. n |-> IF k = 0 THEN <<>> ELSE f[k - 1] \o Decision(queue[k], basis)]

(* The batch is what its claims decide on the live state, ...              *)
ChainInv ==
  /\ phase \in {"decide", "append"} =>
       /\ claimed >= 1
       /\ \E f : Chain(f, decided, Len(state)) /\ f[decided] = events
  /\ phase = "append" => decided = claimed

(* ... which is never ahead of the journal, not even after a boot that     *)
(* could not read the store; nor is a snapshot ahead of its anchor.        *)
LengthInv ==
  /\ Len(state) <= Len(journal)
  /\ phase \in {"commit", "apply"} => Len(state) + Len(events) <= Len(journal)
  /\ \A k \in DOMAIN snaps :
       snaps[k].seq < Len(journal) /\ Len(snaps[k].state) <= snaps[k].seq + 1

(* A claim's decision depends on the decisions before it and on nothing    *)
(* else: two chains over the same claims agree.                            *)
LEMMA ChainsAgree ==
  ASSUME NEW n \in Nat, NEW basis, NEW f, NEW g, Chain(f, n, basis), Chain(g, n, basis)
  PROVE  f[n] = g[n]
<1> DEFINE differ == {k \in 0 .. n : f[k] # g[k]}
<1>1. CASE differ = {}
  BY <1>1
<1>2. CASE differ # {}
  <2>1. PICK k \in differ : \A j \in differ : k <= j
    <3>1. differ \subseteq Nat
      OBVIOUS
    <3>2. QED
      BY <1>2, <3>1, LeastNatural
  <2>2. /\ f[k] = IF k = 0 THEN <<>> ELSE f[k - 1] \o Decision(queue[k], basis)
        /\ g[k] = IF k = 0 THEN <<>> ELSE g[k - 1] \o Decision(queue[k], basis)
    BY <2>1 DEF Chain
  <2>3. k # 0
    BY <2>1, <2>2
  <2>4. k - 1 \in 0 .. n /\ k - 1 \notin differ
    BY <2>1, <2>3
  <2>5. f[k] = g[k]
    BY <2>2, <2>3, <2>4
  <2>6. QED
    BY <2>1, <2>5
<1>3. QED
  BY <1>1, <1>2

(* So the batch is what the abstract log says its claims record.           *)
LEMMA BatchDecided ==
  ASSUME TypeOK, ChainInv, phase \in {"decide", "append"}
  PROVE  events = Log!Decisions(decided, Len(state))
<1> DEFINE n == decided
           basis == Len(state)
           P(f) == Chain(f, n, basis)
<1>1. PICK g : P(g) /\ g[n] = events
  BY DEF ChainInv
<1>2. Log!Decisions(n, basis) = (CHOOSE f : P(f))[n]
  BY DEF Log!Decisions, Chain
<1>3. P(CHOOSE f : P(f))
  <2> HIDE DEF P
  <2>1. QED
    BY <1>1
<1>4. n \in Nat
  BY SeqDomains DEF TypeOK, MailTypes
<1>5. (CHOOSE f : P(f))[n] = g[n]
  <2> HIDE DEF n, basis
  <2>1. QED
    BY <1>1, <1>3, <1>4, ChainsAgree
<1>6. QED
  BY <1>1, <1>2, <1>5

(* The decide pass extends the chain by a claim.                           *)
LEMMA StepChain ==
  ASSUME TypeOK, ChainInv, [Next]_vars
  PROVE  ChainInv'
<1>1. /\ claimed \in Nat /\ decided \in 0 .. claimed /\ claimed <= Len(queue)
      /\ Len(queue) \in Nat /\ Len(state) \in Nat
  BY SeqDomains DEF TypeOK, MailTypes
<1>2. ASSUME phase \in {"decide", "append"}, phase' \in {phase, "append"},
             \A k \in 1 .. claimed : queue'[k] = queue[k], state' = state, events' = events,
             claimed' = claimed, decided' = decided,
             phase' = "append" => decided = claimed
      PROVE  ChainInv'
  <2>1. PICK f : Chain(f, decided, Len(state)) /\ f[decided] = events
    BY <1>2 DEF ChainInv
  <2>2. \A k \in 0 .. decided : (IF k = 0 THEN <<>>
                                 ELSE f[k - 1] \o Decision(queue[k], Len(state)))
                              = (IF k = 0 THEN <<>>
                                 ELSE f[k - 1] \o Decision(queue'[k], Len(state)))
    BY <1>1, <1>2
  <2>3. f = [k \in 0 .. decided |->
               IF k = 0 THEN <<>> ELSE f[k - 1] \o Decision(queue'[k], Len(state))]
    BY <2>1, <2>2 DEF Chain
  <2>4. Chain(f, decided, Len(state))' /\ f[decided'] = events'
    BY <1>2, <2>1, <2>3 DEF Chain
  <2>5. claimed' >= 1
    BY <1>2 DEF ChainInv
  <2>6. QED
    BY <1>2, <2>4, <2>5 DEF ChainInv
<1>3. ASSUME phase' \notin {"decide", "append"}
      PROVE  ChainInv'
  BY <1>3 DEF ChainInv
<1>4. CASE Claim
  <2>1. /\ phase' = "decide" /\ decided' = 0 /\ events' = <<>> /\ claimed' = ClaimSize
        /\ queue # <<>> /\ state' = state
    BY <1>4 DEF Claim
  <2>2. claimed' >= 1
    <3>1. Len(queue) >= 1
      BY <2>1, EmptySeq DEF TypeOK, MailTypes
    <3>2. QED
      BY <2>1, <3>1, CellType DEF ClaimSize
  <2>3. Chain([k \in 0 .. 0 |-> <<>>], decided, Len(state))'
    BY <2>1 DEF Chain
  <2>4. [k \in 0 .. 0 |-> <<>>][decided'] = events'
    BY <2>1
  <2>5. QED
    BY <2>1, <2>2, <2>3, <2>4 DEF ChainInv
<1>5. CASE Decide
  <2> DEFINE d == Decision(queue[decided + 1], Len(state))
  <2>1. /\ phase = "decide" /\ phase' = phase /\ decided < claimed /\ claimed' = claimed
        /\ decided' = decided + 1 /\ events' = events \o d
        /\ queue' = queue /\ state' = state
    BY <1>5 DEF Decide
  <2>2. PICK f : Chain(f, decided, Len(state)) /\ f[decided] = events
    BY <2>1 DEF ChainInv
  <2>3. PICK g : g = [k \in 0 .. decided + 1 |-> IF k <= decided THEN f[k] ELSE events \o d]
    OBVIOUS
  <2>4. \A k \in 0 .. decided + 1 :
          g[k] = IF k = 0 THEN <<>> ELSE g[k - 1] \o Decision(queue[k], Len(state))
    <3>1. ASSUME NEW k \in 0 .. decided
          PROVE  g[k] = IF k = 0 THEN <<>> ELSE g[k - 1] \o Decision(queue[k], Len(state))
      <4>1. g[k] = f[k] /\ (k # 0 => g[k - 1] = f[k - 1])
        BY <1>1, <2>3, <3>1
      <4>2. f[k] = IF k = 0 THEN <<>> ELSE f[k - 1] \o Decision(queue[k], Len(state))
        BY <2>2, <3>1 DEF Chain
      <4>3. QED
        BY <4>1, <4>2
    <3>2. g[decided + 1] = events \o d /\ g[decided] = events
      BY <1>1, <2>2, <2>3
    <3>3. \A k \in 0 .. decided + 1 : k \in 0 .. decided \/ k = decided + 1
      BY <1>1
    <3>4. (decided + 1) - 1 = decided /\ decided + 1 # 0
      BY <1>1
    <3>5. g[decided + 1] = g[(decided + 1) - 1] \o d
      BY <3>2, <3>4
    <3>6. QED
      BY <3>1, <3>3, <3>4, <3>5
  <2>5. g = [k \in 0 .. decided + 1 |->
               IF k = 0 THEN <<>> ELSE g[k - 1] \o Decision(queue[k], Len(state))]
    BY <2>3, <2>4
  <2>6. g[decided + 1] = events'
    BY <1>1, <2>1, <2>3
  <2>7. Chain(g, decided, Len(state))'
    BY <2>1, <2>5 DEF Chain
  <2>8. claimed' >= 1
    BY <2>1 DEF ChainInv
  <2>9. QED
    <3>1. phase' = "decide" /\ g[decided'] = events'
      BY <2>1, <2>6
    <3>2. QED
      BY <2>7, <2>8, <3>1 DEF ChainInv
<1>6. CASE Send
  <2>1. /\ phase' = phase /\ state' = state /\ UNCHANGED stepVars
        /\ queue' = queue \/ queue' = Append(queue, Script[sent + 1])
    BY <1>6 DEF Send
  <2>2. \A k \in 1 .. claimed : queue'[k] = queue[k]
    <3>1. CASE queue' = queue
      BY <3>1
    <3>2. CASE queue' = Append(queue, Script[sent + 1])
      <4>1. Script[sent + 1] \in Message
        BY <1>6, EsAssumption, ElementOfSeq DEF Send, TypeOK, MailTypes
      <4>2. queue \in Seq(Message)
        BY DEF TypeOK, MailTypes
      <4>3. \A k \in 1 .. Len(queue) : queue'[k] = queue[k]
        BY <3>2, <4>1, <4>2, AppendProperties
      <4>4. QED
        BY <1>1, <4>3
    <3>3. QED
      BY <2>1, <3>1, <3>2
  <2>3. QED
    BY <1>2, <1>3, <2>1, <2>2 DEF stepVars, passVars, ChainInv
<1>7. CASE FilterEmits
  <2>1. /\ phase = "decide" /\ decided = claimed /\ phase' \in {"commit", "append"}
        /\ UNCHANGED <<stepVars, queue, state>>
    BY <1>7 DEF FilterEmits
  <2>2. QED
    BY <1>2, <1>3, <2>1 DEF stepVars, passVars
<1>8. CASE UNCHANGED vars
  <2>1. UNCHANGED <<phase, queue, state, stepVars>>
    BY <1>8 DEF vars
  <2>2. QED
    BY <1>2, <1>3, <2>1 DEF stepVars, passVars, ChainInv
<1>9. CASE ~(Claim \/ Decide \/ Send \/ FilterEmits \/ UNCHANGED vars)
  <2>1. phase' \notin {"decide", "append"}
    BY <1>9 DEF Next, Work, Recover, Disturb, DecidePanics, AppendJournal, AppendFails, Commit,
       Apply, FanOut, MaybeSnapshot, SnapshotBoundary, SnapshotOnIdle, Restart, RestartFails,
       Boot, BootFails, Stop, Abort, StopWith, Die, Respawn
  <2>2. QED
    BY <1>3, <2>1
<1>10. QED
  BY <1>4, <1>5, <1>6, <1>7, <1>8, <1>9

(* A recovery is not ahead of the journal it reads.                        *)
LEMMA ReplayLength ==
  ASSUME TypeOK, LengthInv
  PROVE  Len(Replay) \in Nat /\ Len(Replay) <= Len(journal)
<1>1. journal \in Seq(Fact) /\ Len(journal) \in Nat
  BY LenProperties DEF TypeOK, StoreTypes
<1>2. CASE snaps = <<>>
  BY <1>1, <1>2 DEF Replay
<1>3. CASE snaps # <<>>
  <2> DEFINE s == snaps[Len(snaps)]
             tail == SubSeq(journal, s.seq + 2, Len(journal))
  <2>1. Len(snaps) \in DOMAIN snaps
    BY <1>3, EmptySeq, LenProperties DEF TypeOK, StoreTypes
  <2>2. s.seq \in Nat /\ s.state \in Seq(Fact)
    BY <2>1, SnapshotTyped
  <2>3. s.seq < Len(journal) /\ Len(s.state) <= s.seq + 1 /\ Len(s.state) \in Nat
    BY <2>1, <2>2, LenProperties DEF LengthInv
  <2>4. tail \in Seq(Fact) /\ Len(tail) = Len(journal) - (s.seq + 1)
    <3>1. /\ s.seq + 2 \in Nat \ {0}
          /\ \A k \in s.seq + 2 .. Len(journal) : k \in 1 .. Len(journal)
      BY <1>1, <2>2
    <3>2. \A k \in s.seq + 2 .. Len(journal) : journal[k] \in Fact
      BY <1>1, <3>1, ElementOfSeq
    <3>3. /\ tail \in Seq(Fact)
          /\ Len(tail) = IF s.seq + 2 <= Len(journal)
                         THEN Len(journal) - (s.seq + 2) + 1 ELSE 0
      BY <1>1, <2>2, <3>1, <3>2, SubSeqProperties
    <3>4. QED
      BY <1>1, <2>2, <2>3, <3>3
  <2>5. Replay = s.state \o tail
    BY <1>3 DEF Replay
  <2>6. Len(Replay) = Len(s.state) + Len(tail)
    BY <2>2, <2>4, <2>5, ConcatProperties
  <2>7. QED
    BY <1>1, <2>2, <2>3, <2>4, <2>6
<1>4. QED
  BY <1>2, <1>3

(* Every step keeps the state, and every snapshot, behind the journal.     *)
LEMMA StepLength ==
  ASSUME TypeOK, RecoveryInv, LengthInv, [Next]_vars
  PROVE  LengthInv'
<1>1. /\ Len(journal) \in Nat /\ Len(events) \in Nat /\ Len(state) \in Nat
  BY SeqDomains
<1>2. ASSUME journal' = journal, snaps' = snaps, state' \in {state, <<>>},
             phase' \in {"commit", "apply"} =>
                /\ events' = events /\ state' = state
                /\ phase \in {"commit", "apply"} \/ events = <<>>
      PROVE  LengthInv'
  <2>1. Len(state') <= Len(journal')
    <3>1. CASE state' = state
      BY <1>2, <3>1 DEF LengthInv
    <3>2. CASE state' = <<>>
      BY <1>1, <1>2, <3>2
    <3>3. QED
      BY <1>2, <3>1, <3>2
  <2>2. phase' \in {"commit", "apply"} => Len(state') + Len(events') <= Len(journal')
    <3>1. SUFFICES ASSUME phase' \in {"commit", "apply"}
                   PROVE  Len(state) + Len(events) <= Len(journal)
      BY <1>2
    <3>2. CASE events = <<>>
      BY <1>1, <3>2 DEF LengthInv
    <3>3. CASE phase \in {"commit", "apply"}
      BY <3>3 DEF LengthInv
    <3>4. QED
      BY <1>2, <3>1, <3>2, <3>3
  <2>3. QED
    BY <1>2, <2>1, <2>2 DEF LengthInv
<1>3. CASE AppendJournal
  <2>1. /\ Len(journal') = Len(journal) + Len(events)
        /\ events' = events /\ state' = state /\ snaps' = snaps
    BY <1>3, ConcatProperties DEF AppendJournal, TypeOK, BatchTypes, StoreTypes
  <2>2. Len(state') <= Len(journal') /\ Len(state') + Len(events') <= Len(journal')
    BY <1>1, <2>1 DEF LengthInv
  <2>3. \A k \in DOMAIN snaps : snaps[k].seq \in Nat
    BY SnapshotTyped
  <2>4. \A k \in DOMAIN snaps' :
          snaps'[k].seq < Len(journal') /\ Len(snaps'[k].state) <= snaps'[k].seq + 1
    BY <1>1, <2>1, <2>3 DEF LengthInv
  <2>5. QED
    BY <2>2, <2>4 DEF LengthInv
<1>4. CASE Apply
  <2>1. /\ Len(state') = Len(state) + Len(events) /\ phase = "apply" /\ phase' = "fanout"
        /\ journal' = journal /\ snaps' = snaps
    BY <1>4, ConcatProperties DEF Apply, storeVars, TypeOK, BatchTypes, StoreTypes
  <2>2. QED
    BY <2>1 DEF LengthInv
<1>5. CASE Boot \/ Restart
  <2>1. /\ state' = Replay /\ journal' = journal /\ snaps' = snaps /\ phase' = "step"
    BY <1>5 DEF Boot, Restart, storeVars
  <2>2. QED
    BY <2>1, ReplayLength DEF LengthInv
<1>6. CASE SnapshotOnIdle
  <2>1. /\ lastSeq = Len(journal) /\ lastSeq # 0
    BY <1>6 DEF SnapshotOnIdle, RecoveryInv, LastSeqInv, Sentinel
  <2>2. /\ journal' = journal /\ state' = state /\ events' = events /\ phase' = "step"
        /\ snaps' = Append(snaps, Snapshot(lastSeq - 1))
    BY <1>6 DEF SnapshotOnIdle, stepVars
  <2>3. lastSeq - 1 \in Nat
    BY <1>1, <2>1
  <2>4. Snapshot(lastSeq - 1) \in [seq : Nat, state : Seq(Fact)]
    BY <2>3 DEF Snapshot, TypeOK, StoreTypes
  <2>5. PICK s : s = Snapshot(lastSeq - 1)
    OBVIOUS
  <2>6. s.seq < Len(journal) /\ Len(s.state) <= s.seq + 1
    BY <1>1, <2>1, <2>5 DEF Snapshot, LengthInv
  <2>7. snaps \in Seq([seq : Nat, state : Seq(Fact)])
    BY DEF TypeOK, StoreTypes
  <2>8. \A k \in DOMAIN snaps' : (k \in DOMAIN snaps /\ snaps'[k] = snaps[k]) \/ snaps'[k] = s
    <3>1. /\ DOMAIN snaps = 1 .. Len(snaps) /\ Len(snaps) \in Nat
          /\ DOMAIN snaps' = 1 .. Len(snaps) + 1 /\ snaps'[Len(snaps) + 1] = s
          /\ \A k \in DOMAIN snaps : snaps'[k] = snaps[k]
      BY <2>2, <2>4, <2>5, <2>7, AppendedIs
    <3>2. QED
      BY <3>1
  <2>9. \A k \in DOMAIN snaps' :
          snaps'[k].seq < Len(journal') /\ Len(snaps'[k].state) <= snaps'[k].seq + 1
    BY <2>2, <2>6, <2>8 DEF LengthInv
  <2>10. QED
    BY <2>2, <2>9 DEF LengthInv
<1>7. CASE Send \/ Claim \/ Decide \/ DecidePanics \/ AppendFails \/ Commit
  BY <1>2, <1>7 DEF Send, Claim, Decide, DecidePanics, AppendFails, Commit, stepVars,
     passVars, storeVars, envVars
<1>8. CASE FilterEmits \/ FanOut \/ MaybeSnapshot
  BY <1>2, <1>8 DEF FilterEmits, FanOut, MaybeSnapshot, stepVars, passVars, storeVars, envVars
<1>9. CASE RestartFails \/ BootFails \/ Respawn
  BY <1>2, <1>9 DEF RestartFails, BootFails, Respawn, stepVars, storeVars
<1>10. CASE Stop \/ Abort \/ Die
  BY <1>2, <1>10 DEF Stop, Abort, StopWith, Die, stepVars, storeVars
<1>11. CASE UNCHANGED vars
  BY <1>2, <1>11 DEF vars, stepVars, storeVars
<1>12. ~SnapshotBoundary
  BY DEF SnapshotBoundary, RecoveryInv
<1>13. QED
  BY <1>3, <1>4, <1>5, <1>6, <1>7, <1>8, <1>9, <1>10, <1>11, <1>12
  DEF Next, Work, Recover, Disturb

----------------------------------------------------------------------------
(* Every step is a step of the log or one that the log does not see.       *)

(* The variables of the log, as the actor has them.                        *)
Pending == IF phase = "commit" THEN Committed ELSE queue
Heard == [k \in DOMAIN told |-> told[k].seq + 1]

SimInv == TypeOK /\ RecoveryInv /\ TellInv /\ ChainInv /\ LengthInv

(* A commit leaves behind what was queued after the claims, the mail that  *)
(* arrived since the claim included.                                       *)
LEMMA CommittedAppend ==
  ASSUME TypeOK, NEW m \in Message
  PROVE  SubSeq(Append(queue, m), claimed + 1, Len(Append(queue, m)))
           = Append(Committed, m)
<1> DEFINE longer == Append(queue, m)
           rest == SubSeq(longer, claimed + 1, Len(longer))
           more == Append(Committed, m)
<1>1. /\ queue \in Seq(Message) /\ Len(queue) \in Nat
      /\ claimed \in Nat /\ claimed <= Len(queue)
  BY SeqDomains DEF TypeOK, MailTypes
<1>2. /\ longer \in Seq(Message) /\ Len(longer) = Len(queue) + 1
      /\ \A k \in 1 .. Len(queue) : longer[k] = queue[k]
      /\ longer[Len(queue) + 1] = m
  BY <1>1, AppendProperties
<1>3. /\ Committed \in Seq(Message) /\ Len(Committed) = Len(queue) - claimed
      /\ \A k \in 1 .. Len(queue) - claimed : Committed[k] = queue[claimed + k]
  <2>1. \A k \in claimed + 1 .. Len(queue) : queue[k] \in Message
    BY <1>1, ElementOfSeq
  <2>2. /\ Committed \in Seq(Message)
        /\ Len(Committed) = IF claimed + 1 <= Len(queue)
                            THEN Len(queue) - (claimed + 1) + 1 ELSE 0
        /\ \A k \in 1 .. Len(queue) - (claimed + 1) + 1 :
             Committed[k] = queue[claimed + 1 + k - 1]
    BY <1>1, <2>1, SubSeqProperties DEF Committed
  <2>3. QED
    BY <1>1, <2>2
<1>4. /\ rest \in Seq(Message) /\ Len(rest) = Len(queue) + 1 - claimed
      /\ \A k \in 1 .. Len(queue) + 1 - claimed : rest[k] = longer[claimed + k]
  <2> HIDE DEF longer
  <2>1. \A k \in claimed + 1 .. Len(longer) : longer[k] \in Message
    BY <1>1, <1>2, ElementOfSeq
  <2>2. /\ rest \in Seq(Message)
        /\ Len(rest) = IF claimed + 1 <= Len(longer)
                       THEN Len(longer) - (claimed + 1) + 1 ELSE 0
        /\ \A k \in 1 .. Len(longer) - (claimed + 1) + 1 :
             rest[k] = longer[claimed + 1 + k - 1]
    BY <1>1, <1>2, <2>1, SubSeqProperties
  <2>3. QED
    BY <1>1, <1>2, <2>2
<1>5. /\ more \in Seq(Message) /\ Len(more) = Len(queue) - claimed + 1
      /\ \A k \in 1 .. Len(queue) - claimed : more[k] = queue[claimed + k]
      /\ more[Len(queue) - claimed + 1] = m
  <2>1. /\ more \in Seq(Message) /\ Len(more) = Len(Committed) + 1
        /\ \A k \in 1 .. Len(Committed) : more[k] = Committed[k]
        /\ more[Len(Committed) + 1] = m
    BY <1>3, AppendProperties
  <2>2. QED
    BY <1>1, <1>3, <2>1
<1>6. rest = more
  <2> HIDE DEF longer, rest, more
  <2>1. Len(rest) = Len(more)
    BY <1>1, <1>4, <1>5
  <2>2. ASSUME NEW k \in 1 .. Len(rest) PROVE rest[k] = more[k]
    <3>1. rest[k] = longer[claimed + k] /\ claimed + k \in 1 .. Len(queue) + 1
      BY <1>1, <1>4, <2>2
    <3>2. CASE k = Len(queue) - claimed + 1
      BY <1>1, <1>2, <1>5, <3>1, <3>2
    <3>3. CASE k # Len(queue) - claimed + 1
      <4> DEFINE n == Len(queue)
      <4>1. k \in 1 .. n + 1 - claimed /\ n \in Nat /\ claimed \in Nat /\ k # n - claimed + 1
        BY <1>1, <1>4, <2>2, <3>3
      <4>2. k \in 1 .. n - claimed /\ claimed + k \in 1 .. n
        <5> HIDE DEF n
        <5>1. QED
          BY <4>1
      <4>3. QED
        BY <1>2, <1>5, <3>1, <4>2
    <3>4. QED
      BY <3>2, <3>3
  <2>3. QED
    BY <1>4, <1>5, <2>1, <2>2, SeqEqual
<1>7. QED
  BY <1>6

(* What the log does not see.                                              *)
LEMMA Stutters ==
  ASSUME journal' = journal, told' = told, Pending' = Pending
  PROVE  UNCHANGED Log!vars
<1>1. QED
  BY DEF Log!vars, Pending

(* Mail is accepted, also while a batch waits to be committed.             *)
LEMMA SendAccepts ==
  ASSUME SimInv, Send
  PROVE  [Log!Next]_Log!vars
<1> DEFINE m == Script[sent + 1]
<1>1. /\ journal' = journal /\ told' = told /\ phase' = phase /\ claimed' = claimed
  BY DEF Send, storeVars, stepVars, passVars
<1>2. CASE queue' = queue
  <2>1. Pending' = Pending
    BY <1>1, <1>2 DEF Pending, Committed
  <2>2. QED
    BY <1>1, <2>1, Stutters
<1>3. CASE queue' = Append(queue, m)
  <2>1. m \in Message
    BY EsAssumption, ElementOfSeq DEF Send, SimInv, TypeOK, MailTypes
  <2>2. Pending' = Append(Pending, m)
    <3>1. Committed' = Append(Committed, m)
      BY <1>1, <1>3, <2>1, CommittedAppend DEF SimInv, Committed
    <3>2. QED
      BY <1>1, <1>3, <3>1 DEF Pending
  <2>3. Log!Accept(m)
    BY <1>1, <2>2 DEF Log!Accept, Pending
  <2>4. QED
    BY <2>1, <2>3 DEF Log!Next
<1>4. QED
  BY <1>2, <1>3 DEF Send

(* A batch is handled when its facts reach the journal, or when its pass   *)
(* ends without any: all its claims, decided on the live state.            *)
LEMMA BatchHandled ==
  ASSUME SimInv, phase \in {"decide", "append"}, phase' = "commit", decided = claimed,
         journal' = journal \o events, queue' = queue, claimed' = claimed, told' = told
  PROVE  Log!Next
<1>1. /\ Len(queue) \in Nat /\ claimed \in 1 .. Len(queue)
      /\ Len(state) \in 0 .. Len(journal)
  BY SeqDomains DEF SimInv, TypeOK, MailTypes, ChainInv, LengthInv
<1>2. events = Log!Decisions(claimed, Len(state))
  BY BatchDecided DEF SimInv
<1>3. \E basis \in 0 .. Len(journal) : journal' = journal \o Log!Decisions(claimed, basis)
  BY <1>1, <1>2
<1>4. Pending = queue /\ Pending' = SubSeq(queue, claimed + 1, Len(queue))
  BY DEF Pending, Committed
<1>5. Log!Handle(claimed)
  BY <1>3, <1>4 DEF Log!Handle, Pending
<1>6. QED
  BY <1>1, <1>4, <1>5 DEF Log!Next, Pending

(* A broadcast copy tells the next position of the journal.                *)
LEMMA FanOutTells ==
  ASSUME SimInv, FanOut
  PROVE  Log!Next
<1> DEFINE copy == [fact |-> events[fanned + 1], seq |-> Stamp]
<1>0. PICK p : p = Stamp + 1
  OBVIOUS
<1>1. /\ fanned \in Nat /\ first \in Nat /\ fanned < Len(events) /\ Len(events) \in Nat
      /\ phase = "fanout" /\ phase' = "fanout" /\ queue' = queue /\ journal' = journal
      /\ told' = Append(told, copy)
  BY SeqDomains DEF SimInv, TypeOK, BatchTypes, FanOut, storeVars
<1>2. events # <<>>
  BY <1>1
<1>3. Len(journal) = first + Len(events)
  BY <1>1, <1>2 DEF SimInv, TellInv, BatchIsTail
<1>4. p \in 1 .. Len(journal)
  BY <1>0, <1>1, <1>3 DEF Stamp
<1>5. told \in Seq([fact : Fact, seq : Nat]) /\ copy \in [fact : Fact, seq : Nat]
  <2>1. fanned + 1 \in 1 .. Len(events)
    BY <1>1
  <2>2. events[fanned + 1] \in Fact
    BY <2>1, ElementOfSeq DEF SimInv, TypeOK, BatchTypes
  <2>3. QED
    BY <1>1, <2>2 DEF Stamp, SimInv, TypeOK, BatchTypes
<1>6. /\ DOMAIN told = 1 .. Len(told) /\ Len(told) \in Nat
      /\ DOMAIN told' = 1 .. Len(told) + 1 /\ told'[Len(told) + 1] = copy
      /\ \A k \in DOMAIN told : told'[k] = told[k]
  BY <1>1, <1>5, AppendedIs
<1>7. Heard \in Seq(Nat) /\ DOMAIN Heard = DOMAIN told /\ Len(Heard) = Len(told)
  <2>1. \A k \in DOMAIN told : told[k].seq + 1 \in Nat
    BY ToldTyped DEF SimInv
  <2>2. Heard \in [1 .. Len(told) -> Nat]
    BY <1>6, <2>1 DEF Heard
  <2>3. QED
    BY <1>6, <2>2, FunctionIsSeq
<1>8. p \in Nat
  BY <1>0, <1>1 DEF Stamp
<1>9. Heard' = Append(Heard, p)
  <2> DEFINE longer == Append(Heard, p)
  <2>1. /\ longer \in Seq(Nat) /\ DOMAIN longer = 1 .. Len(told) + 1
        /\ \A k \in DOMAIN told : longer[k] = Heard[k]
        /\ longer[Len(told) + 1] = p
    <3>1. \A t : t = longer =>
             /\ t \in Seq(Nat) /\ DOMAIN t = 1 .. Len(Heard) + 1
             /\ \A k \in DOMAIN Heard : t[k] = Heard[k]
             /\ t[Len(Heard) + 1] = p
      BY <1>7, <1>8, AppendedIs
    <3>2. QED
      BY <1>7, <3>1
  <2> HIDE DEF longer
  <2>2. \A k \in 1 .. Len(told) + 1 : told'[k].seq + 1 = longer[k]
    <3>1. \A k \in 1 .. Len(told) : told'[k].seq + 1 = longer[k]
      BY <1>6, <2>1 DEF Heard
    <3>2. told'[Len(told) + 1].seq + 1 = longer[Len(told) + 1]
      BY <1>0, <1>6, <2>1
    <3>3. QED
      BY <1>6, <3>1, <3>2
  <2>3. longer = [k \in 1 .. Len(told) + 1 |-> longer[k]]
    BY <2>1
  <2>4. Heard' = [k \in 1 .. Len(told) + 1 |-> told'[k].seq + 1]
    BY <1>6 DEF Heard
  <2>5. Heard' = longer
    BY <2>2, <2>3, <2>4
  <2>6. QED
    BY <2>5 DEF longer
<1>10. \A k \in DOMAIN Heard : Heard[k] < p
  <2>1. \A k \in DOMAIN told : told[k].seq \in Nat /\ told[k].seq < first + fanned
    BY <1>1, <1>2, ToldTyped DEF SimInv, TellInv, ToldBehind
  <2>2. QED
    BY <1>0, <1>1, <1>7, <2>1 DEF Heard, Stamp
<1>11. Log!Tell(p)
  BY <1>1, <1>9, <1>10 DEF Log!Tell, Heard
<1>12. QED
  BY <1>4, <1>11 DEF Log!Next

(* The refinement, step by step.                                           *)
LEMMA StepSimulates ==
  ASSUME SimInv, [Next]_vars
  PROVE  [Log!Next]_Log!vars
<1>1. CASE Send
  BY <1>1, SendAccepts
<1>2. CASE FanOut
  BY <1>2, FanOutTells
<1>3. CASE AppendJournal
  <2>1. /\ phase = "append" /\ phase' = "commit" /\ journal' = journal \o events
        /\ queue' = queue /\ claimed' = claimed /\ told' = told
    BY <1>3 DEF AppendJournal, passVars
  <2>2. decided = claimed
    BY <2>1 DEF SimInv, ChainInv
  <2>3. QED
    BY <2>1, <2>2, BatchHandled
<1>4. CASE FilterEmits
  <2>1. /\ phase = "decide" /\ decided = claimed /\ journal' = journal
        /\ queue' = queue /\ claimed' = claimed /\ told' = told
        /\ phase' = IF events = <<>> THEN "commit" ELSE "append"
    BY <1>4 DEF FilterEmits, stepVars, passVars, storeVars
  <2>2. CASE events = <<>>
    <3>1. journal' = journal \o events
      BY <2>1, <2>2, ConcatEmptySeq DEF SimInv, TypeOK, StoreTypes
    <3>2. QED
      BY <2>1, <2>2, <3>1, BatchHandled
  <2>3. CASE events # <<>>
    BY <2>1, <2>3, Stutters DEF Pending
  <2>4. QED
    BY <2>2, <2>3
<1>5. CASE Commit
  BY <1>5, Stutters DEF Commit, Pending, storeVars
<1>6. CASE Stop \/ Abort \/ Die
  <2>1. journal' = journal /\ told' = told /\ queue' = <<>> /\ phase' = "stopped"
    BY <1>6 DEF Stop, Abort, StopWith, Die, storeVars
  <2>2. Log!Drop
    BY <2>1 DEF Log!Drop
  <2>3. QED
    BY <2>2 DEF Log!Next
<1>7. CASE Claim \/ Decide \/ DecidePanics \/ AppendFails \/ Apply \/ MaybeSnapshot
  BY <1>7, Stutters DEF Claim, Decide, DecidePanics, AppendFails, Apply, MaybeSnapshot,
     Pending, stepVars, passVars, storeVars, envVars
<1>8. CASE SnapshotBoundary \/ SnapshotOnIdle \/ Recover \/ RestartFails \/ BootFails \/ Respawn
  BY <1>8, Stutters DEF SnapshotBoundary, SnapshotOnIdle, Recover, Boot, Restart, RestartFails,
     BootFails, Respawn, Pending, stepVars, passVars, storeVars, envVars
<1>9. CASE UNCHANGED vars
  BY <1>9, Stutters DEF vars, stepVars, passVars, storeVars, Pending, Committed
<1>10. QED
  BY <1>1, <1>2, <1>3, <1>4, <1>5, <1>6, <1>7, <1>8, <1>9 DEF Next, Work, Disturb

(* The actor implements the log of facts: the append, or a pass without    *)
(* facts, is where a batch is handled, all of it on one prefix of the log; *)
(* crashes, restarts, replays and snapshots are invisible; a fact is told  *)
(* once, in order, after it is recorded.                                   *)
THEOREM ActorIsAnEventLog ==
  ASSUME NoCountCadence
  PROVE  Spec => ImplementsEventLog
<1>1. ASSUME Init PROVE SimInv /\ Log!Init
  <2>1. TypeOK /\ RecoveryInv /\ TellInv
    BY <1>1, InitType, InitRecovery, InitTell
  <2>2. ChainInv /\ LengthInv
    BY <1>1 DEF Init, ChainInv, LengthInv
  <2>3. Log!Init
    <3>1. queue = <<>> /\ journal = <<>> /\ told = <<>> /\ phase = "boot"
      BY <1>1 DEF Init
    <3>2. [k \in DOMAIN told |-> told[k].seq + 1] = <<>>
      BY <3>1
    <3>3. QED
      BY <3>1, <3>2 DEF Log!Init
  <2>4. QED
    BY <2>1, <2>2, <2>3 DEF SimInv
<1>2. SimInv /\ [Next]_vars => SimInv'
  BY NoCountCadence, StepType, StepRecovery, StepTell, StepChain, StepLength DEF SimInv
<1>3. SimInv /\ [Next]_vars => [Log!Next]_Log!vars
  BY StepSimulates
<1>4. QED
  BY <1>1, <1>2, <1>3, PTL DEF Spec, ImplementsEventLog, Log!Spec
=============================================================================
