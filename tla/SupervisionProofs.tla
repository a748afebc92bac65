------------------------- MODULE SupervisionProofs -------------------------
(***************************************************************************)
(* Proofs about Supervision, for every spec of the child, every set of     *)
(* faults and every bound.                                                 *)
(***************************************************************************)
EXTENDS Supervision, Integers, WellFoundedInduction, FiniteSetTheorems, SequenceTheorems,
        TLAPS

----------------------------------------------------------------------------
(* Sets of naturals: the library's theorems on induction take an operator, *)
(* these take a set.                                                       *)

(* The order of the naturals as a relation.                                *)
Below == {p \in Nat \X Nat : p[1] < p[2]}

LEMMA BelowWellFounded == IsWellFoundedOn(Below, Nat)
<1>1. OpToRel(<, Nat) = Below
  BY DEF OpToRel, Below
<1>2. QED
  BY <1>1, NatLessThanWellFounded

(* A set of naturals that is not empty has a least element.                *)
LEMMA LeastNatural ==
  ASSUME NEW S, S \subseteq Nat, S # {}
  PROVE  \E n \in S : \A m \in S : n <= m
<1>1. PICK n \in S : \A m \in S : ~ (<<m, n>> \in Below)
  BY BelowWellFounded, WFMin
<1>2. \A m \in Nat : m < n => <<m, n>> \in Below
  BY DEF Below
<1>3. \A m \in S : ~ (m < n)
  BY <1>1, <1>2
<1>4. \A m \in S : n <= m
  BY <1>3
<1>5. QED
  BY <1>4

(* A set of naturals whose elements are less than size apart has at most   *)
(* size of them.                                                           *)
LEMMA NarrowSet ==
  ASSUME NEW bound \in Nat, NEW S, S \subseteq 0 .. bound, NEW size \in Nat,
         \A i, j \in S : i <= j => j - i < size
  PROVE  Cardinality(S) <= size
<1>1. CASE S = {}
  BY <1>1, FS_EmptySet
<1>2. CASE S # {}
  <2>1. PICK low \in S : \A m \in S : low <= m
    <3>1. S \subseteq Nat
      OBVIOUS
    <3>2. QED
      BY <1>2, <3>1, LeastNatural
  <2>2. S \subseteq low .. low + size - 1
    BY <2>1
  <2>3. /\ IsFiniteSet(low .. low + size - 1)
        /\ Cardinality(low .. low + size - 1) = size
    <3>1. low - low < size
      BY <2>1
    <3>2. low \in Int /\ low + size - 1 \in Int /\ ~(low > low + size - 1)
      BY <3>1
    <3>3. QED
      BY <3>2, FS_Interval
  <2>4. QED
    BY <2>2, <2>3, FS_Subset
<1>3. QED
  BY <1>1, <1>2

----------------------------------------------------------------------------
(* Sequences, as functions on an interval.                                 *)

(* A sequence is a function on an interval.                                *)
LEMMA SeqIsFunction ==
  ASSUME NEW S, NEW s \in Seq(S)
  PROVE  /\ Len(s) \in Nat /\ DOMAIN s = 1 .. Len(s)
         /\ s \in [1 .. Len(s) -> S]
         /\ \A k \in DOMAIN s : s[k] \in S
<1>1. Len(s) \in Nat /\ DOMAIN s = 1 .. Len(s) /\ s \in [1 .. Len(s) -> S]
  BY LenProperties
<1>2. QED
  BY <1>1

LEMMA FunctionIsSeq ==
  ASSUME NEW S, NEW n \in Nat, NEW s \in [1 .. n -> S]
  PROVE  s \in Seq(S) /\ Len(s) = n /\ DOMAIN s = 1 .. n
<1>1. s \in Seq(S)
  BY SeqDef
<1>2. DOMAIN s = 1 .. n /\ Len(s) \in Nat /\ DOMAIN s = 1 .. Len(s)
  BY <1>1, LenProperties
<1>3. QED
  BY <1>1, <1>2

(* What is appended comes last and nothing before it changes.              *)
LEMMA AppendedIs ==
  ASSUME NEW S, NEW s \in Seq(S), NEW e \in S, NEW t, t = Append(s, e)
  PROVE  /\ t \in Seq(S) /\ Len(t) = Len(s) + 1
         /\ Len(s) \in Nat /\ DOMAIN s = 1 .. Len(s) /\ DOMAIN t = 1 .. Len(s) + 1
         /\ \A k \in DOMAIN s : t[k] = s[k]
         /\ t[Len(s) + 1] = e
<1>1. t \in Seq(S) /\ Len(t) = Len(s) + 1 /\ t[Len(s) + 1] = e
  BY AppendProperties
<1>2. \A k \in 1 .. Len(s) : t[k] = s[k]
  BY AppendProperties
<1>3. Len(s) \in Nat /\ DOMAIN s = 1 .. Len(s) /\ DOMAIN t = 1 .. Len(t)
  BY <1>1, LenProperties
<1>4. QED
  BY <1>1, <1>2, <1>3

----------------------------------------------------------------------------
(* Type correctness.                                                       *)

Kids(cs, ls) == cs \in Seq(CellRecord(ls)) /\ ls \in Seq(LoopRecord(cs))

(* A cell may change in place.                                             *)
LEMMA CellChange ==
  ASSUME NEW cs, NEW ls, Kids(cs, ls), NEW c \in DOMAIN cs, NEW r \in CellRecord(ls)
  PROVE  LET t == [cs EXCEPT ![c] = r]
         IN  Kids(t, ls) /\ DOMAIN t = DOMAIN cs /\ t[c] = r
<1> DEFINE t == [cs EXCEPT ![c] = r]
<1>1. cs \in Seq(CellRecord(ls)) /\ ls \in Seq(LoopRecord(cs))
  BY DEF Kids
<1>2. Len(cs) \in Nat /\ DOMAIN cs = 1 .. Len(cs) /\ cs \in [1 .. Len(cs) -> CellRecord(ls)]
  BY <1>1, SeqIsFunction
<1>3. t \in [1 .. Len(cs) -> CellRecord(ls)] /\ t[c] = r
  BY <1>2
<1>4. t \in Seq(CellRecord(ls)) /\ DOMAIN t = DOMAIN cs
  BY <1>2, <1>3, FunctionIsSeq
<1>5. LoopRecord(t) = LoopRecord(cs)
  BY <1>4 DEF LoopRecord
<1>6. QED
  BY <1>1, <1>3, <1>4, <1>5 DEF Kids

(* So may a loop.                                                          *)
LEMMA LoopChange ==
  ASSUME NEW cs, NEW ls, Kids(cs, ls), NEW l \in DOMAIN ls, NEW r \in LoopRecord(cs)
  PROVE  LET t == [ls EXCEPT ![l] = r]
         IN  Kids(cs, t) /\ DOMAIN t = DOMAIN ls /\ t[l] = r
<1> DEFINE t == [ls EXCEPT ![l] = r]
<1>1. cs \in Seq(CellRecord(ls)) /\ ls \in Seq(LoopRecord(cs))
  BY DEF Kids
<1>2. Len(ls) \in Nat /\ DOMAIN ls = 1 .. Len(ls) /\ ls \in [1 .. Len(ls) -> LoopRecord(cs)]
  BY <1>1, SeqIsFunction
<1>3. t \in [1 .. Len(ls) -> LoopRecord(cs)] /\ t[l] = r
  BY <1>2
<1>4. t \in Seq(LoopRecord(cs)) /\ DOMAIN t = DOMAIN ls
  BY <1>2, <1>3, FunctionIsSeq
<1>5. CellRecord(t) = CellRecord(ls)
  BY <1>4 DEF CellRecord
<1>6. QED
  BY <1>1, <1>3, <1>4, <1>5 DEF Kids

(* A fresh loop may come on a cell there is.                               *)
LEMMA LoopAppend ==
  ASSUME NEW cs, NEW ls, Kids(cs, ls), NEW r \in LoopRecord(cs)
  PROVE  LET t == Append(ls, r)
         IN  /\ Kids(cs, t) /\ Len(t) = Len(ls) + 1
             /\ Len(ls) \in Nat /\ DOMAIN ls = 1 .. Len(ls) /\ DOMAIN t = 1 .. Len(ls) + 1
             /\ \A k \in DOMAIN ls : t[k] = ls[k]
             /\ t[Len(ls) + 1] = r
<1> DEFINE t == Append(ls, r)
<1>1. cs \in Seq(CellRecord(ls)) /\ ls \in Seq(LoopRecord(cs))
  BY DEF Kids
<1>2. /\ t \in Seq(LoopRecord(cs)) /\ Len(t) = Len(ls) + 1
      /\ Len(ls) \in Nat /\ DOMAIN ls = 1 .. Len(ls) /\ DOMAIN t = 1 .. Len(ls) + 1
      /\ \A k \in DOMAIN ls : t[k] = ls[k]
      /\ t[Len(ls) + 1] = r
  <2>1. ls \in Seq(LoopRecord(cs)) /\ t = Append(ls, r)
    BY <1>1
  <2>2. QED
    BY <2>1, AppendedIs
<1>3. CellRecord(ls) \subseteq CellRecord(t)
  <2>1. DOMAIN ls \subseteq DOMAIN t
    BY <1>2
  <2>2. QED
    BY <2>1 DEF CellRecord
<1>4. cs \in Seq(CellRecord(t))
  <2>1. Len(cs) \in Nat /\ cs \in [1 .. Len(cs) -> CellRecord(ls)]
    BY <1>1, SeqIsFunction
  <2>2. cs \in [1 .. Len(cs) -> CellRecord(t)]
    BY <1>3, <2>1
  <2>3. QED
    BY <2>1, <2>2, FunctionIsSeq
<1>5. QED
  BY <1>2, <1>4 DEF Kids

(* What the fields of a cell and of a loop hold.                           *)
LEMMA Fields ==
  ASSUME KidTypes
  PROVE  /\ Kids(cells, loops)
         /\ \A c \in Cells : cells[c] \in CellRecord(loops)
         /\ \A l \in Loops : loops[l] \in LoopRecord(cells)
         /\ \A l \in Loops : loops[l].cell \in Cells
         /\ Len(cells) \in Nat /\ Cells = 1 .. Len(cells)
         /\ Len(loops) \in Nat /\ Loops = 1 .. Len(loops)
<1>1. cells \in Seq(CellRecord(loops)) /\ loops \in Seq(LoopRecord(cells))
  BY DEF KidTypes
<1>2. /\ \A c \in Cells : cells[c] \in CellRecord(loops)
      /\ \A l \in Loops : loops[l] \in LoopRecord(cells)
      /\ Len(cells) \in Nat /\ Cells = 1 .. Len(cells)
      /\ Len(loops) \in Nat /\ Loops = 1 .. Len(loops)
  BY <1>1, SeqIsFunction DEF Cells, Loops
<1>3. \A l \in Loops : loops[l].cell \in Cells
  BY <1>2 DEF LoopRecord, Cells
<1>4. QED
  BY <1>1, <1>2, <1>3 DEF Kids

(* A handle that is stored changes nothing else of the cell.               *)
LEMMA HandleTypes ==
  ASSUME KidTypes, TableTypes, NEW l \in Loops
  PROVE  /\ Kids(HandleStored(l), loops) /\ DOMAIN HandleStored(l) = Cells
         /\ \A c \in Cells :
              HandleStored(l)[c] = [cells[c] EXCEPT !.handle = HandleStored(l)[c].handle]
<1>1. CASE IsEs \/ live = 0
  <2>1. HandleStored(l) = cells
    BY <1>1 DEF HandleStored
  <2>2. \A c \in Cells : cells[c] = [cells[c] EXCEPT !.handle = cells[c].handle]
    BY Fields DEF CellRecord
  <2>3. QED
    BY <2>1, <2>2, Fields DEF Cells
<1>2. CASE ~IsEs /\ live # 0
  <2> DEFINE r == [cells[live] EXCEPT !.handle = l]
  <2>1. live \in Cells /\ HandleStored(l) = [cells EXCEPT ![live] = r]
    BY <1>2 DEF HandleStored, TableTypes
  <2>2. r \in CellRecord(loops)
    BY <2>1, Fields DEF CellRecord, Loops
  <2>3. /\ Kids(HandleStored(l), loops) /\ DOMAIN HandleStored(l) = Cells
        /\ HandleStored(l)[live] = r
    <3> HIDE DEF r
    <3>1. Kids(cells, loops) /\ live \in DOMAIN cells
      BY <2>1, Fields DEF Cells
    <3> DEFINE t == [cells EXCEPT ![live] = r]
    <3>2. Kids(t, loops) /\ DOMAIN t = DOMAIN cells /\ t[live] = r
      BY <2>2, <3>1, CellChange
    <3>3. QED
      BY <2>1, <3>2 DEF Cells
  <2>4. ASSUME NEW c \in Cells, c # live
        PROVE  HandleStored(l)[c] = [cells[c] EXCEPT !.handle = HandleStored(l)[c].handle]
    <3>1. HandleStored(l)[c] = cells[c]
      BY <2>1, <2>4 DEF Cells
    <3>2. cells[c] = [cells[c] EXCEPT !.handle = cells[c].handle]
      BY Fields DEF CellRecord
    <3>3. QED
      BY <3>1, <3>2
  <2>5. HandleStored(l)[live] = [cells[live] EXCEPT !.handle = HandleStored(l)[live].handle]
    BY <2>1, <2>2, <2>3 DEF CellRecord
  <2>6. QED
    BY <2>3, <2>4, <2>5
<1>3. QED
  BY <1>1, <1>2

(* A mail that is not empty has an oldest message.                         *)
LEMMA OldestTypes ==
  ASSUME NEW mail, mail \subseteq Mail, mail # {}
  PROVE  Oldest(mail) \in mail /\ Oldest(mail) \in Mail
<1>1. mail \subseteq Nat
  BY SupervisionAssumption DEF Mail
<1>2. \E m \in mail : \A k \in mail : m <= k
  BY <1>1, LeastNatural
<1>3. QED
  BY <1>2 DEF Oldest

(* A spawn adds a cell and a loop, each of which names the other.          *)
LEMMA SpawnKids ==
  ASSUME KidTypes, SpawnChild
  PROVE  /\ KidTypes' /\ Cells \subseteq Cells' /\ Loops \subseteq Loops'
         /\ Cells' = 1 .. Len(cells) + 1 /\ Loops' = 1 .. Len(loops) + 1
         /\ \A c \in Cells : cells'[c] = cells[c]
         /\ \A l \in Loops : loops'[l] = loops[l]
         /\ cells'[Len(cells) + 1] = NewCell(IF IsEs THEN Len(loops) + 1 ELSE 0)
         /\ loops'[Len(loops) + 1] = NewLoop(Len(cells) + 1)
<1> DEFINE h == IF IsEs THEN Len(loops) + 1 ELSE 0
           Cell == [crashed : BOOLEAN, stopping : BOOLEAN,
                    handle : {0} \cup (1 .. Len(loops) + 1), mail : SUBSET Mail]
           Loop == [cell : 1 .. Len(cells) + 1, at : Working \cup {"ended"},
                    hand : SUBSET Mail, told : BOOLEAN]
           cell == NewCell(h)
           loop == NewLoop(Len(cells) + 1)
<1>1. cells' = Append(cells, cell) /\ loops' = Append(loops, loop)
  BY DEF SpawnChild
<1>2. cells \in Seq(CellRecord(loops)) /\ loops \in Seq(LoopRecord(cells))
  BY DEF KidTypes
<1>3. /\ Len(cells) \in Nat /\ DOMAIN cells = 1 .. Len(cells)
      /\ Len(loops) \in Nat /\ DOMAIN loops = 1 .. Len(loops)
      /\ cells \in [1 .. Len(cells) -> CellRecord(loops)]
      /\ loops \in [1 .. Len(loops) -> LoopRecord(cells)]
  BY <1>2, SeqIsFunction
<1>4. CellRecord(loops) \subseteq Cell /\ LoopRecord(cells) \subseteq Loop
  BY <1>3 DEF CellRecord, LoopRecord
<1>5. cell \in Cell /\ loop \in Loop
  BY <1>3 DEF NewCell, NewLoop, Working
<1> HIDE DEF Cell, Loop, cell, loop
<1>6. cells \in Seq(Cell) /\ loops \in Seq(Loop)
  <2>1. cells \in [1 .. Len(cells) -> Cell] /\ loops \in [1 .. Len(loops) -> Loop]
    BY <1>3, <1>4
  <2>2. QED
    BY <1>3, <2>1, FunctionIsSeq
<1>7. /\ cells' \in Seq(Cell) /\ DOMAIN cells' = 1 .. Len(cells) + 1
      /\ \A k \in DOMAIN cells : cells'[k] = cells[k]
      /\ cells'[Len(cells) + 1] = cell
  BY <1>1, <1>5, <1>6, AppendedIs
<1>8. /\ loops' \in Seq(Loop) /\ DOMAIN loops' = 1 .. Len(loops) + 1
      /\ \A k \in DOMAIN loops : loops'[k] = loops[k]
      /\ loops'[Len(loops) + 1] = loop
  BY <1>1, <1>5, <1>6, AppendedIs
<1>9. CellRecord(loops') = Cell /\ LoopRecord(cells') = Loop
  BY <1>7, <1>8 DEF CellRecord, LoopRecord, Cell, Loop
<1>10. KidTypes'
  BY <1>7, <1>8, <1>9 DEF KidTypes
<1>11. QED
  BY <1>3, <1>7, <1>8, <1>10 DEF Cells, Loops, cell, loop

(* Every step leaves cells and loops of their types, and none goes.        *)
LEMMA StepKids ==
  ASSUME TypeOK, [Next]_vars
  PROVE  KidTypes' /\ Cells \subseteq Cells' /\ Loops \subseteq Loops'
<1> DEFINE Goal == Kids(cells', loops') /\ Cells \subseteq DOMAIN cells'
                   /\ Loops \subseteq DOMAIN loops'
<1> USE Fields DEF TypeOK, Cells, Loops
<1>0. CASE UNCHANGED kids
  <2>1. cells' = cells /\ loops' = loops
    BY <1>0 DEF kids
  <2>2. Goal
    BY <2>1
  <2>3. QED
    BY <2>2 DEF Kids, KidTypes
<1>1. CASE Send
  <2>1. CASE slot = 0
    <3>1. UNCHANGED kids
      BY <1>1, <2>1 DEF Send, kids
    <3>2. QED
      BY <3>1, <1>0
  <2>2. CASE slot # 0
    <3> DEFINE r == [cells[slot] EXCEPT !.mail = @ \cup {sent + 1}]
    <3>1. slot \in Cells /\ loops' = loops /\ cells' = [cells EXCEPT ![slot] = r]
      BY <1>1, <2>2 DEF Send, TableTypes
    <3>2. sent + 1 \in Mail
      BY <1>1, SupervisionAssumption DEF Send, BookTypes, Mail
    <3>3. r \in CellRecord(loops)
      BY <3>1, <3>2 DEF CellRecord
    <3>4. Goal
      <4> HIDE DEF r
      <4>1. QED
        BY <3>1, <3>3, CellChange
    <3>5. QED
      BY <3>4 DEF Kids, KidTypes
  <2>3. QED
    BY <2>1, <2>2
<1>2. ASSUME NEW l \in Loops, LoopStarts(l)
      PROVE  KidTypes' /\ Cells \subseteq Cells' /\ Loops \subseteq Loops'
  <2> DEFINE r == [loops[l] EXCEPT !.at = "idle"]
  <2>1. loops' = [loops EXCEPT ![l] = r] /\ cells' = HandleStored(l)
    BY <1>2 DEF LoopStarts
  <2>2. Kids(cells', loops) /\ DOMAIN cells' = Cells
    BY <2>1, HandleTypes
  <2>3. r \in LoopRecord(cells')
    BY <2>2 DEF LoopRecord, Working
  <2>4. Goal
    <3> HIDE DEF r
    <3>1. QED
      BY <2>1, <2>2, <2>3, LoopChange
  <2>5. QED
    BY <2>4 DEF Kids, KidTypes
<1>3. ASSUME NEW l \in Loops, InitFails(l)
      PROVE  KidTypes' /\ Cells \subseteq Cells' /\ Loops \subseteq Loops'
  <2> DEFINE r == [loops[l] EXCEPT !.at = "idle"]
             c == loops[l].cell
             stored == HandleStored(l)
             q == [stored[c] EXCEPT !.crashed = TRUE]
  <2>1. loops' = [loops EXCEPT ![l] = r] /\ cells' = [stored EXCEPT ![c] = q]
    BY <1>3 DEF InitFails
  <2>2. Kids(stored, loops) /\ DOMAIN stored = Cells /\ c \in Cells
    BY HandleTypes
  <2>3. stored[c] \in CellRecord(loops)
    <3> HIDE DEF stored
    <3>1. QED
      BY <2>2, SeqIsFunction DEF Kids
  <2>4. q \in CellRecord(loops)
    BY <2>3 DEF CellRecord
  <2>5. Kids(cells', loops) /\ DOMAIN cells' = Cells
    <3> HIDE DEF stored, q, c
    <3>1. QED
      BY <2>1, <2>2, <2>4, CellChange
  <2>6. r \in LoopRecord(cells')
    BY <2>5 DEF LoopRecord, Working
  <2>7. Goal
    <3> HIDE DEF r
    <3>1. QED
      BY <2>1, <2>5, <2>6, LoopChange
  <2>8. QED
    BY <2>7 DEF Kids, KidTypes
<1>4. ASSUME NEW l \in Loops, Take(l)
      PROVE  KidTypes' /\ Cells \subseteq Cells' /\ Loops \subseteq Loops'
  <2> DEFINE c == loops[l].cell
             m == Oldest(cells[c].mail)
             r == [loops[l] EXCEPT !.at = "busy", !.hand = IF IsEs THEN {m} ELSE {}]
             q == [cells[c] EXCEPT !.mail = @ \ {m}]
  <2>1. /\ loops' = [loops EXCEPT ![l] = r] /\ cells' = [cells EXCEPT ![c] = q]
        /\ c \in Cells /\ cells[c].mail # {}
    BY <1>4 DEF Take, LoopRecord
  <2>2. q \in CellRecord(loops) /\ cells[c].mail \subseteq Mail
    BY <2>1 DEF CellRecord
  <2>3. m \in Mail
    BY <2>1, <2>2, OldestTypes
  <2>4. Kids(cells', loops) /\ DOMAIN cells' = Cells
    <3> HIDE DEF q, c
    <3>1. QED
      BY <2>1, <2>2, CellChange
  <2>5. r \in LoopRecord(cells')
    <3> HIDE DEF m
    <3>1. QED
      BY <2>3, <2>4 DEF LoopRecord, Working
  <2>6. Goal
    <3> HIDE DEF r
    <3>1. QED
      BY <2>1, <2>4, <2>5, LoopChange
  <2>7. QED
    BY <2>6 DEF Kids, KidTypes
<1>5. ASSUME NEW l \in Loops, TakePanics(l) \/ LoopStops(l)
      PROVE  KidTypes' /\ Cells \subseteq Cells' /\ Loops \subseteq Loops'
  <2> DEFINE r == [loops[l] EXCEPT !.at = "ended"]
  <2>1. loops' = [loops EXCEPT ![l] = r] /\ cells' = cells
    BY <1>5 DEF TakePanics, LoopStops
  <2>2. r \in LoopRecord(cells)
    BY DEF LoopRecord
  <2>3. Goal
    <3> HIDE DEF r
    <3>1. QED
      BY <2>1, <2>2, LoopChange
  <2>4. QED
    BY <2>3 DEF Kids, KidTypes
<1>6. ASSUME NEW l \in Loops, Finish(l)
      PROVE  KidTypes' /\ Cells \subseteq Cells' /\ Loops \subseteq Loops'
  <2> DEFINE r == [loops[l] EXCEPT !.at = "idle", !.hand = {}]
  <2>1. loops' = [loops EXCEPT ![l] = r] /\ cells' = cells
    BY <1>6 DEF Finish, LoopRecord
  <2>2. r \in LoopRecord(cells)
    BY DEF LoopRecord, Working
  <2>3. Goal
    <3> HIDE DEF r
    <3>1. QED
      BY <2>1, <2>2, LoopChange
  <2>4. QED
    BY <2>3 DEF Kids, KidTypes
<1>7. ASSUME NEW l \in Loops, Crash(l)
      PROVE  KidTypes' /\ Cells \subseteq Cells' /\ Loops \subseteq Loops'
  <2> DEFINE r == [loops[l] EXCEPT !.at = "ended", !.hand = {}]
             c == loops[l].cell
             q == [cells[c] EXCEPT !.crashed = TRUE,
                     !.mail = IF cells[c].stopping THEN @ ELSE @ \cup loops[l].hand]
  <2>1. /\ loops' = [loops EXCEPT ![l] = r] /\ cells' = [cells EXCEPT ![c] = q]
        /\ c \in Cells
    BY <1>7 DEF Crash, LoopRecord, CellRecord
  <2>2. q \in CellRecord(loops)
    BY <2>1, ZenonT(60) DEF CellRecord, LoopRecord
  <2>3. Kids(cells', loops) /\ DOMAIN cells' = Cells
    <3> HIDE DEF q, c
    <3>1. QED
      BY <2>1, <2>2, CellChange
  <2>4. r \in LoopRecord(cells')
    BY <2>3 DEF LoopRecord
  <2>5. Goal
    <3> HIDE DEF r
    <3>1. QED
      BY <2>1, <2>3, <2>4, LoopChange
  <2>6. QED
    BY <2>5 DEF Kids, KidTypes
<1>8. CASE EngineStep
  <2>1. CASE Escalate \/ EngineRearms
    <3>1. CASE live = 0
      <4>1. UNCHANGED kids
        BY <2>1, <3>1 DEF Escalate, EngineRearms, kids
      <4>2. QED
        BY <4>1, <1>0
    <3>2. CASE live # 0
      <4> DEFINE q == [cells[live] EXCEPT !.crashed = FALSE]
      <4>1. live \in Cells /\ loops' = loops /\ cells' = [cells EXCEPT ![live] = q]
        BY <2>1, <3>2 DEF Escalate, EngineRearms, TableTypes
      <4>2. q \in CellRecord(loops)
        BY <4>1 DEF CellRecord
      <4>3. Goal
        <5> HIDE DEF q
        <5>1. QED
          BY <4>1, <4>2, CellChange
      <4>4. QED
        BY <4>3 DEF Kids, KidTypes
    <3>3. QED
      BY <3>1, <3>2
  <2>2. CASE RestartEs
    <3> DEFINE c == engine.target
               q == [cells[c] EXCEPT !.crashed = FALSE]
    <3>1. CASE c \in Cells
      <4>1. cells' = [cells EXCEPT ![c] = q]
        BY <2>2 DEF RestartEs, ClearCrashed
      <4>2. q \in CellRecord(loops)
        BY <3>1 DEF CellRecord
      <4>3. Kids(cells', loops) /\ DOMAIN cells' = Cells
        <5> HIDE DEF q, c
        <5>1. QED
          BY <3>1, <4>1, <4>2, CellChange
      <4>4. NewLoop(c) \in LoopRecord(cells')
        BY <3>1, <4>3 DEF LoopRecord, NewLoop, Working
      <4>5. loops' = loops \/ loops' = Append(loops, NewLoop(c))
        BY <2>2 DEF RestartEs
      <4>6. Goal
        <5> HIDE DEF c
        <5> DEFINE t == Append(loops, NewLoop(c))
        <5>1. CASE loops' = loops
          BY <4>3, <5>1
        <5>2. CASE loops' = t
          <6>1. Kids(cells', t) /\ DOMAIN loops \subseteq DOMAIN t
            BY <4>3, <4>4, LoopAppend
          <6>2. QED
            <7> HIDE DEF t
            <7>1. QED
              BY <4>3, <5>2, <6>1
        <5>3. QED
          BY <4>5, <5>1, <5>2
      <4>7. QED
        BY <4>6 DEF Kids, KidTypes
    <3>2. c \in Cells
      BY <2>2 DEF RestartEs, TaskTypes
    <3>3. QED
      BY <3>1, <3>2
  <2>3. CASE RestartFresh
    <3>1. SpawnChild
      BY <2>3 DEF RestartFresh
    <3>2. QED
      BY <3>1, SpawnKids
  <2>4. CASE EngineExits \/ EngineChecks \/ EngineParks \/ EngineJudges
             \/ RestartBegins \/ RestartLoads
    <3>1. UNCHANGED kids
      BY <2>4 DEF EngineExits, EngineChecks, EngineParks, EngineJudges, RestartBegins,
                  RestartLoads
    <3>2. QED
      BY <3>1, <1>0
  <2>5. QED
    BY <1>8, <2>1, <2>2, <2>3, <2>4 DEF EngineStep
<1>9. CASE StopSignals
  <2> DEFINE h == cells[live].handle
             q == [cells[live] EXCEPT !.handle = 0]
             r == [loops[h] EXCEPT !.told = TRUE]
  <2>1. CASE live = 0 \/ h = 0
    <3>1. UNCHANGED kids
      BY <1>9, <2>1 DEF StopSignals
    <3>2. QED
      BY <3>1, <1>0
  <2>2. CASE live # 0 /\ h # 0
    <3>1. /\ live \in Cells /\ cells' = [cells EXCEPT ![live] = q]
          /\ loops' = [loops EXCEPT ![h] = r]
      BY <1>9, <2>2 DEF StopSignals, TableTypes
    <3>2. h \in Loops /\ q \in CellRecord(loops)
      BY <2>2, <3>1 DEF CellRecord
    <3>3. Kids(cells', loops) /\ DOMAIN cells' = Cells
      <4> HIDE DEF q
      <4>1. QED
        BY <3>1, <3>2, CellChange
    <3>4. r \in LoopRecord(cells')
      <4> HIDE DEF h
      <4>1. QED
        BY <3>2, <3>3 DEF LoopRecord
    <3>5. Goal
      <4> HIDE DEF r, h
      <4>1. QED
        BY <3>1, <3>2, <3>3, <3>4, LoopChange
    <3>6. QED
      BY <3>5 DEF Kids, KidTypes
  <2>3. QED
    BY <2>1, <2>2
<1>10. CASE StopAborts
  <2> DEFINE l == host.loop
             c == loops[l].cell
             r == [loops[l] EXCEPT !.at = "ended", !.hand = {}]
             q == [cells[c] EXCEPT !.mail = @ \cup loops[l].hand]
  <2>1. l \in Loops /\ c \in Cells
    BY <1>10 DEF StopAborts, TaskTypes
  <2>2. loops' = [loops EXCEPT ![l] = r] /\ cells' = [cells EXCEPT ![c] = q]
    BY <1>10, <2>1 DEF StopAborts, LoopRecord
  <2>3. q \in CellRecord(loops)
    BY <2>1 DEF CellRecord, LoopRecord
  <2>4. Kids(cells', loops) /\ DOMAIN cells' = Cells
    <3> HIDE DEF q, c
    <3>1. QED
      BY <2>1, <2>2, <2>3, CellChange
  <2>5. r \in LoopRecord(cells')
    BY <2>1, <2>4 DEF LoopRecord
  <2>6. Goal
    <3> HIDE DEF r, l
    <3>1. QED
      BY <2>1, <2>2, <2>4, <2>5, LoopChange
  <2>7. QED
    BY <2>6 DEF Kids, KidTypes
<1>11. CASE Teardown
  <2>1. CASE live = 0
    <3>1. UNCHANGED kids
      BY <1>11, <2>1 DEF Teardown, kids
    <3>2. QED
      BY <3>1, <1>0
  <2>2. CASE live # 0
    <3> DEFINE q == [cells[live] EXCEPT !.stopping = TRUE, !.mail = {}]
    <3>1. live \in Cells /\ loops' = loops /\ cells' = [cells EXCEPT ![live] = q]
      BY <1>11, <2>2 DEF Teardown, TableTypes, CellRecord
    <3>2. q \in CellRecord(loops)
      BY <3>1 DEF CellRecord
    <3>3. Goal
      <4> HIDE DEF q
      <4>1. QED
        BY <3>1, <3>2, CellChange
    <3>4. QED
      BY <3>3 DEF Kids, KidTypes
  <2>3. QED
    BY <2>1, <2>2
<1>12. CASE Respawn
  <2>1. SpawnChild
    BY <1>12 DEF Respawn
  <2>2. QED
    BY <2>1, SpawnKids
<1>13. CASE Tick \/ StopJoins \/ Shutdown \/ UNCHANGED vars
  <2>1. UNCHANGED kids
    BY <1>13 DEF Tick, StopJoins, Shutdown, vars
  <2>2. QED
    BY <2>1, <1>0
<1>14. QED
  BY <1>1, <1>2, <1>3, <1>4, <1>5, <1>6, <1>7, <1>8, <1>9, <1>10, <1>11, <1>12, <1>13
  DEF Next, LoopStep, StopStep

(* The tables lead to cells there are.                                     *)
LEMMA StepTables ==
  ASSUME TypeOK, [Next]_vars
  PROVE  TableTypes'
<1>1. Cells \subseteq Cells' /\ Loops \subseteq Loops'
  BY StepKids
<1>2. /\ live \in {0} \cup Cells /\ slot \in {0} \cup Cells
      /\ esState \in BOOLEAN /\ instance \in BOOLEAN
      /\ shutdown \in BOOLEAN /\ respawned \in BOOLEAN
  BY DEF TypeOK, TableTypes
<1>3. ASSUME UNCHANGED <<live, slot, esState, shutdown, respawned>>, instance' \in BOOLEAN
      PROVE  TableTypes'
  BY <1>1, <1>2, <1>3 DEF TableTypes
<1>4. CASE Send \/ Tick \/ StopJoins \/ StopSignals \/ StopAborts \/ UNCHANGED vars
  <2>1. UNCHANGED <<live, slot, esState, shutdown, respawned, instance>>
    BY <1>4 DEF Send, Tick, StopJoins, StopSignals, StopAborts, vars, hostVars, tables
  <2>2. QED
    BY <1>2, <1>3, <2>1
<1>5. ASSUME NEW l \in Loops, LoopStep(l) \/ InitFails(l) \/ Crash(l)
      PROVE  TableTypes'
  <2>1. UNCHANGED <<live, slot, esState, shutdown, respawned>>
    BY <1>5 DEF LoopStep, LoopStarts, Take, TakePanics, Finish, LoopStops, InitFails, Crash,
                vars, hostVars, tables
  <2>2. instance' = instance \/ instance' = (instance \/ ~IsEs)
    BY <1>5 DEF LoopStep, LoopStarts, Take, TakePanics, Finish, LoopStops, InitFails, Crash
  <2>3. QED
    BY <1>2, <1>3, <2>1, <2>2
<1>6. CASE EngineExits \/ EngineChecks \/ EngineParks \/ EngineJudges
           \/ RestartBegins \/ RestartLoads \/ EngineRearms
  <2>1. UNCHANGED <<live, slot, esState, shutdown, respawned, instance>>
    BY <1>6 DEF EngineExits, EngineChecks, EngineParks, EngineJudges, RestartBegins,
                RestartLoads, EngineRearms, hostVars, tables
  <2>2. QED
    BY <1>2, <1>3, <2>1
<1>7. CASE Escalate \/ Teardown
  <2>1. /\ live' \in {0, live} /\ slot' = 0 /\ esState' = FALSE
        /\ UNCHANGED <<instance, shutdown, respawned>>
    BY <1>7 DEF Escalate, Teardown, hostVars
  <2>2. QED
    BY <1>1, <1>2, <2>1 DEF TableTypes
<1>8. CASE RestartEs
  <2>1. engine.target \in Cells
    BY <1>8 DEF RestartEs, TypeOK, TaskTypes
  <2>2. /\ live' = live /\ slot' \in {slot, engine.target} /\ esState' = TRUE
        /\ UNCHANGED <<instance, shutdown, respawned>>
    BY <1>8 DEF RestartEs, hostVars
  <2>3. QED
    BY <1>1, <1>2, <2>1, <2>2 DEF TableTypes
<1>9. CASE RestartFresh \/ Respawn
  <2>1. SpawnChild /\ instance' = instance /\ shutdown' = shutdown
        /\ respawned' \in {TRUE, respawned}
    BY <1>9 DEF RestartFresh, Respawn, hostVars
  <2>2. Cells' = 1 .. Len(cells) + 1 /\ Len(cells) \in Nat
    BY <2>1, SpawnKids, Fields DEF TypeOK
  <2>3. live' \in Cells' /\ slot' \in Cells'
    BY <2>1, <2>2 DEF SpawnChild
  <2>4. esState' \in BOOLEAN
    BY <1>2, <2>1 DEF SpawnChild, IsEs
  <2>5. QED
    BY <1>2, <2>1, <2>3, <2>4 DEF TableTypes
<1>10. CASE Shutdown
  <2>1. UNCHANGED <<live, slot, esState, respawned, instance>> /\ shutdown' = TRUE
    BY <1>10 DEF Shutdown, tables
  <2>2. QED
    BY <1>1, <1>2, <2>1 DEF TableTypes
<1>11. QED
  BY <1>4, <1>5, <1>6, <1>7, <1>8, <1>9, <1>10 DEF Next, EngineStep, StopStep

(* The engine and the host's stop stand where they may, at cells and at a  *)
(* loop there are.                                                         *)
LEMMA StepTasks ==
  ASSUME TypeOK, [Next]_vars
  PROVE  TaskTypes'
<1> DEFINE At == {"watch", "checked", "parked", "woken", "judge", "escalate", "backoff",
                  "loading", "rebuilding", "spawned", "done", "dead"}
           EngineOK == /\ engine' \in [at : At, cell : {0} \cup Cells', target : {0} \cup Cells']
                       /\ engine'.at \in {"loading", "rebuilding"} => engine'.target # 0
           HostOK == /\ host' \in [at : {"none", "joining", "teardown"},
                                   loop : {0} \cup Loops']
                     /\ host'.at = "joining" => host'.loop # 0
<1>1. Cells \subseteq Cells' /\ Loops \subseteq Loops'
  BY StepKids
<1>2. /\ engine \in [at : At, cell : {0} \cup Cells, target : {0} \cup Cells]
      /\ engine.at \in {"loading", "rebuilding"} => engine.target # 0
      /\ host \in [at : {"none", "joining", "teardown"}, loop : {0} \cup Loops]
      /\ host.at = "joining" => host.loop # 0
      /\ live \in {0} \cup Cells
  BY DEF TypeOK, TaskTypes, TableTypes
<1>3. UNCHANGED engine => EngineOK
  BY <1>1, <1>2
<1>4. UNCHANGED host => HostOK
  BY <1>1, <1>2
<1>5. CASE Send \/ Tick \/ Shutdown \/ Respawn \/ UNCHANGED vars
  <2>1. UNCHANGED <<engine, host>>
    BY <1>5 DEF Send, Tick, Shutdown, Respawn, vars, hostVars
  <2>2. QED
    BY <1>3, <1>4, <2>1 DEF TaskTypes
<1>6. CASE StopSignals \/ StopStep \/ StopAborts
  <2>1. UNCHANGED engine
    BY <1>6 DEF StopSignals, StopStep, StopJoins, StopAborts, Teardown
  <2>2. CASE StopSignals
    <3>1. live # 0 => cells[live].handle \in {0} \cup Loops
      BY <1>2, Fields DEF TypeOK, CellRecord, Loops
    <3>2. HostOK
      BY <1>1, <2>2, <3>1 DEF StopSignals
    <3>3. QED
      BY <1>3, <2>1, <3>2 DEF TaskTypes
  <2>3. CASE StopStep \/ StopAborts
    <3>1. host' = [host EXCEPT !.at = "teardown"] \/ host' = [at |-> "none", loop |-> 0]
      BY <2>3 DEF StopStep, StopJoins, StopAborts, Teardown
    <3>2. HostOK
      BY <1>1, <1>2, <3>1
    <3>3. QED
      BY <1>3, <2>1, <3>2 DEF TaskTypes
  <2>4. QED
    BY <1>6, <2>2, <2>3
<1>7. ASSUME NEW l \in Loops, LoopStep(l) \/ InitFails(l) \/ Crash(l)
      PROVE  TaskTypes'
  <2>1. UNCHANGED host
    BY <1>7 DEF LoopStep, LoopStarts, Take, TakePanics, Finish, LoopStops, InitFails, Crash,
                hostVars
  <2>2. engine' = engine \/ engine' = [engine EXCEPT !.at = "woken"]
    BY <1>7 DEF LoopStep, LoopStarts, Take, TakePanics, Finish, LoopStops, InitFails, Crash,
                Woken
  <2>3. EngineOK
    BY <1>1, <1>2, <2>2
  <2>4. QED
    BY <1>4, <2>1, <2>3 DEF TaskTypes
<1>8. CASE EngineStep
  <2>1. UNCHANGED host
    BY <1>8 DEF EngineStep, EngineExits, EngineChecks, EngineParks, EngineJudges, Escalate,
                RestartBegins, RestartLoads, RestartEs, RestartFresh, EngineRearms, hostVars
  <2>2. CASE EngineExits \/ EngineChecks \/ EngineParks \/ EngineJudges \/ Escalate
             \/ RestartLoads \/ RestartEs \/ RestartFresh
    <3>1. \E at \in At : /\ engine' = [engine EXCEPT !.at = at]
                         /\ at \in {"loading", "rebuilding"} => engine.at = "loading"
      BY <2>2 DEF EngineExits, EngineChecks, EngineParks, EngineJudges, Escalate,
                  RestartLoads, RestartEs, RestartFresh, Goto
    <3>2. EngineOK
      BY <1>1, <1>2, <3>1
    <3>3. QED
      BY <1>4, <2>1, <3>2 DEF TaskTypes
  <2>3. CASE RestartBegins \/ EngineRearms
    <3>1. \/ engine' = [engine EXCEPT !.at = "dead", !.target = live]
          \/ live # 0 /\ engine' = [engine EXCEPT !.at = "loading", !.target = live]
          \/ engine' = [engine EXCEPT !.at = "watch", !.cell = live]
      BY <2>3 DEF RestartBegins, EngineRearms
    <3>2. EngineOK
      BY <1>1, <1>2, <3>1
    <3>3. QED
      BY <1>4, <2>1, <3>2 DEF TaskTypes
  <2>4. QED
    BY <1>8, <2>2, <2>3 DEF EngineStep
<1>9. QED
  BY <1>5, <1>6, <1>7, <1>8 DEF Next

(* The window after a failure: the failure joins it, and what is in front  *)
(* of the first recent one is gone (FailureWindow::record, prune).         *)
LEMMA RecordedFacts ==
  ASSUME BookTypes
  PROVE  \E first \in 1 .. Len(failures) + 1 :
           LET window == Append(failures, now)
           IN  /\ Recorded \in Seq(0 .. MaxTime)
               /\ Len(Recorded) = Len(failures) + 2 - first
               /\ \A k \in 1 .. Len(Recorded) : Recorded[k] = window[first + k - 1]
               /\ now - window[first] <= spec.window
               /\ \A k \in 1 .. first - 1 : now - window[k] > spec.window
<1> DEFINE window == Append(failures, now)
           oldest == CHOOSE i \in Recent(window) : \A j \in Recent(window) : i <= j
<1>1. /\ failures \in Seq(0 .. MaxTime) /\ now \in 0 .. MaxTime
      /\ MaxTime \in Nat /\ spec.window \in Nat
  BY SupervisionAssumption DEF BookTypes, ActorSpec
<1>2. /\ window \in Seq(0 .. MaxTime) /\ Len(window) = Len(failures) + 1
      /\ Len(failures) \in Nat /\ DOMAIN window = 1 .. Len(failures) + 1
      /\ window[Len(failures) + 1] = now
  BY <1>1, AppendedIs
<1>3. \A k \in 1 .. Len(failures) + 1 : window[k] \in 0 .. MaxTime
  BY <1>2, SeqIsFunction
<1> HIDE DEF window
<1>4. Recent(window) \subseteq 1 .. Len(failures) + 1
  BY <1>2 DEF Recent
<1>5. Len(failures) + 1 \in Recent(window)
  BY <1>1, <1>2 DEF Recent
<1>6. \E i \in Recent(window) : \A j \in Recent(window) : i <= j
  <2>1. Recent(window) \subseteq Nat /\ Recent(window) # {}
    BY <1>2, <1>4, <1>5
  <2>2. QED
    BY <2>1, LeastNatural
<1>7. oldest \in Recent(window) /\ \A j \in Recent(window) : oldest <= j
  BY <1>6
<1> HIDE DEF oldest
<1>8. oldest \in 1 .. Len(failures) + 1 /\ now - window[oldest] <= spec.window
  BY <1>4, <1>7 DEF Recent
<1>9. \A k \in 1 .. oldest - 1 : now - window[k] > spec.window
  <2>1. ASSUME NEW k \in 1 .. oldest - 1
        PROVE  now - window[k] > spec.window
    <3>1. k \in DOMAIN window /\ k \notin Recent(window)
      BY <1>2, <1>7, <1>8
    <3>2. ~(now - window[k] <= spec.window)
      BY <3>1 DEF Recent
    <3>3. window[k] \in Int /\ now \in Int /\ spec.window \in Int
      BY <1>1, <1>2, <1>3, <3>1
    <3>4. QED
      BY <3>2, <3>3
  <2>2. QED
    BY <2>1
<1>10. Recorded = SubSeq(window, oldest, Len(window))
  BY DEF Recorded, window, oldest
<1>11. /\ Recorded \in Seq(0 .. MaxTime)
       /\ Len(Recorded) = Len(failures) + 2 - oldest
       /\ \A k \in 1 .. Len(Recorded) : Recorded[k] = window[oldest + k - 1]
  <2>1. \A i \in oldest .. Len(window) : window[i] \in 0 .. MaxTime
    BY <1>2, <1>3, <1>8
  <2>2. /\ Recorded \in Seq(0 .. MaxTime)
        /\ Len(Recorded) = IF oldest <= Len(window) THEN Len(window) - oldest + 1 ELSE 0
        /\ \A i \in 1 .. Len(window) - oldest + 1 : Recorded[i] = window[oldest + i - 1]
    BY <1>2, <1>8, <1>10, <2>1, SubSeqProperties
  <2>3. QED
    BY <1>2, <1>8, <2>2
<1>12. QED
  BY <1>8, <1>9, <1>11 DEF window

(* The books hold times, counts and messages.                              *)
LEMMA StepBooks ==
  ASSUME TypeOK, [Next]_vars
  PROVE  BookTypes'
<1>1. /\ spec \in Specs /\ now \in 0 .. MaxTime
      /\ failures \in Seq(0 .. MaxTime) /\ restarts \in Seq(0 .. MaxTime)
      /\ crashes \in 0 .. MaxCrashes /\ stops \in 0 .. MaxStops /\ sent \in 0 .. MaxMail
      /\ done \subseteq Mail /\ dead \subseteq Mail
      /\ slips \subseteq {"signal", "clear"}
      /\ {MaxTime, MaxCrashes, MaxStops, MaxMail} \subseteq Nat
  BY SupervisionAssumption DEF TypeOK, BookTypes
<1>2. \A l \in Loops : loops[l].hand \subseteq Mail
  BY Fields DEF TypeOK, LoopRecord
<1>3. \A c \in Cells : cells[c].mail \subseteq Mail
  BY Fields DEF TypeOK, CellRecord
<1>4. spec' = spec
  BY DEF Next, vars, Send, Tick, EngineStep, EngineExits, EngineChecks, EngineParks,
     EngineJudges, Escalate, RestartBegins, RestartLoads, RestartEs, RestartFresh,
     EngineRearms, StopStep, StopJoins, Teardown, StopSignals, StopAborts, Respawn,
     Shutdown, LoopStep, LoopStarts, Take, TakePanics, Finish, LoopStops, InitFails, Crash
<1>5. now' \in 0 .. MaxTime
  <2>1. now' = now \/ (now < MaxTime /\ now' = now + 1)
    BY DEF Next, vars, Send, Tick, EngineStep, EngineExits, EngineChecks, EngineParks,
       EngineJudges, Escalate, RestartBegins, RestartLoads, RestartEs, RestartFresh,
       EngineRearms, StopStep, StopJoins, Teardown, StopSignals, StopAborts, Respawn,
       Shutdown, LoopStep, LoopStarts, Take, TakePanics, Finish, LoopStops, InitFails, Crash
  <2>2. QED
    BY <1>1, <2>1
<1>6. failures' \in Seq(0 .. MaxTime)
  <2>1. failures' = failures \/ failures' = Recorded
    BY DEF Next, vars, bookVars, Send, Tick, EngineStep, EngineExits, EngineChecks,
       EngineParks, EngineJudges, Escalate, RestartBegins, RestartLoads, RestartEs,
       RestartFresh, EngineRearms, StopStep, StopJoins, Teardown, StopSignals, StopAborts,
       Respawn, Shutdown, LoopStep, LoopStarts, Take, TakePanics, Finish, LoopStops,
       InitFails, Crash
  <2>2. Recorded \in Seq(0 .. MaxTime)
    BY RecordedFacts DEF TypeOK
  <2>3. QED
    BY <1>1, <2>1, <2>2
<1>7. restarts' \in Seq(0 .. MaxTime)
  <2>1. restarts' = restarts \/ restarts' = Append(restarts, now)
    BY DEF Next, vars, bookVars, Send, Tick, EngineStep, EngineExits, EngineChecks,
       EngineParks, EngineJudges, Escalate, RestartBegins, RestartLoads, RestartEs,
       RestartFresh, EngineRearms, StopStep, StopJoins, Teardown, StopSignals, StopAborts,
       Respawn, Shutdown, LoopStep, LoopStarts, Take, TakePanics, Finish, LoopStops,
       InitFails, Crash
  <2>2. QED
    BY <1>1, <2>1, AppendedIs
<1>8. crashes' \in 0 .. MaxCrashes
  <2>1. crashes' = crashes \/ (crashes < MaxCrashes /\ crashes' = crashes + 1)
    BY DEF Next, vars, Send, Tick, EngineStep, EngineExits, EngineChecks, EngineParks,
       EngineJudges, Escalate, RestartBegins, RestartLoads, RestartEs, RestartFresh,
       EngineRearms, StopStep, StopJoins, Teardown, StopSignals, StopAborts, Respawn,
       Shutdown, LoopStep, LoopStarts, Take, TakePanics, Finish, LoopStops, InitFails, Crash
  <2>2. QED
    BY <1>1, <2>1
<1>9. stops' \in 0 .. MaxStops
  <2>1. stops' = stops \/ (stops < MaxStops /\ stops' = stops + 1)
    BY DEF Next, vars, hostVars, Send, Tick, EngineStep, EngineExits, EngineChecks,
       EngineParks, EngineJudges, Escalate, RestartBegins, RestartLoads, RestartEs,
       RestartFresh, EngineRearms, StopStep, StopJoins, Teardown, StopSignals, StopAborts,
       Respawn, Shutdown, LoopStep, LoopStarts, Take, TakePanics, Finish, LoopStops,
       InitFails, Crash
  <2>2. QED
    BY <1>1, <2>1
<1>10. sent' \in 0 .. MaxMail /\ done' \subseteq Mail /\ dead' \subseteq Mail
  <2>1. CASE Send
    <3>1. /\ sent < MaxMail /\ sent' = sent + 1 /\ done' = done
          /\ dead' = dead \/ dead' = dead \cup {sent + 1}
      BY <2>1 DEF Send
    <3>2. sent + 1 \in Mail /\ sent' \in 0 .. MaxMail
      BY <1>1, <3>1 DEF Mail
    <3>3. QED
      BY <1>1, <3>1, <3>2
  <2>2. ASSUME NEW l \in Loops, LoopStep(l) \/ InitFails(l) \/ Crash(l)
        PROVE  sent' \in 0 .. MaxMail /\ done' \subseteq Mail /\ dead' \subseteq Mail
    <3>1. CASE Take(l)
      <4> DEFINE mail == cells[loops[l].cell].mail
      <4>1. /\ sent' = sent /\ dead' = dead /\ mail # {}
            /\ done' = done \/ done' = done \cup {Oldest(mail)}
        BY <3>1 DEF Take
      <4>2. mail \subseteq Mail
        BY <1>3, Fields DEF TypeOK
      <4>3. Oldest(mail) \in Mail
        BY <4>1, <4>2, OldestTypes
      <4>4. QED
        BY <1>1, <4>1, <4>3
    <3>2. CASE ~Take(l)
      <4>1. /\ sent' = sent
            /\ done' = done \/ done' = done \cup loops[l].hand
            /\ dead' = dead \/ dead' = dead \cup loops[l].hand
        BY <2>2, <3>2 DEF LoopStep, LoopStarts, TakePanics, Finish, LoopStops, InitFails,
                          Crash, mailVars
      <4>2. QED
        BY <1>1, <1>2, <4>1
    <3>3. QED
      BY <3>1, <3>2
  <2>3. CASE Teardown
    <3>1. Undelivered \subseteq Mail
      BY <1>3 DEF Undelivered, TypeOK, TableTypes
    <3>2. QED
      BY <1>1, <2>3, <3>1 DEF Teardown
  <2>4. CASE EngineStep \/ Tick \/ StopJoins \/ StopSignals \/ StopAborts \/ Respawn
             \/ Shutdown \/ UNCHANGED vars
    <3>1. UNCHANGED mailVars
      BY <2>4 DEF vars, Tick, EngineStep, EngineExits, EngineChecks, EngineParks,
         EngineJudges, Escalate, RestartBegins, RestartLoads, RestartEs, RestartFresh,
         EngineRearms, StopJoins, StopSignals, StopAborts, Respawn, Shutdown
    <3>2. QED
      BY <1>1, <3>1 DEF mailVars
  <2>5. QED
    BY <2>1, <2>2, <2>3, <2>4 DEF Next, StopStep
<1>11. slips' \subseteq {"signal", "clear"}
  <2>1. slips' \subseteq slips \cup {"signal", "clear"}
    BY DEF Next, vars, Send, Tick, EngineStep, EngineExits, EngineChecks, EngineParks,
       EngineJudges, Escalate, RestartBegins, RestartLoads, RestartEs, RestartFresh,
       EngineRearms, StopStep, StopJoins, Teardown, StopSignals, StopAborts, Respawn,
       Shutdown, LoopStep, LoopStarts, Take, TakePanics, Finish, LoopStops, InitFails, Crash,
       Slip
  <2>2. QED
    BY <1>1, <2>1
<1>12. QED
  BY <1>1, <1>4, <1>5, <1>6, <1>7, <1>8, <1>9, <1>10, <1>11 DEF BookTypes

(* The child as it is spawned.                                             *)
LEMMA InitTypes ==
  ASSUME Init
  PROVE  TypeOK
<1> DEFINE h == IF IsEs THEN 1 ELSE 0
           Cell == [crashed : BOOLEAN, stopping : BOOLEAN, handle : {0} \cup (1 .. 1),
                    mail : SUBSET Mail]
           Loop == [cell : 1 .. 1, at : Working \cup {"ended"}, hand : SUBSET Mail,
                    told : BOOLEAN]
<1>1. cells = <<NewCell(h)>> /\ loops = <<NewLoop(1)>>
  BY DEF Init
<1>2. NewCell(h) \in Cell /\ NewLoop(1) \in Loop
  BY DEF NewCell, NewLoop, Working
<1>3. /\ cells \in Seq(Cell) /\ DOMAIN cells = 1 .. 1
      /\ loops \in Seq(Loop) /\ DOMAIN loops = 1 .. 1
  <2> HIDE DEF Cell, Loop, h
  <2>1. QED
    BY <1>1, <1>2
<1>4. KidTypes
  BY <1>3 DEF KidTypes, CellRecord, LoopRecord
<1>5. TableTypes
  <2>1. esState = (spec.tier = "es")
    BY DEF Init, IsEs
  <2>2. live = 1 /\ slot = 1 /\ instance = FALSE /\ shutdown = FALSE /\ respawned = FALSE
    BY DEF Init
  <2>3. live \in Cells /\ slot \in Cells
    BY <1>3, <2>2 DEF Cells
  <2>4. esState \in BOOLEAN
    BY <2>1
  <2>5. QED
    BY <2>2, <2>3, <2>4 DEF TableTypes
<1>6. TaskTypes
  BY <1>3 DEF Init, TaskTypes, Cells, Loops
<1>7. BookTypes
  <2>1. <<>> \in Seq(0 .. MaxTime)
    BY EmptySeq
  <2>2. QED
    BY <2>1, SupervisionAssumption DEF Init, BookTypes
<1>8. QED
  BY <1>4, <1>5, <1>6, <1>7 DEF TypeOK

(* A step keeps the types.                                                 *)
LEMMA StepTypes ==
  ASSUME TypeOK, [Next]_vars
  PROVE  TypeOK'
<1>1. KidTypes' /\ TableTypes' /\ TaskTypes' /\ BookTypes'
  BY StepKids, StepTables, StepTasks, StepBooks
<1>2. QED
  BY <1>1 DEF TypeOK

(* Cells, loops, tables and books are of their types in every state: what  *)
(* the kernel and the registry know of a child, and what its engine        *)
(* watches and its stop joins, exists.                                     *)
THEOREM TypeCorrect == Spec => []TypeOK
<1>1. Init => TypeOK
  BY InitTypes
<1>2. TypeOK /\ [Next]_vars => TypeOK'
  BY StepTypes
<1>3. QED
  BY <1>1, <1>2, PTL DEF Spec

----------------------------------------------------------------------------
(* The budget of restarts.                                                 *)

Awaits   == {"backoff", "loading", "rebuilding"}
Watching == {"watch", "checked", "parked", "woken"}
Active   == {"judge", "spawned"} \cup Watching \cup Awaits

(* The restarts recorded up to now and the failures that led to them are   *)
(* one to one, but for a failure whose restart is to come (Owed) and the   *)
(* failures that have been pruned.                                         *)
Owed == IF engine.at \in Awaits THEN 1 ELSE 0

Pruned == Len(restarts) + Owed - Len(failures)

Ascending(times) ==
  /\ \A i \in DOMAIN times : times[i] <= now
  /\ \A i, j \in DOMAIN times : i <= j => times[i] <= times[j]

(* A restart comes before the failure after its own; what was pruned was   *)
(* out of the window at the last failure; and a failure that leads to a    *)
(* restart leaves room in the budget.                                      *)
BudgetInv ==
  /\ Ascending(failures) /\ Ascending(restarts)
  /\ \A i, j \in DOMAIN restarts :
       i <= j /\ restarts[j] <= restarts[i] + spec.window => j - i < spec.max
  /\ engine.at \in Active =>
       /\ Pruned >= 0
       /\ Owed = 1 => Len(failures) \in 1 .. spec.max - 1
       /\ \A i \in DOMAIN restarts : \A q \in DOMAIN failures :
            i < q + Pruned => restarts[i] <= failures[q]
       /\ \A i \in DOMAIN restarts :
            i < Pruned => /\ failures # <<>>
                          /\ restarts[i] + spec.window < failures[Len(failures)]

(* What the types say of the books.                                        *)
LEMMA BookFacts ==
  ASSUME TypeOK
  PROVE  /\ Len(failures) \in Nat /\ DOMAIN failures = 1 .. Len(failures)
         /\ Len(restarts) \in Nat /\ DOMAIN restarts = 1 .. Len(restarts)
         /\ \A i \in 1 .. Len(failures) : failures[i] \in Nat
         /\ \A i \in 1 .. Len(restarts) : restarts[i] \in Nat
         /\ now \in Nat /\ spec.window \in Nat /\ spec.max \in Nat
<1>1. /\ failures \in Seq(0 .. MaxTime) /\ restarts \in Seq(0 .. MaxTime)
      /\ now \in Nat /\ spec.window \in Nat /\ spec.max \in Nat
  BY SupervisionAssumption DEF TypeOK, BookTypes, ActorSpec
<1>2. /\ Len(failures) \in Nat /\ DOMAIN failures = 1 .. Len(failures)
      /\ Len(restarts) \in Nat /\ DOMAIN restarts = 1 .. Len(restarts)
      /\ \A i \in DOMAIN failures : failures[i] \in 0 .. MaxTime
      /\ \A i \in DOMAIN restarts : restarts[i] \in 0 .. MaxTime
  BY <1>1, SeqIsFunction
<1>3. QED
  BY <1>1, <1>2, SMTT(30)

(* Where the engine moves from one place to another and neither settles a  *)
(* debt nor takes one on, the budget is as it was.                         *)
LEMMA BudgetKept ==
  ASSUME TypeOK, BudgetInv, UNCHANGED <<spec, now, failures, restarts>>,
         engine'.at \in Active =>
           engine.at \in Active /\ (engine'.at \in Awaits <=> engine.at \in Awaits)
  PROVE  BudgetInv'
<1>1. Ascending(failures)' /\ Ascending(restarts)'
  BY DEF BudgetInv, Ascending
<1>2. engine'.at \in Active => Owed' = Owed /\ Pruned' = Pruned
  BY DEF Owed, Pruned
<1>3. QED
  BY <1>1, <1>2 DEF BudgetInv

(* A failure is recorded, and is not one too many.                         *)
LEMMA BudgetJudged ==
  ASSUME TypeOK, BudgetInv, EngineJudges
  PROVE  BudgetInv'
<1> DEFINE m == Len(failures)
           n == Len(restarts)
           window == Append(failures, now)
<1>1. engine.at = "judge" /\ UNCHANGED <<spec, now, restarts>>
  BY DEF EngineJudges, bookVars
<1>2. engine.at \in Active /\ engine.at \notin Awaits
  BY <1>1 DEF Active, Awaits
<1>3. /\ m \in Nat /\ n \in Nat /\ DOMAIN failures = 1 .. m /\ DOMAIN restarts = 1 .. n
      /\ \A i \in 1 .. m : failures[i] \in Nat
      /\ \A i \in 1 .. n : restarts[i] \in Nat
      /\ now \in Nat /\ spec.window \in Nat /\ spec.max \in Nat
  BY BookFacts
<1>4. Pruned = n - m
  BY <1>2, <1>3 DEF Pruned, Owed
<1>5. CASE spec.restart = "Never"
  <2>1. failures' = failures /\ engine'.at = "escalate"
    BY <1>5 DEF EngineJudges, Goto, TypeOK, TaskTypes
  <2>2. engine'.at \notin Active
    BY <2>1 DEF Active, Watching, Awaits
  <2>3. QED
    BY <1>1, <2>1, <2>2, BudgetKept
<1>6. CASE spec.restart # "Never"
  <2>1. PICK first \in 1 .. m + 1 :
               /\ Recorded \in Seq(0 .. MaxTime)
               /\ Len(Recorded) = m + 2 - first
               /\ \A k \in 1 .. Len(Recorded) : Recorded[k] = window[first + k - 1]
               /\ now - window[first] <= spec.window
               /\ \A k \in 1 .. first - 1 : now - window[k] > spec.window
    BY RecordedFacts DEF TypeOK
  <2>2. failures' = Recorded
    BY <1>6 DEF EngineJudges
  <2> DEFINE d == m + 2 - first
  <2>3. /\ \A k \in 1 .. m : window[k] = failures[k]
        /\ window[m + 1] = now
    BY AppendedIs DEF TypeOK, BookTypes
  <2> HIDE DEF window
  <2>4. /\ d \in Nat /\ d >= 1 /\ DOMAIN failures' = 1 .. d /\ Len(failures') = d
        /\ \A k \in 1 .. d : failures'[k] = window[first + k - 1]
    BY <1>3, <2>1, <2>2, SeqIsFunction
  <2>5. /\ \A k \in 1 .. m + 1 : window[k] \in Nat /\ window[k] <= now
        /\ \A j, k \in 1 .. m + 1 : j <= k => window[j] <= window[k]
    <3>1. /\ \A k \in 1 .. m : failures[k] <= now
          /\ \A j, k \in 1 .. m : j <= k => failures[j] <= failures[k]
      BY <1>3 DEF BudgetInv, Ascending
    <3>2. ASSUME NEW k \in 1 .. m + 1
          PROVE  window[k] \in Nat /\ window[k] <= now
      <4>1. CASE k = m + 1
        BY <1>3, <2>3, <4>1
      <4>2. CASE k \in 1 .. m
        BY <1>3, <2>3, <3>1, <4>2
      <4>3. QED
        BY <1>3, <4>1, <4>2
    <3>3. ASSUME NEW j \in 1 .. m + 1, NEW k \in 1 .. m + 1, j <= k
          PROVE  window[j] <= window[k]
      <4>1. CASE k = m + 1
        BY <2>3, <3>2, <4>1
      <4>2. CASE j \in 1 .. m /\ k \in 1 .. m
        <5>1. failures[j] <= failures[k]
          BY <3>1, <3>3, <4>2
        <5>2. QED
          BY <2>3, <4>2, <5>1
      <4>3. QED
        BY <1>3, <3>3, <4>1, <4>2
    <3>4. QED
      BY <3>2, <3>3
  <2>6. \A k \in 1 .. d : first + k - 1 \in 1 .. m + 1
    BY <1>3
  <2>7. Ascending(failures)' /\ Ascending(restarts)'
    <3>1. \A k \in 1 .. d : failures'[k] <= now
      BY <2>4, <2>5, <2>6
    <3>2. \A j, k \in 1 .. d : j <= k => failures'[j] <= failures'[k]
      <4>1. ASSUME NEW j \in 1 .. d, NEW k \in 1 .. d, j <= k
            PROVE  failures'[j] <= failures'[k]
        <5>1. first + j - 1 <= first + k - 1
          BY <1>3, <4>1
        <5>2. QED
          BY <2>4, <2>5, <2>6, <5>1
      <4>2. QED
        BY <4>1
    <3>3. Ascending(failures)'
      BY <1>1, <2>4, <3>1, <3>2 DEF Ascending
    <3>4. Ascending(restarts)'
      BY <1>1 DEF BudgetInv, Ascending
    <3>5. QED
      BY <3>3, <3>4
  <2>8. CASE Exhausted(Recorded)
    <3>1. engine'.at \notin Active
      BY <1>6, <2>8 DEF EngineJudges, Goto, TypeOK, TaskTypes, Active, Watching, Awaits
    <3>2. QED
      BY <1>1, <2>7, <3>1 DEF BudgetInv
  <2>9. CASE ~Exhausted(Recorded)
    <3>1. engine'.at = "backoff"
      BY <1>6, <2>9 DEF EngineJudges, Goto, TypeOK, TaskTypes
    <3>2. Owed' = 1 /\ Pruned' = n - m + first - 1
      BY <1>1, <1>3, <2>4, <3>1 DEF Owed, Pruned, Awaits
    <3>3. d \in 1 .. spec.max - 1
      <4>1. Recent(Recorded) = 1 .. d
        <5>1. \A k \in 1 .. d : now - Recorded[k] <= spec.window
          <6>1. ASSUME NEW k \in 1 .. d
                PROVE  now - Recorded[k] <= spec.window
            <7>1. window[first] <= window[first + k - 1]
              BY <1>3, <2>5, <2>6
            <7>2. Recorded[k] = window[first + k - 1]
              BY <2>1
            <7>3. window[first] \in Nat /\ window[first + k - 1] \in Nat
              BY <2>5, <2>6
            <7>4. PICK x, y \in Nat : x = window[first] /\ y = window[first + k - 1]
              BY <7>3
            <7>5. now - x <= spec.window /\ x <= y
              BY <2>1, <7>1, <7>4
            <7>6. now - y <= spec.window
              BY <1>3, <7>5
            <7>7. QED
              BY <7>2, <7>4, <7>6
          <6>2. QED
            BY <6>1
        <5>2. DOMAIN Recorded = 1 .. d
          BY <2>2, <2>4
        <5>3. QED
          BY <5>1, <5>2 DEF Recent
      <4>2. Cardinality(1 .. d) = d
        <5>1. 1 \in Int /\ d \in Int /\ ~(1 > d)
          BY <2>4
        <5>2. Cardinality(1 .. d) = d - 1 + 1
          BY <5>1, FS_Interval
        <5>3. QED
          BY <2>4, <5>2
      <4>3. ~(d >= spec.max)
        BY <2>9, <4>1, <4>2 DEF Exhausted
      <4>4. QED
        BY <1>3, <2>4, <4>3
    <3>4. n - m >= 0
      BY <1>2, <1>4 DEF BudgetInv
    <3>5. ASSUME NEW i \in 1 .. n, NEW q \in 1 .. d, i < q + (n - m + first - 1)
          PROVE  restarts[i] <= failures'[q]
      <4>1. failures'[q] = window[first + q - 1]
        BY <2>4
      <4>2. CASE first + q - 1 = m + 1
        <5>1. restarts[i] <= now
          BY <1>3 DEF BudgetInv, Ascending
        <5>2. QED
          BY <2>3, <4>1, <4>2, <5>1
      <4>3. CASE first + q - 1 # m + 1
        <5>1. first + q - 1 \in 1 .. m
          BY <1>3, <2>6, <4>3
        <5>2. i < (first + q - 1) + Pruned
          BY <1>3, <1>4, <3>5
        <5>3. restarts[i] <= failures[first + q - 1]
          BY <1>2, <1>3, <5>1, <5>2 DEF BudgetInv
        <5>4. QED
          BY <2>3, <4>1, <5>1, <5>3
      <4>4. QED
        BY <4>2, <4>3
    <3>6. ASSUME NEW i \in 1 .. n, i < n - m + first - 1
          PROVE  restarts[i] + spec.window < failures'[d]
      <4>1. failures'[d] = now
        <5>1. first + d - 1 = m + 1
          BY <1>3
        <5>2. QED
          BY <2>3, <2>4, <5>1
      <4>2. CASE i < Pruned
        <5>1. failures # <<>> /\ restarts[i] + spec.window < failures[m]
          BY <1>2, <1>3, <4>2 DEF BudgetInv
        <5>2. m \in 1 .. m
          <6>1. m # 0
            BY <5>1, EmptySeq DEF TypeOK, BookTypes
          <6>2. QED
            BY <1>3, <6>1
        <5>3. failures[m] <= now
          BY <1>3, <5>2 DEF BudgetInv, Ascending
        <5>4. QED
          BY <1>3, <4>1, <5>1, <5>2, <5>3, SMTT(30)
      <4>3. CASE ~(i < Pruned)
        <5> DEFINE k == first - 1
        <5>1. k \in 1 .. m /\ i < k + Pruned
          BY <1>3, <1>4, <3>6, <4>3
        <5>2. restarts[i] <= failures[k]
          BY <1>2, <1>3, <5>1 DEF BudgetInv
        <5>3. now - failures[k] > spec.window
          BY <2>1, <2>3, <5>1
        <5>4. QED
          BY <1>3, <4>1, <5>1, <5>2, <5>3
      <4>4. QED
        BY <4>2, <4>3
    <3>7. failures' # <<>>
      BY <2>2, <2>4, EmptySeq
    <3>8. Pruned' >= 0
      BY <1>3, <3>2, <3>4
    <3>9. \A i, j \in DOMAIN restarts' :
            i <= j /\ restarts'[j] <= restarts'[i] + spec'.window => j - i < spec'.max
      BY <1>1 DEF BudgetInv
    <3>10. \A i \in DOMAIN restarts' : \A q \in DOMAIN failures' :
             i < q + Pruned' => restarts'[i] <= failures'[q]
      BY <1>1, <1>3, <2>4, <3>2, <3>5
    <3>11. \A i \in DOMAIN restarts' :
             i < Pruned' => /\ failures' # <<>>
                            /\ restarts'[i] + spec'.window < failures'[Len(failures')]
      BY <1>1, <1>3, <2>4, <3>2, <3>6, <3>7
    <3>12. Owed' = 1 => Len(failures') \in 1 .. spec'.max - 1
      <4>1. Len(failures') = d /\ spec' = spec
        BY <1>1, <2>4
      <4>2. QED
        BY <3>3, <4>1
    <3>13. QED
      BY <2>7, <3>8, <3>9, <3>10, <3>11, <3>12 DEF BudgetInv
  <2>10. QED
    BY <2>8, <2>9
<1>7. QED
  BY <1>5, <1>6

(* A restart settles the debt, and is one the budget has room for.         *)
LEMMA BudgetSpent ==
  ASSUME TypeOK, BudgetInv, UNCHANGED <<spec, now, failures>>,
         restarts' = Append(restarts, now),
         engine.at \in Awaits, engine'.at \notin Awaits
  PROVE  BudgetInv'
<1> DEFINE m == Len(failures)
           n == Len(restarts)
<1>1. /\ m \in Nat /\ n \in Nat /\ DOMAIN failures = 1 .. m /\ DOMAIN restarts = 1 .. n
      /\ \A i \in 1 .. m : failures[i] \in Nat
      /\ \A i \in 1 .. n : restarts[i] \in Nat
      /\ now \in Nat /\ spec.window \in Nat /\ spec.max \in Nat
  BY BookFacts
<1>2. /\ Len(restarts') = n + 1 /\ DOMAIN restarts' = 1 .. n + 1
      /\ \A i \in 1 .. n : restarts'[i] = restarts[i]
      /\ restarts'[n + 1] = now
  BY <1>1, AppendedIs DEF TypeOK, BookTypes
<1>3. engine.at \in Active
  BY DEF Active
<1>4. Pruned = n + 1 - m /\ Pruned' = n + 1 - m /\ Owed = 1 /\ Owed' = 0
  BY <1>1, <1>2 DEF Pruned, Owed
<1>5. m \in 1 .. spec.max - 1 /\ Pruned >= 0
  BY <1>3, <1>4 DEF BudgetInv
<1>6. /\ \A i \in 1 .. n : restarts[i] <= now
      /\ \A i, j \in 1 .. n : i <= j => restarts[i] <= restarts[j]
  BY <1>1 DEF BudgetInv, Ascending
<1>7. Ascending(failures)' /\ Ascending(restarts)'
  <2>1. Ascending(failures)'
    BY DEF BudgetInv, Ascending
  <2>2. \A i \in 1 .. n + 1 : restarts'[i] <= now
    BY <1>1, <1>2, <1>6
  <2>3. \A i, j \in 1 .. n + 1 : i <= j => restarts'[i] <= restarts'[j]
    BY <1>1, <1>2, <1>6
  <2>4. QED
    BY <1>2, <2>1, <2>2, <2>3 DEF Ascending
<1>8. ASSUME NEW i \in 1 .. n + 1, NEW j \in 1 .. n + 1, i <= j,
             restarts'[j] <= restarts'[i] + spec.window
      PROVE  j - i < spec.max
  <2>1. CASE j \in 1 .. n
    <3>1. i \in 1 .. n
      BY <1>1, <1>8, <2>1
    <3>2. restarts[j] <= restarts[i] + spec.window
      BY <1>2, <1>8, <2>1, <3>1
    <3>3. QED
      BY <1>1, <1>8, <2>1, <3>1, <3>2 DEF BudgetInv
  <2>2. CASE j = n + 1 /\ i \in 1 .. n
    <3>1. now <= restarts[i] + spec.window
      BY <1>2, <1>8, <2>2
    <3>2. ~(i < Pruned)
      <4>1. ASSUME i < Pruned
            PROVE  FALSE
        <5>1. restarts[i] + spec.window < failures[m]
          BY <1>1, <1>3, <2>2, <4>1 DEF BudgetInv
        <5>2. failures[m] <= now /\ failures[m] \in Nat
          BY <1>1, <1>5 DEF BudgetInv, Ascending
        <5>3. QED
          BY <1>1, <2>2, <3>1, <5>1, <5>2
      <4>2. QED
        BY <4>1
    <3>3. QED
      BY <1>1, <1>4, <1>5, <2>2, <3>2
  <2>3. CASE j = n + 1 /\ i = n + 1
    BY <1>1, <1>5, <2>3
  <2>4. QED
    BY <1>1, <2>1, <2>2, <2>3
<1>9. ASSUME NEW i \in 1 .. n + 1, NEW q \in 1 .. m, i < q + (n + 1 - m)
      PROVE  restarts'[i] <= failures[q]
  <2>1. i \in 1 .. n /\ i < q + Pruned
    BY <1>1, <1>4, <1>9
  <2>2. restarts[i] <= failures[q]
    BY <1>1, <1>3, <2>1 DEF BudgetInv
  <2>3. QED
    BY <1>2, <2>1, <2>2
<1>10. ASSUME NEW i \in 1 .. n + 1, i < n + 1 - m
       PROVE  failures # <<>> /\ restarts'[i] + spec.window < failures[m]
  <2>1. i \in 1 .. n /\ i < Pruned
    BY <1>1, <1>4, <1>10
  <2>2. failures # <<>> /\ restarts[i] + spec.window < failures[m]
    BY <1>1, <1>3, <2>1 DEF BudgetInv
  <2>3. QED
    BY <1>2, <2>1, <2>2
<1>11. QED
  <2>1. \A i, j \in DOMAIN restarts' :
          i <= j /\ restarts'[j] <= restarts'[i] + spec'.window => j - i < spec'.max
    BY <1>2, <1>8
  <2>2. /\ Pruned' >= 0
        /\ Owed' = 1 => Len(failures') \in 1 .. spec'.max - 1
        /\ \A i \in DOMAIN restarts' : \A q \in DOMAIN failures' :
             i < q + Pruned' => restarts'[i] <= failures'[q]
        /\ \A i \in DOMAIN restarts' :
             i < Pruned' => /\ failures' # <<>>
                            /\ restarts'[i] + spec'.window < failures'[Len(failures')]
    BY <1>1, <1>2, <1>4, <1>5, <1>9, <1>10
  <2>3. QED
    BY <1>7, <2>1, <2>2 DEF BudgetInv

(* Every step keeps the budget's invariant.                                *)
LEMMA StepBudget ==
  ASSUME TypeOK, BudgetInv, [Next]_vars
  PROVE  BudgetInv'
<1>1. CASE Tick
  <2>1. now' = now + 1 /\ UNCHANGED <<spec, failures, restarts, engine>>
    BY <1>1 DEF Tick, bookVars
  <2>2. Ascending(failures)' /\ Ascending(restarts)'
    <3>1. ASSUME NEW times, Ascending(times), \A i \in DOMAIN times : times[i] \in Nat
          PROVE  \A i \in DOMAIN times : times[i] <= now'
      BY <2>1, <3>1, BookFacts DEF Ascending
    <3>2. QED
      BY <2>1, <3>1, BookFacts DEF Ascending, BudgetInv
  <2>3. Owed' = Owed /\ Pruned' = Pruned
    BY <2>1 DEF Owed, Pruned
  <2>4. QED
    BY <2>1, <2>2, <2>3 DEF BudgetInv
<1>2. CASE Send \/ StopStep \/ StopSignals \/ StopAborts \/ Respawn \/ Shutdown
           \/ UNCHANGED vars
  <2>1. UNCHANGED <<spec, now, failures, restarts, engine>>
    BY <1>2 DEF Send, StopStep, StopJoins, Teardown, StopSignals, StopAborts, Respawn,
                Shutdown, vars, bookVars
  <2>2. QED
    BY <2>1, BudgetKept
<1>3. ASSUME NEW l \in Loops, LoopStep(l) \/ InitFails(l) \/ Crash(l)
      PROVE  BudgetInv'
  <2>1. UNCHANGED <<spec, now, failures, restarts>>
    BY <1>3 DEF LoopStep, LoopStarts, Take, TakePanics, Finish, LoopStops, InitFails, Crash,
                bookVars
  <2>2. engine' = engine \/ (engine.at = "parked" /\ engine' = [engine EXCEPT !.at = "woken"])
    BY <1>3 DEF LoopStep, LoopStarts, Take, TakePanics, Finish, LoopStops, InitFails, Crash,
                Woken
  <2>3. engine'.at = engine.at \/ (engine.at = "parked" /\ engine'.at = "woken")
    BY <2>2 DEF TypeOK, TaskTypes
  <2>4. QED
    BY <2>1, <2>3, BudgetKept DEF Active, Watching, Awaits
<1>4. CASE EngineExits \/ EngineChecks \/ EngineParks \/ Escalate \/ RestartBegins
           \/ RestartLoads \/ EngineRearms
  <2>1. UNCHANGED <<spec, now, failures, restarts>>
    BY <1>4 DEF EngineExits, EngineChecks, EngineParks, Escalate, RestartBegins,
                RestartLoads, EngineRearms, bookVars
  <2>2. \/ engine'.at \in {"done", "dead"}
        \/ engine.at \in {"spawned", "watch", "woken", "checked"}
             /\ engine'.at \in {"judge", "watch", "checked", "parked"}
        \/ engine.at \in Awaits /\ engine'.at \in {"loading", "rebuilding"}
    BY <1>4 DEF EngineExits, EngineChecks, EngineParks, Escalate, RestartBegins,
                RestartLoads, EngineRearms, Goto, TypeOK, TaskTypes, Awaits
  <2>3. QED
    BY <2>1, <2>2, BudgetKept DEF Active, Watching, Awaits
<1>5. CASE EngineJudges
  BY <1>5, BudgetJudged
<1>6. CASE RestartEs \/ RestartFresh
  <2>1. UNCHANGED <<spec, now, failures>> /\ engine.at \in Awaits
    BY <1>6 DEF RestartEs, RestartFresh, Awaits
  <2>2. \/ engine'.at = "dead" /\ restarts' = restarts
        \/ engine'.at \in {"watch", "spawned"} /\ restarts' = Append(restarts, now)
    BY <1>6 DEF RestartEs, RestartFresh, Goto, TypeOK, TaskTypes
  <2>3. CASE engine'.at = "dead" /\ restarts' = restarts
    BY <2>1, <2>3, BudgetKept DEF Active, Watching, Awaits
  <2>4. CASE engine'.at \in {"watch", "spawned"} /\ restarts' = Append(restarts, now)
    BY <2>1, <2>4, BudgetSpent DEF Awaits
  <2>5. QED
    BY <2>2, <2>3, <2>4
<1>7. QED
  BY <1>1, <1>2, <1>3, <1>4, <1>5, <1>6 DEF Next, EngineStep

(* The budget's invariant of a child that has not been restarted.          *)
LEMMA InitBudget ==
  ASSUME Init
  PROVE  BudgetInv
<1>1. failures = <<>> /\ restarts = <<>> /\ engine.at = "watch"
  BY DEF Init
<1>2. DOMAIN failures = {} /\ DOMAIN restarts = {} /\ Len(failures) = 0 /\ Len(restarts) = 0
  BY <1>1
<1>3. Owed = 0 /\ Pruned = 0
  BY <1>1, <1>2 DEF Owed, Pruned, Awaits
<1>4. QED
  BY <1>2, <1>3 DEF BudgetInv, Ascending

(* Restarts that lie within a window of one another are fewer than the     *)
(* budget apart in the order they were done, so they are not more than it. *)
LEMMA BudgetBounds ==
  ASSUME TypeOK, BudgetInv
  PROVE  WithinBudget
<1>1. /\ Len(restarts) \in Nat /\ DOMAIN restarts = 1 .. Len(restarts)
      /\ \A i \in 1 .. Len(restarts) : restarts[i] \in Nat
      /\ spec.window \in Nat /\ spec.max \in Nat
  BY BookFacts
<1>2. ASSUME NEW i \in DOMAIN restarts
      PROVE  Cardinality({j \in DOMAIN restarts :
                            restarts[j] \in restarts[i] .. restarts[i] + spec.window})
               <= spec.max
  <2> DEFINE S == {j \in DOMAIN restarts :
                     restarts[j] \in restarts[i] .. restarts[i] + spec.window}
  <2>1. S \subseteq 0 .. Len(restarts)
    BY <1>1
  <2>2. ASSUME NEW j \in S, NEW k \in S, j <= k
        PROVE  k - j < spec.max
    <3>1. restarts[k] <= restarts[i] + spec.window /\ restarts[i] <= restarts[j]
      BY <1>1
    <3>2. restarts[k] <= restarts[j] + spec.window
      BY <1>1, <3>1
    <3>3. QED
      BY <2>2, <3>2 DEF BudgetInv
  <2> HIDE DEF S
  <2>3. Cardinality(S) <= spec.max
    BY <1>1, <2>1, <2>2, NarrowSet
  <2>4. QED
    BY <2>3 DEF S
<1>3. QED
  BY <1>2 DEF WithinBudget

(* A supervised child is restarted at most max times within any window,    *)
(* wherever the window is laid (FailureWindow, supervise_child).           *)
THEOREM RestartsWithinBudget == Spec => []WithinBudget
<1>1. Init => TypeOK /\ BudgetInv
  BY InitTypes, InitBudget
<1>2. TypeOK /\ BudgetInv /\ [Next]_vars => TypeOK' /\ BudgetInv'
  BY StepTypes, StepBudget
<1>3. TypeOK /\ BudgetInv => WithinBudget
  BY BudgetBounds
<1>4. QED
  BY <1>1, <1>2, <1>3, PTL DEF Spec

----------------------------------------------------------------------------
(* The loops of an event-sourced child, and its mail.                      *)

AtWork == {l \in Loops : loops[l].at \in Working}

(* While the engine deals with a crash it has seen, or has one to see, no  *)
(* loop of the child is at work.                                           *)
LoopInv ==
  IsEs /\ ~respawned =>
    /\ \A k, l \in AtWork : k = l
    /\ engine.at \in {"judge", "escalate"} \cup Awaits \/ (engine.at \in Watching /\ SeesCrash)
         => AtWork = {}
    /\ engine.at \in Active \ {"spawned"} => live \in {0, engine.cell}
    /\ engine.at \in {"loading", "rebuilding"} => engine.target = engine.cell
    /\ slot \in {0, live}
    /\ engine.at \in Active => esState \/ live = 0

(* A claim is in hand only while a step is under way.                      *)
HandInv ==
  IsEs => \A l \in Loops : loops[l].at # "busy" => loops[l].hand = {}

(* What is in hand comes back to a cell that is known, or dead-letters.    *)
MailInv ==
  IsEs /\ ~respawned =>
    /\ MailAccounted
    /\ \A l \in AtWork : loops[l].cell = live \/ cells[loops[l].cell].stopping
    /\ \A c \in Cells : cells[c].handle # 0 => loops[cells[c].handle].cell = c
    /\ host.at = "joining" => live # 0 /\ loops[host.loop].cell = live

(* What no step does to the cells and loops there are, and what only a     *)
(* crash does.                                                             *)
KidFrame ==
  /\ \A l \in Loops : /\ loops'[l].cell = loops[l].cell
                      /\ loops'[l].at \in Working => loops[l].at \in Working
                      /\ loops'[l].at # "busy" => loops'[l].hand = {}
  /\ \A c \in Cells : /\ cells[c].stopping => cells'[c].stopping
                      /\ cells'[c].handle \in {0, cells[c].handle}
                      /\ cells'[c].crashed => cells[c].crashed \/ crashes' # crashes

(* The loops keep to it,                                                   *)
LEMMA LoopFrame ==
  ASSUME TypeOK, HandInv, IsEs, NEW l \in Loops, LoopStep(l) \/ InitFails(l) \/ Crash(l)
  PROVE  KidFrame /\ Cells' = Cells /\ Loops' = Loops
<1>1. KidTypes
  BY DEF TypeOK
<1>2. loops[l] \in LoopRecord(cells) /\ DOMAIN loops = Loops /\ DOMAIN cells = Cells
  BY <1>1, Fields DEF Loops, Cells
<1>3. \A c \in Cells : cells[c] \in CellRecord(loops)
  BY <1>1, Fields
<1>4. ASSUME NEW r, loops' = [loops EXCEPT ![l] = r], r.cell = loops[l].cell,
             r.at \in Working => loops[l].at \in Working,
             r.at # "busy" => r.hand = {}
      PROVE  /\ \A k \in Loops : /\ loops'[k].cell = loops[k].cell
                                 /\ loops'[k].at \in Working => loops[k].at \in Working
                                 /\ loops'[k].at # "busy" => loops'[k].hand = {}
             /\ Loops' = Loops
  BY <1>2, <1>4 DEF HandInv, Loops
<1>5. ASSUME NEW c \in Cells, NEW q, cells' = [cells EXCEPT ![c] = q],
             q.stopping = cells[c].stopping, q.handle = cells[c].handle,
             q.crashed => cells[c].crashed \/ crashes' # crashes
      PROVE  /\ \A d \in Cells :
                  /\ cells[d].stopping => cells'[d].stopping
                  /\ cells'[d].handle \in {0, cells[d].handle}
                  /\ cells'[d].crashed => cells[d].crashed \/ crashes' # crashes
             /\ Cells' = Cells
  BY <1>2, <1>5 DEF Cells
<1>6. cells' = cells =>
        /\ \A d \in Cells :
             /\ cells[d].stopping => cells'[d].stopping
             /\ cells'[d].handle \in {0, cells[d].handle}
             /\ cells'[d].crashed => cells[d].crashed \/ crashes' # crashes
        /\ Cells' = Cells
  BY DEF Cells
<1> DEFINE c == loops[l].cell
<1>7. c \in Cells
  BY <1>1, Fields
<1>8. CASE LoopStarts(l) \/ TakePanics(l) \/ Finish(l) \/ LoopStops(l)
  <2>1. cells' = cells
    BY <1>8 DEF LoopStarts, HandleStored, TakePanics, Finish, LoopStops
  <2>2. \E r : /\ loops' = [loops EXCEPT ![l] = r] /\ r.cell = loops[l].cell
               /\ r.at \in Working => loops[l].at \in Working
               /\ r.at # "busy" => r.hand = {}
    <3>1. CASE LoopStarts(l)
      <4> DEFINE r == [loops[l] EXCEPT !.at = "idle"]
      <4>1. loops' = [loops EXCEPT ![l] = r] /\ loops[l].at = "init" /\ loops[l].hand = {}
        BY <3>1 DEF LoopStarts, HandInv
      <4>2. r.cell = loops[l].cell /\ r.hand = {}
        BY <1>2, <4>1 DEF LoopRecord
      <4>3. QED
        BY <4>1, <4>2 DEF Working
    <3>2. CASE TakePanics(l) \/ LoopStops(l)
      <4> DEFINE r == [loops[l] EXCEPT !.at = "ended"]
      <4>1. loops' = [loops EXCEPT ![l] = r] /\ loops[l].at = "idle" /\ loops[l].hand = {}
        BY <3>2 DEF TakePanics, LoopStops, HandInv
      <4>2. r.cell = loops[l].cell /\ r.hand = {}
        BY <1>2, <4>1 DEF LoopRecord
      <4>3. QED
        BY <4>1, <4>2 DEF Working
    <3>3. CASE Finish(l)
      <4> DEFINE r == [loops[l] EXCEPT !.at = "idle", !.hand = {}]
      <4>1. loops' = [loops EXCEPT ![l] = r] /\ loops[l].at = "busy"
        BY <1>2, <3>3 DEF Finish, LoopRecord
      <4>2. r.cell = loops[l].cell /\ r.hand = {}
        BY <1>2 DEF LoopRecord
      <4>3. QED
        BY <4>1, <4>2 DEF Working
    <3>4. QED
      BY <1>8, <3>1, <3>2, <3>3
  <2>3. QED
    BY <1>4, <1>6, <2>1, <2>2 DEF KidFrame
<1>9. CASE Take(l)
  <2> DEFINE m == Oldest(cells[c].mail)
             r == [loops[l] EXCEPT !.at = "busy", !.hand = {m}]
             q == [cells[c] EXCEPT !.mail = @ \ {m}]
  <2>1. loops' = [loops EXCEPT ![l] = r] /\ loops[l].at = "idle"
    BY <1>2, <1>9 DEF Take, LoopRecord
  <2>2. cells' = [cells EXCEPT ![c] = q]
    BY <1>9 DEF Take
  <2>3. r.cell = loops[l].cell /\ r.at = "busy"
    BY <1>2 DEF LoopRecord
  <2>4. q.stopping = cells[c].stopping /\ q.handle = cells[c].handle
        /\ q.crashed = cells[c].crashed
    BY <1>3, <1>7 DEF CellRecord
  <2>5. /\ \A k \in Loops : /\ loops'[k].cell = loops[k].cell
                            /\ loops'[k].at \in Working => loops[k].at \in Working
                            /\ loops'[k].at # "busy" => loops'[k].hand = {}
        /\ Loops' = Loops
    BY <1>4, <2>1, <2>3 DEF Working
  <2> HIDE DEF q
  <2>6. QED
    BY <1>5, <1>7, <2>2, <2>4, <2>5 DEF KidFrame
<1>10. CASE Crash(l)
  <2> DEFINE r == [loops[l] EXCEPT !.at = "ended", !.hand = {}]
             q == [cells[c] EXCEPT !.crashed = TRUE,
                     !.mail = IF cells[c].stopping THEN @ ELSE @ \cup loops[l].hand]
  <2>1. loops' = [loops EXCEPT ![l] = r] /\ cells' = [cells EXCEPT ![c] = q]
    BY <1>2, <1>3, <1>7, <1>10 DEF Crash, LoopRecord, CellRecord
  <2>2. r.cell = loops[l].cell /\ r.at = "ended" /\ r.hand = {}
    BY <1>2 DEF LoopRecord
  <2>3. q.stopping = cells[c].stopping /\ q.handle = cells[c].handle
    BY <1>3, <1>7 DEF CellRecord
  <2>4. /\ \A k \in Loops : /\ loops'[k].cell = loops[k].cell
                            /\ loops'[k].at \in Working => loops[k].at \in Working
                            /\ loops'[k].at # "busy" => loops'[k].hand = {}
        /\ Loops' = Loops
    BY <1>4, <2>1, <2>2 DEF Working
  <2>5. crashes' # crashes
    BY <1>10 DEF Crash, TypeOK, BookTypes
  <2> HIDE DEF q
  <2>6. QED
    BY <1>5, <1>7, <2>1, <2>3, <2>4, <2>5 DEF KidFrame
<1>11. ~InitFails(l)
  BY DEF InitFails
<1>12. QED
  BY <1>8, <1>9, <1>10, <1>11 DEF LoopStep

(* and so does every other step, of which only a restart and a spawn bring *)
(* loops and cells.                                                        *)
LEMMA StepFrame ==
  ASSUME TypeOK, HandInv, IsEs, [Next]_vars
  PROVE  KidFrame /\ (RestartEs \/ SpawnChild \/ (Cells' = Cells /\ Loops' = Loops))
<1> DEFINE LoopsKept ==
             \A k \in Loops : /\ loops'[k].cell = loops[k].cell
                              /\ loops'[k].at \in Working => loops[k].at \in Working
                              /\ loops'[k].at # "busy" => loops'[k].hand = {}
           CellsKept ==
             \A d \in Cells :
               /\ cells[d].stopping => cells'[d].stopping
               /\ cells'[d].handle \in {0, cells[d].handle}
               /\ cells'[d].crashed => cells[d].crashed \/ crashes' # crashes
<1>1. KidTypes
  BY DEF TypeOK
<1>2. /\ \A l \in Loops : loops[l] \in LoopRecord(cells)
      /\ \A c \in Cells : cells[c] \in CellRecord(loops)
      /\ DOMAIN loops = Loops /\ DOMAIN cells = Cells
      /\ Len(cells) \in Nat /\ Cells = 1 .. Len(cells)
      /\ Len(loops) \in Nat /\ Loops = 1 .. Len(loops)
  BY <1>1, Fields DEF Loops, Cells
<1>3. loops' = loops => LoopsKept /\ Loops' = Loops
  BY DEF HandInv, Loops
<1>4. cells' = cells => CellsKept /\ Cells' = Cells
  BY DEF Cells
<1>5. ASSUME NEW l \in Loops, NEW r, loops' = [loops EXCEPT ![l] = r],
             r.cell = loops[l].cell, r.at \in {loops[l].at, "ended"},
             r.at # "busy" => r.hand = {}
      PROVE  LoopsKept /\ Loops' = Loops
  BY <1>2, <1>5 DEF HandInv, Loops, Working
<1>6. ASSUME NEW c \in Cells, NEW q, cells' = [cells EXCEPT ![c] = q],
             cells[c].stopping => q.stopping, q.handle \in {0, cells[c].handle},
             q.crashed => cells[c].crashed
      PROVE  CellsKept /\ Cells' = Cells
  BY <1>2, <1>6 DEF Cells
<1>7. CASE UNCHANGED kids
  BY <1>3, <1>4, <1>7 DEF kids, KidFrame
<1>8. CASE Send /\ slot # 0
  <2> DEFINE q == [cells[slot] EXCEPT !.mail = @ \cup {sent + 1}]
  <2>1. slot \in Cells /\ loops' = loops /\ cells' = [cells EXCEPT ![slot] = q]
    BY <1>8 DEF Send, TypeOK, TableTypes
  <2>2. q.stopping = cells[slot].stopping /\ q.handle = cells[slot].handle
        /\ q.crashed = cells[slot].crashed
    BY <1>2, <2>1 DEF CellRecord
  <2> HIDE DEF q
  <2>3. CellsKept /\ Cells' = Cells
    BY <1>6, <2>1, <2>2
  <2>4. QED
    BY <1>3, <2>1, <2>3 DEF KidFrame
<1>9. CASE (Escalate \/ EngineRearms) /\ live # 0
  <2> DEFINE q == [cells[live] EXCEPT !.crashed = FALSE]
  <2>1. live \in Cells /\ loops' = loops /\ cells' = [cells EXCEPT ![live] = q]
    BY <1>9 DEF Escalate, EngineRearms, TypeOK, TableTypes
  <2>2. q.stopping = cells[live].stopping /\ q.handle = cells[live].handle
        /\ q.crashed = FALSE
    BY <1>2, <2>1 DEF CellRecord
  <2> HIDE DEF q
  <2>3. CellsKept /\ Cells' = Cells
    BY <1>6, <2>1, <2>2
  <2>4. QED
    BY <1>3, <2>1, <2>3 DEF KidFrame
<1>10. CASE RestartEs
  <2> DEFINE c == engine.target
             q == [cells[c] EXCEPT !.crashed = FALSE]
  <2>1. c \in Cells /\ cells' = [cells EXCEPT ![c] = q]
    BY <1>10 DEF RestartEs, ClearCrashed, TypeOK, TaskTypes
  <2>2. q.stopping = cells[c].stopping /\ q.handle = cells[c].handle /\ q.crashed = FALSE
    BY <1>2, <2>1 DEF CellRecord
  <2>3. CellsKept
    <3> HIDE DEF q, c
    <3>1. QED
      BY <1>6, <2>1, <2>2
  <2>4. CASE loops' = loops
    BY <1>3, <1>10, <2>3, <2>4 DEF KidFrame
  <2>5. CASE loops' = Append(loops, NewLoop(c))
    <3>1. c \in DOMAIN cells
      BY <1>2, <2>1
    <3>2. NewLoop(c) \in LoopRecord(cells)
      BY <3>1 DEF LoopRecord, NewLoop, Working
    <3>3. \A k \in DOMAIN loops : loops'[k] = loops[k]
      BY <1>1, <2>5, <3>2, AppendedIs DEF KidTypes
    <3>4. LoopsKept
      BY <1>2, <3>3 DEF HandInv
    <3>5. QED
      BY <1>10, <2>3, <3>4 DEF KidFrame
  <2>6. loops' = loops \/ loops' = Append(loops, NewLoop(c))
    BY <1>10 DEF RestartEs
  <2>7. QED
    BY <2>4, <2>5, <2>6
<1>11. CASE SpawnChild
  <2>1. /\ \A c \in Cells : cells'[c] = cells[c]
        /\ \A l \in Loops : loops'[l] = loops[l]
    BY <1>1, <1>11, SpawnKids
  <2>2. LoopsKept /\ CellsKept
    BY <2>1 DEF HandInv
  <2>3. QED
    BY <1>11, <2>2 DEF KidFrame
<1>12. CASE StopSignals /\ ~UNCHANGED kids
  <2> DEFINE h == cells[live].handle
             q == [cells[live] EXCEPT !.handle = 0]
             r == [loops[h] EXCEPT !.told = TRUE]
  <2>1. live # 0 /\ h # 0
    BY <1>12 DEF StopSignals
  <2>2. /\ live \in Cells /\ cells' = [cells EXCEPT ![live] = q]
        /\ loops' = [loops EXCEPT ![h] = r]
    BY <1>12, <2>1 DEF StopSignals, TypeOK, TableTypes
  <2>3. h \in Loops
    BY <1>2, <2>1, <2>2 DEF CellRecord
  <2>4. /\ q.stopping = cells[live].stopping /\ q.handle = 0
        /\ q.crashed = cells[live].crashed
    BY <1>2, <2>2 DEF CellRecord
  <2>5. r.cell = loops[h].cell /\ r.at = loops[h].at /\ r.hand = loops[h].hand
    <3> HIDE DEF h
    <3>1. QED
      BY <1>2, <2>3 DEF LoopRecord
  <2>6. r.at # "busy" => r.hand = {}
    BY <2>3, <2>5 DEF HandInv
  <2> HIDE DEF q, r, h
  <2>7. CellsKept /\ Cells' = Cells
    BY <1>6, <2>2, <2>4
  <2>8. LoopsKept /\ Loops' = Loops
    BY <1>5, <2>2, <2>3, <2>5, <2>6
  <2>9. QED
    BY <2>7, <2>8 DEF KidFrame
<1>13. CASE StopAborts
  <2> DEFINE l == host.loop
             c == loops[l].cell
             r == [loops[l] EXCEPT !.at = "ended", !.hand = {}]
             q == [cells[c] EXCEPT !.mail = @ \cup loops[l].hand]
  <2>1. l \in Loops /\ c \in Cells
    BY <1>1, <1>13, Fields DEF StopAborts, TypeOK, TaskTypes
  <2>2. loops' = [loops EXCEPT ![l] = r] /\ cells' = [cells EXCEPT ![c] = q]
    BY <1>2, <1>13, <2>1 DEF StopAborts, LoopRecord
  <2>3. q.stopping = cells[c].stopping /\ q.handle = cells[c].handle
        /\ q.crashed = cells[c].crashed
    BY <1>2, <2>1 DEF CellRecord
  <2>4. r.cell = loops[l].cell /\ r.at = "ended" /\ r.hand = {}
    BY <1>2, <2>1 DEF LoopRecord
  <2> HIDE DEF q, r
  <2>5. CellsKept /\ Cells' = Cells
    BY <1>6, <2>1, <2>2, <2>3
  <2>6. LoopsKept /\ Loops' = Loops
    BY <1>5, <2>1, <2>2, <2>4
  <2>7. QED
    BY <2>5, <2>6 DEF KidFrame
<1>14. CASE Teardown /\ live # 0
  <2> DEFINE q == [cells[live] EXCEPT !.stopping = TRUE, !.mail = {}]
  <2>1. live \in Cells /\ loops' = loops /\ cells' = [cells EXCEPT ![live] = q]
    BY <1>2, <1>14 DEF Teardown, TypeOK, TableTypes, CellRecord
  <2>2. q.stopping = TRUE /\ q.handle = cells[live].handle
        /\ q.crashed = cells[live].crashed
    BY <1>2, <2>1 DEF CellRecord
  <2> HIDE DEF q
  <2>3. CellsKept /\ Cells' = Cells
    BY <1>6, <2>1, <2>2
  <2>4. QED
    BY <1>3, <2>1, <2>3 DEF KidFrame
<1>15. CASE (Send /\ slot = 0) \/ ((Escalate \/ EngineRearms \/ Teardown) /\ live = 0)
  <2>1. UNCHANGED kids
    BY <1>15 DEF Send, Escalate, EngineRearms, Teardown, kids
  <2>2. QED
    BY <1>7, <2>1
<1>16. CASE EngineExits \/ EngineChecks \/ EngineParks \/ EngineJudges \/ RestartBegins
            \/ RestartLoads \/ Tick \/ StopJoins \/ Shutdown \/ UNCHANGED vars
  <2>1. UNCHANGED kids
    BY <1>16 DEF EngineExits, EngineChecks, EngineParks, EngineJudges, RestartBegins,
                 RestartLoads, Tick, StopJoins, Shutdown, vars
  <2>2. QED
    BY <1>7, <2>1
<1>17. CASE \E l \in Loops : LoopStep(l) \/ InitFails(l) \/ Crash(l)
  BY <1>17, LoopFrame
<1>18. CASE RestartFresh \/ Respawn
  <2>1. SpawnChild
    BY <1>18 DEF RestartFresh, Respawn
  <2>2. QED
    BY <1>11, <2>1
<1>19. QED
  BY <1>7, <1>8, <1>9, <1>10, <1>12, <1>13, <1>14, <1>15, <1>16, <1>17, <1>18
  DEF Next, EngineStep, StopStep

(* The child's spec does not change, and a host that has spawned it has.   *)
LEMMA SpecKept ==
  ASSUME [Next]_vars
  PROVE  spec' = spec /\ (respawned' = respawned \/ Respawn)
BY DEF Next, vars, hostVars, Send, Tick, EngineStep, EngineExits, EngineChecks, EngineParks,
   EngineJudges, Escalate, RestartBegins, RestartLoads, RestartEs, RestartFresh,
   EngineRearms, StopStep, StopJoins, Teardown, StopSignals, StopAborts, Respawn, Shutdown,
   LoopStep, LoopStarts, Take, TakePanics, Finish, LoopStops, InitFails, Crash

(* A restart in place clears the cell's flag and may bring a loop.         *)
LEMMA RestartKids ==
  ASSUME TypeOK, RestartEs
  PROVE  /\ engine.target \in Cells /\ Cells' = Cells
         /\ ~cells'[engine.target].crashed
         /\ \A c \in Cells : cells'[c].mail = cells[c].mail
         /\ slot = 0 => Loops' = Loops
         /\ slot # 0 => /\ Loops' = 1 .. Len(loops) + 1
                        /\ loops'[Len(loops) + 1] = NewLoop(engine.target)
         /\ \A l \in Loops : loops'[l] = loops[l]
<1> DEFINE c == engine.target
           q == [cells[c] EXCEPT !.crashed = FALSE]
<1>1. /\ \A d \in Cells : cells[d] \in CellRecord(loops)
      /\ DOMAIN loops = Loops /\ DOMAIN cells = Cells
      /\ Len(loops) \in Nat /\ Loops = 1 .. Len(loops)
  BY Fields DEF TypeOK, Loops, Cells
<1>2. c \in Cells /\ cells' = [cells EXCEPT ![c] = q]
  BY DEF RestartEs, ClearCrashed, TypeOK, TaskTypes
<1>3. q.crashed = FALSE /\ q.mail = cells[c].mail
  BY <1>1, <1>2 DEF CellRecord
<1>4. /\ Cells' = Cells /\ ~cells'[c].crashed
      /\ \A d \in Cells : cells'[d].mail = cells[d].mail
  <2> HIDE DEF q, c
  <2>1. QED
    BY <1>1, <1>2, <1>3 DEF Cells
<1>5. CASE slot = 0
  <2>1. loops' = loops
    BY <1>5 DEF RestartEs
  <2>2. QED
    BY <1>2, <1>4, <1>5, <2>1 DEF Loops
<1>6. CASE slot # 0
  <2>1. loops' = Append(loops, NewLoop(c))
    BY <1>6 DEF RestartEs
  <2>2. NewLoop(c) \in LoopRecord(cells)
    BY <1>1, <1>2 DEF LoopRecord, NewLoop, Working
  <2>3. /\ DOMAIN loops' = 1 .. Len(loops) + 1
        /\ loops'[Len(loops) + 1] = NewLoop(c)
        /\ \A k \in DOMAIN loops : loops'[k] = loops[k]
    BY <2>1, <2>2, AppendedIs DEF TypeOK, KidTypes
  <2>4. QED
    BY <1>1, <1>2, <1>4, <1>6, <2>3 DEF Loops
<1>7. QED
  BY <1>5, <1>6

(* A loop that comes has nothing in hand.                                  *)
LEMMA StepHands ==
  ASSUME TypeOK, HandInv, [Next]_vars
  PROVE  HandInv'
<1> SUFFICES ASSUME IsEs PROVE HandInv'
  BY SpecKept DEF HandInv, IsEs
<1>1. \A l \in Loops : loops'[l].at # "busy" => loops'[l].hand = {}
  BY StepFrame DEF KidFrame
<1>2. CASE Loops' = Loops
  BY <1>1, <1>2 DEF HandInv
<1>3. CASE Loops' = 1 .. Len(loops) + 1
           /\ \E c : loops'[Len(loops) + 1] = NewLoop(c)
  <2>1. Loops = 1 .. Len(loops) /\ Len(loops) \in Nat
    BY Fields DEF TypeOK
  <2>2. loops'[Len(loops) + 1].hand = {}
    BY <1>3 DEF NewLoop
  <2>3. QED
    BY <1>1, <1>3, <2>1, <2>2 DEF HandInv
<1>4. QED
  BY <1>2, <1>3, StepFrame, RestartKids, SpawnKids DEF TypeOK

(* No step gives the child a second loop, or a loop that its engine is not *)
(* through with.                                                           *)
LEMMA StepLoops ==
  ASSUME TypeOK, HandInv, LoopInv, [Next]_vars
  PROVE  LoopInv'
<1> SUFFICES ASSUME IsEs, ~respawned, ~respawned' PROVE LoopInv'
  BY SpecKept DEF LoopInv, IsEs, Respawn
<1> DEFINE Alone == \A k, l \in AtWork' : k = l
           Away == engine'.at \in {"judge", "escalate"} \cup Awaits
                     \/ (engine'.at \in Watching /\ SeesCrash')
                   => AtWork' = {}
           Known == engine'.at \in Active \ {"spawned"} => live' \in {0, engine'.cell}
           Aimed == engine'.at \in {"loading", "rebuilding"} => engine'.target = engine'.cell
           Led == slot' \in {0, live'}
           Journaled == engine'.at \in Active => esState' \/ live' = 0
<1>1. /\ \A k, l \in AtWork : k = l
      /\ engine.at \in {"judge", "escalate"} \cup Awaits \/ (engine.at \in Watching /\ SeesCrash)
           => AtWork = {}
      /\ engine.at \in Active \ {"spawned"} => live \in {0, engine.cell}
      /\ engine.at \in {"loading", "rebuilding"} => engine.target = engine.cell
      /\ slot \in {0, live}
      /\ engine.at \in Active => esState \/ live = 0
  BY DEF LoopInv
<1>2. /\ \A l \in Loops : loops'[l].at \in Working => loops[l].at \in Working
      /\ \A c \in Cells : cells'[c].crashed => cells[c].crashed \/ crashes' # crashes
      /\ RestartEs \/ SpawnChild \/ (Cells' = Cells /\ Loops' = Loops)
  BY StepFrame DEF KidFrame
<1>3. engine.cell \in {0} \cup Cells /\ engine.at \in Active \cup {"escalate", "done", "dead"}
  BY DEF TypeOK, TaskTypes, Active, Watching, Awaits
<1>4. Alone /\ Away /\ Known /\ Aimed /\ Led /\ Journaled => LoopInv'
  BY DEF LoopInv
<1>5. Loops' = Loops => AtWork' \subseteq AtWork
  BY <1>2 DEF AtWork
<1>6. ASSUME NEW l \in Loops, Crash(l)
      PROVE  LoopInv'
  <2>1. /\ loops' = [loops EXCEPT ![l].at = "ended", ![l].hand = {}]
        /\ UNCHANGED tables /\ loops[l].at = "busy"
        /\ engine' = Woken(loops[l].cell)
    BY <1>6 DEF Crash
  <2>2. Loops' = Loops /\ AtWork' \subseteq AtWork \ {l} /\ l \in AtWork
    <3>1. loops[l] \in LoopRecord(cells) /\ DOMAIN loops = Loops
      BY Fields DEF TypeOK, Loops
    <3>2. loops'[l].at = "ended"
      BY <2>1, <3>1 DEF LoopRecord
    <3>3. Loops' = Loops
      BY <1>6, LoopFrame
    <3>4. QED
      BY <1>5, <2>1, <3>2, <3>3 DEF AtWork, Working
  <2>3. AtWork' = {}
    BY <1>1, <2>2
  <2>4. /\ engine'.cell = engine.cell /\ engine'.target = engine.target
        /\ engine'.at = engine.at \/ (engine.at = "parked" /\ engine'.at = "woken")
    BY <2>1 DEF Woken, TypeOK, TaskTypes
  <2>5. Known /\ Aimed /\ Led /\ Journaled
    BY <1>1, <2>1, <2>4 DEF tables, Active, Watching
  <2>6. QED
    BY <1>4, <2>3, <2>5
<1>7. ASSUME Cells' = Cells, Loops' = Loops, UNCHANGED tables,
             crashes' = crashes,
             engine'.cell = engine.cell, engine'.target = engine.target,
             \/ engine'.at \in {engine.at, "done", "dead"}
             \/ engine.at \in Watching /\ engine'.at \in Watching
             \/ engine.at = "judge" /\ engine'.at \in {"backoff", "escalate"}
             \/ engine.at = "loading" /\ engine'.at = "rebuilding"
      PROVE  LoopInv'
  <2>1. AtWork' \subseteq AtWork
    BY <1>5, <1>7
  <2>2. Alone
    BY <1>1, <2>1
  <2>3. SeesCrash' => SeesCrash
    BY <1>2, <1>3, <1>7 DEF SeesCrash
  <2>4. Away
    BY <1>1, <1>7, <2>1, <2>3 DEF Awaits, Watching
  <2>5. Known /\ Aimed /\ Led /\ Journaled
    BY <1>1, <1>7 DEF tables, Active, Watching, Awaits
  <2>6. QED
    BY <1>4, <2>2, <2>4, <2>5
<1>8. CASE Send \/ Tick \/ StopJoins \/ StopSignals \/ StopAborts \/ Shutdown \/ UNCHANGED vars
  <2>1. /\ UNCHANGED <<tables, engine>> /\ Cells' = Cells /\ Loops' = Loops
        /\ ~RestartEs /\ ~SpawnChild
    <3>1. UNCHANGED <<tables, engine>>
      BY <1>8 DEF Send, Tick, StopJoins, StopSignals, StopAborts, Shutdown, vars
    <3>2. ~RestartEs
      <4>1. RestartEs => engine.at = "rebuilding" /\ engine'.at # "rebuilding"
        BY DEF RestartEs, Goto, TypeOK, TaskTypes
      <4>2. QED
        BY <3>1, <4>1
    <3>3. ~SpawnChild
      <4>1. SpawnChild => live' = Len(cells) + 1 /\ live \in {0} \cup Cells
        BY DEF SpawnChild, TypeOK, TableTypes
      <4>2. QED
        BY <3>1, <4>1, Fields DEF tables, TypeOK
    <3>4. QED
      BY <1>2, <3>1, <3>2, <3>3
  <2>2. crashes' = crashes
    BY <1>8 DEF Send, Tick, StopJoins, StopSignals, StopAborts, Shutdown, vars
  <2>3. QED
    BY <1>7, <2>1, <2>2
<1>9. CASE Teardown
  <2>1. /\ live' = 0 /\ slot' = 0 /\ engine' = engine /\ crashes' = crashes
    BY <1>9 DEF Teardown
  <2>2. ~SpawnChild
    <3>1. SpawnChild => live' = Len(cells) + 1
      BY DEF SpawnChild
    <3>2. QED
      BY <2>1, <3>1, Fields DEF TypeOK
  <2>3. ~RestartEs
    <3>1. RestartEs => engine.at = "rebuilding" /\ engine'.at # "rebuilding"
      BY DEF RestartEs, Goto, TypeOK, TaskTypes
    <3>2. QED
      BY <2>1, <3>1
  <2>4. Cells' = Cells /\ AtWork' \subseteq AtWork
    BY <1>2, <1>5, <2>2, <2>3
  <2>5. SeesCrash' => SeesCrash
    BY <1>2, <1>3, <2>1 DEF SeesCrash
  <2>6. QED
    BY <1>1, <1>4, <2>1, <2>4, <2>5
<1>10. ASSUME NEW l \in Loops, LoopStep(l) \/ InitFails(l)
       PROVE  LoopInv'
  <2>1. UNCHANGED <<tables, engine, crashes>>
    BY <1>10 DEF LoopStep, LoopStarts, Take, TakePanics, Finish, LoopStops, InitFails
  <2>2. Cells' = Cells /\ Loops' = Loops
    BY <1>10, LoopFrame
  <2>3. QED
    BY <1>7, <2>1, <2>2
<1>11. CASE EngineExits \/ EngineParks \/ EngineJudges \/ RestartLoads
  <2>1. UNCHANGED <<kids, tables, crashes>>
    BY <1>11 DEF EngineExits, EngineParks, EngineJudges, RestartLoads
  <2>2. /\ engine'.cell = engine.cell /\ engine'.target = engine.target
        /\ \/ engine'.at \in {engine.at, "done", "dead"}
           \/ engine.at \in Watching /\ engine'.at \in Watching
           \/ engine.at = "judge" /\ engine'.at \in {"backoff", "escalate"}
           \/ engine.at = "loading" /\ engine'.at = "rebuilding"
    BY <1>11 DEF EngineExits, EngineParks, EngineJudges, RestartLoads, Goto, TypeOK, TaskTypes,
                 Watching
  <2>3. QED
    BY <1>7, <2>1, <2>2 DEF kids, Cells, Loops
<1>12. CASE EngineChecks
  <2>1. UNCHANGED <<kids, tables>> /\ engine.at \in Watching
    BY <1>12 DEF EngineChecks, Watching
  <2>2. /\ engine'.cell = engine.cell /\ engine'.target = engine.target
        /\ engine'.at = IF SeesCrash THEN "judge" ELSE "checked"
    BY <1>12 DEF EngineChecks, Goto, TypeOK, TaskTypes
  <2>3. AtWork' = AtWork /\ SeesCrash' = SeesCrash
    BY <2>1, <2>2 DEF kids, AtWork, Loops, SeesCrash
  <2>4. Alone /\ Away
    BY <1>1, <2>1, <2>2, <2>3 DEF Awaits, Watching
  <2>5. Known /\ Aimed /\ Led /\ Journaled
    BY <1>1, <2>1, <2>2 DEF tables, Active, Watching
  <2>6. QED
    BY <1>4, <2>4, <2>5
<1>13. CASE RestartBegins
  <2>1. UNCHANGED <<kids, tables>> /\ engine.at = "backoff"
    BY <1>13 DEF RestartBegins
  <2>2. /\ engine'.cell = engine.cell /\ engine'.target = live
        /\ engine'.at = IF live = 0 THEN "dead" ELSE "loading"
    BY <1>13 DEF RestartBegins, TypeOK, TaskTypes
  <2>3. AtWork' = AtWork
    BY <2>1 DEF kids, AtWork, Loops
  <2>4. Alone /\ Away
    BY <1>1, <2>1, <2>2, <2>3 DEF Awaits, Watching
  <2>5. Known /\ Aimed /\ Led /\ Journaled
    BY <1>1, <2>1, <2>2 DEF tables, Active, Awaits
  <2>6. QED
    BY <1>4, <2>4, <2>5
<1>14. CASE Escalate
  <2>1. loops' = loops /\ live' = live /\ slot' = 0 /\ engine'.at = "done"
    BY <1>14 DEF Escalate, Goto, TypeOK, TaskTypes
  <2>2. AtWork' = AtWork
    BY <2>1 DEF AtWork, Loops
  <2>3. QED
    BY <1>1, <1>4, <2>1, <2>2 DEF Awaits, Watching, Active
<1>15. CASE EngineRearms
  <2>1. /\ loops' = loops /\ UNCHANGED tables
        /\ engine'.at = "watch" /\ engine'.cell = live
        /\ engine.at = "spawned"
    BY <1>15 DEF EngineRearms, TypeOK, TaskTypes
  <2>2. AtWork' = AtWork
    BY <2>1 DEF AtWork, Loops
  <2>3. ~SeesCrash'
    <3>1. CASE live = 0
      BY <2>1, <3>1 DEF SeesCrash
    <3>2. CASE live # 0
      <4>1. live \in Cells /\ cells' = [cells EXCEPT ![live].crashed = FALSE]
        BY <1>15, <3>2 DEF EngineRearms, TypeOK, TableTypes
      <4>2. cells'[live].crashed = FALSE
        BY <4>1, Fields DEF TypeOK, CellRecord, Cells
      <4>3. QED
        BY <2>1, <4>2 DEF SeesCrash
    <3>3. QED
      BY <3>1, <3>2
  <2>4. Alone /\ Away
    BY <1>1, <2>1, <2>2, <2>3 DEF Awaits, Watching
  <2>5. Known /\ Aimed /\ Led /\ Journaled
    BY <1>1, <2>1 DEF tables, Active
  <2>6. QED
    BY <1>4, <2>4, <2>5
<1>16. CASE RestartEs
  <2>1. /\ engine.at = "rebuilding" /\ AtWork = {} /\ engine.target = engine.cell
        /\ live \in {0, engine.cell}
    BY <1>1, <1>16 DEF RestartEs, Awaits, Active
  <2>2. live' = live /\ esState' = TRUE /\ engine'.cell = engine.cell
    BY <1>16 DEF RestartEs, Goto, TypeOK, TaskTypes
  <2>3. CASE slot = 0
    <3>1. engine'.at = "dead" /\ slot' = 0 /\ Loops' = Loops
      BY <1>16, <2>3, RestartKids DEF RestartEs, Goto, TypeOK, TaskTypes
    <3>2. AtWork' = {}
      BY <1>5, <2>1, <3>1
    <3>3. QED
      BY <1>4, <3>1, <3>2 DEF Active, Watching, Awaits
  <2>4. CASE slot # 0
    <3>1. engine'.at = "watch" /\ slot' = engine.target
      BY <1>16, <2>4 DEF RestartEs, Goto, TypeOK, TaskTypes
    <3>2. slot = live /\ live = engine.target
      BY <1>1, <2>1, <2>4
    <3>3. AtWork' \subseteq {Len(loops) + 1}
      <4>1. Loops' = 1 .. Len(loops) + 1 /\ Loops = 1 .. Len(loops) /\ Len(loops) \in Nat
        BY <1>16, <2>4, RestartKids, Fields DEF TypeOK
      <4>2. \A l \in Loops' : l \in Loops \/ l = Len(loops) + 1
        BY <4>1
      <4>3. QED
        BY <1>2, <2>1, <4>2 DEF AtWork
    <3>4. ~SeesCrash'
      BY <1>16, <2>1, <2>2, RestartKids DEF SeesCrash
    <3>5. Alone /\ Away
      BY <3>1, <3>3, <3>4 DEF Awaits, Watching
    <3>6. QED
      BY <1>4, <2>1, <2>2, <3>1, <3>2, <3>5
  <2>5. QED
    BY <2>3, <2>4
<1>17. CASE RestartFresh
  <2>1. engine.at = "backoff" /\ SpawnChild /\ engine'.at = "spawned"
    BY <1>17 DEF RestartFresh, Goto, TypeOK, TaskTypes
  <2>2. AtWork = {}
    BY <1>1, <2>1 DEF Awaits
  <2>3. AtWork' \subseteq {Len(loops) + 1}
    <3>1. Loops' = 1 .. Len(loops) + 1 /\ Loops = 1 .. Len(loops) /\ Len(loops) \in Nat
      BY <2>1, SpawnKids, Fields DEF TypeOK
    <3>2. \A l \in Loops' : l \in Loops \/ l = Len(loops) + 1
      BY <3>1
    <3>3. QED
      BY <1>2, <2>2, <3>2 DEF AtWork
  <2>4. slot' = live' /\ esState'
    BY <2>1 DEF SpawnChild
  <2>5. QED
    BY <1>4, <2>1, <2>3, <2>4 DEF Awaits, Watching
<1>18. ~Respawn
  BY DEF Respawn
<1>19. QED
  BY <1>6, <1>8, <1>9, <1>10, <1>11, <1>12, <1>13, <1>14, <1>15, <1>16, <1>17, <1>18
  DEF Next, EngineStep, StopStep

(* A child just spawned has one loop, which its engine watches.            *)
LEMMA InitLoops ==
  ASSUME Init
  PROVE  HandInv /\ LoopInv
<1>1. /\ cells = <<NewCell(IF IsEs THEN 1 ELSE 0)>> /\ loops = <<NewLoop(1)>>
      /\ live = 1 /\ slot = 1 /\ esState = IsEs
      /\ engine.at = "watch" /\ engine.cell = 1
  BY DEF Init
<1>2. /\ Loops = {1} /\ loops[1].hand = {} /\ ~cells[1].crashed
  BY <1>1 DEF Loops, NewLoop, NewCell
<1>3. ~SeesCrash
  BY <1>1, <1>2 DEF SeesCrash
<1>4. AtWork \subseteq {1}
  BY <1>2 DEF AtWork
<1>5. HandInv
  BY <1>2 DEF HandInv
<1>6. LoopInv
  BY <1>1, <1>3, <1>4 DEF LoopInv, Active, Watching, Awaits
<1>7. QED
  BY <1>5, <1>6

(* At most one loop of an event-sourced path is at work at a time, through *)
(* every crash, restart and stop: the loop is the only appender for the    *)
(* path (restart_es, step_es).                                             *)
THEOREM LoopIsAlone == Spec => []OneLoop
<1>1. Init => TypeOK /\ HandInv /\ LoopInv
  BY InitTypes, InitLoops
<1>2. TypeOK /\ HandInv /\ LoopInv /\ [Next]_vars => TypeOK' /\ HandInv' /\ LoopInv'
  BY StepTypes, StepHands, StepLoops
<1>3. TypeOK /\ LoopInv => OneLoop
  <2> SUFFICES ASSUME TypeOK, LoopInv, IsEs, ~respawned
               PROVE  Cardinality({l \in Loops : loops[l].at \in Working}) <= 1
    BY DEF OneLoop
  <2>1. \A k, l \in AtWork : k = l
    BY DEF LoopInv
  <2>2. AtWork = {} \/ \E l : AtWork = {l}
    BY <2>1
  <2>3. Cardinality(AtWork) <= 1
    <3>1. CASE AtWork = {}
      <4>1. Cardinality(AtWork) = 0
        BY <3>1, FS_EmptySet
      <4>2. QED
        BY <4>1
    <3>2. CASE \E l : AtWork = {l}
      <4>1. PICK l : AtWork = {l}
        BY <3>2
      <4>2. Cardinality({l}) = 1
        BY FS_Singleton
      <4>3. QED
        BY <4>1, <4>2
    <3>3. QED
      BY <2>2, <3>1, <3>2
  <2>4. QED
    BY <2>3 DEF AtWork
<1>4. QED
  BY <1>1, <1>2, <1>3, PTL DEF Spec

(* Where a message may be.                                                 *)
Accounted(m) ==
  \/ m \in done \/ m \in dead
  \/ \E l \in Loops : m \in loops[l].hand
  \/ \E c \in {live, slot} \ {0} : m \in cells[c].mail

(* A step loses nothing that finds a place for what was in hand and for    *)
(* what was queued.                                                        *)
LEMMA MailKept ==
  ASSUME MailAccounted, slot \in {0, live}, sent' = sent,
         done \subseteq done', dead \subseteq dead',
         \A l \in Loops : \A m \in loops[l].hand : Accounted(m)',
         live # 0 => \A m \in cells[live].mail : Accounted(m)'
  PROVE  MailAccounted'
<1>1. ASSUME NEW m \in 1 .. sent'
      PROVE  Accounted(m)'
  <2>1. Accounted(m)
    BY <1>1 DEF MailAccounted, Accounted, InHand, Queued
  <2>2. CASE m \in done \/ m \in dead
    BY <2>2 DEF Accounted
  <2>3. CASE \E l \in Loops : m \in loops[l].hand
    BY <2>3
  <2>4. CASE \E c \in {live, slot} \ {0} : m \in cells[c].mail
    BY <2>4
  <2>5. QED
    BY <2>1, <2>2, <2>3, <2>4 DEF Accounted
<1>2. QED
  BY <1>1 DEF MailAccounted, Accounted, InHand, Queued

(* A loop's step, a message's way from the queue to its end.               *)
LEMMA LoopMail ==
  ASSUME TypeOK, HandInv, LoopInv, MailInv, IsEs, ~respawned,
         NEW l \in Loops, LoopStep(l) \/ InitFails(l) \/ Crash(l)
  PROVE  MailAccounted'
<1> DEFINE c == loops[l].cell
<1>1. /\ Cells' = Cells /\ Loops' = Loops
  BY LoopFrame
<1>2. /\ MailAccounted /\ slot \in {0, live} /\ live \in {0} \cup Cells
      /\ \A k \in AtWork : loops[k].cell = live \/ cells[loops[k].cell].stopping
  BY DEF MailInv, LoopInv, TypeOK, TableTypes
<1>3. /\ loops[l] \in LoopRecord(cells) /\ DOMAIN loops = Loops /\ DOMAIN cells = Cells
      /\ \A d \in Cells : cells[d] \in CellRecord(loops)
      /\ c \in Cells
  BY Fields DEF TypeOK, Loops, Cells
<1>4. UNCHANGED <<live, slot, sent>>
  BY DEF LoopStep, LoopStarts, Take, TakePanics, Finish, LoopStops, InitFails, Crash, tables,
     mailVars
<1>5. ASSUME NEW k \in Loops, NEW m \in loops'[k].hand
      PROVE  Accounted(m)'
  BY <1>1, <1>5 DEF Accounted
<1>6. ASSUME live # 0, NEW m \in cells'[live].mail
      PROVE  Accounted(m)'
  BY <1>4, <1>6 DEF Accounted
<1>7. CASE LoopStarts(l) \/ TakePanics(l) \/ LoopStops(l)
  <2>1. cells' = cells /\ UNCHANGED <<done, dead>>
    BY <1>7 DEF LoopStarts, HandleStored, TakePanics, LoopStops, mailVars
  <2>2. \E at : loops' = [loops EXCEPT ![l].at = at]
    BY <1>7 DEF LoopStarts, TakePanics, LoopStops
  <2>3. \A k \in Loops : loops'[k].hand = loops[k].hand
    BY <1>3, <2>2 DEF LoopRecord
  <2>4. QED
    BY <1>2, <1>4, <1>5, <1>6, <2>1, <2>3, MailKept
<1>8. CASE Finish(l)
  <2>1. /\ loops' = [loops EXCEPT ![l].at = "idle", ![l].hand = {}]
        /\ cells' = cells /\ dead' = dead /\ done' = done \cup loops[l].hand
    BY <1>8 DEF Finish
  <2>2. \A k \in Loops \ {l} : loops'[k].hand = loops[k].hand
    BY <1>3, <2>1 DEF LoopRecord
  <2>3. \A m \in loops[l].hand : Accounted(m)'
    BY <2>1 DEF Accounted
  <2>4. QED
    BY <1>2, <1>4, <1>5, <1>6, <2>1, <2>2, <2>3, MailKept
<1>9. CASE Take(l)
  <2> DEFINE m == Oldest(cells[c].mail)
             r == [loops[l] EXCEPT !.at = "busy", !.hand = {m}]
             q == [cells[c] EXCEPT !.mail = @ \ {m}]
  <2>1. loops' = [loops EXCEPT ![l] = r] /\ loops[l].at = "idle"
    BY <1>3, <1>9 DEF Take, LoopRecord
  <2>2. cells' = [cells EXCEPT ![c] = q] /\ UNCHANGED <<done, dead>>
    BY <1>9 DEF Take
  <2>3. loops[l].hand = {} /\ loops'[l].hand = {m}
    BY <1>3, <2>1 DEF HandInv, LoopRecord
  <2>4. \A k \in Loops \ {l} : loops'[k].hand = loops[k].hand
    BY <1>3, <2>1
  <2>5. cells'[c].mail = cells[c].mail \ {m}
    <3>1. q.mail = cells[c].mail \ {m}
      BY <1>3 DEF CellRecord
    <3> HIDE DEF q
    <3>2. cells'[c] = q
      BY <1>3, <2>2
    <3>3. QED
      BY <3>1, <3>2
  <2>6. \A d \in Cells \ {c} : cells'[d].mail = cells[d].mail
    <3> HIDE DEF q
    <3>1. QED
      BY <1>3, <2>2
  <2> HIDE DEF m, r, q
  <2>7. ASSUME live # 0, NEW k \in cells[live].mail
        PROVE  Accounted(k)'
    <3>1. CASE k = m
      BY <1>5, <2>3, <3>1
    <3>2. CASE k # m
      <4>1. k \in cells'[live].mail
        BY <1>2, <2>5, <2>6, <2>7, <3>2
      <4>2. QED
        BY <1>6, <2>7, <4>1
    <3>3. QED
      BY <3>1, <3>2
  <2>8. QED
    BY <1>2, <1>4, <1>5, <2>2, <2>3, <2>4, <2>7, MailKept
<1>10. CASE Crash(l)
  <2> DEFINE r == [loops[l] EXCEPT !.at = "ended", !.hand = {}]
             q == [cells[c] EXCEPT !.crashed = TRUE,
                     !.mail = IF cells[c].stopping THEN @ ELSE @ \cup loops[l].hand]
  <2>1. loops' = [loops EXCEPT ![l] = r] /\ cells' = [cells EXCEPT ![c] = q]
    BY <1>3, <1>10 DEF Crash, LoopRecord, CellRecord
  <2>2. /\ done' = done /\ loops[l].at = "busy"
        /\ dead' = IF cells[c].stopping THEN dead \cup loops[l].hand ELSE dead
    BY <1>10 DEF Crash
  <2>3. \A k \in Loops \ {l} : loops'[k].hand = loops[k].hand
    BY <1>3, <2>1
  <2>4. q.mail = IF cells[c].stopping THEN cells[c].mail ELSE cells[c].mail \cup loops[l].hand
    BY <1>3 DEF CellRecord
  <2> HIDE DEF q, r
  <2>5. \A d \in Cells : cells[d].mail \subseteq cells'[d].mail
    BY <1>3, <2>1, <2>4
  <2>6. ~cells[c].stopping => loops[l].hand \subseteq cells'[c].mail
    BY <1>3, <2>1, <2>4
  <2>7. ASSUME NEW m \in loops[l].hand
        PROVE  Accounted(m)'
    <3>1. CASE cells[c].stopping
      BY <2>2, <3>1 DEF Accounted
    <3>2. CASE ~cells[c].stopping
      <4>1. l \in AtWork
        BY <2>2 DEF AtWork, Working
      <4>2. c = live
        BY <1>2, <3>2, <4>1
      <4>3. m \in cells'[live].mail /\ live # 0
        BY <1>2, <1>3, <2>6, <3>2, <4>2, Fields DEF TypeOK
      <4>4. QED
        BY <1>6, <4>3
    <3>3. QED
      BY <3>1, <3>2
  <2>8. \A m \in cells[live].mail : live # 0 => Accounted(m)'
    BY <1>2, <1>6, <2>5
  <2>9. dead \subseteq dead' /\ done \subseteq done'
    BY <2>2
  <2>10. \A k \in Loops : \A m \in loops[k].hand : Accounted(m)'
    BY <1>5, <2>3, <2>7
  <2>11. QED
    BY <1>2, <1>4, <2>8, <2>9, <2>10, MailKept
<1>11. ~InitFails(l)
  BY DEF InitFails
<1>12. QED
  BY <1>7, <1>8, <1>9, <1>10, <1>11 DEF LoopStep

(* Every other step, too, accounts for the mail.                           *)
LEMMA StepMail ==
  ASSUME TypeOK, HandInv, LoopInv, MailInv, IsEs, ~respawned, ~respawned', [Next]_vars
  PROVE  MailAccounted'
<1>1. /\ MailAccounted /\ slot \in {0, live} /\ live \in {0} \cup Cells
      /\ host.at = "joining" => live # 0 /\ loops[host.loop].cell = live
      /\ engine.at = "backoff" => esState \/ live = 0
  BY DEF MailInv, LoopInv, TypeOK, TableTypes, Active, Awaits
<1>2. /\ \A l \in Loops : loops[l] \in LoopRecord(cells)
      /\ \A c \in Cells : cells[c] \in CellRecord(loops)
      /\ DOMAIN loops = Loops /\ DOMAIN cells = Cells
  BY Fields DEF TypeOK, Loops, Cells
<1>3. ASSUME NEW k \in Loops', NEW m \in loops'[k].hand
      PROVE  Accounted(m)'
  BY <1>3 DEF Accounted
<1>4. ASSUME live' # 0, NEW m \in cells'[live'].mail
      PROVE  Accounted(m)'
  BY <1>4 DEF Accounted
<1>5. ASSUME Loops \subseteq Loops', \A l \in Loops : loops'[l].hand = loops[l].hand,
             live # 0 => live' = live /\ cells[live].mail \subseteq cells'[live].mail,
             sent' = sent, done' = done, dead' = dead
      PROVE  MailAccounted'
  BY <1>1, <1>3, <1>4, <1>5, MailKept
<1>6. CASE \E l \in Loops : LoopStep(l) \/ InitFails(l) \/ Crash(l)
  BY <1>6, LoopMail
<1>7. CASE Send
  <2>1. CASE slot = 0
    <3>1. /\ loops' = loops /\ cells' = cells /\ live' = live /\ slot' = slot
          /\ sent' = sent + 1 /\ done' = done /\ dead' = dead \cup {sent + 1}
      BY <1>7, <2>1 DEF Send, tables
    <3>2. ASSUME NEW m \in 1 .. sent
          PROVE  Accounted(m)'
      <4>1. Accounted(m)
        BY <1>1 DEF MailAccounted, Accounted, InHand, Queued
      <4>2. QED
        BY <3>1, <4>1 DEF Accounted, Loops
    <3>3. ASSUME NEW m, m = sent + 1
          PROVE  Accounted(m)'
      BY <3>1, <3>3 DEF Accounted
    <3>4. 1 .. sent + 1 = (1 .. sent) \cup {sent + 1}
      BY SupervisionAssumption DEF TypeOK, BookTypes
    <3>5. \A m \in 1 .. sent' : Accounted(m)'
      BY <3>1, <3>2, <3>3, <3>4
    <3>6. QED
      BY <3>5 DEF MailAccounted, Accounted, InHand, Queued
  <2>2. CASE slot # 0
    <3> DEFINE q == [cells[slot] EXCEPT !.mail = @ \cup {sent + 1}]
    <3>1. /\ loops' = loops /\ cells' = [cells EXCEPT ![slot] = q]
          /\ live' = live /\ slot' = slot
          /\ sent' = sent + 1 /\ done' = done /\ dead' = dead
          /\ slot \in Cells /\ live = slot
      BY <1>1, <1>7, <2>2 DEF Send, tables
    <3>2. q.mail = cells[slot].mail \cup {sent + 1}
      BY <1>2, <3>1 DEF CellRecord
    <3> HIDE DEF q
    <3>3. cells'[slot].mail = cells[slot].mail \cup {sent + 1}
      BY <1>2, <3>1, <3>2
    <3>4. ASSUME NEW m \in 1 .. sent
          PROVE  Accounted(m)'
      <4>1. Accounted(m)
        BY <1>1 DEF MailAccounted, Accounted, InHand, Queued
      <4>2. QED
        BY <1>1, <3>1, <3>3, <4>1 DEF Accounted, Loops
    <3>5. ASSUME NEW m, m = sent + 1
          PROVE  Accounted(m)'
      BY <2>2, <3>1, <3>3, <3>5 DEF Accounted
    <3>6. 1 .. sent + 1 = (1 .. sent) \cup {sent + 1}
      BY SupervisionAssumption DEF TypeOK, BookTypes
    <3>7. \A m \in 1 .. sent' : Accounted(m)'
      BY <3>1, <3>4, <3>5, <3>6
    <3>8. QED
      BY <3>7 DEF MailAccounted, Accounted, InHand, Queued
  <2>3. QED
    BY <2>1, <2>2
<1>8. CASE EngineExits \/ EngineChecks \/ EngineParks \/ EngineJudges \/ RestartBegins
           \/ RestartLoads \/ Tick \/ StopJoins \/ Shutdown \/ UNCHANGED vars
  <2>1. UNCHANGED <<kids, tables, mailVars>>
    BY <1>8 DEF EngineExits, EngineChecks, EngineParks, EngineJudges, RestartBegins,
                RestartLoads, Tick, StopJoins, Shutdown, vars
  <2>2. QED
    BY <1>5, <2>1 DEF kids, tables, mailVars, Loops
<1>9. CASE Escalate \/ EngineRearms
  <2>1. loops' = loops /\ live' = live /\ UNCHANGED mailVars
    BY <1>9 DEF Escalate, EngineRearms, tables
  <2>2. CASE live = 0
    BY <1>5, <2>1, <2>2 DEF mailVars, Loops
  <2>3. CASE live # 0
    <3> DEFINE q == [cells[live] EXCEPT !.crashed = FALSE]
    <3>1. cells' = [cells EXCEPT ![live] = q] /\ live \in Cells
      BY <1>1, <1>9, <2>3 DEF Escalate, EngineRearms
    <3>2. q.mail = cells[live].mail
      BY <1>2, <3>1 DEF CellRecord
    <3> HIDE DEF q
    <3>3. cells'[live].mail = cells[live].mail
      BY <1>2, <3>1, <3>2
    <3>4. QED
      BY <1>5, <2>1, <3>3 DEF mailVars, Loops
  <2>4. QED
    BY <2>2, <2>3
<1>10. CASE RestartEs
  <2>1. /\ \A c \in Cells : cells'[c].mail = cells[c].mail
        /\ \A l \in Loops : loops'[l] = loops[l]
    BY <1>10, RestartKids
  <2>2. Loops \subseteq Loops'
    BY StepKids
  <2>3. live' = live /\ UNCHANGED mailVars
    BY <1>10 DEF RestartEs
  <2>4. QED
    BY <1>1, <1>5, <2>1, <2>2, <2>3 DEF mailVars
<1>11. CASE RestartFresh
  <2>1. SpawnChild /\ live = 0 /\ UNCHANGED mailVars
    BY <1>1, <1>11 DEF RestartFresh
  <2>2. Loops \subseteq Loops' /\ \A l \in Loops : loops'[l] = loops[l]
    BY <2>1, SpawnKids DEF TypeOK
  <2>3. QED
    BY <1>5, <2>1, <2>2 DEF mailVars
<1>12. CASE StopSignals
  <2>1. CASE live = 0 \/ cells[live].handle = 0
    <3>1. UNCHANGED <<kids, tables, mailVars>>
      BY <1>12, <2>1 DEF StopSignals
    <3>2. QED
      BY <1>5, <3>1 DEF kids, tables, mailVars, Loops
  <2>2. CASE live # 0 /\ cells[live].handle # 0
    <3> DEFINE h == cells[live].handle
               q == [cells[live] EXCEPT !.handle = 0]
               r == [loops[h] EXCEPT !.told = TRUE]
    <3>1. /\ live \in Cells /\ cells' = [cells EXCEPT ![live] = q]
          /\ loops' = [loops EXCEPT ![h] = r]
          /\ live' = live /\ UNCHANGED mailVars
      BY <1>1, <1>12, <2>2 DEF StopSignals, tables
    <3>2. q.mail = cells[live].mail /\ h \in Loops
      BY <1>2, <2>2, <3>1 DEF CellRecord
    <3>3. r.hand = loops[h].hand
      <4> HIDE DEF h
      <4>1. QED
        BY <1>2, <3>2 DEF LoopRecord
    <3> HIDE DEF h, q, r
    <3>4. cells'[live].mail = cells[live].mail
      BY <1>2, <3>1, <3>2
    <3>5. Loops' = Loops /\ \A l \in Loops : loops'[l].hand = loops[l].hand
      BY <1>2, <3>1, <3>2, <3>3 DEF Loops
    <3>6. QED
      BY <1>5, <3>1, <3>4, <3>5 DEF mailVars
  <2>3. QED
    BY <2>1, <2>2
<1>13. CASE StopAborts
  <2> DEFINE l == host.loop
             c == loops[l].cell
             r == [loops[l] EXCEPT !.at = "ended", !.hand = {}]
             q == [cells[c] EXCEPT !.mail = @ \cup loops[l].hand]
  <2>1. l \in Loops /\ c = live /\ live # 0 /\ live \in Cells
    BY <1>1, <1>13 DEF StopAborts, TypeOK, TaskTypes
  <2>2. /\ loops' = [loops EXCEPT ![l] = r] /\ cells' = [cells EXCEPT ![c] = q]
        /\ live' = live /\ slot' = slot /\ UNCHANGED mailVars
    BY <1>2, <1>13, <2>1 DEF StopAborts, LoopRecord, tables
  <2>3. q.mail = cells[c].mail \cup loops[l].hand
    BY <1>2, <2>1 DEF CellRecord
  <2> HIDE DEF q, r
  <2>4. cells'[live].mail = cells[live].mail \cup loops[l].hand
    BY <1>2, <2>1, <2>2, <2>3
  <2>5. Loops' = Loops /\ \A k \in Loops \ {l} : loops'[k].hand = loops[k].hand
    BY <1>2, <2>2 DEF Loops
  <2> HIDE DEF l, c
  <2>6. \A m \in cells[live].mail \cup loops[l].hand : Accounted(m)'
    BY <1>4, <2>1, <2>2, <2>4
  <2>7. \A k \in Loops : \A m \in loops[k].hand : Accounted(m)'
    BY <1>3, <2>5, <2>6
  <2>8. QED
    BY <1>1, <2>2, <2>6, <2>7, MailKept DEF mailVars
<1>14. CASE Teardown
  <2>1. /\ loops' = loops /\ dead' = dead \cup Undelivered
        /\ done' = done /\ sent' = sent
    BY <1>14 DEF Teardown
  <2>2. live # 0 => \A m \in cells[live].mail : Accounted(m)'
    BY <2>1 DEF Accounted, Undelivered
  <2>3. \A k \in Loops : \A m \in loops[k].hand : Accounted(m)'
    BY <2>1 DEF Accounted, Loops
  <2>4. QED
    BY <1>1, <2>1, <2>2, <2>3, MailKept
<1>15. ~Respawn
  BY DEF Respawn
<1>16. QED
  BY <1>6, <1>7, <1>8, <1>9, <1>10, <1>11, <1>12, <1>13, <1>14, <1>15
  DEF Next, EngineStep, StopStep

(* A loop at work is on the cell the kernel knows, or on one that is being *)
(* torn down; a handle leads to a loop of its cell; a stop joins a loop of *)
(* the cell it has yet to tear down.                                       *)
LEMMA StepMailInv ==
  ASSUME TypeOK, HandInv, LoopInv, MailInv, [Next]_vars
  PROVE  MailInv'
<1> SUFFICES ASSUME IsEs, ~respawned, ~respawned' PROVE MailInv'
  BY SpecKept DEF MailInv, IsEs, Respawn
<1> DEFINE Reached == \A l \in AtWork' :
             loops'[l].cell = live' \/ cells'[loops'[l].cell].stopping
           Handled == \A c \in Cells' :
             cells'[c].handle # 0 => loops'[cells'[c].handle].cell = c
           Joined == host'.at = "joining" => live' # 0 /\ loops'[host'.loop].cell = live'
<1>1. /\ \A l \in AtWork : loops[l].cell = live \/ cells[loops[l].cell].stopping
      /\ \A c \in Cells : cells[c].handle # 0 => loops[cells[c].handle].cell = c
      /\ host.at = "joining" => live # 0 /\ loops[host.loop].cell = live
      /\ slot \in {0, live} /\ live \in {0} \cup Cells
  BY DEF MailInv, LoopInv, TypeOK, TableTypes
<1>2. /\ \A l \in Loops : /\ loops'[l].cell = loops[l].cell
                          /\ loops'[l].at \in Working => loops[l].at \in Working
      /\ \A c \in Cells : /\ cells[c].stopping => cells'[c].stopping
                          /\ cells'[c].handle \in {0, cells[c].handle}
      /\ RestartEs \/ SpawnChild \/ (Cells' = Cells /\ Loops' = Loops)
  BY StepFrame DEF KidFrame
<1>3. /\ \A l \in Loops : loops[l].cell \in Cells
      /\ \A c \in Cells : cells[c].handle \in {0} \cup Loops
      /\ Len(cells) \in Nat /\ Cells = 1 .. Len(cells)
      /\ Len(loops) \in Nat /\ Loops = 1 .. Len(loops)
      /\ host.at = "joining" => host.loop \in Loops
  BY Fields DEF TypeOK, TaskTypes, CellRecord, Loops
<1>4. MailAccounted'
  BY StepMail
<1>5. Reached /\ Handled /\ Joined => MailInv'
  BY <1>4 DEF MailInv
<1>6. \A c \in Cells : cells'[c].handle # 0 => loops'[cells'[c].handle].cell = c
  BY <1>1, <1>2, <1>3
<1>7. ASSUME live' = live, NEW l \in Loops, l \in AtWork'
      PROVE  loops'[l].cell = live' \/ cells'[loops'[l].cell].stopping
  <2>1. l \in AtWork
    BY <1>2, <1>7 DEF AtWork
  <2>2. QED
    BY <1>1, <1>2, <1>3, <1>7, <2>1
<1>8. host' = host /\ live' = live => Joined
  BY <1>1, <1>2, <1>3
<1>9. CASE RestartFresh
  <2>1. SpawnChild /\ host' = host /\ engine.at = "backoff" /\ ~esState
    BY <1>9 DEF RestartFresh, hostVars
  <2>2. AtWork = {} /\ live = 0
    BY <2>1 DEF LoopInv, Awaits, Active
  <2>3. /\ Cells' = 1 .. Len(cells) + 1 /\ Loops' = 1 .. Len(loops) + 1
        /\ cells'[Len(cells) + 1].handle = Len(loops) + 1
        /\ loops'[Len(loops) + 1].cell = Len(cells) + 1
        /\ live' = Len(cells) + 1
    BY <2>1, SpawnKids DEF TypeOK, NewCell, NewLoop, SpawnChild
  <2>4. Reached
    <3>1. ASSUME NEW l \in AtWork'
          PROVE  l = Len(loops) + 1
      BY <1>2, <1>3, <2>2, <2>3 DEF AtWork
    <3>2. QED
      BY <2>3, <3>1
  <2>5. Handled
    <3>1. ASSUME NEW c \in Cells'
          PROVE  c \in Cells \/ c = Len(cells) + 1
      BY <1>3, <2>3
    <3>2. QED
      BY <1>6, <2>3, <3>1
  <2>6. Joined
    BY <1>1, <2>1, <2>2
  <2>7. QED
    BY <1>5, <2>4, <2>5, <2>6
<1>10. CASE RestartEs
  <2>1. live' = live /\ host' = host
    BY <1>10 DEF RestartEs, hostVars
  <2>2. engine.target = engine.cell /\ live \in {0, engine.cell}
    BY <1>10 DEF RestartEs, LoopInv, Active, Awaits
  <2>3. Cells' = Cells
    BY <1>10, RestartKids
  <2>4. Reached
    <3>1. CASE slot = 0
      BY <1>7, <1>10, <2>1, <3>1, RestartKids DEF AtWork
    <3>2. CASE slot # 0
      <4>1. Loops' = 1 .. Len(loops) + 1 /\ loops'[Len(loops) + 1].cell = engine.target
        BY <1>10, <3>2, RestartKids DEF NewLoop
      <4>2. engine.target = live'
        BY <1>1, <2>1, <2>2, <3>2
      <4>3. \A l \in AtWork' : l \in Loops \/ l = Len(loops) + 1
        BY <1>3, <4>1 DEF AtWork
      <4>4. QED
        BY <1>7, <2>1, <4>1, <4>2, <4>3
    <3>3. QED
      BY <3>1, <3>2
  <2>5. QED
    BY <1>5, <1>6, <1>8, <2>1, <2>3, <2>4
<1>11. CASE Teardown
  <2>1. live' = 0 /\ host'.at = "none" /\ loops' = loops
    BY <1>11 DEF Teardown
  <2>2. live # 0 => cells'[live].stopping
    <3>1. ASSUME live # 0
          PROVE  cells'[live].stopping
      <4> DEFINE q == [cells[live] EXCEPT !.stopping = TRUE, !.mail = {}]
      <4>1. /\ cells[live] \in CellRecord(loops) /\ DOMAIN cells = Cells
            /\ live \in Cells
        BY <1>1, <3>1, Fields DEF TypeOK, Cells
      <4>2. cells' = [cells EXCEPT ![live] = q]
        BY <1>11, <3>1, <4>1 DEF Teardown, CellRecord
      <4>3. q.stopping = TRUE
        BY <4>1 DEF CellRecord
      <4> HIDE DEF q
      <4>4. QED
        BY <4>1, <4>2, <4>3
    <3>2. QED
      BY <3>1
  <2>3. Cells' = Cells /\ Loops' = Loops
    <3>1. ~SpawnChild
      BY <1>3, <2>1 DEF SpawnChild
    <3>2. ~RestartEs
      <4>1. RestartEs => engine'.at # engine.at
        BY DEF RestartEs, Goto, TypeOK, TaskTypes
      <4>2. QED
        BY <1>11, <4>1 DEF Teardown
    <3>3. QED
      BY <1>2, <3>1, <3>2
  <2>4. Reached
    <3>1. ASSUME NEW l \in AtWork'
          PROVE  cells'[loops'[l].cell].stopping
      <4>1. l \in Loops /\ l \in AtWork
        BY <1>2, <2>3 DEF AtWork
      <4>2. loops'[l].cell = loops[l].cell /\ loops[l].cell \in Cells
        BY <1>2, <1>3, <4>1
      <4>3. CASE loops[l].cell = live
        BY <1>3, <2>2, <4>2, <4>3
      <4>4. CASE cells[loops[l].cell].stopping
        BY <1>2, <4>2, <4>4
      <4>5. QED
        BY <1>1, <4>1, <4>3, <4>4
    <3>2. QED
      BY <3>1
  <2>5. QED
    BY <1>5, <1>6, <2>1, <2>3, <2>4
<1>12. CASE ~RestartFresh /\ ~RestartEs /\ ~Teardown
  <2>1. live' = live
    BY <1>12 DEF Next, vars, tables, Send, Tick, EngineStep, EngineExits, EngineChecks,
       EngineParks, EngineJudges, Escalate, RestartBegins, RestartLoads, EngineRearms,
       StopStep, StopJoins, StopSignals, StopAborts, Respawn, Shutdown, LoopStep, LoopStarts,
       Take, TakePanics, Finish, LoopStops, InitFails, Crash
  <2>2. Cells' = Cells /\ Loops' = Loops
    <3>1. ~SpawnChild
      BY <1>1, <1>3, <2>1 DEF SpawnChild
    <3>2. QED
      BY <1>2, <1>12, <3>1
  <2>3. Reached
    BY <1>7, <2>1, <2>2 DEF AtWork
  <2>4. Joined
    <3>1. CASE StopSignals
      <4>1. host'.at = "joining" => /\ live # 0 /\ host'.loop = cells[live].handle
                                    /\ cells[live].handle # 0
        BY <3>1 DEF StopSignals
      <4>2. QED
        BY <1>1, <1>2, <1>3, <2>1, <4>1
    <3>2. CASE ~StopSignals
      <4>1. host' = host \/ host'.at = "teardown"
        BY <1>12, <3>2 DEF Next, vars, hostVars, Send, Tick, EngineStep, EngineExits,
           EngineChecks, EngineParks, EngineJudges, Escalate, RestartBegins, RestartLoads,
           EngineRearms, StopStep, StopJoins, StopAborts, Respawn, Shutdown,
           LoopStep, LoopStarts, Take, TakePanics, Finish, LoopStops, InitFails, Crash,
           TypeOK, TaskTypes
      <4>2. QED
        BY <1>8, <2>1, <4>1
    <3>3. QED
      BY <3>1, <3>2
  <2>5. QED
    BY <1>5, <1>6, <2>2, <2>3, <2>4
<1>13. QED
  BY <1>9, <1>10, <1>11, <1>12

(* Nothing has been sent to a child just spawned.                          *)
LEMMA InitMail ==
  ASSUME Init
  PROVE  MailInv
<1>1. /\ cells = <<NewCell(IF IsEs THEN 1 ELSE 0)>> /\ loops = <<NewLoop(1)>>
      /\ live = 1 /\ sent = 0 /\ host.at = "none"
  BY DEF Init
<1>2. /\ Loops = {1} /\ Cells = {1} /\ loops[1].cell = 1
      /\ cells[1].handle = IF IsEs THEN 1 ELSE 0
  BY <1>1 DEF Loops, Cells, NewLoop, NewCell
<1>3. MailAccounted
  BY <1>1 DEF MailAccounted
<1>4. QED
  BY <1>1, <1>2, <1>3 DEF MailInv, AtWork

(* Every message sent to an event-sourced child is committed, dead-        *)
(* lettered, in a loop's hands or queued where the kernel or the registry  *)
(* knows of it: crashes, restarts and stops lose none (restart_es,         *)
(* teardown_tables, the claim's drop).                                     *)
THEOREM MailIsAccounted == Spec => []EsMailAccounted
<1>1. Init => TypeOK /\ HandInv /\ LoopInv /\ MailInv
  BY InitTypes, InitLoops, InitMail
<1>2. TypeOK /\ HandInv /\ LoopInv /\ MailInv /\ [Next]_vars
        => TypeOK' /\ HandInv' /\ LoopInv' /\ MailInv'
  BY StepTypes, StepHands, StepLoops, StepMailInv
<1>3. MailInv => EsMailAccounted
  BY DEF MailInv, EsMailAccounted
<1>4. QED
  BY <1>1, <1>2, <1>3, PTL DEF Spec

============================================================================
