--------------------------- MODULE DaowStoreProofs ---------------------------
(***************************************************************************)
(* Proofs about DaowStore, for every set of paths and projectors, every    *)
(* number of facts and batches, and whatever fails.  KindInv is about one  *)
(* path at a time and the lock; StoreInv, on top of it, relates the table  *)
(* of a path to its journal in memory and the paths to each other.  With   *)
(* AskInv, about a catch-up under way, they carry the refinement.          *)
(***************************************************************************)
EXTENDS DaowStore, WellFoundedInduction, FiniteSetTheorems, SequenceTheorems, TLAPS

----------------------------------------------------------------------------
(* Sets of naturals: the library's theorems on induction take an operator, *)
(* these take a set.                                                       *)

(* The order of the naturals as a relation.                                *)
Below == {p \in Nat \X Nat : p[1] < p[2]}

LEMMA BelowWellFounded == IsWellFoundedOn(Below, Nat)
<1>1. OpToRel(<, Nat) = Below
  BY DEF OpToRel, Below
<1>2. QED
  BY <1>1, NatLessThanWellFounded

(* A set of naturals that is not empty has a least element.                *)
LEMMA LeastNatural ==
  ASSUME NEW S, S \subseteq Nat, S # {}
  PROVE  \E n \in S : \A m \in S : n <= m
<1>1. PICK n \in S : \A m \in S : ~ (<<m, n>> \in Below)
  BY BelowWellFounded, WFMin
<1>2. \A m \in Nat : m < n => <<m, n>> \in Below
  BY DEF Below
<1>3. \A m \in S : ~ (m < n)
  BY <1>1, <1>2
<1>4. \A m \in S : n <= m
  BY <1>3
<1>5. QED
  BY <1>4

(* One that is bounded has a greatest.                                     *)
LEMMA GreatestNatural ==
  ASSUME NEW bound \in Nat, NEW S, S \subseteq 0 .. bound, S # {}
  PROVE  \E n \in S : \A m \in S : m <= n
<1> DEFINE mirror == {k \in Nat : \E m \in S : k = bound - m}
<1>1. mirror # {} /\ mirror \subseteq Nat
  <2>1. PICK m \in S : m \in 0 .. bound
    OBVIOUS
  <2>2. bound - m \in mirror
    BY <2>1
  <2>3. QED
    BY <2>2
<1>2. PICK k \in mirror : \A j \in mirror : k <= j
  BY <1>1, LeastNatural
<1>3. PICK n \in S : k = bound - n
  BY <1>2
<1>4. \A m \in S : bound - m \in mirror
  OBVIOUS
<1>5. \A m \in S : m <= n
  BY <1>2, <1>3, <1>4
<1>6. QED
  BY <1>5

----------------------------------------------------------------------------
(* Sequences, as functions on an interval.                                 *)

(* A sequence is a function on an interval.                                *)
LEMMA SeqIsFunction ==
  ASSUME NEW S, NEW s \in Seq(S)
  PROVE  /\ Len(s) \in Nat /\ DOMAIN s = 1 .. Len(s)
         /\ s \in [1 .. Len(s) -> S]
         /\ \A k \in DOMAIN s : s[k] \in S
<1>1. Len(s) \in Nat /\ DOMAIN s = 1 .. Len(s) /\ s \in [1 .. Len(s) -> S]
  BY LenProperties
<1>2. QED
  BY <1>1

LEMMA FunctionIsSeq ==
  ASSUME NEW S, NEW n \in Nat, NEW s \in [1 .. n -> S]
  PROVE  s \in Seq(S) /\ Len(s) = n /\ DOMAIN s = 1 .. n
<1>1. s \in Seq(S)
  BY SeqDef
<1>2. DOMAIN s = 1 .. n /\ Len(s) \in Nat /\ DOMAIN s = 1 .. Len(s)
  BY <1>1, LenProperties
<1>3. QED
  BY <1>1, <1>2

LEMMA SmallSeqs ==
  ASSUME NEW S
  PROVE  <<>> \in Seq(S) /\ \A e \in S : <<e>> \in Seq(S)
<1>1. <<>> \in [1 .. 0 -> S]
  OBVIOUS
<1>2. \A e \in S : <<e>> \in [1 .. 1 -> S]
  OBVIOUS
<1>3. QED
  BY <1>1, <1>2, SeqDef

----------------------------------------------------------------------------
(* Journals: rows of events, numbered from zero, and snapshots.            *)

Row ==
  [seq : Nat, fact : 1 .. MaxFacts, ingest : Nat,
   origin : {Recorded} \cup [source : Paths, seq : Nat]]

Snapshot == [memo : Nat]

Entry == Row \cup Snapshot

LEMMA EntryKinds ==
  /\ \A e \in Row : IsEvent(e) /\ e.seq \in Nat /\ e.ingest \in Nat
  /\ \A e \in Snapshot : ~IsEvent(e) /\ e.memo \in Nat
  /\ \A e \in Entry : IF IsEvent(e) THEN e \in Row ELSE e \in Snapshot
<1>1. \A e \in Row : IsEvent(e) /\ e.seq \in Nat /\ e.ingest \in Nat
  BY DEF Row, IsEvent
<1>2. \A e \in Snapshot : ~IsEvent(e) /\ e.memo \in Nat
  BY DEF Snapshot, IsEvent
<1>3. QED
  BY <1>1, <1>2 DEF Entry

Places(j) == {i \in DOMAIN j : IsEvent(j[i])}

Memos(j) == {i \in DOMAIN j : ~IsEvent(j[i])}

LEMMA MemoIs == \A n \in Nat : Memo(n) \in Snapshot /\ Memo(n).memo = n
  BY DEF Memo, Snapshot

LEMMA JournalIs ==
  ASSUME NEW j \in Seq(Entry)
  PROVE  /\ Len(j) \in Nat /\ DOMAIN j = 1 .. Len(j)
         /\ Places(j) \subseteq DOMAIN j /\ Memos(j) \subseteq DOMAIN j
         /\ \A i \in DOMAIN j : i \in Places(j) \/ i \in Memos(j)
         /\ \A i \in Places(j) : i \notin Memos(j) /\ j[i] \in Row
         /\ \A i \in Memos(j) : j[i] \in Snapshot /\ j[i].memo \in Nat
         /\ Rows(j) = {j[i] : i \in Places(j)}
         /\ Rows(j) \subseteq Row
<1>1. Len(j) \in Nat /\ DOMAIN j = 1 .. Len(j) /\ \A i \in DOMAIN j : j[i] \in Entry
  BY SeqIsFunction
<1>2. /\ Places(j) \subseteq DOMAIN j /\ Memos(j) \subseteq DOMAIN j
      /\ \A i \in DOMAIN j : i \in Places(j) \/ i \in Memos(j)
      /\ \A i \in Places(j) : i \notin Memos(j) /\ IsEvent(j[i])
      /\ \A i \in Memos(j) : ~IsEvent(j[i])
  BY DEF Places, Memos
<1>3. /\ \A i \in Places(j) : j[i] \in Row
      /\ \A i \in Memos(j) : j[i] \in Snapshot /\ j[i].memo \in Nat
  BY <1>1, <1>2, EntryKinds
<1>4. Rows(j) = {j[i] : i \in Places(j)}
  BY DEF Rows, Range, Places
<1>5. Rows(j) \subseteq Row
  BY <1>3, <1>4
<1>6. QED
  BY <1>1, <1>2, <1>3, <1>4, <1>5

(* Rows that are told apart by their numbers, and those whose numbers are  *)
(* the first n.                                                            *)
Distinct(rows) == \A r, s \in rows : r.seq = s.seq => r = s

Counts(rows, n) ==
  /\ Distinct(rows)
  /\ \A r \in rows : r.seq < n
  /\ \A k \in 0 .. n - 1 : \E r \in rows : r.seq = k

Numbered(rows) == Counts(rows, Cardinality(rows))

LEMMA CountIs ==
  ASSUME NEW rows, rows \subseteq Row, NEW n \in Nat, Counts(rows, n)
  PROVE  IsFiniteSet(rows) /\ Cardinality(rows) = n /\ Numbered(rows)
<1> DEFINE f == [r \in rows |-> r.seq]
<1>1. \A r \in rows : r.seq \in 0 .. n - 1
  BY EntryKinds DEF Counts
<1>2. f \in Injection(rows, 0 .. n - 1)
  BY <1>1 DEF Counts, Distinct, Injection, IsInjective
<1>3. f \in Surjection(rows, 0 .. n - 1)
  BY <1>1 DEF Counts, Surjection
<1>4. IsFiniteSet(0 .. n - 1) /\ Cardinality(0 .. n - 1) = n
  <2>1. 0 \in Int /\ n - 1 \in Int /\ (IF 0 > n - 1 THEN 0 ELSE (n - 1) - 0 + 1) = n
    OBVIOUS
  <2>2. QED
    BY <2>1, FS_Interval
<1>5. IsFiniteSet(rows) /\ Cardinality(rows) = n
  <2> HIDE DEF f
  <2>1. QED
    BY <1>2, <1>3, <1>4, FS_Injection
<1>6. QED
  BY <1>5 DEF Numbered

(* Where the rows stand in the order of their numbers.                     *)
Ranked(j) == \A i, k \in Places(j) : i < k => j[i].seq < j[k].seq

LEMMA RankedIs ==
  ASSUME NEW j \in Seq(Entry), Ranked(j)
  PROVE  /\ \A i, k \in Places(j) : j[i].seq < j[k].seq => i < k
         /\ \A i, k \in Places(j) : j[i].seq = j[k].seq => i = k
         /\ Distinct(Rows(j))
<1>1. \A i \in Places(j) : i \in Nat /\ j[i].seq \in Nat
  BY JournalIs, EntryKinds
<1>2. \A i, k \in Places(j) : i < k => j[i].seq < j[k].seq
  BY DEF Ranked
<1>3. \A i, k \in Places(j) : j[i].seq < j[k].seq => i < k
  BY <1>1, <1>2
<1>4. \A i, k \in Places(j) : j[i].seq = j[k].seq => i = k
  BY <1>1, <1>2
<1>5. Rows(j) = {j[i] : i \in Places(j)}
  BY JournalIs
<1>6. Distinct(Rows(j))
  BY <1>4, <1>5 DEF Distinct
<1>7. QED
  BY <1>3, <1>4, <1>6

(* Snapshots that cover an earlier row, and never less than the last one.  *)
Anchored(j) == \A i \in Memos(j) : \E h \in Places(j) : h < i /\ j[h].seq = j[i].memo

Ascending(j) == \A i, k \in Memos(j) : i < k => j[i].memo <= j[k].memo

(* The last snapshot covers the most.                                      *)
Tops(top, j) ==
  /\ top \in Nat \cup {NoMemo}
  /\ \A i \in Memos(j) : j[i].memo <= top
  /\ top # NoMemo => \E i \in Memos(j) : j[i].memo = top

LEMMA LastMemoIs ==
  ASSUME NEW j \in Seq(Entry)
  PROVE  /\ LastMemo(j) \in Nat \cup {NoMemo}
         /\ Memos(j) = {} => LastMemo(j) = NoMemo
         /\ \A i \in Memos(j) : (\A k \in Memos(j) : k <= i) => LastMemo(j) = j[i].memo
         /\ Ascending(j) => Tops(LastMemo(j), j)
<1>1. Memos(j) = {} => LastMemo(j) = NoMemo
  BY DEF LastMemo, Memos
<1>2. ASSUME NEW i \in Memos(j), \A k \in Memos(j) : k <= i
      PROVE  LastMemo(j) = j[i].memo
  <2> DEFINE last == CHOOSE x \in Memos(j) : \A k \in Memos(j) : k <= x
  <2>1. last \in Memos(j) /\ \A k \in Memos(j) : k <= last
    BY <1>2
  <2>2. last = i
    BY <1>2, <2>1, JournalIs
  <2>3. LastMemo(j) = j[last].memo
    BY <1>2 DEF LastMemo, Memos
  <2>4. QED
    BY <2>2, <2>3
<1>3. ASSUME Memos(j) # {}
      PROVE  \E i \in Memos(j) : \A k \in Memos(j) : k <= i
  <2>1. Memos(j) \subseteq 0 .. Len(j) /\ Len(j) \in Nat
    BY JournalIs
  <2>2. QED
    BY <1>3, <2>1, GreatestNatural
<1>4. LastMemo(j) \in Nat \cup {NoMemo}
  BY <1>1, <1>2, <1>3, JournalIs
<1>5. ASSUME Ascending(j)
      PROVE  Tops(LastMemo(j), j)
  <2>1. CASE Memos(j) = {}
    BY <1>1, <2>1 DEF Tops
  <2>2. CASE Memos(j) # {}
    <3>1. PICK i \in Memos(j) : \A k \in Memos(j) : k <= i
      BY <1>3, <2>2
    <3>2. LastMemo(j) = j[i].memo
      BY <1>2, <3>1
    <3>3. \A k \in Memos(j) : j[k].memo <= j[i].memo
      <4>1. \A k \in Memos(j) : k < i \/ k = i
        BY <3>1, JournalIs
      <4>2. j[i].memo \in Nat
        BY JournalIs
      <4>3. QED
        BY <1>5, <4>1, <4>2 DEF Ascending
    <3>4. QED
      BY <1>4, <3>2, <3>3 DEF Tops
  <2>3. QED
    BY <2>1, <2>2
<1>6. QED
  BY <1>1, <1>2, <1>4, <1>5

(* A stretch of a journal.                                                 *)
Stretch(part, j, a, b) ==
  /\ part \in Seq(Entry)
  /\ DOMAIN part = 1 .. b - a + 1
  /\ \A i \in DOMAIN part : part[i] = j[i + a - 1] /\ i + a - 1 \in a .. b

LEMMA SubSeqStretch ==
  ASSUME NEW j \in Seq(Entry), NEW a \in Nat \ {0}, NEW b \in Nat, b <= Len(j)
  PROVE  Stretch(SubSeq(j, a, b), j, a, b)
<1>1. Len(j) \in Nat /\ DOMAIN j = 1 .. Len(j) /\ \A i \in DOMAIN j : j[i] \in Entry
  BY SeqIsFunction
<1>2. \A i \in a .. b : j[i] \in Entry
  BY <1>1
<1>3. PICK part : part = SubSeq(j, a, b)
  OBVIOUS
<1>4. /\ part \in Seq(Entry) /\ Len(part) = IF a <= b THEN b - a + 1 ELSE 0
      /\ \A i \in 1 .. b - a + 1 : part[i] = j[a + i - 1]
  BY <1>2, <1>3, SubSeqProperties
<1>5. DOMAIN part = 1 .. b - a + 1
  BY <1>4, SeqIsFunction
<1>6. ASSUME NEW i \in DOMAIN part
      PROVE  part[i] = j[i + a - 1] /\ i + a - 1 \in a .. b
  <2>1. i \in 1 .. b - a + 1 /\ i + a - 1 = a + i - 1
    BY <1>5
  <2>2. i + a - 1 \in a .. b
    BY <2>1
  <2>3. QED
    BY <1>4, <2>1, <2>2
<1>7. QED
  BY <1>3, <1>4, <1>5, <1>6 DEF Stretch

LEMMA StretchIs ==
  ASSUME NEW j \in Seq(Entry), NEW a \in Nat \ {0}, NEW b \in Nat, b <= Len(j),
         NEW part, Stretch(part, j, a, b)
  PROVE  \A i \in DOMAIN part : /\ i \in Places(part) <=> i + a - 1 \in Places(j)
                                /\ i \in Memos(part) <=> i + a - 1 \in Memos(j)
<1>1. Len(j) \in Nat /\ DOMAIN j = 1 .. Len(j)
  BY SeqIsFunction
<1>2. \A i \in a .. b : i \in DOMAIN j
  BY <1>1
<1>3. QED
  BY <1>2 DEF Places, Memos, Stretch

Between(j, a, b) == {j[i] : i \in {k \in Places(j) : a <= k /\ k <= b}}

LEMMA StretchRows ==
  ASSUME NEW j \in Seq(Entry), NEW a \in Nat \ {0}, NEW b \in Nat, b <= Len(j),
         NEW part, Stretch(part, j, a, b)
  PROVE  Rows(part) = Between(j, a, b)
<1>1. /\ part \in Seq(Entry)
      /\ DOMAIN part = 1 .. b - a + 1
      /\ \A i \in DOMAIN part : part[i] = j[i + a - 1] /\ i + a - 1 \in a .. b
      /\ \A i \in DOMAIN part : /\ i \in Places(part) <=> i + a - 1 \in Places(j)
                                /\ i \in Memos(part) <=> i + a - 1 \in Memos(j)
  BY StretchIs DEF Stretch
<1>2. Rows(part) = {part[i] : i \in Places(part)} /\ Places(part) \subseteq DOMAIN part
  BY <1>1, JournalIs
<1>3. ASSUME NEW i \in Places(part)
      PROVE  part[i] \in Between(j, a, b)
  <2>1. i + a - 1 \in Places(j) /\ i + a - 1 \in a .. b /\ part[i] = j[i + a - 1]
    BY <1>1, <1>2
  <2>2. QED
    BY <2>1 DEF Between
<1>4. ASSUME NEW k \in Places(j), a <= k, k <= b
      PROVE  j[k] \in Rows(part)
  <2>1. k \in Nat
    BY JournalIs
  <2>2. k - a + 1 \in 1 .. b - a + 1 /\ (k - a + 1) + a - 1 = k
    BY <1>4, <2>1
  <2>3. k - a + 1 \in DOMAIN part
    BY <1>1, <2>2
  <2>4. part[k - a + 1] = j[k] /\ k - a + 1 \in Places(part)
    BY <1>1, <2>2, <2>3
  <2>5. QED
    BY <1>2, <2>4
<1>5. Rows(part) \subseteq Between(j, a, b)
  BY <1>2, <1>3
<1>6. Between(j, a, b) \subseteq Rows(part)
  BY <1>4 DEF Between
<1>7. QED
  BY <1>5, <1>6

(* A beginning.                                                            *)
LEMMA BeginningIs ==
  ASSUME NEW j \in Seq(Entry), NEW n \in 0 .. Len(j), NEW part, Stretch(part, j, 1, n)
  PROVE  /\ part \in Seq(Entry)
         /\ DOMAIN part = 1 .. n
         /\ \A i \in DOMAIN part : part[i] = j[i]
         /\ Places(part) = {i \in Places(j) : i <= n}
         /\ Memos(part) = {i \in Memos(j) : i <= n}
         /\ Rows(part) = {j[i] : i \in Places(part)} /\ Rows(part) \subseteq Rows(j)
         /\ Ranked(j) => Ranked(part)
         /\ Anchored(j) => Anchored(part)
         /\ Ascending(j) => Ascending(part)
<1>0. Len(j) \in Nat
  BY JournalIs
<1>1. /\ part \in Seq(Entry) /\ DOMAIN part = 1 .. n - 1 + 1
      /\ \A i \in DOMAIN part : part[i] = j[i + 1 - 1]
      /\ \A i \in DOMAIN part : /\ i \in Places(part) <=> i + 1 - 1 \in Places(j)
                                /\ i \in Memos(part) <=> i + 1 - 1 \in Memos(j)
  <2>1. n \in Nat /\ n <= Len(j)
    BY <1>0
  <2>2. \A i \in DOMAIN part : /\ i \in Places(part) <=> i + 1 - 1 \in Places(j)
                               /\ i \in Memos(part) <=> i + 1 - 1 \in Memos(j)
    BY <2>1, StretchIs
  <2>3. QED
    BY <2>2 DEF Stretch
<1>2. n - 1 + 1 = n /\ \A i \in DOMAIN part : i + 1 - 1 = i
  BY <1>0, <1>1
<1>3. /\ DOMAIN part = 1 .. n /\ \A i \in DOMAIN part : part[i] = j[i]
      /\ \A i \in DOMAIN part : /\ i \in Places(part) <=> i \in Places(j)
                                /\ i \in Memos(part) <=> i \in Memos(j)
  BY <1>1, <1>2
<1>4. /\ Places(part) \subseteq DOMAIN part /\ Memos(part) \subseteq DOMAIN part
      /\ Rows(part) = {part[i] : i \in Places(part)}
  BY <1>1, JournalIs
<1>5. Places(j) \subseteq 1 .. Len(j) /\ Memos(j) \subseteq 1 .. Len(j)
  BY JournalIs
<1>6. \A i \in 1 .. Len(j) : i <= n <=> i \in DOMAIN part
  BY <1>0, <1>3
<1>7. Places(part) = {i \in Places(j) : i <= n}
  BY <1>3, <1>4, <1>5, <1>6
<1>8. Memos(part) = {i \in Memos(j) : i <= n}
  BY <1>3, <1>4, <1>5, <1>6
<1>9. /\ \A i \in Places(part) : part[i] = j[i] /\ i \in Places(j)
      /\ \A i \in Memos(part) : part[i] = j[i] /\ i \in Memos(j)
  BY <1>3, <1>4
<1>10. Rows(part) = {j[i] : i \in Places(part)} /\ Rows(part) \subseteq Rows(j)
  <2>1. Rows(j) = {j[i] : i \in Places(j)}
    BY JournalIs
  <2>2. QED
    BY <1>4, <1>9, <2>1
<1>11. Ranked(j) => Ranked(part)
  BY <1>9 DEF Ranked
<1>12. Ascending(j) => Ascending(part)
  BY <1>9 DEF Ascending
<1>13. ASSUME Anchored(j)
       PROVE  Anchored(part)
  <2> SUFFICES ASSUME NEW i \in Memos(part)
               PROVE  \E h \in Places(part) : h < i /\ part[h].seq = part[i].memo
    BY DEF Anchored
  <2>1. PICK h \in Places(j) : h < i /\ j[h].seq = j[i].memo
    BY <1>9, <1>13 DEF Anchored
  <2>2. h \in Places(part)
    <3>1. i \in 1 .. n /\ h \in 1 .. Len(j)
      BY <1>3, <1>4, <1>5
    <3>2. h <= n
      BY <1>0, <2>1, <3>1
    <3>3. QED
      BY <1>7, <3>2
  <2>3. QED
    BY <1>9, <2>1, <2>2
<1>14. QED
  BY <1>1, <1>3, <1>7, <1>8, <1>10, <1>11, <1>12, <1>13

(* Its rows are the first ones.                                            *)
LEMMA BeginningNumbered ==
  ASSUME NEW j \in Seq(Entry), Ranked(j), Numbered(Rows(j)), Cardinality(Rows(j)) \in Nat,
         NEW n \in 0 .. Len(j), NEW part, Stretch(part, j, 1, n)
  PROVE  /\ IsFiniteSet(Rows(part)) /\ Numbered(Rows(part))
         /\ Cardinality(Rows(part)) \in 0 .. Cardinality(Rows(j))
<1>2. /\ part \in Seq(Entry) /\ Places(part) = {i \in Places(j) : i <= n}
      /\ Rows(part) = {j[i] : i \in Places(part)} /\ Rows(part) \subseteq Rows(j)
  BY BeginningIs
<1>3. /\ Rows(j) = {j[i] : i \in Places(j)} /\ Rows(j) \subseteq Row
      /\ Places(j) \subseteq Nat /\ Rows(part) \subseteq Row
  BY <1>2, JournalIs
<1>4. Distinct(Rows(part))
  BY <1>2 DEF Numbered, Counts, Distinct
<1>5. CASE \A i \in Places(j) : i <= n
  <2>1. Rows(part) = Rows(j)
    BY <1>2, <1>3, <1>5
  <2>2. Counts(Rows(j), Cardinality(Rows(j)))
    BY DEF Numbered
  <2>3. IsFiniteSet(Rows(j))
    BY <1>3, <2>2, CountIs
  <2>4. QED
    BY <2>1, <2>3
<1>6. CASE \E i \in Places(j) : ~(i <= n)
  <2>1. PICK i \in Places(j) : ~(i <= n) /\ \A k \in Places(j) : ~(k <= n) => i <= k
    <3> DEFINE late == {k \in Places(j) : ~(k <= n)}
    <3>1. late # {} /\ late \subseteq Nat
      BY <1>3, <1>6
    <3>2. \E i \in late : \A k \in late : i <= k
      <4> HIDE DEF late
      <4>1. QED
        BY <3>1, LeastNatural
    <3>3. QED
      BY <3>2
  <2> DEFINE m == j[i].seq
  <2>2. m \in Nat /\ m < Cardinality(Rows(j)) /\ n \in Nat
    <3>1. j[i] \in Rows(j)
      BY <1>3
    <3>2. m \in Nat
      BY <1>3, <3>1, EntryKinds
    <3>3. m < Cardinality(Rows(j))
      BY <3>1 DEF Numbered, Counts
    <3>4. Len(j) \in Nat
      BY JournalIs
    <3>5. QED
      BY <3>2, <3>3, <3>4
  <2>3. ASSUME NEW r \in Rows(part)
        PROVE  r.seq < m
    <3>1. PICK k \in Places(j) : k <= n /\ r = j[k]
      BY <1>2
    <3>2. k < i
      BY <1>3, <2>1, <2>2, <3>1
    <3>3. QED
      BY <3>1, <3>2 DEF Ranked
  <2>4. ASSUME NEW c \in 0 .. m - 1
        PROVE  \E r \in Rows(part) : r.seq = c
    <3>1. c \in 0 .. Cardinality(Rows(j)) - 1 /\ c < m
      BY <2>2
    <3>2. PICK r \in Rows(j) : r.seq = c
      BY <3>1 DEF Numbered, Counts
    <3>3. PICK k \in Places(j) : r = j[k]
      BY <1>3
    <3>4. k < i
      BY <3>1, <3>2, <3>3, RankedIs
    <3>5. k <= n
      BY <1>3, <2>1, <3>4
    <3>6. QED
      BY <1>2, <3>2, <3>3, <3>5
  <2>5. Counts(Rows(part), m)
    BY <1>4, <2>3, <2>4 DEF Counts
  <2>6. IsFiniteSet(Rows(part)) /\ Cardinality(Rows(part)) = m /\ Numbered(Rows(part))
    <3> HIDE DEF m
    <3>1. QED
      BY <1>3, <2>2, <2>5, CountIs
  <2>7. QED
    BY <2>2, <2>6
<1>7. QED
  BY <1>5, <1>6

(* A stretch is one sequence.                                              *)
LEMMA StretchUnique ==
  ASSUME NEW j, NEW a \in Nat \ {0}, NEW b \in Nat, NEW x, NEW y,
         Stretch(x, j, a, b), Stretch(y, j, a, b)
  PROVE  x = y
<1>1. x \in Seq(Entry) /\ y \in Seq(Entry) /\ DOMAIN x = DOMAIN y
  BY DEF Stretch
<1>2. Len(x) = Len(y) /\ DOMAIN x = 1 .. Len(x)
  BY <1>1, LenProperties
<1>3. \A i \in DOMAIN x : x[i] = y[i]
  BY <1>1 DEF Stretch
<1>4. QED
  BY <1>1, <1>2, <1>3, SeqEqual

LEMMA StretchWhole ==
  ASSUME NEW j \in Seq(Entry)
  PROVE  Stretch(j, j, 1, Len(j))
<1>1. Len(j) \in Nat /\ DOMAIN j = 1 .. Len(j)
  BY SeqIsFunction
<1>2. QED
  BY <1>1 DEF Stretch

(* The snapshot of a stretch that covers the most.                         *)
TopIn(top, j, a, b) ==
  /\ top \in Nat \cup {NoMemo}
  /\ \A i \in Memos(j) : a <= i /\ i <= b => j[i].memo <= top
  /\ top # NoMemo => \E i \in Memos(j) : a <= i /\ i <= b /\ j[i].memo = top

LEMMA StretchTop ==
  ASSUME NEW j \in Seq(Entry), Ascending(j),
         NEW a \in Nat \ {0}, NEW b \in Nat, b <= Len(j), NEW part, Stretch(part, j, a, b)
  PROVE  TopIn(LastMemo(part), j, a, b)
<1>1. /\ part \in Seq(Entry)
      /\ DOMAIN part = 1 .. b - a + 1
      /\ \A i \in DOMAIN part : part[i] = j[i + a - 1] /\ i + a - 1 \in a .. b
      /\ \A i \in DOMAIN part : i \in Memos(part) <=> i + a - 1 \in Memos(j)
  BY StretchIs DEF Stretch
<1>2. \A i \in Memos(part) : /\ i \in DOMAIN part /\ i \in Int /\ i + a - 1 \in Memos(j)
                             /\ part[i] = j[i + a - 1] /\ i + a - 1 \in a .. b
  BY <1>1, JournalIs
<1>3. Ascending(part)
  <2> SUFFICES ASSUME NEW i \in Memos(part), NEW k \in Memos(part), i < k
               PROVE  part[i].memo <= part[k].memo
    BY DEF Ascending
  <2>1. i + a - 1 < k + a - 1
    BY <1>2
  <2>2. QED
    BY <1>2, <2>1 DEF Ascending
<1>4. Tops(LastMemo(part), part)
  BY <1>1, <1>3, LastMemoIs
<1>5. ASSUME NEW k \in Memos(j), a <= k, k <= b
      PROVE  k - a + 1 \in Memos(part) /\ part[k - a + 1] = j[k]
  <2>1. k \in Nat
    BY JournalIs
  <2>2. k - a + 1 \in 1 .. b - a + 1 /\ (k - a + 1) + a - 1 = k
    BY <1>5, <2>1
  <2>3. QED
    BY <1>1, <2>2
<1>6. \A k \in Memos(j) : a <= k /\ k <= b => j[k].memo <= LastMemo(part)
  BY <1>4, <1>5 DEF Tops
<1>7. LastMemo(part) # NoMemo => \E k \in Memos(j) : a <= k /\ k <= b /\ j[k].memo = LastMemo(part)
  <2> SUFFICES ASSUME LastMemo(part) # NoMemo
               PROVE  \E k \in Memos(j) : a <= k /\ k <= b /\ j[k].memo = LastMemo(part)
    OBVIOUS
  <2>1. PICK i \in Memos(part) : part[i].memo = LastMemo(part)
    BY <1>4 DEF Tops
  <2>2. /\ i + a - 1 \in Memos(j) /\ i + a - 1 \in a .. b
        /\ j[i + a - 1].memo = LastMemo(part)
    BY <1>2, <2>1
  <2>3. a <= i + a - 1 /\ i + a - 1 <= b
    BY <2>2
  <2>4. QED
    BY <2>2, <2>3
<1>8. QED
  BY <1>4, <1>6, <1>7 DEF Tops, TopIn

(* Two stretches that meet make one.                                       *)
LEMMA StretchesJoin ==
  ASSUME NEW j \in Seq(Entry), Ascending(j),
         NEW k \in Nat, NEW f \in Nat, NEW e \in Nat, f <= k, k <= Len(j), f <= e, e <= Len(j),
         NEW x, Stretch(x, j, 1, k), NEW y, Stretch(y, j, f + 1, e),
         NEW m, m = (IF e > k THEN e ELSE k), NEW z, Stretch(z, j, 1, m)
  PROVE  /\ m \in Nat /\ m <= Len(j) /\ k <= m /\ e <= m
         /\ Rows(z) = Rows(x) \cup Rows(y)
         /\ LastMemo(z) = IF LastMemo(y) > LastMemo(x) THEN LastMemo(y) ELSE LastMemo(x)
<1>1. m \in Nat /\ m <= Len(j) /\ k <= m /\ e <= m /\ f + 1 \in Nat \ {0}
  <2>1. CASE e > k
    BY <2>1
  <2>2. CASE ~(e > k)
    BY <2>2
  <2>3. QED
    BY <2>1, <2>2
<1>2. \A i \in Nat : 1 <= i /\ i <= m <=> (1 <= i /\ i <= k) \/ (f + 1 <= i /\ i <= e)
  <2>1. CASE e > k /\ m = e
    BY <2>1
  <2>2. CASE ~(e > k) /\ m = k
    BY <2>2
  <2>3. QED
    BY <2>1, <2>2
<1>3. PICK one \in Nat \ {0} : one = 1
  OBVIOUS
<1>4. /\ Rows(x) = Between(j, one, k) /\ TopIn(LastMemo(x), j, one, k)
      /\ Rows(z) = Between(j, one, m) /\ TopIn(LastMemo(z), j, one, m)
  BY <1>1, <1>3, StretchRows, StretchTop
<1>5. Rows(y) = Between(j, f + 1, e) /\ TopIn(LastMemo(y), j, f + 1, e)
  BY <1>1, StretchRows, StretchTop
<1>6. Places(j) \subseteq Nat /\ Memos(j) \subseteq Nat /\ \A i \in Memos(j) : j[i].memo \in Nat
  BY JournalIs
<1>7. Between(j, 1, m) = Between(j, 1, k) \cup Between(j, f + 1, e)
  BY <1>2, <1>6 DEF Between
<1>8. /\ LastMemo(x) \in Int /\ LastMemo(x) >= -1
      /\ LastMemo(y) \in Int /\ LastMemo(y) >= -1
      /\ LastMemo(z) \in Int /\ LastMemo(z) >= -1
  BY <1>4, <1>5 DEF TopIn, NoMemo
<1>9. ASSUME NEW i \in Memos(j)
      PROVE  /\ 1 <= i /\ i <= k => j[i].memo <= LastMemo(x) /\ j[i].memo <= LastMemo(z)
             /\ f + 1 <= i /\ i <= e => j[i].memo <= LastMemo(y) /\ j[i].memo <= LastMemo(z)
             /\ 1 <= i /\ i <= m => (1 <= i /\ i <= k) \/ (f + 1 <= i /\ i <= e)
  BY <1>2, <1>3, <1>4, <1>5, <1>6 DEF TopIn
<1>10. LastMemo(x) <= LastMemo(z)
  <2>1. CASE LastMemo(x) = NoMemo
    BY <1>8, <2>1 DEF NoMemo
  <2>2. CASE LastMemo(x) # NoMemo
    BY <1>3, <1>4, <1>9, <2>2 DEF TopIn
  <2>3. QED
    BY <2>1, <2>2
<1>11. LastMemo(y) <= LastMemo(z)
  <2>1. CASE LastMemo(y) = NoMemo
    BY <1>8, <2>1 DEF NoMemo
  <2>2. CASE LastMemo(y) # NoMemo
    BY <1>5, <1>9, <2>2 DEF TopIn
  <2>3. QED
    BY <2>1, <2>2
<1>12. LastMemo(z) <= LastMemo(x) \/ LastMemo(z) <= LastMemo(y)
  <2>1. CASE LastMemo(z) = NoMemo
    BY <1>8, <2>1 DEF NoMemo
  <2>2. CASE LastMemo(z) # NoMemo
    <3>1. PICK i \in Memos(j) : 1 <= i /\ i <= m /\ j[i].memo = LastMemo(z)
      BY <1>3, <1>4, <2>2 DEF TopIn
    <3>2. QED
      BY <1>9, <3>1
  <2>3. QED
    BY <2>1, <2>2
<1>13. LastMemo(z) = IF LastMemo(y) > LastMemo(x) THEN LastMemo(y) ELSE LastMemo(x)
  BY <1>8, <1>10, <1>11, <1>12
<1>14. QED
  BY <1>1, <1>3, <1>4, <1>5, <1>7, <1>13

----------------------------------------------------------------------------
(* A journal that grows.                                                   *)

Grows(t, j, fresh) == t = j \o fresh

LEMMA ConcatIs ==
  ASSUME NEW j \in Seq(Entry), NEW fresh \in Seq(Entry), NEW t, Grows(t, j, fresh)
  PROVE  /\ t \in Seq(Entry) /\ Len(t) = Len(j) + Len(fresh)
         /\ \A i \in DOMAIN j : i \in DOMAIN t /\ t[i] = j[i]
         /\ \A i \in DOMAIN fresh : i + Len(j) \in DOMAIN t /\ t[i + Len(j)] = fresh[i]
         /\ \A i \in DOMAIN t : i \in DOMAIN j \/ (i - Len(j) \in DOMAIN fresh /\ i \notin DOMAIN j)
<1>1. /\ t \in Seq(Entry) /\ Len(t) = Len(j) + Len(fresh)
      /\ \A i \in 1 .. Len(j) + Len(fresh) : t[i] = IF i <= Len(j) THEN j[i] ELSE fresh[i - Len(j)]
  BY ConcatProperties DEF Grows
<1>2. /\ Len(j) \in Nat /\ DOMAIN j = 1 .. Len(j)
      /\ Len(fresh) \in Nat /\ DOMAIN fresh = 1 .. Len(fresh)
      /\ DOMAIN t = 1 .. Len(j) + Len(fresh)
  BY <1>1, LenProperties
<1>3. \A i \in DOMAIN j : i \in DOMAIN t /\ t[i] = j[i]
  BY <1>1, <1>2
<1>4. \A i \in DOMAIN fresh : i + Len(j) \in DOMAIN t /\ t[i + Len(j)] = fresh[i]
  <2> SUFFICES ASSUME NEW i \in DOMAIN fresh
               PROVE  i + Len(j) \in DOMAIN t /\ t[i + Len(j)] = fresh[i]
    OBVIOUS
  <2>1. i + Len(j) \in DOMAIN t /\ ~(i + Len(j) <= Len(j)) /\ (i + Len(j)) - Len(j) = i
    BY <1>2
  <2>2. QED
    BY <1>1, <1>2, <2>1
<1>5. \A i \in DOMAIN t : i \in DOMAIN j \/ (i - Len(j) \in DOMAIN fresh /\ i \notin DOMAIN j)
  BY <1>2
<1>6. QED
  BY <1>1, <1>3, <1>4, <1>5

LEMMA GrowsKinds ==
  ASSUME NEW j \in Seq(Entry), NEW fresh \in Seq(Entry), NEW t, Grows(t, j, fresh)
  PROVE  /\ \A i \in Places(j) : i \in Places(t) /\ t[i] = j[i]
         /\ \A i \in Memos(j) : i \in Memos(t) /\ t[i] = j[i]
         /\ \A i \in Places(fresh) : i + Len(j) \in Places(t) /\ t[i + Len(j)] = fresh[i]
         /\ \A i \in Memos(fresh) : i + Len(j) \in Memos(t) /\ t[i + Len(j)] = fresh[i]
         /\ \A i \in Places(t) : i \in Places(j) \/ (i - Len(j) \in Places(fresh) /\ i > Len(j))
         /\ \A i \in Memos(t) : i \in Memos(j) \/ (i - Len(j) \in Memos(fresh) /\ i > Len(j))
         /\ Rows(t) = Rows(j) \cup Rows(fresh)
<1>1. /\ t \in Seq(Entry) /\ Len(t) = Len(j) + Len(fresh)
      /\ \A i \in DOMAIN j : i \in DOMAIN t /\ t[i] = j[i]
      /\ \A i \in DOMAIN fresh : i + Len(j) \in DOMAIN t /\ t[i + Len(j)] = fresh[i]
      /\ \A i \in DOMAIN t : i \in DOMAIN j \/ (i - Len(j) \in DOMAIN fresh /\ i \notin DOMAIN j)
  BY ConcatIs
<1>2. /\ Len(j) \in Nat /\ DOMAIN j = 1 .. Len(j)
      /\ Len(fresh) \in Nat /\ DOMAIN fresh = 1 .. Len(fresh)
      /\ DOMAIN t = 1 .. Len(t)
  BY <1>1, LenProperties
<1>3. /\ \A i \in Places(j) : i \in Places(t) /\ t[i] = j[i]
      /\ \A i \in Memos(j) : i \in Memos(t) /\ t[i] = j[i]
      /\ \A i \in Places(fresh) : i + Len(j) \in Places(t) /\ t[i + Len(j)] = fresh[i]
      /\ \A i \in Memos(fresh) : i + Len(j) \in Memos(t) /\ t[i + Len(j)] = fresh[i]
  BY <1>1 DEF Places, Memos
<1>4. ASSUME NEW i \in DOMAIN t
      PROVE  \/ i \in DOMAIN j /\ t[i] = j[i]
             \/ i - Len(j) \in DOMAIN fresh /\ t[i] = fresh[i - Len(j)] /\ i > Len(j)
  <2>1. CASE i \in DOMAIN j
    BY <1>1, <2>1
  <2>2. CASE i - Len(j) \in DOMAIN fresh
    <3>1. (i - Len(j)) + Len(j) = i /\ i > Len(j)
      BY <1>1, <1>2, <2>2
    <3>2. QED
      BY <1>1, <2>2, <3>1
  <2>3. QED
    BY <1>1, <2>1, <2>2
<1>5. \A i \in Places(t) : i \in Places(j) \/ (i - Len(j) \in Places(fresh) /\ i > Len(j))
  BY <1>4 DEF Places
<1>6. \A i \in Memos(t) : i \in Memos(j) \/ (i - Len(j) \in Memos(fresh) /\ i > Len(j))
  BY <1>4 DEF Memos
<1>7. Rows(t) = Rows(j) \cup Rows(fresh)
  <2>1. /\ Rows(t) = {t[i] : i \in Places(t)}
        /\ Rows(j) = {j[i] : i \in Places(j)}
        /\ Rows(fresh) = {fresh[i] : i \in Places(fresh)}
    BY <1>1, JournalIs
  <2>2. \A i \in Places(t) : \/ i \in Places(j) /\ t[i] = j[i]
                             \/ i - Len(j) \in Places(fresh) /\ t[i] = fresh[i - Len(j)]
    BY <1>4 DEF Places
  <2>3. Rows(t) \subseteq Rows(j) \cup Rows(fresh)
    BY <2>1, <2>2
  <2>4. Rows(j) \subseteq Rows(t) /\ Rows(fresh) \subseteq Rows(t)
    BY <1>3, <2>1
  <2>5. QED
    BY <2>3, <2>4
<1>8. QED
  BY <1>3, <1>5, <1>6, <1>7

(* What it had it still has, in the same places.                           *)
LEMMA StretchKept ==
  ASSUME NEW j \in Seq(Entry), NEW fresh \in Seq(Entry), NEW t, Grows(t, j, fresh),
         NEW a \in Nat \ {0}, NEW b \in Nat, b <= Len(j)
  PROVE  SubSeq(t, a, b) = SubSeq(j, a, b)
<1>1. /\ t \in Seq(Entry) /\ b <= Len(t)
      /\ \A i \in DOMAIN j : t[i] = j[i]
      /\ DOMAIN j = 1 .. Len(j) /\ Len(j) \in Nat
  <2>1. /\ t \in Seq(Entry) /\ Len(t) = Len(j) + Len(fresh)
        /\ \A i \in DOMAIN j : t[i] = j[i]
    BY ConcatIs
  <2>2. Len(j) \in Nat /\ Len(fresh) \in Nat /\ DOMAIN j = 1 .. Len(j)
    BY LenProperties
  <2>3. QED
    BY <2>1, <2>2
<1>2. PICK x : x = SubSeq(j, a, b)
  OBVIOUS
<1>3. PICK y : y = SubSeq(t, a, b)
  OBVIOUS
<1>4. Stretch(x, j, a, b)
  BY <1>2, SubSeqStretch
<1>5. Stretch(y, t, a, b)
  BY <1>1, <1>3, SubSeqStretch
<1>6. \A i \in a .. b : t[i] = j[i]
  BY <1>1
<1>7. Stretch(x, t, a, b)
  BY <1>4, <1>6 DEF Stretch
<1>8. x = y
  BY <1>5, <1>7, StretchUnique
<1>9. QED
  BY <1>2, <1>3, <1>8

(* Rows are added under the next numbers.                                  *)
LEMMA GrowsByRows ==
  ASSUME NEW j \in Seq(Entry), Ranked(j), NEW n \in Nat, Counts(Rows(j), n),
         NEW fresh \in Seq(Entry),
         \A i \in DOMAIN fresh : fresh[i] \in Row /\ fresh[i].seq = n + i - 1,
         NEW t, Grows(t, j, fresh)
  PROVE  /\ Ranked(t) /\ Counts(Rows(t), n + Len(fresh))
         /\ Memos(t) = Memos(j) /\ LastMemo(t) = LastMemo(j)
         /\ Anchored(j) => Anchored(t)
         /\ Ascending(j) => Ascending(t)
<1>0. /\ Len(fresh) \in Nat /\ DOMAIN fresh = 1 .. Len(fresh)
      /\ Len(j) \in Nat /\ Places(j) \subseteq 1 .. Len(j) /\ Memos(j) \subseteq 1 .. Len(j)
      /\ t \in Seq(Entry)
  BY LenProperties, JournalIs, ConcatIs
<1>1. /\ \A i \in Places(j) : i \in Places(t) /\ t[i] = j[i]
      /\ \A i \in Memos(j) : i \in Memos(t) /\ t[i] = j[i]
      /\ \A i \in Places(fresh) : i + Len(j) \in Places(t) /\ t[i + Len(j)] = fresh[i]
      /\ \A i \in Places(t) : i \in Places(j) \/ (i - Len(j) \in Places(fresh) /\ i > Len(j))
      /\ \A i \in Memos(t) : i \in Memos(j) \/ (i - Len(j) \in Memos(fresh) /\ i > Len(j))
      /\ Rows(t) = Rows(j) \cup Rows(fresh)
  BY GrowsKinds
<1>2. Memos(fresh) = {} /\ Places(fresh) = DOMAIN fresh
  BY EntryKinds DEF Memos, Places
<1>3. Memos(t) = Memos(j)
  BY <1>1, <1>2
<1>4. LastMemo(t) = LastMemo(j)
  <2>1. CASE Memos(j) = {}
    BY <1>0, <1>3, <2>1, LastMemoIs
  <2>2. CASE Memos(j) # {}
    <3>1. PICK i \in Memos(j) : \A k \in Memos(j) : k <= i
      <4>1. Memos(j) \subseteq 0 .. Len(j)
        BY <1>0
      <4>2. QED
        BY <1>0, <2>2, <4>1, GreatestNatural
    <3>2. LastMemo(j) = j[i].memo
      BY <3>1, LastMemoIs
    <3>3. LastMemo(t) = t[i].memo
      BY <1>0, <1>3, <3>1, LastMemoIs
    <3>4. QED
      BY <1>1, <3>2, <3>3
  <2>3. QED
    BY <2>1, <2>2
<1>5. ASSUME NEW i \in Places(t)
      PROVE  \/ i \in Places(j) /\ t[i] = j[i] /\ i <= Len(j) /\ i \in Nat
                /\ t[i].seq < n /\ t[i].seq \in Nat
             \/ i > Len(j) /\ i \in Nat /\ t[i].seq = n + (i - Len(j)) - 1
                /\ i - Len(j) \in 1 .. Len(fresh)
  <2>1. CASE i \in Places(j)
    <3>1. j[i] \in Rows(j) /\ j[i] \in Row
      BY <2>1, JournalIs
    <3>2. j[i].seq < n /\ j[i].seq \in Nat
      BY <3>1, EntryKinds DEF Counts
    <3>3. QED
      BY <1>0, <1>1, <2>1, <3>2
  <2>2. CASE i - Len(j) \in Places(fresh) /\ i > Len(j)
    <3>1. i \in DOMAIN t /\ DOMAIN t = 1 .. Len(t)
      BY <1>0, JournalIs
    <3>2. i \in Nat /\ i - Len(j) \in DOMAIN fresh /\ (i - Len(j)) + Len(j) = i
      BY <1>0, <1>2, <2>2, <3>1
    <3>3. t[i] = fresh[i - Len(j)]
      BY <1>1, <2>2, <3>2
    <3>4. fresh[i - Len(j)].seq = n + (i - Len(j)) - 1
      BY <3>2
    <3>5. QED
      BY <1>0, <2>2, <3>1, <3>2, <3>3, <3>4
  <2>3. QED
    BY <1>1, <2>1, <2>2
<1>6. Ranked(t)
  <2> SUFFICES ASSUME NEW i \in Places(t), NEW k \in Places(t), i < k
               PROVE  t[i].seq < t[k].seq
    BY DEF Ranked
  <2>1. CASE i \in Places(j) /\ k \in Places(j)
    BY <1>1, <2>1 DEF Ranked
  <2>2. CASE i > Len(j) /\ k > Len(j)
    <3>1. t[i].seq = n + (i - Len(j)) - 1 /\ t[k].seq = n + (k - Len(j)) - 1
      BY <1>0, <1>5, <2>2
    <3>2. i \in Nat /\ k \in Nat
      BY <1>5
    <3>3. QED
      BY <1>0, <3>1, <3>2
  <2>3. CASE i \in Places(j) /\ k > Len(j)
    BY <1>0, <1>5, <2>3
  <2>4. CASE i > Len(j) /\ k \in Places(j)
    BY <1>0, <1>5, <2>4
  <2>5. QED
    BY <1>5, <2>1, <2>2, <2>3, <2>4
<1>7. Counts(Rows(t), n + Len(fresh))
  <2>1. Distinct(Rows(t))
    BY <1>0, <1>6, RankedIs
  <2>2. Rows(t) = {t[i] : i \in Places(t)}
    BY <1>0, JournalIs
  <2>3. ASSUME NEW r \in Rows(t)
        PROVE  r.seq < n + Len(fresh)
    <3>1. PICK i \in Places(t) : r = t[i]
      BY <2>2
    <3>2. QED
      BY <1>0, <1>5, <3>1
  <2>4. ASSUME NEW c \in 0 .. n + Len(fresh) - 1
        PROVE  \E r \in Rows(t) : r.seq = c
    <3>1. CASE c < n
      <4>1. PICK r \in Rows(j) : r.seq = c
        BY <3>1 DEF Counts
      <4>2. QED
        BY <1>1, <4>1
    <3>2. CASE ~(c < n)
      <4>1. c - n + 1 \in DOMAIN fresh /\ n + (c - n + 1) - 1 = c
        BY <1>0, <3>2
      <4>2. fresh[c - n + 1].seq = c
        BY <4>1
      <4>3. fresh[c - n + 1] \in Rows(t)
        BY <1>1, <1>2, <2>2, <4>1
      <4>4. QED
        BY <4>2, <4>3
    <3>3. QED
      BY <3>1, <3>2
  <2>5. QED
    BY <2>1, <2>3, <2>4 DEF Counts
<1>8. Anchored(j) => Anchored(t)
  BY <1>1, <1>3 DEF Anchored
<1>9. Ascending(j) => Ascending(t)
  BY <1>1, <1>3 DEF Ascending
<1>10. QED
  BY <1>3, <1>4, <1>6, <1>7, <1>8, <1>9

(* A snapshot is added.                                                    *)
LEMMA GrowsByMemo ==
  ASSUME NEW j \in Seq(Entry), Ranked(j), NEW e \in Snapshot, NEW t, Grows(t, j, <<e>>)
  PROVE  /\ t \in Seq(Entry) /\ Rows(t) = Rows(j) /\ Ranked(t)
         /\ LastMemo(t) = e.memo
         /\ \A i \in Places(j) : i \in Places(t) /\ t[i] = j[i] /\ i < 1 + Len(j)
         /\ \A i \in Memos(j) : i \in Memos(t) /\ t[i] = j[i] /\ i < 1 + Len(j)
         /\ \A i \in Memos(t) : i \in Memos(j) \/ (i = 1 + Len(j) /\ t[i] = e)
<1>1. PICK fresh \in Seq(Entry) : fresh = <<e>>
  <2>1. e \in Entry
    BY DEF Entry
  <2>2. QED
    BY <2>1, SmallSeqs
<1>2. Len(fresh) = 1 /\ DOMAIN fresh = {1} /\ fresh[1] = e
  BY <1>1
<1>3. Grows(t, j, fresh)
  BY <1>1
<1>4. /\ Len(j) \in Nat /\ Places(j) \subseteq 1 .. Len(j) /\ Memos(j) \subseteq 1 .. Len(j)
      /\ t \in Seq(Entry)
  BY <1>3, JournalIs, ConcatIs
<1>5. /\ \A i \in Places(j) : i \in Places(t) /\ t[i] = j[i]
      /\ \A i \in Memos(j) : i \in Memos(t) /\ t[i] = j[i]
      /\ \A i \in Memos(fresh) : i + Len(j) \in Memos(t) /\ t[i + Len(j)] = fresh[i]
      /\ \A i \in Places(t) : i \in Places(j) \/ (i - Len(j) \in Places(fresh) /\ i > Len(j))
      /\ \A i \in Memos(t) : i \in Memos(j) \/ (i - Len(j) \in Memos(fresh) /\ i > Len(j))
      /\ Rows(t) = Rows(j) \cup Rows(fresh)
  BY <1>3, GrowsKinds
<1>6. Memos(fresh) = {1} /\ Places(fresh) = {}
  BY <1>2, EntryKinds DEF Memos, Places
<1>7. Rows(fresh) = {}
  BY <1>6, JournalIs
<1>8. Rows(t) = Rows(j) /\ Places(t) \subseteq Places(j)
  BY <1>5, <1>6, <1>7
<1>9. /\ 1 + Len(j) \in Memos(t) /\ t[1 + Len(j)] = e
      /\ \A i \in Memos(t) : i \in Memos(j) \/ i = 1 + Len(j)
  <2>1. \A i \in Memos(t) : i \in Nat
    BY <1>4, JournalIs
  <2>2. \A i \in Nat : i - Len(j) = 1 => i = 1 + Len(j)
    BY <1>4
  <2>3. QED
    BY <1>2, <1>5, <1>6, <2>1, <2>2
<1>10. Ranked(t)
  BY <1>5, <1>8 DEF Ranked
<1>11. LastMemo(t) = e.memo
  <2>1. \A i \in Memos(t) : i <= 1 + Len(j)
    BY <1>4, <1>9
  <2>2. LastMemo(t) = t[1 + Len(j)].memo
    BY <1>4, <1>9, <2>1, LastMemoIs
  <2>3. QED
    BY <1>9, <2>2
<1>12. /\ \A i \in Places(j) : i < 1 + Len(j)
       /\ \A i \in Memos(j) : i < 1 + Len(j)
  BY <1>4
<1>13. QED
  BY <1>4, <1>5, <1>8, <1>9, <1>10, <1>11, <1>12

(* It covers all the rows there are.                                       *)
LEMMA GrowsBySnapshot ==
  ASSUME NEW j \in Seq(Entry), Ranked(j), NEW n \in Nat \ {0}, Counts(Rows(j), n),
         NEW e \in Snapshot, e.memo = n - 1, NEW t, Grows(t, j, <<e>>)
  PROVE  /\ Anchored(j) => Anchored(t)
         /\ Anchored(j) /\ Ascending(j) => Ascending(t)
<1>1. /\ Len(j) \in Nat
      /\ \A i \in Places(j) : i \in Places(t) /\ t[i] = j[i] /\ i < 1 + Len(j)
      /\ \A i \in Memos(j) : i \in Memos(t) /\ t[i] = j[i] /\ i < 1 + Len(j)
      /\ \A i \in Memos(t) : i \in Memos(j) \/ (i = 1 + Len(j) /\ t[i] = e)
  BY GrowsByMemo, LenProperties
<1>2. ASSUME Anchored(j)
       PROVE  Anchored(t)
  <2> SUFFICES ASSUME NEW i \in Memos(t)
               PROVE  \E h \in Places(t) : h < i /\ t[h].seq = t[i].memo
    BY DEF Anchored
  <2>1. CASE i \in Memos(j)
    <3>1. PICK h \in Places(j) : h < i /\ j[h].seq = j[i].memo
      BY <1>2, <2>1 DEF Anchored
    <3>2. QED
      BY <1>1, <2>1, <3>1
  <2>2. CASE i = 1 + Len(j)
    <3>1. n - 1 \in 0 .. n - 1
      OBVIOUS
    <3>2. PICK r \in Rows(j) : r.seq = n - 1
      BY <3>1 DEF Counts
    <3>3. PICK h \in Places(j) : r = j[h]
      BY JournalIs
    <3>4. h < i
      BY <1>1, <2>2
    <3>5. t[i].memo = n - 1
      BY <1>1, <2>2
    <3>6. QED
      BY <1>1, <3>2, <3>3, <3>4, <3>5
  <2>3. QED
    BY <1>1, <2>1, <2>2
<1>3. ASSUME Anchored(j), Ascending(j)
       PROVE  Ascending(t)
  <2> SUFFICES ASSUME NEW i \in Memos(t), NEW k \in Memos(t), i < k
               PROVE  t[i].memo <= t[k].memo
    BY DEF Ascending
  <2>1. CASE i \in Memos(j) /\ k \in Memos(j)
    BY <1>1, <1>3, <2>1 DEF Ascending
  <2>2. CASE i \in Memos(j) /\ k = 1 + Len(j) /\ t[k] = e
    <3>1. PICK h \in Places(j) : j[h].seq = j[i].memo
      BY <1>3, <2>2 DEF Anchored
    <3>2. j[h] \in Rows(j) /\ j[h] \in Row
      BY JournalIs
    <3>3. j[h].seq < n /\ j[h].seq \in Nat
      BY <3>2, EntryKinds DEF Counts
    <3>4. t[i].memo = j[i].memo /\ t[k].memo = n - 1
      BY <1>1, <2>2
    <3>5. QED
      BY <3>1, <3>3, <3>4
  <2>3. CASE i = 1 + Len(j)
    <3>1. t \in Seq(Entry)
      BY GrowsByMemo
    <3>2. k \in Nat
      BY <3>1, JournalIs
    <3>3. k <= 1 + Len(j)
      BY <1>1, <3>2
    <3>4. QED
      BY <1>1, <2>3, <3>2, <3>3
  <2>4. QED
    BY <1>1, <2>1, <2>2, <2>3
<1>4. QED
  BY <1>2, <1>3

----------------------------------------------------------------------------
(* A journal that is rebuilt from its table.                               *)

Rank(rows, r) == Cardinality({s \in rows : s.seq < r.seq})

LEMMA RankIs ==
  ASSUME NEW rows, rows \subseteq Row, IsFiniteSet(rows), Distinct(rows)
  PROVE  /\ Cardinality(rows) \in Nat
         /\ \A r \in rows : Rank(rows, r) \in 0 .. Cardinality(rows) - 1
         /\ \A k \in 0 .. Cardinality(rows) - 1 : \E r \in rows : Rank(rows, r) = k
<1> DEFINE n == Cardinality(rows)
           before(r) == {s \in rows : s.seq < r.seq}
           f == [r \in rows |-> Rank(rows, r)]
<1>1. n \in Nat /\ \A r \in rows : r.seq \in Nat
  BY FS_CardinalityType, EntryKinds
<1>2. \A r \in rows : IsFiniteSet(before(r)) /\ Cardinality(before(r)) \in Nat
  <2> SUFFICES ASSUME NEW r \in rows
               PROVE  IsFiniteSet(before(r)) /\ Cardinality(before(r)) \in Nat
    OBVIOUS
  <2>1. before(r) \in SUBSET rows
    OBVIOUS
  <2> HIDE DEF before
  <2>2. QED
    BY <2>1, FS_Subset, FS_CardinalityType
<1>3. ASSUME NEW r \in rows
      PROVE  Rank(rows, r) \in 0 .. n - 1
  <2>1. before(r) \in SUBSET rows /\ before(r) # rows
    BY <1>1
  <2>2. Cardinality(before(r)) <= n /\ Cardinality(before(r)) # n
    <3> HIDE DEF before
    <3>1. QED
      BY <2>1, FS_Subset
  <2>3. QED
    BY <1>1, <1>2, <2>2 DEF Rank
<1>4. ASSUME NEW r \in rows, NEW s \in rows, r.seq < s.seq
      PROVE  Rank(rows, r) # Rank(rows, s)
  <2>1. before(r) \in SUBSET before(s) /\ before(r) # before(s)
    BY <1>1, <1>4
  <2>2. IsFiniteSet(before(s))
    BY <1>2
  <2>3. Cardinality(before(r)) # Cardinality(before(s))
    <3> HIDE DEF before
    <3>1. QED
      BY <2>1, <2>2, FS_Subset
  <2>4. QED
    BY <2>3 DEF Rank
<1>5. ASSUME NEW r \in rows, NEW s \in rows, Rank(rows, r) = Rank(rows, s)
      PROVE  r = s
  <2>1. r.seq = s.seq
    BY <1>1, <1>4, <1>5
  <2>2. QED
    BY <2>1 DEF Distinct
<1>6. f \in Injection(rows, 0 .. n - 1)
  <2>1. f \in [rows -> 0 .. n - 1]
    BY <1>3
  <2>2. IsInjective(f)
    BY <1>5 DEF IsInjective
  <2>3. QED
    BY <2>1, <2>2 DEF Injection
<1>7. IsFiniteSet(0 .. n - 1) /\ Cardinality(0 .. n - 1) = n
  <2> HIDE DEF n
  <2>1. 0 \in Int /\ n - 1 \in Int /\ (IF 0 > n - 1 THEN 0 ELSE (n - 1) - 0 + 1) = n
    BY <1>1
  <2>2. QED
    BY <2>1, FS_Interval
<1>8. f \in Surjection(rows, 0 .. n - 1)
  <2> HIDE DEF f
  <2>1. QED
    BY <1>6, <1>7, FS_Injection
<1>9. \A k \in 0 .. n - 1 : \E r \in rows : Rank(rows, r) = k
  BY <1>8 DEF Surjection
<1>10. QED
  BY <1>1, <1>3, <1>9

LEMMA RankNumbered ==
  ASSUME NEW rows, rows \subseteq Row, Numbered(rows), Cardinality(rows) \in Nat,
         NEW r \in rows
  PROVE  Rank(rows, r) = r.seq
<1>1. PICK part : part = {s \in rows : s.seq < r.seq}
  OBVIOUS
<1>2. r.seq \in Nat /\ r.seq < Cardinality(rows)
  BY EntryKinds DEF Numbered, Counts
<1>3. Counts(part, r.seq)
  <2>1. Distinct(part)
    BY <1>1 DEF Numbered, Counts, Distinct
  <2>2. \A s \in part : s.seq < r.seq
    BY <1>1
  <2>3. ASSUME NEW k \in 0 .. r.seq - 1
        PROVE  \E s \in part : s.seq = k
    <3>1. k \in 0 .. Cardinality(rows) - 1 /\ k < r.seq
      BY <1>2
    <3>2. PICK s \in rows : s.seq = k
      BY <3>1 DEF Numbered, Counts
    <3>3. QED
      BY <1>1, <3>1, <3>2
  <2>4. QED
    BY <2>1, <2>2, <2>3 DEF Counts
<1>4. Cardinality(part) = r.seq
  <2>1. part \subseteq Row
    BY <1>1
  <2>2. QED
    BY <1>2, <1>3, <2>1, CountIs
<1>5. QED
  BY <1>1, <1>4 DEF Rank

(* A table whose rows are the first of a journal, with a snapshot of them. *)
Whole(stored) ==
  /\ Numbered(stored.rows)
  /\ stored.memo # NoMemo => \E r \in stored.rows : r.seq = stored.memo

Table(stored) ==
  /\ stored.rows \subseteq Row /\ IsFiniteSet(stored.rows) /\ Distinct(stored.rows)
  /\ stored.memo \in Nat \cup {NoMemo}

(* The rows, numbered afresh.                                              *)
Renumbered(rows) ==
  [i \in 1 .. Cardinality(rows) |->
     [(CHOOSE r \in rows : Rank(rows, r) = i - 1) EXCEPT !.seq = i - 1]]

LEMMA RenumberedIs ==
  ASSUME NEW rows, rows \subseteq Row, IsFiniteSet(rows), Distinct(rows),
         NEW base, base = Renumbered(rows)
  PROVE  /\ base \in Seq(Entry) /\ Len(base) = Cardinality(rows)
         /\ Ranked(base) /\ Counts(Rows(base), Cardinality(rows))
         /\ Memos(base) = {} /\ Anchored(base) /\ Ascending(base)
         /\ Numbered(rows) => Rows(base) = rows
         /\ \A e \in Rows(base) : \E r \in rows : e.ingest = r.ingest
<1>1. PICK n \in Nat : n = Cardinality(rows)
  BY RankIs
<1>2. ASSUME NEW i \in 1 .. n
      PROVE  /\ base[i] \in Row /\ base[i].seq = i - 1
             /\ \E r \in rows : Rank(rows, r) = i - 1 /\ base[i] = [r EXCEPT !.seq = i - 1]
  <2>1. i - 1 \in 0 .. n - 1
    BY <1>2
  <2>2. \E r \in rows : Rank(rows, r) = i - 1
    BY <1>1, <2>1, RankIs
  <2>3. PICK r : r = CHOOSE x \in rows : Rank(rows, x) = i - 1
    OBVIOUS
  <2>4. r \in rows /\ Rank(rows, r) = i - 1
    BY <2>2, <2>3
  <2>5. base[i] = [r EXCEPT !.seq = i - 1]
    BY <1>1, <2>3 DEF Renumbered
  <2>6. r \in Row
    BY <2>4
  <2>7. base[i] \in Row /\ base[i].seq = i - 1
    BY <2>1, <2>5, <2>6 DEF Row
  <2>8. QED
    BY <2>4, <2>5, <2>7
<1>3. DOMAIN base = 1 .. n /\ base \in [1 .. n -> Entry]
  <2>1. base = [i \in 1 .. n |-> base[i]]
    BY <1>1 DEF Renumbered
  <2>2. QED
    BY <1>2, <2>1 DEF Entry
<1>4. base \in Seq(Entry) /\ Len(base) = n
  BY <1>3, FunctionIsSeq
<1>5. Memos(base) = {} /\ Places(base) = 1 .. n
  BY <1>2, <1>3, EntryKinds DEF Memos, Places
<1>6. Rows(base) = {base[i] : i \in 1 .. n}
  BY <1>4, <1>5, JournalIs
<1>7. Ranked(base)
  BY <1>2, <1>5 DEF Ranked
<1>8. Counts(Rows(base), n)
  <2>1. Distinct(Rows(base))
    BY <1>4, <1>7, RankedIs
  <2>2. \A r \in Rows(base) : r.seq < n
    BY <1>2, <1>6
  <2>3. ASSUME NEW k \in 0 .. n - 1
        PROVE  \E r \in Rows(base) : r.seq = k
    <3>1. k + 1 \in 1 .. n /\ (k + 1) - 1 = k
      OBVIOUS
    <3>2. QED
      BY <1>2, <1>6, <3>1
  <2>4. QED
    BY <2>1, <2>2, <2>3 DEF Counts
<1>9. Anchored(base) /\ Ascending(base)
  BY <1>5 DEF Anchored, Ascending
<1>10. ASSUME Numbered(rows)
       PROVE  Rows(base) = rows
  <2>1. ASSUME NEW i \in 1 .. n
        PROVE  base[i] \in rows
    <3>1. PICK r \in rows : Rank(rows, r) = i - 1 /\ base[i] = [r EXCEPT !.seq = i - 1]
      BY <1>2
    <3>2. r.seq = i - 1
      BY <1>1, <1>10, <3>1, RankNumbered
    <3>3. [r EXCEPT !.seq = i - 1] = r
      BY <3>2 DEF Row
    <3>4. QED
      BY <3>1, <3>3
  <2>2. ASSUME NEW r \in rows
        PROVE  r \in Rows(base)
    <3>1. r.seq \in Nat /\ r.seq < n
      BY <1>1, <1>10, EntryKinds DEF Numbered, Counts
    <3>2. r.seq + 1 \in 1 .. n /\ (r.seq + 1) - 1 = r.seq
      BY <3>1
    <3>3. base[r.seq + 1] \in rows /\ base[r.seq + 1].seq = r.seq
      BY <1>2, <2>1, <3>2
    <3>4. base[r.seq + 1] = r
      BY <1>10, <3>3 DEF Numbered, Counts, Distinct
    <3>5. QED
      BY <1>6, <3>2, <3>4
  <2>3. Rows(base) \subseteq rows
    BY <1>6, <2>1
  <2>4. QED
    BY <2>2, <2>3
<1>11. ASSUME NEW e \in Rows(base)
       PROVE  \E r \in rows : e.ingest = r.ingest
  <2>1. PICK i \in 1 .. n : e = base[i]
    BY <1>6
  <2>2. PICK r \in rows : base[i] = [r EXCEPT !.seq = i - 1]
    BY <1>2
  <2>3. r \in Row
    OBVIOUS
  <2>4. e.ingest = r.ingest
    BY <2>1, <2>2, <2>3 DEF Row
  <2>5. QED
    BY <2>4
<1>12. QED
  BY <1>1, <1>4, <1>5, <1>7, <1>8, <1>9, <1>10, <1>11

LEMMA RebuildIs ==
  ASSUME NEW stored, Table(stored), NEW j, j = Rebuild(stored)
  PROVE  /\ j \in Seq(Entry) /\ Ranked(j)
         /\ Counts(Rows(j), Cardinality(stored.rows)) /\ Cardinality(stored.rows) \in Nat
         /\ LastMemo(j) = stored.memo
         /\ Whole(stored) => Rows(j) = stored.rows /\ Anchored(j) /\ Ascending(j)
         /\ \A e \in Rows(j) : \E r \in stored.rows : e.ingest = r.ingest
<1>1. PICK rows : rows = stored.rows
  OBVIOUS
<1>2. rows \subseteq Row /\ IsFiniteSet(rows) /\ Distinct(rows) /\ Cardinality(rows) \in Nat
  BY <1>1, FS_CardinalityType DEF Table
<1>3. PICK base : base = Renumbered(rows)
  OBVIOUS
<1>4. /\ base \in Seq(Entry) /\ Len(base) = Cardinality(rows)
      /\ Ranked(base) /\ Counts(Rows(base), Cardinality(rows))
      /\ Memos(base) = {} /\ Anchored(base) /\ Ascending(base)
      /\ Numbered(rows) => Rows(base) = rows
      /\ \A e \in Rows(base) : \E r \in rows : e.ingest = r.ingest
  BY <1>2, <1>3, RenumberedIs
<1>5. j = base \o (IF stored.memo = NoMemo THEN <<>> ELSE <<Memo(stored.memo)>>)
  BY <1>1, <1>3 DEF Rebuild, Renumbered, Rank
<1>6. CASE stored.memo = NoMemo
  <2>1. j = base
    BY <1>4, <1>5, <1>6, ConcatEmptySeq
  <2>2. LastMemo(j) = NoMemo
    BY <1>4, <2>1, LastMemoIs
  <2>3. QED
    BY <1>1, <1>2, <1>4, <1>6, <2>1, <2>2 DEF Whole
<1>7. CASE stored.memo # NoMemo
  <2>0. stored.memo \in Nat
    BY <1>7 DEF Table
  <2>1. PICK e \in Snapshot : e = Memo(stored.memo) /\ e.memo = stored.memo
    BY <2>0, MemoIs
  <2>2. Grows(j, base, <<e>>)
    BY <1>5, <1>7, <2>1 DEF Grows
  <2>3. /\ j \in Seq(Entry) /\ Rows(j) = Rows(base) /\ Ranked(j)
        /\ LastMemo(j) = e.memo
        /\ \A i \in Places(base) : i \in Places(j) /\ j[i] = base[i] /\ i < 1 + Len(base)
        /\ \A i \in Memos(j) : i \in Memos(base) \/ (i = 1 + Len(base) /\ j[i] = e)
    BY <1>4, <2>2, GrowsByMemo
  <2>4. \A i \in Memos(j) : i = 1 + Len(base) /\ j[i] = e
    BY <1>4, <2>3
  <2>5. Ascending(j)
    BY <1>4, <2>4, LenProperties DEF Ascending
  <2>6. ASSUME Whole(stored)
        PROVE  Rows(j) = rows /\ Anchored(j)
    <3>1. Rows(base) = rows
      BY <1>1, <1>4, <2>6 DEF Whole
    <3>2. PICK r \in rows : r.seq = stored.memo
      BY <1>1, <1>7, <2>6 DEF Whole
    <3>3. PICK h \in Places(base) : r = base[h]
      <4>1. base \in Seq(Entry)
        BY <1>4
      <4>2. Rows(base) = {base[i] : i \in Places(base)}
        BY <4>1, JournalIs
      <4>3. QED
        BY <3>1, <3>2, <4>2
    <3>4. h \in Places(j) /\ j[h].seq = stored.memo /\ h < 1 + Len(base)
      BY <2>3, <3>2, <3>3
    <3>5. ASSUME NEW i \in Memos(j)
           PROVE  h < i /\ j[h].seq = j[i].memo
      BY <2>1, <2>4, <3>4
    <3>6. Anchored(j)
      BY <3>4, <3>5 DEF Anchored
    <3>7. QED
      BY <2>3, <3>1, <3>6
  <2>7. QED
    BY <1>1, <1>2, <1>4, <2>1, <2>3, <2>5, <2>6
<1>8. QED
  BY <1>6, <1>7

----------------------------------------------------------------------------
(* The inductive invariant.  First the kinds: what a buffer, a table, the  *)
(* holder of the drain lock and the callers are.                           *)

BufferSet == [journal : Seq(Entry), flushed : Nat, drop : BOOLEAN, activating : BOOLEAN]

GoodBuffer(b) ==
  /\ b \in BufferSet /\ b.flushed <= Len(b.journal)
  /\ Ranked(b.journal) /\ Numbered(Rows(b.journal)) /\ NextSeq(b.journal) \in Nat
  /\ b.activating => b.journal = <<>> /\ b.flushed = 0

BufferInv == DOMAIN bufs \subseteq Paths /\ \A p \in DOMAIN bufs : GoodBuffer(bufs[p])

TableSet == [rows : SUBSET Row, memo : Nat \cup {NoMemo}]

TableInv == db \in [Paths -> TableSet] /\ \A p \in Paths : Table(db[p])

BatchSet == [rows : SUBSET Row, memo : Nat \cup {NoMemo}, end : Nat, drop : BOOLEAN]

Flushes ==
  [op : {"flush", "passivated"}, path : Paths \cup {Nobody},
   batches : UNION {[S -> BatchSet] : S \in SUBSET Paths}, written : BOOLEAN]

Loads == [op : {"load"}, path : Paths, by : {"loop", "catchUp"}]

Scans == [op : {"scan"}, rows : SUBSET (Paths \X Row)]

LockInv == drain \in {Free} \cup Flushes \cup Loads \cup Scans

Captured(p) == drain \in Flushes /\ p \in DOMAIN drain.batches

(* A captured batch is the stretch of its path's journal behind the        *)
(* frontier, which nobody moves meanwhile.                                 *)
BatchInv ==
  \A p \in Paths : Captured(p) =>
    LET b == bufs[p]
        batch == drain.batches[p]
        fresh == SubSeq(b.journal, b.flushed + 1, batch.end)
    IN  /\ Ready(p) /\ b.flushed <= batch.end /\ batch.end <= Len(b.journal)
        /\ batch.rows = Rows(fresh) /\ batch.memo = LastMemo(fresh)

(* A path that passivates holds the drain lock; who works on a path has    *)
(* loaded it, and a path at work without a buffer has nothing stored.      *)
CallerInv ==
  /\ drain.op = "flush" => drain.path = Nobody
  /\ drain.op = "passivated" => drain.path \in Paths /\ client[drain.path] = "leaving"
  /\ drain.op = "load" => /\ drain.path \in DOMAIN bufs
                          /\ bufs[drain.path].activating /\ ~bufs[drain.path].drop
                          /\ drain.by = "loop" => client[drain.path] = "down"
  /\ \A p \in Paths :
       /\ client[p] = "leaving" => drain.op = "passivated" /\ drain.path = p
       /\ asked[p] # Nobody => client[p] = "live"
       /\ Buffered(p) /\ bufs[p].drop => client[p] # "live"
       /\ ~Buffered(p) /\ client[p] = "live" => db[p].rows = {} /\ db[p].memo = NoMemo

RestInv ==
  /\ client \in [Paths -> {"down", "live", "leaving"}]
  /\ asked \in [Paths -> {Nobody} \cup [source : Paths, seq : Nat, fact : 1 .. MaxFacts]]
  /\ ingest \in Nat /\ minted \in 0 .. MaxFacts
  /\ left \in [Rare -> Nat]
  /\ sliced \in BOOLEAN /\ halved \subseteq Paths

(* The arrival numbers given out are behind the next one.                  *)
IngestInv ==
  /\ \A p \in Paths : \A r \in db[p].rows : r.ingest < ingest
  /\ \A p \in DOMAIN bufs : \A r \in Rows(bufs[p].journal) : r.ingest < ingest

KindInv ==
  BufferInv /\ TableInv /\ LockInv /\ BatchInv /\ CallerInv /\ RestInv /\ IngestInv

(* How far the table is sure to have the path's journal.                   *)
Frontier(p) ==
  IF Captured(p) /\ drain.written THEN drain.batches[p].end ELSE bufs[p].flushed

(* The table has a beginning of the journal, at least up to the frontier.  *)
Backed(j, stored, k) ==
  LET part == SubSeq(j, 1, k)
  IN  stored.rows = Rows(part) /\ stored.memo = LastMemo(part)

Steady(p) ==
  /\ Whole(db[p])
  /\ Ready(p) =>
       LET j == bufs[p].journal
       IN  /\ Anchored(j) /\ Ascending(j)
           /\ \E k \in 0 .. Len(j) : Frontier(p) <= k /\ Backed(j, db[p], k)

SteadyInv == \A p \in Sound : Steady(p)

(* A flush of all paths is about to store a beginning of the arrivals.     *)
Taken(p) == IF Captured(p) THEN drain.batches[p].rows ELSE {}

CutAt(c) ==
  \A p \in Sound :
    /\ \A r \in db[p].rows \cup Taken(p) : r.ingest < c
    /\ \A r \in AnswerRows(p) \ (db[p].rows \cup Taken(p)) : r.ingest >= c

CutInv == drain.op = "flush" => \E c \in 0 .. ingest : CutAt(c)

ScanInv == drain.op = "scan" => drain.rows = UNION {Recordings(p, db[p].rows) : p \in Paths}

StoreInv == SteadyInv /\ ArrivalOrder /\ CutInv /\ CutUnlessSliced /\ ScanInv

----------------------------------------------------------------------------
(* Buffers.                                                                *)

LEMMA LockIs ==
  ASSUME LockInv
  PROVE  /\ Free.op = "free"
         /\ drain.op = "free" <=> drain = Free
         /\ drain.op \in {"flush", "passivated"} <=> drain \in Flushes
         /\ drain.op = "load" <=> drain \in Loads
         /\ drain.op = "scan" <=> drain \in Scans
         /\ drain \in Flushes => /\ DOMAIN drain.batches \subseteq Paths /\ drain.written \in BOOLEAN
                                 /\ \A p \in DOMAIN drain.batches : drain.batches[p] \in BatchSet
<1>1. Free.op = "free" /\ Free \notin Flushes /\ Free \notin Loads /\ Free \notin Scans
  BY DEF Free, Flushes, Loads, Scans
<1>2. /\ drain \in Flushes => drain.op \in {"flush", "passivated"}
      /\ drain \in Loads => drain.op = "load"
      /\ drain \in Scans => drain.op = "scan"
  BY DEF Flushes, Loads, Scans
<1>3. drain \in Flushes => /\ DOMAIN drain.batches \subseteq Paths /\ drain.written \in BOOLEAN
                           /\ \A p \in DOMAIN drain.batches : drain.batches[p] \in BatchSet
  <2> SUFFICES ASSUME drain \in Flushes
               PROVE  /\ DOMAIN drain.batches \subseteq Paths /\ drain.written \in BOOLEAN
                      /\ \A p \in DOMAIN drain.batches : drain.batches[p] \in BatchSet
    OBVIOUS
  <2>1. PICK S \in SUBSET Paths : drain.batches \in [S -> BatchSet]
    BY DEF Flushes
  <2>2. drain.written \in BOOLEAN
    BY DEF Flushes
  <2>3. QED
    BY <2>1, <2>2
<1>4. QED
  BY <1>1, <1>2, <1>3 DEF LockInv

LEMMA BufferIs ==
  ASSUME NEW b, GoodBuffer(b)
  PROVE  /\ b.journal \in Seq(Entry) /\ Len(b.journal) \in Nat
         /\ b.flushed \in Nat /\ b.flushed <= Len(b.journal)
         /\ b.drop \in BOOLEAN /\ b.activating \in BOOLEAN
         /\ Rows(b.journal) \subseteq Row /\ Counts(Rows(b.journal), NextSeq(b.journal))
         /\ NextSeq(b.journal) \in Nat
BY JournalIs DEF GoodBuffer, BufferSet, Numbered, NextSeq

LEMMA EmptyJournal ==
  /\ <<>> \in Seq(Entry) /\ Len(<<>>) = 0
  /\ Rows(<<>>) = {} /\ Places(<<>>) = {} /\ Memos(<<>>) = {}
  /\ Ranked(<<>>) /\ Anchored(<<>>) /\ Ascending(<<>>)
  /\ Counts({}, 0) /\ NextSeq(<<>>) = 0 /\ Numbered({})
  /\ LastMemo(<<>>) = NoMemo
<1>1. <<>> \in Seq(Entry) /\ Len(<<>>) = 0 /\ DOMAIN <<>> = {}
  BY SmallSeqs
<1>2. Places(<<>>) = {} /\ Memos(<<>>) = {}
  BY <1>1 DEF Places, Memos
<1>3. Rows(<<>>) = {}
  BY <1>1, <1>2, JournalIs
<1>4. Ranked(<<>>) /\ Anchored(<<>>) /\ Ascending(<<>>)
  BY <1>2 DEF Ranked, Anchored, Ascending
<1>5. Counts({}, 0)
  BY DEF Counts, Distinct
<1>6. NextSeq(<<>>) = 0
  BY <1>3, FS_EmptySet DEF NextSeq
<1>7. Numbered({})
  BY <1>5, FS_EmptySet DEF Numbered
<1>8. LastMemo(<<>>) = NoMemo
  BY <1>1, <1>2, LastMemoIs
<1>9. QED
  BY <1>1, <1>2, <1>3, <1>4, <1>5, <1>6, <1>7, <1>8

LEMMA NewBufferIs ==
  /\ GoodBuffer(NewBuffer) /\ GoodBuffer(Placeholder)
  /\ NewBuffer.journal = <<>> /\ NewBuffer.flushed = 0
  /\ ~NewBuffer.activating /\ ~NewBuffer.drop
  /\ Placeholder.activating /\ ~Placeholder.drop
  /\ Placeholder.journal = <<>> /\ Placeholder.flushed = 0
<1>1. /\ NewBuffer.journal = <<>> /\ NewBuffer.flushed = 0
      /\ ~NewBuffer.activating /\ ~NewBuffer.drop
      /\ Placeholder.activating /\ ~Placeholder.drop
      /\ Placeholder.journal = <<>> /\ Placeholder.flushed = 0
  BY DEF NewBuffer, Placeholder, Buffer
<1>2. NewBuffer \in BufferSet /\ Placeholder \in BufferSet
  <2>1. <<>> \in Seq(Entry)
    BY EmptyJournal
  <2>2. QED
    BY <2>1 DEF NewBuffer, Placeholder, Buffer, BufferSet
<1>3. PICK none : none = <<>>
  OBVIOUS
<1>4. none \in Seq(Entry) /\ Len(none) = 0 /\ Ranked(none) /\ Rows(none) = {} /\ NextSeq(none) = 0
  BY <1>3, EmptyJournal
<1>5. Numbered(Rows(none)) /\ NextSeq(none) \in Nat /\ 0 <= Len(none)
  BY <1>4, EmptyJournal
<1>6. GoodBuffer(NewBuffer)
  BY <1>1, <1>2, <1>3, <1>4, <1>5 DEF GoodBuffer
<1>7. GoodBuffer(Placeholder)
  BY <1>1, <1>2, <1>3, <1>4, <1>5 DEF GoodBuffer
<1>8. QED
  BY <1>1, <1>6, <1>7

LEMMA BufferOfIs ==
  ASSUME BufferInv, NEW p, Writable(p)
  PROVE  /\ GoodBuffer(BufferOf(p)) /\ ~BufferOf(p).activating
         /\ Buffered(p) => Ready(p) /\ BufferOf(p) = bufs[p]
         /\ ~Buffered(p) => BufferOf(p) = NewBuffer
BY NewBufferIs DEF BufferInv, Writable, BufferOf, Ready, Buffered

LEMMA InstallIs ==
  ASSUME NEW p, NEW b, Install(p, b)
  PROVE  /\ DOMAIN bufs' = DOMAIN bufs \cup {p} /\ bufs'[p] = b
         /\ \A q \in DOMAIN bufs \ {p} : bufs'[q] = bufs[q]
BY DEF Install

LEMMA RemoveIs ==
  ASSUME NEW p, Remove(p)
  PROVE  /\ DOMAIN bufs' = DOMAIN bufs \ {p}
         /\ \A q \in DOMAIN bufs \ {p} : bufs'[q] = bufs[q]
BY DEF Remove, Restrict

----------------------------------------------------------------------------
(* What a step does to one path.                                           *)

Same(q) ==
  /\ q \in DOMAIN bufs' <=> q \in DOMAIN bufs
  /\ q \in DOMAIN bufs => bufs'[q] = bufs[q]

(* Nothing but the mark and the frontier, which is where it was.           *)
Kept(q) ==
  /\ db'[q] = db[q]
  /\ q \in DOMAIN bufs' <=> q \in DOMAIN bufs
  /\ q \in DOMAIN bufs =>
       /\ \E d \in BOOLEAN, f \in Nat :
            bufs'[q] = [bufs[q] EXCEPT !.drop = d, !.flushed = f] /\ f <= Frontier(q)
       /\ Frontier(q)' <= Frontier(q)

(* The loop at work appends rows under the next numbers, or a snapshot.    *)
Adds(q, fresh) ==
  LET next == NextSeq(BufferOf(q).journal)
  IN  \/ /\ \A i \in DOMAIN fresh : /\ fresh[i] \in Row
                                    /\ fresh[i].seq = next + i - 1
                                    /\ fresh[i].ingest = ingest + i - 1
         /\ ingest' = ingest + Len(fresh)
      \/ /\ \E e \in Snapshot : fresh = <<e>> /\ next > 0 /\ e.memo = next - 1
         /\ ingest' = ingest

Grown(q) ==
  /\ client[q] = "live" /\ Writable(q)
  /\ db'[q] = db[q]
  /\ q \in DOMAIN bufs'
  /\ \E fresh \in Seq(Entry) : \E t \in Seq(Entry) :
       /\ Grows(t, BufferOf(q).journal, fresh)
       /\ bufs'[q] = [BufferOf(q) EXCEPT !.journal = t]
       /\ Adds(q, fresh)
  /\ Frontier(q)' = IF Buffered(q) THEN Frontier(q) ELSE 0

(* The path stays without a journal in memory, or gets one, or loses it.   *)
Cold(q) ==
  /\ ~Ready(q)
  /\ db'[q] = db[q]
  /\ q \in DOMAIN bufs' => bufs'[q] = Placeholder

Opened(q) ==
  /\ ~Ready(q)
  /\ db'[q] = db[q]
  /\ q \in DOMAIN bufs' /\ bufs'[q] = Durable(Rebuild(db[q]))
  /\ Frontier(q)' = Len(Rebuild(db[q]))

Closed(q) ==
  /\ Ready(q) /\ Frontier(q) = Len(bufs[q].journal) /\ asked[q] = Nobody
  /\ db'[q] = db[q]
  /\ q \notin DOMAIN bufs'

(* A transaction.                                                          *)
Written(q) ==
  /\ Captured(q) /\ ~Clash(db[q], drain.batches[q])
  /\ LET batch == drain.batches[q]
     IN  /\ db'[q] = [rows |-> db[q].rows \cup batch.rows,
                      memo |-> IF batch.memo > db[q].memo THEN batch.memo ELSE db[q].memo]
         /\ Frontier(q)' <= batch.end
  /\ q \in DOMAIN bufs' /\ bufs'[q] = bufs[q]

Emptied(q) ==
  /\ db'[q] = [rows |-> {}, memo |-> NoMemo]
  /\ q \notin DOMAIN bufs'

Halved(q) ==
  /\ q \in halved'
  /\ db'[q] = [db[q] EXCEPT !.rows = {}]
  /\ Same(q)

Lost(q) == db'[q] = db[q] /\ q \notin DOMAIN bufs'

Settled(q) ==
  /\ q \in halved => q \in halved' \/ Emptied(q)
  /\ Kept(q) \/ Cold(q) \/ Opened(q) \/ Closed(q) \/ Written(q) \/ Emptied(q) \/ Halved(q)

(* Nothing is purged.                                                      *)
Rests(q) == Kept(q) \/ Cold(q) \/ Opened(q) \/ Closed(q) \/ Written(q)

(* One path grows, or all settle, or the process dies.                     *)
Growing(p) ==
  /\ Grown(p) /\ \A q \in Paths \ {p} : Kept(q) /\ Same(q)
  /\ UNCHANGED <<db, drain, client, sliced, halved>>

Settling == /\ \A q \in Paths : Settled(q)
            /\ ingest' = ingest

Resting == /\ \A q \in Paths : Rests(q)
           /\ ingest' = ingest /\ halved' = halved

LEMMA RestingSettles == Resting => Settling
BY DEF Resting, Settling, Rests, Settled

Dying == /\ \A q \in Paths : Lost(q)
         /\ ingest' = NextIngest /\ db' = db /\ halved' = halved /\ sliced' = FALSE
         /\ drain' = Free

(* No frontier comes to move with the commit of a transaction.             *)
Calm(q) ==
  Captured(q)' /\ drain'.written =>
    Captured(q) /\ drain.written /\ drain'.batches[q].end = drain.batches[q].end

LEMMA CalmIs ==
  ASSUME drain' = drain \/ drain' \notin Flushes \/ ~drain'.written
  PROVE  \A q \in Paths : Calm(q)
BY DEF Calm, Captured

LEMMA NoFlush ==
  /\ Free \notin Flushes
  /\ \A p \in Paths : \A by \in {"loop", "catchUp"} :
       [op |-> "load", path |-> p, by |-> by] \notin Flushes
  /\ \A found : [op |-> "scan", rows |-> found] \notin Flushes
BY DEF Free, Flushes

LEMMA FrontierIs ==
  ASSUME KindInv, NEW q \in DOMAIN bufs
  PROVE  /\ q \in Paths /\ GoodBuffer(bufs[q])
         /\ bufs[q].flushed \in Nat /\ Frontier(q) \in Nat /\ Len(bufs[q].journal) \in Nat
         /\ bufs[q].flushed <= Frontier(q) /\ Frontier(q) <= Len(bufs[q].journal)
         /\ ~(Captured(q) /\ drain.written) => Frontier(q) = bufs[q].flushed
         /\ Captured(q) => /\ Ready(q) /\ drain.batches[q] \in BatchSet
                           /\ bufs[q].flushed <= drain.batches[q].end
                           /\ drain.batches[q].end <= Len(bufs[q].journal)
<1>1. /\ q \in Paths /\ GoodBuffer(bufs[q])
      /\ bufs[q].flushed \in Nat /\ Len(bufs[q].journal) \in Nat
      /\ bufs[q].flushed <= Len(bufs[q].journal)
  BY BufferIs DEF KindInv, BufferInv
<1>2. ASSUME Captured(q)
      PROVE  /\ Ready(q) /\ drain.batches[q] \in BatchSet
             /\ bufs[q].flushed <= drain.batches[q].end
             /\ drain.batches[q].end <= Len(bufs[q].journal)
             /\ drain.batches[q].end \in Nat
  <2>1. drain.batches[q] \in BatchSet
    BY <1>2, LockIs DEF KindInv, Captured
  <2>2. drain.batches[q].end \in Nat
    BY <2>1 DEF BatchSet
  <2>3. /\ Ready(q) /\ bufs[q].flushed <= drain.batches[q].end
        /\ drain.batches[q].end <= Len(bufs[q].journal)
    BY <1>1, <1>2 DEF KindInv, BatchInv
  <2>4. QED
    BY <2>1, <2>2, <2>3
<1>3. CASE Captured(q) /\ drain.written
  <2>1. Frontier(q) = drain.batches[q].end
    BY <1>3 DEF Frontier
  <2>2. QED
    BY <1>1, <1>2, <1>3, <2>1
<1>4. CASE ~(Captured(q) /\ drain.written)
  <2>1. Frontier(q) = bufs[q].flushed
    BY <1>4 DEF Frontier
  <2>2. QED
    BY <1>1, <1>2, <1>4, <2>1
<1>5. QED
  BY <1>3, <1>4

LEMMA CalmKept ==
  ASSUME KindInv, NEW q \in Paths, Calm(q), db'[q] = db[q],
         q \in DOMAIN bufs' <=> q \in DOMAIN bufs,
         q \in DOMAIN bufs => \E d \in BOOLEAN : bufs'[q] = [bufs[q] EXCEPT !.drop = d]
  PROVE  Kept(q)
<1>1. CASE q \notin DOMAIN bufs
  BY <1>1 DEF Kept
<1>2. CASE q \in DOMAIN bufs
  <2>1. PICK d \in BOOLEAN : bufs'[q] = [bufs[q] EXCEPT !.drop = d]
    BY <1>2
  <2>2. /\ bufs[q] \in BufferSet /\ bufs[q].flushed \in Nat /\ Frontier(q) \in Nat
        /\ bufs[q].flushed <= Frontier(q)
    BY <1>2, FrontierIs DEF GoodBuffer
  <2>3. /\ bufs'[q] = [bufs[q] EXCEPT !.drop = d, !.flushed = bufs[q].flushed]
        /\ bufs'[q].flushed = bufs[q].flushed
    BY <2>1, <2>2 DEF BufferSet
  <2>4. Frontier(q)' <= Frontier(q)
    <3>1. CASE Captured(q)' /\ drain'.written
      <4>1. Frontier(q)' = Frontier(q)
        BY <3>1 DEF Calm, Frontier
      <4>2. QED
        BY <2>2, <4>1
    <3>2. CASE ~(Captured(q)' /\ drain'.written)
      <4>1. Frontier(q)' = bufs'[q].flushed
        BY <3>2 DEF Frontier
      <4>2. QED
        BY <2>2, <2>3, <4>1
    <3>3. QED
      BY <3>1, <3>2
  <2>5. QED
    BY <1>2, <2>2, <2>3, <2>4 DEF Kept
<1>3. QED
  BY <1>1, <1>2

LEMMA SameKept ==
  ASSUME KindInv, NEW q \in Paths, Calm(q), db'[q] = db[q],
         q \in DOMAIN bufs' <=> q \in DOMAIN bufs,
         q \in DOMAIN bufs => bufs'[q] = bufs[q]
  PROVE  Kept(q)
<1>1. ASSUME q \in DOMAIN bufs
      PROVE  \E d \in BOOLEAN : bufs'[q] = [bufs[q] EXCEPT !.drop = d]
  <2>1. bufs[q] \in BufferSet
    BY <1>1, FrontierIs DEF GoodBuffer
  <2>2. bufs[q].drop \in BOOLEAN /\ bufs[q] = [bufs[q] EXCEPT !.drop = bufs[q].drop]
    BY <2>1 DEF BufferSet
  <2>3. QED
    BY <1>1, <2>2
<1>2. QED
  BY <1>1, CalmKept

(* One buffer is installed or removed.                                     *)
LEMMA OthersKept ==
  ASSUME KindInv, NEW p \in Paths, db' = db, \A q \in Paths : Calm(q),
         (\E b : Install(p, b)) \/ Remove(p)
  PROVE  \A q \in Paths \ {p} : Kept(q)
<1> SUFFICES ASSUME NEW q \in Paths \ {p}
             PROVE  Kept(q)
  OBVIOUS
<1>1. /\ q \in DOMAIN bufs' <=> q \in DOMAIN bufs
      /\ q \in DOMAIN bufs => bufs'[q] = bufs[q]
  BY InstallIs, RemoveIs
<1>2. QED
  BY <1>1, SameKept

----------------------------------------------------------------------------
(* The steps of a loop at work.                                            *)

OriginOf(question) == [source |-> question.source, seq |-> question.seq]

(* A buffer that is installed with a longer journal.                       *)
LEMMA GrownIs ==
  ASSUME KindInv, NEW p \in Paths, client[p] = "live", Writable(p),
         NEW fresh \in Seq(Entry), NEW t, Grows(t, BufferOf(p).journal, fresh), Adds(p, fresh),
         Install(p, [BufferOf(p) EXCEPT !.journal = t]),
         UNCHANGED <<db, drain, client, sliced, halved>>
  PROVE  Growing(p)
<1>1. /\ GoodBuffer(BufferOf(p)) /\ BufferOf(p) \in BufferSet /\ BufferOf(p).journal \in Seq(Entry)
      /\ Buffered(p) => BufferOf(p) = bufs[p]
      /\ ~Buffered(p) => BufferOf(p) = NewBuffer
  BY BufferOfIs, BufferIs DEF KindInv, GoodBuffer
<1>2. t \in Seq(Entry)
  BY <1>1, ConcatIs
<1>3. p \in DOMAIN bufs' /\ bufs'[p] = [BufferOf(p) EXCEPT !.journal = t]
  BY InstallIs
<1>4. bufs'[p].flushed = BufferOf(p).flushed
  BY <1>1, <1>3 DEF BufferSet
<1>5. Frontier(p)' = IF Buffered(p) THEN Frontier(p) ELSE 0
  <2>1. Captured(p)' <=> Captured(p)
    BY DEF Captured
  <2>2. CASE Buffered(p)
    BY <1>1, <1>4, <2>1, <2>2 DEF Frontier
  <2>3. CASE ~Buffered(p)
    <3>1. ~Captured(p)
      BY <2>3 DEF KindInv, BatchInv, Ready
    <3>2. Frontier(p)' = bufs'[p].flushed
      BY <2>1, <3>1 DEF Frontier
    <3>3. QED
      BY <1>1, <1>4, <2>3, <3>2, NewBufferIs
  <2>4. QED
    BY <2>2, <2>3
<1>6. Grown(p)
  BY <1>2, <1>3, <1>5 DEF Grown
<1>7. \A q \in Paths \ {p} : Kept(q) /\ Same(q)
  <2>1. \A q \in Paths : Calm(q)
    BY CalmIs
  <2>2. \E b : Install(p, b)
    OBVIOUS
  <2>3. \A q \in Paths \ {p} : Same(q)
    BY InstallIs DEF Same
  <2>4. QED
    BY <2>1, <2>2, <2>3, OthersKept
<1>8. QED
  BY <1>6, <1>7 DEF Growing

LEMMA AppendFactsAdds ==
  ASSUME KindInv, NEW p \in Paths, AppendFacts(p)
  PROVE  /\ minted' \in 0 .. MaxFacts
         /\ \E fresh \in Seq(Entry) : \E t :
              /\ Grows(t, BufferOf(p).journal, fresh)
              /\ Install(p, [BufferOf(p) EXCEPT !.journal = t])
              /\ Len(fresh) > 0 /\ ingest' = ingest + Len(fresh)
              /\ \A i \in DOMAIN fresh :
                   /\ fresh[i] \in Row /\ fresh[i].origin = Recorded
                   /\ fresh[i].seq = NextSeq(BufferOf(p).journal) + i - 1
                   /\ fresh[i].ingest = ingest + i - 1
<1>1. PICK j : j = BufferOf(p).journal
  OBVIOUS
<1>2. PICK n \in 1 .. MaxBatch :
        /\ minted + n <= MaxFacts
        /\ Install(p, [BufferOf(p) EXCEPT !.journal = @ \o
             [i \in 1 .. n |-> Event(NextSeq(j) + i - 1, minted + i, Recorded, ingest + i - 1)]])
        /\ minted' = minted + n
        /\ ingest' = ingest + n
  BY <1>1 DEF AppendFacts
<1>3. PICK fresh :
        fresh = [i \in 1 .. n |-> Event(NextSeq(j) + i - 1, minted + i, Recorded, ingest + i - 1)]
  OBVIOUS
<1>4. PICK t : t = j \o fresh
  OBVIOUS
<1>5. Writable(p)
  BY DEF AppendFacts
<1>6. NextSeq(j) \in Nat
  BY <1>1, <1>5, BufferOfIs, BufferIs DEF KindInv
<1>7. minted \in Nat /\ ingest \in Nat /\ MaxFacts \in Nat /\ n \in Nat
  <2>1. MaxFacts \in Nat /\ MaxBatch \in Nat
    BY DaowAssumption
  <2>2. QED
    BY <2>1 DEF KindInv, RestInv
<1>8. ASSUME NEW i \in 1 .. n
      PROVE  /\ fresh[i] \in Row /\ fresh[i].seq = NextSeq(j) + i - 1
             /\ fresh[i].ingest = ingest + i - 1 /\ fresh[i].origin = Recorded
  <2>1. fresh[i] = Event(NextSeq(j) + i - 1, minted + i, Recorded, ingest + i - 1)
    BY <1>3
  <2>2. /\ NextSeq(j) + i - 1 \in Nat /\ ingest + i - 1 \in Nat
        /\ minted + i \in 1 .. MaxFacts
    BY <1>2, <1>6, <1>7
  <2>3. QED
    BY <2>1, <2>2 DEF Event, Row
<1>9. fresh \in Seq(Entry) /\ Len(fresh) = n /\ DOMAIN fresh = 1 .. n
  <2>1. fresh \in [1 .. n -> Entry]
    BY <1>3, <1>8 DEF Entry
  <2>2. QED
    BY <1>7, <2>1, FunctionIsSeq
<1>10. /\ Len(fresh) > 0 /\ ingest' = ingest + Len(fresh)
       /\ \A i \in DOMAIN fresh :
            /\ fresh[i] \in Row /\ fresh[i].origin = Recorded
            /\ fresh[i].seq = NextSeq(BufferOf(p).journal) + i - 1
            /\ fresh[i].ingest = ingest + i - 1
  BY <1>1, <1>2, <1>8, <1>9
<1>11. Grows(t, BufferOf(p).journal, fresh)
  BY <1>1, <1>4 DEF Grows
<1>12. Install(p, [BufferOf(p) EXCEPT !.journal = t])
  BY <1>1, <1>2, <1>3, <1>4
<1>13. minted' \in 0 .. MaxFacts
  BY <1>2, <1>7
<1>14. QED
  BY <1>9, <1>10, <1>11, <1>12, <1>13

LEMMA AppendFactsGrows ==
  ASSUME KindInv, NEW p \in Paths, AppendFacts(p)
  PROVE  Growing(p) /\ asked' = asked /\ left' = left /\ minted' \in 0 .. MaxFacts
<1>1. /\ client[p] = "live" /\ Writable(p) /\ asked' = asked /\ left' = left
      /\ UNCHANGED <<db, drain, client, sliced, halved>>
  BY DEF AppendFacts
<1>2. PICK fresh, t :
        /\ fresh \in Seq(Entry)
        /\ Grows(t, BufferOf(p).journal, fresh)
        /\ Install(p, [BufferOf(p) EXCEPT !.journal = t])
        /\ ingest' = ingest + Len(fresh)
        /\ \A i \in DOMAIN fresh :
             /\ fresh[i] \in Row
             /\ fresh[i].seq = NextSeq(BufferOf(p).journal) + i - 1
             /\ fresh[i].ingest = ingest + i - 1
  BY AppendFactsAdds
<1>3. Adds(p, fresh)
  BY <1>2 DEF Adds
<1>4. Growing(p)
  BY <1>1, <1>2, <1>3, GrownIs
<1>5. QED
  BY <1>1, <1>4, AppendFactsAdds

LEMMA AskOriginGrows ==
  ASSUME KindInv, NEW p \in Paths, AskOrigin(p)
  PROVE  /\ Growing(p) /\ left' = left /\ minted' = minted
         /\ \E a \in [source : Paths, seq : Nat, fact : 1 .. MaxFacts] : asked' = [asked EXCEPT ![p] = a]
<1>1. /\ client[p] = "live" /\ Writable(p) /\ left' = left /\ minted' = minted /\ ingest' = ingest
      /\ UNCHANGED <<db, drain, client, sliced, halved>>
      /\ Install(p, BufferOf(p))
  BY DEF AskOrigin
<1>2. /\ BufferOf(p) \in BufferSet /\ BufferOf(p).journal \in Seq(Entry)
      /\ BufferOf(p) = [BufferOf(p) EXCEPT !.journal = BufferOf(p).journal]
  <2>1. BufferOf(p) \in BufferSet
    BY <1>1, BufferOfIs DEF KindInv, GoodBuffer
  <2>2. QED
    BY <2>1 DEF BufferSet
<1>3. PICK none \in Seq(Entry) : none = <<>> /\ Len(none) = 0 /\ DOMAIN none = {}
  <2>1. <<>> \in Seq(Entry) /\ Len(<<>>) = 0
    BY EmptyJournal
  <2>2. DOMAIN <<>> = {}
    OBVIOUS
  <2>3. QED
    BY <2>1, <2>2
<1>4. PICK t : t = BufferOf(p).journal
  OBVIOUS
<1>5. Grows(t, BufferOf(p).journal, none)
  BY <1>2, <1>3, <1>4, ConcatEmptySeq DEF Grows
<1>6. Adds(p, none)
  <2>1. ingest \in Nat
    BY DEF KindInv, RestInv
  <2>2. ingest' = ingest + Len(none) /\ \A i \in DOMAIN none : FALSE
    BY <1>1, <1>3, <2>1
  <2>3. QED
    BY <2>2 DEF Adds
<1>7. Install(p, [BufferOf(p) EXCEPT !.journal = t])
  BY <1>1, <1>2, <1>4
<1>8. Growing(p)
  BY <1>1, <1>5, <1>6, <1>7, GrownIs
<1>9. \E a \in [source : Paths, seq : Nat, fact : 1 .. MaxFacts] : asked' = [asked EXCEPT ![p] = a]
  <2>1. PICK source \in Paths \ {p} : \E r \in AnswerRows(source) :
          asked' = [asked EXCEPT ![p] = [source |-> source, seq |-> r.seq, fact |-> r.fact]]
    BY DEF AskOrigin
  <2>2. PICK r \in AnswerRows(source) :
          asked' = [asked EXCEPT ![p] = [source |-> source, seq |-> r.seq, fact |-> r.fact]]
    BY <2>1
  <2>3. AnswerRows(source) \subseteq Row
    <3>1. CASE Ready(source)
      BY <3>1, BufferIs DEF AnswerRows, Answer, Ready, Buffered, KindInv, BufferInv
    <3>2. CASE ~Ready(source)
      <4>1. PICK j : j = Rebuild(db[source])
        OBVIOUS
      <4>2. j \in Seq(Entry)
        BY <4>1, RebuildIs DEF KindInv, TableInv
      <4>3. QED
        BY <3>2, <4>1, <4>2, JournalIs DEF AnswerRows, Answer
    <3>3. QED
      BY <3>1, <3>2
  <2>4. [source |-> source, seq |-> r.seq, fact |-> r.fact]
          \in [source : Paths, seq : Nat, fact : 1 .. MaxFacts]
    BY <2>3 DEF Row
  <2>5. QED
    BY <2>2, <2>4
<1>10. QED
  BY <1>1, <1>8, <1>9

LEMMA AppendGrows ==
  ASSUME NEW j \in Seq(Entry), NEW e \in Entry, NEW t, t = Append(j, e)
  PROVE  Grows(t, j, <<e>>) /\ <<e>> \in Seq(Entry) /\ Len(<<e>>) = 1 /\ DOMAIN <<e>> = {1}
<1>1. <<e>> \in Seq(Entry)
  BY SmallSeqs
<1>2. Append(j, e) = j \o <<e>>
  BY AppendIsConcat
<1>3. Len(<<e>>) = 1 /\ DOMAIN <<e>> = {1}
  OBVIOUS
<1>4. QED
  BY <1>1, <1>2, <1>3 DEF Grows

LEMMA AppendSnapshotAdds ==
  ASSUME KindInv, NEW p \in Paths, AppendSnapshot(p)
  PROVE  /\ NextSeq(BufferOf(p).journal) \in Nat \ {0}
         /\ \E e \in Snapshot : \E t :
              /\ e.memo = NextSeq(BufferOf(p).journal) - 1
              /\ Grows(t, BufferOf(p).journal, <<e>>)
              /\ Install(p, [BufferOf(p) EXCEPT !.journal = t])
<1>1. PICK j : j = BufferOf(p).journal
  OBVIOUS
<1>2. /\ Writable(p) /\ NextSeq(j) - 1 >= 0
      /\ Install(p, [BufferOf(p) EXCEPT !.journal = Append(j, Memo(NextSeq(j) - 1))])
  BY <1>1 DEF AppendSnapshot
<1>3. j \in Seq(Entry) /\ NextSeq(j) \in Nat
  BY <1>1, <1>2, BufferOfIs, BufferIs DEF KindInv
<1>4. PICK e \in Snapshot : e = Memo(NextSeq(j) - 1) /\ e.memo = NextSeq(j) - 1
  BY <1>2, <1>3, MemoIs
<1>5. PICK t : t = Append(j, e)
  OBVIOUS
<1>6. Grows(t, j, <<e>>)
  BY <1>3, <1>5, AppendGrows DEF Entry
<1>7. NextSeq(j) \in Nat \ {0}
  BY <1>2, <1>3
<1>8. Install(p, [BufferOf(p) EXCEPT !.journal = t])
  BY <1>1, <1>2, <1>4, <1>5
<1>9. QED
  BY <1>1, <1>4, <1>6, <1>7, <1>8

LEMMA AppendSnapshotGrows ==
  ASSUME KindInv, NEW p \in Paths, AppendSnapshot(p)
  PROVE  Growing(p) /\ asked' = asked /\ Spend("memo") /\ minted' = minted
<1>1. /\ client[p] = "live" /\ Writable(p) /\ asked' = asked /\ minted' = minted
      /\ ingest' = ingest /\ Spend("memo")
      /\ UNCHANGED <<db, drain, client, sliced, halved>>
  BY DEF AppendSnapshot
<1>2. PICK e, t :
        /\ e \in Snapshot
        /\ e.memo = NextSeq(BufferOf(p).journal) - 1
        /\ Grows(t, BufferOf(p).journal, <<e>>)
        /\ Install(p, [BufferOf(p) EXCEPT !.journal = t])
  BY AppendSnapshotAdds
<1>3. PICK fresh \in Seq(Entry) : fresh = <<e>>
  BY <1>2, SmallSeqs DEF Entry
<1>4. NextSeq(BufferOf(p).journal) > 0
  BY AppendSnapshotAdds
<1>5. Adds(p, fresh)
  BY <1>1, <1>2, <1>3, <1>4 DEF Adds
<1>6. Grows(t, BufferOf(p).journal, fresh)
  BY <1>2, <1>3
<1>7. Growing(p)
  BY <1>1, <1>2, <1>5, <1>6, GrownIs
<1>8. QED
  BY <1>1, <1>7

LEMMA RecordOriginAdds ==
  ASSUME KindInv, NEW p \in Paths, RecordOrigin(p), ~UNCHANGED <<bufs, ingest>>
  PROVE  /\ Writable(p) /\ ingest' = ingest + 1
         /\ ~HoldsOrigin(db[p].rows, OriginOf(asked[p]))
         /\ \E e \in Row : \E t :
              /\ e.seq = NextSeq(BufferOf(p).journal) /\ e.ingest = ingest
              /\ e.origin = OriginOf(asked[p]) /\ e.origin # Recorded
              /\ Grows(t, BufferOf(p).journal, <<e>>)
              /\ Install(p, [BufferOf(p) EXCEPT !.journal = t])
<1>1. PICK j : j = BufferOf(p).journal
  OBVIOUS
<1>2. PICK origin : origin = OriginOf(asked[p])
  OBVIOUS
<1>3. /\ Writable(p) /\ ~HoldsOrigin(db[p].rows, origin) /\ asked[p] # Nobody
      /\ Install(p, [BufferOf(p) EXCEPT !.journal =
           Append(@, Event(NextSeq(j), asked[p].fact, origin, ingest))])
      /\ ingest' = ingest + 1
  BY <1>1, <1>2 DEF RecordOrigin, OriginOf
<1>4. j \in Seq(Entry) /\ NextSeq(j) \in Nat
  BY <1>1, <1>3, BufferOfIs, BufferIs DEF KindInv
<1>5. asked[p] \in [source : Paths, seq : Nat, fact : 1 .. MaxFacts] /\ ingest \in Nat
  BY <1>3 DEF KindInv, RestInv
<1>6. PICK e : e = Event(NextSeq(j), asked[p].fact, origin, ingest)
  OBVIOUS
<1>7. e \in Row /\ e.seq = NextSeq(j) /\ e.ingest = ingest /\ e.origin = origin /\ origin # Recorded
  <2>1. origin \in [source : Paths, seq : Nat] /\ asked[p].fact \in 1 .. MaxFacts
    BY <1>2, <1>5 DEF OriginOf
  <2>2. origin # Recorded
    BY <2>1, DaowAssumption
  <2>3. QED
    BY <1>4, <1>5, <1>6, <2>1, <2>2 DEF Event, Row
<1>8. PICK t : t = Append(j, e)
  OBVIOUS
<1>9. Grows(t, j, <<e>>)
  BY <1>4, <1>7, <1>8, AppendGrows DEF Entry
<1>10. Install(p, [BufferOf(p) EXCEPT !.journal = t])
  BY <1>1, <1>3, <1>6, <1>8
<1>11. QED
  BY <1>1, <1>2, <1>3, <1>7, <1>9, <1>10

LEMMA RecordOriginGrows ==
  ASSUME KindInv, NEW p \in Paths, RecordOrigin(p)
  PROVE  /\ Growing(p) \/ UNCHANGED <<bufs, db, drain, client, sliced, halved, ingest>>
         /\ asked' = [asked EXCEPT ![p] = Nobody] /\ left' = left /\ minted' = minted
<1>1. /\ asked[p] # Nobody /\ asked' = [asked EXCEPT ![p] = Nobody] /\ left' = left /\ minted' = minted
      /\ UNCHANGED <<db, drain, client, sliced, halved>>
  BY DEF RecordOrigin
<1>2. CASE UNCHANGED <<bufs, ingest>>
  BY <1>1, <1>2
<1>3. CASE ~UNCHANGED <<bufs, ingest>>
  <2>1. client[p] = "live" /\ ingest \in Nat
    BY <1>1 DEF KindInv, RestInv, CallerInv
  <2>2. Writable(p) /\ ingest' = ingest + 1
    BY <1>3, RecordOriginAdds
  <2>3. PICK e, t :
          /\ e \in Row
          /\ e.seq = NextSeq(BufferOf(p).journal) /\ e.ingest = ingest
          /\ Grows(t, BufferOf(p).journal, <<e>>)
          /\ Install(p, [BufferOf(p) EXCEPT !.journal = t])
    BY <1>3, RecordOriginAdds
  <2>4. PICK fresh \in Seq(Entry) : fresh = <<e>> /\ Len(fresh) = 1 /\ DOMAIN fresh = {1}
    <3>1. <<e>> \in Seq(Entry)
      BY <2>3, SmallSeqs DEF Entry
    <3>2. Len(<<e>>) = 1 /\ DOMAIN <<e>> = {1}
      OBVIOUS
    <3>3. QED
      BY <3>1, <3>2
  <2>5. PICK n \in Nat : n = NextSeq(BufferOf(p).journal)
    BY <2>3 DEF Row
  <2>6. Adds(p, fresh)
    <3>1. /\ fresh[1] = e /\ n + 1 - 1 = n /\ ingest + 1 - 1 = ingest
          /\ ingest' = ingest + Len(fresh)
      BY <2>1, <2>2, <2>4
    <3>2. \A i \in DOMAIN fresh : /\ fresh[i] \in Row
                                  /\ fresh[i].seq = n + i - 1
                                  /\ fresh[i].ingest = ingest + i - 1
      BY <2>3, <2>4, <2>5, <3>1
    <3>3. QED
      BY <2>5, <3>1, <3>2 DEF Adds
  <2>7. Grows(t, BufferOf(p).journal, fresh)
    BY <2>3, <2>4
  <2>8. Growing(p)
    BY <1>1, <2>1, <2>2, <2>3, <2>6, <2>7, GrownIs
  <2>9. QED
    BY <1>1, <2>8
<1>4. QED
  BY <1>2, <1>3

----------------------------------------------------------------------------
(* The other steps.                                                        *)

LEMMA KeptRests ==
  ASSUME \A q \in Paths : Kept(q), ingest' = ingest, halved' = halved
  PROVE  Resting
BY DEF Resting, Rests

(* One path is opened or closed, and the others are kept.                  *)
LEMMA OneRests ==
  ASSUME NEW p \in Paths, \A q \in Paths \ {p} : Kept(q), ingest' = ingest, halved' = halved,
         Kept(p) \/ Cold(p) \/ Opened(p) \/ Closed(p)
  PROVE  Resting
<1>1. ASSUME NEW q \in Paths
      PROVE  Rests(q)
  <2>1. CASE q = p
    BY <2>1 DEF Rests
  <2>2. CASE q # p
    BY <2>2 DEF Rests
  <2>3. QED
    BY <2>1, <2>2
<1>2. QED
  BY <1>1 DEF Resting

LEMMA StillRests ==
  ASSUME KindInv, UNCHANGED <<bufs, db, ingest, halved>>,
         drain' = drain \/ drain' \notin Flushes \/ ~drain'.written
  PROVE  Resting
<1>1. \A q \in Paths : Kept(q)
  BY CalmIs, SameKept
<1>2. QED
  BY <1>1, KeptRests

LEMMA LoadRetainedRests ==
  ASSUME KindInv, NEW p \in Paths, NEW by, LoadRetained(p, by)
  PROVE  Resting
<1>1. /\ Ready(p) /\ Install(p, Keep(bufs[p]))
      /\ UNCHANGED <<db, drain, ingest, halved>>
  BY DEF LoadRetained
<1>2. \A q \in Paths : Calm(q)
  BY <1>1, CalmIs
<1>3. \A q \in Paths \ {p} : Kept(q)
  BY <1>1, <1>2, OthersKept
<1>4. Kept(p)
  <2>1. p \in DOMAIN bufs /\ p \in DOMAIN bufs' /\ bufs'[p] = [bufs[p] EXCEPT !.drop = FALSE]
    BY <1>1, InstallIs DEF Ready, Buffered, Keep
  <2>2. QED
    BY <1>1, <1>2, <2>1, CalmKept
<1>5. QED
  BY <1>1, <1>3, <1>4, OneRests

LEMMA LoadColdRests ==
  ASSUME KindInv, NEW p \in Paths, NEW by \in {"loop", "catchUp"}, LoadCold(p, by)
  PROVE  Resting
<1>1. /\ ~Ready(p) /\ Install(p, Placeholder)
      /\ drain' = [op |-> "load", path |-> p, by |-> by]
      /\ UNCHANGED <<db, ingest, halved>>
  BY DEF LoadCold
<1>2. \A q \in Paths : Calm(q)
  BY <1>1, CalmIs, NoFlush
<1>3. \A q \in Paths \ {p} : Kept(q)
  BY <1>1, <1>2, OthersKept
<1>4. Cold(p)
  BY <1>1, InstallIs DEF Cold
<1>5. QED
  BY <1>1, <1>3, <1>4, OneRests

LEMMA FinishLoadRests ==
  ASSUME KindInv, FinishLoad
  PROVE  Resting
<1>1. PICK p : p = drain.path
  OBVIOUS
<1>2. /\ drain.op = "load" /\ drain' = Free
      /\ \/ Remove(p)
         \/ Install(p, Durable(Rebuild(db[p])))
      /\ UNCHANGED <<db, ingest, halved>>
  BY <1>1 DEF FinishLoad
<1>3. p \in DOMAIN bufs /\ p \in Paths /\ ~Ready(p)
  BY <1>1, <1>2 DEF KindInv, CallerInv, BufferInv, Ready
<1>4. \A q \in Paths : Calm(q)
  BY <1>2, CalmIs, NoFlush
<1>5. \A q \in Paths \ {p} : Kept(q)
  BY <1>2, <1>3, <1>4, OthersKept
<1>6. CASE Remove(p)
  <2>1. Cold(p)
    BY <1>2, <1>3, <1>6, RemoveIs DEF Cold
  <2>2. QED
    BY <1>2, <1>3, <1>5, <2>1, OneRests
<1>7. CASE Install(p, Durable(Rebuild(db[p])))
  <2>1. p \in DOMAIN bufs' /\ bufs'[p] = Durable(Rebuild(db[p]))
    BY <1>7, InstallIs
  <2>2. Frontier(p)' = bufs'[p].flushed
    BY <1>2, NoFlush DEF Frontier, Captured
  <2>3. bufs'[p].flushed = Len(Rebuild(db[p]))
    BY <2>1 DEF Durable, Buffer
  <2>4. Opened(p)
    BY <1>2, <1>3, <2>1, <2>2, <2>3 DEF Opened
  <2>5. QED
    BY <1>2, <1>3, <1>5, <2>4, OneRests
<1>8. QED
  BY <1>2, <1>6, <1>7

LEMMA PassivateRests ==
  ASSUME KindInv, NEW p \in Paths, Passivate(p)
  PROVE  Resting
<1>1. /\ Pending(p) /\ Install(p, [bufs[p] EXCEPT !.drop = TRUE])
      /\ drain' = [op |-> "passivated", path |-> p, batches |-> Collect({p}), written |-> FALSE]
      /\ UNCHANGED <<db, ingest, halved>>
  BY DEF Passivate
<1>2. \A q \in Paths : Calm(q)
  BY <1>1, CalmIs
<1>3. \A q \in Paths \ {p} : Kept(q)
  BY <1>1, <1>2, OthersKept
<1>4. Kept(p)
  <2>1. p \in DOMAIN bufs /\ p \in DOMAIN bufs' /\ bufs'[p] = [bufs[p] EXCEPT !.drop = TRUE]
    BY <1>1, InstallIs DEF Pending, Buffered
  <2>2. QED
    BY <1>1, <1>2, <2>1, CalmKept
<1>5. QED
  BY <1>1, <1>3, <1>4, OneRests

LEMMA PassivateDurableRests ==
  ASSUME KindInv, NEW p \in Paths, PassivateDurable(p)
  PROVE  Resting
<1>1. /\ ~Pending(p) /\ Remove(p) /\ drain = Free /\ asked[p] = Nobody
      /\ UNCHANGED <<db, drain, ingest, halved>>
  BY DEF PassivateDurable
<1>2. \A q \in Paths \ {p} : Kept(q)
  BY <1>1, CalmIs, OthersKept
<1>3. p \notin DOMAIN bufs'
  BY <1>1, RemoveIs
<1>4. CASE Ready(p)
  <2>1. Frontier(p) = Len(bufs[p].journal)
    BY <1>1, <1>4, NoFlush DEF Ready, Pending, Frontier, Captured
  <2>2. Closed(p)
    BY <1>1, <1>3, <1>4, <2>1 DEF Closed
  <2>3. QED
    BY <1>1, <1>2, <2>2, OneRests
<1>5. CASE ~Ready(p)
  <2>1. Cold(p)
    BY <1>1, <1>3, <1>5 DEF Cold
  <2>2. QED
    BY <1>1, <1>2, <2>1, OneRests
<1>6. QED
  BY <1>4, <1>5

LEMMA PurgeSettles ==
  ASSUME KindInv, NEW p \in Paths, Purge(p) \/ PurgeHalf(p)
  PROVE  /\ Settling /\ \A q \in Paths \ {p} : Kept(q)
         /\ p \in halved' \/ Emptied(p)
<1>1. /\ UNCHANGED <<drain, ingest>>
      /\ \/ /\ db' = [db EXCEPT ![p] = [rows |-> {}, memo |-> NoMemo]]
            /\ Remove(p) /\ halved' = halved \ {p}
         \/ /\ db' = [db EXCEPT ![p].rows = {}]
            /\ halved' = halved \cup {p} /\ bufs' = bufs
  BY DEF Purge, PurgeHalf
<1>2. db \in [Paths -> TableSet]
  BY DEF KindInv, TableInv
<1>3. \A q \in Paths : Calm(q)
  BY <1>1, CalmIs
<1>4. CASE /\ db' = [db EXCEPT ![p] = [rows |-> {}, memo |-> NoMemo]]
           /\ Remove(p) /\ halved' = halved \ {p}
  <2>1. ASSUME NEW q \in Paths \ {p}
        PROVE  Settled(q) /\ Kept(q)
    <3>1. db'[q] = db[q]
      BY <1>2, <1>4
    <3>2. /\ q \in DOMAIN bufs' <=> q \in DOMAIN bufs
          /\ q \in DOMAIN bufs => bufs'[q] = bufs[q]
      BY <1>4, RemoveIs
    <3>3. Kept(q)
      BY <1>3, <3>1, <3>2, SameKept
    <3>4. QED
      BY <1>4, <3>3 DEF Settled
  <2>2. Settled(p) /\ Emptied(p)
    <3>1. Emptied(p)
      BY <1>2, <1>4, RemoveIs DEF Emptied
    <3>2. QED
      BY <3>1 DEF Settled
  <2>3. QED
    BY <1>1, <2>1, <2>2 DEF Settling
<1>5. CASE /\ db' = [db EXCEPT ![p].rows = {}]
           /\ halved' = halved \cup {p} /\ bufs' = bufs
  <2>1. ASSUME NEW q \in Paths \ {p}
        PROVE  Settled(q) /\ Kept(q)
    <3>1. db'[q] = db[q]
      BY <1>2, <1>5
    <3>2. Kept(q)
      BY <1>3, <1>5, <3>1, SameKept
    <3>3. QED
      BY <1>5, <3>2 DEF Settled
  <2>2. Settled(p)
    <3>1. Halved(p)
      BY <1>2, <1>5 DEF Halved, Same
    <3>2. QED
      BY <1>5, <3>1 DEF Settled
  <2>3. QED
    BY <1>1, <1>5, <2>1, <2>2 DEF Settling
<1>6. QED
  BY <1>1, <1>4, <1>5

(* The transaction that commits.                                           *)
LEMMA StoreRests ==
  ASSUME KindInv, drain \in Flushes, Store, UNCHANGED <<bufs, ingest, halved>>,
         \/ drain' = Free
         \/ drain' = [drain EXCEPT !.written = TRUE]
  PROVE  Resting
<1>1. /\ ~Conflict
      /\ \A q \in Paths \ DOMAIN drain.batches : db'[q] = db[q]
      /\ \A q \in Paths \cap DOMAIN drain.batches :
           db'[q] = [rows |-> db[q].rows \cup drain.batches[q].rows,
                     memo |-> IF drain.batches[q].memo > db[q].memo
                              THEN drain.batches[q].memo ELSE db[q].memo]
  BY DEF Store
<1>2. /\ DOMAIN drain'.batches = DOMAIN drain.batches /\ drain'.batches = drain.batches
      \/ drain' \notin Flushes
  BY NoFlush DEF Flushes
<1>3. ASSUME NEW q \in Paths
      PROVE  Rests(q)
  <2>1. CASE q \notin DOMAIN drain.batches
    <3>1. Calm(q)
      BY <1>2, <2>1 DEF Calm, Captured
    <3>2. Kept(q)
      BY <1>1, <2>1, <3>1, SameKept
    <3>3. QED
      BY <3>2 DEF Rests
  <2>2. CASE q \in DOMAIN drain.batches
    <3>1. Captured(q)
      BY <2>2 DEF Captured
    <3>2. ~Clash(db[q], drain.batches[q])
      BY <1>1, <2>2 DEF Conflict
    <3>3. q \in DOMAIN bufs
      BY <3>1 DEF KindInv, BatchInv, Ready, Buffered
    <3>4. bufs[q].flushed <= drain.batches[q].end /\ drain.batches[q].end \in Nat
      BY <3>1, <3>3, FrontierIs DEF BatchSet
    <3>5. Frontier(q)' \in {drain.batches[q].end, bufs[q].flushed}
      BY <1>2 DEF Frontier, Captured
    <3>6. Frontier(q)' <= drain.batches[q].end
      BY <3>4, <3>5
    <3>7. Written(q)
      BY <1>1, <2>2, <3>1, <3>2, <3>3, <3>6 DEF Written
    <3>8. QED
      BY <3>7 DEF Rests
  <2>3. QED
    BY <2>1, <2>2
<1>4. QED
  BY <1>3 DEF Resting

(* The frontiers follow.                                                   *)
LEMMA CommitFlushRests ==
  ASSUME KindInv, CommitFlush
  PROVE  Resting
<1>1. /\ drain \in Flushes /\ drain.written /\ drain' = Free
      /\ UNCHANGED <<db, ingest, halved>>
  BY LockIs DEF KindInv, CommitFlush
<1>2. PICK flushed : flushed = DOMAIN drain.batches \cap DOMAIN bufs
  OBVIOUS
<1>3. PICK gone : gone = {p \in flushed : Goes(bufs[p], drain.batches[p])}
  OBVIOUS
<1>4. bufs' = [p \in DOMAIN bufs \ gone |->
        IF p \in flushed THEN Advance(bufs[p], drain.batches[p]) ELSE bufs[p]]
  BY <1>2, <1>3 DEF CommitFlush
<1>5. ASSUME NEW q \in Paths
      PROVE  Kept(q) \/ Closed(q)
  <2>1. Calm(q)
    BY <1>1, CalmIs, NoFlush
  <2>2. CASE q \notin flushed
    <3>1. /\ q \in DOMAIN bufs' <=> q \in DOMAIN bufs
          /\ q \in DOMAIN bufs => bufs'[q] = bufs[q]
      BY <1>3, <1>4, <2>2
    <3>2. QED
      BY <1>1, <2>1, <3>1, SameKept
  <2>3. CASE q \in flushed
    <3>1. /\ q \in DOMAIN bufs /\ Captured(q)
          /\ Frontier(q) = drain.batches[q].end
      BY <1>1, <1>2, <2>3 DEF Captured, Frontier
    <3>2. /\ Ready(q) /\ bufs[q] \in BufferSet /\ Frontier(q) \in Nat
          /\ drain.batches[q] \in BatchSet
      BY <3>1, FrontierIs DEF GoodBuffer
    <3>3. CASE q \in gone
      <4>1. Len(bufs[q].journal) = drain.batches[q].end /\ q \notin DOMAIN bufs'
        BY <1>3, <1>4, <3>3 DEF Goes
      <4>2. asked[q] = Nobody
        <5>1. bufs[q].drop
          BY <1>3, <3>3 DEF Goes
        <5>2. QED
          BY <3>1, <5>1 DEF KindInv, CallerInv, Buffered
      <4>3. Closed(q)
        BY <1>1, <3>1, <3>2, <4>1, <4>2 DEF Closed
      <4>4. QED
        BY <4>3
    <3>4. CASE q \notin gone
      <4>1. q \in DOMAIN bufs' /\ bufs'[q] = Advance(bufs[q], drain.batches[q])
        BY <1>4, <2>3, <3>1, <3>4
      <4>2. PICK d \in BOOLEAN : d = (bufs[q].drop /\ ~(bufs[q].drop /\ drain.batches[q].drop))
        OBVIOUS
      <4>3. bufs'[q] = [bufs[q] EXCEPT !.drop = d, !.flushed = Frontier(q)]
        BY <3>1, <4>1, <4>2 DEF Advance
      <4>4. Frontier(q)' = bufs'[q].flushed
        BY <1>1, NoFlush DEF Frontier, Captured
      <4>5. bufs'[q].flushed = Frontier(q)
        BY <3>2, <4>3 DEF BufferSet
      <4>6. Frontier(q)' <= Frontier(q) /\ Frontier(q) <= Frontier(q)
        BY <3>2, <4>4, <4>5
      <4>7. Kept(q)
        BY <1>1, <3>1, <3>2, <4>1, <4>3, <4>6 DEF Kept
      <4>8. QED
        BY <4>7
    <3>5. QED
      BY <3>3, <3>4
  <2>4. QED
    BY <2>2, <2>3
<1>6. QED
  BY <1>1, <1>5 DEF Resting, Rests

LEMMA DieLoses ==
  ASSUME KindInv, Die
  PROVE  Dying /\ DOMAIN bufs' = {}
<1>1. DOMAIN bufs' = {} /\ db' = db
  BY DEF Die
<1>2. \A q \in Paths : Lost(q)
  BY <1>1 DEF Lost
<1>3. QED
  BY <1>1, <1>2 DEF Dying, Die

(* The calls of a loop and the holders of the drain lock.                  *)
Calls(p) ==
  \/ Leave(p) \/ Passivate(p) \/ PassivateDurable(p)
  \/ \E by \in {"loop", "catchUp"} : LoadRetained(p, by) \/ LoadCold(p, by)

Works == BeginFlush \/ BeginScan \/ Finish \/ Abort

LEMMA CallsRest ==
  ASSUME KindInv, NEW p \in Paths, Calls(p)
  PROVE  Resting
<1>1. CASE Leave(p)
  BY <1>1, StillRests DEF Leave
<1>2. CASE Passivate(p) \/ PassivateDurable(p)
  BY <1>2, PassivateRests, PassivateDurableRests
<1>3. CASE \E by \in {"loop", "catchUp"} : LoadRetained(p, by) \/ LoadCold(p, by)
  BY <1>3, LoadRetainedRests, LoadColdRests
<1>4. QED
  BY <1>1, <1>2, <1>3 DEF Calls

LEMMA WorksRest ==
  ASSUME KindInv, Works
  PROVE  Resting
<1>1. CASE BeginFlush \/ BeginScan \/ TxFails \/ FailLoad \/ EndScan
  <2>1. /\ UNCHANGED <<bufs, db, ingest, halved>>
        /\ drain' = drain \/ drain' \notin Flushes \/ ~drain'.written
    BY <1>1, NoFlush DEF BeginFlush, BeginScan, TxFails, FailLoad, EndScan
  <2>2. QED
    BY <2>1, StillRests
<1>2. CASE FinishLoad \/ CommitFlush
  BY <1>2, FinishLoadRests, CommitFlushRests
<1>3. CASE WriteTx \/ Abort
  <2>1. UNCHANGED <<bufs, ingest, halved>>
    BY <1>3 DEF WriteTx, Abort
  <2>2. CASE UNCHANGED db /\ drain' = Free
    BY <2>1, <2>2, NoFlush, StillRests
  <2>3. CASE Writing /\ Store /\ (drain' = Free \/ drain' = [drain EXCEPT !.written = TRUE])
    <3>1. drain \in Flushes
      BY <2>3, LockIs DEF KindInv, Writing
    <3>2. QED
      BY <2>1, <2>3, <3>1, StoreRests
  <2>4. QED
    BY <1>3, <2>2, <2>3 DEF WriteTx, Abort
<1>4. QED
  BY <1>1, <1>2, <1>3 DEF Works, Finish

Effects == (\E p \in Paths : Growing(p)) \/ Settling \/ Dying

Within == DOMAIN bufs' \subseteq Paths /\ db' = [q \in Paths |-> db'[q]]

(* Every step is one of them.                                              *)
LEMMA StepEffects ==
  ASSUME KindInv, [Next]_vars
  PROVE  Effects /\ Within
<1>0. /\ DOMAIN bufs \subseteq Paths
      /\ db = [q \in Paths |-> db[q]]
      /\ db' = db => db' = [q \in Paths |-> db'[q]]
  <2>1. DOMAIN bufs \subseteq Paths /\ db \in [Paths -> TableSet]
    BY DEF KindInv, BufferInv, TableInv
  <2>2. db = [q \in Paths |-> db[q]]
    BY <2>1
  <2>3. QED
    BY <2>1, <2>2
<1>1. \A p \in Paths : (\E b : Install(p, b)) \/ Remove(p) \/ bufs' = bufs => DOMAIN bufs' \subseteq Paths
  <2>1. ASSUME NEW p \in Paths, NEW b, Install(p, b)
        PROVE  DOMAIN bufs' \subseteq Paths
    BY <1>0, <2>1 DEF Install
  <2>2. ASSUME NEW p \in Paths, Remove(p)
        PROVE  DOMAIN bufs' \subseteq Paths
    BY <1>0, <2>2, RemoveIs
  <2>3. QED
    BY <1>0, <2>1, <2>2
<1>2. ASSUME NEW p \in Paths,
             AppendFacts(p) \/ AskOrigin(p) \/ RecordOrigin(p) \/ AppendSnapshot(p)
      PROVE  Effects /\ Within
  <2>1. Growing(p) \/ UNCHANGED <<bufs, db, drain, client, sliced, halved, ingest>>
    BY <1>2, AppendFactsGrows, AskOriginGrows, RecordOriginGrows, AppendSnapshotGrows
  <2>2. UNCHANGED db
    BY <2>1 DEF Growing
  <2>3. (\E b : Install(p, b)) \/ bufs' = bufs
    BY <1>2 DEF AppendFacts, AskOrigin, RecordOrigin, AppendSnapshot
  <2>4. Effects
    BY <2>1, StillRests, RestingSettles DEF Effects
  <2>5. QED
    BY <1>0, <1>1, <2>2, <2>3, <2>4 DEF Within
<1>3. ASSUME NEW p \in Paths, Calls(p)
      PROVE  Effects /\ Within
  <2>1. Settling
    BY <1>3, CallsRest, RestingSettles
  <2>2. UNCHANGED db /\ ((\E b : Install(p, b)) \/ Remove(p) \/ bufs' = bufs)
    BY <1>3 DEF Calls, Leave, LoadRetained, LoadCold, Passivate, PassivateDurable
  <2>3. QED
    BY <1>0, <1>1, <2>1, <2>2 DEF Effects, Within
<1>4. ASSUME NEW p \in Paths, Purge(p) \/ PurgeHalf(p)
      PROVE  Effects /\ Within
  <2>1. Settling
    BY <1>4, PurgeSettles
  <2>2. Remove(p) \/ bufs' = bufs
    BY <1>4 DEF Purge, PurgeHalf
  <2>3. db' = [q \in Paths |-> db'[q]]
    BY <1>0, <1>4 DEF Purge, PurgeHalf
  <2>4. QED
    BY <1>1, <2>1, <2>2, <2>3 DEF Effects, Within
<1>5. ASSUME Works
      PROVE  Effects /\ Within
  <2>1. Settling
    BY <1>5, WorksRest, RestingSettles
  <2>2. \/ UNCHANGED db
        \/ Store
    BY <1>5 DEF Works, Finish, BeginFlush, BeginScan, TxFails, FailLoad, EndScan, FinishLoad,
       CommitFlush, WriteTx, Abort
  <2>3. db' = [q \in Paths |-> db'[q]]
    BY <1>0, <2>2 DEF Store
  <2>4. CASE FinishLoad
    <3>1. (\E b : Install(drain.path, b)) \/ Remove(drain.path)
      BY <2>4 DEF FinishLoad
    <3>2. drain.path \in Paths
      BY <1>0, <2>4 DEF FinishLoad, KindInv, CallerInv
    <3>3. QED
      BY <1>1, <2>1, <2>3, <3>1, <3>2 DEF Effects, Within
  <2>5. CASE ~FinishLoad
    <3>1. DOMAIN bufs' \subseteq DOMAIN bufs
      BY <1>5, <2>5 DEF Works, Finish, BeginFlush, BeginScan, TxFails, FailLoad, EndScan,
         CommitFlush, WriteTx, Abort
    <3>2. QED
      BY <1>0, <2>1, <2>3, <3>1 DEF Effects, Within
  <2>6. QED
    BY <2>4, <2>5
<1>6. ASSUME Die
      PROVE  Effects /\ Within
  BY <1>0, <1>6, DieLoses DEF Die, Effects, Within
<1>7. ASSUME UNCHANGED vars
      PROVE  Effects /\ Within
  BY <1>0, <1>7, StillRests, RestingSettles DEF vars, Effects, Within
<1>8. QED
  BY <1>2, <1>3, <1>4, <1>5, <1>6, <1>7 DEF Next, Calls, Works

----------------------------------------------------------------------------
(* The kinds are kept.                                                     *)

(* Rows that arrive together, after all others.                            *)
Late(rows, next) ==
  \A r \in rows :
    /\ r.seq >= next /\ r.ingest >= ingest /\ r.ingest < ingest'
    /\ \A s \in rows : /\ r.seq < s.seq <=> r.ingest < s.ingest
                       /\ r.ingest = s.ingest => r = s

LEMMA AddsLate ==
  ASSUME NEW q, NEW fresh \in Seq(Entry), Adds(q, fresh), ingest \in Nat,
         NextSeq(BufferOf(q).journal) \in Nat
  PROVE  Late(Rows(fresh), NextSeq(BufferOf(q).journal)) /\ ingest' \in Nat /\ ingest' >= ingest
<1>1. PICK n \in Nat : n = NextSeq(BufferOf(q).journal)
  OBVIOUS
<1>2. CASE /\ \A i \in DOMAIN fresh : /\ fresh[i] \in Row
                                      /\ fresh[i].seq = n + i - 1
                                      /\ fresh[i].ingest = ingest + i - 1
           /\ ingest' = ingest + Len(fresh)
  <2>1. Len(fresh) \in Nat /\ DOMAIN fresh = 1 .. Len(fresh) /\ Rows(fresh) = {fresh[i] : i \in Places(fresh)}
        /\ Places(fresh) \subseteq DOMAIN fresh
    BY JournalIs
  <2>2. \A r \in Rows(fresh) : \E i \in 1 .. Len(fresh) :
          r = fresh[i] /\ r.seq = n + i - 1 /\ r.ingest = ingest + i - 1
    BY <1>2, <2>1
  <2>3. ingest' \in Nat /\ ingest' >= ingest
    BY <1>2, <2>1
  <2>4. ASSUME NEW r \in Rows(fresh)
        PROVE  r.seq >= n /\ r.ingest >= ingest /\ r.ingest < ingest'
    <3>1. PICK i \in 1 .. Len(fresh) : r.seq = n + i - 1 /\ r.ingest = ingest + i - 1
      BY <2>2
    <3>2. QED
      BY <1>2, <2>1, <3>1
  <2>5. ASSUME NEW r \in Rows(fresh), NEW s \in Rows(fresh)
        PROVE  /\ r.seq < s.seq <=> r.ingest < s.ingest
               /\ r.ingest = s.ingest => r = s
    <3>1. PICK i \in 1 .. Len(fresh) : r = fresh[i] /\ r.seq = n + i - 1 /\ r.ingest = ingest + i - 1
      BY <2>2
    <3>2. PICK k \in 1 .. Len(fresh) : s = fresh[k] /\ s.seq = n + k - 1 /\ s.ingest = ingest + k - 1
      BY <2>2
    <3>3. r.seq < s.seq <=> r.ingest < s.ingest
      BY <2>1, <3>1, <3>2
    <3>4. r.ingest = s.ingest => i = k
      BY <2>1, <3>1, <3>2
    <3>5. QED
      BY <3>1, <3>2, <3>3, <3>4
  <2>6. QED
    BY <1>1, <2>3, <2>4, <2>5 DEF Late
<1>3. CASE (\E e \in Snapshot : fresh = <<e>> /\ n > 0 /\ e.memo = n - 1) /\ ingest' = ingest
  <2>1. PICK e \in Snapshot : fresh = <<e>>
    BY <1>3
  <2>2. ~IsEvent(fresh[1]) /\ DOMAIN fresh = {1}
    BY <2>1, EntryKinds
  <2>3. Places(fresh) = {}
    BY <2>2 DEF Places
  <2>4. Rows(fresh) = {}
    BY <2>3, JournalIs
  <2>5. QED
    BY <1>3, <2>4 DEF Late
<1>4. QED
  BY <1>1, <1>2, <1>3 DEF Adds

GrownFrom(q, j, t, fresh) ==
  /\ j = BufferOf(q).journal /\ t = bufs'[q].journal
  /\ Grows(t, j, fresh) /\ Len(j) \in Nat /\ Len(t) \in Nat /\ Len(j) <= Len(t)
  /\ Rows(t) = Rows(j) \cup Rows(fresh)
  /\ Late(Rows(fresh), NextSeq(j))
  /\ Anchored(j) /\ Ascending(j) => Anchored(t) /\ Ascending(t)

LEMMA GrownJournal ==
  ASSUME KindInv, NEW q \in Paths, Grown(q)
  PROVE  /\ GoodBuffer(bufs'[q]) /\ Ready(q)' /\ bufs'[q].flushed = BufferOf(q).flushed
         /\ bufs'[q].drop = BufferOf(q).drop
         /\ ingest' \in Nat /\ ingest' >= ingest
         /\ \E j, t, fresh \in Seq(Entry) : GrownFrom(q, j, t, fresh)
<1>1. PICK fresh \in Seq(Entry), t \in Seq(Entry) :
        /\ Grows(t, BufferOf(q).journal, fresh)
        /\ bufs'[q] = [BufferOf(q) EXCEPT !.journal = t]
        /\ Adds(q, fresh)
  BY DEF Grown
<1>2. PICK b : b = BufferOf(q)
  OBVIOUS
<1>3. /\ GoodBuffer(b) /\ b \in BufferSet /\ ~b.activating
      /\ Writable(q) /\ q \in DOMAIN bufs'
  BY <1>2, BufferOfIs DEF KindInv, GoodBuffer, Grown
<1>4. PICK j \in Seq(Entry) : j = b.journal
  BY <1>3 DEF BufferSet
<1>5. PICK n \in Nat : n = NextSeq(j) /\ n = NextSeq(BufferOf(q).journal)
  BY <1>2, <1>3, <1>4 DEF GoodBuffer
<1>6. Ranked(j) /\ Counts(Rows(j), n)
  BY <1>3, <1>4, <1>5 DEF GoodBuffer, Numbered, NextSeq
<1>7. /\ bufs'[q] \in BufferSet /\ bufs'[q].journal = t /\ bufs'[q].flushed = b.flushed
      /\ bufs'[q].drop = b.drop /\ ~bufs'[q].activating
  BY <1>1, <1>2, <1>3 DEF BufferSet
<1>8. Grows(t, j, fresh)
  BY <1>1, <1>2, <1>4
<1>9. /\ Len(j) \in Nat /\ Len(t) \in Nat /\ Len(j) <= Len(t)
      /\ Rows(t) = Rows(j) \cup Rows(fresh)
  <2>1. Len(j) \in Nat /\ Len(fresh) \in Nat /\ Len(t) = Len(j) + Len(fresh)
    BY <1>8, ConcatIs, LenProperties
  <2>2. Rows(t) = Rows(j) \cup Rows(fresh)
    BY <1>8, GrowsKinds
  <2>3. QED
    BY <2>1, <2>2
<1>10. ingest \in Nat
  BY DEF KindInv, RestInv
<1>11. Late(Rows(fresh), NextSeq(j)) /\ ingest' \in Nat /\ ingest' >= ingest
  BY <1>1, <1>5, <1>10, AddsLate
<1>12. /\ Ranked(t) /\ Numbered(Rows(t)) /\ NextSeq(t) \in Nat
       /\ Anchored(j) /\ Ascending(j) => Anchored(t) /\ Ascending(t)
  <2>1. CASE \A i \in DOMAIN fresh : fresh[i] \in Row /\ fresh[i].seq = n + i - 1
    <3>1. /\ Ranked(t) /\ Counts(Rows(t), n + Len(fresh))
          /\ Anchored(j) => Anchored(t)
          /\ Ascending(j) => Ascending(t)
      BY <1>6, <1>8, <2>1, GrowsByRows
    <3>2. PICK m \in Nat : m = n + Len(fresh)
      BY LenProperties
    <3>3. Rows(t) \subseteq Row
      BY JournalIs
    <3>4. Numbered(Rows(t)) /\ Cardinality(Rows(t)) = m
      BY <3>1, <3>2, <3>3, CountIs
    <3>5. QED
      BY <3>1, <3>2, <3>4 DEF NextSeq
  <2>2. CASE \E e \in Snapshot : fresh = <<e>> /\ n > 0 /\ e.memo = n - 1
    <3>1. PICK e \in Snapshot : fresh = <<e>> /\ n > 0 /\ e.memo = n - 1
      BY <2>2
    <3>2. Grows(t, j, <<e>>) /\ n \in Nat \ {0}
      BY <1>8, <3>1
    <3>3. Rows(t) = Rows(j) /\ Ranked(t)
      BY <1>6, <3>2, GrowsByMemo
    <3>4. Anchored(j) /\ Ascending(j) => Anchored(t) /\ Ascending(t)
      BY <1>6, <3>1, <3>2, GrowsBySnapshot
    <3>5. Rows(j) \subseteq Row
      BY JournalIs
    <3>6. Numbered(Rows(j)) /\ Cardinality(Rows(j)) = n
      BY <1>6, <3>5, CountIs
    <3>7. QED
      BY <3>3, <3>4, <3>6 DEF NextSeq
  <2>3. QED
    BY <1>1, <1>5, <2>1, <2>2 DEF Adds
<1>13. b.flushed <= Len(t)
  BY <1>3, <1>4, <1>9 DEF GoodBuffer, BufferSet
<1>14. GoodBuffer(bufs'[q])
  BY <1>7, <1>12, <1>13 DEF GoodBuffer
<1>15. Ready(q)'
  BY <1>3, <1>7 DEF Ready, Buffered
<1>16. GrownFrom(q, j, t, fresh)
  BY <1>2, <1>4, <1>7, <1>8, <1>9, <1>11, <1>12 DEF GrownFrom
<1>17. QED
  BY <1>2, <1>7, <1>11, <1>14, <1>15, <1>16

LEMMA OpenedJournal ==
  ASSUME KindInv, NEW q \in Paths, Opened(q)
  PROVE  GoodBuffer(bufs'[q]) /\ Ready(q)' /\ bufs'[q].journal = Rebuild(db[q])
<1>1. PICK j : j = Rebuild(db[q])
  OBVIOUS
<1>2. /\ j \in Seq(Entry) /\ Ranked(j)
      /\ Counts(Rows(j), Cardinality(db[q].rows)) /\ Cardinality(db[q].rows) \in Nat
  BY <1>1, RebuildIs DEF KindInv, TableInv
<1>3. Rows(j) \subseteq Row /\ Len(j) \in Nat
  BY <1>2, JournalIs
<1>4. Numbered(Rows(j)) /\ NextSeq(j) \in Nat
  BY <1>2, <1>3, CountIs DEF NextSeq
<1>5. /\ q \in DOMAIN bufs'
      /\ bufs'[q] = [journal |-> j, flushed |-> Len(j), drop |-> FALSE, activating |-> FALSE]
  BY <1>1 DEF Opened, Durable, Buffer
<1>6. bufs'[q] \in BufferSet /\ bufs'[q].flushed = Len(j) /\ bufs'[q].journal = j /\ ~bufs'[q].activating
  BY <1>2, <1>3, <1>5 DEF BufferSet
<1>7. GoodBuffer(bufs'[q])
  BY <1>2, <1>3, <1>4, <1>6 DEF GoodBuffer
<1>8. QED
  BY <1>1, <1>5, <1>6, <1>7 DEF Ready, Buffered

LEMMA KeptBuffer ==
  ASSUME KindInv, NEW q \in Paths, Kept(q), q \in DOMAIN bufs
  PROVE  /\ GoodBuffer(bufs'[q])
         /\ bufs'[q].journal = bufs[q].journal
         /\ Ready(q)' <=> Ready(q)
<1>1. PICK d \in BOOLEAN, f \in Nat :
        bufs'[q] = [bufs[q] EXCEPT !.drop = d, !.flushed = f] /\ f <= Frontier(q)
  BY DEF Kept
<1>2. /\ GoodBuffer(bufs[q]) /\ bufs[q] \in BufferSet
      /\ Frontier(q) \in Nat /\ Len(bufs[q].journal) \in Nat
      /\ Frontier(q) <= Len(bufs[q].journal)
  BY FrontierIs DEF GoodBuffer
<1>3. /\ bufs'[q] \in BufferSet /\ bufs'[q].journal = bufs[q].journal /\ bufs'[q].flushed = f
      /\ bufs'[q].activating = bufs[q].activating
  BY <1>1, <1>2 DEF BufferSet
<1>4. f <= Len(bufs[q].journal)
  BY <1>1, <1>2
<1>5. bufs[q].activating => f = 0
  <2>1. ASSUME bufs[q].activating
        PROVE  f = 0
    <3>1. ~Captured(q)
      BY <2>1 DEF KindInv, BatchInv, Ready
    <3>2. Frontier(q) = 0
      BY <1>2, <2>1, <3>1 DEF Frontier, GoodBuffer
    <3>3. QED
      BY <1>1, <3>2
  <2>2. QED
    BY <2>1
<1>6. GoodBuffer(bufs'[q])
  BY <1>2, <1>3, <1>4, <1>5 DEF GoodBuffer
<1>7. QED
  BY <1>3, <1>6 DEF Ready, Buffered, Kept

LEMMA BuffersStayGood ==
  ASSUME KindInv, Effects, Within
  PROVE  BufferInv'
<1> SUFFICES ASSUME NEW q \in DOMAIN bufs'
             PROVE  GoodBuffer(bufs'[q])
  BY DEF Within, BufferInv
<1>0. q \in Paths
  BY DEF Within
<1>1. CASE Kept(q)
  <2>1. q \in DOMAIN bufs
    BY <1>1 DEF Kept
  <2>2. QED
    BY <1>0, <1>1, <2>1, KeptBuffer
<1>2. CASE Same(q)
  BY <1>2 DEF Same, KindInv, BufferInv
<1>3. CASE Grown(q)
  BY <1>0, <1>3, GrownJournal
<1>4. CASE Cold(q)
  BY <1>4, NewBufferIs DEF Cold
<1>5. CASE Opened(q)
  BY <1>0, <1>5, OpenedJournal
<1>6. CASE Written(q)
  <2>1. q \in DOMAIN bufs
    <3>1. Captured(q)
      BY <1>6 DEF Written
    <3>2. QED
      BY <1>0, <3>1 DEF KindInv, BatchInv, Ready, Buffered
  <2>2. QED
    BY <1>6, <2>1 DEF Written, KindInv, BufferInv
<1>7. CASE Closed(q) \/ Emptied(q) \/ Lost(q)
  BY <1>7 DEF Closed, Emptied, Lost
<1>8. CASE Halved(q)
  BY <1>2, <1>8 DEF Halved
<1>9. QED
  BY <1>0, <1>1, <1>3, <1>4, <1>5, <1>6, <1>7, <1>8
  DEF Effects, Growing, Settling, Settled, Dying

(* A transaction writes rows that the buffer has.                          *)
LEMMA BatchIs ==
  ASSUME KindInv, NEW q, Captured(q)
  PROVE  /\ q \in Paths /\ q \in DOMAIN bufs /\ Ready(q) /\ drain.batches[q] \in BatchSet
         /\ bufs[q].flushed \in Nat /\ bufs[q].flushed <= drain.batches[q].end
         /\ drain.batches[q].end \in Nat /\ drain.batches[q].end <= Len(bufs[q].journal)
         /\ \E y : /\ Stretch(y, bufs[q].journal, bufs[q].flushed + 1, drain.batches[q].end)
                   /\ drain.batches[q].rows = Rows(y) /\ drain.batches[q].memo = LastMemo(y)
         /\ drain.batches[q].rows \subseteq Rows(bufs[q].journal)
         /\ IsFiniteSet(drain.batches[q].rows)
<1>1. q \in Paths /\ drain.batches[q] \in BatchSet
  BY LockIs DEF KindInv, Captured
<1>2. /\ Ready(q) /\ bufs[q].flushed <= drain.batches[q].end
      /\ drain.batches[q].end <= Len(bufs[q].journal)
      /\ drain.batches[q].rows = Rows(SubSeq(bufs[q].journal, bufs[q].flushed + 1, drain.batches[q].end))
      /\ drain.batches[q].memo = LastMemo(SubSeq(bufs[q].journal, bufs[q].flushed + 1, drain.batches[q].end))
  BY <1>1 DEF KindInv, BatchInv
<1>3. q \in DOMAIN bufs /\ GoodBuffer(bufs[q])
  BY <1>2, FrontierIs DEF Ready, Buffered
<1>4. PICK j \in Seq(Entry) : j = bufs[q].journal
  BY <1>3, BufferIs
<1>5. PICK f \in Nat : f = bufs[q].flushed
  BY <1>3, BufferIs
<1>6. PICK e \in Nat : e = drain.batches[q].end
  BY <1>1 DEF BatchSet
<1>7. PICK y : y = SubSeq(j, f + 1, e)
  OBVIOUS
<1>8. Stretch(y, j, f + 1, e)
  BY <1>2, <1>4, <1>6, <1>7, SubSeqStretch
<1>9. drain.batches[q].rows = Rows(y) /\ drain.batches[q].memo = LastMemo(y)
  BY <1>2, <1>4, <1>5, <1>6, <1>7
<1>10. Rows(y) \subseteq Rows(j)
  <2>1. Rows(y) = Between(j, f + 1, e)
    BY <1>2, <1>4, <1>6, <1>8, StretchRows
  <2>2. Rows(j) = {j[i] : i \in Places(j)}
    BY JournalIs
  <2>3. QED
    BY <2>1, <2>2 DEF Between
<1>11. IsFiniteSet(Rows(y))
  <2>1. Counts(Rows(j), NextSeq(j)) /\ NextSeq(j) \in Nat /\ Rows(j) \subseteq Row
    BY <1>3, <1>4, BufferIs
  <2>2. IsFiniteSet(Rows(j))
    BY <2>1, CountIs
  <2>3. QED
    BY <1>10, <2>2, FS_Subset
<1>12. QED
  BY <1>1, <1>2, <1>3, <1>4, <1>5, <1>6, <1>8, <1>9, <1>10, <1>11

LEMMA WrittenTable ==
  ASSUME KindInv, NEW q \in Paths, Written(q)
  PROVE  db'[q] \in TableSet /\ Table(db'[q]) /\ db'[q].rows = db[q].rows \cup drain.batches[q].rows
<1>1. /\ Captured(q) /\ ~Clash(db[q], drain.batches[q])
      /\ db'[q] = [rows |-> db[q].rows \cup drain.batches[q].rows,
                   memo |-> IF drain.batches[q].memo > db[q].memo
                            THEN drain.batches[q].memo ELSE db[q].memo]
  BY DEF Written
<1>2. drain.batches[q] \in BatchSet /\ IsFiniteSet(drain.batches[q].rows)
      /\ drain.batches[q].rows \subseteq Rows(bufs[q].journal)
  BY <1>1, BatchIs
<1>3. /\ db[q].rows \subseteq Row /\ IsFiniteSet(db[q].rows) /\ Distinct(db[q].rows)
      /\ db[q].memo \in Nat \cup {NoMemo}
  BY DEF KindInv, TableInv, Table
<1>4. drain.batches[q].rows \subseteq Row /\ drain.batches[q].memo \in Nat \cup {NoMemo}
  BY <1>2 DEF BatchSet
<1>5. Distinct(drain.batches[q].rows)
  <2>1. q \in DOMAIN bufs
    BY <1>1, BatchIs
  <2>2. Counts(Rows(bufs[q].journal), NextSeq(bufs[q].journal))
    BY <2>1, BufferIs DEF KindInv, BufferInv
  <2>3. QED
    BY <1>2, <2>2 DEF Counts, Distinct
<1>6. Distinct(db[q].rows \cup drain.batches[q].rows)
  BY <1>1, <1>3, <1>5 DEF Distinct, Clash
<1>7. IsFiniteSet(db[q].rows \cup drain.batches[q].rows)
  BY <1>2, <1>3, FS_Union
<1>8. db'[q].rows = db[q].rows \cup drain.batches[q].rows
  BY <1>1
<1>9. db'[q].memo \in Nat \cup {NoMemo}
  BY <1>1, <1>3, <1>4
<1>10. db'[q] \in TableSet
  BY <1>1, <1>3, <1>4 DEF TableSet
<1>11. QED
  BY <1>3, <1>4, <1>6, <1>7, <1>8, <1>9, <1>10 DEF Table

LEMMA TablesStay ==
  ASSUME KindInv, Effects, Within
  PROVE  TableInv'
<1>1. ASSUME NEW q \in Paths
      PROVE  db'[q] \in TableSet /\ Table(db'[q])
  <2>0. db[q] \in TableSet /\ Table(db[q])
    BY DEF KindInv, TableInv
  <2>1. CASE db'[q] = db[q]
    BY <2>0, <2>1
  <2>2. CASE Written(q)
    BY <2>2, WrittenTable
  <2>3. CASE Emptied(q)
    <3>1. db'[q].rows = {} /\ db'[q].memo = NoMemo /\ db'[q] = [rows |-> {}, memo |-> NoMemo]
      BY <2>3 DEF Emptied
    <3>2. QED
      BY <3>1, FS_EmptySet DEF Table, TableSet, Distinct
  <2>4. CASE Halved(q)
    <3>1. db'[q] \in TableSet /\ db'[q].rows = {} /\ db'[q].memo = db[q].memo
      BY <2>0, <2>4 DEF Halved, TableSet
    <3>2. QED
      BY <2>0, <3>1, FS_EmptySet DEF Table, Distinct
  <2>5. QED
    <3>1. CASE \E p \in Paths : Growing(p)
      BY <2>1, <3>1 DEF Growing
    <3>2. CASE Settling
      BY <2>1, <2>2, <2>3, <2>4, <3>2 DEF Settling, Settled, Kept, Cold, Opened, Closed
    <3>3. CASE Dying
      BY <2>1, <3>3 DEF Dying
    <3>4. QED
      BY <3>1, <3>2, <3>3 DEF Effects
<1>2. db' \in [Paths -> TableSet]
  <2>1. db' = [q \in Paths |-> db'[q]]
    BY DEF Within
  <2>2. QED
    BY <1>1, <2>1
<1>3. QED
  BY <1>1, <1>2 DEF TableInv

(* What a path adds to a flush.                                            *)
LEMMA BatchOf ==
  ASSUME KindInv, NEW q, Pending(q)
  PROVE  /\ q \in Paths /\ Ready(q) /\ Batch(bufs[q]) \in BatchSet
         /\ Batch(bufs[q]).end = Len(bufs[q].journal)
         /\ LET fresh == SubSeq(bufs[q].journal, bufs[q].flushed + 1, Len(bufs[q].journal))
            IN  Batch(bufs[q]).rows = Rows(fresh) /\ Batch(bufs[q]).memo = LastMemo(fresh)
<1>1. /\ q \in DOMAIN bufs /\ bufs[q].flushed # Len(bufs[q].journal) /\ GoodBuffer(bufs[q])
      /\ q \in Paths
  BY FrontierIs DEF Pending, Buffered
<1>2. Ready(q)
  <2>1. ASSUME bufs[q].activating
        PROVE  FALSE
    BY <1>1, <2>1, EmptyJournal DEF GoodBuffer
  <2>2. QED
    BY <1>1, <2>1 DEF Ready, Buffered
<1>3. PICK j \in Seq(Entry) : j = bufs[q].journal
  BY <1>1, BufferIs
<1>4. PICK f \in Nat : f = bufs[q].flushed /\ f <= Len(j) /\ bufs[q].drop \in BOOLEAN
  BY <1>1, <1>3, BufferIs
<1>5. PICK e \in Nat : e = Len(j)
  BY LenProperties
<1>6. PICK y : y = SubSeq(j, f + 1, e)
  OBVIOUS
<1>7. Stretch(y, j, f + 1, e)
  BY <1>5, <1>6, SubSeqStretch
<1>8. y \in Seq(Entry)
  BY <1>7 DEF Stretch
<1>9. Rows(y) \subseteq Row /\ LastMemo(y) \in Nat \cup {NoMemo}
  BY <1>8, JournalIs, LastMemoIs
<1>10. Batch(bufs[q]) = [rows |-> Rows(y), memo |-> LastMemo(y), end |-> e, drop |-> bufs[q].drop]
  BY <1>3, <1>4, <1>5, <1>6 DEF Batch
<1>11. QED
  BY <1>1, <1>2, <1>3, <1>4, <1>5, <1>6, <1>9, <1>10 DEF BatchSet

LEMMA CollectIs ==
  ASSUME KindInv, NEW targets
  PROVE  /\ Collect(targets) \in UNION {[S -> BatchSet] : S \in SUBSET Paths}
         /\ DOMAIN Collect(targets) = {q \in targets : Pending(q)}
         /\ \A q \in DOMAIN Collect(targets) : Collect(targets)[q] = Batch(bufs[q])
<1>1. PICK S : S = {q \in targets : Pending(q)}
  OBVIOUS
<1>2. S \subseteq Paths /\ \A q \in S : Batch(bufs[q]) \in BatchSet
  BY <1>1, BatchOf
<1>3. Collect(targets) = [q \in S |-> Batch(bufs[q])]
  BY <1>1 DEF Collect
<1>4. Collect(targets) \in [S -> BatchSet]
  BY <1>2, <1>3
<1>5. QED
  BY <1>1, <1>2, <1>3, <1>4

(* The next arrival comes after all that is stored.                        *)
LEMMA NextIngestIs ==
  ASSUME KindInv
  PROVE  NextIngest \in Nat /\ \A q \in Paths : \A r \in db[q].rows : r.ingest < NextIngest
<1>1. PICK stored : stored = {r.ingest : r \in UNION {db[p].rows : p \in Paths}}
  OBVIOUS
<1>2. ingest \in Nat /\ \A q \in Paths : \A r \in db[q].rows : r \in Row /\ r.ingest < ingest
  BY DEF KindInv, RestInv, IngestInv, TableInv, Table
<1>3. stored \subseteq 0 .. ingest
  BY <1>1, <1>2, EntryKinds
<1>4. \A q \in Paths : \A r \in db[q].rows : r.ingest \in stored
  BY <1>1
<1>5. CASE stored = {}
  <2>1. NextIngest = 1
    BY <1>1, <1>5 DEF NextIngest
  <2>2. QED
    BY <1>4, <1>5, <2>1
<1>6. CASE stored # {}
  <2>1. \E n \in stored : \A m \in stored : m <= n
    BY <1>2, <1>3, <1>6, GreatestNatural
  <2>2. PICK top : top = CHOOSE n \in stored : \A m \in stored : m <= n
    OBVIOUS
  <2>3. top \in stored /\ \A m \in stored : m <= top
    BY <2>1, <2>2
  <2>4. NextIngest = top + 1
    BY <1>1, <1>6, <2>2 DEF NextIngest
  <2>5. top \in Nat /\ \A m \in stored : m \in Nat /\ m < top + 1
    BY <1>2, <1>3, <2>3
  <2>6. QED
    BY <1>4, <2>4, <2>5
<1>7. QED
  BY <1>5, <1>6

Behind(rows, n) == \A r \in rows : r.ingest < n

LEMMA BehindMore ==
  ASSUME NEW rows, rows \subseteq Row, NEW n \in Nat, NEW m \in Nat, n <= m, Behind(rows, n)
  PROVE  Behind(rows, m)
BY EntryKinds DEF Behind

LEMMA IngestStays ==
  ASSUME KindInv, Effects, Within
  PROVE  IngestInv' /\ ingest' \in Nat
<1>0. /\ ingest \in Nat
      /\ \A q \in Paths : db[q].rows \subseteq Row /\ Behind(db[q].rows, ingest)
      /\ \A q \in DOMAIN bufs : /\ q \in Paths /\ Rows(bufs[q].journal) \subseteq Row
                                /\ Behind(Rows(bufs[q].journal), ingest)
  <2>1. \A q \in DOMAIN bufs : q \in Paths /\ Rows(bufs[q].journal) \subseteq Row
    BY BufferIs DEF KindInv, BufferInv
  <2>2. QED
    BY <2>1 DEF KindInv, RestInv, IngestInv, TableInv, Table, Behind
<1>1. CASE Dying
  <2>1. ingest' \in Nat /\ \A q \in Paths : db'[q] = db[q] /\ Behind(db[q].rows, ingest')
    BY <1>1, NextIngestIs DEF Dying, Lost, Behind
  <2>2. DOMAIN bufs' = {}
    BY <1>1 DEF Dying, Lost, Within
  <2>3. QED
    BY <2>1, <2>2 DEF IngestInv, Behind
<1>2. CASE \E p \in Paths : Growing(p)
  <2>1. PICK p \in Paths : Growing(p)
    BY <1>2
  <2>2. Grown(p) /\ db' = db /\ \A q \in Paths \ {p} : Same(q)
    BY <2>1 DEF Growing
  <2>3. ingest' \in Nat /\ ingest' >= ingest
    BY <2>2, GrownJournal
  <2>4. \A q \in Paths : Behind(db'[q].rows, ingest')
    BY <1>0, <2>2, <2>3, BehindMore
  <2>5. ASSUME NEW q \in DOMAIN bufs', q # p
        PROVE  Behind(Rows(bufs'[q].journal), ingest')
    <3>1. q \in DOMAIN bufs /\ bufs'[q] = bufs[q]
      BY <2>2, <2>5 DEF Same, Within
    <3>2. QED
      BY <1>0, <2>3, <3>1, BehindMore
  <2>6. Behind(Rows(bufs'[p].journal), ingest')
    <3>1. PICK j \in Seq(Entry), t \in Seq(Entry), fresh \in Seq(Entry) : GrownFrom(p, j, t, fresh)
      BY <2>2, GrownJournal
    <3>2. /\ t = bufs'[p].journal /\ j = BufferOf(p).journal
          /\ Rows(t) = Rows(j) \cup Rows(fresh)
          /\ Behind(Rows(fresh), ingest')
      BY <3>1 DEF GrownFrom, Late, Behind
    <3>3. Rows(j) \subseteq Row /\ Behind(Rows(j), ingest)
      <4>1. CASE Buffered(p)
        BY <1>0, <3>2, <4>1 DEF BufferOf, Buffered
      <4>2. CASE ~Buffered(p)
        <5>1. j = <<>>
          BY <3>2, <4>2, NewBufferIs DEF BufferOf
        <5>2. Rows(j) = {}
          BY <5>1, EmptyJournal
        <5>3. QED
          BY <5>2 DEF Behind
      <4>3. QED
        BY <4>1, <4>2
    <3>4. Behind(Rows(j), ingest')
      BY <1>0, <2>3, <3>3, BehindMore
    <3>5. QED
      BY <3>2, <3>4 DEF Behind
  <2>7. QED
    BY <2>3, <2>4, <2>5, <2>6 DEF IngestInv, Behind
<1>3. CASE Settling
  <2>1. ingest' = ingest /\ \A q \in Paths : Settled(q)
    BY <1>3 DEF Settling
  <2>2. ASSUME NEW q \in Paths
        PROVE  /\ Behind(db'[q].rows, ingest)
               /\ q \in DOMAIN bufs' => Behind(Rows(bufs'[q].journal), ingest)
    <3>1. CASE Kept(q)
      <4>1. db'[q] = db[q] /\ (q \in DOMAIN bufs' => q \in DOMAIN bufs)
        BY <3>1 DEF Kept
      <4>2. QED
        BY <1>0, <3>1, <4>1, KeptBuffer
    <3>2. CASE Cold(q)
      <4>1. db'[q] = db[q] /\ (q \in DOMAIN bufs' => bufs'[q].journal = <<>>)
        BY <3>2, NewBufferIs DEF Cold
      <4>2. Rows(<<>>) = {} /\ Behind({}, ingest)
        BY EmptyJournal DEF Behind
      <4>3. QED
        BY <1>0, <4>1, <4>2
    <3>3. CASE Opened(q)
      <4>1. db'[q] = db[q] /\ bufs'[q].journal = Rebuild(db[q])
        BY <3>3, OpenedJournal DEF Opened
      <4>2. PICK j : j = Rebuild(db[q])
        OBVIOUS
      <4>3. \A e \in Rows(j) : \E r \in db[q].rows : e.ingest = r.ingest
        BY <4>2, RebuildIs DEF KindInv, TableInv
      <4>4. Behind(Rows(j), ingest)
        BY <1>0, <4>3 DEF Behind
      <4>5. QED
        BY <1>0, <4>1, <4>2, <4>4
    <3>4. CASE Closed(q)
      BY <1>0, <3>4 DEF Closed
    <3>5. CASE Written(q)
      <4>1. /\ db'[q].rows = db[q].rows \cup drain.batches[q].rows
            /\ drain.batches[q].rows \subseteq Rows(bufs[q].journal)
            /\ q \in DOMAIN bufs /\ bufs'[q] = bufs[q]
        BY <3>5, WrittenTable, BatchIs DEF Written
      <4>2. QED
        BY <1>0, <4>1 DEF Behind
    <3>6. CASE Emptied(q)
      BY <3>6 DEF Emptied, Behind
    <3>7. CASE Halved(q)
      <4>1. db'[q].rows = {}
        BY <3>7 DEF Halved, KindInv, TableInv, TableSet
      <4>2. q \in DOMAIN bufs' => q \in DOMAIN bufs /\ bufs'[q] = bufs[q]
        BY <3>7 DEF Halved, Same
      <4>3. QED
        BY <1>0, <4>1, <4>2 DEF Behind
    <3>8. QED
      BY <2>1, <3>1, <3>2, <3>3, <3>4, <3>5, <3>6, <3>7 DEF Settled
  <2>3. QED
    BY <1>0, <2>1, <2>2 DEF IngestInv, Behind, Within
<1>4. QED
  BY <1>1, <1>2, <1>3 DEF Effects

LEMMA SpendIs ==
  ASSUME RestInv, NEW what, Spend(what)
  PROVE  left' \in [Rare -> Nat]
<1>1. left \in [Rare -> Nat] /\ left' = [left EXCEPT ![what] = @ - 1] /\ left[what] > 0
  BY DEF RestInv, Spend
<1>2. what \in Rare => left[what] - 1 \in Nat
  BY <1>1
<1>3. QED
  BY <1>1, <1>2

LEMMA RestStays ==
  ASSUME KindInv, [Next]_vars, ingest' \in Nat
  PROVE  RestInv'
<1> USE DEF RestInv
<1>0. RestInv
  BY DEF KindInv
<1>1. ASSUME NEW p \in Paths, AppendFacts(p)
      PROVE  RestInv'
  BY <1>0, <1>1, AppendFactsGrows DEF Growing
<1>2. ASSUME NEW p \in Paths, AskOrigin(p)
      PROVE  RestInv'
  BY <1>0, <1>2, AskOriginGrows DEF Growing
<1>3. ASSUME NEW p \in Paths, RecordOrigin(p)
      PROVE  RestInv'
  BY <1>0, <1>3, RecordOriginGrows DEF Growing
<1>4. ASSUME NEW p \in Paths, AppendSnapshot(p)
      PROVE  RestInv'
  BY <1>0, <1>4, AppendSnapshotGrows, SpendIs DEF Growing
<1>5. ASSUME NEW p \in Paths, Leave(p)
      PROVE  RestInv'
  BY <1>0, <1>5 DEF Leave
<1>6. ASSUME NEW p \in Paths, NEW by \in {"loop", "catchUp"}, LoadRetained(p, by) \/ LoadCold(p, by)
      PROVE  RestInv'
  BY <1>0, <1>6 DEF LoadRetained, LoadCold, Loaded
<1>7. ASSUME NEW p \in Paths, Passivate(p) \/ PassivateDurable(p)
      PROVE  RestInv'
  BY <1>0, <1>7 DEF Passivate, PassivateDurable
<1>8. ASSUME NEW p \in Paths, Purge(p) \/ PurgeHalf(p)
      PROVE  RestInv'
  <2>1. left' \in [Rare -> Nat]
    BY <1>0, <1>8, SpendIs DEF Purge, PurgeHalf
  <2>2. QED
    BY <1>0, <1>8, <2>1 DEF Purge, PurgeHalf
<1>9. ASSUME BeginFlush \/ CommitFlush \/ TxFails \/ EndScan
      PROVE  RestInv'
  <2>1. left' \in [Rare -> Nat]
    BY <1>0, <1>9, SpendIs DEF BeginFlush, CommitFlush, TxFails, EndScan
  <2>2. client' \in [Paths -> {"down", "live", "leaving"}]
    BY <1>0, <1>9 DEF BeginFlush, CommitFlush, TxFails, EndScan, Released
  <2>3. QED
    BY <1>0, <1>9, <2>1, <2>2 DEF BeginFlush, CommitFlush, TxFails, EndScan
<1>10. ASSUME FinishLoad \/ FailLoad
       PROVE  RestInv'
  <2>1. left' \in [Rare -> Nat]
    BY <1>0, <1>10, SpendIs DEF FinishLoad, FailLoad
  <2>2. client' \in [Paths -> {"down", "live", "leaving"}]
    BY <1>0, <1>10 DEF FinishLoad, FailLoad, Loaded
  <2>3. QED
    BY <1>0, <1>10, <2>1, <2>2 DEF FinishLoad, FailLoad
<1>11. ASSUME WriteTx \/ Abort \/ BeginScan
       PROVE  RestInv'
  <2>1. left' \in [Rare -> Nat]
    BY <1>0, <1>11, SpendIs DEF WriteTx, Abort, BeginScan
  <2>2. client' \in [Paths -> {"down", "live", "leaving"}]
    BY <1>0, <1>11 DEF WriteTx, Abort, BeginScan, Released
  <2>3. sliced' \in BOOLEAN
    BY <1>0, <1>11 DEF WriteTx, Abort, BeginScan, Store
  <2>4. QED
    BY <1>0, <1>11, <2>1, <2>2, <2>3 DEF WriteTx, Abort, BeginScan
<1>12. ASSUME Die
       PROVE  RestInv'
  <2>1. left' \in [Rare -> Nat]
    BY <1>0, <1>12, SpendIs DEF Die
  <2>2. QED
    BY <1>0, <1>12, <2>1 DEF Die
<1>13. ASSUME UNCHANGED vars
       PROVE  RestInv'
  BY <1>0, <1>13 DEF vars
<1>14. QED
  BY <1>1, <1>2, <1>3, <1>4, <1>5, <1>6, <1>7, <1>8, <1>9, <1>10, <1>11, <1>12, <1>13 DEF Next, Finish

(* What a step does to the drain lock.                                     *)
LockStep ==
  \/ drain' = Free
  \/ /\ drain' = drain
     /\ drain = Free \/ bufs' = bufs \/ \E p \in Paths : Growing(p)
  \/ \E p \in Paths : \E by \in {"loop", "catchUp"} : LoadCold(p, by)
  \/ BeginFlush \/ (\E p \in Paths : Passivate(p)) \/ BeginScan \/ WriteTx

LEMMA LockSteps ==
  ASSUME KindInv, [Next]_vars
  PROVE  LockStep
<1>1. ASSUME NEW p \in Paths,
             AppendFacts(p) \/ AskOrigin(p) \/ RecordOrigin(p) \/ AppendSnapshot(p)
      PROVE  LockStep
  <2>1. Growing(p) \/ UNCHANGED <<bufs, db, drain, client, sliced, halved, ingest>>
    BY <1>1, AppendFactsGrows, AskOriginGrows, RecordOriginGrows, AppendSnapshotGrows
  <2>2. drain' = drain /\ (Growing(p) \/ bufs' = bufs)
    BY <2>1 DEF Growing
  <2>3. QED
    BY <2>2 DEF LockStep
<1>2. ASSUME NEW p \in Paths, Leave(p) \/ Purge(p) \/ PurgeHalf(p) \/ PassivateDurable(p)
      PROVE  LockStep
  <2>1. drain' = drain /\ (drain = Free \/ bufs' = bufs)
    BY <1>2 DEF Leave, Purge, PurgeHalf, PassivateDurable
  <2>2. QED
    BY <2>1 DEF LockStep
<1>3. ASSUME NEW p \in Paths, NEW by \in {"loop", "catchUp"}, LoadRetained(p, by)
      PROVE  LockStep
  <2>1. drain' = drain /\ drain = Free
    BY <1>3 DEF LoadRetained, MayLoad
  <2>2. QED
    BY <2>1 DEF LockStep
<1>4. ASSUME TxFails \/ CommitFlush \/ FinishLoad \/ FailLoad \/ EndScan \/ Abort \/ Die
      PROVE  LockStep
  <2>1. drain' = Free
    BY <1>4 DEF TxFails, CommitFlush, FinishLoad, FailLoad, EndScan, Abort, Die
  <2>2. QED
    BY <2>1 DEF LockStep
<1>5. ASSUME UNCHANGED vars
      PROVE  LockStep
  BY <1>5 DEF vars, LockStep
<1>6. QED
  BY <1>1, <1>2, <1>3, <1>4, <1>5 DEF Next, Finish, LockStep

LEMMA LockStays ==
  ASSUME KindInv, LockStep
  PROVE  LockInv'
<1>1. CASE drain' = Free \/ drain' = drain
  BY <1>1 DEF LockInv, KindInv
<1>2. ASSUME NEW p \in Paths, NEW by \in {"loop", "catchUp"}, LoadCold(p, by)
      PROVE  LockInv'
  BY <1>2 DEF LoadCold, LockInv, Loads
<1>3. ASSUME BeginFlush \/ \E p \in Paths : Passivate(p)
      PROVE  LockInv'
  <2>1. \E op \in {"flush", "passivated"}, path \in Paths \cup {Nobody}, targets \in SUBSET Paths :
          drain' = [op |-> op, path |-> path, batches |-> Collect(targets), written |-> FALSE]
    BY <1>3 DEF BeginFlush, Passivate
  <2>2. PICK op \in {"flush", "passivated"}, path \in Paths \cup {Nobody}, targets \in SUBSET Paths :
          drain' = [op |-> op, path |-> path, batches |-> Collect(targets), written |-> FALSE]
    BY <2>1
  <2>3. Collect(targets) \in UNION {[S -> BatchSet] : S \in SUBSET Paths}
    BY CollectIs
  <2>4. drain' \in Flushes
    BY <2>2, <2>3 DEF Flushes
  <2>5. QED
    BY <2>4 DEF LockInv
<1>4. ASSUME BeginScan
      PROVE  LockInv'
  <2>1. PICK found : found = UNION {Recordings(p, db[p].rows) : p \in Paths}
    OBVIOUS
  <2>2. \A p \in Paths : db[p].rows \subseteq Row
    BY DEF KindInv, TableInv, Table
  <2>3. found \subseteq Paths \X Row
    BY <2>1, <2>2 DEF Recordings
  <2>4. drain' = [op |-> "scan", rows |-> found]
    BY <1>4, <2>1 DEF BeginScan
  <2>5. QED
    BY <2>3, <2>4 DEF LockInv, Scans
<1>5. ASSUME WriteTx
      PROVE  LockInv'
  <2>1. drain \in Flushes /\ drain' = [drain EXCEPT !.written = TRUE]
    BY <1>5, LockIs DEF KindInv, WriteTx, Writing
  <2>2. drain' \in Flushes
    BY <2>1 DEF Flushes
  <2>3. QED
    BY <2>2 DEF LockInv
<1>6. QED
  BY <1>1, <1>2, <1>3, <1>4, <1>5 DEF LockStep

(* A captured batch as the buffer has it.                                  *)
Fits(b, batch) ==
  /\ b.flushed <= batch.end /\ batch.end <= Len(b.journal)
  /\ batch.rows = Rows(SubSeq(b.journal, b.flushed + 1, batch.end))
  /\ batch.memo = LastMemo(SubSeq(b.journal, b.flushed + 1, batch.end))

LEMMA BatchFits == BatchInv <=> \A p \in Paths : Captured(p) => Ready(p) /\ Fits(bufs[p], drain.batches[p])
BY DEF BatchInv, Fits

LEMMA BatchesStay ==
  ASSUME KindInv, LockStep
  PROVE  BatchInv'
<1> DEFINE Holds(q) == Captured(q)' => Ready(q)' /\ Fits(bufs'[q], drain'.batches[q])
<1> SUFFICES ASSUME NEW q \in Paths
             PROVE  Holds(q)
  BY DEF BatchInv, Fits
<1>0. Captured(q) => /\ Ready(q) /\ Fits(bufs[q], drain.batches[q]) /\ q \in DOMAIN bufs
                     /\ bufs[q].flushed \in Nat /\ drain.batches[q].end \in Nat
  BY BatchFits, BatchIs DEF KindInv
<1>1. CASE drain' = Free
  BY <1>1, NoFlush DEF Captured
<1>2. CASE drain' = drain /\ drain = Free
  BY <1>2, NoFlush DEF Captured
<1>3. CASE drain' = drain /\ bufs' = bufs
  <2>1. Captured(q)' <=> Captured(q)
    BY <1>3 DEF Captured
  <2>2. Ready(q)' <=> Ready(q)
    BY <1>3 DEF Ready, Buffered
  <2>3. QED
    BY <1>0, <1>3, <2>1, <2>2
<1>4. ASSUME drain' = drain, NEW p \in Paths, Growing(p)
      PROVE  Holds(q)
  <2>1. Captured(q)' <=> Captured(q)
    BY <1>4 DEF Captured
  <2>2. CASE q # p
    <3>1. Same(q)
      BY <1>4, <2>2 DEF Growing
    <3>2. QED
      BY <1>0, <1>4, <2>1, <3>1 DEF Same, Ready, Buffered
  <2>3. CASE q = p /\ Captured(q)
    <3>1. Grown(q) /\ BufferOf(q) = bufs[q]
      BY <1>0, <1>4, <2>3 DEF Growing, BufferOf, Buffered
    <3>2. PICK j \in Seq(Entry), t \in Seq(Entry), fresh \in Seq(Entry) : GrownFrom(q, j, t, fresh)
      BY <3>1, GrownJournal
    <3>3. /\ Ready(q)' /\ bufs'[q].flushed = bufs[q].flushed
          /\ j = bufs[q].journal /\ t = bufs'[q].journal
          /\ Grows(t, j, fresh) /\ Len(j) \in Nat /\ Len(t) \in Nat /\ Len(j) <= Len(t)
      BY <3>1, <3>2, GrownJournal DEF GrownFrom
    <3>4. PICK f \in Nat, e \in Nat : f = bufs[q].flushed /\ e = drain.batches[q].end
      BY <1>0, <2>3
    <3>5. /\ f <= e /\ e <= Len(j)
          /\ drain.batches[q].rows = Rows(SubSeq(j, f + 1, e))
          /\ drain.batches[q].memo = LastMemo(SubSeq(j, f + 1, e))
      BY <1>0, <2>3, <3>3, <3>4 DEF Fits
    <3>6. SubSeq(t, f + 1, e) = SubSeq(j, f + 1, e)
      <4>1. PICK a \in Nat \ {0} : a = f + 1
        OBVIOUS
      <4>2. e <= Len(j) /\ Grows(t, j, fresh)
        BY <3>3, <3>5
      <4>3. SubSeq(t, a, e) = SubSeq(j, a, e)
        BY <4>2, StretchKept, SMTT(30)
      <4>4. QED
        BY <4>1, <4>3
    <3>7. e <= Len(t)
      BY <3>3, <3>5
    <3>8. Fits(bufs'[q], drain.batches[q])
      BY <3>3, <3>4, <3>5, <3>6, <3>7 DEF Fits
    <3>9. QED
      BY <1>4, <3>3, <3>8
  <2>4. QED
    BY <2>1, <2>2, <2>3
<1>5. ASSUME NEW p \in Paths, NEW by \in {"loop", "catchUp"}, LoadCold(p, by)
      PROVE  Holds(q)
  BY <1>5, NoFlush DEF LoadCold, Captured
<1>6. ASSUME BeginScan
      PROVE  Holds(q)
  BY <1>6, NoFlush DEF BeginScan, Captured
<1>7. ASSUME WriteTx
      PROVE  Holds(q)
  <2>1. drain \in Flushes /\ bufs' = bufs /\ drain' = [drain EXCEPT !.written = TRUE]
    BY <1>7, LockIs DEF KindInv, WriteTx, Writing
  <2>2. drain'.batches = drain.batches
    BY <2>1 DEF Flushes
  <2>3. Captured(q)' => Captured(q)
    BY <2>1, <2>2 DEF Captured
  <2>4. Ready(q)' <=> Ready(q)
    BY <2>1 DEF Ready, Buffered
  <2>5. QED
    BY <1>0, <2>1, <2>2, <2>3, <2>4
<1>8. ASSUME BeginFlush
      PROVE  Holds(q)
  <2>1. /\ bufs' = bufs
        /\ drain' = [op |-> "flush", path |-> Nobody, batches |-> Collect(Paths), written |-> FALSE]
    BY <1>8 DEF BeginFlush
  <2>2. drain'.batches = Collect(Paths)
    BY <2>1
  <2>3. Captured(q)' => Pending(q) /\ drain'.batches[q] = Batch(bufs[q])
    BY <2>2, CollectIs DEF Captured
  <2>4. Pending(q) => Ready(q) /\ Fits(bufs[q], Batch(bufs[q]))
    <3>1. ASSUME Pending(q)
          PROVE  /\ Ready(q) /\ Batch(bufs[q]).end = Len(bufs[q].journal)
                 /\ LET fresh == SubSeq(bufs[q].journal, bufs[q].flushed + 1, Len(bufs[q].journal))
                    IN  Batch(bufs[q]).rows = Rows(fresh) /\ Batch(bufs[q]).memo = LastMemo(fresh)
                 /\ bufs[q].flushed <= Len(bufs[q].journal) /\ Len(bufs[q].journal) \in Nat
      BY <3>1, BatchOf, FrontierIs, BufferIs DEF Pending, Buffered
    <3>2. QED
      BY <3>1 DEF Fits
  <2>5. Ready(q)' <=> Ready(q)
    BY <2>1 DEF Ready, Buffered
  <2>6. QED
    BY <2>1, <2>3, <2>4, <2>5
<1>9. ASSUME NEW p \in Paths, Passivate(p)
      PROVE  Holds(q)
  <2>1. /\ Pending(p) /\ Install(p, [bufs[p] EXCEPT !.drop = TRUE])
        /\ drain' = [op |-> "passivated", path |-> p, batches |-> Collect({p}), written |-> FALSE]
    BY <1>9 DEF Passivate
  <2>2. drain'.batches = Collect({p})
    BY <2>1
  <2>3. PICK only : only = {p}
    OBVIOUS
  <2>4. /\ DOMAIN Collect(only) = {x \in only : Pending(x)}
        /\ \A x \in DOMAIN Collect(only) : Collect(only)[x] = Batch(bufs[x])
    BY CollectIs
  <2>5. Captured(q)' => q = p /\ drain'.batches[p] = Batch(bufs[p])
    BY <2>2, <2>3, <2>4 DEF Captured
  <2>6. /\ Ready(p) /\ Batch(bufs[p]).end = Len(bufs[p].journal)
        /\ LET fresh == SubSeq(bufs[p].journal, bufs[p].flushed + 1, Len(bufs[p].journal))
           IN  Batch(bufs[p]).rows = Rows(fresh) /\ Batch(bufs[p]).memo = LastMemo(fresh)
        /\ bufs[p] \in BufferSet /\ bufs[p].flushed <= Len(bufs[p].journal) /\ Len(bufs[p].journal) \in Nat
    <3>1. p \in DOMAIN bufs
      BY <2>1 DEF Pending, Buffered
    <3>2. GoodBuffer(bufs[p])
      BY <3>1, FrontierIs
    <3>3. QED
      BY <2>1, <3>2, BatchOf, BufferIs DEF GoodBuffer
  <2>7. /\ p \in DOMAIN bufs' /\ bufs'[p].journal = bufs[p].journal
        /\ bufs'[p].flushed = bufs[p].flushed /\ bufs'[p].activating = bufs[p].activating
    <3>1. PICK b : b = [bufs[p] EXCEPT !.drop = TRUE]
      OBVIOUS
    <3>2. p \in DOMAIN bufs' /\ bufs'[p] = b
      BY <2>1, <3>1, InstallIs
    <3>3. /\ b.journal = bufs[p].journal /\ b.flushed = bufs[p].flushed
          /\ b.activating = bufs[p].activating
      BY <2>6, <3>1 DEF BufferSet
    <3>4. QED
      BY <3>2, <3>3
  <2>8. Ready(p)' /\ Fits(bufs'[p], Batch(bufs[p]))
    BY <2>6, <2>7 DEF Ready, Buffered, Fits
  <2>9. QED
    BY <2>5, <2>8
<1>10. QED
  BY <1>1, <1>2, <1>3, <1>4, <1>5, <1>6, <1>7, <1>8, <1>9 DEF LockStep

LEMMA InstallSame ==
  ASSUME NEW p, NEW b, Install(p, b)
  PROVE  /\ p \in DOMAIN bufs' /\ bufs'[p] = b
         /\ \A q \in Paths \ {p} : Same(q)
BY InstallIs DEF Same

LEMMA RemoveSame ==
  ASSUME NEW p, Remove(p)
  PROVE  p \notin DOMAIN bufs' /\ \A q \in Paths \ {p} : Same(q)
BY RemoveIs DEF Same

(* The callers, one path at a time.                                        *)
CallerOf(q) ==
  /\ client[q] = "leaving" => drain.op = "passivated" /\ drain.path = q
  /\ asked[q] # Nobody => client[q] = "live"
  /\ q \in DOMAIN bufs /\ bufs[q].drop => client[q] # "live"
  /\ q \notin DOMAIN bufs /\ client[q] = "live" => db[q].rows = {} /\ db[q].memo = NoMemo

HolderOf ==
  /\ drain.op = "flush" => drain.path = Nobody
  /\ drain.op = "passivated" => drain.path \in Paths /\ client[drain.path] = "leaving"
  /\ drain.op = "load" => /\ drain.path \in DOMAIN bufs
                          /\ bufs[drain.path].activating /\ ~bufs[drain.path].drop
                          /\ drain.by = "loop" => client[drain.path] = "down"

LEMMA CallerSplits == CallerInv <=> HolderOf /\ \A q \in Paths : CallerOf(q)
BY DEF CallerInv, HolderOf, CallerOf, Buffered

LEMMA GrowingCalls ==
  ASSUME KindInv, NEW p \in Paths, Growing(p), NEW a,
         asked' = asked \/ (asked' = [asked EXCEPT ![p] = a])
  PROVE  CallerInv'
<1>1. /\ HolderOf /\ \A q \in Paths : CallerOf(q)
      /\ asked \in [Paths -> {Nobody} \cup [source : Paths, seq : Nat, fact : 1 .. MaxFacts]]
      /\ DOMAIN bufs \subseteq Paths
  BY CallerSplits DEF KindInv, RestInv, BufferInv
<1>2. /\ Grown(p) /\ client[p] = "live" /\ Writable(p) /\ p \in DOMAIN bufs'
      /\ \A q \in Paths \ {p} : Same(q)
      /\ UNCHANGED <<db, drain, client>>
  BY DEF Growing, Grown
<1>3. bufs'[p].drop = BufferOf(p).drop
  BY <1>2, GrownJournal
<1>4. ~bufs'[p].drop
  <2>1. CASE Buffered(p)
    <3>1. bufs[p].drop \in BOOLEAN
      BY <2>1, BufferIs DEF Buffered, KindInv, BufferInv
    <3>2. QED
      BY <1>1, <1>2, <1>3, <2>1, <3>1 DEF BufferOf, Buffered, CallerOf
  <2>2. CASE ~Buffered(p)
    BY <1>3, <2>2, NewBufferIs DEF BufferOf
  <2>3. QED
    BY <2>1, <2>2
<1>5. \A q \in Paths \ {p} : CallerOf(q)'
  <2> SUFFICES ASSUME NEW q \in Paths \ {p}
               PROVE  CallerOf(q)'
    OBVIOUS
  <2>1. asked'[q] = asked[q]
    BY <1>1
  <2>2. CallerOf(q) /\ Same(q)
    BY <1>1, <1>2
  <2>3. QED
    BY <1>2, <2>1, <2>2 DEF CallerOf, Same
<1>6. CallerOf(p)'
  <2>1. CallerOf(p)
    BY <1>1
  <2>2. QED
    BY <1>2, <1>4, <2>1 DEF CallerOf
<1>7. HolderOf'
  <2>1. CASE drain.op = "load"
    <3>1. drain.path # p
      BY <1>1, <1>2, <2>1 DEF HolderOf, Writable, Ready, Buffered
    <3>2. Same(drain.path)
      BY <1>1, <1>2, <2>1, <3>1 DEF HolderOf
    <3>3. QED
      BY <1>1, <1>2, <2>1, <3>2 DEF HolderOf, Same
  <2>2. CASE drain.op # "load"
    BY <1>1, <1>2, <2>2 DEF HolderOf
  <2>3. QED
    BY <2>1, <2>2
<1>8. \A q \in Paths : CallerOf(q)'
  BY <1>5, <1>6
<1>9. QED
  <2>1. (HolderOf /\ \A q \in Paths : CallerOf(q))'
    BY <1>7, <1>8
  <2>2. (CallerInv <=> HolderOf /\ \A q \in Paths : CallerOf(q))'
    BY CallerSplits, PTL
  <2>3. QED
    BY <2>1, <2>2

LEMMA CallersStay ==
  ASSUME KindInv, [Next]_vars
  PROVE  CallerInv'
<1>0. /\ HolderOf /\ \A q \in Paths : CallerOf(q)
      /\ asked \in [Paths -> {Nobody} \cup [source : Paths, seq : Nat, fact : 1 .. MaxFacts]]
      /\ client \in [Paths -> {"down", "live", "leaving"}]
      /\ db \in [Paths -> TableSet]
      /\ DOMAIN bufs \subseteq Paths
      /\ LockInv /\ Nobody \notin Paths
  BY CallerSplits, DaowAssumption DEF KindInv, RestInv, BufferInv, TableInv
<1> DEFINE Goal == HolderOf' /\ \A q \in Paths : CallerOf(q)'
<1> SUFFICES Goal
  BY DEF CallerInv, HolderOf, CallerOf, Buffered
<1>1. ASSUME NEW p \in Paths,
             AppendFacts(p) \/ AskOrigin(p) \/ RecordOrigin(p) \/ AppendSnapshot(p)
      PROVE  Goal
  <2>1. \E a : asked' = asked \/ asked' = [asked EXCEPT ![p] = a]
    BY <1>1, AppendFactsGrows, AskOriginGrows, RecordOriginGrows, AppendSnapshotGrows
  <2>2. CASE Growing(p)
    <3>1. CallerInv'
      BY <2>1, <2>2, GrowingCalls
    <3>2. QED
      BY <3>1 DEF CallerInv, HolderOf, CallerOf, Buffered
  <2>3. CASE UNCHANGED <<bufs, db, drain, client>> /\ RecordOrigin(p)
    <3>1. \A q \in Paths : asked'[q] = asked[q] \/ asked'[q] = Nobody
      BY <1>0, <2>3 DEF RecordOrigin
    <3>2. HolderOf'
      BY <1>0, <2>3 DEF HolderOf
    <3>3. \A q \in Paths : CallerOf(q)'
      BY <1>0, <2>3, <3>1 DEF CallerOf
    <3>4. QED
      BY <3>2, <3>3
  <2>4. QED
    BY <1>1, <2>2, <2>3, AppendFactsGrows, AskOriginGrows, RecordOriginGrows, AppendSnapshotGrows
<1>2. ASSUME NEW p \in Paths, Leave(p)
      PROVE  Goal
  <2>1. /\ client[p] = "live" /\ client' = [client EXCEPT ![p] = "down"]
        /\ asked' = [asked EXCEPT ![p] = Nobody]
        /\ UNCHANGED <<bufs, db, drain>>
    BY <1>2 DEF Leave
  <2>2. HolderOf'
    <3>1. drain.op = "passivated" => drain.path # p
      BY <1>0, <2>1 DEF HolderOf
    <3>2. drain.op = "load" => drain.path \in Paths
      BY <1>0 DEF HolderOf
    <3>3. QED
      BY <1>0, <2>1, <3>1, <3>2 DEF HolderOf
  <2>3. \A q \in Paths : CallerOf(q)'
    BY <1>0, <2>1 DEF CallerOf
  <2>4. QED
    BY <2>2, <2>3
<1>3. ASSUME NEW p \in Paths, NEW by \in {"loop", "catchUp"}, LoadRetained(p, by)
      PROVE  Goal
  <2>1. /\ drain = Free /\ drain' = drain /\ UNCHANGED <<db, asked>>
        /\ p \in DOMAIN bufs /\ Install(p, Keep(bufs[p]))
        /\ client' = client \/ client' = [client EXCEPT ![p] = "live"]
    BY <1>3 DEF LoadRetained, MayLoad, Loaded, Ready, Buffered
  <2>2. p \in DOMAIN bufs' /\ ~bufs'[p].drop /\ \A q \in Paths \ {p} : Same(q)
    <3>1. bufs[p] \in BufferSet
      BY <2>1 DEF KindInv, BufferInv, GoodBuffer
    <3>2. ~Keep(bufs[p]).drop
      BY <3>1 DEF Keep, BufferSet
    <3>3. QED
      BY <2>1, <3>2, InstallIs DEF Same
  <2>3. HolderOf'
    BY <2>1 DEF HolderOf, Free
  <2>4. \A q \in Paths : CallerOf(q)'
    BY <1>0, <2>1, <2>2 DEF CallerOf, Same, Free
  <2>5. QED
    BY <2>3, <2>4
<1>4. ASSUME NEW p \in Paths, NEW by \in {"loop", "catchUp"}, LoadCold(p, by)
      PROVE  Goal
  <2>1. /\ drain = Free /\ UNCHANGED <<db, asked, client>>
        /\ Install(p, Placeholder)
        /\ drain' = [op |-> "load", path |-> p, by |-> by]
        /\ by = "loop" => client[p] = "down"
    BY <1>4 DEF LoadCold, MayLoad
  <2>2. /\ p \in DOMAIN bufs' /\ ~bufs'[p].drop /\ bufs'[p].activating
        /\ \A q \in Paths \ {p} : Same(q)
    <3>1. bufs'[p] = Placeholder /\ p \in DOMAIN bufs' /\ \A q \in Paths \ {p} : Same(q)
      BY <2>1, InstallSame
    <3>2. QED
      BY <3>1, NewBufferIs
  <2>3. HolderOf'
    BY <2>1, <2>2 DEF HolderOf
  <2>4. \A q \in Paths : client[q] # "leaving"
    BY <1>0, <2>1 DEF CallerOf, Free
  <2>5. \A q \in Paths : CallerOf(q)'
    BY <1>0, <2>1, <2>2, <2>4 DEF CallerOf, Same
  <2>6. QED
    BY <2>3, <2>5
<1>5. ASSUME FinishLoad \/ FailLoad
      PROVE  Goal
  <2>1. PICK p : p = drain.path
    OBVIOUS
  <2>2. /\ drain.op = "load" /\ drain' = Free /\ UNCHANGED <<db, asked>>
        /\ client' = client \/ client' = [client EXCEPT ![p] = "live"]
        /\ p \in Paths /\ p \in DOMAIN bufs /\ ~bufs[p].drop
    BY <1>0, <1>5, <2>1 DEF FinishLoad, FailLoad, Loaded, HolderOf
  <2>3. \A q \in Paths \ {p} : Same(q)
    <3>1. Remove(p) \/ Install(p, Durable(Rebuild(db[p]))) \/ bufs' = bufs
      BY <1>5, <2>1 DEF FinishLoad, FailLoad
    <3>2. CASE bufs' = bufs
      BY <3>2 DEF Same
    <3>3. CASE Install(p, Durable(Rebuild(db[p])))
      BY <3>3, InstallSame
    <3>4. QED
      BY <3>1, <3>2, <3>3, RemoveSame
  <2>4. \/ p \in DOMAIN bufs' /\ ~bufs'[p].drop
        \/ p \notin DOMAIN bufs' /\ db[p].rows = {} /\ db[p].memo = NoMemo
    <3>1. CASE FinishLoad
      <4>1. CASE db[p].rows = {} /\ db[p].memo = NoMemo
        BY <2>1, <3>1, <4>1, RemoveIs DEF FinishLoad
      <4>2. CASE ~(db[p].rows = {} /\ db[p].memo = NoMemo)
        <5>1. p \in DOMAIN bufs' /\ bufs'[p] = Durable(Rebuild(db[p]))
          BY <2>1, <3>1, <4>2, InstallIs DEF FinishLoad
        <5>2. QED
          BY <5>1 DEF Durable, Buffer
      <4>3. QED
        BY <4>1, <4>2
    <3>2. CASE FailLoad
      BY <2>2, <3>2 DEF FailLoad
    <3>3. QED
      BY <1>5, <3>1, <3>2
  <2>5. HolderOf'
    BY <2>2 DEF HolderOf, Free
  <2>6. \A q \in Paths : CallerOf(q)'
    BY <1>0, <2>2, <2>3, <2>4 DEF CallerOf, Same
  <2>7. QED
    BY <2>5, <2>6
<1>6. ASSUME BeginFlush \/ BeginScan
      PROVE  Goal
  <2>1. /\ drain = Free /\ UNCHANGED <<bufs, db, client, asked>>
        /\ drain'.op \in {"flush", "scan"} /\ (drain'.op = "flush" => drain'.path = Nobody)
    BY <1>6 DEF BeginFlush, BeginScan
  <2>2. HolderOf'
    BY <2>1 DEF HolderOf
  <2>3. \A q \in Paths : CallerOf(q)'
    BY <1>0, <2>1 DEF CallerOf, Free
  <2>4. QED
    BY <2>2, <2>3
<1>7. ASSUME NEW p \in Paths, Passivate(p)
      PROVE  Goal
  <2>1. /\ drain = Free /\ UNCHANGED <<db, asked>> /\ asked[p] = Nobody
        /\ p \in DOMAIN bufs /\ Install(p, [bufs[p] EXCEPT !.drop = TRUE])
        /\ client' = [client EXCEPT ![p] = "leaving"]
        /\ drain'.op = "passivated" /\ drain'.path = p
    BY <1>7 DEF Passivate, Pending, Buffered
  <2>2. p \in DOMAIN bufs' /\ \A q \in Paths \ {p} : Same(q)
    BY <2>1, InstallSame
  <2>3. HolderOf'
    BY <1>0, <2>1 DEF HolderOf
  <2>4. \A q \in Paths : CallerOf(q)'
    BY <1>0, <2>1, <2>2 DEF CallerOf, Same, Free
  <2>5. QED
    BY <2>3, <2>4
<1>8. ASSUME NEW p \in Paths, PassivateDurable(p)
      PROVE  Goal
  <2>1. /\ drain = Free /\ drain' = drain /\ UNCHANGED <<db, asked>> /\ asked[p] = Nobody
        /\ Remove(p)
        /\ client' = [client EXCEPT ![p] = "down"]
    BY <1>8 DEF PassivateDurable
  <2>2. \A q \in Paths \ {p} : Same(q)
    BY <2>1, RemoveIs DEF Same
  <2>3. HolderOf'
    BY <2>1 DEF HolderOf, Free
  <2>4. \A q \in Paths : CallerOf(q)'
    BY <1>0, <2>1, <2>2 DEF CallerOf, Same, Free
  <2>5. QED
    BY <2>3, <2>4
<1>9. ASSUME NEW p \in Paths, Purge(p) \/ PurgeHalf(p)
      PROVE  Goal
  <2>1. /\ drain = Free /\ drain' = drain /\ UNCHANGED <<client, asked>> /\ client[p] = "down"
        /\ \A q \in Paths \ {p} : db'[q] = db[q]
        /\ Remove(p) \/ bufs' = bufs
    BY <1>0, <1>9 DEF Purge, PurgeHalf
  <2>2. \A q \in Paths \ {p} : Same(q)
    BY <2>1, RemoveIs DEF Same
  <2>3. HolderOf'
    BY <2>1 DEF HolderOf, Free
  <2>4. \A q \in Paths : CallerOf(q)'
    BY <1>0, <2>1, <2>2 DEF CallerOf, Same
  <2>5. QED
    BY <2>3, <2>4
<1>10. ASSUME WriteTx
       PROVE  Goal
  <2>1. /\ drain \in Flushes /\ UNCHANGED <<bufs, client, asked>> /\ Store
        /\ drain' = [drain EXCEPT !.written = TRUE]
    BY <1>0, <1>10, LockIs DEF WriteTx, Writing
  <2>2. drain'.op = drain.op /\ drain'.path = drain.path /\ drain.op # "load"
    BY <2>1 DEF Flushes
  <2>3. \A q \in Paths : q \notin DOMAIN bufs => db'[q] = db[q]
    <3>1. \A q \in DOMAIN drain.batches : q \in DOMAIN bufs
      BY <2>1, BatchIs DEF Captured
    <3>2. QED
      BY <2>1, <3>1 DEF Store
  <2>4. HolderOf'
    BY <1>0, <2>1, <2>2 DEF HolderOf
  <2>5. \A q \in Paths : CallerOf(q)'
    BY <1>0, <2>1, <2>2, <2>3 DEF CallerOf
  <2>6. QED
    BY <2>4, <2>5
<1>11. ASSUME Released, drain' = Free, asked' = asked,
              drain.op \in {"flush", "passivated", "load"},
              drain.op = "load" => drain.by = "loop",
              NEW q \in Paths,
              q \in DOMAIN bufs' => q \in DOMAIN bufs /\ (bufs'[q].drop => bufs[q].drop),
              q \notin DOMAIN bufs => db'[q] = db[q],
              q \in DOMAIN bufs /\ q \notin DOMAIN bufs' => bufs[q].drop
       PROVE  CallerOf(q)'
  <2>1. client'[q] = (IF q = drain.path THEN "down" ELSE client[q]) /\ asked'[q] = asked[q]
    BY <1>11 DEF Released
  <2>2. CallerOf(q) /\ HolderOf
    BY <1>0
  <2>3. client'[q] # "leaving"
    BY <2>1, <2>2 DEF CallerOf
  <2>4. asked'[q] # Nobody => client'[q] = "live"
    <3>1. ASSUME asked[q] # Nobody
          PROVE  q # drain.path
      <4>1. client[q] = "live"
        BY <2>2, <3>1 DEF CallerOf
      <4>2. CASE drain.op = "flush"
        BY <1>0, <2>2, <4>2 DEF HolderOf
      <4>3. CASE drain.op = "passivated"
        BY <2>2, <4>1, <4>3 DEF HolderOf
      <4>4. CASE drain.op = "load"
        BY <1>11, <2>2, <4>1, <4>4 DEF HolderOf
      <4>5. QED
        BY <1>11, <4>2, <4>3, <4>4
    <3>2. QED
      BY <2>1, <2>2, <3>1 DEF CallerOf
  <2>5. q \in DOMAIN bufs' /\ bufs'[q].drop => client'[q] # "live"
    BY <1>11, <2>1, <2>2 DEF CallerOf
  <2>6. q \notin DOMAIN bufs' /\ client'[q] = "live" => db'[q].rows = {} /\ db'[q].memo = NoMemo
    BY <1>11, <2>1, <2>2 DEF CallerOf
  <2>7. QED
    BY <2>3, <2>4, <2>5, <2>6 DEF CallerOf
<1>12. ASSUME drain' = Free
       PROVE  HolderOf'
  BY <1>12 DEF HolderOf, Free
<1>13. ASSUME TxFails
       PROVE  Goal
  <2>1. /\ drain' = Free /\ Released /\ UNCHANGED <<bufs, db, asked>>
        /\ drain.op \in {"flush", "passivated", "load"} /\ drain.op # "load"
    BY <1>13 DEF TxFails, Writing
  <2>2. QED
    BY <1>11, <1>12, <2>1
<1>14. ASSUME CommitFlush
       PROVE  Goal
  <2>1. /\ drain' = Free /\ Released /\ UNCHANGED <<db, asked>>
        /\ drain.op \in {"flush", "passivated", "load"} /\ drain.op # "load"
    BY <1>14 DEF CommitFlush
  <2>2. PICK flushed : flushed = DOMAIN drain.batches \cap DOMAIN bufs
    OBVIOUS
  <2>3. PICK gone : gone = {p \in flushed : Goes(bufs[p], drain.batches[p])}
    OBVIOUS
  <2>4. bufs' = [p \in DOMAIN bufs \ gone |->
          IF p \in flushed THEN Advance(bufs[p], drain.batches[p]) ELSE bufs[p]]
    BY <1>14, <2>2, <2>3 DEF CommitFlush
  <2>5. ASSUME NEW q \in Paths
        PROVE  /\ q \in DOMAIN bufs' => q \in DOMAIN bufs /\ (bufs'[q].drop => bufs[q].drop)
               /\ q \in DOMAIN bufs /\ q \notin DOMAIN bufs' => bufs[q].drop
    <3>1. ASSUME q \in DOMAIN bufs'
          PROVE  q \in DOMAIN bufs /\ (bufs'[q].drop => bufs[q].drop)
      <4>1. q \in DOMAIN bufs /\ q \notin gone
        BY <2>4, <3>1
      <4>2. CASE q \in flushed
        <5>1. bufs[q] \in BufferSet
          BY <4>1 DEF KindInv, BufferInv, GoodBuffer
        <5>2. PICK d : d = (bufs[q].drop /\ ~(bufs[q].drop /\ drain.batches[q].drop))
          OBVIOUS
        <5>3. bufs'[q] = [bufs[q] EXCEPT !.flushed = drain.batches[q].end, !.drop = d]
          BY <2>4, <4>1, <4>2, <5>2 DEF Advance
        <5>4. bufs'[q].drop = d
          BY <5>1, <5>3 DEF BufferSet
        <5>5. QED
          BY <4>1, <5>2, <5>4
      <4>3. CASE q \notin flushed
        BY <2>4, <4>1, <4>3
      <4>4. QED
        BY <4>2, <4>3
    <3>2. ASSUME q \in DOMAIN bufs, q \notin DOMAIN bufs'
          PROVE  bufs[q].drop
      BY <2>3, <2>4, <3>2 DEF Goes
    <3>3. QED
      BY <3>1, <3>2
  <2>6. \A q \in Paths : CallerOf(q)'
    BY <1>11, <2>1, <2>5
  <2>7. QED
    BY <1>12, <2>1, <2>6
<1>15. ASSUME Abort
       PROVE  Goal
  <2>1. /\ drain' = Free /\ Released /\ UNCHANGED <<bufs, asked>>
        /\ drain.op \in {"flush", "passivated", "load"}
        /\ drain.op = "load" => drain.by = "loop"
        /\ db' = db \/ (Writing /\ Store)
    BY <1>15 DEF Abort
  <2>2. \A q \in Paths : q \notin DOMAIN bufs => db'[q] = db[q]
    <3>1. CASE db' = db
      BY <3>1
    <3>2. CASE Writing /\ Store
      <4>1. drain \in Flushes
        BY <1>0, <3>2, LockIs DEF Writing
      <4>2. \A q \in DOMAIN drain.batches : q \in DOMAIN bufs
        BY <4>1, BatchIs DEF Captured
      <4>3. QED
        BY <3>2, <4>2 DEF Store
    <3>3. QED
      BY <2>1, <3>1, <3>2
  <2>3. \A q \in Paths : CallerOf(q)'
    BY <1>11, <2>1, <2>2
  <2>4. QED
    BY <1>12, <2>1, <2>3
<1>16. ASSUME EndScan
       PROVE  Goal
  <2>1. drain.op = "scan" /\ drain' = Free /\ UNCHANGED <<bufs, db, client, asked>>
    BY <1>16 DEF EndScan
  <2>2. \A q \in Paths : CallerOf(q)'
    BY <1>0, <2>1 DEF CallerOf
  <2>3. QED
    BY <1>12, <2>1, <2>2
<1>17. ASSUME Die
       PROVE  Goal
  <2>1. /\ drain' = Free /\ DOMAIN bufs' = {}
        /\ \A q \in Paths : client'[q] = "down" /\ asked'[q] = Nobody
    BY <1>17 DEF Die
  <2>2. \A q \in Paths : CallerOf(q)'
    BY <2>1 DEF CallerOf
  <2>3. QED
    BY <1>12, <2>1, <2>2
<1>18. ASSUME UNCHANGED vars
       PROVE  Goal
  <2>1. HolderOf'
    BY <1>0, <1>18 DEF vars, HolderOf
  <2>2. \A q \in Paths : CallerOf(q)'
    BY <1>0, <1>18 DEF vars, CallerOf
  <2>3. QED
    BY <2>1, <2>2
<1>19. QED
  BY <1>1, <1>2, <1>3, <1>4, <1>5, <1>6, <1>7, <1>8, <1>9, <1>10, <1>13, <1>14, <1>15, <1>16,
     <1>17, <1>18 DEF Next, Finish

LEMMA KindsStay ==
  ASSUME KindInv, [Next]_vars
  PROVE  KindInv'
<1>1. Effects /\ Within
  BY StepEffects
<1>2. LockStep
  BY LockSteps
<1>3. BufferInv' /\ TableInv' /\ IngestInv' /\ ingest' \in Nat
  BY <1>1, BuffersStayGood, TablesStay, IngestStays
<1>4. LockInv' /\ BatchInv'
  BY <1>2, LockStays, BatchesStay
<1>5. CallerInv' /\ RestInv'
  BY <1>3, CallersStay, RestStays
<1>6. QED
  BY <1>3, <1>4, <1>5 DEF KindInv

LEMMA KindsStart == Init => KindInv
<1> SUFFICES ASSUME Init
             PROVE  KindInv
  OBVIOUS
<1> USE DEF Init
<1>1. DOMAIN bufs = {} /\ drain = Free /\ drain.op = "free"
  BY DEF Free
<1>2. BufferInv
  BY <1>1 DEF BufferInv
<1>3. TableInv
  <2>1. \A p \in Paths : db[p] = [rows |-> {}, memo |-> NoMemo]
    OBVIOUS
  <2>2. \A p \in Paths : db[p].rows = {} /\ db[p].memo = NoMemo /\ db[p] \in TableSet
    BY <2>1 DEF TableSet
  <2>3. \A p \in Paths : Table(db[p])
    BY <2>2, FS_EmptySet DEF Table, Distinct
  <2>4. QED
    BY <2>2, <2>3 DEF TableInv
<1>4. LockInv
  BY <1>1 DEF LockInv
<1>5. BatchInv
  BY <1>1, NoFlush DEF BatchInv, Captured
<1>6. RestInv
  <2>1. left \in [Rare -> Nat] /\ MaxFacts \in Nat
    BY DaowAssumption
  <2>2. /\ client \in [Paths -> {"down", "live", "leaving"}]
        /\ asked \in [Paths -> {Nobody} \cup [source : Paths, seq : Nat, fact : 1 .. MaxFacts]]
    OBVIOUS
  <2>3. ingest \in Nat /\ minted = 0 /\ halved \subseteq Paths
    OBVIOUS
  <2>4. sliced \in BOOLEAN
    OBVIOUS
  <2>5. minted \in 0 .. MaxFacts
    BY <2>1, <2>3
  <2>6. QED
    BY <2>1, <2>2, <2>3, <2>4, <2>5 DEF RestInv
<1>7. CallerInv
  BY <1>1 DEF CallerInv, Buffered
<1>8. IngestInv
  BY <1>1 DEF IngestInv
<1>9. QED
  BY <1>2, <1>3, <1>4, <1>5, <1>6, <1>7, <1>8 DEF KindInv

(* The buffers hold numbered journals, the tables numbered rows, a batch   *)
(* under way is the stretch behind its buffer's frontier (collect_pending),*)
(* the lock's holder agrees with the loop that called it, and no row is    *)
(* ahead of the next ingest_seq.                                           *)
THEOREM Kinds == Spec => []KindInv
<1>1. Init => KindInv
  BY KindsStart
<1>2. KindInv /\ [Next]_vars => KindInv'
  BY KindsStay
<1>3. QED
  BY <1>1, <1>2, PTL DEF Spec

----------------------------------------------------------------------------
(* The table has a beginning of the journal.                               *)

LEMMA BackedIs ==
  ASSUME NEW j \in Seq(Entry), NEW k \in 0 .. Len(j), NEW stored, Backed(j, stored, k)
  PROVE  /\ \E x : Stretch(x, j, 1, k) /\ stored.rows = Rows(x) /\ stored.memo = LastMemo(x)
         /\ stored.rows \subseteq Rows(j)
         /\ k = Len(j) => stored.rows = Rows(j) /\ stored.memo = LastMemo(j)
<1>0. Len(j) \in Nat /\ k \in Nat /\ k <= Len(j)
  BY LenProperties
<1>1. PICK one \in Nat \ {0} : one = 1
  OBVIOUS
<1>2. PICK x : x = SubSeq(j, one, k)
  OBVIOUS
<1>3. Stretch(x, j, one, k)
  BY <1>0, <1>2, SubSeqStretch
<1>4. stored.rows = Rows(x) /\ stored.memo = LastMemo(x)
  BY <1>1, <1>2 DEF Backed
<1>5. Stretch(x, j, 1, k)
  BY <1>1, <1>3
<1>6. Rows(x) \subseteq Rows(j)
  BY <1>5, BeginningIs
<1>7. ASSUME k = Len(j)
      PROVE  x = j
  <2>1. Stretch(j, j, one, k)
    BY <1>1, <1>7, StretchWhole
  <2>2. QED
    BY <1>0, <1>3, <2>1, StretchUnique
<1>8. QED
  BY <1>4, <1>5, <1>6, <1>7

LEMMA StretchBacks ==
  ASSUME NEW j \in Seq(Entry), NEW k \in 0 .. Len(j), NEW x, Stretch(x, j, 1, k),
         NEW stored, stored.rows = Rows(x), stored.memo = LastMemo(x)
  PROVE  Backed(j, stored, k)
<1>0. Len(j) \in Nat /\ k \in Nat /\ k <= Len(j)
  BY LenProperties
<1>1. PICK one \in Nat \ {0} : one = 1
  OBVIOUS
<1>2. PICK y : y = SubSeq(j, one, k)
  OBVIOUS
<1>3. Stretch(y, j, one, k) /\ Stretch(x, j, one, k)
  BY <1>0, <1>1, <1>2, SubSeqStretch
<1>4. x = y
  BY <1>0, <1>3, StretchUnique
<1>5. QED
  BY <1>1, <1>2, <1>4 DEF Backed

LEMMA BackedGrows ==
  ASSUME NEW j \in Seq(Entry), NEW fresh \in Seq(Entry), NEW t, Grows(t, j, fresh),
         NEW k \in 0 .. Len(j), NEW stored, Backed(j, stored, k)
  PROVE  Backed(t, stored, k)
<1>0. k \in Nat /\ k <= Len(j)
  BY LenProperties
<1>1. PICK one \in Nat \ {0} : one = 1
  OBVIOUS
<1>2. SubSeq(t, one, k) = SubSeq(j, one, k)
  BY <1>0, StretchKept
<1>3. SubSeq(t, 1, k) = SubSeq(j, 1, k)
  BY <1>1, <1>2
<1>4. QED
  BY <1>3 DEF Backed

(* Such a table can be rebuilt.                                            *)
LEMMA BackedWhole ==
  ASSUME NEW j \in Seq(Entry), Ranked(j), Anchored(j), Ascending(j), Numbered(Rows(j)),
         Cardinality(Rows(j)) \in Nat,
         NEW k \in 0 .. Len(j), NEW stored, Backed(j, stored, k)
  PROVE  Whole(stored)
<1>1. PICK x : Stretch(x, j, 1, k) /\ stored.rows = Rows(x) /\ stored.memo = LastMemo(x)
  BY BackedIs
<1>2. /\ x \in Seq(Entry) /\ Anchored(x) /\ Ascending(x)
      /\ Numbered(Rows(x))
  BY <1>1, BeginningIs, BeginningNumbered
<1>3. Tops(LastMemo(x), x)
  BY <1>2, LastMemoIs
<1>4. ASSUME LastMemo(x) # NoMemo
      PROVE  \E r \in Rows(x) : r.seq = LastMemo(x)
  <2>1. PICK i \in Memos(x) : x[i].memo = LastMemo(x)
    BY <1>3, <1>4 DEF Tops
  <2>2. PICK h \in Places(x) : x[h].seq = x[i].memo
    BY <1>2, <2>1 DEF Anchored
  <2>3. x[h] \in Rows(x)
    BY <1>2, JournalIs
  <2>4. QED
    BY <2>1, <2>2, <2>3
<1>5. QED
  BY <1>1, <1>2, <1>4 DEF Whole

(* A stretch that begins no later than the table ends is written.          *)
LEMMA BackedJoin ==
  ASSUME NEW j \in Seq(Entry), Ascending(j),
         NEW k \in 0 .. Len(j), NEW stored, Backed(j, stored, k),
         NEW f \in 0 .. k, NEW e \in Nat, f <= e, e <= Len(j),
         NEW y, Stretch(y, j, f + 1, e),
         NEW new, new.rows = stored.rows \cup Rows(y),
         new.memo = IF LastMemo(y) > stored.memo THEN LastMemo(y) ELSE stored.memo
  PROVE  \E m \in 0 .. Len(j) : e <= m /\ Backed(j, new, m)
<1>0. Len(j) \in Nat /\ k \in Nat /\ f \in Nat /\ f <= k /\ k <= Len(j)
  BY LenProperties
<1>1. PICK x : Stretch(x, j, 1, k) /\ stored.rows = Rows(x) /\ stored.memo = LastMemo(x)
  BY BackedIs
<1>2. PICK m : m = (IF e > k THEN e ELSE k)
  OBVIOUS
<1>3. m \in 0 .. Len(j) /\ m \in Nat /\ m <= Len(j) /\ e <= m
  BY <1>0, <1>2
<1>4. PICK one \in Nat \ {0} : one = 1
  OBVIOUS
<1>5. PICK z : z = SubSeq(j, one, m)
  OBVIOUS
<1>6. Stretch(z, j, 1, m)
  BY <1>3, <1>4, <1>5, SubSeqStretch
<1>7. /\ Rows(z) = Rows(x) \cup Rows(y)
      /\ LastMemo(z) = IF LastMemo(y) > LastMemo(x) THEN LastMemo(y) ELSE LastMemo(x)
  BY <1>0, <1>1, <1>2, <1>6, StretchesJoin
<1>8. new.rows = Rows(z) /\ new.memo = LastMemo(z)
  BY <1>1, <1>7
<1>9. Backed(j, new, m)
  BY <1>3, <1>6, <1>8, StretchBacks
<1>10. QED
  BY <1>3, <1>9

LEMMA NothingBacked ==
  ASSUME NEW stored, stored.rows = {}, stored.memo = NoMemo
  PROVE  Backed(<<>>, stored, 0) /\ Whole(stored)
<1>1. PICK none \in Seq(Entry) :
        none = <<>> /\ Len(none) = 0 /\ Rows(none) = {} /\ LastMemo(none) = NoMemo
  BY EmptyJournal
<1>2. Stretch(none, none, 1, 0) /\ 0 \in 0 .. Len(none)
  <2>1. Stretch(none, none, 1, Len(none))
    BY StretchWhole
  <2>2. QED
    BY <1>1, <2>1
<1>3. Backed(none, stored, 0)
  BY <1>1, <1>2, StretchBacks
<1>4. Whole(stored)
  BY EmptyJournal DEF Whole
<1>5. QED
  BY <1>1, <1>3, <1>4

(* A table that was rebuilt backs its journal to the end.                  *)
LEMMA RebuiltBacks ==
  ASSUME NEW stored, Table(stored), Whole(stored), NEW j, j = Rebuild(stored)
  PROVE  /\ j \in Seq(Entry) /\ Anchored(j) /\ Ascending(j) /\ Len(j) \in Nat
         /\ Rows(j) = stored.rows /\ Backed(j, stored, Len(j))
<1>1. /\ j \in Seq(Entry) /\ Rows(j) = stored.rows /\ Anchored(j) /\ Ascending(j)
      /\ LastMemo(j) = stored.memo
  BY RebuildIs
<1>2. Stretch(j, j, 1, Len(j)) /\ Len(j) \in Nat /\ Len(j) \in 0 .. Len(j)
  BY <1>1, StretchWhole, LenProperties
<1>3. QED
  BY <1>1, <1>2, StretchBacks

----------------------------------------------------------------------------
(* What a load of the path answers.                                        *)

LEMMA AnswerIs ==
  ASSUME KindInv, NEW q \in Paths, Steady(q)
  PROVE  /\ AnswerRows(q) \subseteq Row /\ Numbered(AnswerRows(q))
         /\ Cardinality(AnswerRows(q)) \in Nat
         /\ db[q].rows \subseteq AnswerRows(q)
         /\ Ready(q) => AnswerRows(q) = Rows(bufs[q].journal)
         /\ ~Ready(q) => AnswerRows(q) = db[q].rows
<1>1. CASE Ready(q)
  <2>1. PICK j : j = bufs[q].journal
    OBVIOUS
  <2>2. q \in DOMAIN bufs /\ GoodBuffer(bufs[q])
    BY <1>1, FrontierIs DEF Ready, Buffered
  <2>3. j \in Seq(Entry) /\ Rows(j) \subseteq Row /\ Numbered(Rows(j)) /\ Cardinality(Rows(j)) \in Nat
    BY <2>1, <2>2, BufferIs DEF GoodBuffer, NextSeq
  <2>4. PICK k \in 0 .. Len(j) : Backed(j, db[q], k)
    BY <1>1, <2>1 DEF Steady
  <2>5. db[q].rows \subseteq Rows(j)
    BY <2>3, <2>4, BackedIs
  <2>6. AnswerRows(q) = Rows(j)
    BY <1>1, <2>1 DEF AnswerRows, Answer
  <2>7. QED
    BY <1>1, <2>1, <2>3, <2>5, <2>6
<1>2. CASE ~Ready(q)
  <2>1. PICK j : j = Rebuild(db[q])
    OBVIOUS
  <2>2. Table(db[q]) /\ Whole(db[q])
    BY DEF KindInv, TableInv, Steady
  <2>3. Rows(j) = db[q].rows
    BY <2>1, <2>2, RebuiltBacks
  <2>4. AnswerRows(q) = db[q].rows
    BY <1>2, <2>1, <2>3 DEF AnswerRows, Answer
  <2>5. Cardinality(db[q].rows) \in Nat
    BY <2>2, FS_CardinalityType DEF Table
  <2>6. QED
    BY <1>2, <2>2, <2>4, <2>5 DEF Table, Whole
<1>3. QED
  BY <1>1, <1>2

LEMMA NextAnswer ==
  ASSUME NEW q, Table(db'[q]), Whole(db'[q])
  PROVE  /\ Ready(q)' => AnswerRows(q)' = Rows(bufs'[q].journal)
         /\ ~Ready(q)' => AnswerRows(q)' = db'[q].rows
<1>1. Ready(q)' => AnswerRows(q)' = Rows(bufs'[q].journal)
  BY DEF AnswerRows, Answer
<1>2. PICK stored : stored = db'[q]
  OBVIOUS
<1>3. PICK j : j = Rebuild(stored)
  OBVIOUS
<1>4. Rows(j) = stored.rows
  BY <1>2, <1>3, RebuiltBacks
<1>5. ~Ready(q)' => AnswerRows(q)' = Rows(j)
  BY <1>2, <1>3 DEF AnswerRows, Answer
<1>6. QED
  BY <1>1, <1>2, <1>4, <1>5

(* How the answer and the table of a path change.                          *)
Still(q) == AnswerRows(q)' = AnswerRows(q) /\ db'[q].rows = db[q].rows

Longer(q, rows) ==
  /\ AnswerRows(q)' = AnswerRows(q) \cup rows /\ db'[q].rows = db[q].rows
  /\ Late(rows, Cardinality(AnswerRows(q)))

Saved(q) ==
  /\ Captured(q)
  /\ AnswerRows(q)' = AnswerRows(q) /\ db'[q].rows = db[q].rows \cup drain.batches[q].rows

Cleared(q) == AnswerRows(q)' = {} /\ db'[q].rows = {} /\ q \notin DOMAIN bufs'

CutOff(q) == AnswerRows(q)' = db[q].rows /\ db'[q].rows = db[q].rows

LEMMA FrontierNat == KindInv => \A q \in DOMAIN bufs : Frontier(q) \in Nat
BY FrontierIs

LEMMA NextFrontier ==
  ASSUME KindInv'
  PROVE  \A q \in DOMAIN bufs' : Frontier(q)' \in Nat
<1>1. (KindInv => \A q \in DOMAIN bufs : Frontier(q) \in Nat)'
  BY FrontierNat, PTL
<1>2. QED
  BY <1>1

LEMMA KeptSteady ==
  ASSUME KindInv, KindInv', NEW q \in Paths, Steady(q), Kept(q)
  PROVE  Steady(q)' /\ Still(q)
<1>1. db'[q] = db[q] /\ Table(db'[q]) /\ Whole(db'[q])
  BY DEF Kept, Steady, KindInv, TableInv
<1>2. CASE q \notin DOMAIN bufs
  <2>1. ~Ready(q) /\ ~Ready(q)'
    BY <1>2 DEF Kept, Ready, Buffered
  <2>2. QED
    BY <1>1, <2>1, AnswerIs, NextAnswer DEF Steady, Still
<1>3. CASE q \in DOMAIN bufs
  <2>1. bufs'[q].journal = bufs[q].journal /\ (Ready(q)' <=> Ready(q))
    BY <1>3, KeptBuffer
  <2>2. Frontier(q)' <= Frontier(q)
    BY <1>3 DEF Kept
  <2>3. Still(q)
    BY <1>1, <2>1, AnswerIs, NextAnswer DEF Still
  <2>4. CASE Ready(q)
    <3>1. PICK j : j = bufs[q].journal
      OBVIOUS
    <3>2. PICK k \in 0 .. Len(j) : Frontier(q) <= k /\ Backed(j, db[q], k)
      BY <2>4, <3>1 DEF Steady
    <3>3. Frontier(q) \in Nat /\ Frontier(q)' \in Int /\ k \in Int
      <4>1. Frontier(q) \in Nat /\ Len(j) \in Nat
        BY <1>3, <3>1, FrontierIs
      <4>2. Frontier(q)' \in Nat
        BY <1>3, NextFrontier DEF Kept
      <4>3. QED
        BY <4>1, <4>2
    <3>4. QED
      BY <1>1, <2>1, <2>2, <2>3, <3>1, <3>2, <3>3 DEF Steady
  <2>5. CASE ~Ready(q)
    BY <1>1, <2>1, <2>3, <2>5 DEF Steady
  <2>6. QED
    BY <2>4, <2>5
<1>4. QED
  BY <1>2, <1>3

LEMMA GrownSteady ==
  ASSUME KindInv, KindInv', NEW q \in Paths, Steady(q), Grown(q)
  PROVE  Steady(q)' /\ \E rows : Longer(q, rows)
<1>1. db'[q] = db[q] /\ Table(db'[q]) /\ Whole(db'[q]) /\ Writable(q) /\ client[q] = "live"
      /\ q \in DOMAIN bufs'
  BY DEF Grown, Steady, KindInv, TableInv
<1>2. PICK j \in Seq(Entry), t \in Seq(Entry), fresh \in Seq(Entry) : GrownFrom(q, j, t, fresh)
  BY GrownJournal
<1>3. /\ j = BufferOf(q).journal /\ t = bufs'[q].journal
      /\ Grows(t, j, fresh) /\ Len(j) \in Nat /\ Len(t) \in Nat /\ Len(j) <= Len(t)
      /\ Rows(t) = Rows(j) \cup Rows(fresh)
      /\ Late(Rows(fresh), NextSeq(j))
      /\ Anchored(j) /\ Ascending(j) => Anchored(t) /\ Ascending(t)
  BY <1>2 DEF GrownFrom
<1>4. Ready(q)'
  BY GrownJournal
<1>5. /\ AnswerRows(q) = Rows(j) /\ Anchored(j) /\ Ascending(j)
      /\ \E k \in 0 .. Len(j) : Frontier(q)' <= k /\ Backed(j, db[q], k)
  <2>1. CASE Buffered(q)
    <3>1. Ready(q) /\ BufferOf(q) = bufs[q] /\ Frontier(q)' = Frontier(q)
      BY <1>1, <2>1 DEF Writable, BufferOf, Grown
    <3>2. QED
      BY <1>3, <3>1, AnswerIs DEF Steady
  <2>2. CASE ~Buffered(q)
    <3>1. BufferOf(q) = NewBuffer /\ Frontier(q)' = 0 /\ ~Ready(q)
      BY <2>2 DEF BufferOf, Grown, Ready
    <3>2. db[q].rows = {} /\ db[q].memo = NoMemo
      BY <1>1, <2>2 DEF KindInv, CallerInv
    <3>3. j = <<>>
      BY <1>3, <3>1, NewBufferIs
    <3>4. AnswerRows(q) = {}
      BY <3>1, <3>2, AnswerIs
    <3>5. Rows(j) = {} /\ Anchored(j) /\ Ascending(j)
      BY <3>3, EmptyJournal
    <3>6. PICK stored : stored = db[q]
      OBVIOUS
    <3>7. Backed(<<>>, stored, 0)
      BY <3>2, <3>6, NothingBacked
    <3>8. Backed(j, db[q], 0) /\ 0 \in 0 .. Len(j)
      BY <1>3, <3>3, <3>6, <3>7
    <3>9. Frontier(q)' <= 0
      BY <3>1
    <3>10. QED
      BY <3>4, <3>5, <3>8, <3>9
  <2>3. QED
    BY <2>1, <2>2
<1>6. PICK k \in 0 .. Len(j) : Frontier(q)' <= k /\ Backed(j, db[q], k)
  BY <1>5
<1>7. PICK stored : stored = db[q]
  OBVIOUS
<1>8. Backed(t, stored, k)
  BY <1>3, <1>6, <1>7, BackedGrows
<1>9. k \in 0 .. Len(t)
  BY <1>3, <1>6
<1>10. Steady(q)'
  BY <1>1, <1>3, <1>5, <1>6, <1>7, <1>8, <1>9 DEF Steady
<1>11. AnswerRows(q)' = AnswerRows(q) \cup Rows(fresh)
  BY <1>1, <1>3, <1>4, <1>5, NextAnswer
<1>12. Late(Rows(fresh), Cardinality(AnswerRows(q)))
  BY <1>3, <1>5 DEF NextSeq
<1>13. Longer(q, Rows(fresh))
  BY <1>1, <1>11, <1>12 DEF Longer
<1>14. QED
  BY <1>10, <1>13

LEMMA ColdSteady ==
  ASSUME KindInv, KindInv', NEW q \in Paths, Steady(q), Cold(q)
  PROVE  Steady(q)' /\ Still(q)
<1>1. db'[q] = db[q] /\ Table(db'[q]) /\ Whole(db'[q]) /\ ~Ready(q)
  BY DEF Cold, Steady, KindInv, TableInv
<1>2. ~Ready(q)'
  BY NewBufferIs DEF Cold, Ready, Buffered
<1>3. QED
  BY <1>1, <1>2, AnswerIs, NextAnswer DEF Steady, Still

LEMMA OpenedSteady ==
  ASSUME KindInv, KindInv', NEW q \in Paths, Steady(q), Opened(q)
  PROVE  Steady(q)' /\ Still(q)
<1>1. db'[q] = db[q] /\ Table(db'[q]) /\ Whole(db'[q]) /\ ~Ready(q)
  BY DEF Opened, Steady, KindInv, TableInv
<1>2. Ready(q)' /\ bufs'[q].journal = Rebuild(db[q])
  BY OpenedJournal
<1>3. PICK stored : stored = db[q]
  OBVIOUS
<1>4. PICK j : j = Rebuild(stored)
  OBVIOUS
<1>5. /\ j \in Seq(Entry) /\ Anchored(j) /\ Ascending(j) /\ Len(j) \in Nat
      /\ Rows(j) = stored.rows /\ Backed(j, stored, Len(j))
  BY <1>1, <1>3, <1>4, RebuiltBacks
<1>6. bufs'[q].journal = j /\ Frontier(q)' = Len(j)
  BY <1>2, <1>3, <1>4 DEF Opened
<1>7. Len(j) \in 0 .. Len(j) /\ Frontier(q)' <= Len(j)
  BY <1>5, <1>6
<1>8. Steady(q)'
  BY <1>1, <1>3, <1>5, <1>6, <1>7 DEF Steady
<1>9. AnswerRows(q)' = db[q].rows
  BY <1>1, <1>2, <1>3, <1>5, <1>6, NextAnswer
<1>10. QED
  BY <1>1, <1>8, <1>9, AnswerIs DEF Still

LEMMA ClosedSteady ==
  ASSUME KindInv, KindInv', NEW q \in Paths, Steady(q), Closed(q)
  PROVE  Steady(q)' /\ Still(q)
<1>1. db'[q] = db[q] /\ Table(db'[q]) /\ Whole(db'[q]) /\ Ready(q)
      /\ Frontier(q) = Len(bufs[q].journal)
  BY DEF Closed, Steady, KindInv, TableInv
<1>2. ~Ready(q)'
  BY DEF Closed, Ready, Buffered
<1>3. PICK j : j = bufs[q].journal
  OBVIOUS
<1>4. j \in Seq(Entry) /\ Len(j) \in Nat
  <2>1. GoodBuffer(bufs[q])
    BY <1>1, FrontierIs DEF Ready, Buffered
  <2>2. QED
    BY <1>3, <2>1, BufferIs
<1>5. PICK k \in 0 .. Len(j) : Len(j) <= k /\ Backed(j, db[q], k)
  BY <1>1, <1>3 DEF Steady
<1>6. k = Len(j)
  BY <1>4, <1>5
<1>7. db[q].rows = Rows(j)
  BY <1>4, <1>5, <1>6, BackedIs
<1>8. QED
  BY <1>1, <1>2, <1>3, <1>7, AnswerIs, NextAnswer DEF Steady, Still

LEMMA WrittenSteady ==
  ASSUME KindInv, KindInv', NEW q \in Paths, Steady(q), Written(q)
  PROVE  Steady(q)' /\ Saved(q)
<1>1. /\ Captured(q) /\ Table(db'[q])
      /\ db'[q].rows = db[q].rows \cup drain.batches[q].rows
      /\ db'[q].memo = IF drain.batches[q].memo > db[q].memo
                       THEN drain.batches[q].memo ELSE db[q].memo
      /\ q \in DOMAIN bufs' /\ bufs'[q] = bufs[q]
      /\ Frontier(q)' <= drain.batches[q].end
  <2>1. /\ Captured(q) /\ q \in DOMAIN bufs' /\ bufs'[q] = bufs[q]
        /\ Frontier(q)' <= drain.batches[q].end
    BY DEF Written
  <2>2. db'[q] = [rows |-> db[q].rows \cup drain.batches[q].rows,
                  memo |-> IF drain.batches[q].memo > db[q].memo
                           THEN drain.batches[q].memo ELSE db[q].memo]
    BY DEF Written
  <2>3. Table(db'[q]) /\ db'[q].rows = db[q].rows \cup drain.batches[q].rows
    BY WrittenTable
  <2>4. db'[q].memo = IF drain.batches[q].memo > db[q].memo
                      THEN drain.batches[q].memo ELSE db[q].memo
    BY <2>2
  <2>5. QED
    BY <2>1, <2>3, <2>4
<1>2. /\ q \in DOMAIN bufs /\ Ready(q) /\ drain.batches[q].end \in Nat
      /\ bufs[q].flushed \in Nat /\ bufs[q].flushed <= drain.batches[q].end
      /\ drain.batches[q].end <= Len(bufs[q].journal)
      /\ drain.batches[q].rows \subseteq Rows(bufs[q].journal)
  BY <1>1, BatchIs
<1>3. PICK j : j = bufs[q].journal
  OBVIOUS
<1>4. PICK f \in Nat, e \in Nat : f = bufs[q].flushed /\ e = drain.batches[q].end
  BY <1>2
<1>5. PICK y : /\ Stretch(y, j, f + 1, e)
               /\ drain.batches[q].rows = Rows(y) /\ drain.batches[q].memo = LastMemo(y)
  BY <1>1, <1>3, <1>4, BatchIs
<1>6. PICK stored : stored = db[q]
  OBVIOUS
<1>7. PICK new : new = db'[q]
  OBVIOUS
<1>8. /\ j \in Seq(Entry) /\ Len(j) \in Nat /\ Ranked(j) /\ Numbered(Rows(j))
      /\ Cardinality(Rows(j)) \in Nat
  <2>1. GoodBuffer(bufs[q])
    BY <1>2, FrontierIs
  <2>2. QED
    BY <1>3, <2>1, BufferIs DEF GoodBuffer, NextSeq
<1>9. Anchored(j) /\ Ascending(j)
  BY <1>2, <1>3 DEF Steady
<1>10. PICK k \in 0 .. Len(j) : Frontier(q) <= k /\ Backed(j, stored, k)
  BY <1>2, <1>3, <1>6 DEF Steady
<1>11. f \in 0 .. k /\ f <= e /\ e <= Len(j)
  <2>1. f <= Frontier(q) /\ Frontier(q) \in Nat
    BY <1>2, <1>4, FrontierIs
  <2>2. k \in Nat
    BY <1>8, <1>10
  <2>3. f <= k
    BY <1>10, <2>1, <2>2
  <2>4. f \in 0 .. k
    BY <2>2, <2>3
  <2>5. QED
    BY <1>2, <1>3, <1>4, <2>4
<1>12. /\ new.rows = stored.rows \cup Rows(y)
       /\ new.memo = IF LastMemo(y) > stored.memo THEN LastMemo(y) ELSE stored.memo
  BY <1>1, <1>5, <1>6, <1>7
<1>13. PICK m \in 0 .. Len(j) : e <= m /\ Backed(j, new, m)
  <2>1. Ascending(j) /\ j \in Seq(Entry)
    BY <1>8, <1>9
  <2>2. k \in 0 .. Len(j) /\ Backed(j, stored, k)
    BY <1>10
  <2>3. f \in 0 .. k /\ e \in Nat /\ f <= e /\ e <= Len(j)
    BY <1>11
  <2>4. Stretch(y, j, f + 1, e)
    BY <1>5
  <2>5. new.rows = stored.rows \cup Rows(y)
    BY <1>12
  <2>6. new.memo = IF LastMemo(y) > stored.memo THEN LastMemo(y) ELSE stored.memo
    BY <1>12
  <2>7. QED
    BY <2>1, <2>2, <2>3, <2>4, <2>5, <2>6, BackedJoin
<1>14. Whole(new)
  BY <1>8, <1>9, <1>13, BackedWhole
<1>15. Ready(q)' /\ bufs'[q].journal = j
  BY <1>1, <1>2, <1>3 DEF Ready, Buffered
<1>16. Frontier(q)' <= m
  <2>1. Frontier(q)' \in Nat /\ m \in Nat
    BY <1>1, <1>8, <1>13, NextFrontier
  <2>2. QED
    BY <1>1, <1>4, <1>13, <2>1
<1>17. Steady(q)'
  BY <1>7, <1>9, <1>13, <1>14, <1>15, <1>16 DEF Steady
<1>18. AnswerRows(q)' = Rows(j) /\ AnswerRows(q) = Rows(j)
  BY <1>1, <1>2, <1>3, <1>7, <1>14, <1>15, AnswerIs, NextAnswer
<1>19. QED
  BY <1>1, <1>17, <1>18 DEF Saved

LEMMA EmptiedSteady ==
  ASSUME KindInv', NEW q \in Paths, Emptied(q)
  PROVE  Steady(q)' /\ Cleared(q)
<1>1. /\ db'[q].rows = {} /\ db'[q].memo = NoMemo /\ ~Ready(q)' /\ Table(db'[q])
      /\ q \notin DOMAIN bufs'
  BY DEF Emptied, Ready, Buffered, KindInv, TableInv
<1>2. PICK new : new = db'[q]
  OBVIOUS
<1>3. Whole(new)
  BY <1>1, <1>2, NothingBacked
<1>4. QED
  BY <1>1, <1>2, <1>3, NextAnswer DEF Steady, Cleared

LEMMA LostSteady ==
  ASSUME KindInv, KindInv', NEW q \in Paths, Steady(q), Lost(q)
  PROVE  Steady(q)' /\ CutOff(q)
<1>1. db'[q] = db[q] /\ ~Ready(q)' /\ Table(db'[q]) /\ Whole(db'[q])
  BY DEF Lost, Ready, Buffered, KindInv, TableInv, Steady
<1>2. QED
  BY <1>1, NextAnswer DEF Steady, CutOff

(* What a step does to the sound paths.                                    *)
Lengthens(p) ==
  /\ Growing(p)
  /\ \A q \in Sound' : /\ q \in Sound
                       /\ IF q = p THEN \E rows : Longer(q, rows) ELSE Still(q)

Settles ==
  /\ Settling
  /\ \A q \in Sound' : Cleared(q) \/ (q \in Sound /\ (Still(q) \/ Saved(q)))

CutsOff ==
  /\ Dying
  /\ \A q \in Sound' : q \in Sound /\ CutOff(q)

Moves == (\E p \in Paths : Lengthens(p)) \/ Settles \/ CutsOff

LEMMA SettledSteady ==
  ASSUME KindInv, KindInv', SteadyInv, NEW q \in Sound', Settled(q)
  PROVE  Steady(q)' /\ (Cleared(q) \/ (q \in Sound /\ (Still(q) \/ Saved(q))))
<1>0. q \in Paths /\ q \notin halved'
  BY DEF Sound
<1>1. CASE Emptied(q)
  BY <1>0, <1>1, EmptiedSteady
<1>2. CASE ~Emptied(q)
  <2>1. q \in Sound
    BY <1>0, <1>2 DEF Settled, Sound
  <2>2. Steady(q)
    BY <2>1 DEF SteadyInv
  <2>3. Kept(q) \/ Cold(q) \/ Opened(q) \/ Closed(q) \/ Written(q)
    BY <1>0, <1>2 DEF Settled, Halved
  <2>4. CASE Kept(q)
    BY <1>0, <2>1, <2>2, <2>4, KeptSteady
  <2>5. CASE Cold(q)
    BY <1>0, <2>1, <2>2, <2>5, ColdSteady
  <2>6. CASE Opened(q)
    BY <1>0, <2>1, <2>2, <2>6, OpenedSteady
  <2>7. CASE Closed(q)
    BY <1>0, <2>1, <2>2, <2>7, ClosedSteady
  <2>8. CASE Written(q)
    BY <1>0, <2>1, <2>2, <2>8, WrittenSteady
  <2>9. QED
    BY <2>3, <2>4, <2>5, <2>6, <2>7, <2>8
<1>3. QED
  BY <1>1, <1>2

LEMMA SteadyStays ==
  ASSUME KindInv, KindInv', SteadyInv, Effects
  PROVE  SteadyInv' /\ Moves
<1>1. CASE \E p \in Paths : Growing(p)
  <2>1. PICK p \in Paths : Growing(p)
    BY <1>1
  <2>2. Sound' = Sound
    BY <2>1 DEF Growing, Sound
  <2>3. ASSUME NEW q \in Sound'
        PROVE  Steady(q)' /\ (IF q = p THEN \E rows : Longer(q, rows) ELSE Still(q))
    <3>1. q \in Paths /\ Steady(q)
      BY <2>2, <2>3 DEF SteadyInv, Sound
    <3>2. CASE q = p
      BY <2>1, <3>1, <3>2, GrownSteady DEF Growing
    <3>3. CASE q # p
      <4>1. Kept(q)
        BY <2>1, <3>1, <3>3 DEF Growing
      <4>2. QED
        BY <3>1, <3>3, <4>1, KeptSteady
    <3>4. QED
      BY <3>2, <3>3
  <2>4. QED
    BY <2>1, <2>2, <2>3 DEF SteadyInv, Moves, Lengthens
<1>2. CASE Settling
  <2>1. ASSUME NEW q \in Sound'
        PROVE  Steady(q)' /\ (Cleared(q) \/ (q \in Sound /\ (Still(q) \/ Saved(q))))
    <3>1. Settled(q)
      BY <1>2, <2>1 DEF Settling, Sound
    <3>2. QED
      BY <3>1, SettledSteady
  <2>2. QED
    BY <1>2, <2>1 DEF SteadyInv, Moves, Settles
<1>3. CASE Dying
  <2>1. Sound' = Sound
    BY <1>3 DEF Dying, Sound
  <2>2. ASSUME NEW q \in Sound'
        PROVE  Steady(q)' /\ CutOff(q)
    <3>1. q \in Paths /\ Steady(q)
      BY <2>1, <2>2 DEF SteadyInv, Sound
    <3>2. Lost(q)
      BY <1>3, <3>1 DEF Dying
    <3>3. QED
      BY <3>1, <3>2, LostSteady
  <2>3. QED
    BY <1>3, <2>1, <2>2 DEF SteadyInv, Moves, CutsOff
<1>4. QED
  BY <1>1, <1>2, <1>3 DEF Effects

LEMMA SteadyStart == Init => SteadyInv
<1> SUFFICES ASSUME Init PROVE SteadyInv
  OBVIOUS
<1>1. ASSUME NEW q \in Sound PROVE Steady(q)
  <2>1. db[q].rows = {} /\ db[q].memo = NoMemo /\ ~Ready(q)
    BY <1>1 DEF Init, Sound, Ready, Buffered
  <2>2. PICK stored : stored = db[q]
    OBVIOUS
  <2>3. Whole(stored)
    BY <2>1, <2>2, NothingBacked
  <2>4. QED
    BY <2>1, <2>2, <2>3 DEF Steady
<1>2. QED
  BY <1>1 DEF SteadyInv

LEMMA BehindBacked ==
  ASSUME NEW j \in Seq(Entry), Ascending(j),
         NEW k \in 0 .. Len(j), NEW stored, Backed(j, stored, k),
         NEW f \in 0 .. k, NEW behind, Stretch(behind, j, 1, f)
  PROVE  /\ Rows(behind) \subseteq stored.rows
         /\ LastMemo(behind) <= stored.memo
<1>0. Len(j) \in Nat /\ k \in Nat /\ f \in Nat /\ f <= k /\ k <= Len(j) /\ f <= Len(j)
  BY LenProperties
<1>1. PICK x : Stretch(x, j, 1, k) /\ stored.rows = Rows(x) /\ stored.memo = LastMemo(x)
  BY BackedIs
<1>2. PICK one \in Nat \ {0} : one = 1
  OBVIOUS
<1>3. PICK none \in Nat : none = 0
  OBVIOUS
<1>4. Stretch(behind, j, one, f)
  BY <1>2
<1>5. Rows(behind) = Between(j, one, f) /\ Rows(x) = Between(j, one, k)
  BY <1>0, <1>1, <1>2, <1>4, StretchRows
<1>6. Between(j, one, f) \subseteq Between(j, one, k)
  <2>1. \A i \in Places(j) : i \in Int
    BY JournalIs
  <2>2. QED
    BY <1>0, <1>2, <2>1 DEF Between
<1>7. Stretch(behind, j, none + 1, f)
  BY <1>2, <1>3, <1>4
<1>8. PICK m : m = (IF f > k THEN f ELSE k)
  OBVIOUS
<1>9. LastMemo(x) = IF LastMemo(behind) > LastMemo(x) THEN LastMemo(behind) ELSE LastMemo(x)
  <2>1. m = k
    BY <1>0, <1>8
  <2>2. Stretch(x, j, 1, k)
    BY <1>1
  <2>3. Stretch(x, j, 1, m)
    BY <2>1, <2>2
  <2>4. none <= k /\ none <= f /\ none \in Nat
    BY <1>0, <1>3
  <2>5. QED
    BY <1>0, <1>7, <1>8, <2>2, <2>3, <2>4, StretchesJoin
<1>10. LastMemo(x) \in Int /\ LastMemo(behind) \in Int
  BY <1>1, <1>4, LastMemoIs DEF Stretch, NoMemo
<1>11. QED
  BY <1>1, <1>5, <1>6, <1>9, <1>10

LEMMA SteadyFrontier ==
  ASSUME KindInv, SteadyInv
  PROVE  FrontierDurable
<1>1. ASSUME NEW p \in Sound, Ready(p)
      PROVE  LET b == bufs[p]
                 behind == SubSeq(b.journal, 1, b.flushed)
             IN  /\ Rows(behind) \subseteq db[p].rows
                 /\ LastMemo(behind) <= db[p].memo
                 /\ db[p].rows \subseteq Rows(b.journal)
  <2>1. p \in DOMAIN bufs /\ Steady(p)
    BY <1>1 DEF Ready, Buffered, SteadyInv
  <2>2. PICK j : j = bufs[p].journal
    OBVIOUS
  <2>3. PICK stored : stored = db[p]
    OBVIOUS
  <2>4. PICK f : f = bufs[p].flushed
    OBVIOUS
  <2>5. Ascending(j) /\ \E k \in 0 .. Len(j) : Frontier(p) <= k /\ Backed(j, stored, k)
    BY <1>1, <2>1, <2>2, <2>3 DEF Steady
  <2>6. PICK k \in 0 .. Len(j) : Frontier(p) <= k /\ Backed(j, stored, k)
    BY <2>5
  <2>7. j \in Seq(Entry) /\ Len(j) \in Nat
    BY <2>1, <2>2, FrontierIs, BufferIs
  <2>8. f \in 0 .. k
    <3>1. f \in Nat /\ Frontier(p) \in Nat /\ f <= Frontier(p)
      BY <2>1, <2>4, FrontierIs
    <3>2. QED
      BY <2>6, <2>7, <3>1
  <2>9. PICK behind : behind = SubSeq(j, 1, f)
    OBVIOUS
  <2>10. Rows(behind) \subseteq stored.rows /\ LastMemo(behind) <= stored.memo
    <3>1. PICK one \in Nat \ {0} : one = 1
      OBVIOUS
    <3>2. f \in Nat /\ f <= Len(j)
      BY <2>7, <2>8
    <3>3. behind = SubSeq(j, one, f)
      BY <2>9, <3>1
    <3>4. Stretch(behind, j, one, f)
      BY <2>7, <3>2, <3>3, SubSeqStretch
    <3>5. Stretch(behind, j, 1, f)
      BY <3>1, <3>4
    <3>6. QED
      BY <2>5, <2>6, <2>7, <2>8, <3>5, BehindBacked
  <2>11. stored.rows \subseteq Rows(j)
    BY <2>6, <2>7, BackedIs
  <2>12. QED
    BY <2>2, <2>3, <2>4, <2>9, <2>10, <2>11
<1>2. QED
  BY <1>1 DEF FrontierDurable

LEMMA KindsTyped == KindInv => TypeOK
<1> SUFFICES ASSUME KindInv PROVE TypeOK
  OBVIOUS
<1>1. BufferInv /\ TableInv /\ LockInv /\ RestInv
  BY DEF KindInv
<1>2. ASSUME NEW p \in DOMAIN bufs
      PROVE  /\ Rows(bufs[p].journal) \subseteq Row
             /\ \A i \in DOMAIN bufs[p].journal :
                  ~IsEvent(bufs[p].journal[i]) => bufs[p].journal[i].memo \in Nat
             /\ bufs[p].flushed \in 0 .. Len(bufs[p].journal)
             /\ {bufs[p].drop, bufs[p].activating} \subseteq BOOLEAN
  <2>1. GoodBuffer(bufs[p])
    BY <1>1, <1>2 DEF BufferInv
  <2>2. /\ bufs[p].journal \in Seq(Entry) /\ Len(bufs[p].journal) \in Nat
        /\ bufs[p].flushed \in Nat /\ bufs[p].flushed <= Len(bufs[p].journal)
        /\ bufs[p].drop \in BOOLEAN /\ bufs[p].activating \in BOOLEAN
        /\ Rows(bufs[p].journal) \subseteq Row
    BY <2>1, BufferIs
  <2>3. \A i \in Memos(bufs[p].journal) : bufs[p].journal[i].memo \in Nat
    BY <2>2, JournalIs
  <2>4. QED
    BY <2>2, <2>3 DEF Memos
<1>3. \A p \in Paths : db[p].rows \subseteq Row /\ db[p].memo \in Nat \cup {NoMemo}
  BY <1>1 DEF TableInv, Table
<1>4. drain.op \in {"free", "flush", "passivated", "load", "scan"}
  BY <1>1, LockIs DEF LockInv
<1>5. \A p \in Paths : asked[p] = Nobody \/ asked[p] \in [source : Paths, seq : Nat, fact : 1 .. MaxFacts]
  BY <1>1 DEF RestInv
<1>6. QED
  BY <1>1, <1>2, <1>3, <1>4, <1>5 DEF TypeOK, Row, BufferInv, RestInv

(***************************************************************************)
(* The arrival order.                                                      *)
(***************************************************************************)
LEMMA AnswerBehind ==
  ASSUME KindInv, SteadyInv, NEW q \in Sound
  PROVE  /\ AnswerRows(q) \subseteq Row /\ Distinct(AnswerRows(q))
         /\ \A r \in AnswerRows(q) : /\ r.seq \in Nat /\ r.ingest \in Nat /\ r.ingest < ingest
                                     /\ r.seq < Cardinality(AnswerRows(q))
         /\ Cardinality(AnswerRows(q)) \in Nat
         /\ db[q].rows \subseteq AnswerRows(q)
<1>1. q \in Paths /\ Steady(q)
  BY DEF Sound, SteadyInv
<1>2. /\ AnswerRows(q) \subseteq Row /\ Numbered(AnswerRows(q))
      /\ Cardinality(AnswerRows(q)) \in Nat /\ db[q].rows \subseteq AnswerRows(q)
  BY <1>1, AnswerIs
<1>3. \A r \in AnswerRows(q) : r.ingest < ingest
  <2>1. CASE Ready(q)
    <3>1. AnswerRows(q) = Rows(bufs[q].journal) /\ q \in DOMAIN bufs
      BY <1>1, <2>1, AnswerIs DEF Ready, Buffered
    <3>2. QED
      BY <3>1 DEF KindInv, IngestInv
  <2>2. CASE ~Ready(q)
    <3>1. AnswerRows(q) = db[q].rows
      BY <1>1, <2>2, AnswerIs
    <3>2. QED
      BY <1>1, <3>1 DEF KindInv, IngestInv
  <2>3. QED
    BY <2>1, <2>2
<1>4. \A r \in AnswerRows(q) : r.seq \in Nat /\ r.ingest \in Nat
  BY <1>2 DEF Row
<1>5. Distinct(AnswerRows(q)) /\ \A r \in AnswerRows(q) : r.seq < Cardinality(AnswerRows(q))
  BY <1>2 DEF Numbered, Counts
<1>6. QED
  BY <1>2, <1>3, <1>4, <1>5

AnswersAreBehind ==
  \A p \in Sound :
    /\ AnswerRows(p) \subseteq Row
    /\ \A r \in AnswerRows(p) : r.seq \in Nat /\ r.ingest \in Nat /\ r.ingest < ingest
    /\ db[p].rows \subseteq AnswerRows(p)

LEMMA AllBehind == KindInv /\ SteadyInv => AnswersAreBehind
<1> SUFFICES ASSUME KindInv, SteadyInv PROVE AnswersAreBehind
  OBVIOUS
<1>1. ASSUME NEW p \in Sound
      PROVE  /\ AnswerRows(p) \subseteq Row
             /\ \A r \in AnswerRows(p) : r.seq \in Nat /\ r.ingest \in Nat /\ r.ingest < ingest
             /\ db[p].rows \subseteq AnswerRows(p)
  BY <1>1, AnswerBehind
<1>2. QED
  BY <1>1 DEF AnswersAreBehind

LEMMA NextBehind ==
  ASSUME KindInv', SteadyInv', NEW q \in Sound'
  PROVE  /\ AnswerRows(q)' \subseteq Row
         /\ \A r \in AnswerRows(q)' : r.seq \in Nat /\ r.ingest \in Nat /\ r.ingest < ingest'
         /\ db'[q].rows \subseteq AnswerRows(q)'
<1>1. (KindInv /\ SteadyInv => AnswersAreBehind)'
  BY AllBehind, PTL
<1>2. AnswersAreBehind'
  BY <1>1
<1>3. QED
  BY <1>2 DEF AnswersAreBehind

Apart ==
  \A p, q \in Sound : \A r \in AnswerRows(p), s \in AnswerRows(q) :
    r.ingest = s.ingest => p = q /\ r = s

InStep ==
  \A p \in Sound : \A r, s \in AnswerRows(p) : r.seq < s.seq <=> r.ingest < s.ingest

LEMMA ArrivalIs ==
  ASSUME KindInv, SteadyInv
  PROVE  ArrivalOrder <=> Apart /\ InStep
<1>1. DEFINE held == UNION {{<<p, r>> : r \in AnswerRows(p)} : p \in Sound}
<1>2. \A p \in Sound : \A r \in AnswerRows(p) :
        <<p, r>> \in held /\ <<p, r>>[1] = p /\ <<p, r>>[2] = r
  OBVIOUS
<1>3. \A f \in held : f[1] \in Sound /\ f[2] \in AnswerRows(f[1]) /\ f = <<f[1], f[2]>>
  OBVIOUS
<1>4. ArrivalOrder <=>
        \A f \in held :
          /\ f[2].ingest < ingest
          /\ \A g \in held \ {f} :
               /\ f[2].ingest # g[2].ingest
               /\ f[1] = g[1] => (f[2].seq < g[2].seq <=> f[2].ingest < g[2].ingest)
  BY DEF ArrivalOrder
<1>5. ASSUME NEW p \in Sound, NEW r \in AnswerRows(p)
      PROVE  r.seq \in Nat /\ r.ingest \in Nat /\ r.ingest < ingest
  BY <1>5, AnswerBehind
<1>6. ASSUME Apart, InStep PROVE ArrivalOrder
  <2>1. ASSUME NEW f \in held, NEW g \in held \ {f}
        PROVE  /\ f[2].ingest # g[2].ingest
               /\ f[1] = g[1] => (f[2].seq < g[2].seq <=> f[2].ingest < g[2].ingest)
    <3>1. /\ f[1] \in Sound /\ f[2] \in AnswerRows(f[1]) /\ f = <<f[1], f[2]>>
          /\ g[1] \in Sound /\ g[2] \in AnswerRows(g[1]) /\ g = <<g[1], g[2]>>
      BY <1>3, <2>1
    <3>2. f[1] # g[1] \/ f[2] # g[2]
      BY <2>1, <3>1
    <3>3. f[2].ingest # g[2].ingest
      BY <1>6, <3>1, <3>2 DEF Apart
    <3>4. f[1] = g[1] => (f[2].seq < g[2].seq <=> f[2].ingest < g[2].ingest)
      BY <1>6, <3>1 DEF InStep
    <3>5. QED
      BY <3>3, <3>4
  <2>2. \A f \in held : f[2].ingest < ingest
    BY <1>3, <1>5
  <2>3. QED
    BY <1>4, <2>1, <2>2
<1>7. ASSUME ArrivalOrder PROVE Apart
  <2>1. ASSUME NEW p \in Sound, NEW q \in Sound, NEW r \in AnswerRows(p), NEW s \in AnswerRows(q),
               r.ingest = s.ingest
        PROVE  p = q /\ r = s
    <3>1. /\ <<p, r>> \in held /\ <<p, r>>[1] = p /\ <<p, r>>[2] = r
          /\ <<q, s>> \in held /\ <<q, s>>[1] = q /\ <<q, s>>[2] = s
      BY <1>2, <2>1
    <3>2. <<p, r>> = <<q, s>>
      BY <1>4, <1>7, <2>1, <3>1
    <3>3. QED
      BY <3>2
  <2>2. QED
    BY <2>1 DEF Apart
<1>8. ASSUME ArrivalOrder PROVE InStep
  <2>1. ASSUME NEW p \in Sound, NEW r \in AnswerRows(p), NEW s \in AnswerRows(p)
        PROVE  r.seq < s.seq <=> r.ingest < s.ingest
    <3>1. CASE r = s
      BY <1>5, <2>1, <3>1
    <3>2. CASE r # s
      <4>1. /\ <<p, r>> \in held /\ <<p, r>>[1] = p /\ <<p, r>>[2] = r
            /\ <<p, s>> \in held /\ <<p, s>>[1] = p /\ <<p, s>>[2] = s
        BY <1>2, <2>1
      <4>2. <<p, r>> # <<p, s>>
        BY <3>2
      <4>3. QED
        BY <1>4, <1>8, <4>1, <4>2
    <3>3. QED
      BY <3>1, <3>2
  <2>2. QED
    BY <2>1 DEF InStep
<1>9. QED
  BY <1>6, <1>7, <1>8

LEMMA ApartArrive == KindInv /\ SteadyInv /\ Apart /\ InStep => ArrivalOrder
  BY ArrivalIs

LEMMA FewerArrive ==
  ASSUME Apart, InStep,
         \A q \in Sound' : \/ AnswerRows(q)' = {}
                           \/ q \in Sound /\ AnswerRows(q)' \subseteq AnswerRows(q)
  PROVE  Apart' /\ InStep'
<1>1. Apart'
  BY DEF Apart
<1>2. InStep'
  BY DEF InStep
<1>3. QED
  BY <1>1, <1>2

LEMMA MoreArrive ==
  ASSUME KindInv, KindInv', SteadyInv, SteadyInv', Apart, InStep, NEW p, Lengthens(p)
  PROVE  Apart' /\ InStep'
<1>1. ASSUME NEW q \in Sound', NEW r \in AnswerRows(q)'
      PROVE  /\ q \in Sound /\ r.seq \in Nat /\ r.ingest \in Nat
             /\ Cardinality(AnswerRows(q)) \in Nat /\ ingest \in Nat
             /\ \/ r \in AnswerRows(q) /\ r.ingest < ingest /\ r.seq < Cardinality(AnswerRows(q))
                \/ q = p /\ r.ingest >= ingest /\ r.seq >= Cardinality(AnswerRows(q))
  <2>1. q \in Sound /\ (IF q = p THEN \E rows : Longer(q, rows) ELSE Still(q))
    BY <1>1 DEF Lengthens
  <2>2. r.seq \in Nat /\ r.ingest \in Nat
    BY <1>1, NextBehind
  <2>3. Cardinality(AnswerRows(q)) \in Nat /\ ingest \in Nat
    BY <2>1, AnswerBehind DEF KindInv, RestInv
  <2>4. CASE r \in AnswerRows(q)
    BY <2>1, <2>2, <2>3, <2>4, AnswerBehind
  <2>5. CASE r \notin AnswerRows(q)
    <3>1. q = p
      BY <1>1, <2>1, <2>5 DEF Still
    <3>2. PICK rows : Longer(q, rows)
      BY <2>1, <3>1
    <3>3. r \in rows
      BY <1>1, <2>5, <3>2 DEF Longer
    <3>4. r.ingest >= ingest /\ r.seq >= Cardinality(AnswerRows(q))
      BY <3>2, <3>3 DEF Longer, Late
    <3>5. QED
      BY <2>1, <2>2, <2>3, <3>1, <3>4
  <2>6. QED
    BY <2>4, <2>5
<1>2. ASSUME p \in Sound', NEW r \in AnswerRows(p)', NEW s \in AnswerRows(p)',
             r \notin AnswerRows(p), s \notin AnswerRows(p)
      PROVE  /\ r.seq < s.seq <=> r.ingest < s.ingest
             /\ r.ingest = s.ingest => r = s
  <2>1. PICK rows : Longer(p, rows)
    BY <1>2 DEF Lengthens
  <2>2. r \in rows /\ s \in rows
    BY <1>2, <2>1 DEF Longer
  <2>3. QED
    BY <2>1, <2>2 DEF Longer, Late
<1>3. ASSUME NEW a \in Sound', NEW b \in Sound',
             NEW r \in AnswerRows(a)', NEW s \in AnswerRows(b)', r.ingest = s.ingest
      PROVE  a = b /\ r = s
  <2>1. CASE r \in AnswerRows(a) /\ s \in AnswerRows(b)
    <3>1. a \in Sound /\ b \in Sound
      BY <1>1, <1>3
    <3>2. QED
      BY <1>3, <2>1, <3>1 DEF Apart
  <2>2. CASE r \notin AnswerRows(a) /\ s \notin AnswerRows(b)
    <3>1. a = p /\ b = p
      BY <1>1, <1>3, <2>2
    <3>2. QED
      BY <1>2, <1>3, <2>2, <3>1
  <2>3. CASE r \in AnswerRows(a) /\ s \notin AnswerRows(b)
    <3>1. r.ingest < ingest
      <4>1. a \in Sound
        BY <1>1, <1>3
      <4>2. QED
        BY <2>3, <4>1, AnswerBehind
    <3>2. s.ingest >= ingest /\ s.ingest \in Nat /\ ingest \in Nat
      BY <1>1, <1>3, <2>3
    <3>3. QED
      BY <1>1, <1>3, <3>1, <3>2
  <2>4. CASE r \notin AnswerRows(a) /\ s \in AnswerRows(b)
    <3>1. s.ingest < ingest
      <4>1. b \in Sound
        BY <1>1, <1>3
      <4>2. QED
        BY <2>4, <4>1, AnswerBehind
    <3>2. r.ingest >= ingest /\ r.ingest \in Nat /\ ingest \in Nat
      BY <1>1, <1>3, <2>4
    <3>3. QED
      BY <1>1, <1>3, <3>1, <3>2
  <2>5. QED
    BY <2>1, <2>2, <2>3, <2>4
<1>4. ASSUME NEW a \in Sound', NEW r \in AnswerRows(a)', NEW s \in AnswerRows(a)'
      PROVE  r.seq < s.seq <=> r.ingest < s.ingest
  <2>0. a \in Sound
    BY <1>1, <1>4
  <2>1. CASE r \in AnswerRows(a) /\ s \in AnswerRows(a)
    BY <2>0, <2>1 DEF InStep
  <2>2. CASE r \notin AnswerRows(a) /\ s \notin AnswerRows(a)
    <3>1. a = p
      BY <1>1, <1>4, <2>2
    <3>2. QED
      BY <1>2, <1>4, <2>2, <3>1
  <2>3. CASE r \in AnswerRows(a) /\ s \notin AnswerRows(a)
    <3>1. r.ingest < ingest /\ r.seq < Cardinality(AnswerRows(a))
      BY <2>0, <2>3, AnswerBehind
    <3>2. s.ingest >= ingest /\ s.seq >= Cardinality(AnswerRows(a))
      BY <1>1, <1>4, <2>3
    <3>3. /\ s.ingest \in Nat /\ ingest \in Nat /\ r.ingest \in Nat
          /\ s.seq \in Nat /\ r.seq \in Nat /\ Cardinality(AnswerRows(a)) \in Nat
      BY <1>1, <1>4
    <3>4. QED
      BY <3>1, <3>2, <3>3
  <2>4. CASE r \notin AnswerRows(a) /\ s \in AnswerRows(a)
    <3>1. s.ingest < ingest /\ s.seq < Cardinality(AnswerRows(a))
      BY <2>0, <2>4, AnswerBehind
    <3>2. r.ingest >= ingest /\ r.seq >= Cardinality(AnswerRows(a))
      BY <1>1, <1>4, <2>4
    <3>3. /\ s.ingest \in Nat /\ ingest \in Nat /\ r.ingest \in Nat
          /\ s.seq \in Nat /\ r.seq \in Nat /\ Cardinality(AnswerRows(a)) \in Nat
      BY <1>1, <1>4
    <3>4. QED
      BY <3>1, <3>2, <3>3
  <2>5. QED
    BY <2>1, <2>2, <2>3, <2>4
<1>5. Apart'
  BY <1>3 DEF Apart
<1>6. InStep'
  BY <1>4 DEF InStep
<1>7. QED
  BY <1>5, <1>6

LEMMA ArrivalStays ==
  ASSUME KindInv, KindInv', SteadyInv, SteadyInv', Moves, Apart, InStep
  PROVE  Apart' /\ InStep'
<1>1. CASE \E p \in Paths : Lengthens(p)
  BY <1>1, MoreArrive
<1>2. CASE Settles
  <2>1. ASSUME NEW q \in Sound'
        PROVE  \/ AnswerRows(q)' = {}
               \/ q \in Sound /\ AnswerRows(q)' \subseteq AnswerRows(q)
    BY <1>2, <2>1 DEF Settles, Cleared, Still, Saved
  <2>2. QED
    BY <2>1, FewerArrive
<1>3. CASE CutsOff
  <2>1. ASSUME NEW q \in Sound'
        PROVE  q \in Sound /\ AnswerRows(q)' \subseteq AnswerRows(q)
    <3>1. q \in Sound /\ CutOff(q)
      BY <1>3, <2>1 DEF CutsOff
    <3>2. QED
      BY <3>1, AnswerBehind DEF CutOff
  <2>2. QED
    BY <2>1, FewerArrive
<1>4. QED
  BY <1>1, <1>2, <1>3 DEF Moves

(***************************************************************************)
(* The cut of a flush.                                                     *)
(***************************************************************************)
(* What changes the tables, and what becomes of the mark.                  *)
TableStep ==
  \/ sliced' = sliced /\ db' = db
  \/ sliced' = sliced /\ drain = Free
  \/ Writing /\ Store
  \/ Die

LEMMA TableSteps ==
  ASSUME [Next]_vars
  PROVE  TableStep
<1>1. CASE UNCHANGED vars
  BY <1>1 DEF vars, TableStep
<1>2. ASSUME NEW p \in Paths,
             \/ AppendFacts(p) \/ AskOrigin(p) \/ RecordOrigin(p) \/ AppendSnapshot(p) \/ Leave(p)
      PROVE  TableStep
  BY <1>2 DEF TableStep, AppendFacts, AskOrigin, RecordOrigin, AppendSnapshot, Leave
<1>3. ASSUME NEW p \in Paths, NEW by \in {"loop", "catchUp"}, LoadRetained(p, by) \/ LoadCold(p, by)
      PROVE  TableStep
  BY <1>3 DEF TableStep, LoadRetained, LoadCold
<1>4. ASSUME NEW p \in Paths, Passivate(p) \/ PassivateDurable(p)
      PROVE  TableStep
  BY <1>4 DEF TableStep, Passivate, PassivateDurable
<1>5. ASSUME NEW p \in Paths, Purge(p) \/ PurgeHalf(p)
      PROVE  TableStep
  BY <1>5 DEF TableStep, Purge, PurgeHalf
<1>6. ASSUME BeginFlush \/ BeginScan \/ TxFails \/ CommitFlush \/ FinishLoad \/ FailLoad \/ EndScan
      PROVE  TableStep
  BY <1>6 DEF TableStep, BeginFlush, BeginScan, TxFails, CommitFlush, FinishLoad, FailLoad, EndScan
<1>7. CASE WriteTx
  BY <1>7 DEF TableStep, WriteTx
<1>8. CASE Abort
  BY <1>8 DEF TableStep, Abort
<1>9. CASE Die
  BY <1>9 DEF TableStep
<1>10. QED
  BY <1>1, <1>2, <1>3, <1>4, <1>5, <1>6, <1>7, <1>8, <1>9 DEF Next, Finish

LEMMA FlushTakesAll ==
  ASSUME KindInv, NEW q \in Paths, Steady(q), drain = Free
  PROVE  AnswerRows(q) \subseteq db[q].rows \cup (IF Pending(q) THEN Batch(bufs[q]).rows ELSE {})
<1>1. CASE ~Ready(q)
  BY <1>1, AnswerIs
<1>2. CASE Ready(q)
  <2>1. q \in DOMAIN bufs /\ ~Captured(q)
    BY <1>2, NoFlush DEF Ready, Buffered, Captured
  <2>2. PICK j : j = bufs[q].journal
    OBVIOUS
  <2>3. PICK stored : stored = db[q]
    OBVIOUS
  <2>4. PICK f : f = bufs[q].flushed
    OBVIOUS
  <2>5. j \in Seq(Entry) /\ Len(j) \in Nat /\ f \in Nat /\ f <= Len(j) /\ Frontier(q) = f
    BY <2>1, <2>2, <2>4, FrontierIs, BufferIs
  <2>6. Ascending(j) /\ AnswerRows(q) = Rows(j)
    BY <1>2, <2>2, AnswerIs DEF Steady
  <2>7. PICK k \in 0 .. Len(j) : f <= k /\ Backed(j, stored, k)
    BY <1>2, <2>2, <2>3, <2>5 DEF Steady
  <2>8. CASE ~Pending(q)
    <3>1. f = Len(j)
      BY <2>1, <2>2, <2>4, <2>8 DEF Pending, Buffered
    <3>2. k = Len(j)
      BY <2>5, <2>7, <3>1
    <3>3. stored.rows = Rows(j)
      BY <2>5, <2>7, <3>2, BackedIs
    <3>4. QED
      BY <2>3, <2>6, <3>3
  <2>9. CASE Pending(q)
    <3>1. PICK e \in Nat : e = Len(j)
      BY <2>5
    <3>2. PICK a \in Nat \ {0} : a = f + 1
      BY <2>5
    <3>3. PICK y : y = SubSeq(j, a, e)
      OBVIOUS
    <3>4. Stretch(y, j, a, e)
      BY <2>5, <3>1, <3>3, SubSeqStretch
    <3>5. Batch(bufs[q]).rows = Rows(y)
      BY <2>2, <2>4, <2>9, <3>1, <3>2, <3>3, BatchOf
    <3>6. PICK new : new = [rows |-> stored.rows \cup Rows(y),
                            memo |-> IF LastMemo(y) > stored.memo THEN LastMemo(y) ELSE stored.memo]
      OBVIOUS
    <3>7. new.rows = stored.rows \cup Rows(y)
      BY <3>6
    <3>8. new.memo = IF LastMemo(y) > stored.memo THEN LastMemo(y) ELSE stored.memo
      BY <3>6
    <3>9. Rows(j) = new.rows
      <4>1. f \in 0 .. k /\ f <= e /\ e <= Len(j)
        BY <2>5, <2>7, <3>1
      <4>2. Stretch(y, j, f + 1, e)
        BY <3>2, <3>4
      <4>3. PICK m \in 0 .. Len(j) : e <= m /\ Backed(j, new, m)
        BY <2>5, <2>6, <2>7, <3>1, <3>7, <3>8, <4>1, <4>2, BackedJoin
      <4>4. m = Len(j)
        BY <2>5, <3>1, <4>3
      <4>5. QED
        BY <2>5, <4>3, <4>4, BackedIs
    <3>10. QED
      BY <2>3, <2>6, <2>9, <3>5, <3>7, <3>9
  <2>10. QED
    BY <2>8, <2>9
<1>3. QED
  BY <1>1, <1>2

LEMMA BatchPaths == LockInv => (drain \in Flushes => DOMAIN drain.batches \subseteq Paths)
  BY LockIs

LEMMA FlushLock == LockInv => (drain.op \in {"flush", "passivated"} => drain \in Flushes)
  BY LockIs

(* A flush takes everything: the cut is at the present.                    *)
LEMMA BeginFlushCuts ==
  ASSUME KindInv, SteadyInv, KindInv', SteadyInv', BeginFlush
  PROVE  CutAt(ingest)'
<1>1. /\ drain = Free /\ drain'.batches = Collect(Paths) /\ db' = db /\ bufs' = bufs
      /\ Sound' = Sound /\ ingest' = ingest /\ drain'.op = "flush"
  BY DEF BeginFlush, Sound
<1>2. drain' \in Flushes
  <2>1. (LockInv => (drain.op \in {"flush", "passivated"} => drain \in Flushes))'
    BY FlushLock, PTL
  <2>2. QED
    BY <1>1, <2>1 DEF KindInv
<1>3. ASSUME NEW q \in Sound'
      PROVE  /\ \A r \in db'[q].rows \cup Taken(q)' : r.ingest < ingest'
             /\ \A r \in AnswerRows(q)' \ (db'[q].rows \cup Taken(q)') : r.ingest >= ingest'
  <2>1. q \in Paths /\ q \in Sound /\ Steady(q)
    BY <1>1, <1>3 DEF Sound, SteadyInv
  <2>2. AnswerRows(q)' = AnswerRows(q)
    BY <1>1 DEF AnswerRows, Answer, Ready, Buffered
  <2>3. Taken(q)' = IF Pending(q) THEN Batch(bufs[q]).rows ELSE {}
    <3>1. /\ DOMAIN Collect(Paths) = {p \in Paths : Pending(p)}
          /\ \A p \in DOMAIN Collect(Paths) : Collect(Paths)[p] = Batch(bufs[p])
      BY CollectIs
    <3>2. Captured(q)' <=> Pending(q)
      BY <1>1, <1>2, <2>1, <3>1 DEF Captured
    <3>3. Pending(q) => drain'.batches[q].rows = Batch(bufs[q]).rows
      BY <1>1, <2>1, <3>1
    <3>4. QED
      BY <3>2, <3>3 DEF Taken
  <2>4. AnswerRows(q) \subseteq db[q].rows \cup (IF Pending(q) THEN Batch(bufs[q]).rows ELSE {})
    BY <1>1, <2>1, FlushTakesAll
  <2>5. ASSUME Pending(q)
        PROVE  Batch(bufs[q]).rows \subseteq AnswerRows(q)
    <3>1. Ready(q) /\ q \in DOMAIN bufs
      BY <2>5, BatchOf DEF Ready, Buffered
    <3>2. PICK b : b = bufs[q]
      OBVIOUS
    <3>3. /\ b.journal \in Seq(Entry) /\ Len(b.journal) \in Nat
          /\ b.flushed \in Nat /\ b.flushed <= Len(b.journal)
      BY <3>1, <3>2, FrontierIs, BufferIs
    <3>4. PICK a \in Nat \ {0} : a = b.flushed + 1
      BY <3>3
    <3>5. PICK y : y = SubSeq(b.journal, a, Len(b.journal))
      OBVIOUS
    <3>6. Stretch(y, b.journal, a, Len(b.journal))
      BY <3>3, <3>5, SubSeqStretch
    <3>7. Rows(y) = Between(b.journal, a, Len(b.journal))
      BY <3>3, <3>6, StretchRows
    <3>8. Rows(y) \subseteq Rows(b.journal)
      BY <3>3, <3>7, JournalIs DEF Between
    <3>9. Batch(bufs[q]).rows = Rows(y)
      BY <2>5, <3>2, <3>4, <3>5, BatchOf
    <3>10. QED
      BY <2>1, <3>1, <3>2, <3>8, <3>9, AnswerIs
  <2>6. db[q].rows \subseteq AnswerRows(q) /\ \A r \in AnswerRows(q) : r.ingest < ingest
    BY <2>1, AnswerBehind
  <2>7. QED
    BY <1>1, <2>2, <2>3, <2>4, <2>5, <2>6
<1>4. QED
  BY <1>3 DEF CutAt

LEMMA NextFlush == KindInv' => (drain'.op \in {"flush", "passivated"} => drain' \in Flushes)
<1>1. (LockInv => (drain.op \in {"flush", "passivated"} => drain \in Flushes))'
  BY FlushLock, PTL
<1>2. QED
  BY <1>1 DEF KindInv

LEMMA NextBatch == KindInv' => \A q : Captured(q)' => q \in DOMAIN bufs'
<1> SUFFICES ASSUME KindInv', NEW q, Captured(q)'
             PROVE  q \in DOMAIN bufs'
  OBVIOUS
<1>1. q \in Paths
  <2>1. (LockInv => (drain \in Flushes => DOMAIN drain.batches \subseteq Paths))'
    BY BatchPaths, PTL
  <2>2. QED
    BY <2>1 DEF KindInv, Captured
<1>2. QED
  BY <1>1 DEF KindInv, BatchInv, Ready, Buffered

(* While a flush is under way, its cut stays where it is.                  *)
LEMMA CutKept ==
  ASSUME KindInv, KindInv', SteadyInv, SteadyInv', Moves, drain.op = "flush",
         drain' = drain \/ drain' = [drain EXCEPT !.written = TRUE],
         NEW c \in 0 .. ingest, CutAt(c)
  PROVE  c \in 0 .. ingest' /\ CutAt(c)'
<1>1. drain \in Flushes /\ drain'.op = "flush" /\ drain'.batches = drain.batches /\ drain' \in Flushes
  <2>1. drain \in Flushes
    BY FlushLock DEF KindInv
  <2>2. drain'.op = "flush" /\ drain'.batches = drain.batches
    BY <2>1 DEF Flushes
  <2>3. QED
    BY <2>1, <2>2, NextFlush
<1>2. \A q : Taken(q)' = Taken(q) /\ (Captured(q)' <=> Captured(q))
  BY <1>1 DEF Taken, Captured
<1>3. ingest \in Nat /\ ingest' \in Nat /\ c \in Nat /\ c <= ingest /\ ingest <= ingest'
  <2>1. ingest \in Nat /\ ingest' \in Nat
    BY DEF KindInv, RestInv
  <2>2. ingest <= ingest'
    <3>1. CASE \E p \in Paths : Lengthens(p)
      BY <3>1, GrownJournal DEF Lengthens, Growing
    <3>2. CASE Settles
      BY <2>1, <3>2 DEF Settles, Settling
    <3>3. CASE CutsOff
      BY <1>1, <3>3, NoFlush DEF CutsOff, Dying
    <3>4. QED
      BY <3>1, <3>2, <3>3 DEF Moves
  <2>3. QED
    BY <2>1, <2>2
<1>4. ASSUME NEW q \in Sound'
      PROVE  \/ /\ AnswerRows(q)' = {} /\ db'[q].rows = {} /\ Taken(q)' = {}
             \/ /\ q \in Sound
                /\ db'[q].rows \cup Taken(q)' = db[q].rows \cup Taken(q)
                /\ \A r \in AnswerRows(q)' : r \in AnswerRows(q) \/ r.ingest >= ingest
  <2>1. CASE \E p \in Paths : Lengthens(p)
    <3>1. PICK p \in Paths : Lengthens(p)
      BY <2>1
    <3>2. q \in Sound /\ (IF q = p THEN \E rows : Longer(q, rows) ELSE Still(q))
      BY <1>4, <3>1 DEF Lengthens
    <3>3. CASE q = p
      <4>1. PICK rows : Longer(q, rows)
        BY <3>2, <3>3
      <4>2. \A r \in rows : r.ingest >= ingest
        BY <4>1 DEF Longer, Late
      <4>3. QED
        BY <1>2, <3>2, <4>1, <4>2 DEF Longer
    <3>4. CASE q # p
      BY <1>2, <3>2, <3>4 DEF Still
    <3>5. QED
      BY <3>3, <3>4
  <2>2. CASE Settles
    <3>1. Cleared(q) \/ (q \in Sound /\ (Still(q) \/ Saved(q)))
      BY <1>4, <2>2 DEF Settles
    <3>2. CASE Cleared(q)
      <4>1. ~Captured(q)'
        BY <3>2, NextBatch DEF Cleared
      <4>2. Taken(q)' = {}
        BY <4>1 DEF Taken
      <4>3. QED
        BY <3>2, <4>2 DEF Cleared
    <3>3. CASE q \in Sound /\ Still(q)
      BY <1>2, <3>3 DEF Still
    <3>4. CASE q \in Sound /\ Saved(q)
      <4>1. Taken(q) = drain.batches[q].rows
        BY <3>4 DEF Saved, Taken
      <4>2. QED
        BY <1>2, <3>4, <4>1 DEF Saved
    <3>5. QED
      BY <3>1, <3>2, <3>3, <3>4
  <2>3. CASE CutsOff
    BY <1>1, <2>3, NoFlush DEF CutsOff, Dying
  <2>4. QED
    BY <2>1, <2>2, <2>3 DEF Moves
<1>5. ASSUME NEW q \in Sound'
      PROVE  /\ \A r \in db'[q].rows \cup Taken(q)' : r.ingest < c
             /\ \A r \in AnswerRows(q)' \ (db'[q].rows \cup Taken(q)') : r.ingest >= c
  <2>1. CASE AnswerRows(q)' = {} /\ db'[q].rows = {} /\ Taken(q)' = {}
    BY <2>1
  <2>2. CASE /\ q \in Sound
             /\ db'[q].rows \cup Taken(q)' = db[q].rows \cup Taken(q)
             /\ \A r \in AnswerRows(q)' : r \in AnswerRows(q) \/ r.ingest >= ingest
    <3>1. /\ \A r \in db[q].rows \cup Taken(q) : r.ingest < c
          /\ \A r \in AnswerRows(q) \ (db[q].rows \cup Taken(q)) : r.ingest >= c
      BY <2>2 DEF CutAt
    <3>2. \A r \in AnswerRows(q)' : r.ingest \in Nat
      BY <1>5, NextBehind
    <3>3. QED
      BY <1>3, <2>2, <3>1, <3>2
  <2>3. QED
    BY <1>4, <1>5, <2>1, <2>2
<1>6. QED
  BY <1>3, <1>5 DEF CutAt

LEMMA CutStays ==
  ASSUME KindInv, KindInv', SteadyInv, SteadyInv', Moves, CutInv, LockStep
  PROVE  CutInv'
<1> SUFFICES ASSUME drain'.op = "flush"
             PROVE  \E c \in 0 .. ingest' : CutAt(c)'
  BY DEF CutInv
<1>1. CASE drain' = Free
  BY <1>1, LockIs DEF KindInv
<1>2. CASE drain' = drain \/ WriteTx
  <2>1. drain' = drain \/ drain' = [drain EXCEPT !.written = TRUE]
    BY <1>2 DEF WriteTx
  <2>2. drain.op = "flush"
    <3>1. CASE drain' = drain
      BY <3>1
    <3>2. CASE WriteTx
      <4>1. drain \in Flushes /\ drain' = [drain EXCEPT !.written = TRUE]
        BY <3>2, FlushLock DEF KindInv, WriteTx, Writing
      <4>2. QED
        BY <4>1 DEF Flushes
    <3>3. QED
      BY <1>2, <3>1, <3>2
  <2>3. PICK c \in 0 .. ingest : CutAt(c)
    BY <2>2 DEF CutInv
  <2>4. c \in 0 .. ingest' /\ CutAt(c)'
    BY <2>1, <2>2, <2>3, CutKept
  <2>5. QED
    BY <2>4
<1>3. CASE BeginFlush
  <2>1. CutAt(ingest)' /\ ingest' = ingest /\ ingest \in Nat
    BY <1>3, BeginFlushCuts DEF BeginFlush, KindInv, RestInv
  <2>2. QED
    BY <2>1
<1>4. CASE \E p \in Paths : \E by \in {"loop", "catchUp"} : LoadCold(p, by)
  <2>1. PICK p \in Paths, by \in {"loop", "catchUp"} : LoadCold(p, by)
    BY <1>4
  <2>2. drain' = [op |-> "load", path |-> p, by |-> by]
    BY <2>1 DEF LoadCold
  <2>3. drain'.op = "load"
    BY <2>2
  <2>4. QED
    BY <2>3
<1>5. CASE \E p \in Paths : Passivate(p)
  <2>1. PICK p \in Paths : Passivate(p)
    BY <1>5
  <2>2. drain' = [op |-> "passivated", path |-> p, batches |-> Collect({p}), written |-> FALSE]
    BY <2>1 DEF Passivate
  <2>3. drain'.op = "passivated"
    BY <2>2
  <2>4. QED
    BY <2>3
<1>6. CASE BeginScan
  <2>1. drain'.op = "scan"
    BY <1>6 DEF BeginScan
  <2>2. QED
    BY <2>1
<1>7. QED
  BY <1>1, <1>2, <1>3, <1>4, <1>5, <1>6 DEF LockStep

(***************************************************************************)
(* What a death of the process cuts off.                                   *)
(***************************************************************************)
Outlives ==
  \A p, q \in Sound : \A r \in db[p].rows, s \in AnswerRows(q) :
    s.ingest < r.ingest => s \in db[q].rows

LEMMA OutlivesIs == CutUnlessSliced <=> (sliced \/ Outlives)
  BY DEF CutUnlessSliced, Outlives

LEMMA StoreIs ==
  ASSUME KindInv, Writing, Store
  PROVE  /\ \A q \in Paths : db'[q].rows = db[q].rows \cup Taken(q)
         /\ drain.op = "flush" \/ sliced'
<1>1. drain \in Flushes
  BY FlushLock DEF KindInv, Writing
<1>2. ASSUME NEW q \in Paths
      PROVE  db'[q].rows = db[q].rows \cup Taken(q)
  <2>1. db' = [p \in Paths |->
                IF p \in DOMAIN drain.batches
                THEN [rows |-> db[p].rows \cup drain.batches[p].rows,
                      memo |-> IF drain.batches[p].memo > db[p].memo
                               THEN drain.batches[p].memo ELSE db[p].memo]
                ELSE db[p]]
    BY DEF Store
  <2>2. CASE q \in DOMAIN drain.batches
    <3>1. db'[q] = [rows |-> db[q].rows \cup drain.batches[q].rows,
                    memo |-> IF drain.batches[q].memo > db[q].memo
                             THEN drain.batches[q].memo ELSE db[q].memo]
      BY <2>1, <2>2
    <3>2. Taken(q) = drain.batches[q].rows
      BY <1>1, <2>2 DEF Taken, Captured
    <3>3. QED
      BY <3>1, <3>2
  <2>3. CASE q \notin DOMAIN drain.batches
    <3>1. db'[q] = db[q]
      BY <2>1, <2>3
    <3>2. Taken(q) = {}
      BY <2>3 DEF Taken, Captured
    <3>3. QED
      BY <3>1, <3>2
  <2>4. QED
    BY <2>2, <2>3
<1>3. drain.op = "flush" \/ sliced'
  BY DEF Writing, Store
<1>4. QED
  BY <1>2, <1>3

LEMMA DeathCuts ==
  ASSUME KindInv, KindInv', SteadyInv, Dying
  PROVE  Outlives'
<1>1. ASSUME NEW q \in Sound'
      PROVE  AnswerRows(q)' = db'[q].rows
  <2>1. q \in Paths /\ q \in Sound
    BY <1>1 DEF Dying, Sound
  <2>2. Lost(q) /\ Steady(q)
    BY <2>1 DEF Dying, SteadyInv
  <2>3. CutOff(q)
    BY <2>1, <2>2, LostSteady
  <2>4. QED
    BY <2>3 DEF CutOff
<1>2. QED
  BY <1>1 DEF Outlives

LEMMA GrowthOutlives ==
  ASSUME KindInv, KindInv', SteadyInv, SteadyInv', Outlives, NEW p, Lengthens(p)
  PROVE  Outlives'
<1>1. db' = db /\ \A q \in Sound' : q \in Sound
  BY DEF Lengthens, Growing
<1>2. ASSUME NEW a \in Sound', NEW b \in Sound', NEW r \in db'[a].rows,
             NEW s \in AnswerRows(b)', s.ingest < r.ingest
      PROVE  s \in db'[b].rows
  <2>1. a \in Sound /\ b \in Sound /\ r \in db[a].rows
    BY <1>1, <1>2
  <2>2. r.ingest < ingest /\ r.ingest \in Nat /\ ingest \in Nat
    BY <2>1, AnswerBehind DEF KindInv, RestInv
  <2>3. s.ingest \in Nat
    BY <1>2, NextBehind
  <2>4. s \in AnswerRows(b)
    <3>1. CASE b = p
      <4>1. PICK rows : Longer(b, rows)
        BY <1>2, <3>1 DEF Lengthens
      <4>2. s \in AnswerRows(b) \/ s.ingest >= ingest
        BY <1>2, <4>1 DEF Longer, Late
      <4>3. QED
        BY <1>2, <2>2, <2>3, <4>2
    <3>2. CASE b # p
      BY <1>2, <3>2 DEF Lengthens, Still
    <3>3. QED
      BY <3>1, <3>2
  <2>5. QED
    BY <1>1, <1>2, <2>1, <2>4 DEF Outlives
<1>3. QED
  BY <1>2 DEF Outlives

LEMMA RestOutlives ==
  ASSUME KindInv, Outlives, Settles, db' = db \/ drain = Free
  PROVE  Outlives'
<1>1. ASSUME NEW q \in Sound'
      PROVE  \/ AnswerRows(q)' = {} /\ db'[q].rows = {}
             \/ /\ q \in Sound /\ AnswerRows(q)' = AnswerRows(q)
                /\ db'[q].rows = db[q].rows
  <2>1. Cleared(q) \/ (q \in Sound /\ (Still(q) \/ Saved(q)))
    BY <1>1 DEF Settles
  <2>2. CASE Cleared(q) \/ (q \in Sound /\ Still(q))
    BY <2>2 DEF Cleared, Still
  <2>3. CASE q \in Sound /\ Saved(q)
    <3>1. db' = db
      BY <2>3, NoFlush DEF Saved, Captured
    <3>2. QED
      BY <2>3, <3>1 DEF Saved
  <2>4. QED
    BY <2>1, <2>2, <2>3
<1>2. QED
  BY <1>1 DEF Outlives

LEMMA FlushOutlives ==
  ASSUME KindInv, KindInv', SteadyInv, SteadyInv', Settles, Writing, Store,
         NEW c \in 0 .. ingest, CutAt(c)
  PROVE  Outlives'
<1>0. c \in Nat
  BY DEF KindInv, RestInv
<1>1. ASSUME NEW q \in Sound'
      PROVE  \/ AnswerRows(q)' = {} /\ db'[q].rows = {}
             \/ /\ q \in Sound /\ AnswerRows(q)' = AnswerRows(q)
                /\ db'[q].rows = db[q].rows \cup Taken(q)
  <2>1. Cleared(q) \/ (q \in Sound /\ (Still(q) \/ Saved(q)))
    BY <1>1 DEF Settles
  <2>2. db'[q].rows = db[q].rows \cup Taken(q)
    BY <1>1, StoreIs DEF Sound
  <2>3. QED
    BY <2>1, <2>2 DEF Cleared, Still, Saved
<1>2. ASSUME NEW a \in Sound', NEW b \in Sound', NEW r \in db'[a].rows,
             NEW s \in AnswerRows(b)', s.ingest < r.ingest
      PROVE  s \in db'[b].rows
  <2>1. a \in Sound /\ r \in db[a].rows \cup Taken(a)
    BY <1>1, <1>2
  <2>2. b \in Sound /\ s \in AnswerRows(b) /\ db'[b].rows = db[b].rows \cup Taken(b)
    BY <1>1, <1>2
  <2>3. r.ingest < c
    BY <2>1 DEF CutAt
  <2>4. s \in db[b].rows \cup Taken(b) \/ s.ingest >= c
    BY <2>2 DEF CutAt
  <2>5. s.ingest \in Nat /\ r.ingest \in Nat
    BY <1>2, NextBehind
  <2>6. QED
    BY <1>0, <1>2, <2>2, <2>3, <2>4, <2>5
<1>3. QED
  BY <1>2 DEF Outlives

LEMMA OutlivesStays ==
  ASSUME KindInv, KindInv', SteadyInv, SteadyInv', Moves, TableStep, CutInv,
         sliced \/ Outlives
  PROVE  sliced' \/ Outlives'
<1>1. CASE Die \/ CutsOff
  <2>1. Dying
    BY <1>1, DieLoses DEF CutsOff
  <2>2. QED
    BY <2>1, DeathCuts
<1>2. CASE \E p \in Paths : Lengthens(p)
  <2>1. sliced' = sliced
    BY <1>2 DEF Lengthens, Growing
  <2>2. QED
    BY <1>2, <2>1, GrowthOutlives
<1>3. CASE Settles /\ sliced' = sliced /\ (db' = db \/ drain = Free)
  BY <1>3, RestOutlives
<1>4. CASE Settles /\ Writing /\ Store
  <2>1. CASE drain.op = "flush"
    <3>1. PICK c \in 0 .. ingest : CutAt(c)
      BY <2>1 DEF CutInv
    <3>2. QED
      BY <1>4, <3>1, FlushOutlives
  <2>2. CASE drain.op # "flush"
    BY <1>4, <2>2, StoreIs
  <2>3. QED
    BY <2>1, <2>2
<1>5. QED
  BY <1>1, <1>2, <1>3, <1>4 DEF Moves, TableStep

(***************************************************************************)
(* The scan.                                                               *)
(***************************************************************************)
LEMMA ScanStays ==
  ASSUME KindInv, LockStep, TableStep, ScanInv
  PROVE  ScanInv'
<1> SUFFICES ASSUME drain'.op = "scan"
             PROVE  drain'.rows = UNION {Recordings(p, db'[p].rows) : p \in Paths}
  BY DEF ScanInv, Recordings
<1>1. CASE drain' = Free
  BY <1>1, LockIs DEF KindInv
<1>2. CASE drain' = drain
  <2>1. drain.op = "scan" /\ drain # Free
    BY <1>2, LockIs DEF KindInv
  <2>2. ~Writing
    BY <2>1 DEF Writing
  <2>3. ~Die
    BY <1>2, <2>1 DEF Die
  <2>4. db' = db
    BY <2>1, <2>2, <2>3 DEF TableStep
  <2>5. QED
    BY <1>2, <2>1, <2>4 DEF ScanInv
<1>3. CASE BeginScan
  <2>1. drain' = [op |-> "scan", rows |-> UNION {Recordings(p, db[p].rows) : p \in Paths}] /\ db' = db
    BY <1>3 DEF BeginScan
  <2>2. QED
    BY <2>1
<1>4. CASE WriteTx
  <2>1. drain \in Flushes /\ drain' = [drain EXCEPT !.written = TRUE]
    BY <1>4, FlushLock DEF KindInv, WriteTx, Writing
  <2>2. drain'.op \in {"flush", "passivated"}
    BY <2>1 DEF Flushes
  <2>3. QED
    BY <2>2
<1>5. CASE \E p \in Paths : \E by \in {"loop", "catchUp"} : LoadCold(p, by)
  <2>1. PICK p \in Paths, by \in {"loop", "catchUp"} : LoadCold(p, by)
    BY <1>5
  <2>2. drain' = [op |-> "load", path |-> p, by |-> by]
    BY <2>1 DEF LoadCold
  <2>3. drain'.op = "load"
    BY <2>2
  <2>4. QED
    BY <2>3
<1>6. CASE \E p \in Paths : Passivate(p)
  <2>1. PICK p \in Paths : Passivate(p)
    BY <1>6
  <2>2. drain' = [op |-> "passivated", path |-> p, batches |-> Collect({p}), written |-> FALSE]
    BY <2>1 DEF Passivate
  <2>3. drain'.op = "passivated"
    BY <2>2
  <2>4. QED
    BY <2>3
<1>7. CASE BeginFlush
  <2>1. drain'.op = "flush"
    BY <1>7 DEF BeginFlush
  <2>2. QED
    BY <2>1
<1>8. QED
  BY <1>1, <1>2, <1>3, <1>4, <1>5, <1>6, <1>7 DEF LockStep

LEMMA ScanFinds ==
  ASSUME KindInv, SteadyInv, ScanInv
  PROVE  ScanExact
<1> SUFFICES ASSUME drain.op = "scan", NEW p \in Sound
             PROVE  {f \in ScanAnswer(drain.rows) : f[1] = p} = Recordings(p, AnswerRows(p))
  BY DEF ScanExact
<1>1. p \in Paths /\ Steady(p) /\ DOMAIN bufs \subseteq Paths
  BY DEF Sound, SteadyInv, KindInv, BufferInv
<1>2. \A q, rows : \A f \in Recordings(q, rows) :
        f[1] = q /\ f[2] \in rows /\ f[2].origin = Recorded /\ f = <<q, f[2]>>
  BY DEF Recordings
<1>3. \A q, rows : \A r \in rows : r.origin = Recorded => <<q, r>> \in Recordings(q, rows)
  BY DEF Recordings
<1>4. drain.rows = UNION {Recordings(q, db[q].rows) : q \in Paths}
  BY DEF ScanInv
<1>5. \A f \in drain.rows : f[1] = p => f \in Recordings(p, db[p].rows)
  BY <1>2, <1>4
<1>6. \A q \in DOMAIN bufs : \A f \in Unseen(q, drain.rows) : f \in Recordings(q, Rows(bufs[q].journal))
  BY DEF Unseen
<1>7. db[p].rows \subseteq AnswerRows(p) /\ Distinct(AnswerRows(p))
  BY AnswerBehind
<1>8. p \in DOMAIN bufs => Rows(bufs[p].journal) \subseteq AnswerRows(p)
  <2>1. CASE Ready(p)
    BY <1>1, <2>1, AnswerIs
  <2>2. ASSUME p \in DOMAIN bufs, ~Ready(p)
        PROVE  Rows(bufs[p].journal) = {}
    <3>1. bufs[p].activating /\ GoodBuffer(bufs[p])
      BY <2>2 DEF Ready, Buffered, KindInv, BufferInv
    <3>2. bufs[p].journal = <<>>
      BY <3>1 DEF GoodBuffer
    <3>3. QED
      BY <3>2, EmptyJournal
  <2>3. QED
    BY <2>1, <2>2
<1>9. ASSUME NEW f \in ScanAnswer(drain.rows), f[1] = p
      PROVE  f \in Recordings(p, AnswerRows(p))
  <2>1. CASE f \in drain.rows
    <3>1. f \in Recordings(p, db[p].rows)
      BY <1>5, <1>9, <2>1
    <3>2. QED
      BY <1>2, <1>3, <1>7, <3>1
  <2>2. CASE f \notin drain.rows
    <3>1. PICK q \in DOMAIN bufs : f \in Unseen(q, drain.rows)
      BY <1>9, <2>2 DEF ScanAnswer
    <3>2. f \in Recordings(q, Rows(bufs[q].journal))
      BY <1>6, <3>1
    <3>3. q = p
      BY <1>2, <1>9, <3>2
    <3>4. QED
      BY <1>2, <1>3, <1>8, <3>2, <3>3
  <2>3. QED
    BY <2>1, <2>2
<1>10. ASSUME NEW f \in Recordings(p, AnswerRows(p))
       PROVE  f \in ScanAnswer(drain.rows) /\ f[1] = p
  <2>1. f[1] = p /\ f[2] \in AnswerRows(p) /\ f[2].origin = Recorded /\ f = <<p, f[2]>>
    BY <1>2, <1>10
  <2>2. CASE f[2] \in db[p].rows
    <3>1. f \in Recordings(p, db[p].rows)
      BY <1>3, <2>1, <2>2
    <3>2. f \in drain.rows
      BY <1>1, <1>4, <3>1
    <3>3. QED
      BY <2>1, <3>2 DEF ScanAnswer
  <2>3. CASE f[2] \notin db[p].rows
    <3>1. Ready(p) /\ p \in DOMAIN bufs
      BY <1>1, <2>1, <2>3, AnswerIs DEF Ready, Buffered
    <3>2. AnswerRows(p) = Rows(bufs[p].journal)
      BY <1>1, <3>1, AnswerIs
    <3>3. f \in Recordings(p, Rows(bufs[p].journal))
      BY <1>10, <3>2
    <3>4. ~\E seen \in drain.rows : seen[1] = p /\ seen[2].seq = f[2].seq
      <4>1. ASSUME NEW seen \in drain.rows, seen[1] = p, seen[2].seq = f[2].seq
            PROVE  FALSE
        <5>1. seen[2] \in db[p].rows
          BY <1>2, <1>5, <4>1
        <5>2. seen[2] = f[2]
          BY <1>7, <2>1, <4>1, <5>1 DEF Distinct
        <5>3. QED
          BY <2>3, <5>1, <5>2
      <4>2. QED
        BY <4>1
    <3>5. f \in Unseen(p, drain.rows)
      BY <3>3, <3>4 DEF Unseen
    <3>6. f \in ScanAnswer(drain.rows)
      BY <3>1, <3>5 DEF ScanAnswer
    <3>7. QED
      BY <2>1, <3>6
  <2>4. QED
    BY <2>2, <2>3
<1>11. QED
  BY <1>9, <1>10

(***************************************************************************)
(* The invariant and what follows from it.                                 *)
(***************************************************************************)
LEMMA StoreStarts == Init => StoreInv
<1> SUFFICES ASSUME Init PROVE StoreInv
  OBVIOUS
<1>1. KindInv /\ SteadyInv
  BY KindsStart, SteadyStart
<1>2. ASSUME NEW q \in Sound
      PROVE  AnswerRows(q) = {} /\ db[q].rows = {}
  <2>1. q \in Paths /\ Steady(q) /\ ~Ready(q) /\ db[q].rows = {}
    BY <1>1, <1>2 DEF Init, Sound, SteadyInv, Ready, Buffered
  <2>2. QED
    BY <1>1, <2>1, AnswerIs
<1>3. Apart /\ InStep /\ Outlives
  BY <1>2 DEF Apart, InStep, Outlives
<1>4. ArrivalOrder
  BY <1>1, <1>3, ArrivalIs
<1>5. CutUnlessSliced
  BY <1>3, OutlivesIs
<1>6. drain.op = "free"
  BY DEF Init, Free
<1>7. QED
  BY <1>1, <1>4, <1>5, <1>6 DEF StoreInv, CutInv, ScanInv

LEMMA NextArrivalIs ==
  ASSUME KindInv', SteadyInv', Apart', InStep'
  PROVE  ArrivalOrder'
<1>1. (KindInv /\ SteadyInv /\ Apart /\ InStep => ArrivalOrder)'
  BY ApartArrive, PTL
<1>2. QED
  BY <1>1

LEMMA StoreStays ==
  ASSUME KindInv, KindInv', StoreInv, [Next]_vars
  PROVE  StoreInv'
<1>1. Effects /\ LockStep /\ TableStep
  BY StepEffects, LockSteps, TableSteps
<1>2. SteadyInv /\ ArrivalOrder /\ CutInv /\ CutUnlessSliced /\ ScanInv
  BY DEF StoreInv
<1>3. SteadyInv' /\ Moves
  BY <1>1, <1>2, SteadyStays
<1>4. ArrivalOrder'
  <2>1. Apart /\ InStep
    BY <1>2, ArrivalIs
  <2>2. Apart' /\ InStep'
    BY <1>2, <1>3, <2>1, ArrivalStays
  <2>3. QED
    BY <1>3, <2>2, NextArrivalIs
<1>5. CutInv'
  BY <1>1, <1>2, <1>3, CutStays
<1>6. CutUnlessSliced'
  <2>1. sliced' \/ Outlives'
    BY <1>1, <1>2, <1>3, OutlivesIs, OutlivesStays
  <2>2. (CutUnlessSliced <=> (sliced \/ Outlives))'
    BY OutlivesIs, PTL
  <2>3. QED
    BY <2>1, <2>2
<1>7. ScanInv'
  BY <1>1, <1>2, ScanStays
<1>8. QED
  BY <1>3, <1>4, <1>5, <1>6, <1>7 DEF StoreInv

(* Whatever flushes, loads, passivations, purges and deaths of the process *)
(* come in between, the table of a path backs its journal in memory at     *)
(* least up to the frontier, and a flush under way cuts the arrival order  *)
(* at one point on all paths.                                              *)
THEOREM Stores == Spec => []StoreInv
<1>1. Init => StoreInv
  BY StoreStarts
<1>2. KindInv /\ KindInv' /\ StoreInv /\ [Next]_vars => StoreInv'
  BY StoreStays
<1>3. QED
  BY <1>1, <1>2, Kinds, PTL DEF Spec

(* The journals, the tables, the lock and the callers keep their kinds.    *)
THEOREM TypeCorrect == Spec => []TypeOK
BY Kinds, KindsTyped, PTL

(* What a buffer's flushed_entry_count covers is in SQLite, events and     *)
(* snapshot, and SQLite has no row of the path that its journal in memory  *)
(* has not (PathBuffer, commit_flush).                                     *)
THEOREM FlushedIsDurable == Spec => []FrontierDurable
<1>1. KindInv /\ StoreInv => FrontierDurable
  BY SteadyFrontier DEF StoreInv
<1>2. QED
  BY <1>1, Kinds, Stores, PTL

(* ingest_seq orders all the facts of all the paths, in step with each     *)
(* journal, also after a restart that numbers on from what it finds in     *)
(* the database (Shared::build, buffer_append).                            *)
THEOREM ArrivalsAreOrdered == Spec => []ArrivalOrder
<1>1. StoreInv => ArrivalOrder
  BY DEF StoreInv
<1>2. QED
  BY <1>1, Stores, PTL

(* A death of the process cuts the arrival order at one point, since a     *)
(* flush writes all the pending paths in one transaction, but for a        *)
(* passivation that has flushed its own path alone (flush_cycle,           *)
(* passivated).                                                            *)
THEOREM DeathCutsOnce == Spec => []CutUnlessSliced
<1>1. StoreInv => CutUnlessSliced
  BY DEF StoreInv
<1>2. QED
  BY <1>1, Stores, PTL

(* A scan finds the decisions of a path in the table, in its buffer or in  *)
(* both, each once (scan).                                                 *)
THEOREM ScansFindAll == Spec => []ScanExact
<1>1. KindInv /\ StoreInv => ScanExact
  BY ScanFinds DEF StoreInv
<1>2. QED
  BY <1>1, Kinds, Stores, PTL

(***************************************************************************)
(* The store implements JournalStore.  What a path shows is a function of  *)
(* the rows and the snapshot that a load of it answers.                    *)
(***************************************************************************)
(* The facts of a path, as a sequence.                                     *)

FactSet ==
  [fact : 1 .. MaxFacts, origin : {Recorded} \cup [source : Paths, seq : Nat]]

FactIn(r) == [fact |-> r.fact, origin |-> r.origin]

FactsOf(rows) ==
  [i \in 1 .. Cardinality(rows) |-> FactIn(CHOOSE r \in rows : r.seq = i - 1)]

LEMMA FactsAre == \A q \in Paths : Facts(q) = FactsOf(AnswerRows(q))
BY DEF Facts, FactsOf, FactIn, AnswerRows, NextSeq

LEMMA FactsIs ==
  ASSUME NEW rows, rows \subseteq Row, Numbered(rows), NEW n \in Nat, n = Cardinality(rows)
  PROVE  /\ FactsOf(rows) \in Seq(FactSet) /\ Len(FactsOf(rows)) = n
         /\ IsFiniteSet(rows)
         /\ \A r \in rows : r.seq \in Nat /\ r.seq < n /\ FactsOf(rows)[r.seq + 1] = FactIn(r)
         /\ \A i \in 1 .. n : \E r \in rows : r.seq = i - 1
<1>1. PICK facts : facts = FactsOf(rows)
  OBVIOUS
<1>2. Counts(rows, n)
  BY DEF Numbered
<1>3. \A i \in 1 .. n : \E r \in rows : r.seq = i - 1
  <2>1. \A i \in 1 .. n : i - 1 \in 0 .. n - 1
    OBVIOUS
  <2>2. QED
    BY <1>2, <2>1 DEF Counts
<1>4. ASSUME NEW i \in 1 .. n, NEW r \in rows, r.seq = i - 1
      PROVE  facts[i] = FactIn(r)
  <2>1. facts[i] = FactIn(CHOOSE x \in rows : x.seq = i - 1)
    BY <1>1 DEF FactsOf
  <2>2. \A x \in rows : x.seq = i - 1 => x = r
    BY <1>2, <1>4 DEF Counts, Distinct
  <2>3. (CHOOSE x \in rows : x.seq = i - 1) = r
    BY <1>4, <2>2
  <2>4. QED
    BY <2>1, <2>3
<1>5. \A r \in rows : FactIn(r) \in FactSet
  BY DEF Row, FactIn, FactSet
<1>6. \A i \in 1 .. n : facts[i] \in FactSet
  BY <1>3, <1>4, <1>5
<1>7. facts \in [1 .. n -> FactSet]
  BY <1>1, <1>6 DEF FactsOf
<1>8. facts \in Seq(FactSet) /\ Len(facts) = n
  BY <1>7, FunctionIsSeq
<1>9. ASSUME NEW r \in rows
      PROVE  r.seq \in Nat /\ r.seq < n /\ facts[r.seq + 1] = FactIn(r)
  <2>1. r.seq \in Nat /\ r.seq < n
    BY <1>2, EntryKinds DEF Counts
  <2>2. r.seq + 1 \in 1 .. n /\ r.seq = (r.seq + 1) - 1
    BY <2>1
  <2>3. PICK i \in 1 .. n : i = r.seq + 1 /\ r.seq = i - 1
    BY <2>2
  <2>4. QED
    BY <1>4, <2>1, <2>3
<1>10. IsFiniteSet(rows)
  BY <1>2, CountIs
<1>11. QED
  BY <1>1, <1>3, <1>8, <1>9, <1>10

LEMMA NoFacts == FactsOf({}) = <<>>
<1>1. PICK none : none = {}
  OBVIOUS
<1>2. Cardinality(none) = 0 /\ none \subseteq Row /\ Numbered(none)
  BY <1>1, FS_EmptySet, EmptyJournal
<1>3. FactsOf(none) \in Seq(FactSet) /\ Len(FactsOf(none)) = 0
  BY <1>2, FactsIs
<1>4. FactsOf(none) = <<>>
  BY <1>3, EmptySeq
<1>5. QED
  BY <1>1, <1>4

Remains(rest, s, t) == rest = SubSeq(t, Len(s) + 1, Len(t))

Appended(rest, s, t) ==
  /\ Len(rest) = Len(t) - Len(s)
  /\ \A i \in 1 .. Len(rest) : Len(s) + i \in Len(s) + 1 .. Len(t) /\ rest[i] = t[Len(s) + i]

LEMMA Prolongs ==
  ASSUME NEW S, NEW s \in Seq(S), NEW t \in Seq(S), Len(s) <= Len(t),
         \A i \in 1 .. Len(s) : t[i] = s[i],
         NEW rest, Remains(rest, s, t)
  PROVE  rest \in Seq(S) /\ Appended(rest, s, t) /\ Grows(t, s, rest)
<1>1. PICK m \in Nat, n \in Nat : m = Len(s) /\ n = Len(t)
  BY LenProperties
<1>2. m <= n /\ \A i \in 1 .. m : t[i] = s[i]
  BY <1>1
<1>3. PICK a \in Nat : a = m + 1
  OBVIOUS
<1>4. /\ rest \in Seq(S)
      /\ Len(rest) = IF a <= n THEN n - a + 1 ELSE 0
      /\ \A i \in 1 .. n - a + 1 : rest[i] = t[a + i - 1]
  <2>1. rest = SubSeq(t, a, n)
    BY <1>1, <1>3 DEF Remains
  <2>2. \A i \in a .. n : t[i] \in S
    BY <1>1, <1>3, ElementOfSeq
  <2>3. PICK part : part = SubSeq(t, a, n)
    OBVIOUS
  <2>4. /\ part \in Seq(S)
        /\ Len(part) = IF a <= n THEN n - a + 1 ELSE 0
        /\ \A i \in 1 .. n - a + 1 : part[i] = t[a + i - 1]
    <3>1. a \in Int /\ n \in Int
      OBVIOUS
    <3>2. /\ SubSeq(t, a, n) \in Seq(S)
          /\ Len(SubSeq(t, a, n)) = IF a <= n THEN n - a + 1 ELSE 0
          /\ \A i \in 1 .. n - a + 1 : SubSeq(t, a, n)[i] = t[a + i - 1]
      BY <2>2, <3>1, SubSeqProperties
    <3>3. QED
      BY <2>3, <3>2
  <2>5. part = rest
    BY <2>1, <2>3
  <2>6. QED
    BY <2>4, <2>5
<1>5. Len(rest) = n - m
  <2>1. Len(rest) = IF a <= n THEN n - a + 1 ELSE 0
    BY <1>4
  <2>2. CASE a <= n
    BY <1>3, <2>1, <2>2
  <2>3. CASE ~(a <= n)
    BY <1>2, <1>3, <2>1, <2>3
  <2>4. QED
    BY <2>2, <2>3
<1>6. ASSUME NEW i \in 1 .. n - m
      PROVE  m + i \in m + 1 .. n /\ rest[i] = t[m + i]
  <2>1. i \in 1 .. n - a + 1 /\ a + i - 1 = m + i /\ m + i \in m + 1 .. n
    BY <1>3
  <2>2. QED
    BY <1>4, <2>1
<1>7. PICK whole : whole = s \o rest
  OBVIOUS
<1>8. /\ whole \in Seq(S) /\ Len(whole) = m + (n - m)
      /\ \A i \in 1 .. m + (n - m) : whole[i] = IF i <= m THEN s[i] ELSE rest[i - m]
  BY <1>1, <1>4, <1>5, <1>7, ConcatProperties
<1>9. ASSUME NEW i \in 1 .. n
      PROVE  whole[i] = t[i]
  <2>0. whole[i] = IF i <= m THEN s[i] ELSE rest[i - m]
    <3>1. i \in 1 .. m + (n - m)
      BY <1>2
    <3>2. QED
      BY <1>8, <3>1
  <2>1. CASE i <= m
    BY <1>2, <2>0, <2>1
  <2>2. CASE ~(i <= m)
    <3>1. i - m \in 1 .. n - m /\ m + (i - m) = i
      BY <1>2, <2>2
    <3>2. QED
      BY <1>6, <2>0, <2>2, <3>1
  <2>3. QED
    BY <2>1, <2>2
<1>10. whole = t
  <2>1. Len(whole) = Len(t)
    BY <1>1, <1>2, <1>8
  <2>2. QED
    BY <1>1, <1>8, <1>9, <2>1, SeqEqual
<1>11. QED
  BY <1>1, <1>4, <1>5, <1>6, <1>7, <1>10 DEF Appended, Grows

LEMMA Shortens ==
  ASSUME NEW S, NEW s \in Seq(S), NEW t \in Seq(S), Len(s) <= Len(t),
         \A i \in 1 .. Len(s) : t[i] = s[i]
  PROVE  s = SubSeq(t, 1, Len(s))
<1>1. PICK m \in Nat, n \in Nat : m = Len(s) /\ n = Len(t)
  BY LenProperties
<1>2. PICK part : part = SubSeq(t, 1, m)
  OBVIOUS
<1>3. m <= n /\ \A i \in 1 .. m : t[i] \in S
  BY <1>1, ElementOfSeq
<1>4. /\ part \in Seq(S) /\ Len(part) = IF 1 <= m THEN m - 1 + 1 ELSE 0
      /\ \A i \in 1 .. m - 1 + 1 : part[i] = t[1 + i - 1]
  BY <1>2, <1>3, SubSeqProperties
<1>5. Len(part) = m
  BY <1>4
<1>6. \A i \in 1 .. m : part[i] = t[i]
  BY <1>4
<1>7. part = s
  BY <1>1, <1>4, <1>5, <1>6, SeqEqual
<1>8. QED
  BY <1>1, <1>2, <1>7

(* Rows that are added prolong the facts, rows that are lost shorten them. *)
Tells(s, rows) == s = FactsOf(rows)

LEMMA FactsAgree ==
  ASSUME NEW rows, NEW more, rows \subseteq more, more \subseteq Row,
         Numbered(rows), Numbered(more), Cardinality(more) \in Nat, Cardinality(rows) \in Nat,
         NEW s, Tells(s, rows), NEW t, Tells(t, more)
  PROVE  /\ s \in Seq(FactSet) /\ t \in Seq(FactSet)
         /\ Len(s) = Cardinality(rows) /\ Len(t) = Cardinality(more) /\ Len(s) <= Len(t)
         /\ \A i \in 1 .. Len(s) : t[i] = s[i]
         /\ \A i \in Len(s) + 1 .. Len(t) :
              \E r \in more \ rows : r.seq = i - 1 /\ t[i] = FactIn(r)
<1>1. PICK n \in Nat, m \in Nat : n = Cardinality(rows) /\ m = Cardinality(more)
  OBVIOUS
<1>2. /\ s \in Seq(FactSet) /\ Len(s) = n
      /\ \A r \in rows : r.seq \in Nat /\ r.seq < n /\ s[r.seq + 1] = FactIn(r)
      /\ \A i \in 1 .. n : \E r \in rows : r.seq = i - 1
  BY <1>1, FactsIs DEF Tells
<1>3. /\ t \in Seq(FactSet) /\ Len(t) = m /\ IsFiniteSet(more)
      /\ \A r \in more : r.seq \in Nat /\ r.seq < m /\ t[r.seq + 1] = FactIn(r)
      /\ \A i \in 1 .. m : \E r \in more : r.seq = i - 1
  BY <1>1, FactsIs DEF Tells
<1>4. n <= m
  BY <1>1, <1>3, FS_Subset
<1>5. ASSUME NEW i \in 1 .. n
      PROVE  t[i] = s[i]
  <2>1. PICK r \in rows : r.seq = i - 1
    BY <1>2
  <2>2. r.seq + 1 = i
    BY <2>1
  <2>3. QED
    BY <1>2, <1>3, <2>2
<1>6. ASSUME NEW i \in n + 1 .. m
      PROVE  \E r \in more \ rows : r.seq = i - 1 /\ t[i] = FactIn(r)
  <2>1. i \in 1 .. m
    OBVIOUS
  <2>2. PICK r \in more : r.seq = i - 1
    BY <1>3, <2>1
  <2>3. r.seq + 1 = i /\ ~(r.seq < n)
    BY <2>2
  <2>4. r \notin rows /\ t[i] = FactIn(r)
    BY <1>2, <1>3, <2>3
  <2>5. QED
    BY <2>2, <2>4
<1>7. QED
  BY <1>1, <1>2, <1>3, <1>4, <1>5, <1>6

----------------------------------------------------------------------------
(* The snapshot a load answers.                                            *)

AnswerMemo(q) == LastMemo(Answer(q))

MemosAnswered ==
  \A q \in Paths :
    /\ AnswerMemo(q) \in Nat \cup {NoMemo}
    /\ Ready(q) => AnswerMemo(q) = LastMemo(bufs[q].journal)
    /\ ~Ready(q) => AnswerMemo(q) = db[q].memo

LEMMA MemoAnswered == KindInv => MemosAnswered
<1> SUFFICES ASSUME KindInv, NEW q \in Paths
             PROVE  /\ AnswerMemo(q) \in Nat \cup {NoMemo}
                    /\ Ready(q) => AnswerMemo(q) = LastMemo(bufs[q].journal)
                    /\ ~Ready(q) => AnswerMemo(q) = db[q].memo
  BY DEF MemosAnswered
<1>1. CASE Ready(q)
  <2>1. PICK j : j = bufs[q].journal
    OBVIOUS
  <2>2. j \in Seq(Entry)
    BY <1>1, <2>1, FrontierIs, BufferIs DEF Ready, Buffered
  <2>3. AnswerMemo(q) = LastMemo(j)
    BY <1>1, <2>1 DEF AnswerMemo, Answer
  <2>4. QED
    BY <1>1, <2>1, <2>2, <2>3, LastMemoIs
<1>2. CASE ~Ready(q)
  <2>1. PICK stored : stored = db[q]
    OBVIOUS
  <2>2. PICK j : j = Rebuild(stored)
    OBVIOUS
  <2>3. Table(stored)
    BY <2>1 DEF KindInv, TableInv
  <2>4. LastMemo(j) = stored.memo /\ j \in Seq(Entry)
    BY <2>2, <2>3, RebuildIs
  <2>5. AnswerMemo(q) = LastMemo(j)
    BY <1>2, <2>1, <2>2 DEF AnswerMemo, Answer
  <2>6. QED
    BY <1>2, <2>1, <2>4, <2>5, LastMemoIs
<1>3. QED
  BY <1>1, <1>2

LEMMA NowMemo ==
  ASSUME KindInv, NEW q \in Paths
  PROVE  /\ AnswerMemo(q) \in Nat \cup {NoMemo}
         /\ Ready(q) => AnswerMemo(q) = LastMemo(bufs[q].journal)
         /\ ~Ready(q) => AnswerMemo(q) = db[q].memo
BY MemoAnswered DEF MemosAnswered

LEMMA NextMemo ==
  ASSUME KindInv', NEW q \in Paths
  PROVE  /\ AnswerMemo(q)' \in Nat \cup {NoMemo}
         /\ Ready(q)' => AnswerMemo(q)' = LastMemo(bufs'[q].journal)
         /\ ~Ready(q)' => AnswerMemo(q)' = db'[q].memo
<1>1. (KindInv => MemosAnswered)'
  BY MemoAnswered, PTL
<1>2. QED
  BY <1>1 DEF MemosAnswered

(* The table's snapshot covers a row of the table, and no more than the    *)
(* answer's does.                                                          *)
LEMMA StoredMemo ==
  ASSUME KindInv, NEW q \in Paths, Steady(q)
  PROVE  /\ db[q].memo \in Nat \cup {NoMemo} /\ Cardinality(db[q].rows) \in Nat
         /\ Numbered(db[q].rows)
         /\ db[q].memo <= AnswerMemo(q)
         /\ db[q].memo < Cardinality(db[q].rows)
<1>1. PICK stored : stored = db[q]
  OBVIOUS
<1>2. Table(stored) /\ Whole(stored)
  BY <1>1 DEF KindInv, TableInv, Steady
<1>3. /\ stored.memo \in Nat \cup {NoMemo} /\ Cardinality(stored.rows) \in Nat
      /\ Numbered(stored.rows)
  BY <1>2, FS_CardinalityType DEF Table, Whole
<1>4. stored.memo < Cardinality(stored.rows)
  <2>1. CASE stored.memo = NoMemo
    BY <1>3, <2>1 DEF NoMemo
  <2>2. CASE stored.memo # NoMemo
    <3>1. PICK r \in stored.rows : r.seq = stored.memo
      BY <1>2, <2>2 DEF Whole
    <3>2. QED
      BY <1>3, <3>1 DEF Numbered, Counts
  <2>3. QED
    BY <2>1, <2>2
<1>5. stored.memo <= AnswerMemo(q)
  <2>1. CASE ~Ready(q)
    <3>1. AnswerMemo(q) = stored.memo
      BY <1>1, <2>1, NowMemo
    <3>2. QED
      BY <1>3, <3>1 DEF NoMemo
  <2>2. CASE Ready(q)
    <3>1. PICK j : j = bufs[q].journal
      OBVIOUS
    <3>2. j \in Seq(Entry) /\ Len(j) \in Nat
      BY <2>2, <3>1, FrontierIs, BufferIs DEF Ready, Buffered
    <3>3. PICK k \in 0 .. Len(j) : Backed(j, stored, k)
      BY <1>1, <2>2, <3>1 DEF Steady
    <3>4. Ascending(j)
      BY <2>2, <3>1 DEF Steady
    <3>5. PICK x : Stretch(x, j, 1, k) /\ stored.rows = Rows(x) /\ stored.memo = LastMemo(x)
      BY <3>2, <3>3, BackedIs
    <3>6. PICK all : all = [rows |-> Rows(j), memo |-> LastMemo(j)]
      OBVIOUS
    <3>7. all.rows = Rows(j) /\ all.memo = LastMemo(j)
      BY <3>6
    <3>8. Len(j) \in 0 .. Len(j) /\ Stretch(j, j, 1, Len(j))
      BY <3>2, StretchWhole
    <3>9. PICK n \in 0 .. Len(j) : n = Len(j)
      BY <3>8
    <3>10. Backed(j, all, n)
      BY <3>2, <3>7, <3>8, <3>9, StretchBacks
    <3>11. k \in 0 .. n
      BY <3>2, <3>3, <3>9
    <3>12. LastMemo(x) <= all.memo
      BY <3>2, <3>4, <3>5, <3>9, <3>10, <3>11, BehindBacked
    <3>13. AnswerMemo(q) = LastMemo(j)
      BY <2>2, <3>1, NowMemo
    <3>14. QED
      BY <3>5, <3>7, <3>12, <3>13
  <2>3. QED
    BY <2>1, <2>2
<1>6. QED
  BY <1>1, <1>3, <1>4, <1>5

(* What a load of a path answers stays as it is.                           *)
Stands(q) == AnswerRows(q)' = AnswerRows(q) /\ AnswerMemo(q)' = AnswerMemo(q)

LEMMA RestsStand ==
  ASSUME KindInv, KindInv', NEW q \in Paths, Steady(q), Rests(q)
  PROVE  Stands(q)
<1>1. CASE Kept(q)
  <2>1. Still(q) /\ db'[q] = db[q]
    BY <1>1, KeptSteady DEF Kept
  <2>2. Ready(q)' <=> Ready(q)
    BY <1>1, KeptBuffer DEF Kept, Ready, Buffered
  <2>3. Ready(q) => bufs'[q].journal = bufs[q].journal
    BY <1>1, KeptBuffer DEF Ready, Buffered
  <2>4. QED
    BY <2>1, <2>2, <2>3, NowMemo, NextMemo DEF Stands, Still
<1>2. CASE Cold(q)
  <2>1. Still(q) /\ db'[q] = db[q] /\ ~Ready(q)
    BY <1>2, ColdSteady DEF Cold
  <2>2. ~Ready(q)'
    BY <1>2, NewBufferIs DEF Cold, Ready, Buffered
  <2>3. QED
    BY <2>1, <2>2, NowMemo, NextMemo DEF Stands, Still
<1>3. CASE Opened(q)
  <2>1. Still(q) /\ ~Ready(q)
    BY <1>3, OpenedSteady DEF Opened
  <2>2. Ready(q)' /\ bufs'[q].journal = Rebuild(db[q])
    BY <1>3, OpenedJournal
  <2>3. PICK stored : stored = db[q]
    OBVIOUS
  <2>4. PICK j : j = Rebuild(stored)
    OBVIOUS
  <2>5. Table(stored)
    BY <2>3 DEF KindInv, TableInv
  <2>6. LastMemo(j) = stored.memo
    BY <2>4, <2>5, RebuildIs
  <2>7. AnswerMemo(q)' = LastMemo(j) /\ AnswerMemo(q) = stored.memo
    BY <2>1, <2>2, <2>3, <2>4, NowMemo, NextMemo
  <2>8. QED
    BY <2>1, <2>6, <2>7 DEF Stands, Still
<1>4. CASE Closed(q)
  <2>1. /\ Still(q) /\ Ready(q) /\ db'[q] = db[q] /\ ~Ready(q)'
        /\ Frontier(q) = Len(bufs[q].journal)
    BY <1>4, ClosedSteady DEF Closed, Ready, Buffered
  <2>2. PICK j : j = bufs[q].journal
    OBVIOUS
  <2>3. j \in Seq(Entry) /\ Len(j) \in Nat
    BY <2>1, <2>2, FrontierIs, BufferIs DEF Ready, Buffered
  <2>4. PICK k \in 0 .. Len(j) : Len(j) <= k /\ Backed(j, db[q], k)
    BY <2>1, <2>2 DEF Steady
  <2>5. k = Len(j)
    BY <2>3, <2>4
  <2>6. db[q].memo = LastMemo(j)
    BY <2>3, <2>4, <2>5, BackedIs
  <2>7. QED
    BY <2>1, <2>2, <2>6, NowMemo, NextMemo DEF Stands, Still
<1>5. CASE Written(q)
  <2>1. Saved(q)
    BY <1>5, WrittenSteady
  <2>2. /\ Ready(q) /\ q \in DOMAIN bufs' /\ bufs'[q] = bufs[q]
    BY <1>5, FrontierIs DEF Written, KindInv, BatchInv
  <2>3. Ready(q)'
    BY <2>2 DEF Ready, Buffered
  <2>4. QED
    BY <2>1, <2>2, <2>3, NowMemo, NextMemo DEF Stands, Saved
<1>6. QED
  BY <1>1, <1>2, <1>3, <1>4, <1>5 DEF Rests

----------------------------------------------------------------------------
(* The catch-up a loop asks about is not in its buffer, which stays while  *)
(* it asks.                                                                *)

Lacks(q) ==
  /\ Ready(q)
  /\ ~HoldsOrigin(Rows(bufs[q].journal), OriginOf(asked[q]))

AskOf(q) == asked[q] # Nobody => Lacks(q)

AskInv == \A q \in Paths : AskOf(q)

(* The buffer and the question stay, or nothing is asked any more.         *)
Holds(q) ==
  \/ asked'[q] = Nobody
  \/ /\ asked'[q] = asked[q]
     /\ Ready(q) => Ready(q)' /\ Rows(bufs'[q].journal) = Rows(bufs[q].journal)

LEMMA HoldsAsk ==
  ASSUME NEW q, AskOf(q), Holds(q)
  PROVE  AskOf(q)'
<1>1. CASE asked'[q] = Nobody
  BY <1>1 DEF AskOf
<1>2. CASE asked'[q] # Nobody
  <2>1. /\ asked'[q] = asked[q] /\ asked[q] # Nobody
        /\ Ready(q) => Ready(q)' /\ Rows(bufs'[q].journal) = Rows(bufs[q].journal)
    BY <1>2 DEF Holds
  <2>2. Lacks(q)
    BY <2>1 DEF AskOf
  <2>3. Lacks(q)'
    BY <2>1, <2>2 DEF Lacks
  <2>4. QED
    BY <2>3 DEF AskOf
<1>3. QED
  BY <1>1, <1>2

LEMMA SameHolds ==
  ASSUME NEW q, Same(q), asked'[q] = asked[q]
  PROVE  Holds(q)
BY DEF Same, Holds, Ready, Buffered

LEMMA KeptHolds ==
  ASSUME KindInv, NEW q \in Paths, Kept(q), asked'[q] = asked[q]
  PROVE  Holds(q)
<1>1. CASE Ready(q)
  <2>1. q \in DOMAIN bufs
    BY <1>1 DEF Ready, Buffered
  <2>2. bufs'[q].journal = bufs[q].journal /\ (Ready(q)' <=> Ready(q))
    BY <2>1, KeptBuffer
  <2>3. QED
    BY <1>1, <2>2 DEF Holds
<1>2. CASE ~Ready(q)
  BY <1>2 DEF Holds
<1>3. QED
  BY <1>1, <1>2

LEMMA RestsHold ==
  ASSUME KindInv, NEW q \in Paths, Rests(q), asked'[q] \in {Nobody, asked[q]}
  PROVE  Holds(q)
<1>0. CASE asked'[q] = Nobody
  BY <1>0 DEF Holds
<1> SUFFICES ASSUME asked'[q] = asked[q], asked[q] # Nobody
             PROVE  Holds(q)
  BY <1>0
<1>1. CASE Kept(q)
  BY <1>1, KeptHolds
<1>2. CASE Cold(q)
  BY <1>2 DEF Cold, Holds
<1>3. CASE Opened(q)
  BY <1>3 DEF Opened, Holds
<1>4. CASE Closed(q)
  BY <1>4 DEF Closed
<1>5. CASE Written(q)
  <2>1. q \in DOMAIN bufs
    BY <1>5 DEF Written, KindInv, BatchInv, Ready, Buffered
  <2>2. Same(q)
    BY <1>5, <2>1 DEF Written, Same
  <2>3. QED
    BY <2>2, SameHolds
<1>6. QED
  BY <1>1, <1>2, <1>3, <1>4, <1>5 DEF Rests

LEMMA CallsAsk ==
  ASSUME KindInv, NEW p \in Paths, Calls(p), NEW q \in Paths
  PROVE  asked'[q] \in {Nobody, asked[q]}
<1>1. CASE Leave(p)
  <2>1. asked \in [Paths -> {Nobody} \cup [source : Paths, seq : Nat, fact : 1 .. MaxFacts]]
    BY DEF KindInv, RestInv
  <2>2. asked' = [asked EXCEPT ![p] = Nobody]
    BY <1>1 DEF Leave
  <2>3. QED
    BY <2>1, <2>2
<1>2. CASE Passivate(p) \/ PassivateDurable(p)
  BY <1>2 DEF Passivate, PassivateDurable
<1>3. CASE \E by \in {"loop", "catchUp"} : LoadRetained(p, by) \/ LoadCold(p, by)
  BY <1>3 DEF LoadRetained, LoadCold
<1>4. QED
  BY <1>1, <1>2, <1>3 DEF Calls

LEMMA WorksAsk ==
  ASSUME Works
  PROVE  asked' = asked
BY DEF Works, BeginFlush, BeginScan, Abort, Finish, WriteTx, TxFails, CommitFlush, FinishLoad,
       FailLoad, EndScan

LEMMA AskStarts == Init => AskInv
BY DEF Init, AskInv, AskOf

LEMMA InstallHolds ==
  ASSUME NEW p \in Paths, NEW b, Install(p, b), NEW q \in Paths \ {p}, asked'[q] = asked[q]
  PROVE  Holds(q)
BY InstallSame, SameHolds

LEMMA AskOriginAsks ==
  ASSUME KindInv, NEW p \in Paths, AskOrigin(p)
  PROVE  /\ AskOf(p)' /\ Install(p, BufferOf(p)) /\ \A q \in Paths \ {p} : asked'[q] = asked[q]
<1>1. asked \in [Paths -> {Nobody} \cup [source : Paths, seq : Nat, fact : 1 .. MaxFacts]]
  BY DEF KindInv, RestInv
<1>2. PICK source, r :
        /\ ~HoldsOrigin(Rows(BufferOf(p).journal), [source |-> source, seq |-> r.seq])
        /\ asked' = [asked EXCEPT ![p] = [source |-> source, seq |-> r.seq, fact |-> r.fact]]
  BY DEF AskOrigin
<1>3. Writable(p) /\ Install(p, BufferOf(p))
  BY DEF AskOrigin
<1>4. OriginOf(asked'[p]) = [source |-> source, seq |-> r.seq]
  BY <1>1, <1>2 DEF OriginOf
<1>5. p \in DOMAIN bufs' /\ bufs'[p] = BufferOf(p) /\ ~BufferOf(p).activating
  BY <1>3, InstallIs, BufferOfIs DEF KindInv
<1>6. Ready(p)'
  BY <1>5 DEF Ready, Buffered
<1>7. ~HoldsOrigin(Rows(bufs'[p].journal), OriginOf(asked'[p]))
  BY <1>2, <1>4, <1>5
<1>8. Lacks(p)'
  BY <1>6, <1>7 DEF Lacks
<1>9. QED
  BY <1>1, <1>2, <1>3, <1>8 DEF AskOf

LEMMA AskStays ==
  ASSUME KindInv, AskInv, [Next]_vars
  PROVE  AskInv'
<1> SUFFICES ASSUME NEW q \in Paths
             PROVE  AskOf(q)'
  BY DEF AskInv
<1>0. AskOf(q) /\ asked \in [Paths -> {Nobody} \cup [source : Paths, seq : Nat, fact : 1 .. MaxFacts]]
  BY DEF AskInv, KindInv, RestInv
<1>1. ASSUME NEW p \in Paths, AppendFacts(p)
      PROVE  AskOf(q)'
  <2>1. asked' = asked /\ asked[p] = Nobody /\ \E b : Install(p, b)
    BY <1>1 DEF AppendFacts
  <2>2. CASE q = p
    BY <2>1, <2>2 DEF AskOf
  <2>3. CASE q # p
    BY <1>0, <2>1, <2>3, InstallHolds, HoldsAsk
  <2>4. QED
    BY <2>2, <2>3
<1>2. ASSUME NEW p \in Paths, AskOrigin(p)
      PROVE  AskOf(q)'
  <2>1. CASE q = p
    BY <1>2, <2>1, AskOriginAsks
  <2>2. CASE q # p
    BY <1>0, <1>2, <2>2, AskOriginAsks, InstallHolds, HoldsAsk
  <2>3. QED
    BY <2>1, <2>2
<1>3. ASSUME NEW p \in Paths, RecordOrigin(p)
      PROVE  AskOf(q)'
  <2>1. asked' = [asked EXCEPT ![p] = Nobody] /\ ((\E b : Install(p, b)) \/ bufs' = bufs)
    BY <1>3 DEF RecordOrigin
  <2>2. CASE q = p
    BY <1>0, <2>1, <2>2 DEF AskOf
  <2>3. CASE q # p
    <3>1. asked'[q] = asked[q]
      BY <1>0, <2>1, <2>3
    <3>2. Same(q)
      BY <2>1, <2>3, InstallSame DEF Same
    <3>3. QED
      BY <1>0, <3>1, <3>2, SameHolds, HoldsAsk
  <2>4. QED
    BY <2>2, <2>3
<1>4. ASSUME NEW p \in Paths, AppendSnapshot(p)
      PROVE  AskOf(q)'
  <2>1. asked' = asked /\ Writable(p) /\ \E b : Install(p, b)
    BY <1>4 DEF AppendSnapshot
  <2>2. CASE q # p
    BY <1>0, <2>1, <2>2, InstallHolds, HoldsAsk
  <2>3. CASE q = p
    <3>1. PICK e, t :
            /\ e \in Snapshot
            /\ Grows(t, BufferOf(p).journal, <<e>>)
            /\ Install(p, [BufferOf(p) EXCEPT !.journal = t])
      BY <1>4, AppendSnapshotAdds
    <3>2. GoodBuffer(BufferOf(p)) /\ ~BufferOf(p).activating /\ (Ready(p) => BufferOf(p) = bufs[p])
      BY <2>1, BufferOfIs DEF KindInv, Ready
    <3>3. PICK b : b = BufferOf(p)
      OBVIOUS
    <3>4. PICK j : j = b.journal
      OBVIOUS
    <3>5. b \in BufferSet /\ j \in Seq(Entry) /\ Ranked(j) /\ ~b.activating
      BY <3>2, <3>3, <3>4, BufferIs DEF GoodBuffer
    <3>6. Rows(t) = Rows(j)
      BY <3>1, <3>3, <3>4, <3>5, GrowsByMemo
    <3>7. p \in DOMAIN bufs' /\ bufs'[p] = [b EXCEPT !.journal = t]
      BY <3>1, <3>3, InstallIs
    <3>8. bufs'[p].journal = t /\ ~bufs'[p].activating
      BY <3>5, <3>7 DEF BufferSet
    <3>9. Ready(p)'
      BY <3>7, <3>8 DEF Ready, Buffered
    <3>10. Holds(p)
      BY <2>1, <3>2, <3>3, <3>4, <3>6, <3>8, <3>9 DEF Holds
    <3>11. QED
      BY <1>0, <2>3, <3>10, HoldsAsk
  <2>4. QED
    BY <2>2, <2>3
<1>5. ASSUME NEW p \in Paths, Calls(p)
      PROVE  AskOf(q)'
  <2>1. Rests(q)
    BY <1>5, CallsRest DEF Resting
  <2>2. asked'[q] \in {Nobody, asked[q]}
    BY <1>5, CallsAsk
  <2>3. QED
    BY <1>0, <2>1, <2>2, RestsHold, HoldsAsk
<1>6. ASSUME NEW p \in Paths, Purge(p) \/ PurgeHalf(p)
      PROVE  AskOf(q)'
  <2>1. asked' = asked /\ client[p] = "down"
    BY <1>6 DEF Purge, PurgeHalf
  <2>2. CASE q = p
    <3>1. asked[p] = Nobody
      BY <2>1 DEF KindInv, CallerInv
    <3>2. QED
      BY <2>1, <2>2, <3>1 DEF AskOf
  <2>3. CASE q # p
    <3>1. Kept(q)
      BY <1>6, <2>3, PurgeSettles
    <3>2. QED
      BY <1>0, <2>1, <3>1, KeptHolds, HoldsAsk
  <2>4. QED
    BY <2>2, <2>3
<1>7. CASE Works
  <2>1. Rests(q) /\ asked'[q] \in {Nobody, asked[q]}
    BY <1>7, WorksRest, WorksAsk DEF Resting
  <2>2. QED
    BY <1>0, <2>1, RestsHold, HoldsAsk
<1>8. CASE Die
  BY <1>8 DEF Die, AskOf
<1>9. CASE UNCHANGED vars
  <2>1. Same(q) /\ asked'[q] = asked[q]
    BY <1>9 DEF vars, Same
  <2>2. QED
    BY <1>0, <2>1, SameHolds, HoldsAsk
<1>10. QED
  BY <1>1, <1>2, <1>3, <1>4, <1>5, <1>6, <1>7, <1>8, <1>9 DEF Next, Calls, Works

----------------------------------------------------------------------------
(* What the callers see of one path.                                       *)
SeenRight ==
  \A q \in Paths :
    /\ q \in halved => Journals[q] = <<>> /\ Anchors[q] = NoMemo
    /\ q \notin halved => /\ \A rows : rows = AnswerRows(q) => Journals[q] = FactsOf(rows)
                          /\ Anchors[q] = AnswerMemo(q)

LEMMA SeesRight == SeenRight
BY FactsAre DEF SeenRight, Journals, Anchors, AnswerMemo

LEMMA Seen ==
  ASSUME NEW q \in Paths
  PROVE  /\ q \in halved => Journals[q] = <<>> /\ Anchors[q] = NoMemo
         /\ q \notin halved => /\ \A rows : rows = AnswerRows(q) => Journals[q] = FactsOf(rows)
                               /\ Anchors[q] = AnswerMemo(q)
BY SeesRight DEF SeenRight

LEMMA SeenNext ==
  ASSUME NEW q \in Paths
  PROVE  /\ q \in halved' => Journals'[q] = <<>> /\ Anchors'[q] = NoMemo
         /\ q \notin halved' => /\ \A rows : rows = AnswerRows(q)' => Journals'[q] = FactsOf(rows)
                                /\ Anchors'[q] = AnswerMemo(q)'
<1>1. SeenRight'
  BY SeesRight, PTL
<1>2. QED
  BY <1>1 DEF SeenRight

LEMMA SeenDomains ==
  /\ Journals = [q \in Paths |-> Journals[q]] /\ Anchors = [q \in Paths |-> Anchors[q]]
  /\ Journals' = [q \in Paths |-> Journals'[q]] /\ Anchors' = [q \in Paths |-> Anchors'[q]]
<1>1. Journals = [q \in Paths |-> Journals[q]] /\ Anchors = [q \in Paths |-> Anchors[q]]
  BY DEF Journals, Anchors
<1>2. Journals' = [q \in Paths |-> Journals'[q]] /\ Anchors' = [q \in Paths |-> Anchors'[q]]
  BY DEF Journals, Anchors
<1>3. QED
  BY <1>1, <1>2

(* A path that looks the same after a step.                                *)
SameSeen(q) == Journals'[q] = Journals[q] /\ Anchors'[q] = Anchors[q]

LEMMA StandsSeen ==
  ASSUME NEW q \in Paths, q \in halved' <=> q \in halved, q \in halved \/ Stands(q)
  PROVE  SameSeen(q)
<1>1. CASE q \in halved
  BY <1>1, Seen, SeenNext DEF SameSeen
<1>2. CASE q \notin halved
  BY <1>2, Seen, SeenNext DEF SameSeen, Stands
<1>3. QED
  BY <1>1, <1>2

LEMMA RestsSeen ==
  ASSUME KindInv, KindInv', SteadyInv, NEW q \in Paths, q \in halved' <=> q \in halved, Rests(q)
  PROVE  SameSeen(q)
<1>1. CASE q \in halved
  BY <1>1, StandsSeen
<1>2. CASE q \notin halved
  <2>1. Steady(q)
    BY <1>2 DEF SteadyInv, Sound
  <2>2. QED
    BY <2>1, RestsStand, StandsSeen
<1>3. QED
  BY <1>1, <1>2

(* Steps of the abstract store, path by path.                              *)
LEMMA OneChanged ==
  ASSUME NEW S, NEW p \in S, NEW f, f = [q \in S |-> f[q]], NEW g, g = [q \in S |-> g[q]],
         \A q \in S \ {p} : g[q] = f[q], NEW v, g[p] = v
  PROVE  g = [f EXCEPT ![p] = v]
OBVIOUS

LEMMA NoneChanged ==
  ASSUME NEW S, NEW f, f = [q \in S |-> f[q]], NEW g, g = [q \in S |-> g[q]],
         \A q \in S : g[q] = f[q]
  PROVE  g = f
OBVIOUS

LEMMA StuttersSeen ==
  ASSUME \A q \in Paths : SameSeen(q), left'["death"] = left["death"]
  PROVE  UNCHANGED Abstract!vars
<1>1. Journals' = Journals
  BY SeenDomains, NoneChanged DEF SameSeen
<1>2. Anchors' = Anchors
  BY SeenDomains, NoneChanged DEF SameSeen
<1>3. QED
  BY <1>1, <1>2 DEF Abstract!vars

LEMMA ExtendSeen ==
  ASSUME NEW p \in Paths, \A q \in Paths \ {p} : SameSeen(q), Anchors'[p] = Anchors[p],
         left'["death"] = left["death"],
         NEW S, NEW s \in Seq(S), NEW t \in Seq(S), s = Journals[p], t = Journals'[p],
         Len(s) < Len(t), \A i \in 1 .. Len(s) : t[i] = s[i]
  PROVE  /\ \E rest \in Seq(S) : rest = Abstract!Fresh(p) /\ Appended(rest, s, t)
         /\ Abstract!Extend(p)
<1>0. Len(s) \in Nat /\ Len(t) \in Nat
  BY LenProperties
<1>1. PICK rest : Remains(rest, s, t)
  BY DEF Remains
<1>2. Abstract!Fresh(p) = rest
  BY <1>1 DEF Abstract!Fresh, Remains
<1>3. rest \in Seq(S) /\ Appended(rest, s, t) /\ Grows(t, s, rest)
  <2>1. Len(s) <= Len(t)
    BY <1>0
  <2>2. QED
    BY <1>1, <2>1, Prolongs
<1>4. rest # <<>>
  BY <1>0, <1>3, EmptyJournal DEF Appended
<1>5. Journals' = [Journals EXCEPT ![p] = t]
  BY SeenDomains, OneChanged DEF SameSeen
<1>6. Journals' = [Journals EXCEPT ![p] = @ \o rest]
  BY <1>3, <1>5 DEF Grows
<1>7. Anchors' = Anchors
  BY SeenDomains, NoneChanged DEF SameSeen
<1>8. Abstract!Extend(p)
  BY <1>2, <1>4, <1>6, <1>7 DEF Abstract!Extend
<1>9. QED
  BY <1>2, <1>3, <1>8

LEMMA AppendedRecords ==
  ASSUME NEW S, NEW s \in Seq(S), NEW t \in Seq(S), NEW rest \in Seq(S), Appended(rest, s, t),
         \A i \in Len(s) + 1 .. Len(t) : t[i].origin = Recorded
  PROVE  \A i \in DOMAIN rest : rest[i].origin = Recorded
<1>1. DOMAIN rest = 1 .. Len(rest)
  BY SeqIsFunction
<1>2. QED
  BY <1>1 DEF Appended

LEMMA RecordSeen ==
  ASSUME NEW p \in Paths, \A q \in Paths \ {p} : SameSeen(q), Anchors'[p] = Anchors[p],
         left'["death"] = left["death"],
         NEW S, NEW s \in Seq(S), NEW t \in Seq(S), s = Journals[p], t = Journals'[p],
         Len(s) < Len(t), \A i \in 1 .. Len(s) : t[i] = s[i],
         \A i \in Len(s) + 1 .. Len(t) : t[i].origin = Recorded
  PROVE  Abstract!Record(p)
<1>1. Abstract!Extend(p) /\ \E r \in Seq(S) : r = Abstract!Fresh(p) /\ Appended(r, s, t)
  BY ExtendSeen
<1>2. PICK rest \in Seq(S) : rest = Abstract!Fresh(p) /\ Appended(rest, s, t)
  BY <1>1
<1>3. \A i \in DOMAIN rest : rest[i].origin = Recorded
  BY <1>2, AppendedRecords
<1>4. QED
  BY <1>1, <1>2, <1>3 DEF Abstract!Record

LEMMA CheckpointSeen ==
  ASSUME NEW p \in Paths, \A q \in Paths \ {p} : SameSeen(q), Anchors'[p] = Anchors[p],
         left'["death"] = left["death"],
         NEW S, NEW s \in Seq(S), NEW t \in Seq(S), s = Journals[p], t = Journals'[p],
         Len(t) = Len(s) + 1, \A i \in 1 .. Len(s) : t[i] = s[i],
         NEW origin, t[Len(s) + 1].origin = origin, origin # Recorded,
         \A i \in 1 .. Len(s) : s[i].origin # origin
  PROVE  Abstract!Checkpoint(p)
<1>0. Len(s) \in Nat /\ Len(t) \in Nat /\ DOMAIN s = 1 .. Len(s) /\ Len(s) < Len(t)
  BY LenProperties
<1>1. Abstract!Extend(p) /\ \E r \in Seq(S) : r = Abstract!Fresh(p) /\ Appended(r, s, t)
  BY <1>0, ExtendSeen
<1>2. PICK rest \in Seq(S) : rest = Abstract!Fresh(p) /\ Appended(rest, s, t)
  BY <1>1
<1>3. Len(rest) = 1 /\ rest[1] = t[Len(s) + 1]
  BY <1>0, <1>2 DEF Appended
<1>4. ~Abstract!Holds(p, origin)
  BY <1>0 DEF Abstract!Holds
<1>5. ~Abstract!Holds(p, rest[1].origin) /\ rest[1].origin # Recorded
  BY <1>3, <1>4
<1>6. QED
  BY <1>1, <1>2, <1>3, <1>5 DEF Abstract!Checkpoint

LEMMA MemoizeSeen ==
  ASSUME NEW p \in Paths, \A q \in Paths \ {p} : SameSeen(q), Journals'[p] = Journals[p],
         left'["death"] = left["death"],
         Journals[p] # <<>>, Anchors'[p] = Len(Journals[p]) - 1
  PROVE  Abstract!Memoize(p)
<1>1. PICK a : a = Len(Journals[p]) - 1
  OBVIOUS
<1>2. Anchors' = [Anchors EXCEPT ![p] = a]
  BY <1>1, SeenDomains, OneChanged DEF SameSeen
<1>3. Journals' = Journals
  BY SeenDomains, NoneChanged DEF SameSeen
<1>4. QED
  BY <1>1, <1>2, <1>3 DEF Abstract!Memoize

LEMMA DropSeen ==
  ASSUME NEW p \in Paths, \A q \in Paths \ {p} : SameSeen(q),
         left'["death"] = left["death"], Journals'[p] = <<>>, Anchors'[p] = NoMemo
  PROVE  Abstract!Drop(p)
<1>1. Journals' = [Journals EXCEPT ![p] = <<>>]
  BY SeenDomains, OneChanged DEF SameSeen
<1>2. Anchors' = [Anchors EXCEPT ![p] = NoMemo]
  BY SeenDomains, OneChanged DEF SameSeen
<1>3. Abstract!NoAnchor = NoMemo
  BY DEF Abstract!NoAnchor, NoMemo
<1>4. QED
  BY <1>1, <1>2, <1>3 DEF Abstract!Drop

LEMMA CutSeen ==
  ASSUME NEW p \in Paths,
         NEW S, NEW s \in Seq(S), NEW t \in Seq(S), t = Journals[p], s = Journals'[p],
         Len(s) <= Len(t), \A i \in 1 .. Len(s) : t[i] = s[i],
         Anchors'[p] \in Nat \cup {NoMemo}, Anchors'[p] < Len(s), Anchors'[p] <= Anchors[p]
  PROVE  Abstract!Cut(p)
<1>1. Len(s) \in 0 .. Len(t)
  BY LenProperties
<1>2. s = SubSeq(t, 1, Len(s))
  BY Shortens
<1>3. Abstract!NoAnchor = -1 /\ NoMemo = -1
  BY DEF Abstract!NoAnchor, NoMemo
<1>4. Anchors'[p] \in Abstract!NoAnchor .. Len(s) - 1
  BY <1>1, <1>3, LenProperties
<1>5. PICK n \in 0 .. Len(t) : n = Len(s)
  BY <1>1
<1>6. QED
  BY <1>2, <1>4, <1>5 DEF Abstract!Cut

(***************************************************************************)
(* The steps of the store as steps of the abstract one.                    *)
(***************************************************************************)
LEMMA SpendsOther ==
  ASSUME KindInv, NEW what, what # "death", Spend(what)
  PROVE  left'["death"] = left["death"]
<1>1. left \in [Rare -> Nat] /\ left' = [left EXCEPT ![what] = @ - 1]
  BY DEF KindInv, RestInv, Spend
<1>2. "death" \in Rare
  BY DEF Rare
<1>3. QED
  BY <1>1, <1>2

(* An append, with the buffer's journal before and after it.               *)
LEMMA AppendSeen ==
  ASSUME KindInv, KindInv', NEW p \in Paths, Steady(p), client[p] = "live", Writable(p),
         db'[p] = db[p], NEW j, j = BufferOf(p).journal,
         NEW t, Install(p, [BufferOf(p) EXCEPT !.journal = t])
  PROVE  /\ j \in Seq(Entry) /\ Ranked(j) /\ NextSeq(j) \in Nat /\ Counts(Rows(j), NextSeq(j))
         /\ AnswerRows(p) = Rows(j) /\ AnswerMemo(p) = LastMemo(j)
         /\ AnswerRows(p)' = Rows(t) /\ AnswerMemo(p)' = LastMemo(t)
<1>1. /\ GoodBuffer(BufferOf(p)) /\ ~BufferOf(p).activating
      /\ Buffered(p) => Ready(p) /\ BufferOf(p) = bufs[p]
      /\ ~Buffered(p) => BufferOf(p) = NewBuffer
  BY BufferOfIs DEF KindInv
<1>2. j \in Seq(Entry) /\ Ranked(j) /\ NextSeq(j) \in Nat /\ Counts(Rows(j), NextSeq(j))
  BY <1>1, BufferIs DEF GoodBuffer
<1>3. AnswerRows(p) = Rows(j) /\ AnswerMemo(p) = LastMemo(j)
  <2>1. CASE Buffered(p)
    BY <1>1, <2>1, AnswerIs, NowMemo
  <2>2. CASE ~Buffered(p)
    <3>1. db[p].rows = {} /\ db[p].memo = NoMemo /\ ~Ready(p)
      BY <2>2 DEF KindInv, CallerInv, Ready
    <3>2. AnswerRows(p) = {} /\ AnswerMemo(p) = NoMemo
      BY <3>1, AnswerIs, NowMemo
    <3>3. j = <<>>
      BY <1>1, <2>2, NewBufferIs
    <3>4. Rows(j) = {} /\ LastMemo(j) = NoMemo
      BY <3>3, EmptyJournal
    <3>5. QED
      BY <3>2, <3>4
  <2>3. QED
    BY <2>1, <2>2
<1>4. PICK b : b = BufferOf(p)
  OBVIOUS
<1>5. p \in DOMAIN bufs' /\ bufs'[p] = [b EXCEPT !.journal = t]
  BY <1>4, InstallIs
<1>6. b \in BufferSet /\ ~b.activating
  BY <1>1, <1>4 DEF GoodBuffer
<1>7. bufs'[p].journal = t /\ ~bufs'[p].activating
  BY <1>5, <1>6 DEF BufferSet
<1>8. Ready(p)'
  BY <1>5, <1>7 DEF Ready, Buffered
<1>9. Table(db'[p]) /\ Whole(db'[p])
  BY DEF Steady, KindInv, TableInv
<1>10. AnswerRows(p)' = Rows(t)
  BY <1>7, <1>8, <1>9, NextAnswer
<1>11. AnswerMemo(p)' = LastMemo(t)
  BY <1>7, <1>8, NextMemo
<1>12. QED
  BY <1>2, <1>3, <1>10, <1>11

(* Rows that are appended prolong the facts.                               *)
LEMMA GrowsFacts ==
  ASSUME NEW j \in Seq(Entry), Ranked(j), NEW n \in Nat, Counts(Rows(j), n),
         NEW fresh \in Seq(Entry),
         \A i \in DOMAIN fresh : fresh[i] \in Row /\ fresh[i].seq = n + i - 1,
         NEW t, Grows(t, j, fresh),
         NEW s, Tells(s, Rows(j)), NEW u, Tells(u, Rows(t))
  PROVE  /\ s \in Seq(FactSet) /\ u \in Seq(FactSet)
         /\ Len(s) = n /\ Len(u) = n + Len(fresh)
         /\ \A i \in 1 .. Len(s) : u[i] = s[i] /\ \E r \in Rows(j) : s[i] = FactIn(r)
         /\ \A i \in Len(s) + 1 .. Len(u) : \E k \in DOMAIN fresh : u[i] = FactIn(fresh[k])
         /\ LastMemo(t) = LastMemo(j)
<1>1. PICK rows : rows = Rows(j)
  OBVIOUS
<1>2. PICK more : more = Rows(t)
  OBVIOUS
<1>3. t \in Seq(Entry) /\ Len(fresh) \in Nat
  BY ConcatIs, LenProperties
<1>4. rows \subseteq Row /\ more \subseteq Row
  BY <1>1, <1>2, <1>3, JournalIs
<1>5. Counts(rows, n) /\ Counts(more, n + Len(fresh)) /\ LastMemo(t) = LastMemo(j)
  BY <1>1, <1>2, GrowsByRows
<1>6. more = rows \cup Rows(fresh)
  BY <1>1, <1>2, GrowsKinds
<1>7. PICK m \in Nat : m = n + Len(fresh)
  BY <1>3
<1>8. Cardinality(rows) = n /\ Numbered(rows)
  BY <1>4, <1>5, CountIs
<1>9. Cardinality(more) = m /\ Numbered(more)
  BY <1>4, <1>5, <1>7, CountIs
<1>10. /\ s \in Seq(FactSet) /\ u \in Seq(FactSet)
       /\ Len(s) = n /\ Len(u) = m
       /\ \A i \in 1 .. Len(s) : u[i] = s[i]
       /\ \A i \in Len(s) + 1 .. Len(u) :
            \E r \in more \ rows : r.seq = i - 1 /\ u[i] = FactIn(r)
  <2>1. Tells(s, rows) /\ Tells(u, more) /\ rows \subseteq more
    BY <1>1, <1>2, <1>6
  <2>2. Cardinality(more) \in Nat /\ Cardinality(rows) \in Nat
    BY <1>8, <1>9
  <2>3. QED
    BY <1>4, <1>8, <1>9, <2>1, <2>2, FactsAgree
<1>11. \A i \in 1 .. n : \E r \in rows : s[i] = FactIn(r)
  <2>1. /\ \A r \in rows : r.seq \in Nat /\ s[r.seq + 1] = FactIn(r)
        /\ \A i \in 1 .. n : \E r \in rows : r.seq = i - 1
    BY <1>1, <1>4, <1>8, FactsIs DEF Tells
  <2>2. ASSUME NEW i \in 1 .. n
        PROVE  \E r \in rows : s[i] = FactIn(r)
    <3>1. PICK r \in rows : r.seq = i - 1
      BY <2>1
    <3>2. r.seq + 1 = i
      BY <3>1
    <3>3. QED
      BY <2>1, <3>2
  <2>3. QED
    BY <2>2
<1>12. \A r \in more \ rows : \E k \in DOMAIN fresh : r = fresh[k]
  <2>1. Rows(fresh) = {fresh[k] : k \in Places(fresh)} /\ Places(fresh) \subseteq DOMAIN fresh
    BY JournalIs
  <2>2. QED
    BY <1>6, <2>1
<1>13. \A i \in Len(s) + 1 .. Len(u) : \E k \in DOMAIN fresh : u[i] = FactIn(fresh[k])
  BY <1>10, <1>12
<1>14. QED
  BY <1>1, <1>5, <1>7, <1>10, <1>11, <1>13

LEMMA GrowingSeen ==
  ASSUME KindInv, KindInv', SteadyInv, NEW p \in Paths, Growing(p)
  PROVE  /\ \A q \in Paths \ {p} : SameSeen(q)
         /\ p \in halved => SameSeen(p)
         /\ p \notin halved => p \notin halved' /\ Steady(p)
         /\ db'[p] = db[p] /\ client[p] = "live" /\ Writable(p)
<1>1. halved' = halved /\ db' = db /\ Grown(p) /\ \A q \in Paths \ {p} : Rests(q)
  BY DEF Growing, Rests
<1>2. \A q \in Paths \ {p} : SameSeen(q)
  BY <1>1, RestsSeen
<1>3. p \in halved => SameSeen(p)
  BY <1>1, StandsSeen
<1>4. p \notin halved => Steady(p)
  BY DEF SteadyInv, Sound
<1>5. QED
  BY <1>1, <1>2, <1>3, <1>4 DEF Grown

LEMMA AppendFactsSeen ==
  ASSUME KindInv, KindInv', SteadyInv, NEW p \in Paths, AppendFacts(p)
  PROVE  [Abstract!Next]_Abstract!vars
<1>1. Growing(p) /\ left'["death"] = left["death"]
  BY AppendFactsGrows
<1>2. CASE p \in halved
  <2>1. \A q \in Paths : SameSeen(q)
    BY <1>1, <1>2, GrowingSeen
  <2>2. QED
    BY <1>1, <2>1, StuttersSeen
<1>3. CASE p \notin halved
  <2>1. PICK j : j = BufferOf(p).journal
    OBVIOUS
  <2>2. PICK fresh, t :
          /\ fresh \in Seq(Entry)
          /\ Grows(t, j, fresh)
          /\ Install(p, [BufferOf(p) EXCEPT !.journal = t])
          /\ Len(fresh) > 0
          /\ \A i \in DOMAIN fresh : /\ fresh[i] \in Row /\ fresh[i].origin = Recorded
                                     /\ fresh[i].seq = NextSeq(j) + i - 1
    BY <2>1, AppendFactsAdds
  <2>3. /\ p \notin halved' /\ Steady(p) /\ db'[p] = db[p] /\ client[p] = "live" /\ Writable(p)
        /\ \A q \in Paths \ {p} : SameSeen(q)
    BY <1>1, <1>3, GrowingSeen
  <2>4. /\ j \in Seq(Entry) /\ Ranked(j) /\ NextSeq(j) \in Nat /\ Counts(Rows(j), NextSeq(j))
        /\ AnswerRows(p) = Rows(j) /\ AnswerMemo(p) = LastMemo(j)
        /\ AnswerRows(p)' = Rows(t) /\ AnswerMemo(p)' = LastMemo(t)
    BY <2>1, <2>2, <2>3, AppendSeen
  <2>5. PICK s : Tells(s, Rows(j))
    BY DEF Tells
  <2>6. PICK u : Tells(u, Rows(t))
    BY DEF Tells
  <2>7. PICK n \in Nat : n = NextSeq(j)
    BY <2>4
  <2>8. /\ s \in Seq(FactSet) /\ u \in Seq(FactSet)
        /\ Len(s) = n /\ Len(u) = n + Len(fresh)
        /\ \A i \in 1 .. Len(s) : u[i] = s[i]
        /\ \A i \in Len(s) + 1 .. Len(u) : \E k \in DOMAIN fresh : u[i] = FactIn(fresh[k])
        /\ LastMemo(t) = LastMemo(j)
    <3>1. Counts(Rows(j), n)
      BY <2>4, <2>7
    <3>2. \A i \in DOMAIN fresh : fresh[i] \in Row /\ fresh[i].seq = n + i - 1
      BY <2>2, <2>7
    <3>3. QED
      BY <2>2, <2>4, <2>5, <2>6, <3>1, <3>2, GrowsFacts, SMTT(30)
  <2>9. Len(s) < Len(u)
    BY <2>2, <2>8, LenProperties
  <2>10. \A i \in Len(s) + 1 .. Len(u) : u[i].origin = Recorded
    <3>1. \A k \in DOMAIN fresh : FactIn(fresh[k]).origin = Recorded
      BY <2>2 DEF FactIn
    <3>2. QED
      BY <2>8, <3>1
  <2>11. PICK rows : rows = AnswerRows(p)
    OBVIOUS
  <2>12. PICK more : more = AnswerRows(p)'
    OBVIOUS
  <2>13. Journals[p] = FactsOf(rows) /\ Journals'[p] = FactsOf(more)
    BY <1>3, <2>3, <2>11, <2>12, Seen, SeenNext
  <2>14. s = Journals[p] /\ u = Journals'[p]
    BY <2>4, <2>5, <2>6, <2>11, <2>12, <2>13 DEF Tells
  <2>15. Anchors'[p] = Anchors[p]
    BY <1>3, <2>3, <2>4, <2>8, Seen, SeenNext
  <2>16. Abstract!Record(p)
    BY <1>1, <2>3, <2>8, <2>9, <2>10, <2>14, <2>15, RecordSeen
  <2>17. QED
    BY <2>16 DEF Abstract!Next
<1>4. QED
  BY <1>2, <1>3

LEMMA AskOriginSeen ==
  ASSUME KindInv, KindInv', SteadyInv, NEW p \in Paths, AskOrigin(p)
  PROVE  UNCHANGED Abstract!vars
<1>1. Growing(p) /\ left'["death"] = left["death"]
  BY AskOriginGrows
<1>2. /\ \A q \in Paths \ {p} : SameSeen(q)
      /\ p \in halved => SameSeen(p)
      /\ p \notin halved => p \notin halved' /\ Steady(p)
      /\ db'[p] = db[p] /\ client[p] = "live" /\ Writable(p)
  BY <1>1, GrowingSeen
<1>3. ASSUME p \notin halved
      PROVE  SameSeen(p)
  <2>1. PICK b : b = BufferOf(p)
    OBVIOUS
  <2>2. PICK j : j = b.journal
    OBVIOUS
  <2>3. b \in BufferSet
    BY <1>2, <2>1, BufferOfIs DEF KindInv, GoodBuffer
  <2>4. b = [b EXCEPT !.journal = j]
    BY <2>2, <2>3 DEF BufferSet
  <2>5. Install(p, b)
    BY <2>1 DEF AskOrigin
  <2>6. Install(p, [BufferOf(p) EXCEPT !.journal = j])
    BY <2>1, <2>4, <2>5
  <2>7. Stands(p)
    BY <1>2, <1>3, <2>1, <2>2, <2>6, AppendSeen DEF Stands
  <2>8. QED
    BY <1>2, <1>3, <2>7, StandsSeen
<1>4. \A q \in Paths : SameSeen(q)
  BY <1>2, <1>3
<1>5. QED
  BY <1>1, <1>4, StuttersSeen

LEMMA AppendSnapshotSeen ==
  ASSUME KindInv, KindInv', SteadyInv, NEW p \in Paths, AppendSnapshot(p)
  PROVE  [Abstract!Next]_Abstract!vars
<1>1. Growing(p) /\ left'["death"] = left["death"]
  BY AppendSnapshotGrows, SpendsOther
<1>2. /\ \A q \in Paths \ {p} : SameSeen(q)
      /\ p \in halved => SameSeen(p)
      /\ p \notin halved => p \notin halved' /\ Steady(p)
      /\ db'[p] = db[p] /\ client[p] = "live" /\ Writable(p)
  BY <1>1, GrowingSeen
<1>3. CASE p \in halved
  <2>1. \A q \in Paths : SameSeen(q)
    BY <1>2, <1>3
  <2>2. QED
    BY <1>1, <2>1, StuttersSeen
<1>4. CASE p \notin halved
  <2>1. PICK j : j = BufferOf(p).journal
    OBVIOUS
  <2>2. PICK e, t :
          /\ e \in Snapshot
          /\ e.memo = NextSeq(j) - 1
          /\ Grows(t, j, <<e>>)
          /\ Install(p, [BufferOf(p) EXCEPT !.journal = t])
    BY <2>1, AppendSnapshotAdds
  <2>3. NextSeq(j) \in Nat \ {0}
    BY <2>1, AppendSnapshotAdds
  <2>4. /\ j \in Seq(Entry) /\ Ranked(j) /\ Counts(Rows(j), NextSeq(j))
        /\ AnswerRows(p) = Rows(j)
        /\ AnswerRows(p)' = Rows(t) /\ AnswerMemo(p)' = LastMemo(t)
    BY <1>2, <1>4, <2>1, <2>2, AppendSeen
  <2>5. Rows(t) = Rows(j) /\ LastMemo(t) = e.memo
    BY <2>2, <2>4, GrowsByMemo
  <2>6. PICK rows : rows = Rows(j)
    OBVIOUS
  <2>7. rows \subseteq Row /\ Numbered(rows) /\ Cardinality(rows) = NextSeq(j)
    BY <2>3, <2>4, <2>6, JournalIs, CountIs
  <2>8. FactsOf(rows) \in Seq(FactSet) /\ Len(FactsOf(rows)) = NextSeq(j)
    BY <2>3, <2>7, FactsIs
  <2>9. Journals[p] = FactsOf(rows) /\ Journals'[p] = FactsOf(rows) /\ Anchors'[p] = AnswerMemo(p)'
    BY <1>2, <1>4, <2>4, <2>5, <2>6, Seen, SeenNext
  <2>10. PICK s : s = FactsOf(rows)
    OBVIOUS
  <2>11. s # <<>> /\ Anchors'[p] = Len(s) - 1
    BY <2>2, <2>3, <2>4, <2>5, <2>8, <2>9, <2>10, EmptyJournal
  <2>12. Abstract!Memoize(p)
    BY <1>1, <1>2, <2>9, <2>10, <2>11, MemoizeSeen
  <2>13. QED
    BY <2>12 DEF Abstract!Next
<1>5. QED
  BY <1>3, <1>4

LEMMA RecordOriginSeen ==
  ASSUME KindInv, KindInv', SteadyInv, AskInv, NEW p \in Paths, RecordOrigin(p)
  PROVE  [Abstract!Next]_Abstract!vars
<1>1. left'["death"] = left["death"]
  BY RecordOriginGrows
<1>2. CASE UNCHANGED <<bufs, ingest>>
  <2>1. UNCHANGED <<bufs, db, ingest, halved>> /\ drain' = drain
    BY <1>2 DEF RecordOrigin
  <2>2. Resting
    BY <2>1, StillRests
  <2>3. \A q \in Paths : SameSeen(q)
    BY <2>2, RestsSeen DEF Resting
  <2>4. QED
    BY <1>1, <2>3, StuttersSeen
<1>3. CASE ~UNCHANGED <<bufs, ingest>>
  <2>1. Growing(p)
    BY <1>3, RecordOriginGrows
  <2>2. /\ \A q \in Paths \ {p} : SameSeen(q)
        /\ p \in halved => SameSeen(p)
        /\ p \notin halved => p \notin halved' /\ Steady(p)
        /\ db'[p] = db[p] /\ client[p] = "live" /\ Writable(p)
    BY <2>1, GrowingSeen
  <2>3. CASE p \in halved
    <3>1. \A q \in Paths : SameSeen(q)
      BY <2>2, <2>3
    <3>2. QED
      BY <1>1, <3>1, StuttersSeen
  <2>4. CASE p \notin halved
    <3>1. PICK j : j = BufferOf(p).journal
      OBVIOUS
    <3>2. PICK e, t :
            /\ e \in Row
            /\ e.seq = NextSeq(j) /\ e.origin = OriginOf(asked[p]) /\ e.origin # Recorded
            /\ Grows(t, j, <<e>>)
            /\ Install(p, [BufferOf(p) EXCEPT !.journal = t])
      BY <1>3, <3>1, RecordOriginAdds
    <3>3. PICK origin : origin = OriginOf(asked[p])
      OBVIOUS
    <3>4. ~HoldsOrigin(Rows(j), origin)
      <4>1. asked[p] # Nobody
        BY DEF RecordOrigin
      <4>2. Ready(p) /\ ~HoldsOrigin(Rows(bufs[p].journal), origin)
        BY <3>3, <4>1 DEF AskInv, AskOf, Lacks
      <4>3. BufferOf(p) = bufs[p]
        BY <4>2 DEF Ready, BufferOf
      <4>4. QED
        BY <3>1, <4>2, <4>3
    <3>5. /\ j \in Seq(Entry) /\ Ranked(j) /\ NextSeq(j) \in Nat /\ Counts(Rows(j), NextSeq(j))
          /\ AnswerRows(p) = Rows(j) /\ AnswerMemo(p) = LastMemo(j)
          /\ AnswerRows(p)' = Rows(t) /\ AnswerMemo(p)' = LastMemo(t)
      BY <2>2, <2>4, <3>1, <3>2, AppendSeen
    <3>6. PICK fresh : fresh = <<e>>
      OBVIOUS
    <3>7. fresh \in Seq(Entry) /\ Len(fresh) = 1 /\ DOMAIN fresh = {1} /\ fresh[1] = e
      <4>1. PICK t1 : t1 = Append(j, e)
        OBVIOUS
      <4>2. e \in Entry
        BY <3>2 DEF Entry
      <4>3. QED
        BY <3>5, <3>6, <4>1, <4>2, AppendGrows
    <3>8. PICK s : Tells(s, Rows(j))
      BY DEF Tells
    <3>9. PICK u : Tells(u, Rows(t))
      BY DEF Tells
    <3>10. PICK n \in Nat : n = NextSeq(j)
      BY <3>5
    <3>11. /\ s \in Seq(FactSet) /\ u \in Seq(FactSet)
           /\ Len(s) = n /\ Len(u) = n + Len(fresh)
           /\ \A i \in 1 .. Len(s) : u[i] = s[i] /\ \E r \in Rows(j) : s[i] = FactIn(r)
           /\ \A i \in Len(s) + 1 .. Len(u) : \E k \in DOMAIN fresh : u[i] = FactIn(fresh[k])
           /\ LastMemo(t) = LastMemo(j)
      <4>1. Counts(Rows(j), n)
        BY <3>5, <3>10
      <4>2. \A i \in DOMAIN fresh : fresh[i] \in Row /\ fresh[i].seq = n + i - 1
        BY <3>2, <3>7, <3>10
      <4>3. Grows(t, j, fresh)
        BY <3>2, <3>6
      <4>4. fresh \in Seq(Entry) /\ j \in Seq(Entry) /\ Ranked(j)
        BY <3>5, <3>7
      <4>5. QED
        BY <3>8, <3>9, <4>1, <4>2, <4>3, <4>4, GrowsFacts
    <3>12. \A r : FactIn(r).origin = r.origin
      BY DEF FactIn
    <3>13. Len(u) = Len(s) + 1 /\ u[Len(s) + 1].origin = origin /\ origin # Recorded
      <4>1. Len(u) = n + 1 /\ Len(s) + 1 \in Len(s) + 1 .. Len(u)
        BY <3>7, <3>11
      <4>2. PICK k \in DOMAIN fresh : u[Len(s) + 1] = FactIn(fresh[k])
        BY <3>11, <4>1
      <4>3. fresh[k] = e
        BY <3>7
      <4>4. QED
        BY <3>2, <3>3, <3>11, <3>12, <4>1, <4>2, <4>3
    <3>14. \A i \in 1 .. Len(s) : s[i].origin # origin
      BY <3>4, <3>11, <3>12 DEF HoldsOrigin
    <3>15. PICK rows : rows = AnswerRows(p)
      OBVIOUS
    <3>16. PICK more : more = AnswerRows(p)'
      OBVIOUS
    <3>17. Journals[p] = FactsOf(rows) /\ Journals'[p] = FactsOf(more)
      BY <2>2, <2>4, <3>15, <3>16, Seen, SeenNext
    <3>18. s = Journals[p] /\ u = Journals'[p]
      BY <3>5, <3>8, <3>9, <3>15, <3>16, <3>17 DEF Tells
    <3>19. Anchors'[p] = Anchors[p]
      BY <2>2, <2>4, <3>5, <3>11, Seen, SeenNext
    <3>20. \A i \in 1 .. Len(s) : u[i] = s[i]
      BY <3>11
    <3>21. Abstract!Checkpoint(p)
      BY <1>1, <2>2, <3>11, <3>13, <3>14, <3>18, <3>19, <3>20, CheckpointSeen, SMTT(30)
    <3>22. QED
      BY <3>21 DEF Abstract!Next
  <2>5. QED
    BY <2>3, <2>4
<1>4. QED
  BY <1>2, <1>3

LEMMA CallsSpend ==
  ASSUME NEW p, Calls(p)
  PROVE  left'["death"] = left["death"]
BY DEF Calls, Leave, Passivate, PassivateDurable, LoadRetained, LoadCold

LEMMA WorksSpend ==
  ASSUME KindInv, Works
  PROVE  left'["death"] = left["death"]
<1>1. left' = left \/ Spend("write") \/ Spend("read") \/ Spend("scan") \/ Spend("abort")
  BY DEF Works, BeginFlush, BeginScan, Abort, Finish, WriteTx, TxFails, CommitFlush, FinishLoad,
         FailLoad, EndScan
<1>2. QED
  BY <1>1, SpendsOther

(* Flushes, loads, passivations, failures and aborted calls do not show.   *)
LEMMA RestingSeen ==
  ASSUME KindInv, KindInv', SteadyInv, Resting, left'["death"] = left["death"]
  PROVE  UNCHANGED Abstract!vars
<1>1. \A q \in Paths : SameSeen(q)
  BY RestsSeen DEF Resting
<1>2. QED
  BY <1>1, StuttersSeen

LEMMA PurgeSeen ==
  ASSUME KindInv, KindInv', SteadyInv, NEW p \in Paths, Purge(p) \/ PurgeHalf(p)
  PROVE  Abstract!Drop(p)
<1>1. left'["death"] = left["death"]
  BY SpendsOther DEF Purge, PurgeHalf
<1>2. \A q \in Paths \ {p} : q \in halved' <=> q \in halved
  BY DEF Purge, PurgeHalf
<1>3. \A q \in Paths \ {p} : SameSeen(q)
  BY <1>2, PurgeSettles, RestsSeen DEF Rests
<1>4. Journals'[p] = <<>> /\ Anchors'[p] = NoMemo
  <2>1. CASE p \in halved'
    BY <2>1, SeenNext
  <2>2. CASE p \notin halved'
    <3>1. Emptied(p)
      BY <2>2, PurgeSettles
    <3>2. AnswerRows(p)' = {}
      BY <3>1, EmptiedSteady DEF Cleared
    <3>3. ~Ready(p)' /\ db'[p].memo = NoMemo
      BY <3>1 DEF Emptied, Ready, Buffered
    <3>4. AnswerMemo(p)' = NoMemo
      BY <3>3, NextMemo
    <3>5. QED
      BY <2>2, <3>2, <3>4, SeenNext, NoFacts
  <2>3. QED
    BY <2>1, <2>2
<1>5. QED
  BY <1>1, <1>3, <1>4, DropSeen

LEMMA DieSeen ==
  ASSUME KindInv, KindInv', SteadyInv, Die
  PROVE  Abstract!Die
<1>1. halved' = halved /\ \A q \in Paths : Lost(q)
  BY DieLoses DEF Dying
<1>2. left'["death"] = left["death"] - 1
  <2>1. left \in [Rare -> Nat] /\ "death" \in Rare
    BY DEF KindInv, RestInv, Rare
  <2>2. left' = [left EXCEPT !["death"] = @ - 1]
    BY DEF Die, Spend
  <2>3. QED
    BY <2>1, <2>2
<1>3. ASSUME NEW p \in Paths
      PROVE  Abstract!Cut(p)
  <2>1. CASE p \in halved
    <3>1. Journals[p] = <<>> /\ Journals'[p] = <<>> /\ Anchors[p] = NoMemo /\ Anchors'[p] = NoMemo
      BY <1>1, <2>1, Seen, SeenNext
    <3>2. PICK s \in Seq(Entry) : s = <<>> /\ Len(s) = 0
      BY EmptyJournal
    <3>3. /\ NoMemo \in Nat \cup {NoMemo} /\ NoMemo < Len(s) /\ NoMemo <= NoMemo
          /\ Len(s) <= Len(s) /\ \A i \in 1 .. Len(s) : s[i] = s[i]
      BY <3>2 DEF NoMemo
    <3>4. QED
      BY <3>1, <3>2, <3>3, CutSeen
  <2>2. CASE p \notin halved
    <3>1. Lost(p) /\ Steady(p)
      BY <1>1, <2>2 DEF SteadyInv, Sound
    <3>2. AnswerRows(p)' = db[p].rows
      BY <3>1, LostSteady DEF CutOff
    <3>3. AnswerMemo(p)' = db[p].memo
      BY <3>1, NextMemo DEF Lost, Ready, Buffered
    <3>4. PICK rows : rows = db[p].rows
      OBVIOUS
    <3>5. PICK more : more = AnswerRows(p)
      OBVIOUS
    <3>6. /\ rows \subseteq more /\ more \subseteq Row /\ Numbered(more)
          /\ Cardinality(more) \in Nat
      BY <3>1, <3>4, <3>5, AnswerIs
    <3>7. /\ db[p].memo \in Nat \cup {NoMemo} /\ Cardinality(rows) \in Nat /\ Numbered(rows)
          /\ db[p].memo <= AnswerMemo(p) /\ db[p].memo < Cardinality(rows)
      BY <3>1, <3>4, StoredMemo
    <3>8. PICK s : Tells(s, rows)
      BY DEF Tells
    <3>9. PICK t : Tells(t, more)
      BY DEF Tells
    <3>10. /\ s \in Seq(FactSet) /\ t \in Seq(FactSet)
           /\ Len(s) = Cardinality(rows) /\ Len(s) <= Len(t)
           /\ \A i \in 1 .. Len(s) : t[i] = s[i]
      BY <3>6, <3>7, <3>8, <3>9, FactsAgree
    <3>11. Journals[p] = FactsOf(more) /\ Journals'[p] = FactsOf(rows)
      BY <1>1, <2>2, <3>2, <3>4, <3>5, Seen, SeenNext
    <3>12. t = Journals[p] /\ s = Journals'[p]
      BY <3>8, <3>9, <3>11 DEF Tells
    <3>13. Anchors[p] = AnswerMemo(p) /\ Anchors'[p] = db[p].memo
      BY <1>1, <2>2, <3>3, Seen, SeenNext
    <3>14. /\ Anchors'[p] \in Nat \cup {NoMemo} /\ Anchors'[p] < Len(s)
           /\ Anchors'[p] <= Anchors[p]
      BY <3>7, <3>10, <3>13
    <3>15. QED
      BY <3>10, <3>12, <3>14, CutSeen
  <2>3. QED
    BY <2>1, <2>2
<1>4. DOMAIN Journals' = Paths /\ DOMAIN Anchors' = Paths
  BY DEF Journals, Anchors
<1>5. QED
  BY <1>2, <1>3, <1>4 DEF Abstract!Die

LEMMA StepSeen ==
  ASSUME KindInv, KindInv', SteadyInv, AskInv, [Next]_vars
  PROVE  [Abstract!Next]_Abstract!vars
<1>1. ASSUME NEW p \in Paths, AppendFacts(p) \/ RecordOrigin(p) \/ AppendSnapshot(p)
      PROVE  [Abstract!Next]_Abstract!vars
  BY <1>1, AppendFactsSeen, RecordOriginSeen, AppendSnapshotSeen
<1>2. ASSUME NEW p \in Paths, AskOrigin(p) \/ Calls(p)
      PROVE  UNCHANGED Abstract!vars
  BY <1>2, AskOriginSeen, CallsRest, CallsSpend, RestingSeen
<1>3. ASSUME NEW p \in Paths, Purge(p) \/ PurgeHalf(p)
      PROVE  Abstract!Next
  BY <1>3, PurgeSeen DEF Abstract!Next
<1>4. CASE Works
  BY <1>4, WorksRest, WorksSpend, RestingSeen
<1>5. CASE Die
  BY <1>5, DieSeen DEF Abstract!Next
<1>6. CASE UNCHANGED vars
  BY <1>6, StillRests, RestingSeen DEF vars
<1>7. QED
  BY <1>1, <1>2, <1>3, <1>4, <1>5, <1>6 DEF Next, Calls, Works

LEMMA StartSeen ==
  ASSUME KindInv, SteadyInv, Init
  PROVE  Abstract!Init
<1>1. ASSUME NEW p \in Paths
      PROVE  Journals[p] = <<>> /\ Anchors[p] = NoMemo
  <2>1. /\ p \notin halved /\ Steady(p) /\ ~Ready(p)
        /\ db[p].rows = {} /\ db[p].memo = NoMemo
    BY DEF Init, SteadyInv, Sound, Ready, Buffered
  <2>2. AnswerRows(p) = {} /\ AnswerMemo(p) = NoMemo
    BY <2>1, AnswerIs, NowMemo
  <2>3. QED
    BY <2>1, <2>2, Seen, NoFacts
<1>2. Journals = [p \in Paths |-> <<>>]
  BY <1>1, SeenDomains
<1>3. Anchors = [p \in Paths |-> NoMemo]
  BY <1>1, SeenDomains
<1>4. left["death"] \in Nat
  BY DaowAssumption DEF Init, Rare
<1>5. Abstract!NoAnchor = NoMemo
  BY DEF Abstract!NoAnchor, NoMemo
<1>6. QED
  BY <1>2, <1>3, <1>4, <1>5 DEF Abstract!Init

(* What load answers is a journal per path that grows at its end and whose *)
(* seeds are one of each origin; flushes, failed transactions, aborted     *)
(* calls, passivations and cold loads do not show in it, and a death of    *)
(* the process leaves a beginning of each journal, with a snapshot that    *)
(* covers no more than what is left (DaowJournalStore, a JournalStore).    *)
THEOREM StoreImplementsJournalStore == Spec => ImplementsJournalStore
<1>1. Init => KindInv /\ SteadyInv /\ AskInv
  BY KindsStart, SteadyStart, AskStarts
<1>2. KindInv /\ SteadyInv /\ Init => Abstract!Init
  BY StartSeen
<1>3. KindInv /\ AskInv /\ [Next]_vars => AskInv'
  BY AskStays
<1>4. KindInv /\ KindInv' /\ StoreInv /\ AskInv /\ [Next]_vars => [Abstract!Next]_Abstract!vars
  BY StepSeen DEF StoreInv
<1>5. Spec => [](KindInv /\ StoreInv /\ AskInv)
  BY <1>1, <1>3, Kinds, Stores, PTL DEF Spec
<1>6. QED
  BY <1>1, <1>2, <1>4, <1>5, PTL DEF Spec, ImplementsJournalStore, Abstract!Spec
=============================================================================
