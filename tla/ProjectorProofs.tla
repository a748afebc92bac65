--------------------------- MODULE ProjectorProofs ---------------------------
(***************************************************************************)
(* Proofs about Projector, for every set of sources, number of facts,      *)
(* batch, mode and budget of faults; where once and in order needs the     *)
(* journal to be of checkpoints, or the batch to be one, a theorem says so.*)
(***************************************************************************)
EXTENDS Projector, Integers, FiniteSetTheorems, SequenceTheorems, TLAPS

----------------------------------------------------------------------------
(* Sequences, as functions on an interval.                                 *)

(* A sequence is a function on an interval.                                *)
LEMMA SeqIsFunction ==
  ASSUME NEW S, NEW s \in Seq(S)
  PROVE  /\ Len(s) \in Nat /\ DOMAIN s = 1 .. Len(s)
         /\ s \in [1 .. Len(s) -> S]
         /\ \A k \in DOMAIN s : s[k] \in S
<1>1. Len(s) \in Nat /\ DOMAIN s = 1 .. Len(s) /\ s \in [1 .. Len(s) -> S]
  BY LenProperties
<1>2. QED
  BY <1>1

LEMMA FunctionIsSeq ==
  ASSUME NEW S, NEW n \in Nat, NEW s \in [1 .. n -> S]
  PROVE  s \in Seq(S) /\ Len(s) = n /\ DOMAIN s = 1 .. n
<1>1. s \in Seq(S)
  BY SeqDef
<1>2. DOMAIN s = 1 .. n /\ Len(s) \in Nat /\ DOMAIN s = 1 .. Len(s)
  BY <1>1, LenProperties
<1>3. QED
  BY <1>1, <1>2

(* What is appended comes last and nothing before it changes.              *)
LEMMA AppendedIs ==
  ASSUME NEW S, NEW s \in Seq(S), NEW e \in S, NEW t, t = Append(s, e)
  PROVE  /\ t \in Seq(S) /\ Len(t) = Len(s) + 1
         /\ Len(s) \in Nat /\ DOMAIN s = 1 .. Len(s) /\ DOMAIN t = 1 .. Len(s) + 1
         /\ \A k \in DOMAIN s : t[k] = s[k]
         /\ t[Len(s) + 1] = e
<1>1. t \in Seq(S) /\ Len(t) = Len(s) + 1 /\ t[Len(s) + 1] = e
  BY AppendProperties
<1>2. \A k \in 1 .. Len(s) : t[k] = s[k]
  BY AppendProperties
<1>3. Len(s) \in Nat /\ DOMAIN s = 1 .. Len(s) /\ DOMAIN t = 1 .. Len(t)
  BY <1>1, LenProperties
<1>4. QED
  BY <1>1, <1>2, <1>3

LEMMA SmallSeqs ==
  ASSUME NEW S
  PROVE  <<>> \in Seq(S) /\ \A e \in S : <<e>> \in Seq(S)
<1>1. <<>> \in [1 .. 0 -> S]
  OBVIOUS
<1>2. \A e \in S : <<e>> \in [1 .. 1 -> S]
  OBVIOUS
<1>3. QED
  BY <1>1, <1>2, SeqDef

LEMMA RangeAppend ==
  ASSUME NEW S, NEW s \in Seq(S), NEW e \in S
  PROVE  /\ Append(s, e) \in Seq(S)
         /\ Range(Append(s, e)) = Range(s) \cup {e}
         /\ IsInjective(s) /\ e \notin Range(s) => IsInjective(Append(s, e))
<1>1. PICK t : t = Append(s, e)
  OBVIOUS
<1>2. /\ t \in Seq(S) /\ Len(s) \in Nat
      /\ DOMAIN s = 1 .. Len(s) /\ DOMAIN t = 1 .. Len(s) + 1
      /\ \A k \in DOMAIN s : t[k] = s[k]
      /\ t[Len(s) + 1] = e
  BY <1>1, AppendedIs
<1>3. DOMAIN t = DOMAIN s \cup {Len(s) + 1}
  BY <1>2
<1>4. Range(t) = Range(s) \cup {e}
  BY <1>2, <1>3 DEF Range
<1>5. IsInjective(s) /\ e \notin Range(s) => IsInjective(t)
  BY <1>2, <1>3 DEF Range, IsInjective
<1>6. QED
  BY <1>1, <1>2, <1>4, <1>5

LEMMA RangeConcat ==
  ASSUME NEW S, NEW s \in Seq(S), NEW t \in Seq(S)
  PROVE  /\ s \o t \in Seq(S)
         /\ Range(s \o t) = Range(s) \cup Range(t)
         /\ IsInjective(s) /\ IsInjective(t) /\ Range(s) \cap Range(t) = {}
              => IsInjective(s \o t)
<1>1. PICK u : u = s \o t
  OBVIOUS
<1>2. /\ u \in Seq(S)
      /\ Len(s) \in Nat /\ Len(t) \in Nat
      /\ DOMAIN s = 1 .. Len(s) /\ DOMAIN t = 1 .. Len(t)
      /\ DOMAIN u = 1 .. Len(s) + Len(t)
      /\ \A k \in 1 .. Len(s) + Len(t) :
           u[k] = IF k <= Len(s) THEN s[k] ELSE t[k - Len(s)]
  BY <1>1, ConcatProperties, LenProperties
<1>3. \A k \in DOMAIN u : \/ k \in DOMAIN s /\ u[k] = s[k]
                          \/ k - Len(s) \in DOMAIN t /\ u[k] = t[k - Len(s)]
  BY <1>2
<1>4. /\ \A k \in DOMAIN s : k \in DOMAIN u /\ u[k] = s[k]
      /\ \A k \in DOMAIN t : k + Len(s) \in DOMAIN u /\ u[k + Len(s)] = t[k]
  <2>1. \A k \in DOMAIN t : k + Len(s) \in DOMAIN u /\ (k + Len(s)) - Len(s) = k
                            /\ ~(k + Len(s) <= Len(s))
    BY <1>2
  <2>2. QED
    BY <1>2, <2>1
<1>5. Range(u) = Range(s) \cup Range(t)
  BY <1>3, <1>4 DEF Range
<1>6. ASSUME IsInjective(s), IsInjective(t), Range(s) \cap Range(t) = {}
      PROVE  IsInjective(u)
  <2> SUFFICES ASSUME NEW j \in DOMAIN u, NEW k \in DOMAIN u, u[j] = u[k]
               PROVE  j = k
    BY DEF IsInjective
  <2>1. CASE j \in DOMAIN s /\ u[j] = s[j] /\ k \in DOMAIN s /\ u[k] = s[k]
    BY <1>6, <2>1 DEF IsInjective
  <2>2. CASE /\ j - Len(s) \in DOMAIN t /\ u[j] = t[j - Len(s)]
             /\ k - Len(s) \in DOMAIN t /\ u[k] = t[k - Len(s)]
    <3>1. j - Len(s) = k - Len(s)
      BY <1>6, <2>2 DEF IsInjective
    <3>2. QED
      BY <1>2, <3>1
  <2>3. CASE \/ /\ j \in DOMAIN s /\ u[j] = s[j]
                /\ k - Len(s) \in DOMAIN t /\ u[k] = t[k - Len(s)]
             \/ /\ k \in DOMAIN s /\ u[k] = s[k]
                /\ j - Len(s) \in DOMAIN t /\ u[j] = t[j - Len(s)]
    <3>1. u[j] \in Range(s) /\ u[j] \in Range(t)
      BY <2>3 DEF Range
    <3>2. QED
      BY <1>6, <3>1
  <2>4. QED
    BY <1>3, <2>1, <2>2, <2>3
<1>7. QED
  BY <1>1, <1>2, <1>5, <1>6

(* A later place has a higher rank.                                        *)
LEMMA RankGrows ==
  ASSUME NEW places, places \subseteq Nat, IsFiniteSet(places)
  PROVE  /\ \A k \in places : RankIn(places, k) \in 1 .. Cardinality(places)
         /\ \A j, k \in places : j < k => RankIn(places, j) < RankIn(places, k)
<1>1. ASSUME NEW k \in places
      PROVE  RankIn(places, k) \in 1 .. Cardinality(places)
  <2>1. PICK upto : upto = {j \in places : j <= k}
    OBVIOUS
  <2>2. IsFiniteSet(upto) /\ Cardinality(upto) <= Cardinality(places)
    BY <2>1, FS_Subset
  <2>3. k \in upto
    BY <2>1
  <2>4. Cardinality(upto) \in Nat /\ Cardinality(upto) # 0 /\ Cardinality(places) \in Nat
    BY <2>2, <2>3, FS_EmptySet, FS_CardinalityType
  <2>5. QED
    BY <2>1, <2>2, <2>4 DEF RankIn
<1>2. ASSUME NEW j \in places, NEW k \in places, j < k
      PROVE  RankIn(places, j) < RankIn(places, k)
  <2>1. PICK low : low = {i \in places : i <= j}
    OBVIOUS
  <2>2. PICK high : high = {i \in places : i <= k}
    OBVIOUS
  <2>3. low \subseteq high /\ k \in high /\ k \notin low
    <3>1. j \in Nat /\ k \in Nat
      OBVIOUS
    <3>2. k \in high /\ k \notin low
      BY <1>2, <2>1, <2>2, <3>1
    <3>3. low \subseteq high
      <4> SUFFICES ASSUME NEW i \in low PROVE i \in high
        OBVIOUS
      <4>1. i \in places /\ i \in Nat /\ i <= j
        BY <2>1
      <4>2. i <= k
        BY <1>2, <3>1, <4>1
      <4>3. QED
        BY <2>2, <4>1, <4>2
    <3>4. QED
      BY <3>2, <3>3
  <2>4. IsFiniteSet(high)
    BY <2>2, FS_Subset
  <2>5. /\ IsFiniteSet(low) /\ Cardinality(low) <= Cardinality(high)
        /\ Cardinality(low) # Cardinality(high)
    BY <2>3, <2>4, FS_Subset
  <2>6. Cardinality(low) \in Nat /\ Cardinality(high) \in Nat
    BY <2>4, <2>5, FS_CardinalityType
  <2>7. Cardinality(low) < Cardinality(high)
    BY <2>5, <2>6
  <2>8. QED
    BY <2>1, <2>2, <2>7 DEF RankIn
<1>3. QED
  BY <1>1, <1>2

(* Every rank is taken.                                                    *)
LEMMA RanksTaken ==
  ASSUME NEW places, places \subseteq Nat, IsFiniteSet(places)
  PROVE  \A n \in 1 .. Cardinality(places) : \E k \in places : RankIn(places, k) = n
<1>1. PICK size \in Nat : size = Cardinality(places)
  BY FS_CardinalityType
<1> DEFINE rank == [k \in places |-> RankIn(places, k)]
<1>2. rank \in Injection(places, 1 .. size)
  <2>1. rank \in [places -> 1 .. size]
    BY <1>1, RankGrows
  <2>2. ASSUME NEW j \in places, NEW k \in places, rank[j] = rank[k] PROVE j = k
    <3>1. RankIn(places, j) = RankIn(places, k)
      BY <2>2
    <3>2. PICK r : r = RankIn(places, k)
      OBVIOUS
    <3>3. r \in 1 .. Cardinality(places) /\ Cardinality(places) \in Nat
      BY <3>2, RankGrows, FS_CardinalityType
    <3>4. ~(r < r)
      BY <3>3
    <3>5. ~(j < k) /\ ~(k < j)
      BY <3>1, <3>2, <3>4, RankGrows
    <3>6. j \in Nat /\ k \in Nat
      OBVIOUS
    <3>7. QED
      BY <3>5, <3>6
  <2>3. \A j, k \in places : rank[j] = rank[k] => j = k
    BY <2>2
  <2> HIDE DEF rank
  <2>4. QED
    BY <2>1, <2>3 DEF Injection, IsInjective
<1>3. IsFiniteSet(1 .. size) /\ Cardinality(1 .. size) = size
  <2>1. 1 \in Int /\ size \in Int
    BY <1>1
  <2>2. QED
    BY <2>1, <1>1, FS_Interval
<1> HIDE DEF rank
<1>4. rank \in Surjection(places, 1 .. size)
  BY <1>1, <1>2, <1>3, FS_Injection
<1>5. \A n \in 1 .. size : \E k \in places : rank[k] = n
  BY <1>4 DEF Surjection
<1>6. QED
  BY <1>1, <1>5 DEF rank

(* It has the elements at those places and no others, in their order.      *)
LEMMA SelectIs ==
  ASSUME NEW S, NEW s \in Seq(S), NEW places, places \subseteq DOMAIN s
  PROVE  /\ IsFiniteSet(places) /\ Cardinality(places) \in Nat
         /\ Cardinality(places) <= Len(s)
         /\ Select(s, places) \in Seq(S) /\ Len(Select(s, places)) = Cardinality(places)
         /\ Range(Select(s, places)) = {s[k] : k \in places}
         /\ \E place \in [1 .. Cardinality(places) -> places] :
              /\ \A n \in 1 .. Cardinality(places) : Select(s, places)[n] = s[place[n]]
              /\ \A m, n \in 1 .. Cardinality(places) : m < n => place[m] < place[n]
<1>1. Len(s) \in Nat /\ DOMAIN s = 1 .. Len(s) /\ \A k \in DOMAIN s : s[k] \in S
  BY SeqIsFunction
<1>2. IsFiniteSet(1 .. Len(s)) /\ Cardinality(1 .. Len(s)) = Len(s)
  <2>1. PICK n \in Nat : n = Len(s)
    BY <1>1
  <2>2. IsFiniteSet(1 .. n) /\ Cardinality(1 .. n) = n
    <3>1. 1 \in Int /\ n \in Int
      OBVIOUS
    <3>2. QED
      BY <3>1, FS_Interval
  <2>3. QED
    BY <2>1, <2>2
<1>3. IsFiniteSet(places) /\ Cardinality(places) <= Len(s)
  BY <1>1, <1>2, FS_Subset
<1>4. PICK size \in Nat : size = Cardinality(places)
  BY <1>3, FS_CardinalityType
<1>5. places \subseteq Nat
  BY <1>1
<1> DEFINE place == [n \in 1 .. size |-> CHOOSE k \in places : RankIn(places, k) = n]
<1>6. ASSUME NEW n \in 1 .. size
      PROVE  place[n] \in places /\ RankIn(places, place[n]) = n
  BY <1>3, <1>4, <1>5, RanksTaken
<1>7. place \in [1 .. size -> places]
  BY <1>6
<1>8. ASSUME NEW m \in 1 .. size, NEW n \in 1 .. size, m < n
      PROVE  place[m] < place[n]
  <2>1. /\ place[m] \in places /\ RankIn(places, place[m]) = m
        /\ place[n] \in places /\ RankIn(places, place[n]) = n
    BY <1>6
  <2> HIDE DEF place
  <2>2. ~(place[n] < place[m])
    BY <1>3, <1>5, <1>8, <2>1, RankGrows
  <2>3. place[n] # place[m]
    BY <1>8, <2>1
  <2>4. QED
    BY <1>5, <2>1, <2>2, <2>3
<1>9. Select(s, places) = [n \in 1 .. size |-> s[place[n]]]
  BY <1>4 DEF Select
<1> HIDE DEF place
<1>10. PICK t : t = Select(s, places)
  OBVIOUS
<1>11. t \in [1 .. size -> S] /\ \A n \in 1 .. size : t[n] = s[place[n]]
  BY <1>1, <1>7, <1>9, <1>10
<1>12. t \in Seq(S) /\ Len(t) = size /\ DOMAIN t = 1 .. size
  BY <1>11, FunctionIsSeq
<1>13. Range(t) = {s[k] : k \in places}
  <2>1. \A k \in places : \E n \in 1 .. size : place[n] = k
    <3> SUFFICES ASSUME NEW k \in places PROVE \E n \in 1 .. size : place[n] = k
      OBVIOUS
    <3>1. PICK n \in 1 .. size : n = RankIn(places, k)
      BY <1>3, <1>4, <1>5, RankGrows
    <3>2. place[n] \in places /\ RankIn(places, place[n]) = RankIn(places, k)
      BY <1>6, <3>1
    <3>3. RankIn(places, k) \in Int
      BY <3>1
    <3>4. ~(RankIn(places, k) < RankIn(places, k))
      BY <3>3
    <3>5. PICK other : other = place[n]
      OBVIOUS
    <3>6. other \in places /\ RankIn(places, other) = RankIn(places, k)
      BY <3>2, <3>5
    <3>7. ~(other < k) /\ ~(k < other)
      BY <1>3, <1>5, <3>4, <3>6, RankGrows
    <3>8. other \in Nat /\ k \in Nat
      BY <1>5, <3>6
    <3>9. QED
      BY <3>5, <3>7, <3>8
  <2>2. Range(t) = {t[n] : n \in 1 .. size}
    BY <1>12 DEF Range
  <2>3. \A n \in 1 .. size : place[n] \in places /\ t[n] = s[place[n]]
    BY <1>7, <1>11
  <2>4. QED
    BY <2>1, <2>2, <2>3
<1>14. QED
  BY <1>3, <1>4, <1>7, <1>8, <1>10, <1>11, <1>12, <1>13

(* One that keeps every place is the sequence, one that keeps none empty.  *)
LEMMA SelectNone ==
  ASSUME NEW S, NEW s \in Seq(S)
  PROVE  Select(s, {}) = <<>>
<1>1. Select(s, {}) \in Seq(S) /\ Len(Select(s, {})) = 0
  <2>1. {} \subseteq DOMAIN s
    OBVIOUS
  <2>2. QED
    BY <2>1, SelectIs, FS_EmptySet
<1>2. QED
  BY <1>1, EmptySeq

LEMMA SelectAll ==
  ASSUME NEW S, NEW s \in Seq(S)
  PROVE  Select(s, DOMAIN s) = s
<1>1. PICK size \in Nat : size = Len(s) /\ DOMAIN s = 1 .. size
  BY LenProperties
<1>2. ASSUME NEW k \in 0 .. size
      PROVE  IsFiniteSet(1 .. k) /\ Cardinality(1 .. k) = k
  <2>1. 1 \in Int /\ k \in Int
    OBVIOUS
  <2>2. QED
    BY <2>1, FS_Interval
<1>3. \A k \in 1 .. size : RankIn(1 .. size, k) = k
  <2> SUFFICES ASSUME NEW k \in 1 .. size PROVE RankIn(1 .. size, k) = k
    OBVIOUS
  <2>1. {j \in 1 .. size : j <= k} = 1 .. k
    OBVIOUS
  <2>2. Cardinality(1 .. k) = k
    BY <1>2
  <2>3. QED
    BY <2>1, <2>2 DEF RankIn
<1>4. \A n \in 1 .. size : (CHOOSE k \in 1 .. size : RankIn(1 .. size, k) = n) = n
  <2> SUFFICES ASSUME NEW n \in 1 .. size
               PROVE  (CHOOSE k \in 1 .. size : RankIn(1 .. size, k) = n) = n
    OBVIOUS
  <2>1. \E k \in 1 .. size : RankIn(1 .. size, k) = n
    BY <1>3
  <2>2. PICK k : k = CHOOSE x \in 1 .. size : RankIn(1 .. size, x) = n
    OBVIOUS
  <2>3. k \in 1 .. size /\ RankIn(1 .. size, k) = n
    BY <2>1, <2>2
  <2>4. QED
    BY <1>3, <2>2, <2>3
<1>5. Cardinality(1 .. size) = size
  <2>1. size \in 0 .. size
    OBVIOUS
  <2>2. QED
    BY <1>2, <2>1
<1>6. Select(s, 1 .. size) = [n \in 1 .. size |-> s[n]]
  <2>1. Select(s, 1 .. size)
          = [n \in 1 .. size |-> s[CHOOSE k \in 1 .. size : RankIn(1 .. size, k) = n]]
    BY <1>5 DEF Select
  <2>2. \A n \in 1 .. size : s[CHOOSE k \in 1 .. size : RankIn(1 .. size, k) = n] = s[n]
    BY <1>4
  <2>3. QED
    BY <2>1, <2>2
<1>7. s = [n \in 1 .. size |-> s[n]]
  BY <1>1, LenProperties
<1>8. QED
  BY <1>1, <1>6, <1>7

----------------------------------------------------------------------------
(* The inductive invariant.                                                *)

ArmRecord ==
  [at : CatchingUp \cup Looping \cup {"crashed", "gone"},
   inbox : Seq(Fact), open : BOOLEAN, hand : Seq(Fact), found : Seq(Fact), state : {1, 2}]

(* One arm at most is at work, and it is the one behind the slot.          *)
Slotted ==
  /\ \A i \in Arms : arms[i].at # "gone" <=> i = slot
  /\ \A i \in Arms : arms[i].at = "gone" => ~arms[i].open
  /\ slot = 0 <=> table = 0
  /\ slot = 0 => states = Shells

(* What a stage has in hand; a closed arm has nothing left to do.          *)
Staged ==
  \A i \in Arms :
    /\ arms[i].at \notin {"seeded", "claimed", "committed"} => arms[i].hand = <<>>
    /\ i = slot /\ ~arms[i].open => arms[i].at = "idle" /\ arms[i].inbox = <<>>
    /\ i = slot /\ arms[i].at \in Looping => arms[i].state = table

(* The facts of a source are numbered in the order they are recorded.      *)
Ordered(facts) ==
  \A j, k \in DOMAIN facts : j < k /\ facts[j][1] = facts[k][1] => facts[j][2] < facts[k][2]

Whole(facts) ==
  \A k \in DOMAIN facts : \A n \in 1 .. facts[k][2] : <<facts[k][1], n>> \in Range(facts)

Numbered ==
  /\ Ordered(ingested) /\ Whole(ingested)
  /\ \A f \in Fact : f \in Range(ingested) <=> f[2] <= Count(f[1])
  /\ \A s \in Sources : Count(s) \in 0 .. FactsOf[s]
  /\ \A s \in Sources : source[s].done <= Count(s)
  /\ \A s \in Sources : Telling(s) => source[s].done < Count(s)
  /\ \A f \in told : f[2] <= source[f[1]].done

(* Whatever is anywhere has been recorded; what comes live has been told.  *)
Known ==
  /\ \A k \in DOMAIN own : own[k].origin \subseteq {own[k].fact}
  /\ Range(Facts(own)) \subseteq Range(ingested)
  /\ \A i \in Arms :
       /\ Range(arms[i].found) \subseteq Range(ingested)
       /\ Range(arms[i].inbox) \subseteq told
       /\ arms[i].at \in {"claimed", "committed"} => Range(arms[i].hand) \subseteq told

Scanning == {"scanned", "seeded"}
Working  == {"idle", "claimed", "committed"}

(* What the state holds, with what is about to be folded into it.          *)
Folded(i) ==
  Range(states[table])
    \cup IF arms[i].at \in {"seeded", "committed"} THEN Range(arms[i].hand) ELSE {}

Reached(i) ==
  Range(arms[i].found) \cup Range(arms[i].inbox)
    \cup IF arms[i].at \in Working THEN Range(arms[i].hand) \cup Range(states[table]) ELSE {}

(* The state never falls behind the journal, nor behind the scan once it   *)
(* is folded; nothing that is told is lost between scan and live copies.   *)
CaughtAt(i) ==
  /\ arms[i].at # "armed" => Range(Facts(own)) \subseteq Folded(i)
  /\ arms[i].at \in {"seeded", "boot"} \cup Working => Range(arms[i].found) \subseteq Folded(i)
  /\ arms[i].at \in {"seeded", "boot"} /\ own # <<>> =>
       Range(arms[i].found) \subseteq Range(Facts(own))
  /\ arms[i].at \in Scanning \cup {"boot"} \cup Working =>
       /\ \A s \in Sources : Telling(s) /\ source[s].target # i =>
            Next1(s) \in Range(arms[i].found)
       /\ arms[i].open => told \subseteq Reached(i)

Caught == \A i \in Arms : i = slot => CaughtAt(i)

(* What a read is owed is found by the catch-up or has been told by then.  *)
OwedAt(i) ==
  /\ host.at \in {"factory", "wait", "quiesce"} /\ arms[i].at \notin {"armed", "loaded"} =>
       host.owed \subseteq told \cup Range(arms[i].found)
  /\ host.at = "read" /\ arms[i].open =>
       /\ arms[i].at \in Scanning \cup {"boot"} => host.owed \subseteq Range(arms[i].found)
       /\ arms[i].at \in Working \cup {"crashed"} => host.owed \subseteq Folded(i)

Owed ==
  host.op = "read" =>
    /\ host.owed \subseteq Range(ingested)
    /\ \A i \in Arms : i = slot => OwedAt(i)

(* An arm counts once, when its catch-up is over.                          *)
Counted ==
  /\ Len(arms) <= MaxArms /\ caughtUp <= Len(arms)
  /\ \A i \in Arms : arms[i].at \in CatchingUp => caughtUp < Len(arms)

HostAt ==
  /\ host.at = "read" => host.op = "read"
  /\ host.op = "read" => host.at \notin {"mark", "stop", "purge"}

IInv ==
  /\ TypeOK /\ Slotted /\ Staged /\ Numbered /\ Known /\ Caught /\ Owed /\ Counted
  /\ HostAt /\ ReadWhole

----------------------------------------------------------------------------
(* As long as every entry of the journal is a checkpoint.                  *)

(* A mixed batch is recorded plainly, and only a purge takes that back;    *)
(* one that leaves a live state behind is not taken back at all.           *)
Checkpointed == \A k \in DOMAIN own : own[k].origin = {own[k].fact}

Exact == Checkpointed /\ ~purged

Once(facts) == \A j, k \in DOMAIN facts : facts[j] = facts[k] => j = k

(* The facts that are told, or still to be told.                           *)
Tellable == {f \in Fact : f \in told \/ f[2] > source[f[1]].done}

(* The journal has each fact once, those of a source in order and without  *)
(* a gap, but for those that the source never told.                        *)
Sorted(facts, tellable) ==
  \A j, k \in DOMAIN facts :
    j < k /\ facts[j][1] = facts[k][1] /\ facts[k] \in tellable => facts[j][2] < facts[k][2]

Gapless(facts, tellable) ==
  \A k \in DOMAIN facts : \A f \in tellable :
    f[1] = facts[k][1] /\ f[2] < facts[k][2] => f \in Range(facts)

JournalExact ==
  Exact => Once(Facts(own)) /\ Sorted(Facts(own), Tellable) /\ Gapless(Facts(own), Tellable)

InFolding(i) == IF arms[i].at \in {"seeded", "committed"} THEN arms[i].hand ELSE <<>>

(* The state is the journal, in its order.                                 *)
StateAt(i) ==
  IF arms[i].at = "armed" THEN states[table] = <<>>
  ELSE Facts(own) = states[table] \o InFolding(i)

StateIsJournal == Exact => \A i \in Arms : i = slot => StateAt(i)

(* Live copies come and are claimed in the order of their source, whatever *)
(* the batch.                                                              *)
Ahead(hand, inbox) ==
  \A j \in DOMAIN hand : \A k \in DOMAIN inbox :
    hand[j][1] = inbox[k][1] => hand[j][2] < inbox[k][2]

InOrder(arm) ==
  /\ Ordered(arm.found) /\ Whole(arm.found)
  /\ arm.at # "crashed" => Ordered(arm.inbox)
  /\ arm.at = "claimed" =>
       Len(arm.hand) \in 1 .. Batch /\ Ordered(arm.hand) /\ Ahead(arm.hand, arm.inbox)

MailOrder == \A i \in Arms : InOrder(arms[i])

Orderly == JournalExact /\ StateIsJournal /\ MailOrder

----------------------------------------------------------------------------
(* Journals as sequences of facts.                                         *)

LEMMA FactPair ==
  ASSUME NEW f \in Fact
  PROVE  /\ f[1] \in Sources /\ f[2] \in 1 .. FactsOf[f[1]] /\ f[2] \in Nat
         /\ f = <<f[1], f[2]>>
BY ProjectorAssumption DEF Fact

LEMMA FactIs ==
  ASSUME NEW s \in Sources, NEW n \in 1 .. FactsOf[s]
  PROVE  <<s, n>> \in Fact
BY DEF Fact

LEMMA FactsOfJournal ==
  ASSUME NEW journal \in Seq(Entry)
  PROVE  /\ Facts(journal) \in Seq(Fact) /\ Len(Facts(journal)) = Len(journal)
         /\ Len(journal) \in Nat
         /\ DOMAIN Facts(journal) = DOMAIN journal /\ DOMAIN journal = 1 .. Len(journal)
         /\ \A k \in DOMAIN journal : Facts(journal)[k] = journal[k].fact
         /\ Range(Facts(journal)) = {journal[k].fact : k \in DOMAIN journal}
         /\ Range(Facts(journal)) \subseteq Fact
<1>1. /\ Len(journal) \in Nat /\ DOMAIN journal = 1 .. Len(journal)
      /\ \A k \in DOMAIN journal : journal[k] \in Entry
  BY SeqIsFunction
<1>2. PICK t : t = Facts(journal)
  OBVIOUS
<1>3. t \in [1 .. Len(journal) -> Fact] /\ \A k \in DOMAIN journal : t[k] = journal[k].fact
  BY <1>1, <1>2 DEF Facts, Entry
<1>4. t \in Seq(Fact) /\ Len(t) = Len(journal) /\ DOMAIN t = DOMAIN journal
  BY <1>1, <1>3, FunctionIsSeq
<1>5. Range(t) = {journal[k].fact : k \in DOMAIN journal}
  BY <1>3, <1>4 DEF Range
<1>6. Range(t) \subseteq Fact
  BY <1>3, <1>4 DEF Range
<1>7. QED
  BY <1>1, <1>2, <1>3, <1>4, <1>5, <1>6

LEMMA CheckpointsAre ==
  ASSUME NEW facts \in Seq(Fact)
  PROVE  /\ Checkpoints(facts) \in Seq(Entry) /\ Len(Checkpoints(facts)) = Len(facts)
         /\ Facts(Checkpoints(facts)) = facts
         /\ \A k \in DOMAIN Checkpoints(facts) :
              Checkpoints(facts)[k].origin = {Checkpoints(facts)[k].fact}
<1>1. /\ Len(facts) \in Nat /\ DOMAIN facts = 1 .. Len(facts)
      /\ facts \in [1 .. Len(facts) -> Fact]
  BY SeqIsFunction
<1>2. PICK t : t = Checkpoints(facts)
  OBVIOUS
<1>3. /\ t \in [1 .. Len(facts) -> Entry]
      /\ \A k \in 1 .. Len(facts) : t[k] = [fact |-> facts[k], origin |-> {facts[k]}]
  BY <1>1, <1>2 DEF Checkpoints, Entry
<1>4. t \in Seq(Entry) /\ Len(t) = Len(facts) /\ DOMAIN t = 1 .. Len(facts)
  BY <1>1, <1>3, FunctionIsSeq
<1>5. \A k \in 1 .. Len(facts) : t[k].fact = facts[k] /\ t[k].origin = {t[k].fact}
  BY <1>3
<1>6. Facts(t) = facts
  BY <1>1, <1>4, <1>5 DEF Facts
<1>7. QED
  BY <1>2, <1>4, <1>5, <1>6

LEMMA FactsConcat ==
  ASSUME NEW left1 \in Seq(Entry), NEW right1 \in Seq(Entry)
  PROVE  /\ left1 \o right1 \in Seq(Entry)
         /\ Facts(left1 \o right1) = Facts(left1) \o Facts(right1)
         /\ Range(Facts(left1 \o right1)) = Range(Facts(left1)) \cup Range(Facts(right1))
<1>1. PICK u : u = left1 \o right1
  OBVIOUS
<1>2. PICK v : v = Facts(left1) \o Facts(right1)
  OBVIOUS
<1>3. /\ Facts(left1) \in Seq(Fact) /\ Len(Facts(left1)) = Len(left1)
      /\ Facts(right1) \in Seq(Fact) /\ Len(Facts(right1)) = Len(right1)
      /\ Len(left1) \in Nat /\ Len(right1) \in Nat
      /\ \A k \in 1 .. Len(left1) : Facts(left1)[k] = left1[k].fact
      /\ \A k \in 1 .. Len(right1) : Facts(right1)[k] = right1[k].fact
  BY FactsOfJournal
<1>4. /\ u \in Seq(Entry) /\ DOMAIN u = 1 .. Len(left1) + Len(right1)
      /\ \A k \in 1 .. Len(left1) + Len(right1) :
           u[k] = IF k <= Len(left1) THEN left1[k] ELSE right1[k - Len(left1)]
  BY <1>1, ConcatProperties, LenProperties
<1>5. /\ v \in Seq(Fact) /\ DOMAIN v = 1 .. Len(left1) + Len(right1)
      /\ \A k \in 1 .. Len(left1) + Len(right1) :
           v[k] = IF k <= Len(left1) THEN Facts(left1)[k] ELSE Facts(right1)[k - Len(left1)]
  <2>1. PICK a, b : a = Facts(left1) /\ b = Facts(right1)
    OBVIOUS
  <2>2. a \in Seq(Fact) /\ b \in Seq(Fact) /\ Len(a) = Len(left1) /\ Len(b) = Len(right1)
    BY <1>3, <2>1
  <2>3. /\ v \in Seq(Fact) /\ DOMAIN v = 1 .. Len(a) + Len(b)
        /\ \A k \in 1 .. Len(a) + Len(b) : v[k] = IF k <= Len(a) THEN a[k] ELSE b[k - Len(a)]
    <3>1. v = a \o b
      BY <1>2, <2>1
    <3>2. a \in Seq(Fact) /\ b \in Seq(Fact)
      BY <2>2
    <3>3. QED
      BY <3>1, <3>2, ConcatProperties, LenProperties
  <2>4. QED
    BY <2>1, <2>2, <2>3
<1>6. PICK w : w = Facts(u)
  OBVIOUS
<1>7. /\ w \in Seq(Fact) /\ DOMAIN w = DOMAIN u
      /\ \A k \in DOMAIN u : w[k] = u[k].fact
  BY <1>4, <1>6, FactsOfJournal
<1>8. \A k \in DOMAIN u : w[k] = v[k]
  <2> SUFFICES ASSUME NEW k \in DOMAIN u PROVE w[k] = v[k]
    OBVIOUS
  <2>1. CASE k <= Len(left1)
    <3>1. k \in 1 .. Len(left1)
      BY <1>3, <1>4, <2>1
    <3>2. QED
      BY <1>3, <1>4, <1>5, <1>7, <2>1, <3>1
  <2>2. CASE ~(k <= Len(left1))
    <3>1. k - Len(left1) \in 1 .. Len(right1)
      BY <1>3, <1>4, <2>2
    <3>2. QED
      BY <1>3, <1>4, <1>5, <1>7, <2>2, <3>1
  <2>3. QED
    BY <2>1, <2>2
<1>9. w = v
  <2>1. DOMAIN w = DOMAIN v
    BY <1>4, <1>5, <1>7
  <2>2. w = [k \in DOMAIN w |-> w[k]] /\ v = [k \in DOMAIN v |-> v[k]]
    BY <1>5, <1>7, SeqDef
  <2>3. QED
    BY <1>7, <1>8, <2>1, <2>2
<1>10. Range(v) = Range(Facts(left1)) \cup Range(Facts(right1))
  BY <1>2, <1>3, RangeConcat
<1>11. QED
  BY <1>1, <1>2, <1>4, <1>6, <1>9, <1>10

(* append_catchup takes what the journal has no checkpoint of.             *)
LEMMA LackingIs ==
  ASSUME NEW facts \in Seq(Fact)
  PROVE  /\ Lacking(facts) \in Seq(Fact) /\ Len(Lacking(facts)) <= Len(facts)
         /\ Range(Lacking(facts)) = {f \in Range(facts) : ~Held(f)}
         /\ Len(facts) \in Nat /\ Len(Lacking(facts)) \in Nat
<1> DEFINE places == {k \in DOMAIN facts : ~Held(facts[k])}
<1>1. places \subseteq DOMAIN facts
  OBVIOUS
<1>2. Lacking(facts) = Select(facts, places)
  BY DEF Lacking
<1> HIDE DEF places
<1>3. /\ Lacking(facts) \in Seq(Fact) /\ Len(Lacking(facts)) = Cardinality(places)
      /\ Cardinality(places) \in Nat /\ Cardinality(places) <= Len(facts)
      /\ Range(Lacking(facts)) = {facts[k] : k \in places}
  BY <1>1, <1>2, SelectIs
<1>4. {facts[k] : k \in places} = {f \in Range(facts) : ~Held(f)}
  BY DEF places, Range
<1>5. Len(facts) \in Nat
  BY LenProperties
<1>6. QED
  BY <1>3, <1>4, <1>5

----------------------------------------------------------------------------
(* The arms.                                                               *)

LEMMA Typed ==
  ASSUME TypeOK
  PROVE  /\ arms \in Seq(ArmRecord) /\ Len(arms) \in Nat /\ Arms = 1 .. Len(arms)
         /\ \A i \in Arms : arms[i] \in ArmRecord
         /\ \A i \in Arms :
              /\ arms[i].inbox \in Seq(Fact) /\ arms[i].hand \in Seq(Fact)
              /\ arms[i].found \in Seq(Fact) /\ arms[i].open \in BOOLEAN
              /\ arms[i].at \in CatchingUp \cup Looping \cup {"crashed", "gone"}
              /\ arms[i].state \in {1, 2}
<1>1. arms \in Seq(ArmRecord)
  BY DEF TypeOK, ArmRecord
<1>2. Len(arms) \in Nat /\ Arms = 1 .. Len(arms) /\ \A i \in Arms : arms[i] \in ArmRecord
  BY <1>1, SeqIsFunction DEF Arms
<1>3. QED
  BY <1>1, <1>2 DEF ArmRecord

(* A step of one arm.                                                      *)
LEMMA SetArm ==
  ASSUME TypeOK, NEW i \in Arms, NEW arm \in ArmRecord, Set(i, arm)
  PROVE  /\ arms' \in Seq(ArmRecord) /\ Len(arms') = Len(arms) /\ Arms' = Arms
         /\ arms'[i] = arm /\ \A j \in Arms : j # i => arms'[j] = arms[j]
<1>1. arms \in Seq(ArmRecord) /\ Arms = 1 .. Len(arms) /\ i \in 1 .. Len(arms)
  BY Typed
<1>2. arms' = [arms EXCEPT ![i] = arm]
  BY DEF Set
<1>3. arms' \in Seq(ArmRecord) /\ Len(arms') = Len(arms) /\ arms'[i] = arm
  BY <1>1, <1>2, ExceptSeq
<1>4. \A j \in 1 .. Len(arms) : j # i => arms'[j] = arms[j]
  BY <1>1, <1>2, ExceptSeq
<1>5. Arms' = 1 .. Len(arms')
  BY <1>3, LenProperties DEF Arms
<1>6. QED
  BY <1>1, <1>3, <1>4, <1>5

Armed(mail) ==
  [at |-> "armed", inbox |-> mail, open |-> TRUE, hand |-> <<>>, found |-> <<>>, state |-> 1]

(* A new arm.                                                              *)
LEMMA NewArm ==
  ASSUME TypeOK, NEW mail \in Seq(Fact), Arm(mail)
  PROVE  /\ arms' \in Seq(ArmRecord) /\ Len(arms') = Len(arms) + 1
         /\ Arms' = Arms \cup {slot'} /\ slot' = Len(arms) + 1 /\ slot' \notin Arms
         /\ slot' # 0 /\ slot' <= MaxArms
         /\ arms'[slot'] = Armed(mail) /\ Armed(mail) \in ArmRecord
         /\ \A j \in Arms : arms'[j] = arms[j]
         /\ table' = 1 /\ states' = states
<1>1. Armed(mail) \in ArmRecord
  <2>1. <<>> \in Seq(Fact)
    BY SmallSeqs
  <2>2. QED
    BY <2>1 DEF Armed, ArmRecord, CatchingUp
<1>2. arms' = Append(arms, Armed(mail)) /\ slot' = Len(arms) + 1
  BY DEF Arm, Armed
<1>3. arms \in Seq(ArmRecord) /\ Arms = 1 .. Len(arms) /\ Len(arms) \in Nat
  BY Typed
<1>4. /\ arms' \in Seq(ArmRecord) /\ Len(arms') = Len(arms) + 1
      /\ DOMAIN arms' = 1 .. Len(arms) + 1
      /\ \A j \in DOMAIN arms : arms'[j] = arms[j]
      /\ arms'[Len(arms) + 1] = Armed(mail)
  BY <1>1, <1>2, <1>3, AppendedIs
<1>5. Len(arms) + 1 <= MaxArms
  BY <1>3, ProjectorAssumption DEF Arm
<1>6. Arms' = Arms \cup {Len(arms) + 1} /\ Len(arms) + 1 \notin Arms /\ Len(arms) + 1 # 0
  BY <1>3, <1>4 DEF Arms
<1>7. table' = 1 /\ states' = states
  BY DEF Arm
<1>8. QED
  BY <1>1, <1>2, <1>3, <1>4, <1>5, <1>6, <1>7 DEF Arms

----------------------------------------------------------------------------
(* The sources.                                                            *)

(* What is recorded.                                                       *)
LEMMA RecordedAre ==
  ASSUME TypeOK
  PROVE  /\ Len(ingested) \in Nat /\ DOMAIN ingested = 1 .. Len(ingested)
         /\ \A k \in DOMAIN ingested :
              /\ ingested[k] \in Fact /\ ingested[k] \in Range(ingested)
              /\ ingested[k][1] \in Sources /\ ingested[k][2] \in Nat \ {0}
              /\ ingested[k] = <<ingested[k][1], ingested[k][2]>>
         /\ Range(ingested) \subseteq Fact
<1>1. /\ Len(ingested) \in Nat /\ DOMAIN ingested = 1 .. Len(ingested)
      /\ \A k \in DOMAIN ingested : ingested[k] \in Fact
  BY SeqIsFunction DEF TypeOK
<1>2. \A f \in Fact : f[1] \in Sources /\ f[2] \in Nat \ {0} /\ f = <<f[1], f[2]>>
  BY FactPair
<1>3. QED
  BY <1>1, <1>2 DEF Range

Taken(s, n) == [k \in 1 .. n |-> <<s, Count(s) + k>>]

(* A step of a source adds its next facts.                                 *)
LEMMA RecordIs ==
  ASSUME TypeOK, Numbered, NEW s \in Sources, NEW n \in 1 .. 2, Record(s, n)
  PROVE  /\ ingested' \in Seq(Fact) /\ Len(ingested') = Len(ingested) + n
         /\ Count(s) + n <= FactsOf[s] /\ Count(s) \in Nat
         /\ \A k \in 1 .. Len(ingested) : ingested'[k] = ingested[k]
         /\ \A k \in 1 .. n : ingested'[Len(ingested) + k] = <<s, Count(s) + k>>
         /\ DOMAIN ingested' = 1 .. Len(ingested) + n
<1>1. Count(s) \in Nat /\ Count(s) + n <= FactsOf[s] /\ FactsOf[s] \in Nat
  BY ProjectorAssumption DEF Numbered, Record
<1>2. PICK t : t = Taken(s, n)
  OBVIOUS
<1>3. \A k \in 1 .. n : Count(s) + k \in 1 .. FactsOf[s]
  BY <1>1
<1>4. t \in [1 .. n -> Fact] /\ \A k \in 1 .. n : t[k] = <<s, Count(s) + k>>
  BY <1>2, <1>3, FactIs DEF Taken
<1>5. t \in Seq(Fact) /\ Len(t) = n
  BY <1>4, FunctionIsSeq
<1>6. ingested \in Seq(Fact) /\ Len(ingested) \in Nat
  BY RecordedAre DEF TypeOK
<1>7. ingested' = ingested \o t
  BY <1>2 DEF Record, Taken
<1>8. PICK u : u = ingested \o t
  OBVIOUS
<1>9. /\ u \in Seq(Fact) /\ Len(u) = Len(ingested) + n
      /\ \A k \in 1 .. Len(ingested) + n :
           u[k] = IF k <= Len(ingested) THEN ingested[k] ELSE t[k - Len(ingested)]
  BY <1>5, <1>6, <1>8, ConcatProperties
<1>10. DOMAIN u = 1 .. Len(ingested) + n
  BY <1>9, LenProperties
<1>11. \A k \in 1 .. Len(ingested) : u[k] = ingested[k]
  BY <1>6, <1>9
<1>12. \A k \in 1 .. n : u[Len(ingested) + k] = t[k]
  <2> SUFFICES ASSUME NEW k \in 1 .. n PROVE u[Len(ingested) + k] = t[k]
    OBVIOUS
  <2>1. /\ Len(ingested) + k \in 1 .. Len(ingested) + n
        /\ ~(Len(ingested) + k <= Len(ingested))
        /\ (Len(ingested) + k) - Len(ingested) = k
    BY <1>6
  <2>2. QED
    BY <1>9, <2>1
<1>13. QED
  BY <1>1, <1>4, <1>7, <1>8, <1>9, <1>10, <1>11, <1>12

LEMMA RecordCounts ==
  ASSUME TypeOK, Numbered, NEW s \in Sources, NEW n \in 1 .. 2, Record(s, n)
  PROVE  /\ Count(s)' = Count(s) + n
         /\ \A x \in Sources : x # s => Count(x)' = Count(x)
<1> DEFINE Of(facts, x) == {k \in DOMAIN facts : facts[k][1] = x}
<1>1. /\ Len(ingested) \in Nat /\ DOMAIN ingested = 1 .. Len(ingested)
      /\ DOMAIN ingested' = 1 .. Len(ingested) + n
      /\ \A k \in 1 .. Len(ingested) : ingested'[k] = ingested[k]
      /\ \A k \in 1 .. n : ingested'[Len(ingested) + k] = <<s, Count(s) + k>>
  BY RecordIs, RecordedAre
<1>2. PICK size \in Nat : size = Len(ingested)
  BY <1>1
<1>3. \A k \in size + 1 .. size + n : ingested'[k][1] = s
  <2> SUFFICES ASSUME NEW k \in size + 1 .. size + n PROVE ingested'[k][1] = s
    OBVIOUS
  <2>1. k - size \in 1 .. n /\ size + (k - size) = k
    BY <1>2
  <2>2. QED
    BY <1>1, <1>2, <2>1
<1>4. \A k \in 1 .. size + n : k \in 1 .. size \/ k \in size + 1 .. size + n
  BY <1>2
<1>5. Of(ingested', s) = Of(ingested, s) \cup (size + 1 .. size + n)
  BY <1>1, <1>2, <1>3, <1>4
<1>6. \A x \in Sources : x # s => Of(ingested', x) = Of(ingested, x)
  BY <1>1, <1>2, <1>3, <1>4
<1>7. IsFiniteSet(size + 1 .. size + n) /\ Cardinality(size + 1 .. size + n) = n
  <2>1. size + 1 \in Int /\ size + n \in Int /\ ~(size + 1 > size + n)
        /\ (size + n) - (size + 1) + 1 = n
    BY <1>2
  <2>2. QED
    BY <2>1, FS_Interval
<1>8. IsFiniteSet(Of(ingested, s))
  <2>1. IsFiniteSet(1 .. size)
    <3>1. 1 \in Int /\ size \in Int
      BY <1>2
    <3>2. QED
      BY <3>1, FS_Interval
  <2>2. Of(ingested, s) \in SUBSET (1 .. size)
    BY <1>1, <1>2
  <2>3. QED
    BY <2>1, <2>2, FS_Subset
<1>9. Of(ingested, s) \cap (size + 1 .. size + n) = {}
  BY <1>1, <1>2
<1>10. Cardinality(Of(ingested', s)) = Cardinality(Of(ingested, s)) + n
  <2>1. PICK old : old = Of(ingested, s)
    OBVIOUS
  <2>2. PICK new : new = size + 1 .. size + n
    OBVIOUS
  <2>3. IsFiniteSet(old) /\ IsFiniteSet(new) /\ Cardinality(new) = n /\ old \cap new = {}
    BY <1>7, <1>8, <1>9, <2>1, <2>2
  <2>4. Cardinality(old \cup new) = Cardinality(old) + n - Cardinality({})
    BY <2>3, FS_Union
  <2>5. Cardinality({}) = 0 /\ Cardinality(old) \in Nat
    BY <2>3, FS_EmptySet, FS_CardinalityType
  <2>6. Cardinality(old \cup new) = Cardinality(old) + n
    BY <2>4, <2>5
  <2>7. QED
    BY <1>5, <2>1, <2>2, <2>6
<1>11. \A x : Count(x)' = Cardinality(Of(ingested', x)) /\ Count(x) = Cardinality(Of(ingested, x))
  BY DEF Count
<1>12. QED
  BY <1>6, <1>10, <1>11

(* The range of what is recorded grows by the facts of the step.           *)
LEMMA RecordRange ==
  ASSUME TypeOK, Numbered, NEW s \in Sources, NEW n \in 1 .. 2, Record(s, n)
  PROVE  /\ Range(ingested)' = Range(ingested) \cup {<<s, Count(s) + k>> : k \in 1 .. n}
         /\ Range(ingested) \subseteq Range(ingested)'
<1>1. /\ Len(ingested) \in Nat /\ DOMAIN ingested = 1 .. Len(ingested)
      /\ DOMAIN ingested' = 1 .. Len(ingested) + n
      /\ \A k \in 1 .. Len(ingested) : ingested'[k] = ingested[k]
      /\ \A k \in 1 .. n : ingested'[Len(ingested) + k] = <<s, Count(s) + k>>
  BY RecordIs, RecordedAre
<1>2. PICK size \in Nat : size = Len(ingested)
  BY <1>1
<1>3. \A k \in 1 .. size + n : k \in 1 .. size \/ (k - size \in 1 .. n /\ k = size + (k - size))
  BY <1>2
<1>4. \A k \in 1 .. n : size + k \in 1 .. size + n
  BY <1>2
<1>5. \A k \in 1 .. size : k \in 1 .. size + n
  BY <1>2
<1>6. PICK taken : taken = {<<s, Count(s) + k>> : k \in 1 .. n}
  OBVIOUS
<1>7. ASSUME NEW f \in Range(ingested)' PROVE f \in Range(ingested) \cup taken
  <2>1. PICK k \in 1 .. size + n : f = ingested'[k]
    BY <1>1, <1>2 DEF Range
  <2>2. CASE k \in 1 .. size
    BY <1>1, <1>2, <2>1, <2>2 DEF Range
  <2>3. CASE k - size \in 1 .. n /\ k = size + (k - size)
    <3>1. f = <<s, Count(s) + (k - size)>>
      BY <1>1, <1>2, <2>1, <2>3
    <3>2. QED
      BY <1>6, <2>3, <3>1
  <2>4. QED
    BY <1>3, <2>2, <2>3
<1>8. ASSUME NEW f \in Range(ingested) PROVE f \in Range(ingested)'
  BY <1>1, <1>2, <1>5 DEF Range
<1>9. ASSUME NEW f \in taken PROVE f \in Range(ingested)'
  <2>1. PICK k \in 1 .. n : f = <<s, Count(s) + k>>
    BY <1>6
  <2>2. ingested'[size + k] = f /\ size + k \in DOMAIN ingested'
    BY <1>1, <1>2, <1>4, <2>1
  <2>3. QED
    BY <2>2 DEF Range
<1>10. QED
  BY <1>6, <1>7, <1>8, <1>9

LEMMA RecordNumbers ==
  ASSUME TypeOK, Numbered, NEW s \in Sources, NEW n \in 1 .. 2, Record(s, n)
  PROVE  Numbered'
<1>1. /\ Len(ingested) \in Nat /\ DOMAIN ingested = 1 .. Len(ingested)
      /\ DOMAIN ingested' = 1 .. Len(ingested) + n
      /\ \A k \in 1 .. Len(ingested) : ingested'[k] = ingested[k]
      /\ \A k \in 1 .. n : ingested'[Len(ingested) + k] = <<s, Count(s) + k>>
      /\ Count(s) \in Nat /\ Count(s) + n <= FactsOf[s]
      /\ \A k \in DOMAIN ingested :
              /\ ingested[k] \in Fact /\ ingested[k] \in Range(ingested)
              /\ ingested[k][1] \in Sources /\ ingested[k][2] \in Nat \ {0}
  BY RecordIs, RecordedAre
<1>2. PICK size \in Nat : size = Len(ingested)
  BY <1>1
<1>3. PICK c \in Nat : c = Count(s)
  BY <1>1
<1>4. \A k \in 1 .. size + n : k \in 1 .. size \/ (k - size \in 1 .. n /\ k = size + (k - size))
  BY <1>2
<1>5. /\ \A k \in 1 .. size : ingested'[k] = ingested[k]
      /\ \A k \in 1 .. size : ingested[k][1] \in Sources /\ ingested[k][2] \in Nat \ {0}
      /\ \A k \in 1 .. size : ingested[k][1] = s => ingested[k][2] <= c
      /\ \A k \in 1 .. n : ingested'[size + k] = <<s, c + k>>
  BY <1>1, <1>2, <1>3 DEF Numbered
<1>6. /\ Range(ingested)' = Range(ingested) \cup {<<s, c + k>> : k \in 1 .. n}
      /\ Range(ingested) \subseteq Range(ingested)'
  BY <1>3, RecordRange
<1>7. Count(s)' = c + n /\ \A x \in Sources : x # s => Count(x)' = Count(x)
  BY <1>3, RecordCounts
<1>8. Ordered(ingested)'
  <2> SUFFICES ASSUME NEW j \in 1 .. size + n, NEW k \in 1 .. size + n, j < k,
                      ingested'[j][1] = ingested'[k][1]
               PROVE  ingested'[j][2] < ingested'[k][2]
    BY <1>1, <1>2 DEF Ordered
  <2>1. CASE j \in 1 .. size /\ k \in 1 .. size
    BY <1>1, <1>2, <1>5, <2>1 DEF Numbered, Ordered
  <2>2. CASE j \in 1 .. size /\ k - size \in 1 .. n /\ k = size + (k - size)
    <3>1. ingested'[k] = <<s, c + (k - size)>>
      BY <1>5, <2>2
    <3>2. ingested'[j][2] <= c /\ ingested'[j][2] \in Nat
      BY <1>5, <2>2, <3>1
    <3>3. QED
      BY <2>2, <3>1, <3>2
  <2>3. CASE j - size \in 1 .. n /\ j = size + (j - size)
    <3>1. k - size \in 1 .. n /\ k = size + (k - size)
      BY <1>4, <2>3
    <3>2. ingested'[j] = <<s, c + (j - size)>> /\ ingested'[k] = <<s, c + (k - size)>>
      BY <1>5, <2>3, <3>1
    <3>3. QED
      BY <3>2
  <2>4. QED
    BY <1>4, <2>1, <2>2, <2>3
<1>9. \A f \in Fact : f \in Range(ingested)' <=> f[2] <= Count(f[1])'
  <2> SUFFICES ASSUME NEW f \in Fact PROVE f \in Range(ingested)' <=> f[2] <= Count(f[1])'
    OBVIOUS
  <2>1. f[1] \in Sources /\ f[2] \in Nat /\ f = <<f[1], f[2]>>
    BY FactPair
  <2>2. f \in Range(ingested) <=> f[2] <= Count(f[1])
    BY DEF Numbered
  <2>3. CASE f[1] # s
    <3>1. f \notin {<<s, c + k>> : k \in 1 .. n}
      BY <2>3
    <3>2. Count(f[1])' = Count(f[1])
      BY <1>7, <2>1, <2>3
    <3>3. QED
      BY <1>6, <2>2, <3>1, <3>2
  <2>4. CASE f[1] = s
    <3>1. f \in {<<s, c + k>> : k \in 1 .. n} <=> f[2] > c /\ f[2] <= c + n
      <4>1. \A k \in 1 .. n : f = <<s, c + k>> => f[2] = c + k
        OBVIOUS
      <4>2. f[2] > c /\ f[2] <= c + n => f[2] - c \in 1 .. n /\ f = <<s, c + (f[2] - c)>>
        BY <2>1, <2>4
      <4>3. QED
        BY <4>1, <4>2
    <3>2. Count(f[1])' = c + n /\ Count(f[1]) = c
      BY <1>3, <1>7, <2>4
    <3>3. QED
      BY <1>6, <2>1, <2>2, <3>1, <3>2
  <2>5. QED
    BY <2>3, <2>4
<1>10. Whole(ingested)'
  <2> SUFFICES ASSUME NEW k \in 1 .. size + n, NEW m \in 1 .. ingested'[k][2]
               PROVE  <<ingested'[k][1], m>> \in Range(ingested)'
    BY <1>1, <1>2 DEF Whole
  <2>1. CASE k \in 1 .. size
    <3>1. <<ingested[k][1], m>> \in Range(ingested)
      BY <1>1, <1>2, <1>5, <2>1 DEF Numbered, Whole
    <3>2. QED
      BY <1>5, <1>6, <2>1, <3>1
  <2>2. CASE k - size \in 1 .. n /\ k = size + (k - size)
    <3>1. ingested'[k] = <<s, c + (k - size)>>
      BY <1>5, <2>2
    <3>2. m \in Nat /\ 1 <= m /\ m <= c + n /\ ingested'[k][1] = s
      BY <2>2, <3>1
    <3>3. FactsOf[s] \in Nat /\ c + n <= FactsOf[s]
      BY <1>1, <1>3, ProjectorAssumption
    <3>4. m \in 1 .. FactsOf[s]
      BY <3>2, <3>3
    <3>5. PICK f : f = <<s, m>>
      OBVIOUS
    <3>6. f \in Fact /\ f[1] = s /\ f[2] = m
      BY <3>4, <3>5, FactIs
    <3>7. Count(f[1])' = c + n
      BY <1>7, <3>6
    <3>8. f \in Range(ingested)'
      BY <1>9, <3>2, <3>6, <3>7
    <3>9. QED
      BY <3>2, <3>5, <3>8
  <2>3. QED
    BY <1>4, <2>1, <2>2
<1>11. \A x \in Sources : Count(x)' \in 0 .. FactsOf[x] /\ Count(x) <= Count(x)'
  <2> SUFFICES ASSUME NEW x \in Sources
               PROVE  Count(x)' \in 0 .. FactsOf[x] /\ Count(x) <= Count(x)'
    OBVIOUS
  <2>1. Count(x) \in 0 .. FactsOf[x] /\ FactsOf[x] \in Nat
    BY ProjectorAssumption DEF Numbered
  <2>2. QED
    BY <1>1, <1>3, <1>7, <2>1
<1>12. source' = source /\ told' = told
  BY DEF Record
<1>13. /\ \A x \in Sources : source'[x].done <= Count(x)'
       /\ \A x \in Sources : Telling(x)' => source'[x].done < Count(x)'
  <2> SUFFICES ASSUME NEW x \in Sources
               PROVE  /\ source'[x].done <= Count(x)'
                      /\ Telling(x)' => source'[x].done < Count(x)'
    OBVIOUS
  <2>1. source[x].done \in Nat /\ Count(x) \in Nat /\ Count(x)' \in Nat
    BY <1>11, ProjectorAssumption DEF TypeOK, Numbered
  <2>2. source[x].done <= Count(x) /\ (Telling(x) => source[x].done < Count(x))
    BY DEF Numbered
  <2>3. Telling(x)' <=> Telling(x)
    BY <1>12 DEF Telling
  <2>4. QED
    BY <1>11, <1>12, <2>1, <2>2, <2>3
<1>14. \A f \in told' : f[2] <= source'[f[1]].done
  BY <1>12 DEF Numbered
<1>15. QED
  BY <1>8, <1>9, <1>10, <1>11, <1>13, <1>14 DEF Numbered

(* The journal's entries hold the fact they name.                          *)
LEMMA HeldIsThere ==
  ASSUME TypeOK, Known
  PROVE  \A f : Held(f) => f \in Range(Facts(own))
<1>1. Range(Facts(own)) = {own[k].fact : k \in DOMAIN own}
  BY FactsOfJournal DEF TypeOK
<1>2. \A k \in DOMAIN own : own[k].origin \subseteq {own[k].fact}
  BY DEF Known
<1>3. QED
  BY <1>1, <1>2 DEF Held

(* A copy that the journal lacks is taken; copies of one fact share a fate.*)
LEMMA LackingAllOrNone ==
  ASSUME NEW facts \in Seq(Fact)
  PROVE  /\ (\A f \in Range(facts) : ~Held(f)) => Lacking(facts) = facts
         /\ (\A f \in Range(facts) : Held(f)) => Lacking(facts) = <<>>
<1>1. ASSUME \A f \in Range(facts) : ~Held(f) PROVE Lacking(facts) = facts
  <2>1. {k \in DOMAIN facts : ~Held(facts[k])} = DOMAIN facts
    BY <1>1 DEF Range
  <2>2. QED
    BY <2>1, SelectAll DEF Lacking
<1>2. ASSUME \A f \in Range(facts) : Held(f) PROVE Lacking(facts) = <<>>
  <2>1. {k \in DOMAIN facts : ~Held(facts[k])} = {}
    BY <1>2 DEF Range
  <2>2. QED
    BY <2>1, SelectNone DEF Lacking
<1>3. QED
  BY <1>1, <1>2

Plainly(copies) == [k \in DOMAIN copies |-> [fact |-> copies[k], origin |-> Plain]]

LEMMA PlainlyAre ==
  ASSUME NEW facts \in Seq(Fact)
  PROVE  /\ Plainly(facts) \in Seq(Entry) /\ Len(Plainly(facts)) = Len(facts)
         /\ Facts(Plainly(facts)) = facts
         /\ \A k \in DOMAIN Plainly(facts) : Plainly(facts)[k].origin = {}
<1>1. /\ Len(facts) \in Nat /\ DOMAIN facts = 1 .. Len(facts)
      /\ facts \in [1 .. Len(facts) -> Fact]
  BY SeqIsFunction
<1>2. PICK t : t = Plainly(facts)
  OBVIOUS
<1>3. /\ t \in [1 .. Len(facts) -> Entry]
      /\ \A k \in 1 .. Len(facts) : t[k] = [fact |-> facts[k], origin |-> {}]
  BY <1>1, <1>2 DEF Plainly, Entry, Plain
<1>4. t \in Seq(Entry) /\ Len(t) = Len(facts) /\ DOMAIN t = 1 .. Len(facts)
  BY <1>1, <1>3, FunctionIsSeq
<1>5. \A k \in 1 .. Len(facts) : t[k].fact = facts[k] /\ t[k].origin = {}
  BY <1>3
<1>6. Facts(t) = facts
  BY <1>1, <1>4, <1>5 DEF Facts
<1>7. QED
  BY <1>2, <1>4, <1>5, <1>6

(* What a step records of its copies: all of them, or, when the journal    *)
(* holds the one fact they are copies of, none.                            *)
LEMMA RerecordsAre ==
  ASSUME NEW copies \in Seq(Fact)
  PROVE  /\ Rerecords(copies) \in Seq(Entry)
         /\ \A k \in DOMAIN Rerecords(copies) :
              Rerecords(copies)[k].origin \subseteq {Rerecords(copies)[k].fact}
         /\ \/ /\ Facts(Rerecords(copies)) = copies
               /\ ~(Len(Rerecords(copies)) < Len(copies))
            \/ /\ Rerecords(copies) = <<>> /\ Len(Rerecords(copies)) < Len(copies)
               /\ \A f \in Range(copies) : Held(f)
         /\ Len(copies) = 1 =>
              /\ Rerecords(copies) = Checkpoints(Lacking(copies))
              /\ ~(Len(Rerecords(copies)) < Len(copies)) =>
                   Lacking(copies) = copies /\ ~Held(copies[1])
<1>1. /\ Len(copies) \in Nat /\ DOMAIN copies = 1 .. Len(copies)
      /\ copies # <<>> => 1 \in DOMAIN copies /\ Len(copies) # 0
  BY SeqIsFunction, EmptySeq
<1>2. CASE ~OneOrigin(copies)
  <2>1. Rerecords(copies) = Plainly(copies)
    BY <1>2 DEF Rerecords, Plainly
  <2>2. PICK r : r = Rerecords(copies)
    OBVIOUS
  <2>3. /\ r \in Seq(Entry) /\ Len(r) = Len(copies) /\ Facts(r) = copies
        /\ \A k \in DOMAIN r : r[k].origin = {}
    BY <2>1, <2>2, PlainlyAre
  <2>4. Len(copies) # 1
    BY <1>1, <1>2 DEF OneOrigin
  <2>5. ~(Len(r) < Len(copies))
    BY <1>1, <2>3
  <2>6. QED
    BY <2>2, <2>3, <2>4, <2>5
<1>3. CASE OneOrigin(copies)
  <2>1. Rerecords(copies) = Checkpoints(Lacking(copies))
    BY <1>3 DEF Rerecords
  <2>2. PICK r : r = Rerecords(copies)
    OBVIOUS
  <2>3. Lacking(copies) \in Seq(Fact)
    BY LackingIs
  <2>4. /\ r \in Seq(Entry) /\ Len(r) = Len(Lacking(copies)) /\ Facts(r) = Lacking(copies)
        /\ \A k \in DOMAIN r : r[k].origin = {r[k].fact}
    BY <2>1, <2>2, <2>3, CheckpointsAre
  <2>5. \A f \in Range(copies) : f = copies[1]
    BY <1>3 DEF OneOrigin, Range
  <2>6. CASE copies = <<>>
    <3>1. \A f \in Range(copies) : ~Held(f)
      BY <2>6 DEF Range
    <3>2. Lacking(copies) = copies
      BY <3>1, LackingAllOrNone
    <3>3. Len(copies) = 0
      BY <2>6, EmptySeq
    <3>4. Lacking(copies) = copies /\ Len(copies) # 1
      BY <3>2, <3>3
    <3>5. ~(Len(r) < Len(copies))
      BY <1>1, <2>4, <3>2
    <3>6. QED
      BY <2>1, <2>2, <2>4, <3>4, <3>5
  <2>7. CASE copies # <<>> /\ Held(copies[1])
    <3>1. \A f \in Range(copies) : Held(f)
      BY <2>5, <2>7
    <3>2. Lacking(copies) = <<>>
      BY <3>1, LackingAllOrNone
    <3>3. Len(r) = 0 /\ r = <<>>
      BY <2>4, <3>2, EmptySeq
    <3>4. Len(r) < Len(copies)
      BY <1>1, <2>7, <3>3
    <3>5. QED
      BY <2>1, <2>2, <2>4, <3>1, <3>3, <3>4
  <2>8. CASE copies # <<>> /\ ~Held(copies[1])
    <3>1. \A f \in Range(copies) : ~Held(f)
      BY <2>5, <2>8
    <3>2. Lacking(copies) = copies
      BY <3>1, LackingAllOrNone
    <3>3. ~(Len(r) < Len(copies))
      BY <1>1, <2>4, <3>2
    <3>4. QED
      BY <2>1, <2>2, <2>4, <2>8, <3>2, <3>3
  <2>9. QED
    BY <2>6, <2>7, <2>8
<1>4. QED
  BY <1>2, <1>3

(* A claim takes the head of the inbox, at most a batch.                   *)
Splits(inbox, h, r) ==
  /\ h \in Seq(Fact) /\ r \in Seq(Fact)
  /\ Len(h) \in 1 .. Batch /\ h # <<>>
  /\ Range(inbox) = Range(h) \cup Range(r)
  /\ Len(inbox) = Len(h) + Len(r)
  /\ \A k \in 1 .. Len(h) : h[k] = inbox[k]
  /\ \A k \in 1 .. Len(r) : r[k] = inbox[Len(h) + k]

LEMMA ClaimIs ==
  ASSUME TypeOK, NEW i \in Arms, Claim(i)
  PROVE  \E h, r : 
           /\ Set(i, [arms[i] EXCEPT !.at = "claimed", !.hand = h, !.inbox = r])
           /\ Splits(arms[i].inbox, h, r)
<1>1. PICK inbox : inbox = arms[i].inbox
  OBVIOUS
<1>2. inbox \in Seq(Fact) /\ inbox # <<>>
  BY <1>1, Typed DEF Claim
<1>3. PICK size \in Nat : size = Len(inbox) /\ size # 0 /\ DOMAIN inbox = 1 .. size
  BY <1>2, SeqIsFunction, EmptySeq
<1>4. PICK n : n = IF size < Batch THEN size ELSE Batch
  OBVIOUS
<1>5. Batch \in Nat \ {0} /\ n \in 1 .. size /\ n <= Batch
  BY <1>3, <1>4, ProjectorAssumption
<1>6. PICK h : h = SubSeq(inbox, 1, n)
  OBVIOUS
<1>7. PICK r : r = SubSeq(inbox, n + 1, size)
  OBVIOUS
<1>8. h \in Seq(Fact) /\ Len(h) = n /\ \A k \in 1 .. n : h[k] = inbox[k]
  <2>1. 1 \in 1 .. size + 1 /\ n \in 1 - 1 .. size /\ n - 1 + 1 = n
    BY <1>5
  <2>2. /\ h \in Seq(Fact) /\ Len(h) = n - 1 + 1
        /\ \A k \in 1 .. n - 1 + 1 : h[k] = inbox[1 + k - 1]
    BY <1>2, <1>3, <1>6, <2>1, SubSeqProperties
  <2>3. \A k \in 1 .. n : 1 + k - 1 = k
    BY <1>5
  <2>4. QED
    BY <2>1, <2>2, <2>3
<1>9. r \in Seq(Fact) /\ Len(r) = size - n /\ \A k \in 1 .. size - n : r[k] = inbox[n + k]
  <2>1. PICK m \in Nat : m = n + 1
    BY <1>5
  <2>2. m \in 1 .. size + 1 /\ size \in m - 1 .. size /\ size - m + 1 = size - n
    BY <1>5, <2>1
  <2>3. /\ r \in Seq(Fact) /\ Len(r) = size - m + 1
        /\ \A k \in 1 .. size - m + 1 : r[k] = inbox[m + k - 1]
    BY <1>2, <1>3, <1>7, <2>1, <2>2, SubSeqProperties, SMTT(30)
  <2>4. \A k \in 1 .. size - n : m + k - 1 = n + k
    BY <1>5, <2>1
  <2>5. QED
    BY <2>2, <2>3, <2>4
<1>10. Range(inbox) = Range(h) \cup Range(r)
  <2>1. DOMAIN h = 1 .. n /\ DOMAIN r = 1 .. size - n
    BY <1>8, <1>9, SeqIsFunction
  <2>2. \A k \in 1 .. size : k \in 1 .. n \/ (k - n \in 1 .. size - n /\ n + (k - n) = k)
    BY <1>5
  <2>3. \A k \in 1 .. n : k \in 1 .. size
    BY <1>5
  <2>4. \A k \in 1 .. size - n : n + k \in 1 .. size
    BY <1>5
  <2>5. Range(h) \subseteq Range(inbox) /\ Range(r) \subseteq Range(inbox)
    BY <1>3, <1>8, <1>9, <2>1, <2>3, <2>4 DEF Range
  <2>6. ASSUME NEW k \in 1 .. size PROVE inbox[k] \in Range(h) \cup Range(r)
    <3>1. CASE k \in 1 .. n
      BY <1>8, <2>1, <3>1 DEF Range
    <3>2. CASE k - n \in 1 .. size - n /\ n + (k - n) = k
      BY <1>9, <2>1, <3>2 DEF Range
    <3>3. QED
      BY <2>2, <3>1, <3>2
  <2>7. Range(inbox) \subseteq Range(h) \cup Range(r)
    BY <1>3, <2>6 DEF Range
  <2>8. QED
    BY <2>5, <2>7
<1>11. Set(i, [arms[i] EXCEPT !.at = "claimed", !.hand = h, !.inbox = r])
  BY <1>1, <1>3, <1>4, <1>6, <1>7 DEF Claim
<1>12. Len(h) \in 1 .. Batch /\ h # <<>> /\ Len(inbox) = Len(h) + Len(r)
  <2>1. Len(h) \in 1 .. Batch /\ Len(h) # 0 /\ size = n + (size - n)
    BY <1>3, <1>5, <1>8
  <2>2. QED
    BY <1>3, <1>8, <1>9, <2>1, EmptySeq
<1>13. Splits(inbox, h, r)
  <2>1. /\ \A k \in 1 .. Len(h) : h[k] = inbox[k]
        /\ \A k \in 1 .. Len(r) : r[k] = inbox[Len(h) + k]
    BY <1>8, <1>9
  <2>2. QED
    BY <1>8, <1>9, <1>10, <1>12, <2>1 DEF Splits
<1>14. QED
  BY <1>1, <1>11, <1>13

(* The next fact of a source that is telling.                              *)
LEMMA NextFact ==
  ASSUME TypeOK, Numbered, NEW s \in Sources, Telling(s)
  PROVE  /\ Next1(s) \in Fact /\ Next1(s) \in Range(ingested)
         /\ Next1(s)[1] = s /\ Next1(s)[2] = source[s].done + 1
         /\ source[s].done \in Nat /\ source[s].target \in {0} \cup Arms
<1>1. source[s].done \in Nat /\ source[s].target \in {0} \cup Arms
  BY DEF TypeOK
<1>2. /\ source[s].done < Count(s) /\ Count(s) \in 0 .. FactsOf[s] /\ FactsOf[s] \in Nat
  BY ProjectorAssumption DEF Numbered
<1>3. source[s].done + 1 \in 1 .. FactsOf[s] /\ source[s].done + 1 <= Count(s)
  BY <1>1, <1>2
<1>4. PICK f : f = Next1(s)
  OBVIOUS
<1>5. f \in Fact /\ f[1] = s /\ f[2] = source[s].done + 1
  BY <1>3, <1>4, FactIs DEF Next1
<1>6. f \in Range(ingested)
  BY <1>3, <1>5 DEF Numbered
<1>7. QED
  BY <1>1, <1>4, <1>5, <1>6

(* The fact is told: the source goes on behind it.                         *)
LEMMA ToldIs ==
  ASSUME TypeOK, Numbered, NEW s \in Sources, Telling(s), Told(s)
  PROVE  /\ source'[s] = [at |-> "idle", done |-> source[s].done + 1, target |-> 0]
         /\ \A x \in Sources : x # s => source'[x] = source[x]
         /\ told' = told \cup {Next1(s)} /\ told' \subseteq Fact
         /\ \A A : Arms \subseteq A =>
              source' \in [Sources -> [at : {"idle", "telling", "dead"}, done : Nat,
                                       target : {0} \cup A]]
BY NextFact, SMTT(30) DEF Told, TypeOK

----------------------------------------------------------------------------
(* Type correctness.                                                       *)

HostRecord ==
  [op : {"none", "read", "rebuild", "stop"},
   at : {"done", "wake", "factory", "mark", "wait", "quiesce", "read", "stop", "purge", "dead"},
   mark : 0 .. MaxArms, owed : SUBSET Fact]

SourceRecord(A) == [at : {"idle", "telling", "dead"}, done : Nat, target : {0} \cup A]

(* The conjuncts of TypeOK, by what they are about.                        *)
LEMMA TypeParts ==
  TypeOK <=>
    /\ mode \in Modes
    /\ ingested \in Seq(Fact) /\ own \in Seq(Entry)
    /\ source \in [Sources -> SourceRecord(Arms)] /\ told \subseteq Fact
    /\ arms \in Seq(ArmRecord) /\ slot \in {0} \cup Arms
    /\ states \in [{1, 2} -> Seq(Fact)] /\ table \in 0 .. 2
    /\ caughtUp \in 0 .. MaxArms
    /\ host \in HostRecord /\ ops \in 0 .. MaxOps /\ left \in [AllFaults -> Nat]
    /\ purged \in BOOLEAN /\ missed \subseteq Fact
BY DEF TypeOK, SourceRecord, ArmRecord, HostRecord

LEMMA TypeParts2 ==
  (TypeOK <=>
    /\ mode \in Modes
    /\ ingested \in Seq(Fact) /\ own \in Seq(Entry)
    /\ source \in [Sources -> SourceRecord(Arms)] /\ told \subseteq Fact
    /\ arms \in Seq(ArmRecord) /\ slot \in {0} \cup Arms
    /\ states \in [{1, 2} -> Seq(Fact)] /\ table \in 0 .. 2
    /\ caughtUp \in 0 .. MaxArms
    /\ host \in HostRecord /\ ops \in 0 .. MaxOps /\ left \in [AllFaults -> Nat]
    /\ purged \in BOOLEAN /\ missed \subseteq Fact)'
BY TypeParts, PTL

LEMMA TypedParts ==
  ASSUME TypeOK
  PROVE  /\ mode \in Modes
         /\ ingested \in Seq(Fact) /\ own \in Seq(Entry)
         /\ source \in [Sources -> SourceRecord(Arms)] /\ told \subseteq Fact
         /\ arms \in Seq(ArmRecord) /\ slot \in {0} \cup Arms
         /\ states \in [{1, 2} -> Seq(Fact)] /\ table \in 0 .. 2
         /\ caughtUp \in 0 .. MaxArms
         /\ host \in HostRecord /\ ops \in 0 .. MaxOps /\ left \in [AllFaults -> Nat]
         /\ purged \in BOOLEAN /\ missed \subseteq Fact
BY TypeParts

(* Who is at work.                                                         *)
LEMMA AtWork ==
  ASSUME TypeOK, Slotted, NEW i \in Arms, arms[i].at # "gone"
  PROVE  /\ i = slot /\ slot # 0 /\ table \in {1, 2}
         /\ states[table] \in Seq(Fact)
         /\ \A j \in Arms : j # i => arms[j].at = "gone" /\ ~arms[j].open
<1>1. i = slot /\ i \in 1 .. Len(arms)
  BY Typed DEF Slotted
<1>2. slot # 0
  BY <1>1
<1>3. table \in {1, 2}
  BY <1>2, TypedParts DEF Slotted
<1>4. QED
  BY <1>1, <1>2, <1>3, TypedParts DEF Slotted

(* A fresh instance holds the journal.                                     *)
LEMMA RebuiltIs ==
  ASSUME TypeOK, table \in {1, 2}, Rebuilt
  PROVE  /\ Fresh \in {1, 2} /\ table' = Fresh /\ table' \in {1, 2}
         /\ states' \in [{1, 2} -> Seq(Fact)] /\ states'[table'] = Facts(own)
<1>1. Fresh \in {1, 2}
  BY DEF Fresh
<1>2. Facts(own) \in Seq(Fact)
  BY FactsOfJournal, TypedParts
<1>3. QED
  BY <1>1, <1>2, TypedParts DEF Rebuilt

LEMMA ShellsType == Shells \in [{1, 2} -> Seq(Fact)] /\ Shells[1] = <<>> /\ Shells[2] = <<>>
<1>1. <<>> \in Seq(Fact)
  BY SmallSeqs
<1>2. QED
  BY <1>1 DEF Shells

LEMMA TeardownType ==
  ASSUME TypeOK, NEW i \in Arms, Teardown(i)
  PROVE  /\ arms' \in Seq(ArmRecord) /\ Arms' = Arms /\ Len(arms') = Len(arms)
         /\ arms'[i] = [arms[i] EXCEPT !.at = "gone", !.inbox = <<>>, !.open = FALSE,
                                       !.found = <<>>, !.state = 1]
         /\ \A j \in Arms : j # i => arms'[j] = arms[j]
         /\ slot' = 0 /\ table' = 0 /\ states' = Shells
         /\ states' \in [{1, 2} -> Seq(Fact)]
<1>1. PICK arm : arm = [arms[i] EXCEPT !.at = "gone", !.inbox = <<>>, !.open = FALSE,
                                       !.found = <<>>, !.state = 1]
  OBVIOUS
<1>2. <<>> \in Seq(Fact) /\ arms[i] \in ArmRecord
  BY SmallSeqs, Typed
<1>3. arm \in ArmRecord
  BY <1>1, <1>2 DEF ArmRecord
<1>4. Set(i, arm)
  BY <1>1 DEF Teardown
<1>5. QED
  BY <1>1, <1>3, <1>4, SetArm, ShellsType DEF Teardown

LEMMA SpendType ==
  ASSUME NEW fault \in AllFaults, TypeOK, Spend(fault)
  PROVE  left' \in [AllFaults -> Nat]
<1>1. left \in [AllFaults -> Nat]
  BY TypedParts
<1>2. QED
  BY <1>1 DEF Spend

(* What the host's record may become.                                      *)
LEMMA HostType ==
  ASSUME TypeOK
  PROVE  /\ Idle \in HostRecord
         /\ \A at \in {"wait", "mark", "factory", "quiesce", "dead", "purge", "read", "done"} :
              Goes(at) => host' \in HostRecord
<1>1. host \in HostRecord /\ 0 \in 0 .. MaxArms
  BY TypedParts, ProjectorAssumption
<1>2. Idle \in HostRecord
  BY <1>1 DEF Idle, HostRecord
<1>3. QED
  BY <1>1, <1>2 DEF Goes, HostRecord

LEMMA BeginType ==
  ASSUME TypeOK, NEW op \in {"read", "rebuild", "stop"}, NEW at \in {"quiesce", "wake", "stop"},
         NEW owed \in SUBSET Fact, Begin(op, at, owed)
  PROVE  /\ host' \in HostRecord /\ ops' \in 0 .. MaxOps
         /\ host' = [op |-> op, at |-> at, mark |-> 0, owed |-> owed]
<1>1. 0 \in 0 .. MaxArms /\ ops \in 0 .. MaxOps /\ MaxOps \in Nat
  BY TypedParts, ProjectorAssumption
<1>2. QED
  BY <1>1 DEF Begin, HostRecord

(* Every step keeps the types.                                             *)
LEMMA StepType ==
  ASSUME TypeOK, Slotted, Numbered, Counted, HostAt, Next
  PROVE  TypeOK'
<1> USE DEF storeVars, liveVars, hostVars
<1>0. /\ arms \in Seq(ArmRecord) /\ \A i \in Arms : arms[i] \in ArmRecord
      /\ <<>> \in Seq(Fact)
  BY Typed, SmallSeqs
<1>1. ASSUME NEW s \in Sources, NEW n \in 1 .. 2, Record(s, n) PROVE TypeOK'
  <2>1. Arms' = Arms /\ ingested' \in Seq(Fact)
    BY <1>1, RecordIs DEF Record, Arms
  <2>2. source' \in [Sources -> SourceRecord(Arms')]
    BY <1>1, <2>1, TypedParts DEF Record
  <2> QED
    BY <1>1, <2>1, <2>2, TypedParts, TypeParts2 DEF Record
<1>2. ASSUME NEW s \in Sources, Resolve(s) PROVE TypeOK'
  <2>1. source' \in [Sources -> SourceRecord(Arms)] /\ Arms' = Arms
    BY <1>2, TypedParts, ZenonT(60) DEF Resolve, SourceRecord, Arms
  <2> QED
    BY <1>2, <2>1, TypedParts, TypeParts2 DEF Resolve
<1>3. ASSUME NEW s \in Sources, Deliver(s) PROVE TypeOK'
  <2>1. Telling(s) /\ Told(s) /\ source[s].target \in Arms /\ Next1(s) \in Fact
    BY <1>3, NextFact DEF Deliver
  <2>2. PICK i \in Arms : i = source[s].target
    BY <2>1
  <2>3. arms' \in Seq(ArmRecord) /\ Arms' = Arms
    <3>1. CASE arms[i].open
      <4>1. PICK arm : arm = [arms[i] EXCEPT !.inbox = Append(@, Next1(s))]
        OBVIOUS
      <4>2. Append(arms[i].inbox, Next1(s)) \in Seq(Fact)
        BY <2>1, Typed, AppendProperties
      <4>3. arm \in ArmRecord
        BY <1>0, <4>1, <4>2 DEF ArmRecord
      <4>4. Set(i, arm)
        BY <1>3, <2>2, <3>1, <4>1 DEF Deliver
      <4>5. QED
        BY <4>3, <4>4, SetArm
    <3>2. CASE ~arms[i].open
      BY <1>3, <1>0, <2>2, <3>2 DEF Deliver, Arms
    <3>3. QED
      BY <3>1, <3>2
  <2>4. source' \in [Sources -> SourceRecord(Arms')] /\ told' \subseteq Fact
    BY <2>1, <2>3, ToldIs DEF SourceRecord
  <2> QED
    BY <1>3, <2>3, <2>4, TypedParts, TypeParts2 DEF Deliver
<1>4. ASSUME NEW s \in Sources, DeliverCold(s) PROVE TypeOK'
  <2>1. Telling(s) /\ Next1(s) \in Fact
    BY <1>4, NextFact DEF DeliverCold
  <2>2. CASE ~Owned /\ Told(s) /\ UNCHANGED liveVars
    <3>1. source' \in [Sources -> SourceRecord(Arms')] /\ told' \subseteq Fact /\ Arms' = Arms
      BY <2>1, <2>2, ToldIs DEF SourceRecord, Arms
    <3>2. QED
      BY <1>4, <2>2, <3>1, TypedParts, TypeParts2 DEF DeliverCold
  <2>3. CASE Owned /\ slot = 0 /\ Told(s) /\ Arm(<<Next1(s)>>)
    <3>1. <<Next1(s)>> \in Seq(Fact)
      BY <2>1, SmallSeqs
    <3>2. arms' \in Seq(ArmRecord) /\ Arms' = Arms \cup {slot'} /\ table' = 1 /\ states' = states
      BY <2>3, <3>1, NewArm
    <3>3. source' \in [Sources -> SourceRecord(Arms')] /\ told' \subseteq Fact
      BY <2>1, <2>3, <3>2, ToldIs DEF SourceRecord
    <3>4. slot' \in {0} \cup Arms' /\ table' \in 0 .. 2
      BY <3>2
    <3>5. QED
      BY <1>4, <3>2, <3>3, <3>4, TypedParts, TypeParts2 DEF DeliverCold
  <2>4. CASE source' = [source EXCEPT ![s].at = "dead"] /\ UNCHANGED <<told, liveVars>>
    <3>1. source' \in [Sources -> SourceRecord(Arms')] /\ Arms' = Arms
      BY <2>4, TypedParts DEF SourceRecord, Arms
    <3>2. QED
      BY <1>4, <2>4, <3>1, TypedParts, TypeParts2 DEF DeliverCold
  <2> QED
    BY <1>4, <2>2, <2>3, <2>4, TypedParts, TypeParts2 DEF DeliverCold
<1>5. ASSUME NEW s \in Sources, Mute(s) PROVE TypeOK'
  <2>1. Count(s) \in Nat
    BY ProjectorAssumption DEF Numbered
  <2>2. source' \in [Sources -> SourceRecord(Arms)] /\ Arms' = Arms
    BY <1>5, <2>1, TypedParts DEF Mute, SourceRecord, Arms
  <2>3. left' \in [AllFaults -> Nat]
    BY <1>5, SpendType DEF Mute, AllFaults
  <2> QED
    BY <1>5, <2>2, <2>3, TypedParts, TypeParts2 DEF Mute
<1>6. ASSUME NEW i \in Arms, LoadOwn(i) PROVE TypeOK'
  <2>1. arms[i].at # "gone"
    BY <1>6 DEF LoadOwn
  <2>2. i = slot /\ table \in {1, 2} /\ states[table] \in Seq(Fact)
    BY <2>1, AtWork
  <2>7. PICK arm : arm = [arms[i] EXCEPT !.at = "loaded"]
    OBVIOUS
  <2>8. arm \in ArmRecord
    BY <1>0, <2>7 DEF ArmRecord, CatchingUp, Looping
  <2>9. arms' \in Seq(ArmRecord) /\ Arms' = Arms
    BY <1>6, <2>7, <2>8, SetArm DEF LoadOwn
  <2>10. /\ states' \in [{1, 2} -> Seq(Fact)] /\ table' \in 0 .. 2
    BY <1>6, <2>2, RebuiltIs, TypedParts DEF LoadOwn
  <2> QED
    BY <1>6, <2>9, <2>10, TypedParts, TypeParts2 DEF LoadOwn
<1>7. ASSUME NEW i \in Arms, Scan(i) PROVE TypeOK'
  <2>1. arms[i].at # "gone"
    BY <1>7 DEF Scan
  <2>2. i = slot /\ table \in {1, 2} /\ states[table] \in Seq(Fact)
    BY <2>1, AtWork
  <2>3. ingested \in Seq(Fact) /\ Scanned = ingested
    BY TypedParts DEF Scanned
  <2>7. PICK arm : arm = [arms[i] EXCEPT !.at = "scanned", !.found = ingested]
    OBVIOUS
  <2>8. arm \in ArmRecord
    BY <1>0, <2>3, <2>7 DEF ArmRecord, CatchingUp, Looping
  <2>9. arms' \in Seq(ArmRecord) /\ Arms' = Arms
    BY <1>7, <2>3, <2>7, <2>8, SetArm DEF Scan
  <2> QED
    BY <1>7, <2>9, TypedParts, TypeParts2 DEF Scan
<1>8. ASSUME NEW i \in Arms, Seed(i) PROVE TypeOK'
  <2>1. arms[i].at # "gone"
    BY <1>8 DEF Seed
  <2>2. i = slot /\ table \in {1, 2} /\ states[table] \in Seq(Fact)
    BY <2>1, AtWork
  <2>3. Lacking(arms[i].found) \in Seq(Fact)
    BY Typed, LackingIs
  <2>7. PICK arm : arm = [arms[i] EXCEPT !.at = "seeded", !.hand = Lacking(arms[i].found)]
    OBVIOUS
  <2>8. arm \in ArmRecord
    BY <1>0, <2>3, <2>7 DEF ArmRecord, CatchingUp, Looping
  <2>9. arms' \in Seq(ArmRecord) /\ Arms' = Arms
    BY <1>8, <2>7, <2>8, SetArm DEF Seed
  <2>10. own' \in Seq(Entry)
    <3>1. Checkpoints(Lacking(arms[i].found)) \in Seq(Entry)
      BY <2>3, CheckpointsAre
    <3>2. QED
      BY <1>8, <3>1, TypedParts, FactsConcat DEF Seed
  <2> QED
    BY <1>8, <2>9, <2>10, TypedParts, TypeParts2 DEF Seed
<1>9. ASSUME NEW i \in Arms, GoLive(i) PROVE TypeOK'
  <2>1. arms[i].at # "gone"
    BY <1>9 DEF GoLive
  <2>2. i = slot /\ table \in {1, 2} /\ states[table] \in Seq(Fact)
    BY <2>1, AtWork
  <2>3. table \in {1, 2}
    BY <2>2
  <2>7. PICK arm : arm = [arms[i] EXCEPT !.at = "boot", !.hand = <<>>, !.state = table]
    OBVIOUS
  <2>8. arm \in ArmRecord
    BY <1>0, <2>3, <2>7 DEF ArmRecord, CatchingUp, Looping
  <2>9. arms' \in Seq(ArmRecord) /\ Arms' = Arms
    BY <1>9, <2>7, <2>8, SetArm DEF GoLive
  <2>10. states' \in [{1, 2} -> Seq(Fact)]
    <3>1. states[table] \o arms[i].hand \in Seq(Fact)
      BY <2>2, Typed, ConcatProperties
    <3>2. QED
      BY <1>9, <2>2, <3>1, TypedParts DEF GoLive
  <2>11. caughtUp' \in 0 .. MaxArms
    <3>1. caughtUp < Len(arms) /\ Len(arms) <= MaxArms /\ Len(arms) \in Nat
      BY <1>9, Typed DEF Counted, GoLive, CatchingUp
    <3>2. QED
      BY <1>9, <3>1, TypedParts, ProjectorAssumption DEF GoLive
  <2> QED
    BY <1>9, <2>9, <2>10, <2>11, TypedParts, TypeParts2 DEF GoLive
<1>10. ASSUME NEW i \in Arms, Boot(i) PROVE TypeOK'
  <2>1. arms[i].at # "gone"
    BY <1>10 DEF Boot
  <2>2. i = slot /\ table \in {1, 2} /\ Fresh \in {1, 2}
    BY <2>1, AtWork DEF Fresh
  <2>3. CASE own = <<>>
    <3>1. PICK arm : arm = [arms[i] EXCEPT !.at = "idle"]
      OBVIOUS
    <3>2. arm \in ArmRecord
      BY <1>0, <3>1 DEF ArmRecord, CatchingUp, Looping
    <3>3. arms' \in Seq(ArmRecord) /\ Arms' = Arms
      BY <1>10, <2>3, <3>1, <3>2, SetArm DEF Boot
    <3>4. QED
      BY <1>10, <2>3, <3>3, TypedParts, TypeParts2 DEF Boot
  <2>4. CASE own # <<>>
    <3>1. PICK arm : arm = [arms[i] EXCEPT !.at = "idle", !.state = Fresh]
      OBVIOUS
    <3>2. arm \in ArmRecord
      BY <1>0, <2>2, <3>1 DEF ArmRecord, CatchingUp, Looping
    <3>3. arms' \in Seq(ArmRecord) /\ Arms' = Arms
      BY <1>10, <2>4, <3>1, <3>2, SetArm DEF Boot
    <3>4. states' \in [{1, 2} -> Seq(Fact)] /\ table' \in 0 .. 2
      BY <1>10, <2>2, <2>4, RebuiltIs DEF Boot
    <3>5. QED
      BY <1>10, <2>4, <3>3, <3>4, TypedParts, TypeParts2 DEF Boot
  <2> QED
    BY <1>10, <2>3, <2>4, TypedParts, TypeParts2 DEF Boot
<1>11. ASSUME NEW i \in Arms, Claim(i) PROVE TypeOK'
  <2>1. PICK h, r :
          /\ Set(i, [arms[i] EXCEPT !.at = "claimed", !.hand = h, !.inbox = r])
          /\ Splits(arms[i].inbox, h, r)
    BY <1>11, ClaimIs
  <2>2. PICK arm : arm = [arms[i] EXCEPT !.at = "claimed", !.hand = h, !.inbox = r]
    OBVIOUS
  <2>3. arm \in ArmRecord
    BY <1>0, <2>1, <2>2, ZenonT(60) DEF ArmRecord, CatchingUp, Looping, Splits
  <2>4. arms' \in Seq(ArmRecord) /\ Arms' = Arms
    BY <2>1, <2>2, <2>3, SetArm
  <2> QED
    BY <1>11, <2>4, TypedParts, TypeParts2 DEF Claim
<1>12. ASSUME NEW i \in Arms, Journal(i) PROVE TypeOK'
  <2>1. PICK copies : copies = arms[i].hand
    OBVIOUS
  <2>2. copies \in Seq(Fact) /\ Rerecords(copies) \in Seq(Entry)
    <3>1. copies \in Seq(Fact)
      BY <2>1, Typed
    <3>2. Checkpoints(Lacking(copies)) \in Seq(Entry)
      BY <3>1, LackingIs, CheckpointsAre
    <3>3. Plainly(copies) \in Seq(Entry)
      BY <3>1, PlainlyAre
    <3>4. QED
      BY <3>1, <3>2, <3>3 DEF Rerecords, Plainly
  <2>3. own' \in Seq(Entry)
    BY <1>12, <2>1, <2>2, TypedParts, FactsConcat DEF Journal
  <2>4. arms' \in Seq(ArmRecord) /\ Arms' = Arms
    <3>1. PICK arm : arm = [arms[i] EXCEPT !.at = "idle", !.hand = <<>>]
      OBVIOUS
    <3>2. PICK other : other = [arms[i] EXCEPT !.at = "committed"]
      OBVIOUS
    <3>3. arm \in ArmRecord /\ other \in ArmRecord
      BY <1>0, <3>1, <3>2 DEF ArmRecord, CatchingUp, Looping
    <3>4. Set(i, arm) \/ Set(i, other)
      BY <1>12, <3>1, <3>2 DEF Journal
    <3>5. QED
      BY <3>3, <3>4, SetArm
  <2> QED
    BY <1>12, <2>3, <2>4, TypedParts, TypeParts2 DEF Journal
<1>13. ASSUME NEW i \in Arms, JournalFails(i) PROVE TypeOK'
  <2>1. arms[i].at # "gone"
    BY <1>13 DEF JournalFails
  <2>2. i = slot /\ table \in {1, 2} /\ states[table] \in Seq(Fact)
    BY <2>1, AtWork
  <2>3. arms[i].hand \o arms[i].inbox \in Seq(Fact)
    BY Typed, ConcatProperties
  <2>7. PICK arm : arm = [arms[i] EXCEPT !.at = "crashed", !.hand = <<>>, !.inbox = arms[i].hand \o arms[i].inbox]
    OBVIOUS
  <2>8. arm \in ArmRecord
    BY <1>0, <2>3, <2>7 DEF ArmRecord, CatchingUp, Looping
  <2>9. arms' \in Seq(ArmRecord) /\ Arms' = Arms
    BY <1>13, <2>7, <2>8, SetArm DEF JournalFails
  <2>10. left' \in [AllFaults -> Nat]
    BY <1>13, SpendType DEF JournalFails, AllFaults
  <2> QED
    BY <1>13, <2>9, <2>10, TypedParts, TypeParts2 DEF JournalFails
<1>14. ASSUME NEW i \in Arms, Apply(i) PROVE TypeOK'
  <2>1. arms[i].at # "gone"
    BY <1>14 DEF Apply
  <2>2. i = slot /\ table \in {1, 2} /\ states[table] \in Seq(Fact)
    BY <2>1, AtWork
  <2>7. PICK arm : arm = [arms[i] EXCEPT !.at = "idle", !.hand = <<>>]
    OBVIOUS
  <2>8. arm \in ArmRecord
    BY <1>0, <2>7 DEF ArmRecord, CatchingUp, Looping
  <2>9. arms' \in Seq(ArmRecord) /\ Arms' = Arms
    BY <1>14, <2>7, <2>8, SetArm DEF Apply
  <2>10. states' \in [{1, 2} -> Seq(Fact)]
    <3>1. arms[i].state \in {1, 2} /\ states[arms[i].state] \o arms[i].hand \in Seq(Fact)
      BY Typed, TypedParts, ConcatProperties
    <3>2. QED
      BY <1>14, <3>1, TypedParts DEF Apply
  <2> QED
    BY <1>14, <2>9, <2>10, TypedParts, TypeParts2 DEF Apply
<1>15. ASSUME NEW i \in Arms, Close(i) PROVE TypeOK'
  <2>1. arms[i].at # "gone"
    BY <1>15 DEF Close
  <2>2. i = slot /\ table \in {1, 2} /\ states[table] \in Seq(Fact)
    BY <2>1, AtWork
  <2>7. PICK arm : arm = [arms[i] EXCEPT !.open = FALSE]
    OBVIOUS
  <2>8. arm \in ArmRecord
    BY <1>0, <2>7 DEF ArmRecord, CatchingUp, Looping
  <2>9. arms' \in Seq(ArmRecord) /\ Arms' = Arms
    BY <1>15, <2>7, <2>8, SetArm DEF Close
  <2> QED
    BY <1>15, <2>9, TypedParts, TypeParts2 DEF Close
<1>16. ASSUME NEW i \in Arms, Leave(i) PROVE TypeOK'
  <2>1. Teardown(i)
    BY <1>16 DEF Leave
  <2>2. /\ arms' \in Seq(ArmRecord) /\ Arms' = Arms
        /\ states' \in [{1, 2} -> Seq(Fact)]
        /\ slot' = 0 /\ table' = 0
    BY <2>1, TeardownType
  <2>3. source' \in [Sources -> SourceRecord(Arms')]
    BY <1>16, <2>2, TypedParts DEF Leave
  <2>4. slot' \in {0} \cup Arms' /\ table' \in 0 .. 2
    BY <2>2
  <2> QED
    BY <1>16, <2>2, <2>3, <2>4, TypedParts, TypeParts2 DEF Leave
<1>17. ASSUME Start PROVE TypeOK'
  <2>1. arms' \in Seq(ArmRecord) /\ Arms' = Arms \cup {slot'} /\ table' = 1 /\ states' = states
    BY <1>17, <1>0, NewArm DEF Start
  <2>2. source' \in [Sources -> SourceRecord(Arms')]
    BY <1>17, <2>1, TypedParts DEF Start, SourceRecord
  <2>3. slot' \in {0} \cup Arms' /\ table' \in 0 .. 2
    BY <2>1
  <2> QED
    BY <1>17, <2>1, <2>2, <2>3, TypedParts, TypeParts2 DEF Start
<1>18. ASSUME ReadHot PROVE TypeOK'
  <2>1. (IF arms[slot].at \in Looping THEN told ELSE {}) \in SUBSET Fact
    BY TypedParts
  <2>2. host' \in HostRecord /\ ops' \in 0 .. MaxOps
    BY <1>18, <2>1, BeginType DEF ReadHot
  <2>3. Arms' = Arms
    BY <1>18 DEF ReadHot, Arms
  <2> QED
    BY <1>18, <2>2, <2>3, TypedParts, TypeParts2 DEF ReadHot
<1>19. ASSUME ReadCold PROVE TypeOK'
  <2>1. Range(ingested) \in SUBSET Fact
    BY RecordedAre
  <2>2. host' \in HostRecord /\ ops' \in 0 .. MaxOps
    BY <1>19, <2>1, BeginType DEF ReadCold
  <2>3. Arms' = Arms
    BY <1>19 DEF ReadCold, Arms
  <2> QED
    BY <1>19, <2>2, <2>3, TypedParts, TypeParts2 DEF ReadCold
<1>20. ASSUME Wake PROVE TypeOK'
  <2>1. host' \in HostRecord
    BY <1>20, TypedParts DEF Wake, HostRecord
  <2>3. Arms' = Arms
    BY <1>20 DEF Wake, Arms
  <2> QED
    BY <1>20, <2>1, <2>3, TypedParts, TypeParts2 DEF Wake
<1>21. ASSUME Factory PROVE TypeOK'
  <2>1. host' \in HostRecord
    BY <1>21, HostType DEF Factory
  <2>2. CASE slot # 0
    <3>1. Arms' = Arms
      BY <1>21, <2>2 DEF Factory, Arms
    <3>2. QED
      BY <1>21, <2>1, <2>2, <3>1, TypedParts, TypeParts2 DEF Factory
  <2>3. CASE slot = 0
    <3>1. arms' \in Seq(ArmRecord) /\ Arms' = Arms \cup {slot'} /\ table' = 1 /\ states' = states
      BY <1>21, <1>0, <2>3, NewArm DEF Factory
    <3>2. source' \in [Sources -> SourceRecord(Arms')]
      BY <1>21, <3>1, TypedParts DEF Factory, SourceRecord
    <3>3. slot' \in {0} \cup Arms' /\ table' \in 0 .. 2
      BY <3>1
    <3>4. QED
      BY <1>21, <2>1, <3>1, <3>2, <3>3, TypedParts, TypeParts2 DEF Factory
  <2> QED
    BY <1>21, <2>2, <2>3, TypedParts, TypeParts2 DEF Factory
<1>22. ASSUME Mark PROVE TypeOK'
  <2>1. host' \in HostRecord
    BY <1>22, TypedParts DEF Mark, HostRecord
  <2>3. Arms' = Arms
    BY <1>22 DEF Mark, Arms
  <2> QED
    BY <1>22, <2>1, <2>3, TypedParts, TypeParts2 DEF Mark
<1>23. ASSUME Wait PROVE TypeOK'
  <2>1. host' \in HostRecord
    BY <1>23, HostType DEF Wait
  <2>3. Arms' = Arms
    BY <1>23 DEF Wait, Arms
  <2> QED
    BY <1>23, <2>1, <2>3, TypedParts, TypeParts2 DEF Wait
<1>24. ASSUME Quiesce PROVE TypeOK'
  <2>1. host' \in HostRecord
    BY <1>24, HostType, TypedParts DEF Quiesce, HostRecord
  <2>3. Arms' = Arms
    BY <1>24 DEF Quiesce, Arms
  <2> QED
    BY <1>24, <2>1, <2>3, TypedParts, TypeParts2 DEF Quiesce
<1>25. ASSUME Read PROVE TypeOK'
  <2>1. host' \in HostRecord
    BY <1>25, HostType DEF Read
  <2>2. Lacks \subseteq Fact
    BY TypedParts DEF Lacks, HostRecord
  <2>3. Arms' = Arms
    BY <1>25 DEF Read, Arms
  <2> QED
    BY <1>25, <2>1, <2>2, <2>3, TypedParts, TypeParts2 DEF Read
<1>26. ASSUME BeginStop PROVE TypeOK'
  <2>1. host' \in HostRecord /\ ops' \in 0 .. MaxOps
    BY <1>26, BeginType DEF BeginStop
  <2>3. Arms' = Arms
    BY <1>26 DEF BeginStop, Arms
  <2> QED
    BY <1>26, <2>1, <2>3, TypedParts, TypeParts2 DEF BeginStop
<1>27. ASSUME Stop PROVE TypeOK'
  <2>1. host' \in HostRecord
    BY <1>27, HostType DEF Stop
  <2>2. CASE slot = 0
    <3>1. Arms' = Arms
      BY <1>27, <2>2 DEF Stop, Arms
    <3>2. QED
      BY <1>27, <2>1, <2>2, <3>1, TypedParts, TypeParts2 DEF Stop
  <2>3. CASE slot # 0
    <3>1. slot \in Arms /\ Teardown(slot)
      BY <1>27, <2>3, TypedParts DEF Stop
    <3>2. /\ arms' \in Seq(ArmRecord) /\ Arms' = Arms
          /\ states' \in [{1, 2} -> Seq(Fact)]
          /\ slot' = 0 /\ table' = 0
      BY <3>1, TeardownType
    <3>3. source' \in [Sources -> SourceRecord(Arms')]
      BY <1>27, <3>2, TypedParts DEF Stop
    <3>4. slot' \in {0} \cup Arms' /\ table' \in 0 .. 2
      BY <3>2
    <3>5. QED
      BY <1>27, <2>1, <3>2, <3>3, <3>4, TypedParts, TypeParts2 DEF Stop
  <2> QED
    BY <1>27, <2>2, <2>3, TypedParts, TypeParts2 DEF Stop
<1>28. ASSUME Purge PROVE TypeOK'
  <2>1. host' \in HostRecord
    BY <1>28, HostType DEF Purge
  <2>2. own' \in Seq(Entry)
    BY <1>28, SmallSeqs DEF Purge
  <2>3. Arms' = Arms /\ purged' \in BOOLEAN
    BY <1>28, TypedParts DEF Purge, Arms
  <2> QED
    BY <1>28, <2>1, <2>2, <2>3, TypedParts, TypeParts2 DEF Purge
<1>29. QED
  BY <1>1, <1>2, <1>3, <1>4, <1>5, <1>6, <1>7, <1>8, <1>9, <1>10, <1>11, <1>12, <1>13, <1>14, <1>15, <1>16, <1>17, <1>18, <1>19, <1>20, <1>21, <1>22, <1>23, <1>24, <1>25, <1>26, <1>27, <1>28
     DEF Next, Tell, CatchUp, Step, Reads, Host

----------------------------------------------------------------------------
(* How the invariant is kept: by a step of the arm at work, by a new arm,  *)
(* by a teardown, by a step that leaves the arms alone.                    *)

(* What is told has been recorded.                                         *)
LEMMA ToldRecorded ==
  ASSUME TypeOK, Numbered
  PROVE  told \subseteq Range(ingested)
<1> SUFFICES ASSUME NEW f \in told PROVE f \in Range(ingested)
  OBVIOUS
<1>1. f \in Fact /\ f[1] \in Sources /\ f[2] \in Nat
  BY FactPair, TypedParts
<1>2. f[2] <= source[f[1]].done /\ source[f[1]].done <= Count(f[1])
  BY <1>1 DEF Numbered
<1>3. source[f[1]].done \in Nat /\ Count(f[1]) \in Nat
  BY <1>1, ProjectorAssumption DEF TypeOK, Numbered
<1>4. QED
  BY <1>1, <1>2, <1>3 DEF Numbered

(* The arm at work, and what the invariant says of it.                     *)
LEMMA AtSlot ==
  ASSUME IInv, NEW i \in Arms, arms[i].at # "gone"
  PROVE  /\ TypeOK /\ i = slot /\ slot # 0 /\ table \in {1, 2} /\ states[table] \in Seq(Fact)
         /\ arms[i] \in ArmRecord
         /\ arms[i].inbox \in Seq(Fact) /\ arms[i].hand \in Seq(Fact)
         /\ arms[i].found \in Seq(Fact)
         /\ CaughtAt(i) /\ (host.op = "read" => OwedAt(i))
         /\ Range(arms[i].found) \subseteq Range(ingested) /\ Range(arms[i].inbox) \subseteq told
         /\ arms[i].at \in {"claimed", "committed"} => Range(arms[i].hand) \subseteq told
         /\ arms[i].at \notin {"seeded", "claimed", "committed"} => arms[i].hand = <<>>
         /\ ~arms[i].open => arms[i].at = "idle" /\ arms[i].inbox = <<>>
         /\ arms[i].at \in Looping => arms[i].state = table
<1>1. TypeOK /\ Slotted
  BY DEF IInv
<1>2. i = slot /\ slot # 0 /\ table \in {1, 2} /\ states[table] \in Seq(Fact)
  BY <1>1, AtWork
<1>3. CaughtAt(i) /\ (host.op = "read" => OwedAt(i))
  BY <1>2 DEF IInv, Caught, Owed
<1>4. /\ arms[i] \in ArmRecord /\ arms[i].inbox \in Seq(Fact) /\ arms[i].hand \in Seq(Fact)
      /\ arms[i].found \in Seq(Fact)
  BY <1>1, Typed
<1>5. /\ Range(arms[i].found) \subseteq Range(ingested) /\ Range(arms[i].inbox) \subseteq told
      /\ arms[i].at \in {"claimed", "committed"} => Range(arms[i].hand) \subseteq told
  BY DEF IInv, Known
<1>6. /\ arms[i].at \notin {"seeded", "claimed", "committed"} => arms[i].hand = <<>>
      /\ ~arms[i].open => arms[i].at = "idle" /\ arms[i].inbox = <<>>
      /\ arms[i].at \in Looping => arms[i].state = table
  BY <1>2 DEF IInv, Staged
<1>7. QED
  BY <1>1, <1>2, <1>3, <1>4, <1>5, <1>6

LEMMA SameSources ==
  ASSUME Numbered, UNCHANGED <<ingested, source, told>>
  PROVE  Numbered'
BY DEF Numbered, Ordered, Whole, Count, Telling, Range

(* The journal stays known.                                                *)
OwnKnown ==
  /\ \A k \in DOMAIN own : own[k].origin \subseteq {own[k].fact}
  /\ Range(Facts(own)) \subseteq Range(ingested)

LEMMA SameOwn ==
  ASSUME Known, own' = own, Range(ingested) \subseteq Range(ingested)'
  PROVE  OwnKnown'
BY DEF Known, OwnKnown, Facts

(* The arm takes on the record, and the rest of the invariant follows.     *)
LEMMA MoveKeeps ==
  ASSUME IInv, TypeOK', NEW i \in Arms, NEW arm \in ArmRecord, Set(i, arm),
         arms[i].at # "gone", arm.at # "gone", table' \in {1, 2},
         arm.at \notin {"seeded", "claimed", "committed"} => arm.hand = <<>>,
         ~arm.open => arm.at = "idle" /\ arm.inbox = <<>>,
         arm.at \in Looping => arm.state = table',
         Range(arm.found) \subseteq Range(ingested), Range(arm.inbox) \subseteq told,
         arm.at \in {"claimed", "committed"} => Range(arm.hand) \subseteq told,
         OwnKnown', CaughtAt(i)', host.op = "read" => OwedAt(i)',
         UNCHANGED <<ingested, source, told, slot, host, missed>>,
         \/ caughtUp' = caughtUp /\ (arm.at \in CatchingUp => arms[i].at \in CatchingUp)
         \/ /\ caughtUp' = caughtUp + 1
            /\ arms[i].at \in CatchingUp /\ arm.at \notin CatchingUp
  PROVE  IInv'
<1>1. TypeOK /\ i = slot /\ slot # 0
  BY AtSlot
<1>2. /\ Len(arms') = Len(arms) /\ Arms' = Arms /\ arms'[i] = arm
      /\ \A j \in Arms : j # i => arms'[j] = arms[j]
  BY <1>1, SetArm
<1>3. \A j \in Arms : j # i => arms[j].at = "gone"
  BY <1>1, AtWork DEF IInv
<1>4. Slotted'
  BY <1>1, <1>2, <1>3 DEF IInv, Slotted
<1>5. Staged'
  BY <1>1, <1>2 DEF IInv, Staged, Looping
<1>6. Numbered' /\ HostAt' /\ ReadWhole'
  BY SameSources DEF IInv, HostAt, ReadWhole
<1>7. Known'
  <2>1. \A j \in Arms :
          /\ Range(arms'[j].found) \subseteq Range(ingested)
          /\ Range(arms'[j].inbox) \subseteq told
          /\ arms'[j].at \in {"claimed", "committed"} => Range(arms'[j].hand) \subseteq told
    BY <1>2 DEF IInv, Known
  <2>2. QED
    BY <1>2, <2>1 DEF Known, OwnKnown
<1>8. Caught' /\ Owed'
  BY <1>1, <1>2 DEF IInv, Caught, Owed
<1>9. Counted'
  <2>1. Len(arms) \in Nat /\ caughtUp \in Nat /\ caughtUp <= Len(arms) /\ Len(arms) <= MaxArms
    BY <1>1, Typed, TypedParts DEF IInv, Counted
  <2>2. arms[i].at \in CatchingUp => caughtUp < Len(arms)
    BY DEF IInv, Counted
  <2>3. \A j \in Arms : arms'[j].at \in CatchingUp => j = i /\ arm.at \in CatchingUp
    BY <1>2, <1>3 DEF CatchingUp
  <2>4. caughtUp' <= Len(arms)
    BY <2>1, <2>2
  <2>5. arm.at \in CatchingUp => caughtUp' < Len(arms)
    BY <2>1, <2>2
  <2>6. QED
    BY <1>2, <2>1, <2>3, <2>4, <2>5 DEF Counted
<1>10. QED
  BY <1>4, <1>5, <1>6, <1>7, <1>8, <1>9 DEF IInv

(* Appended entries name their facts as the journal's own do.              *)
LEMMA OriginsConcat ==
  ASSUME NEW left1 \in Seq(Entry), NEW right1 \in Seq(Entry), NEW all, all = left1 \o right1
  PROVE  /\ (/\ \A k \in DOMAIN left1 : left1[k].origin \subseteq {left1[k].fact}
             /\ \A k \in DOMAIN right1 : right1[k].origin \subseteq {right1[k].fact})
            => \A k \in DOMAIN all : all[k].origin \subseteq {all[k].fact}
         /\ (/\ \A k \in DOMAIN left1 : left1[k].origin = {left1[k].fact}
             /\ \A k \in DOMAIN right1 : right1[k].origin = {right1[k].fact})
            => \A k \in DOMAIN all : all[k].origin = {all[k].fact}
<1>1. /\ Len(left1) \in Nat /\ Len(right1) \in Nat
      /\ DOMAIN left1 = 1 .. Len(left1) /\ DOMAIN right1 = 1 .. Len(right1)
      /\ DOMAIN all = 1 .. Len(left1) + Len(right1)
      /\ \A k \in 1 .. Len(left1) + Len(right1) :
           all[k] = IF k <= Len(left1) THEN left1[k] ELSE right1[k - Len(left1)]
  BY ConcatProperties, LenProperties
<1>2. \A k \in DOMAIN all :
        \/ k \in DOMAIN left1 /\ all[k] = left1[k]
        \/ k - Len(left1) \in DOMAIN right1 /\ all[k] = right1[k - Len(left1)]
  <2> SUFFICES ASSUME NEW k \in DOMAIN all
               PROVE  \/ k \in DOMAIN left1 /\ all[k] = left1[k]
                      \/ k - Len(left1) \in DOMAIN right1 /\ all[k] = right1[k - Len(left1)]
    OBVIOUS
  <2>1. CASE k <= Len(left1)
    BY <1>1, <2>1
  <2>2. CASE ~(k <= Len(left1))
    <3>1. k - Len(left1) \in 1 .. Len(right1)
      BY <1>1, <2>2
    <3>2. QED
      BY <1>1, <2>2, <3>1
  <2>3. QED
    BY <2>1, <2>2
<1>3. QED
  BY <1>2

----------------------------------------------------------------------------
(* The catch-up.                                                           *)

LEMMA NoFacts == Facts(<<>>) = <<>> /\ Range(Facts(<<>>)) = {} /\ <<>> \in Seq(Fact)
<1>1. <<>> \in Seq(Entry) /\ <<>> \in Seq(Fact) /\ Len(<<>>) = 0
  BY SmallSeqs, EmptySeq
<1>2. PICK t : t = Facts(<<>>)
  OBVIOUS
<1>3. /\ t \in Seq(Fact) /\ Len(t) = 0
      /\ Range(t) = {<<>>[k].fact : k \in DOMAIN <<>>} /\ DOMAIN <<>> = 1 .. 0
  BY <1>1, <1>2, FactsOfJournal
<1>4. t = <<>> /\ Range(t) = {}
  BY <1>3, EmptySeq
<1>5. QED
  BY <1>1, <1>2, <1>4

LEMMA LoadOwnKeeps ==
  ASSUME IInv, TypeOK', NEW i \in Arms, LoadOwn(i)
  PROVE  IInv'
<1> USE DEF storeVars, liveVars, hostVars
<1>1. arms[i].at = "armed"
  BY DEF LoadOwn
<1>2. /\ TypeOK /\ i = slot /\ table \in {1, 2} /\ arms[i] \in ArmRecord
      /\ Range(arms[i].found) \subseteq Range(ingested) /\ Range(arms[i].inbox) \subseteq told
      /\ arms[i].hand = <<>> /\ arms[i].open
  BY <1>1, AtSlot DEF ArmRecord
<1>3. PICK arm : arm = [arms[i] EXCEPT !.at = "loaded"]
  OBVIOUS
<1>4. /\ arm \in ArmRecord /\ arm.at = "loaded" /\ arm.inbox = arms[i].inbox
      /\ arm.found = arms[i].found /\ arm.hand = <<>> /\ arm.open
  BY <1>2, <1>3 DEF ArmRecord, CatchingUp
<1>5. Set(i, arm)
  BY <1>3 DEF LoadOwn
<1>6. arms'[i] = arm
  BY <1>2, <1>4, <1>5, SetArm
<1>7. table' \in {1, 2} /\ Range(Facts(own)) \subseteq Range(states'[table'])
  <2>1. CASE own = <<>>
    BY <1>2, <2>1, NoFacts DEF LoadOwn
  <2>2. CASE own # <<>>
    BY <1>2, <2>2, RebuiltIs DEF LoadOwn
  <2>3. QED
    BY <2>1, <2>2
<1>8. own' = own /\ OwnKnown'
  BY SameOwn DEF LoadOwn, IInv
<1>9. CaughtAt(i)'
  BY <1>4, <1>6, <1>7, <1>8 DEF CaughtAt, Folded, Scanning, Working, Facts
<1>10. host.op = "read" => OwedAt(i)'
  BY <1>4, <1>6 DEF OwedAt, Scanning, Working
<1>11. /\ UNCHANGED <<ingested, source, told, slot, host, missed>> /\ caughtUp' = caughtUp
       /\ arm.at \in CatchingUp => arms[i].at \in CatchingUp
  BY <1>1 DEF LoadOwn, CatchingUp
<1>12. arm.at \notin Looping
  BY <1>4 DEF Looping
<1>13. QED
  BY <1>1, <1>2, <1>4, <1>5, <1>7, <1>8, <1>9, <1>10, <1>11, <1>12, MoveKeeps

LEMMA ScanKeeps ==
  ASSUME IInv, TypeOK', NEW i \in Arms, Scan(i)
  PROVE  IInv'
<1> USE DEF storeVars, liveVars, hostVars
<1>1. arms[i].at = "loaded"
  BY DEF Scan
<1>2. /\ TypeOK /\ i = slot /\ table \in {1, 2} /\ arms[i] \in ArmRecord
      /\ Range(arms[i].inbox) \subseteq told
      /\ arms[i].hand = <<>> /\ arms[i].open /\ CaughtAt(i)
  BY <1>1, AtSlot DEF ArmRecord
<1>3. PICK arm : arm = [arms[i] EXCEPT !.at = "scanned", !.found = ingested]
  OBVIOUS
<1>4. /\ arm \in ArmRecord /\ arm.at = "scanned" /\ arm.inbox = arms[i].inbox
      /\ arm.found = ingested /\ arm.hand = <<>> /\ arm.open
  <2>1. ingested \in Seq(Fact)
    BY <1>2, TypedParts
  <2>2. QED
    BY <1>2, <1>3, <2>1 DEF ArmRecord, CatchingUp
<1>5. Set(i, arm)
  BY <1>3 DEF Scan, Scanned
<1>6. arms'[i] = arm
  BY <1>2, <1>4, <1>5, SetArm
<1>7. UNCHANGED <<mode, ingested, own, source, told, slot, states, table, caughtUp, host, missed>>
  BY DEF Scan
<1>8. OwnKnown'
  BY <1>7, SameOwn DEF IInv
<1>9. CaughtAt(i)'
  <2>1. Range(Facts(own)) \subseteq Range(states[table])
    BY <1>1, <1>2 DEF CaughtAt, Folded
  <2>2. \A s \in Sources : Telling(s) => Next1(s) \in Range(ingested)
    BY <1>2, NextFact DEF IInv
  <2>3. told \subseteq Range(ingested)
    BY <1>2, ToldRecorded DEF IInv
  <2>4. /\ Facts(own)' = Facts(own) /\ \A s \in Sources : Telling(s)' <=> Telling(s)
        /\ \A s \in Sources : Next1(s)' = Next1(s)
    BY <1>7 DEF Facts, Telling, Next1
  <2>5. Range(states[table]) \subseteq Folded(i)'
    BY <1>7 DEF Folded
  <2>6. told' \subseteq Reached(i)'
    BY <1>4, <1>6, <1>7, <2>3 DEF Reached
  <2>7. \A s \in Sources : Telling(s)' => Next1(s)' \in Range(arms'[i].found)
    BY <1>4, <1>6, <2>2, <2>4
  <2>8. Range(Facts(own)') \subseteq Folded(i)'
    BY <2>1, <2>4, <2>5
  <2>9. QED
    BY <1>4, <1>6, <2>6, <2>7, <2>8 DEF CaughtAt, Scanning, Working
<1>10. host.op = "read" => OwedAt(i)'
  BY <1>4, <1>6, <1>7 DEF OwedAt, Scanning, Working, IInv, Owed
<1>11. arm.at \in CatchingUp => arms[i].at \in CatchingUp
  BY <1>1 DEF CatchingUp
<1>12. arm.at \notin Looping
  BY <1>4 DEF Looping
<1>13. QED
  BY <1>1, <1>2, <1>4, <1>5, <1>7, <1>8, <1>9, <1>10, <1>11, <1>12, MoveKeeps

LEMMA SeedKeeps ==
  ASSUME IInv, TypeOK', NEW i \in Arms, Seed(i)
  PROVE  IInv'
<1> USE DEF storeVars, liveVars, hostVars
<1>1. arms[i].at = "scanned"
  BY DEF Seed
<1>2. /\ TypeOK /\ i = slot /\ table \in {1, 2} /\ arms[i] \in ArmRecord
      /\ Range(arms[i].inbox) \subseteq told /\ Range(arms[i].found) \subseteq Range(ingested)
      /\ arms[i].found \in Seq(Fact)
      /\ arms[i].open /\ CaughtAt(i) /\ (host.op = "read" => OwedAt(i))
  BY <1>1, AtSlot DEF ArmRecord
<1>3. PICK hand : hand = Lacking(arms[i].found)
  OBVIOUS
<1>4. /\ hand \in Seq(Fact)
      /\ Range(hand) = {f \in Range(arms[i].found) : ~Held(f)}
  BY <1>2, <1>3, LackingIs
<1>5. PICK arm : arm = [arms[i] EXCEPT !.at = "seeded", !.hand = hand]
  OBVIOUS
<1>6. /\ arm \in ArmRecord /\ arm.at = "seeded" /\ arm.inbox = arms[i].inbox
      /\ arm.found = arms[i].found /\ arm.hand = hand /\ arm.open
  BY <1>2, <1>4, <1>5 DEF ArmRecord, CatchingUp
<1>7. Set(i, arm)
  BY <1>3, <1>5 DEF Seed
<1>8. arms'[i] = arm
  BY <1>2, <1>6, <1>7, SetArm
<1>9. UNCHANGED <<mode, ingested, source, told, slot, states, table, caughtUp, host, missed>>
  BY DEF Seed
<1>10. PICK new : new = Checkpoints(hand)
  OBVIOUS
<1>11. /\ new \in Seq(Entry) /\ Facts(new) = hand
       /\ \A k \in DOMAIN new : new[k].origin \subseteq {new[k].fact}
  BY <1>4, <1>10, CheckpointsAre
<1>12. own \in Seq(Entry) /\ own' = own \o new
  BY <1>2, <1>3, <1>10, TypedParts DEF Seed
<1>13. Range(Facts(own)') = Range(Facts(own)) \cup Range(hand)
  <2>1. Facts(own)' = Facts(own \o new)
    BY <1>12 DEF Facts
  <2>2. QED
    BY <1>11, <1>12, <2>1, FactsConcat
<1>14. OwnKnown'
  <2>1. \A k \in DOMAIN own' : own'[k].origin \subseteq {own'[k].fact}
    BY <1>11, <1>12, OriginsConcat DEF IInv, Known
  <2>2. Range(Facts(own)') \subseteq Range(ingested)
    BY <1>2, <1>4, <1>13 DEF IInv, Known
  <2>3. QED
    BY <1>9, <2>1, <2>2 DEF OwnKnown
<1>15. CaughtAt(i)'
  <2>1. Range(Facts(own)) \subseteq Range(states[table])
    BY <1>1, <1>2 DEF CaughtAt, Folded
  <2>2. Range(arms[i].found) \subseteq Range(Facts(own)')
    <3>1. \A f : Held(f) => f \in Range(Facts(own))
      BY <1>2, HeldIsThere DEF IInv
    <3>2. QED
      BY <1>4, <1>13, <3>1
  <2>3. Folded(i)' = Range(states[table]) \cup Range(hand)
    BY <1>6, <1>8, <1>9 DEF Folded
  <2>4. Range(Facts(own)') \subseteq Folded(i)'
    BY <1>13, <2>1, <2>3
  <2>5. /\ \A s \in Sources : Telling(s)' <=> Telling(s)
        /\ \A s \in Sources : Next1(s)' = Next1(s)
    BY <1>9 DEF Telling, Next1
  <2>6. /\ \A s \in Sources : Telling(s) /\ source[s].target # i =>
             Next1(s) \in Range(arms[i].found)
        /\ told \subseteq Range(arms[i].found) \cup Range(arms[i].inbox)
    BY <1>1, <1>2 DEF CaughtAt, Scanning, Working, Reached
  <2>7. told' \subseteq Reached(i)'
    BY <1>6, <1>8, <1>9, <2>6 DEF Reached, Working
  <2>8. \A s \in Sources : Telling(s)' /\ source'[s].target # i =>
             Next1(s)' \in Range(arms'[i].found)
    BY <1>6, <1>8, <1>9, <2>5, <2>6
  <2>9. QED
    BY <1>6, <1>8, <2>2, <2>4, <2>7, <2>8 DEF CaughtAt, Scanning, Working
<1>16. host.op = "read" => OwedAt(i)'
  BY <1>1, <1>2, <1>6, <1>8, <1>9 DEF OwedAt, Scanning, Working
<1>17. arm.at \in CatchingUp => arms[i].at \in CatchingUp
  BY <1>1 DEF CatchingUp
<1>18. arm.at \notin Looping
  BY <1>6 DEF Looping
<1>19. QED
  BY <1>1, <1>2, <1>6, <1>7, <1>9, <1>14, <1>15, <1>16, <1>17, <1>18, MoveKeeps

(* What a step of one arm leaves alone.                                    *)
LEMMA SameTelling ==
  ASSUME UNCHANGED source
  PROVE  /\ \A s \in Sources : Telling(s)' <=> Telling(s)
         /\ \A s \in Sources : Next1(s)' = Next1(s)
BY DEF Telling, Next1

LEMMA GoLiveKeeps ==
  ASSUME IInv, TypeOK', NEW i \in Arms, GoLive(i)
  PROVE  IInv'
<1> USE DEF storeVars, liveVars, hostVars
<1>1. arms[i].at = "seeded"
  BY DEF GoLive
<1>2. /\ TypeOK /\ i = slot /\ table \in {1, 2} /\ arms[i] \in ArmRecord
      /\ Range(arms[i].inbox) \subseteq told /\ Range(arms[i].found) \subseteq Range(ingested)
      /\ arms[i].hand \in Seq(Fact) /\ states[table] \in Seq(Fact)
      /\ arms[i].open /\ CaughtAt(i) /\ (host.op = "read" => OwedAt(i))
  BY <1>1, AtSlot DEF ArmRecord
<1>3. PICK arm : arm = [arms[i] EXCEPT !.at = "boot", !.hand = <<>>, !.state = table]
  OBVIOUS
<1>4. /\ arm \in ArmRecord /\ arm.at = "boot" /\ arm.inbox = arms[i].inbox
      /\ arm.found = arms[i].found /\ arm.hand = <<>> /\ arm.open /\ arm.state = table
  BY <1>2, <1>3, NoFacts DEF ArmRecord, Looping
<1>5. Set(i, arm)
  BY <1>3 DEF GoLive
<1>6. arms'[i] = arm
  BY <1>2, <1>4, <1>5, SetArm
<1>7. /\ UNCHANGED <<mode, ingested, own, source, told, slot, table, host, missed>>
      /\ caughtUp' = caughtUp + 1
  BY DEF GoLive
<1>8. OwnKnown'
  BY <1>7, SameOwn DEF IInv
<1>9. states'[table] = states[table] \o arms[i].hand
  BY <1>2, TypedParts DEF GoLive
<1>10. Folded(i)' = Folded(i)
  <2>1. Range(states[table] \o arms[i].hand) = Range(states[table]) \cup Range(arms[i].hand)
    BY <1>2, RangeConcat
  <2>2. QED
    BY <1>1, <1>4, <1>6, <1>7, <1>9, <2>1 DEF Folded
<1>11. Reached(i)' = Reached(i)
  BY <1>1, <1>4, <1>6, <1>7 DEF Reached, Working
<1>12. CaughtAt(i)'
  <2>1. Facts(own)' = Facts(own)
    BY <1>7 DEF Facts
  <2>2. QED
    BY <1>1, <1>2, <1>4, <1>6, <1>7, <1>10, <1>11, <2>1, SameTelling
       DEF CaughtAt, Scanning, Working
<1>13. host.op = "read" => OwedAt(i)'
  BY <1>1, <1>2, <1>4, <1>6, <1>7 DEF OwedAt, Scanning, Working
<1>14. arm.at \notin CatchingUp /\ arms[i].at \in CatchingUp
  BY <1>1, <1>4 DEF CatchingUp
<1>15. QED
  BY <1>1, <1>2, <1>4, <1>5, <1>7, <1>8, <1>12, <1>13, <1>14, MoveKeeps

----------------------------------------------------------------------------
(* The loop.                                                               *)

LEMMA BootKeeps ==
  ASSUME IInv, TypeOK', NEW i \in Arms, Boot(i)
  PROVE  IInv'
<1> USE DEF storeVars, liveVars, hostVars
<1>1. arms[i].at = "boot"
  BY DEF Boot
<1>2. /\ TypeOK /\ i = slot /\ table \in {1, 2} /\ arms[i] \in ArmRecord
      /\ Range(arms[i].inbox) \subseteq told /\ Range(arms[i].found) \subseteq Range(ingested)
      /\ arms[i].hand = <<>> /\ arms[i].state = table
      /\ arms[i].open /\ CaughtAt(i) /\ (host.op = "read" => OwedAt(i))
  BY <1>1, AtSlot DEF ArmRecord, Looping
<1>3. UNCHANGED <<mode, ingested, own, source, told, slot, caughtUp, host, missed>>
  BY DEF Boot
<1>4. OwnKnown' /\ Facts(own)' = Facts(own)
  BY <1>3, SameOwn DEF IInv, Facts
<1>5. PICK at : at = IF own = <<>> THEN table ELSE Fresh
  OBVIOUS
<1>6. PICK arm : arm = [arms[i] EXCEPT !.at = "idle", !.state = at]
  OBVIOUS
<1>7. at \in {1, 2}
  BY <1>2, <1>5 DEF Fresh
<1>8. /\ arm \in ArmRecord /\ arm.at = "idle" /\ arm.inbox = arms[i].inbox
      /\ arm.found = arms[i].found /\ arm.hand = <<>> /\ arm.open /\ arm.state = at
  BY <1>2, <1>6, <1>7 DEF ArmRecord, Looping
<1>9. Set(i, arm) /\ table' = at
  <2>1. CASE own = <<>>
    <3>1. [arms[i] EXCEPT !.at = "idle"] = arm
      BY <1>2, <1>5, <1>6, <2>1 DEF ArmRecord
    <3>2. QED
      BY <1>5, <2>1, <3>1 DEF Boot
  <2>2. CASE own # <<>>
    BY <1>5, <1>6, <2>2 DEF Boot, Rebuilt
  <2>3. QED
    BY <2>1, <2>2
<1>10. arms'[i] = arm
  BY <1>2, <1>8, <1>9, SetArm
<1>11. /\ Range(Facts(own)) \subseteq Range(states'[table'])
       /\ Range(arms[i].found) \subseteq Range(states'[table'])
  <2>1. /\ Range(Facts(own)) \subseteq Folded(i)
        /\ Range(arms[i].found) \subseteq Folded(i)
        /\ Folded(i) = Range(states[table])
        /\ own # <<>> => Range(arms[i].found) \subseteq Range(Facts(own))
    BY <1>1, <1>2 DEF CaughtAt, Folded
  <2>2. CASE own = <<>>
    BY <2>1, <2>2 DEF Boot
  <2>3. CASE own # <<>>
    BY <1>2, <2>1, <2>3, RebuiltIs DEF Boot
  <2>4. QED
    BY <2>2, <2>3
<1>12. Folded(i)' = Range(states'[table'])
  BY <1>8, <1>10 DEF Folded
<1>13. Reached(i) \subseteq Reached(i)'
  BY <1>1, <1>8, <1>10 DEF Reached, Working
<1>14. CaughtAt(i)'
  BY <1>1, <1>2, <1>3, <1>4, <1>8, <1>10, <1>11, <1>12, <1>13, SameTelling
     DEF CaughtAt, Scanning, Working
<1>15. host.op = "read" => OwedAt(i)'
  BY <1>1, <1>2, <1>3, <1>8, <1>10, <1>11, <1>12 DEF OwedAt, Scanning, Working
<1>16. arm.at \notin CatchingUp
  BY <1>8 DEF CatchingUp
<1>17. QED
  BY <1>1, <1>2, <1>3, <1>4, <1>7, <1>8, <1>9, <1>14, <1>15, <1>16, MoveKeeps

LEMMA ClaimKeeps ==
  ASSUME IInv, TypeOK', NEW i \in Arms, Claim(i)
  PROVE  IInv'
<1> USE DEF storeVars, liveVars, hostVars
<1>1. arms[i].at = "idle" /\ arms[i].inbox # <<>>
  BY DEF Claim
<1>2. /\ TypeOK /\ i = slot /\ table \in {1, 2} /\ arms[i] \in ArmRecord
      /\ Range(arms[i].inbox) \subseteq told /\ Range(arms[i].found) \subseteq Range(ingested)
      /\ arms[i].state = table /\ arms[i].hand = <<>>
      /\ arms[i].open /\ CaughtAt(i) /\ (host.op = "read" => OwedAt(i))
  BY <1>1, AtSlot DEF ArmRecord, Looping
<1>3. PICK h, r :
        /\ Set(i, [arms[i] EXCEPT !.at = "claimed", !.hand = h, !.inbox = r])
        /\ Splits(arms[i].inbox, h, r)
  BY <1>2, ClaimIs
<1>4. /\ h \in Seq(Fact) /\ r \in Seq(Fact)
      /\ Range(arms[i].inbox) = Range(h) \cup Range(r)
  BY <1>3 DEF Splits
<1>5. PICK arm : arm = [arms[i] EXCEPT !.at = "claimed", !.hand = h, !.inbox = r]
  OBVIOUS
<1>6. /\ arm \in ArmRecord /\ arm.at = "claimed" /\ arm.inbox = r
      /\ arm.found = arms[i].found /\ arm.hand = h /\ arm.open /\ arm.state = table
  BY <1>2, <1>4, <1>5 DEF ArmRecord, Looping
<1>7. Set(i, arm)
  BY <1>3, <1>5
<1>8. arms'[i] = arm
  BY <1>2, <1>6, <1>7, SetArm
<1>9. UNCHANGED <<mode, ingested, own, source, told, slot, states, table, caughtUp, host, missed>>
  BY DEF Claim
<1>10. OwnKnown' /\ Facts(own)' = Facts(own)
  BY <1>9, SameOwn DEF IInv, Facts
<1>11. Folded(i)' = Folded(i)
  BY <1>1, <1>6, <1>8, <1>9 DEF Folded
<1>12. Reached(i) \subseteq Reached(i)'
  <2>1. Range(arms[i].hand) = {}
    BY <1>2 DEF Range
  <2>2. QED
    BY <1>1, <1>4, <1>6, <1>8, <1>9, <2>1 DEF Reached, Working
<1>13. CaughtAt(i)'
  BY <1>1, <1>2, <1>6, <1>8, <1>9, <1>10, <1>11, <1>12, SameTelling DEF CaughtAt, Scanning, Working
<1>14. host.op = "read" => OwedAt(i)'
  BY <1>1, <1>2, <1>6, <1>8, <1>9, <1>11 DEF OwedAt, Scanning, Working
<1>15. arm.at \notin CatchingUp
  BY <1>6 DEF CatchingUp
<1>16. QED
  BY <1>1, <1>2, <1>4, <1>6, <1>7, <1>9, <1>10, <1>13, <1>14, <1>15, MoveKeeps

LEMMA JournalKeeps ==
  ASSUME IInv, TypeOK', NEW i \in Arms, Journal(i)
  PROVE  IInv'
<1> USE DEF storeVars, liveVars, hostVars
<1>1. arms[i].at = "claimed"
  BY DEF Journal
<1>2. /\ TypeOK /\ i = slot /\ table \in {1, 2} /\ arms[i] \in ArmRecord
      /\ Range(arms[i].inbox) \subseteq told /\ Range(arms[i].found) \subseteq Range(ingested)
      /\ Range(arms[i].hand) \subseteq told
      /\ arms[i].hand \in Seq(Fact) /\ arms[i].state = table
      /\ arms[i].open /\ CaughtAt(i) /\ (host.op = "read" => OwedAt(i))
  BY <1>1, AtSlot DEF ArmRecord, Looping
<1>3. UNCHANGED <<mode, ingested, source, told, slot, states, table, caughtUp, host, missed>>
  BY DEF Journal
<1>4. PICK new : new = Rerecords(arms[i].hand)
  OBVIOUS
<1>5. /\ new \in Seq(Entry)
      /\ \A k \in DOMAIN new : new[k].origin \subseteq {new[k].fact}
      /\ \/ Facts(new) = arms[i].hand /\ ~(Len(new) < Len(arms[i].hand))
         \/ /\ new = <<>> /\ Len(new) < Len(arms[i].hand)
            /\ \A f \in Range(arms[i].hand) : Held(f)
  BY <1>2, <1>4, RerecordsAre
<1>6. own \in Seq(Entry) /\ own' = own \o new
  BY <1>2, <1>4, TypedParts DEF Journal
<1>7. Range(Facts(own)') = Range(Facts(own)) \cup Range(Facts(new))
  <2>1. Facts(own)' = Facts(own \o new)
    BY <1>6 DEF Facts
  <2>2. QED
    BY <1>5, <1>6, <2>1, FactsConcat
<1>8. Range(Facts(new)) \subseteq Range(arms[i].hand)
  BY <1>5, NoFacts
<1>9. OwnKnown'
  <2>1. \A k \in DOMAIN own' : own'[k].origin \subseteq {own'[k].fact}
    BY <1>5, <1>6, OriginsConcat DEF IInv, Known
  <2>2. told \subseteq Range(ingested)
    BY <1>2, ToldRecorded DEF IInv
  <2>3. Range(Facts(own)') \subseteq Range(ingested)
    BY <1>2, <1>7, <1>8, <2>2 DEF IInv, Known
  <2>4. QED
    BY <1>3, <2>1, <2>3 DEF OwnKnown
<1>10. PICK fresh : fresh = ~(Len(new) < Len(arms[i].hand))
  OBVIOUS
<1>11. PICK arm : arm = IF fresh THEN [arms[i] EXCEPT !.at = "committed"]
                        ELSE [arms[i] EXCEPT !.at = "idle", !.hand = <<>>]
  OBVIOUS
<1>12. /\ arm \in ArmRecord /\ arm.inbox = arms[i].inbox
       /\ arm.found = arms[i].found /\ arm.open /\ arm.state = table
       /\ fresh => arm.at = "committed" /\ arm.hand = arms[i].hand
       /\ ~fresh => arm.at = "idle" /\ arm.hand = <<>>
  <2>1. CASE fresh
    BY <1>2, <1>11, <2>1 DEF ArmRecord, Looping
  <2>2. CASE ~fresh
    BY <1>2, <1>11, <2>2, NoFacts DEF ArmRecord, Looping
  <2>3. QED
    BY <2>1, <2>2
<1>13. Set(i, arm)
  BY <1>4, <1>10, <1>11 DEF Journal
<1>14. arms'[i] = arm
  BY <1>2, <1>12, <1>13, SetArm
<1>15. /\ Range(Facts(own)) \subseteq Range(states[table])
       /\ Range(arms[i].found) \subseteq Range(states[table])
  BY <1>1, <1>2 DEF CaughtAt, Folded, Working
<1>16. /\ Range(states[table]) \subseteq Folded(i)'
       /\ Range(Facts(own)') \subseteq Folded(i)'
       /\ Reached(i) \subseteq Reached(i)'
  <2>1. CASE fresh
    <3>1. Folded(i)' = Range(states[table]) \cup Range(arms[i].hand)
      BY <1>3, <1>12, <1>14, <2>1 DEF Folded
    <3>2. Reached(i)' = Reached(i)
      BY <1>1, <1>3, <1>12, <1>14, <2>1 DEF Reached, Working
    <3>3. QED
      BY <1>7, <1>8, <1>15, <3>1, <3>2
  <2>2. CASE ~fresh
    <3>1. Folded(i)' = Range(states[table])
      BY <1>3, <1>12, <1>14, <2>2 DEF Folded
    <3>2. /\ new = <<>> /\ \A f \in Range(arms[i].hand) : Held(f)
      BY <1>5, <1>10, <2>2
    <3>3. Range(arms[i].hand) \subseteq Range(Facts(own))
      BY <1>2, <3>2, HeldIsThere DEF IInv
    <3>4. Range(Facts(new)) = {}
      BY <3>2, NoFacts
    <3>5. Reached(i)' = Range(arms[i].found) \cup Range(arms[i].inbox) \cup Range(states[table])
                          \cup Range(<<>>)
      BY <1>3, <1>12, <1>14, <2>2 DEF Reached, Working
    <3>6. Reached(i) = Range(arms[i].found) \cup Range(arms[i].inbox) \cup Range(states[table])
                          \cup Range(arms[i].hand)
      BY <1>1 DEF Reached, Working
    <3>7. QED
      BY <1>7, <1>15, <3>1, <3>3, <3>4, <3>5, <3>6
  <2>3. QED
    BY <2>1, <2>2
<1>17. CaughtAt(i)'
  BY <1>1, <1>2, <1>3, <1>12, <1>14, <1>15, <1>16, SameTelling DEF CaughtAt, Scanning, Working
<1>18. host.op = "read" => OwedAt(i)'
  <2>1. Folded(i) = Range(states[table])
    BY <1>1 DEF Folded
  <2>2. QED
    BY <1>1, <1>2, <1>3, <1>12, <1>14, <1>16, <2>1 DEF OwedAt, Scanning, Working
<1>19. arm.at \notin CatchingUp
  BY <1>12 DEF CatchingUp
<1>20. arm.at \in {"idle", "committed"}
  BY <1>12
<1>21. QED
  BY <1>1, <1>2, <1>3, <1>9, <1>12, <1>13, <1>17, <1>18, <1>19, <1>20, MoveKeeps

LEMMA JournalFailsKeeps ==
  ASSUME IInv, TypeOK', NEW i \in Arms, JournalFails(i)
  PROVE  IInv'
<1> USE DEF storeVars, liveVars, hostVars
<1>1. arms[i].at = "claimed"
  BY DEF JournalFails
<1>2. /\ TypeOK /\ i = slot /\ table \in {1, 2} /\ arms[i] \in ArmRecord
      /\ Range(arms[i].inbox) \subseteq told /\ Range(arms[i].found) \subseteq Range(ingested)
      /\ Range(arms[i].hand) \subseteq told
      /\ arms[i].hand \in Seq(Fact) /\ arms[i].inbox \in Seq(Fact)
      /\ arms[i].open /\ CaughtAt(i) /\ (host.op = "read" => OwedAt(i))
  BY <1>1, AtSlot DEF ArmRecord
<1>3. PICK inbox : inbox = arms[i].hand \o arms[i].inbox
  OBVIOUS
<1>4. inbox \in Seq(Fact) /\ Range(inbox) \subseteq told
  BY <1>2, <1>3, ConcatProperties, RangeConcat
<1>5. PICK arm : arm = [arms[i] EXCEPT !.at = "crashed", !.hand = <<>>, !.inbox = inbox]
  OBVIOUS
<1>6. /\ arm \in ArmRecord /\ arm.at = "crashed" /\ arm.inbox = inbox
      /\ arm.found = arms[i].found /\ arm.hand = <<>> /\ arm.open
  BY <1>2, <1>4, <1>5, NoFacts DEF ArmRecord
<1>7. Set(i, arm)
  BY <1>3, <1>5 DEF JournalFails
<1>8. arms'[i] = arm
  BY <1>2, <1>6, <1>7, SetArm
<1>9. UNCHANGED <<mode, ingested, own, source, told, slot, states, table, caughtUp, host, missed>>
  BY DEF JournalFails
<1>10. OwnKnown' /\ Facts(own)' = Facts(own)
  BY <1>9, SameOwn DEF IInv, Facts
<1>11. Folded(i)' = Folded(i)
  BY <1>1, <1>6, <1>8, <1>9 DEF Folded
<1>12. CaughtAt(i)'
  BY <1>1, <1>2, <1>6, <1>8, <1>10, <1>11 DEF CaughtAt, Scanning, Working
<1>13. host.op = "read" => OwedAt(i)'
  BY <1>1, <1>2, <1>6, <1>8, <1>9, <1>11 DEF OwedAt, Scanning, Working
<1>14. arm.at \notin CatchingUp \cup Looping
  BY <1>6 DEF CatchingUp, Looping
<1>15. QED
  BY <1>1, <1>2, <1>4, <1>6, <1>7, <1>9, <1>10, <1>12, <1>13, <1>14, MoveKeeps

LEMMA ApplyKeeps ==
  ASSUME IInv, TypeOK', NEW i \in Arms, Apply(i)
  PROVE  IInv'
<1> USE DEF storeVars, liveVars, hostVars
<1>1. arms[i].at = "committed"
  BY DEF Apply
<1>2. /\ TypeOK /\ i = slot /\ table \in {1, 2} /\ arms[i] \in ArmRecord
      /\ Range(arms[i].inbox) \subseteq told /\ Range(arms[i].found) \subseteq Range(ingested)
      /\ arms[i].hand \in Seq(Fact) /\ states[table] \in Seq(Fact) /\ arms[i].state = table
      /\ arms[i].open /\ CaughtAt(i) /\ (host.op = "read" => OwedAt(i))
  BY <1>1, AtSlot DEF ArmRecord, Looping
<1>3. PICK arm : arm = [arms[i] EXCEPT !.at = "idle", !.hand = <<>>]
  OBVIOUS
<1>4. /\ arm \in ArmRecord /\ arm.at = "idle" /\ arm.inbox = arms[i].inbox
      /\ arm.found = arms[i].found /\ arm.hand = <<>> /\ arm.open /\ arm.state = table
  BY <1>2, <1>3, NoFacts DEF ArmRecord, Looping
<1>5. Set(i, arm)
  BY <1>3 DEF Apply
<1>6. arms'[i] = arm
  BY <1>2, <1>4, <1>5, SetArm
<1>7. UNCHANGED <<mode, ingested, own, source, told, slot, table, caughtUp, host, missed>>
  BY DEF Apply
<1>8. OwnKnown' /\ Facts(own)' = Facts(own)
  BY <1>7, SameOwn DEF IInv, Facts
<1>9. states'[table] = states[table] \o arms[i].hand
  BY <1>2, TypedParts DEF Apply
<1>10. Folded(i)' = Folded(i) /\ Reached(i) \subseteq Reached(i)'
  <2>1. Range(states[table] \o arms[i].hand) = Range(states[table]) \cup Range(arms[i].hand)
    BY <1>2, RangeConcat
  <2>2. Range(states'[table]) = Range(states[table]) \cup Range(arms[i].hand)
    BY <1>9, <2>1
  <2>3. Folded(i)' = Folded(i)
    BY <1>1, <1>4, <1>6, <1>7, <2>2 DEF Folded
  <2>4. Reached(i) \subseteq Reached(i)'
    BY <1>1, <1>4, <1>6, <1>7, <2>2 DEF Reached, Working
  <2>5. QED
    BY <2>3, <2>4
<1>11. CaughtAt(i)'
  BY <1>1, <1>2, <1>4, <1>6, <1>7, <1>8, <1>10, SameTelling DEF CaughtAt, Scanning, Working
<1>12. host.op = "read" => OwedAt(i)'
  BY <1>1, <1>2, <1>4, <1>6, <1>7, <1>10 DEF OwedAt, Scanning, Working
<1>13. arm.at \notin CatchingUp
  BY <1>4 DEF CatchingUp
<1>14. QED
  BY <1>1, <1>2, <1>4, <1>5, <1>7, <1>8, <1>11, <1>12, <1>13, MoveKeeps

LEMMA CloseKeeps ==
  ASSUME IInv, TypeOK', NEW i \in Arms, Close(i)
  PROVE  IInv'
<1> USE DEF storeVars, liveVars, hostVars
<1>1. arms[i].at = "idle" /\ arms[i].inbox = <<>>
  BY DEF Close
<1>2. /\ TypeOK /\ i = slot /\ table \in {1, 2} /\ arms[i] \in ArmRecord
      /\ Range(arms[i].inbox) \subseteq told /\ Range(arms[i].found) \subseteq Range(ingested)
      /\ arms[i].hand = <<>> /\ arms[i].state = table
      /\ CaughtAt(i) /\ (host.op = "read" => OwedAt(i))
  BY <1>1, AtSlot DEF ArmRecord, Looping
<1>3. PICK arm : arm = [arms[i] EXCEPT !.open = FALSE]
  OBVIOUS
<1>4. /\ arm \in ArmRecord /\ arm.at = "idle" /\ arm.inbox = <<>>
      /\ arm.found = arms[i].found /\ arm.hand = <<>> /\ ~arm.open /\ arm.state = table
  BY <1>1, <1>2, <1>3 DEF ArmRecord, Looping
<1>5. Set(i, arm)
  BY <1>3 DEF Close
<1>6. arms'[i] = arm
  BY <1>2, <1>4, <1>5, SetArm
<1>7. UNCHANGED <<mode, ingested, own, source, told, slot, states, table, caughtUp, host, missed>>
  BY DEF Close
<1>8. OwnKnown' /\ Facts(own)' = Facts(own)
  BY <1>7, SameOwn DEF IInv, Facts
<1>9. Folded(i)' = Folded(i)
  BY <1>1, <1>4, <1>6, <1>7 DEF Folded
<1>10. CaughtAt(i)'
  BY <1>1, <1>2, <1>4, <1>6, <1>7, <1>8, <1>9, SameTelling DEF CaughtAt, Scanning, Working
<1>11. host.op = "read" => OwedAt(i)'
  BY <1>1, <1>2, <1>4, <1>6, <1>7 DEF OwedAt, Scanning, Working
<1>12. arm.at \notin CatchingUp
  BY <1>4 DEF CatchingUp
<1>13. QED
  BY <1>1, <1>2, <1>4, <1>5, <1>7, <1>8, <1>10, <1>11, <1>12, MoveKeeps

----------------------------------------------------------------------------
(* Arms come and go.                                                       *)

(* A teardown leaves a closed arm with nothing.                            *)
LEMMA TeardownKeeps ==
  ASSUME IInv, TypeOK', NEW i \in Arms, arms[i].at \in {"idle", "crashed"}, Teardown(i),
         UNCHANGED <<ingested, own, source, told, caughtUp, missed>>,
         HostAt', host'.op = "read" => host.op = "read" /\ host'.owed = host.owed
  PROVE  IInv'
<1>1. arms[i].at # "gone"
  OBVIOUS
<1>2. TypeOK /\ i = slot /\ arms[i] \in ArmRecord /\ arms[i].hand = <<>>
  BY <1>1, AtSlot
<1>3. PICK arm : arm = [arms[i] EXCEPT !.at = "gone", !.inbox = <<>>, !.open = FALSE,
                                       !.found = <<>>, !.state = 1]
  OBVIOUS
<1>4. /\ arm.at = "gone" /\ arm.inbox = <<>> /\ ~arm.open /\ arm.found = <<>>
      /\ arm.hand = <<>>
  BY <1>2, <1>3 DEF ArmRecord
<1>5. /\ Arms' = Arms /\ Len(arms') = Len(arms) /\ arms'[i] = arm
      /\ \A j \in Arms : j # i => arms'[j] = arms[j]
      /\ slot' = 0 /\ table' = 0 /\ states' = Shells
  BY <1>2, <1>3, TeardownType
<1>6. \A j \in Arms : j # i => arms[j].at = "gone"
  BY <1>1, <1>2, AtWork DEF IInv
<1>7. 0 \notin Arms
  BY <1>2, Typed
<1>8. Slotted'
  BY <1>4, <1>5, <1>6, <1>7 DEF IInv, Slotted, Shells
<1>9. Staged'
  BY <1>4, <1>5, <1>7 DEF IInv, Staged
<1>10. Numbered' /\ ReadWhole'
  BY SameSources DEF IInv, ReadWhole
<1>11. Known'
  <2>1. OwnKnown'
    BY SameOwn DEF IInv
  <2>2. Range(arm.found) = {} /\ Range(arm.inbox) = {}
    BY <1>4 DEF Range
  <2>3. \A j \in Arms :
          /\ Range(arms'[j].found) \subseteq Range(ingested)
          /\ Range(arms'[j].inbox) \subseteq told
          /\ arms'[j].at \in {"claimed", "committed"} => Range(arms'[j].hand) \subseteq told
    BY <1>4, <1>5, <2>2 DEF IInv, Known
  <2>4. QED
    BY <1>5, <2>1, <2>3 DEF Known, OwnKnown
<1>12. Caught' /\ Owed'
  BY <1>5, <1>7 DEF IInv, Caught, Owed
<1>13. Counted'
  BY <1>4, <1>5 DEF IInv, Counted, CatchingUp
<1>14. QED
  BY <1>8, <1>9, <1>10, <1>11, <1>12, <1>13 DEF IInv

(* An arm starts with everything still to do.                              *)
LEMMA ArmKeeps ==
  ASSUME IInv, TypeOK', slot = 0, NEW mail \in Seq(Fact), Arm(mail), Range(mail) \subseteq told',
         UNCHANGED <<ingested, own, caughtUp, missed>>, Numbered', told \subseteq told',
         HostAt', host'.op = "read" => host.op = "read" /\ host'.owed = host.owed
  PROVE  IInv'
<1>1. TypeOK /\ Len(arms) \in Nat /\ Arms = 1 .. Len(arms)
  BY Typed DEF IInv
<1>2. /\ Len(arms') = Len(arms) + 1 /\ Arms' = Arms \cup {slot'} /\ slot' # 0 /\ slot' \notin Arms
      /\ slot' = Len(arms) + 1 /\ slot' <= MaxArms /\ arms'[slot'] = Armed(mail)
      /\ \A j \in Arms : arms'[j] = arms[j]
      /\ table' = 1 /\ states' = states
  BY <1>1, NewArm
<1>3. PICK arm : arm = Armed(mail)
  OBVIOUS
<1>4. /\ arm.at = "armed" /\ arm.inbox = mail /\ arm.open /\ arm.hand = <<>> /\ arm.found = <<>>
  BY <1>3 DEF Armed
<1>5. \A j \in Arms : arms[j].at = "gone" /\ j # slot'
  BY <1>1, <1>2 DEF IInv, Slotted
<1>6. Slotted'
  BY <1>2, <1>3, <1>4, <1>5 DEF IInv, Slotted
<1>7. Staged'
  BY <1>2, <1>3, <1>4, <1>5 DEF IInv, Staged, Looping
<1>8. Known'
  <2>1. OwnKnown'
    BY SameOwn DEF IInv
  <2>2. Range(arm.found) = {} /\ Range(arm.inbox) \subseteq told'
    BY <1>4 DEF Range
  <2>3. \A j \in Arms' :
          /\ Range(arms'[j].found) \subseteq Range(ingested)
          /\ Range(arms'[j].inbox) \subseteq told'
          /\ arms'[j].at \in {"claimed", "committed"} => Range(arms'[j].hand) \subseteq told'
    BY <1>2, <1>3, <1>4, <1>5, <2>2 DEF IInv, Known
  <2>4. QED
    BY <1>2, <2>1, <2>3 DEF Known, OwnKnown
<1>9. Caught'
  <2>1. arms'[slot'].at = "armed"
    BY <1>2, <1>3, <1>4
  <2>2. PICK i : i = slot'
    OBVIOUS
  <2>3. CaughtAt(i)'
    BY <2>1, <2>2 DEF CaughtAt, Scanning, Working
  <2>4. QED
    BY <2>2, <2>3 DEF Caught
<1>10. Owed'
  <2>1. PICK i : i = slot'
    OBVIOUS
  <2>2. OwedAt(i)'
    BY <1>2, <1>3, <1>4, <2>1 DEF OwedAt, Scanning, Working
  <2>3. QED
    BY <2>1, <2>2 DEF Owed, IInv
<1>11. Counted'
  <2>1. caughtUp \in Nat /\ caughtUp <= Len(arms)
    BY <1>1, TypedParts DEF IInv, Counted
  <2>2. QED
    BY <1>1, <1>2, <1>5, <2>1 DEF Counted, CatchingUp
<1>12. ReadWhole'
  BY DEF IInv, ReadWhole
<1>13. QED
  BY <1>6, <1>7, <1>8, <1>9, <1>10, <1>11, <1>12 DEF IInv

LEMMA LeaveKeeps ==
  ASSUME IInv, TypeOK', NEW i \in Arms, Leave(i)
  PROVE  IInv'
<1> USE DEF storeVars, liveVars, hostVars
<1>1. arms[i].at \in {"idle", "crashed"} /\ Teardown(i)
  BY DEF Leave
<1>2. UNCHANGED <<ingested, own, source, told, caughtUp, missed, host>>
  BY DEF Leave
<1>3. HostAt'
  BY <1>2 DEF IInv, HostAt
<1>4. QED
  BY <1>1, <1>2, <1>3, TeardownKeeps

----------------------------------------------------------------------------
(* The sources.                                                            *)

(* A fact is told once, and the source goes on behind it.                  *)
LEMMA ToldNumbers ==
  ASSUME TypeOK, Numbered, NEW s \in Sources, Telling(s), Told(s), ingested' = ingested
  PROVE  Numbered' /\ told \subseteq told' /\ Next1(s) \in told'
<1>1. /\ Next1(s) \in Fact /\ Next1(s)[1] = s /\ Next1(s)[2] = source[s].done + 1
      /\ source[s].done \in Nat
  BY NextFact
<1>2. /\ source'[s] = [at |-> "idle", done |-> source[s].done + 1, target |-> 0]
      /\ \A x \in Sources : x # s => source'[x] = source[x]
      /\ told' = told \cup {Next1(s)}
  BY ToldIs
<1>3. PICK f : f = Next1(s)
  OBVIOUS
<1>4. \A x \in Sources : Count(x)' = Count(x) /\ Count(x) \in Nat
  BY ProjectorAssumption DEF Count, Numbered
<1>5. source[s].done < Count(s) /\ source[s].done + 1 <= Count(s)
  BY <1>1, <1>4 DEF Numbered
<1>6. \A x \in Sources : source'[x].done <= Count(x)'
  BY <1>2, <1>4, <1>5 DEF Numbered
<1>7. \A x \in Sources : Telling(x)' => source'[x].done < Count(x)'
  BY <1>2, <1>4 DEF Numbered, Telling
<1>8. \A g \in told' : g[2] <= source'[g[1]].done
  <2> SUFFICES ASSUME NEW g \in told' PROVE g[2] <= source'[g[1]].done
    OBVIOUS
  <2>1. CASE g = f
    BY <1>1, <1>2, <1>3, <2>1
  <2>2. CASE g # f
    <3>1. g \in told /\ g \in Fact
      BY <1>2, <1>3, <2>2, TypedParts
    <3>2. g[1] \in Sources /\ g[2] \in Nat /\ g[2] <= source[g[1]].done
      BY <3>1, FactPair DEF Numbered
    <3>3. CASE g[1] = s
      BY <1>1, <1>2, <3>2, <3>3
    <3>4. CASE g[1] # s
      BY <1>2, <3>2, <3>4
    <3>5. QED
      BY <3>3, <3>4
  <2>3. QED
    BY <2>1, <2>2
<1>9. /\ Ordered(ingested)' /\ Whole(ingested)' /\ Range(ingested)' = Range(ingested)
  BY DEF Numbered, Ordered, Whole, Range
<1>10. /\ \A g \in Fact : g \in Range(ingested)' <=> g[2] <= Count(g[1])'
       /\ \A x \in Sources : Count(x)' \in 0 .. FactsOf[x]
  BY <1>4, <1>9, FactPair DEF Numbered
<1>11. QED
  BY <1>2, <1>6, <1>7, <1>8, <1>9, <1>10 DEF Numbered

(* A step that leaves the arms alone.                                      *)
LEMMA StillKeeps ==
  ASSUME IInv, TypeOK', UNCHANGED <<arms, slot, states, table, caughtUp>>,
         Numbered', HostAt', ReadWhole', told \subseteq told',
         Range(ingested) \subseteq Range(ingested)', OwnKnown', Caught', Owed'
  PROVE  IInv'
<1>1. Arms' = Arms
  BY DEF Arms
<1>2. Slotted' /\ Staged' /\ Counted'
  BY <1>1 DEF IInv, Slotted, Staged, Counted
<1>3. Known'
  <2>1. \A i \in Arms :
          /\ Range(arms[i].found) \subseteq Range(ingested)'
          /\ Range(arms[i].inbox) \subseteq told'
          /\ arms[i].at \in {"claimed", "committed"} => Range(arms[i].hand) \subseteq told'
    BY DEF IInv, Known
  <2>2. QED
    BY <1>1, <2>1 DEF Known, OwnKnown
<1>4. QED
  BY <1>2, <1>3 DEF IInv

(* More may be told and recorded, and fewer copies may be on their way.    *)
LEMMA StillCaught ==
  ASSUME IInv, TypeOK', UNCHANGED <<arms, slot, states, table, own, told>>,
         \A x \in Sources : Telling(x)' => \/ source'[x] = source[x]
                                           \/ source'[x].target = slot
  PROVE  Caught'
<1>1. Arms' = Arms
  BY DEF Arms
<1>2. SUFFICES ASSUME NEW i \in Arms, i = slot PROVE CaughtAt(i)'
  BY <1>1 DEF Caught
<1>3. CaughtAt(i)
  BY <1>2 DEF IInv, Caught
<1>4. \A x \in Sources : Telling(x)' /\ source'[x].target # i =>
        Telling(x) /\ source[x].target # i /\ Next1(x)' = Next1(x)
  BY <1>2 DEF Telling, Next1
<1>5. Facts(own)' = Facts(own) /\ Folded(i)' = Folded(i) /\ Reached(i)' = Reached(i)
  BY DEF Facts, Folded, Reached
<1>6. QED
  BY <1>3, <1>4, <1>5 DEF CaughtAt

LEMMA StillOwed ==
  ASSUME IInv, UNCHANGED <<arms, slot, states, table, host>>, told \subseteq told',
         Range(ingested) \subseteq Range(ingested)'
  PROVE  Owed'
<1>1. Arms' = Arms
  BY DEF Arms
<1>2. SUFFICES ASSUME host.op = "read"
               PROVE  /\ host.owed \subseteq Range(ingested)'
                      /\ \A i \in Arms : i = slot => OwedAt(i)'
  BY <1>1 DEF Owed
<1>3. host.owed \subseteq Range(ingested)'
  BY <1>2 DEF IInv, Owed
<1>4. ASSUME NEW i \in Arms, i = slot PROVE OwedAt(i)'
  <2>1. OwedAt(i)
    BY <1>2, <1>4 DEF IInv, Owed
  <2>2. Folded(i)' = Folded(i)
    BY DEF Folded
  <2>3. QED
    BY <2>1, <2>2 DEF OwedAt
<1>5. QED
  BY <1>3, <1>4

LEMMA RecordKeeps ==
  ASSUME IInv, TypeOK', NEW s \in Sources, NEW n \in 1 .. 2, Record(s, n)
  PROVE  IInv'
<1> USE DEF storeVars, liveVars, hostVars
<1>1. UNCHANGED <<arms, slot, states, table, caughtUp, own, told, source, host, missed>>
  BY DEF Record
<1>2. TypeOK /\ Numbered /\ Known
  BY DEF IInv
<1>3. Numbered' /\ Range(ingested) \subseteq Range(ingested)'
  BY <1>2, RecordNumbers, RecordRange
<1>4. OwnKnown' /\ HostAt' /\ ReadWhole'
  BY <1>1, <1>2, <1>3, SameOwn DEF IInv, HostAt, ReadWhole
<1>5. Caught'
  BY <1>1, StillCaught
<1>6. Owed'
  BY <1>1, <1>3, StillOwed
<1>7. QED
  BY <1>1, <1>3, <1>4, <1>5, <1>6, StillKeeps

LEMMA ResolveKeeps ==
  ASSUME IInv, TypeOK', NEW s \in Sources, Resolve(s)
  PROVE  IInv'
<1> USE DEF storeVars, liveVars, hostVars
<1>1. UNCHANGED <<arms, slot, states, table, caughtUp, own, told, ingested, host, missed>>
  BY DEF Resolve
<1>2. TypeOK /\ Numbered /\ Known
  BY DEF IInv
<1>3. /\ source'[s].at = "telling" /\ source'[s].done = source[s].done /\ source'[s].target = slot
      /\ source[s].done < Count(s)
      /\ \A x \in Sources : x # s => source'[x] = source[x]
  BY <1>2, TypedParts DEF Resolve, SourceRecord
<1>4. Numbered'
  <2>1. \A x \in Sources : Count(x)' = Count(x)
    BY <1>1 DEF Count
  <2>2. \A x \in Sources : source'[x].done = source[x].done
    BY <1>3
  <2>3. \A x \in Sources : Telling(x)' => source[x].done < Count(x)
    BY <1>2, <1>3 DEF Numbered, Telling
  <2>4. Ordered(ingested)' /\ Whole(ingested)' /\ Range(ingested)' = Range(ingested)
    BY <1>1, <1>2 DEF Numbered, Ordered, Whole, Range
  <2>5. \A f \in told : f[1] \in Sources
    BY <1>2, FactPair, TypedParts
  <2>6. \A f \in told' : f[2] <= source'[f[1]].done
    BY <1>1, <1>2, <2>2, <2>5 DEF Numbered
  <2>7. /\ \A f \in Fact : f \in Range(ingested)' <=> f[2] <= Count(f[1])'
        /\ \A x \in Sources : Count(x)' \in 0 .. FactsOf[x]
    BY <1>2, <2>1, <2>4, FactPair DEF Numbered
  <2>8. /\ \A x \in Sources : source'[x].done <= Count(x)'
        /\ \A x \in Sources : Telling(x)' => source'[x].done < Count(x)'
    BY <1>2, <2>1, <2>2, <2>3 DEF Numbered
  <2>9. QED
    BY <2>4, <2>6, <2>7, <2>8 DEF Numbered
<1>5. OwnKnown' /\ HostAt' /\ ReadWhole'
  BY <1>1, <1>2, SameOwn DEF IInv, HostAt, ReadWhole
<1>6. Caught'
  BY <1>1, <1>3, StillCaught
<1>7. Owed'
  BY <1>1, StillOwed
<1>8. QED
  BY <1>1, <1>4, <1>5, <1>6, <1>7, StillKeeps

LEMMA MuteKeeps ==
  ASSUME IInv, TypeOK', NEW s \in Sources, Mute(s)
  PROVE  IInv'
<1> USE DEF storeVars, liveVars, hostVars
<1>1. UNCHANGED <<arms, slot, states, table, caughtUp, own, told, ingested, host, missed>>
  BY DEF Mute
<1>2. TypeOK /\ Numbered /\ Known
  BY DEF IInv
<1>3. /\ source'[s].at = "idle" /\ source'[s].done = Count(s)
      /\ source[s].done < Count(s)
      /\ \A x \in Sources : x # s => source'[x] = source[x]
  BY <1>2, TypedParts DEF Mute, SourceRecord
<1>4. \A x \in Sources : Count(x)' = Count(x) /\ Count(x) \in Nat /\ source[x].done \in Nat
  BY <1>1, <1>2, ProjectorAssumption, TypedParts DEF Count, Numbered, SourceRecord
<1>5. Numbered'
  <2>1. \A x \in Sources : source[x].done <= source'[x].done /\ source'[x].done <= Count(x)
    BY <1>2, <1>3, <1>4 DEF Numbered
  <2>2. \A x \in Sources : Telling(x)' => source'[x].done < Count(x)
    BY <1>2, <1>3 DEF Numbered, Telling
  <2>3. Ordered(ingested)' /\ Whole(ingested)' /\ Range(ingested)' = Range(ingested)
    BY <1>1, <1>2 DEF Numbered, Ordered, Whole, Range
  <2>4. \A f \in told : f[1] \in Sources /\ f[2] \in Nat /\ f[2] <= source[f[1]].done
    BY <1>2, FactPair, TypedParts DEF Numbered
  <2>5. \A x \in Sources : source'[x].done \in Nat
    BY <1>3, <1>4
  <2>6. \A f \in told : f[2] <= source'[f[1]].done
    BY <1>4, <2>1, <2>4, <2>5
  <2>7. /\ \A f \in Fact : f \in Range(ingested)' <=> f[2] <= Count(f[1])'
        /\ \A x \in Sources : Count(x)' \in 0 .. FactsOf[x]
    BY <1>2, <1>4, <2>3, FactPair DEF Numbered
  <2>8. /\ \A x \in Sources : source'[x].done <= Count(x)'
        /\ \A x \in Sources : Telling(x)' => source'[x].done < Count(x)'
    BY <1>4, <2>1, <2>2
  <2>9. QED
    BY <1>1, <2>3, <2>6, <2>7, <2>8 DEF Numbered
<1>6. OwnKnown' /\ HostAt' /\ ReadWhole'
  BY <1>1, <1>2, SameOwn DEF IInv, HostAt, ReadWhole
<1>7. Caught'
  <2>1. \A x \in Sources : Telling(x)' => source'[x] = source[x]
    BY <1>3 DEF Telling
  <2>2. QED
    BY <1>1, <2>1, StillCaught
<1>8. Owed'
  BY <1>1, StillOwed
<1>9. QED
  BY <1>1, <1>5, <1>6, <1>7, <1>8, StillKeeps

(* A copy that nobody takes is of a fact that the catch-up finds.          *)
LEMMA ToldCaught ==
  ASSUME IInv, NEW s \in Sources, Telling(s), Told(s),
         UNCHANGED <<arms, slot, states, table, own>>,
         \A i \in Arms : i = slot /\ arms[i].open => source[s].target # i
  PROVE  Caught'
<1>1. Arms' = Arms /\ TypeOK /\ Numbered
  BY DEF Arms, IInv
<1>2. /\ source'[s] = [at |-> "idle", done |-> source[s].done + 1, target |-> 0]
      /\ \A x \in Sources : x # s => source'[x] = source[x]
      /\ told' = told \cup {Next1(s)}
  BY <1>1, ToldIs
<1>3. SUFFICES ASSUME NEW i \in Arms, i = slot PROVE CaughtAt(i)'
  BY <1>1 DEF Caught
<1>4. CaughtAt(i)
  BY <1>3 DEF IInv, Caught
<1>5. \A x \in Sources : Telling(x)' /\ source'[x].target # i =>
        Telling(x) /\ source[x].target # i /\ Next1(x)' = Next1(x)
  BY <1>2 DEF Telling, Next1
<1>6. Facts(own)' = Facts(own) /\ Folded(i)' = Folded(i) /\ Reached(i)' = Reached(i)
  BY DEF Facts, Folded, Reached
<1>7. arms[i].at \in Scanning \cup {"boot"} \cup Working /\ arms[i].open => told' \subseteq Reached(i)
  BY <1>2, <1>3, <1>4 DEF CaughtAt, Reached
<1>8. QED
  BY <1>4, <1>5, <1>6, <1>7 DEF CaughtAt

LEMMA DeliverKeeps ==
  ASSUME IInv, TypeOK', NEW s \in Sources, Deliver(s)
  PROVE  IInv'
<1> USE DEF storeVars, liveVars, hostVars
<1>1. /\ UNCHANGED <<mode, ingested, own, slot, states, table, caughtUp, host, missed>>
      /\ Telling(s) /\ Told(s) /\ source[s].target # 0
  BY DEF Deliver
<1>2. TypeOK /\ Numbered /\ Known /\ Slotted
  BY DEF IInv
<1>3. Numbered' /\ told \subseteq told' /\ Next1(s) \in told'
  BY <1>1, <1>2, ToldNumbers
<1>4. OwnKnown' /\ HostAt' /\ ReadWhole' /\ Range(ingested)' = Range(ingested)
  BY <1>1, <1>2, SameOwn DEF IInv, HostAt, ReadWhole
<1>5. PICK i \in Arms : i = source[s].target
  BY <1>1, <1>2, NextFact
<1>6. CASE ~arms[i].open
  <2>1. arms' = arms
    BY <1>5, <1>6 DEF Deliver
  <2>2. Caught'
    BY <1>1, <1>5, <1>6, <2>1, ToldCaught
  <2>3. Owed'
    BY <1>1, <1>3, <1>4, <2>1, StillOwed
  <2>4. QED
    BY <1>1, <1>3, <1>4, <2>1, <2>2, <2>3, StillKeeps
<1>7. CASE arms[i].open
  <2>1. arms[i].at # "gone"
    BY <1>2, <1>7 DEF Slotted
  <2>2. /\ i = slot /\ table \in {1, 2} /\ arms[i] \in ArmRecord
        /\ arms[i].inbox \in Seq(Fact) /\ CaughtAt(i) /\ (host.op = "read" => OwedAt(i))
    BY <2>1, AtSlot
  <2>3. PICK inbox : inbox = Append(arms[i].inbox, Next1(s))
    OBVIOUS
  <2>4. inbox \in Seq(Fact) /\ Range(inbox) = Range(arms[i].inbox) \cup {Next1(s)}
    BY <1>1, <1>2, <2>2, <2>3, NextFact, AppendProperties, RangeAppend
  <2>5. PICK arm : arm = [arms[i] EXCEPT !.inbox = inbox]
    OBVIOUS
  <2>6. /\ arm \in ArmRecord /\ arm.inbox = inbox /\ arm.at = arms[i].at
        /\ arm.open /\ arm.hand = arms[i].hand /\ arm.found = arms[i].found
        /\ arm.state = arms[i].state
    BY <1>7, <2>2, <2>4, <2>5 DEF ArmRecord
  <2>7. Set(i, arm)
    BY <1>5, <1>7, <2>3, <2>5 DEF Deliver
  <2>8. /\ Arms' = Arms /\ Len(arms') = Len(arms) /\ arms'[i] = arm
        /\ \A j \in Arms : j # i => arms'[j] = arms[j]
    BY <1>2, <2>6, <2>7, SetArm
  <2>9. \A j \in Arms : arms'[j].at = arms[j].at
    BY <2>6, <2>8
  <2>10. Slotted' /\ Staged' /\ Counted'
    <3>1. Slotted'
      BY <1>1, <1>2, <2>1, <2>8, <2>9 DEF Slotted
    <3>2. Staged'
      BY <1>1, <2>2, <2>6, <2>8, <2>9 DEF IInv, Staged
    <3>3. Counted'
      BY <1>1, <2>8, <2>9 DEF IInv, Counted
    <3>4. QED
      BY <3>1, <3>2, <3>3
  <2>11. Known'
    <3>1. \A j \in Arms :
            /\ Range(arms'[j].found) \subseteq Range(ingested)
            /\ Range(arms'[j].inbox) \subseteq told'
            /\ arms'[j].at \in {"claimed", "committed"} => Range(arms'[j].hand) \subseteq told'
      BY <1>2, <1>3, <2>4, <2>6, <2>8 DEF Known
    <3>2. QED
      BY <1>4, <2>8, <3>1 DEF Known, OwnKnown
  <2>12. /\ Facts(own)' = Facts(own) /\ Folded(i)' = Folded(i)
         /\ Reached(i) \cup {Next1(s)} \subseteq Reached(i)'
    <3>1. Facts(own)' = Facts(own) /\ Folded(i)' = Folded(i)
      BY <1>1, <2>6, <2>8 DEF Facts, Folded
    <3>2. Reached(i) \cup {Next1(s)} \subseteq Reached(i)'
      BY <1>1, <2>4, <2>6, <2>8 DEF Reached
    <3>3. QED
      BY <3>1, <3>2
  <2>13. CaughtAt(i)'
    <3>1. /\ source'[s] = [at |-> "idle", done |-> source[s].done + 1, target |-> 0]
          /\ \A x \in Sources : x # s => source'[x] = source[x]
          /\ told' = told \cup {Next1(s)}
      BY <1>1, <1>2, ToldIs
    <3>2. \A x \in Sources : Telling(x)' /\ source'[x].target # i =>
            Telling(x) /\ source[x].target # i /\ Next1(x)' = Next1(x)
      BY <3>1 DEF Telling, Next1
    <3>3. arms[i].at \in Scanning \cup {"boot"} \cup Working => told' \subseteq Reached(i)'
      BY <1>7, <2>2, <2>12, <3>1 DEF CaughtAt
    <3>4. QED
      BY <1>1, <2>2, <2>6, <2>8, <2>12, <3>2, <3>3 DEF CaughtAt
  <2>14. host.op = "read" => OwedAt(i)'
    BY <1>1, <1>3, <1>7, <2>2, <2>6, <2>8, <2>12 DEF OwedAt
  <2>15. Caught' /\ Owed'
    BY <1>1, <1>4, <2>2, <2>8, <2>13, <2>14 DEF Caught, Owed, IInv
  <2>16. QED
    BY <1>3, <1>4, <2>10, <2>11, <2>15 DEF IInv
<1>8. QED
  BY <1>6, <1>7

LEMMA DeliverColdKeeps ==
  ASSUME IInv, TypeOK', NEW s \in Sources, DeliverCold(s)
  PROVE  IInv'
<1> USE DEF storeVars, liveVars, hostVars
<1>1. /\ UNCHANGED <<mode, ingested, own, caughtUp, host, missed>>
      /\ Telling(s) /\ source[s].target = 0
  BY DEF DeliverCold
<1>2. TypeOK /\ Numbered /\ Known
  BY DEF IInv
<1>3. OwnKnown' /\ HostAt' /\ ReadWhole' /\ Range(ingested)' = Range(ingested)
  BY <1>1, <1>2, SameOwn DEF IInv, HostAt, ReadWhole
<1>4. CASE Told(s) /\ UNCHANGED liveVars
  <2>1. Numbered' /\ told \subseteq told'
    BY <1>1, <1>2, <1>4, ToldNumbers
  <2>2. 0 \notin Arms
    BY <1>2, Typed
  <2>3. Caught'
    BY <1>1, <1>4, <2>2, ToldCaught
  <2>4. Owed'
    BY <1>1, <1>3, <1>4, <2>1, StillOwed
  <2>5. QED
    BY <1>1, <1>3, <1>4, <2>1, <2>3, <2>4, StillKeeps
<1>5. CASE slot = 0 /\ Told(s) /\ Arm(<<Next1(s)>>)
  <2>1. Numbered' /\ told \subseteq told' /\ Next1(s) \in told'
    BY <1>1, <1>2, <1>5, ToldNumbers
  <2>2. Next1(s) \in Fact
    BY <1>1, <1>2, NextFact
  <2>3. PICK mail : mail = <<Next1(s)>>
    OBVIOUS
  <2>4. mail \in Seq(Fact) /\ Range(mail) \subseteq told'
    BY <2>1, <2>2, <2>3, SmallSeqs DEF Range
  <2>5. QED
    BY <1>1, <1>3, <1>5, <2>1, <2>3, <2>4, ArmKeeps
<1>6. CASE source' = [source EXCEPT ![s].at = "dead"] /\ UNCHANGED <<told, liveVars>>
  <2>1. /\ source'[s].at = "dead" /\ source'[s].done = source[s].done
        /\ \A x \in Sources : x # s => source'[x] = source[x]
    BY <1>2, <1>6, TypedParts DEF SourceRecord
  <2>2. /\ \A x \in Sources : source'[x].done = source[x].done
        /\ \A x \in Sources : Telling(x)' => Telling(x) /\ source'[x] = source[x]
    BY <2>1 DEF Telling
  <2>3. Numbered'
    <3>1. \A x \in Sources : Count(x)' = Count(x)
      BY <1>1 DEF Count
    <3>2. Ordered(ingested)' /\ Whole(ingested)'
      BY <1>1, <1>2 DEF Numbered, Ordered, Whole, Range
    <3>3. \A f \in told' : f[2] <= source'[f[1]].done
      <4>1. \A f \in told : f[1] \in Sources
        BY <1>2, FactPair, TypedParts
      <4>2. QED
        BY <1>2, <1>6, <2>2, <4>1 DEF Numbered
    <3>4. /\ \A f \in Fact : f \in Range(ingested)' <=> f[2] <= Count(f[1])'
          /\ \A x \in Sources : Count(x)' \in 0 .. FactsOf[x]
      BY <1>2, <1>3, <3>1, FactPair DEF Numbered
    <3>5. /\ \A x \in Sources : source'[x].done <= Count(x)'
          /\ \A x \in Sources : Telling(x)' => source'[x].done < Count(x)'
      BY <1>2, <2>2, <3>1 DEF Numbered
    <3>6. QED
      BY <3>2, <3>3, <3>4, <3>5 DEF Numbered
  <2>4. Caught'
    BY <1>1, <1>6, <2>2, StillCaught
  <2>5. Owed'
    BY <1>1, <1>3, <1>6, StillOwed
  <2>6. QED
    BY <1>1, <1>3, <1>6, <2>3, <2>4, <2>5, StillKeeps
<1>7. QED
  BY <1>4, <1>5, <1>6 DEF DeliverCold

----------------------------------------------------------------------------
(* The host.                                                               *)

(* An operation of the host that leaves the arms alone.                    *)
LEMMA HostKeeps ==
  ASSUME IInv, TypeOK', UNCHANGED <<ingested, own, source, told, liveVars, caughtUp>>,
         HostAt', ReadWhole', Owed'
  PROVE  IInv'
<1> USE DEF liveVars
<1>1. Numbered' /\ OwnKnown'
  BY SameSources, SameOwn DEF IInv
<1>2. Caught'
  BY StillCaught
<1>3. QED
  BY <1>1, <1>2, StillKeeps

LEMMA StartKeeps ==
  ASSUME IInv, TypeOK', Start
  PROVE  IInv'
<1> USE DEF storeVars, liveVars, hostVars
<1>1. /\ UNCHANGED <<ingested, own, source, told, caughtUp, missed, host>>
      /\ slot = 0 /\ Arm(<<>>)
  BY DEF Start
<1>2. Numbered' /\ HostAt'
  BY <1>1, SameSources DEF IInv, HostAt
<1>3. PICK mail : mail = <<>>
  OBVIOUS
<1>4. mail \in Seq(Fact) /\ Range(mail) \subseteq told'
  BY <1>3, NoFacts DEF Range
<1>5. QED
  BY <1>1, <1>2, <1>3, <1>4, ArmKeeps

(* A read of a live projector is owed what has been told by now.           *)
LEMMA ReadHotKeeps ==
  ASSUME IInv, TypeOK', ReadHot
  PROVE  IInv'
<1>1. /\ UNCHANGED <<ingested, own, source, told, liveVars, caughtUp, missed>>
      /\ arms' = arms /\ slot' = slot
  BY DEF ReadHot, storeVars, liveVars
<1>2. PICK owed : owed = IF arms[slot].at \in Looping THEN told ELSE {}
  OBVIOUS
<1>3. host' = [op |-> "read", at |-> "quiesce", mark |-> 0, owed |-> owed]
  BY <1>2 DEF ReadHot, Begin
<1>4. told \subseteq Range(ingested)
  BY ToldRecorded DEF IInv
<1>5. owed \subseteq told
  BY <1>2
<1>6. Owed'
  <2>1. Arms' = Arms
    BY <1>1 DEF Arms
  <2>2. \A i \in Arms : OwedAt(i)'
    BY <1>1, <1>3, <1>5 DEF OwedAt
  <2>3. QED
    BY <1>1, <1>3, <1>4, <1>5, <2>1, <2>2 DEF Owed
<1>7. HostAt' /\ ReadWhole'
  BY <1>1, <1>3 DEF IInv, HostAt, ReadWhole
<1>8. QED
  BY <1>1, <1>6, <1>7, HostKeeps

LEMMA ReadColdKeeps ==
  ASSUME IInv, TypeOK', ReadCold
  PROVE  IInv'
<1>1. UNCHANGED <<ingested, own, source, told, liveVars, caughtUp, missed>>
  BY DEF ReadCold, storeVars
<1>2. host' = [op |-> "read", at |-> "wake", mark |-> 0, owed |-> Range(ingested)]
  BY DEF ReadCold, Begin
<1>3. Owed'
  BY <1>1, <1>2 DEF Owed, OwedAt
<1>4. HostAt' /\ ReadWhole'
  BY <1>1, <1>2 DEF IInv, HostAt, ReadWhole
<1>5. QED
  BY <1>1, <1>3, <1>4, HostKeeps

(* A wake that finds a projector owes nothing; one that does not, all.     *)
LEMMA WakeKeeps ==
  ASSUME IInv, TypeOK', Wake
  PROVE  IInv'
<1>1. UNCHANGED <<ingested, own, source, told, liveVars, caughtUp, missed>>
  BY DEF Wake, storeVars
<1>2. host \in HostRecord
  BY TypedParts DEF IInv
<1>3. CASE table # 0
  <2>1. host' = [host EXCEPT !.at = "quiesce", !.owed = {}]
    BY <1>3 DEF Wake
  <2>2. host'.at = "quiesce" /\ host'.owed = {}
    BY <1>2, <2>1 DEF HostRecord
  <2>3. Owed'
    BY <2>2 DEF Owed, OwedAt
  <2>4. HostAt' /\ ReadWhole'
    BY <1>1, <2>2 DEF IInv, HostAt, ReadWhole
  <2>5. QED
    BY <1>1, <2>3, <2>4, HostKeeps
<1>4. CASE table = 0
  <2>1. host' = [host EXCEPT !.at = "factory", !.mark = caughtUp]
    BY <1>4 DEF Wake
  <2>2. host'.at = "factory" /\ host'.owed = host.owed /\ host'.op = host.op
    BY <1>2, <2>1 DEF HostRecord
  <2>3. slot = 0 /\ 0 \notin Arms /\ Arms' = Arms /\ slot' = slot
    BY <1>1, <1>4, Typed DEF IInv, Slotted, liveVars, Arms
  <2>4. Owed'
    BY <1>1, <2>2, <2>3 DEF Owed, IInv
  <2>5. HostAt' /\ ReadWhole'
    BY <1>1, <2>2 DEF IInv, HostAt, ReadWhole
  <2>6. QED
    BY <1>1, <2>4, <2>5, HostKeeps
<1>5. QED
  BY <1>3, <1>4

(* A factory that finds the path taken is the end of the host's task.      *)
LEMMA FactoryKeeps ==
  ASSUME IInv, TypeOK', Factory
  PROVE  IInv'
<1>1. UNCHANGED <<ingested, own, source, told, caughtUp, missed>> /\ host.at = "factory"
  BY DEF Factory, storeVars
<1>2. host \in HostRecord
  BY TypedParts DEF IInv
<1>3. CASE slot # 0
  <2>1. UNCHANGED liveVars /\ host' = [host EXCEPT !.at = "dead"]
    BY <1>3 DEF Factory, Goes
  <2>2. host'.at = "dead" /\ host'.owed = host.owed /\ host'.op = host.op
    BY <1>2, <2>1 DEF HostRecord
  <2>3. Owed'
    BY <1>1, <2>2 DEF Owed, OwedAt, IInv
  <2>4. HostAt' /\ ReadWhole'
    BY <1>1, <2>2 DEF IInv, HostAt, ReadWhole
  <2>5. QED
    BY <1>1, <2>1, <2>3, <2>4, HostKeeps
<1>4. CASE slot = 0
  <2>1. /\ Arm(<<>>)
        /\ host' = [host EXCEPT !.at = IF host.op = "read" THEN "wait" ELSE "mark"]
    BY <1>4 DEF Factory, Goes
  <2>2. /\ host'.op = host.op /\ host'.owed = host.owed
        /\ host.op = "read" => host'.at = "wait"
        /\ host.op # "read" => host'.at = "mark"
    BY <1>2, <2>1 DEF HostRecord
  <2>3. HostAt' /\ Numbered'
    BY <1>1, <2>2, SameSources DEF IInv, HostAt
  <2>4. PICK mail : mail = <<>>
    OBVIOUS
  <2>5. mail \in Seq(Fact) /\ Range(mail) \subseteq told'
    BY <2>4, NoFacts DEF Range
  <2>6. QED
    BY <1>1, <1>4, <2>1, <2>2, <2>3, <2>4, <2>5, ArmKeeps
<1>5. QED
  BY <1>3, <1>4

LEMMA MarkKeeps ==
  ASSUME IInv, TypeOK', Mark
  PROVE  IInv'
<1>1. UNCHANGED <<ingested, own, source, told, liveVars, caughtUp, missed>> /\ host.at = "mark"
  BY DEF Mark, storeVars
<1>2. host' = [host EXCEPT !.at = "wait", !.mark = caughtUp] /\ host \in HostRecord
  BY TypedParts DEF IInv, Mark
<1>3. host'.op = host.op /\ host'.at = "wait" /\ host.op # "read"
  BY <1>1, <1>2 DEF HostRecord, IInv, HostAt
<1>4. Owed' /\ HostAt' /\ ReadWhole'
  BY <1>1, <1>3 DEF Owed, HostAt, ReadWhole, IInv
<1>5. QED
  BY <1>1, <1>4, HostKeeps

LEMMA WaitKeeps ==
  ASSUME IInv, TypeOK', Wait
  PROVE  IInv'
<1>1. /\ UNCHANGED <<ingested, own, source, told, liveVars, caughtUp, missed>> /\ host.at = "wait"
      /\ arms' = arms /\ slot' = slot
  BY DEF Wait, storeVars, liveVars
<1>2. host' = [host EXCEPT !.at = "quiesce"] /\ host \in HostRecord
  BY TypedParts DEF IInv, Wait, Goes
<1>3. host'.op = host.op /\ host'.at = "quiesce" /\ host'.owed = host.owed
  BY <1>2 DEF HostRecord
<1>4. Owed'
  <2>1. Arms' = Arms
    BY <1>1 DEF Arms
  <2>2. host.op = "read" => \A i \in Arms : i = slot => OwedAt(i)'
    BY <1>1, <1>3 DEF IInv, Owed, OwedAt
  <2>3. QED
    BY <1>1, <1>3, <2>1, <2>2 DEF Owed, IInv
<1>5. HostAt' /\ ReadWhole'
  BY <1>1, <1>3 DEF HostAt, ReadWhole, IInv
<1>6. QED
  BY <1>1, <1>4, <1>5, HostKeeps

(* A quiet projector has folded what the read is owed, or holds it as      *)
(* found until it does.                                                    *)
LEMMA QuiesceKeeps ==
  ASSUME IInv, TypeOK', Quiesce
  PROVE  IInv'
<1>1. /\ UNCHANGED <<ingested, own, source, told, liveVars, caughtUp, missed>>
      /\ arms' = arms /\ slot' = slot /\ states' = states /\ table' = table
      /\ host.at = "quiesce" /\ host \in HostRecord
  BY TypedParts DEF Quiesce, storeVars, liveVars, IInv
<1>2. CASE host.op # "read"
  <2>1. host' = Idle
    BY <1>2 DEF Quiesce
  <2>2. Owed' /\ HostAt' /\ ReadWhole'
    BY <1>1, <2>1 DEF Idle, Owed, HostAt, ReadWhole, IInv
  <2>3. QED
    BY <1>1, <2>2, HostKeeps
<1>3. CASE host.op = "read"
  <2>1. PICK stuck : stuck = (slot # 0 /\ arms[slot].at = "crashed")
    OBVIOUS
  <2>2. /\ host' = [host EXCEPT !.at = "read", !.owed = IF stuck THEN {} ELSE host.owed]
        /\ \A i \in Arms : i = slot => stuck \/ Quiet(i)
    BY <1>3, <2>1 DEF Quiesce
  <2>3. /\ host'.at = "read" /\ host'.op = "read"
        /\ host'.owed = IF stuck THEN {} ELSE host.owed
    BY <1>1, <1>3, <2>2 DEF HostRecord
  <2>4. HostAt' /\ ReadWhole'
    BY <1>1, <2>3 DEF HostAt, ReadWhole, IInv
  <2>5. Arms' = Arms
    BY <1>1 DEF Arms
  <2>6. host'.owed \subseteq Range(ingested)'
    BY <1>1, <1>3, <2>3 DEF IInv, Owed
  <2>7. ASSUME NEW i \in Arms, i = slot PROVE OwedAt(i)'
    <3>1. CASE stuck
      BY <2>3, <3>1 DEF OwedAt
    <3>2. CASE ~stuck
      <4>1. /\ Quiet(i) /\ CaughtAt(i) /\ OwedAt(i) /\ slot # 0 /\ arms[i].at # "crashed"
        <5>1. slot # 0
          BY <2>7, Typed DEF IInv
        <5>2. QED
          BY <1>3, <2>1, <2>2, <2>7, <3>2, <5>1 DEF IInv, Caught, Owed
      <4>2. arms[i].inbox = <<>> /\ arms[i].at # "claimed" /\ Range(arms[i].inbox) = {}
        BY <4>1 DEF Quiet, Range
      <4>3. host'.owed = host.owed /\ Folded(i)' = Folded(i)
        BY <1>1, <2>3, <3>2 DEF Folded
      <4>4. arms[i].at \in Scanning \cup {"boot"} \cup Working =>
              host.owed \subseteq told \cup Range(arms[i].found)
        BY <1>1, <4>1 DEF OwedAt, Scanning, Working
      <4>5. arms[i].at \in Scanning \cup {"boot"} /\ arms[i].open =>
              host.owed \subseteq Range(arms[i].found)
        BY <4>1, <4>2, <4>4 DEF CaughtAt, Reached, Scanning, Working
      <4>6. arms[i].at \in Working /\ arms[i].open => host.owed \subseteq Folded(i)
        <5> SUFFICES ASSUME arms[i].at \in Working, arms[i].open
                     PROVE  host.owed \subseteq Folded(i)
          OBVIOUS
        <5>1. told \subseteq Reached(i) /\ Range(arms[i].found) \subseteq Folded(i)
          BY <4>1 DEF CaughtAt
        <5>2. arms[i].at = "committed" \/ (arms[i].at = "idle" /\ arms[i].hand = <<>>)
          BY <4>2, <2>7 DEF Working, IInv, Staged
        <5>3. Range(arms[i].hand) \subseteq Folded(i)
          BY <5>2 DEF Folded, Range
        <5>4. Range(states[table]) \subseteq Folded(i)
          BY DEF Folded
        <5>5. Reached(i) \subseteq Folded(i)
          BY <4>2, <5>1, <5>3, <5>4 DEF Reached
        <5>6. QED
          BY <4>4, <5>1, <5>5
      <4>7. QED
        BY <1>1, <2>3, <4>1, <4>3, <4>5, <4>6 DEF OwedAt
    <3>3. QED
      BY <3>1, <3>2
  <2>8. Owed'
    BY <1>1, <2>5, <2>6, <2>7 DEF Owed
  <2>9. QED
    BY <1>1, <2>4, <2>8, HostKeeps
<1>4. QED
  BY <1>2, <1>3

(* A read lacks nothing that it is owed.                                   *)
LEMMA ReadKeeps ==
  ASSUME IInv, TypeOK', Read
  PROVE  IInv'
<1>1. /\ UNCHANGED <<ingested, own, source, told, liveVars, caughtUp>> /\ host.at = "read"
      /\ missed' = missed \cup Lacks /\ host' = Idle
  BY DEF Read, storeVars, Goes
<1>2. Lacks = {}
  <2>1. CASE table = 0 \/ arms[slot].at \in CatchingUp \cup {"committed"} \/ ~arms[slot].open
    BY <2>1 DEF Lacks
  <2>2. CASE table # 0 /\ arms[slot].at \notin CatchingUp \cup {"committed"} /\ arms[slot].open
    <3>1. slot # 0 /\ slot \in Arms
      BY <2>2, TypedParts DEF IInv, Slotted
    <3>2. PICK i \in Arms : i = slot
      BY <3>1
    <3>3. CaughtAt(i) /\ OwedAt(i) /\ arms[i].at # "gone"
      BY <1>1, <3>2 DEF IInv, Slotted, Caught, Owed, HostAt
    <3>4. arms[i].at \in {"boot", "idle", "claimed", "crashed"}
      BY <2>2, <3>2, <3>3, Typed DEF IInv, CatchingUp, Looping
    <3>5. Folded(i) = Range(states[table])
      BY <3>4 DEF Folded
    <3>6. CASE arms[i].at = "boot"
      BY <1>1, <2>2, <3>2, <3>3, <3>5, <3>6 DEF CaughtAt, OwedAt, Lacks, Scanning, Working
    <3>7. CASE arms[i].at # "boot"
      BY <1>1, <2>2, <3>2, <3>3, <3>4, <3>5, <3>7 DEF OwedAt, Lacks, Working
    <3>8. QED
      BY <3>6, <3>7
  <2>3. QED
    BY <2>1, <2>2
<1>3. Owed' /\ HostAt' /\ ReadWhole'
  BY <1>1, <1>2 DEF Idle, Owed, HostAt, ReadWhole, IInv
<1>4. QED
  BY <1>1, <1>3, HostKeeps

LEMMA BeginStopKeeps ==
  ASSUME IInv, TypeOK', BeginStop
  PROVE  IInv'
<1>1. UNCHANGED <<ingested, own, source, told, liveVars, caughtUp, missed>>
  BY DEF BeginStop, storeVars
<1>2. PICK op \in {"stop", "rebuild"} : host' = [op |-> op, at |-> "stop", mark |-> 0, owed |-> {}]
  BY DEF BeginStop, Begin
<1>3. host'.op # "read" /\ host'.at = "stop"
  BY <1>2
<1>4. Owed' /\ HostAt' /\ ReadWhole'
  BY <1>1, <1>3 DEF Owed, HostAt, ReadWhole, IInv
<1>5. QED
  BY <1>1, <1>4, HostKeeps

LEMMA StopKeeps ==
  ASSUME IInv, TypeOK', Stop
  PROVE  IInv'
<1>1. UNCHANGED <<ingested, own, source, told, caughtUp, missed>> /\ host.op # "read"
  BY DEF Stop, storeVars, IInv, HostAt
<1>2. host' = Idle \/ host' = [host EXCEPT !.at = "purge"]
  BY DEF Stop, Goes
<1>3. host'.op # "read" /\ host'.at # "read"
  BY <1>1, <1>2, TypedParts DEF Idle, HostRecord, IInv
<1>4. Owed' /\ HostAt' /\ ReadWhole'
  BY <1>1, <1>3 DEF Owed, HostAt, ReadWhole, IInv
<1>5. CASE slot = 0
  BY <1>1, <1>4, <1>5, HostKeeps DEF Stop
<1>6. CASE slot # 0
  <2>1. PICK i \in Arms : i = slot
    BY <1>6, TypedParts DEF IInv
  <2>2. arms[i].at \in {"idle", "crashed"} /\ Teardown(i)
    BY <1>6, <2>1 DEF Stop
  <2>3. QED
    BY <1>1, <1>3, <1>4, <2>2, TeardownKeeps
<1>7. QED
  BY <1>5, <1>6

(* An emptied journal holds nothing that the state has not folded.         *)
LEMMA PurgeKeeps ==
  ASSUME IInv, TypeOK', Purge
  PROVE  IInv'
<1>1. /\ UNCHANGED <<ingested, source, told, liveVars, caughtUp, missed>>
      /\ UNCHANGED <<arms, slot, states, table>>
      /\ own' = <<>> /\ host.at = "purge" /\ host' = [host EXCEPT !.at = "factory"]
  BY DEF Purge, liveVars, Goes
<1>2. host'.op # "read" /\ host'.at = "factory"
  BY <1>1, TypedParts DEF HostRecord, IInv, HostAt
<1>3. Owed' /\ HostAt' /\ ReadWhole'
  BY <1>1, <1>2 DEF Owed, HostAt, ReadWhole, IInv
<1>4. Numbered'
  BY <1>1, SameSources DEF IInv
<1>5. Facts(own)' = <<>> /\ Range(Facts(own)') = {}
  BY <1>1, NoFacts DEF Facts
<1>6. OwnKnown'
  <2>1. DOMAIN own' = {}
    BY <1>1
  <2>2. QED
    BY <1>5, <2>1 DEF OwnKnown
<1>7. Caught'
  <2>1. Arms' = Arms
    BY <1>1 DEF Arms
  <2>2. ASSUME NEW i \in Arms, i = slot PROVE CaughtAt(i)'
    <3>1. CaughtAt(i)
      BY <2>2 DEF IInv, Caught
    <3>2. Folded(i)' = Folded(i) /\ Reached(i)' = Reached(i)
      BY <1>1 DEF Folded, Reached
    <3>3. QED
      BY <1>1, <1>5, <3>1, <3>2, SameTelling DEF CaughtAt
  <2>3. QED
    BY <1>1, <2>1, <2>2 DEF Caught
<1>8. QED
  BY <1>1, <1>3, <1>4, <1>6, <1>7, StillKeeps

----------------------------------------------------------------------------
(* The theorems of every batch.                                            *)

LEMMA InitIInv == Init => IInv
<1> SUFFICES ASSUME Init PROVE IInv
  OBVIOUS
<1>1. /\ mode \in Modes /\ ingested = <<>> /\ own = <<>> /\ told = {}
      /\ source = [s \in Sources |-> [at |-> "idle", done |-> 0, target |-> 0]]
      /\ arms = <<>> /\ slot = 0 /\ states = Shells /\ table = 0 /\ caughtUp = 0
      /\ host = Idle /\ ops = 0 /\ left \in Budgets /\ purged = FALSE /\ missed = {}
  BY DEF Init
<1>2. /\ <<>> \in Seq(Fact) /\ <<>> \in Seq(Entry) /\ <<>> \in Seq(ArmRecord)
      /\ DOMAIN <<>> = {} /\ Len(<<>>) = 0 /\ Range(<<>>) = {}
  BY SmallSeqs, EmptySeq DEF Range
<1>3. Arms = {}
  BY <1>1, <1>2 DEF Arms
<1>4. 0 \in 0 .. MaxArms /\ 0 \in 0 .. MaxOps /\ left \in [AllFaults -> Nat]
  BY <1>1, ProjectorAssumption
<1>5. TypeOK
  <2>1. source \in [Sources -> SourceRecord(Arms)]
    BY <1>1 DEF SourceRecord
  <2>2. host \in HostRecord
    BY <1>1, <1>4 DEF Idle, HostRecord
  <2>3. states \in [{1, 2} -> Seq(Fact)]
    BY <1>1, ShellsType
  <2>4. ingested \in Seq(Fact) /\ own \in Seq(Entry) /\ arms \in Seq(ArmRecord)
    BY <1>1, <1>2
  <2>5. slot \in {0} \cup Arms /\ table \in 0 .. 2 /\ caughtUp \in 0 .. MaxArms /\ ops \in 0 .. MaxOps
    BY <1>1, <1>4
  <2>6. told \subseteq Fact /\ purged \in BOOLEAN /\ missed \subseteq Fact /\ mode \in Modes
    BY <1>1
  <2>7. QED
    BY <1>4, <2>1, <2>2, <2>3, <2>4, <2>5, <2>6, TypeParts
<1>6. Slotted /\ Staged
  BY <1>1, <1>3 DEF Slotted, Staged
<1>7. Numbered
  <2>1. \A s \in Sources : Count(s) = 0
    <3>1. \A s : {k \in DOMAIN ingested : ingested[k][1] = s} = {}
      BY <1>1, <1>2
    <3>2. QED
      BY <3>1, FS_EmptySet DEF Count
  <2>2. Ordered(ingested) /\ Whole(ingested) /\ Range(ingested) = {}
    BY <1>1, <1>2 DEF Ordered, Whole
  <2>3. \A s \in Sources : source[s].done = 0 /\ ~Telling(s)
    BY <1>1 DEF Telling
  <2>4. \A s \in Sources : Count(s) \in 0 .. FactsOf[s]
    BY <2>1, ProjectorAssumption
  <2>5. \A f \in Fact : f \in Range(ingested) <=> f[2] <= Count(f[1])
    <3>1. \A f \in Fact : f[1] \in Sources /\ f[2] \in Nat \ {0}
      BY FactPair
    <3>2. QED
      BY <2>1, <2>2, <3>1
  <2>6. \A s \in Sources : source[s].done <= Count(s)
    BY <2>1, <2>3
  <2>7. QED
    BY <1>1, <2>2, <2>3, <2>4, <2>5, <2>6 DEF Numbered
<1>8. Known
  <2>1. DOMAIN own = {} /\ Range(Facts(own)) = {}
    BY <1>1, <1>2, NoFacts
  <2>2. QED
    BY <1>3, <2>1 DEF Known
<1>9. Caught /\ Owed /\ Counted /\ HostAt /\ ReadWhole
  BY <1>1, <1>2, <1>3, ProjectorAssumption
     DEF Caught, Owed, Counted, HostAt, ReadWhole, Idle
<1>10. QED
  BY <1>5, <1>6, <1>7, <1>8, <1>9 DEF IInv

LEMMA NextIInv == IInv /\ [Next]_vars => IInv'
<1> SUFFICES ASSUME IInv, [Next]_vars PROVE IInv'
  OBVIOUS
<1>1. CASE Next
  <2>1. TypeOK'
    BY <1>1, StepType DEF IInv
  <2>2. ASSUME NEW s \in Sources, (\E n \in 1 .. 2 : Record(s, n)) \/ Tell(s) \/ Mute(s)
        PROVE  IInv'
    BY <2>1, <2>2, RecordKeeps, ResolveKeeps, DeliverKeeps, DeliverColdKeeps, MuteKeeps DEF Tell
  <2>3. ASSUME NEW i \in Arms, CatchUp(i)
        PROVE  IInv'
    BY <2>1, <2>3, LoadOwnKeeps, ScanKeeps, SeedKeeps, GoLiveKeeps DEF CatchUp
  <2>4. ASSUME NEW i \in Arms, Step(i) \/ JournalFails(i) \/ Close(i) \/ Leave(i)
        PROVE  IInv'
    BY <2>1, <2>4, BootKeeps, ClaimKeeps, JournalKeeps, ApplyKeeps, JournalFailsKeeps, CloseKeeps,
       LeaveKeeps DEF Step
  <2>5. ASSUME Reads PROVE IInv'
    BY <2>1, <2>5, WakeKeeps, FactoryKeeps, MarkKeeps, WaitKeeps, QuiesceKeeps, ReadKeeps DEF Reads
  <2>6. ASSUME Host PROVE IInv'
    BY <2>1, <2>6, StartKeeps, ReadHotKeeps, ReadColdKeeps, BeginStopKeeps, StopKeeps, PurgeKeeps
       DEF Host
  <2>7. QED
    BY <1>1, <2>2, <2>3, <2>4, <2>5, <2>6 DEF Next
<1>2. CASE UNCHANGED vars
  <2>1. /\ UNCHANGED <<mode, ingested, own, source, told, arms, slot, states, table, caughtUp>>
        /\ UNCHANGED <<host, ops, left, purged, missed, liveVars>>
    BY <1>2 DEF vars, storeVars, liveVars, hostVars
  <2>2. TypeOK'
    <3>1. Arms' = Arms
      BY <2>1 DEF Arms
    <3>2. QED
      BY <2>1, <3>1, TypedParts, TypeParts2 DEF IInv
  <2>3. HostAt' /\ ReadWhole' /\ Owed'
    BY <2>1, StillOwed DEF HostAt, ReadWhole, IInv
  <2>4. QED
    BY <2>1, <2>2, <2>3, HostKeeps
<1>3. QED
  BY <1>1, <1>2

(* The inductive invariant holds of every state.                           *)
THEOREM ProjectorInvariant == Spec => []IInv
BY InitIInv, NextIInv, PTL DEF Spec

(* Every state of a projector is well typed: its arms, its journal and the *)
(* host's operation.                                                       *)
THEOREM ProjectorTypeCorrect == Spec => []TypeOK
<1>1. IInv => TypeOK
  BY DEF IInv
<1>2. QED
  BY <1>1, ProjectorInvariant, PTL

(* The state of an arm at rest holds all its catch-up found and all that   *)
(* was told.                                                               *)
LEMMA RestMissesNothing == IInv => NothingMissed
<1> SUFFICES ASSUME IInv, slot # 0, arms[slot].at = "idle", arms[slot].inbox = <<>>, arms[slot].open
             PROVE  /\ table = arms[slot].state
                    /\ told \cup Range(arms[slot].found) \subseteq Range(states[table])
  BY DEF NothingMissed
<1>1. PICK i \in Arms : i = slot
  BY TypedParts DEF IInv
<1>2. arms[i].at # "gone"
  BY <1>1
<1>3. CaughtAt(i) /\ arms[i].hand = <<>> /\ (arms[i].at \in Looping => arms[i].state = table)
  BY <1>1, <1>2, AtSlot
<1>4. Folded(i) = Range(states[table])
  BY <1>1 DEF Folded
<1>5. Range(arms[i].found) \subseteq Range(states[table]) /\ told \subseteq Reached(i)
  BY <1>1, <1>3, <1>4 DEF CaughtAt, Working
<1>6. Range(arms[i].hand) = {} /\ Range(arms[i].inbox) = {}
  BY <1>1, <1>3 DEF Range
<1>7. Reached(i) \subseteq Range(arms[i].found) \cup Range(states[table])
  BY <1>6 DEF Reached
<1>8. QED
  BY <1>1, <1>3, <1>5, <1>7 DEF Looping

(* No gap between the catch-up's scan and the live copies: an open         *)
(* projector at rest has folded every fact told and every fact its         *)
(* catch-up found into the state that readers see, whatever the batch.     *)
THEOREM ProjectorMissesNothing == Spec => []NothingMissed
BY RestMissesNothing, ProjectorInvariant, PTL

(* projector_state owes a read what the store held when it woke the        *)
(* projector, or what had been told when it found it live; no completed    *)
(* read lacked any of it.                                                  *)
THEOREM ProjectorReadsWhole == Spec => []ReadWhole
<1>1. IInv => ReadWhole
  BY DEF IInv
<1>2. QED
  BY <1>1, ProjectorInvariant, PTL

----------------------------------------------------------------------------
(* What an append of checkpoints does to the journal's order.              *)

(* New facts go behind those of their source, if what is missing before    *)
(* them was never told.                                                    *)
LEMMA AppendSorted ==
  ASSUME NEW facts \in Seq(Fact), NEW new \in Seq(Fact), NEW all, all = facts \o new,
         NEW tellable \in SUBSET Fact,
         Once(facts), Ordered(new), \A f \in Range(new) : f \notin Range(facts)
  PROVE  /\ Once(all)
         /\ (/\ Sorted(facts, tellable) /\ Gapless(facts, tellable)
             /\ \A f \in Range(new) : \A e \in tellable :
                  e[1] = f[1] /\ e[2] < f[2] => e \in Range(facts) \cup Range(new))
            => Sorted(all, tellable) /\ Gapless(all, tellable)
<1>1. PICK m \in Nat : m = Len(facts) /\ DOMAIN facts = 1 .. m
  BY SeqIsFunction
<1>2. PICK n \in Nat : n = Len(new) /\ DOMAIN new = 1 .. n
  BY SeqIsFunction
<1>3. /\ DOMAIN all = 1 .. m + n /\ all \in Seq(Fact)
      /\ \A k \in 1 .. m + n : all[k] = IF k <= m THEN facts[k] ELSE new[k - m]
  BY <1>1, <1>2, ConcatProperties, LenProperties
<1>4. \A k \in 1 .. m + n :
        \/ k \in 1 .. m /\ all[k] = facts[k] /\ all[k] \in Range(facts)
        \/ k - m \in 1 .. n /\ m < k /\ all[k] = new[k - m] /\ all[k] \in Range(new)
  <2> SUFFICES ASSUME NEW k \in 1 .. m + n
               PROVE  \/ k \in 1 .. m /\ all[k] = facts[k] /\ all[k] \in Range(facts)
                      \/ k - m \in 1 .. n /\ m < k /\ all[k] = new[k - m] /\ all[k] \in Range(new)
    OBVIOUS
  <2>1. CASE k <= m
    <3>1. k \in 1 .. m /\ all[k] = facts[k]
      BY <1>3, <2>1
    <3>2. QED
      BY <1>1, <3>1 DEF Range
  <2>2. CASE ~(k <= m)
    <3>1. k - m \in 1 .. n /\ m < k /\ all[k] = new[k - m]
      BY <1>3, <2>2
    <3>2. QED
      BY <1>2, <3>1 DEF Range
  <2>3. QED
    BY <2>1, <2>2
<1>5. \A k \in 1 .. m : facts[k] \in Fact /\ facts[k][2] \in Nat
  BY <1>1, FactPair
<1>6. \A k \in 1 .. n : new[k] \in Fact /\ new[k][2] \in Nat
  BY <1>2, FactPair
<1>7. \A j, k \in 1 .. n : j < k /\ new[j][1] = new[k][1] => new[j][2] < new[k][2]
  BY <1>2 DEF Ordered
<1>8. \A j, k \in 1 .. n : new[j] = new[k] => j = k
  <2> SUFFICES ASSUME NEW j \in 1 .. n, NEW k \in 1 .. n, new[j] = new[k] PROVE j = k
    OBVIOUS
  <2>1. ~(new[j][2] < new[k][2]) /\ ~(new[k][2] < new[j][2])
    BY <1>6
  <2>2. ~(j < k) /\ ~(k < j)
    BY <1>7, <2>1
  <2>3. QED
    BY <2>2
<1>9. Once(all)
  <2> SUFFICES ASSUME NEW j \in 1 .. m + n, NEW k \in 1 .. m + n, all[j] = all[k] PROVE j = k
    BY <1>3 DEF Once
  <2>1. CASE j \in 1 .. m /\ all[j] = facts[j] /\ all[j] \in Range(facts)
    <3>1. k \in 1 .. m /\ all[k] = facts[k]
      BY <1>4, <2>1
    <3>2. QED
      BY <1>1, <2>1, <3>1 DEF Once
  <2>2. CASE j - m \in 1 .. n /\ m < j /\ all[j] = new[j - m] /\ all[j] \in Range(new)
    <3>1. k - m \in 1 .. n /\ all[k] = new[k - m]
      BY <1>4, <2>2
    <3>2. j - m = k - m
      BY <1>8, <2>2, <3>1
    <3>3. QED
      BY <1>1, <3>2
  <2>3. QED
    BY <1>4, <2>1, <2>2
<1>10. SUFFICES ASSUME Sorted(facts, tellable), Gapless(facts, tellable),
                       \A f \in Range(new) : \A e \in tellable :
                         e[1] = f[1] /\ e[2] < f[2] => e \in Range(facts) \cup Range(new)
                PROVE  Sorted(all, tellable) /\ Gapless(all, tellable)
  BY <1>9
<1>11. Sorted(all, tellable)
  <2> SUFFICES ASSUME NEW j \in 1 .. m + n, NEW k \in 1 .. m + n, j < k,
                      all[j][1] = all[k][1], all[k] \in tellable
               PROVE  all[j][2] < all[k][2]
    BY <1>3 DEF Sorted
  <2>1. CASE k \in 1 .. m /\ all[k] = facts[k]
    <3>1. j \in 1 .. m /\ all[j] = facts[j]
      BY <1>1, <1>3, <2>1
    <3>2. QED
      BY <1>1, <1>10, <2>1, <3>1 DEF Sorted
  <2>2. CASE k - m \in 1 .. n /\ m < k /\ all[k] = new[k - m] /\ all[k] \in Range(new)
    <3>1. CASE j \in 1 .. m /\ all[j] = facts[j] /\ all[j] \in Range(facts)
      <4>1. all[k] \notin Range(facts) /\ all[k] \in Fact /\ all[j] \in Fact
        BY <1>5, <1>6, <2>2, <3>1
      <4>2. /\ all[k][2] \in Nat /\ all[j][2] \in Nat
            /\ all[k] = <<all[k][1], all[k][2]>> /\ all[j] = <<all[j][1], all[j][2]>>
        BY <4>1, FactPair
      <4>3. all[j][2] # all[k][2]
        BY <3>1, <4>1, <4>2
      <4>4. ~(all[k][2] < all[j][2])
        BY <1>1, <1>10, <3>1, <4>1 DEF Gapless
      <4>5. PICK x, y \in Nat : x = all[j][2] /\ y = all[k][2]
        BY <4>2
      <4>6. x # y /\ ~(y < x)
        BY <4>3, <4>4, <4>5
      <4>7. x < y
        BY <4>6
      <4>8. QED
        BY <4>5, <4>7
    <3>2. CASE j - m \in 1 .. n /\ m < j /\ all[j] = new[j - m]
      <4>1. j - m < k - m
        BY <1>1
      <4>2. QED
        BY <1>7, <2>2, <3>2, <4>1
    <3>3. QED
      BY <1>4, <3>1, <3>2
  <2>3. QED
    BY <1>4, <2>1, <2>2
<1>12. Gapless(all, tellable)
  <2>1. Range(all) = Range(facts) \cup Range(new)
    BY RangeConcat
  <2> SUFFICES ASSUME NEW k \in 1 .. m + n, NEW e \in tellable, e[1] = all[k][1], e[2] < all[k][2]
               PROVE  e \in Range(facts) \cup Range(new)
    BY <1>3, <2>1 DEF Gapless
  <2>2. CASE k \in 1 .. m /\ all[k] = facts[k]
    BY <1>1, <1>10, <2>2 DEF Gapless
  <2>3. CASE all[k] \in Range(new)
    BY <1>10, <2>3
  <2>4. QED
    BY <1>4, <2>2, <2>3
<1>13. QED
  BY <1>11, <1>12

(* Fewer facts are tellable as time goes by.                               *)
LEMMA FewerSorted ==
  ASSUME NEW facts, NEW tellable, NEW fewer, fewer \subseteq tellable,
         Sorted(facts, tellable), Gapless(facts, tellable)
  PROVE  Sorted(facts, fewer) /\ Gapless(facts, fewer)
BY DEF Sorted, Gapless

(* What the journal lacks is in the order of the scan.                     *)
LEMMA LackingOrdered ==
  ASSUME NEW facts \in Seq(Fact), Ordered(facts)
  PROVE  Ordered(Lacking(facts))
<1>1. PICK places : places = {k \in DOMAIN facts : ~Held(facts[k])}
  OBVIOUS
<1>2. places \subseteq DOMAIN facts
  BY <1>1
<1>3. PICK t : t = Lacking(facts)
  OBVIOUS
<1>4. t = Select(facts, places)
  BY <1>1, <1>3 DEF Lacking
<1>5. /\ t \in Seq(Fact) /\ Len(t) = Cardinality(places) /\ Cardinality(places) \in Nat
      /\ \E place \in [1 .. Cardinality(places) -> places] :
           /\ \A n \in 1 .. Cardinality(places) : t[n] = facts[place[n]]
           /\ \A m, n \in 1 .. Cardinality(places) : m < n => place[m] < place[n]
  BY <1>2, <1>4, SelectIs
<1>6. PICK size \in Nat : size = Cardinality(places)
  BY <1>5
<1>7. PICK place \in [1 .. size -> places] :
           /\ \A n \in 1 .. size : t[n] = facts[place[n]]
           /\ \A m, n \in 1 .. size : m < n => place[m] < place[n]
  BY <1>5, <1>6
<1>8. DOMAIN t = 1 .. size
  BY <1>5, <1>6, LenProperties
<1>9. \A j, k \in 1 .. size : j < k /\ t[j][1] = t[k][1] => t[j][2] < t[k][2]
  <2> SUFFICES ASSUME NEW j \in 1 .. size, NEW k \in 1 .. size, j < k, t[j][1] = t[k][1]
               PROVE  t[j][2] < t[k][2]
    OBVIOUS
  <2>1. PICK x, y : x = place[j] /\ y = place[k]
    OBVIOUS
  <2>2. x \in DOMAIN facts /\ y \in DOMAIN facts /\ x < y /\ t[j] = facts[x] /\ t[k] = facts[y]
    BY <1>2, <1>7, <2>1
  <2>3. QED
    BY <2>2 DEF Ordered
<1>10. QED
  BY <1>3, <1>8, <1>9 DEF Ordered

(* An append keeps what the journal has, and must add checkpoints itself.  *)
LEMMA GrownExact ==
  ASSUME TypeOK, NEW more \in Seq(Entry), own' = own \o more, purged' = purged, Exact'
  PROVE  Exact /\ \A k \in DOMAIN more : more[k].origin = {more[k].fact}
<1>1. PICK journal : journal = own'
  OBVIOUS
<1>2. journal = own \o more /\ own \in Seq(Entry)
  BY <1>1, TypedParts
<1>3. PICK m, n \in Nat : /\ m = Len(own) /\ n = Len(more) /\ DOMAIN own = 1 .. m
                          /\ DOMAIN more = 1 .. n /\ DOMAIN journal = 1 .. m + n
                          /\ \A k \in 1 .. m + n :
                               journal[k] = IF k <= m THEN own[k] ELSE more[k - m]
  BY <1>2, ConcatProperties, LenProperties
<1>4. \A k \in DOMAIN journal : journal[k].origin = {journal[k].fact}
  BY <1>1 DEF Exact, Checkpointed
<1>5. \A k \in 1 .. m : journal[k] = own[k] /\ k \in DOMAIN journal
  BY <1>3
<1>6. \A k \in 1 .. n : k + m \in DOMAIN journal /\ journal[k + m] = more[k]
  <2> SUFFICES ASSUME NEW k \in 1 .. n
               PROVE  k + m \in DOMAIN journal /\ journal[k + m] = more[k]
    OBVIOUS
  <2>1. PICK j \in 1 .. m + n : j = k + m /\ ~(j <= m) /\ j - m = k
    OBVIOUS
  <2>2. QED
    BY <1>3, <2>1
<1>7. Checkpointed
  BY <1>3, <1>4, <1>5 DEF Checkpointed
<1>8. \A k \in DOMAIN more : more[k].origin = {more[k].fact}
  BY <1>3, <1>4, <1>6
<1>9. QED
  BY <1>7, <1>8 DEF Exact

(* The journal takes checkpoints of facts that it lacks.                   *)
LEMMA JournalGrows ==
  ASSUME TypeOK, JournalExact, NEW new \in Seq(Fact),
         own' = own \o Checkpoints(new), Ordered(new), \A f \in Range(new) : ~Held(f),
         UNCHANGED <<source, told, purged>>,
         Exact => \A f \in Range(new) : \A e \in Tellable :
                    e[1] = f[1] /\ e[2] < f[2] => e \in Range(Facts(own)) \cup Range(new)
  PROVE  JournalExact' /\ (Exact' => Exact) /\ Facts(own)' = Facts(own) \o new
<1>1. own \in Seq(Entry)
  BY TypedParts
<1>2. PICK taken : taken = Checkpoints(new)
  OBVIOUS
<1>3. taken \in Seq(Entry) /\ Facts(taken) = new
  BY <1>2, CheckpointsAre
<1>4. PICK journal : journal = own'
  OBVIOUS
<1>5. journal = own \o taken
  BY <1>2, <1>4
<1>6. Exact' => Exact
  BY <1>2, <1>3, GrownExact
<1>7. Facts(journal) = Facts(own) \o new
  BY <1>1, <1>3, <1>5, FactsConcat
<1>8. PICK facts : facts = Facts(own)
  OBVIOUS
<1>9. facts \in Seq(Fact) /\ Range(facts) = {own[k].fact : k \in DOMAIN own}
  BY <1>1, <1>8, FactsOfJournal
<1>10. PICK all : all = facts \o new
  OBVIOUS
<1>11. Exact => Once(all) /\ Sorted(all, Tellable) /\ Gapless(all, Tellable)
  <2> SUFFICES ASSUME Exact PROVE Once(all) /\ Sorted(all, Tellable) /\ Gapless(all, Tellable)
    OBVIOUS
  <2>1. Once(facts) /\ Sorted(facts, Tellable) /\ Gapless(facts, Tellable)
    BY <1>8 DEF JournalExact
  <2>2. \A f \in Range(new) : f \notin Range(facts)
    BY <1>9 DEF Exact, Checkpointed, Held
  <2>3. \A f \in Range(new) : \A e \in Tellable :
          e[1] = f[1] /\ e[2] < f[2] => e \in Range(facts) \cup Range(new)
    BY <1>8
  <2>4. Tellable \in SUBSET Fact
    BY DEF Tellable
  <2>5. QED
    BY <1>9, <1>10, <2>1, <2>2, <2>3, <2>4, AppendSorted
<1>12. Facts(own)' = all /\ Tellable' = Tellable
  BY <1>4, <1>7, <1>8, <1>10 DEF Facts, Tellable
<1>13. JournalExact'
  BY <1>6, <1>11, <1>12 DEF JournalExact
<1>14. QED
  BY <1>6, <1>8, <1>10, <1>12, <1>13

(* A step that leaves the journal alone.                                   *)
LEMMA JournalStays ==
  ASSUME JournalExact, UNCHANGED <<own, purged>>, Tellable' \subseteq Tellable
  PROVE  JournalExact' /\ (Exact' => Exact) /\ Facts(own)' = Facts(own)
<1>1. Facts(own)' = Facts(own)
  BY DEF Facts
<1>2. Exact' => Exact
  BY DEF Exact, Checkpointed
<1>3. Exact => Sorted(Facts(own), Tellable') /\ Gapless(Facts(own), Tellable')
  BY FewerSorted DEF JournalExact
<1>4. QED
  BY <1>1, <1>2, <1>3 DEF JournalExact

LEMMA SameTellable ==
  ASSUME UNCHANGED <<source, told>>
  PROVE  Tellable' \subseteq Tellable
BY DEF Tellable

(* A step of the arm at work.                                              *)
LEMMA MoveOrderly ==
  ASSUME IInv, Orderly, NEW i \in Arms, NEW arm \in ArmRecord, Set(i, arm),
         arms[i].at # "gone", slot' = slot, purged' = purged,
         InOrder(arm), Exact' => StateAt(i)', JournalExact'
  PROVE  Orderly'
<1>1. TypeOK /\ i = slot
  BY AtSlot
<1>2. Arms' = Arms /\ arms'[i] = arm /\ \A j \in Arms : j # i => arms'[j] = arms[j]
  BY <1>1, SetArm
<1>3. MailOrder'
  BY <1>2 DEF Orderly, MailOrder
<1>4. StateIsJournal'
  BY <1>1, <1>2 DEF StateIsJournal
<1>5. QED
  BY <1>3, <1>4 DEF Orderly

(* What the order says of the arm at work.                                 *)
LEMMA OrderlyAt ==
  ASSUME IInv, Orderly, NEW i \in Arms, arms[i].at # "gone"
  PROVE  /\ InOrder(arms[i]) /\ JournalExact
         /\ Exact => StateAt(i)
BY AtSlot DEF Orderly, MailOrder, StateIsJournal

LEMMA NothingAppended ==
  ASSUME NEW facts \in Seq(Fact)
  PROVE  facts \o <<>> = facts
BY EmptySeq, ConcatEmptySeq

LEMMA LoadOwnOrderly ==
  ASSUME IInv, Orderly, NEW i \in Arms, LoadOwn(i)
  PROVE  Orderly'
<1> USE DEF storeVars, liveVars, hostVars
<1>1. arms[i].at = "armed"
  BY DEF LoadOwn
<1>2. /\ TypeOK /\ i = slot /\ table \in {1, 2} /\ arms[i] \in ArmRecord
      /\ InOrder(arms[i]) /\ JournalExact /\ (Exact => StateAt(i))
  BY <1>1, AtSlot, OrderlyAt
<1>3. PICK arm : arm = [arms[i] EXCEPT !.at = "loaded"]
  OBVIOUS
<1>4. /\ arm \in ArmRecord /\ arm.at = "loaded" /\ arm.inbox = arms[i].inbox
      /\ arm.found = arms[i].found
  BY <1>2, <1>3 DEF ArmRecord, CatchingUp
<1>5. Set(i, arm) /\ UNCHANGED <<slot, purged, own, source, told>>
  BY <1>3 DEF LoadOwn
<1>6. arms'[i] = arm
  BY <1>2, <1>4, <1>5, SetArm
<1>7. JournalExact' /\ (Exact' => Exact) /\ Facts(own)' = Facts(own)
  BY <1>2, <1>5, SameTellable, JournalStays
<1>8. InOrder(arm)
  BY <1>1, <1>2, <1>4 DEF InOrder
<1>9. Exact => states'[table'] = Facts(own)
  <2>1. CASE own = <<>>
    BY <1>1, <1>2, <2>1, NoFacts DEF LoadOwn, StateAt
  <2>2. CASE own # <<>>
    BY <1>2, <2>2, RebuiltIs DEF LoadOwn
  <2>3. QED
    BY <2>1, <2>2
<1>10. Facts(own) \in Seq(Fact)
  BY <1>2, TypedParts, FactsOfJournal
<1>11. Exact' => StateAt(i)'
  BY <1>4, <1>6, <1>7, <1>9, <1>10, NothingAppended DEF StateAt, InFolding
<1>12. QED
  BY <1>1, <1>4, <1>5, <1>7, <1>8, <1>11, MoveOrderly

LEMMA ScanOrderly ==
  ASSUME IInv, Orderly, NEW i \in Arms, Scan(i)
  PROVE  Orderly'
<1> USE DEF storeVars, liveVars, hostVars
<1>1. arms[i].at = "loaded"
  BY DEF Scan
<1>2. /\ TypeOK /\ i = slot /\ arms[i] \in ArmRecord
      /\ InOrder(arms[i]) /\ JournalExact /\ (Exact => StateAt(i))
  BY <1>1, AtSlot, OrderlyAt
<1>3. PICK arm : arm = [arms[i] EXCEPT !.at = "scanned", !.found = ingested]
  OBVIOUS
<1>4. /\ arm \in ArmRecord /\ arm.at = "scanned" /\ arm.inbox = arms[i].inbox
      /\ arm.found = ingested
  <2>1. ingested \in Seq(Fact)
    BY <1>2, TypedParts
  <2>2. QED
    BY <1>2, <1>3, <2>1 DEF ArmRecord, CatchingUp
<1>5. Set(i, arm) /\ UNCHANGED <<slot, purged, own, source, told, states, table>>
  BY <1>3 DEF Scan, Scanned
<1>6. arms'[i] = arm
  BY <1>2, <1>4, <1>5, SetArm
<1>7. JournalExact' /\ (Exact' => Exact) /\ Facts(own)' = Facts(own)
  BY <1>2, <1>5, SameTellable, JournalStays
<1>8. InOrder(arm)
  BY <1>1, <1>2, <1>4 DEF InOrder, IInv, Numbered
<1>9. Exact' => StateAt(i)'
  BY <1>1, <1>2, <1>4, <1>5, <1>6, <1>7 DEF StateAt, InFolding
<1>10. QED
  BY <1>1, <1>4, <1>5, <1>7, <1>8, <1>9, MoveOrderly

LEMMA SeedOrderly ==
  ASSUME IInv, Orderly, NEW i \in Arms, Seed(i)
  PROVE  Orderly'
<1> USE DEF storeVars, liveVars, hostVars
<1>1. arms[i].at = "scanned"
  BY DEF Seed
<1>2. /\ TypeOK /\ i = slot /\ arms[i] \in ArmRecord /\ arms[i].found \in Seq(Fact)
      /\ table \in {1, 2} /\ states[table] \in Seq(Fact)
      /\ InOrder(arms[i]) /\ JournalExact /\ (Exact => StateAt(i))
  BY <1>1, AtSlot, OrderlyAt
<1>3. PICK hand : hand = Lacking(arms[i].found)
  OBVIOUS
<1>4. /\ hand \in Seq(Fact) /\ Ordered(hand)
      /\ Range(hand) = {f \in Range(arms[i].found) : ~Held(f)}
  BY <1>2, <1>3, LackingIs, LackingOrdered DEF InOrder
<1>5. PICK arm : arm = [arms[i] EXCEPT !.at = "seeded", !.hand = hand]
  OBVIOUS
<1>6. /\ arm \in ArmRecord /\ arm.at = "seeded" /\ arm.inbox = arms[i].inbox
      /\ arm.found = arms[i].found /\ arm.hand = hand
  BY <1>2, <1>4, <1>5 DEF ArmRecord, CatchingUp
<1>7. /\ Set(i, arm) /\ UNCHANGED <<slot, purged, source, told, states, table>>
      /\ own' = own \o Checkpoints(hand)
  BY <1>3, <1>5 DEF Seed
<1>8. arms'[i] = arm
  BY <1>2, <1>6, <1>7, SetArm
<1>9. \A f \in Range(hand) : \A e \in Tellable :
        e[1] = f[1] /\ e[2] < f[2] => e \in Range(Facts(own)) \cup Range(hand)
  <2> SUFFICES ASSUME NEW f \in Range(hand), NEW e \in Tellable, e[1] = f[1], e[2] < f[2]
               PROVE  e \in Range(Facts(own)) \cup Range(hand)
    OBVIOUS
  <2>1. PICK k \in DOMAIN arms[i].found : f = arms[i].found[k]
    BY <1>4 DEF Range
  <2>2. e \in Fact /\ f \in Fact
    BY <1>2, <2>1, LenProperties DEF Tellable
  <2>3. e = <<f[1], e[2]>> /\ e[2] \in 1 .. f[2]
    BY <2>2, FactPair
  <2>4. e \in Range(arms[i].found)
    BY <1>2, <2>1, <2>3 DEF InOrder, Whole
  <2>5. Held(e) => e \in Range(Facts(own))
    BY <1>2, HeldIsThere DEF IInv
  <2>6. QED
    BY <1>4, <2>4, <2>5
<1>10. JournalExact' /\ (Exact' => Exact) /\ Facts(own)' = Facts(own) \o hand
  BY <1>2, <1>4, <1>7, <1>9, JournalGrows
<1>11. InOrder(arm)
  BY <1>1, <1>2, <1>6 DEF InOrder
<1>12. Exact' => StateAt(i)'
  <2>1. Exact => Facts(own) = states[table]
    BY <1>1, <1>2, NothingAppended DEF StateAt, InFolding
  <2>2. QED
    BY <1>6, <1>7, <1>8, <1>10, <2>1 DEF StateAt, InFolding
<1>13. QED
  BY <1>1, <1>6, <1>7, <1>10, <1>11, <1>12, MoveOrderly

LEMMA GoLiveOrderly ==
  ASSUME IInv, Orderly, NEW i \in Arms, GoLive(i)
  PROVE  Orderly'
<1> USE DEF storeVars, liveVars, hostVars
<1>1. arms[i].at = "seeded"
  BY DEF GoLive
<1>2. /\ TypeOK /\ i = slot /\ table \in {1, 2} /\ arms[i] \in ArmRecord
      /\ arms[i].hand \in Seq(Fact) /\ states[table] \in Seq(Fact)
      /\ InOrder(arms[i]) /\ JournalExact /\ (Exact => StateAt(i))
  BY <1>1, AtSlot, OrderlyAt
<1>3. PICK arm : arm = [arms[i] EXCEPT !.at = "boot", !.hand = <<>>, !.state = table]
  OBVIOUS
<1>4. /\ arm \in ArmRecord /\ arm.at = "boot" /\ arm.inbox = arms[i].inbox
      /\ arm.found = arms[i].found
  BY <1>2, <1>3, NoFacts DEF ArmRecord, Looping
<1>5. Set(i, arm) /\ UNCHANGED <<slot, purged, own, source, told, table>>
  BY <1>3 DEF GoLive
<1>6. arms'[i] = arm
  BY <1>2, <1>4, <1>5, SetArm
<1>7. JournalExact' /\ (Exact' => Exact) /\ Facts(own)' = Facts(own)
  BY <1>2, <1>5, SameTellable, JournalStays
<1>8. InOrder(arm)
  BY <1>1, <1>2, <1>4 DEF InOrder
<1>9. Exact' => StateAt(i)'
  <2>1. states'[table] = states[table] \o arms[i].hand
    BY <1>2, TypedParts DEF GoLive
  <2>2. Exact => Facts(own) = states[table] \o arms[i].hand
    BY <1>1, <1>2 DEF StateAt, InFolding
  <2>3. PICK facts : facts = states[table] \o arms[i].hand
    OBVIOUS
  <2>4. facts \in Seq(Fact)
    BY <1>2, <2>3, ConcatProperties
  <2>5. facts \o <<>> = facts
    BY <2>4, NothingAppended
  <2>6. QED
    BY <1>4, <1>5, <1>6, <1>7, <2>1, <2>2, <2>3, <2>5 DEF StateAt, InFolding
<1>10. QED
  BY <1>1, <1>4, <1>5, <1>7, <1>8, <1>9, MoveOrderly

LEMMA BootOrderly ==
  ASSUME IInv, Orderly, NEW i \in Arms, Boot(i)
  PROVE  Orderly'
<1> USE DEF storeVars, liveVars, hostVars
<1>1. arms[i].at = "boot"
  BY DEF Boot
<1>2. /\ TypeOK /\ i = slot /\ table \in {1, 2} /\ arms[i] \in ArmRecord
      /\ states[table] \in Seq(Fact)
      /\ InOrder(arms[i]) /\ JournalExact /\ (Exact => StateAt(i))
  BY <1>1, AtSlot, OrderlyAt
<1>3. PICK at \in {1, 2} : at = IF own = <<>> THEN arms[i].state ELSE Fresh
  BY <1>2 DEF Fresh, ArmRecord
<1>4. PICK arm : arm = [arms[i] EXCEPT !.at = "idle", !.state = at]
  OBVIOUS
<1>5. /\ arm \in ArmRecord /\ arm.at = "idle" /\ arm.inbox = arms[i].inbox
      /\ arm.found = arms[i].found
  BY <1>2, <1>4 DEF ArmRecord, Looping
<1>6. Set(i, arm) /\ UNCHANGED <<slot, purged, own, source, told>>
  <2>1. CASE own = <<>>
    <3>1. [arms[i] EXCEPT !.at = "idle"] = arm
      BY <1>2, <1>3, <1>4, <2>1 DEF ArmRecord
    <3>2. QED
      BY <2>1, <3>1 DEF Boot
  <2>2. CASE own # <<>>
    BY <1>3, <1>4, <2>2 DEF Boot
  <2>3. QED
    BY <2>1, <2>2
<1>7. arms'[i] = arm
  BY <1>2, <1>5, <1>6, SetArm
<1>8. JournalExact' /\ (Exact' => Exact) /\ Facts(own)' = Facts(own)
  BY <1>2, <1>6, SameTellable, JournalStays
<1>9. InOrder(arm)
  BY <1>1, <1>2, <1>5 DEF InOrder
<1>10. Exact => states'[table'] = Facts(own)
  <2>1. CASE own = <<>>
    BY <1>1, <1>2, <2>1, NothingAppended DEF Boot, StateAt, InFolding
  <2>2. CASE own # <<>>
    BY <1>2, <2>2, RebuiltIs DEF Boot
  <2>3. QED
    BY <2>1, <2>2
<1>11. Facts(own) \in Seq(Fact)
  BY <1>2, TypedParts, FactsOfJournal
<1>12. Exact' => StateAt(i)'
  BY <1>5, <1>7, <1>8, <1>10, <1>11, NothingAppended DEF StateAt, InFolding
<1>13. QED
  BY <1>1, <1>5, <1>6, <1>8, <1>9, <1>12, MoveOrderly

(* A claim leaves the copies behind it in the inbox.                       *)
LEMMA ClaimOrderly ==
  ASSUME IInv, Orderly, NEW i \in Arms, Claim(i)
  PROVE  Orderly'
<1> USE DEF storeVars, liveVars, hostVars
<1>1. arms[i].at = "idle"
  BY DEF Claim
<1>2. /\ TypeOK /\ i = slot /\ table \in {1, 2} /\ arms[i] \in ArmRecord
      /\ arms[i].inbox \in Seq(Fact)
      /\ InOrder(arms[i]) /\ JournalExact /\ (Exact => StateAt(i))
  BY <1>1, AtSlot, OrderlyAt
<1>3. PICK h, r :
        /\ Set(i, [arms[i] EXCEPT !.at = "claimed", !.hand = h, !.inbox = r])
        /\ Splits(arms[i].inbox, h, r)
  BY <1>2, ClaimIs
<1>4. PICK inbox : inbox = arms[i].inbox
  OBVIOUS
<1>5. /\ h \in Seq(Fact) /\ r \in Seq(Fact) /\ Len(h) \in 1 .. Batch
      /\ Len(inbox) = Len(h) + Len(r)
      /\ \A k \in 1 .. Len(h) : h[k] = inbox[k]
      /\ \A k \in 1 .. Len(r) : r[k] = inbox[Len(h) + k]
  BY <1>3, <1>4 DEF Splits
<1>6. PICK m \in Nat : m = Len(h) /\ DOMAIN h = 1 .. m
  BY <1>5, LenProperties
<1>7. PICK n \in Nat : n = Len(r) /\ DOMAIN r = 1 .. n
  BY <1>5, LenProperties
<1>8. /\ \A k \in 1 .. m : k \in DOMAIN inbox /\ h[k] = inbox[k]
      /\ \A k \in 1 .. n : m + k \in DOMAIN inbox /\ r[k] = inbox[m + k]
  <2>1. DOMAIN inbox = 1 .. m + n
    BY <1>2, <1>4, <1>5, <1>6, <1>7, LenProperties
  <2>2. \A k \in 1 .. m : k \in 1 .. m + n
    OBVIOUS
  <2>3. \A k \in 1 .. n : m + k \in 1 .. m + n
    OBVIOUS
  <2>4. QED
    BY <1>5, <1>6, <1>7, <2>1, <2>2, <2>3
<1>9. Ordered(inbox)
  BY <1>1, <1>2, <1>4 DEF InOrder
<1>10. Ordered(r)
  <2> SUFFICES ASSUME NEW j \in 1 .. n, NEW k \in 1 .. n, j < k, r[j][1] = r[k][1]
               PROVE  r[j][2] < r[k][2]
    BY <1>7 DEF Ordered
  <2>1. PICK x, y : x = m + j /\ y = m + k
    OBVIOUS
  <2>2. x < y /\ x \in DOMAIN inbox /\ y \in DOMAIN inbox /\ r[j] = inbox[x] /\ r[k] = inbox[y]
    BY <1>8, <2>1
  <2>3. QED
    BY <1>9, <2>2 DEF Ordered
<1>11. Ordered(h)
  <2> SUFFICES ASSUME NEW j \in 1 .. m, NEW k \in 1 .. m, j < k, h[j][1] = h[k][1]
               PROVE  h[j][2] < h[k][2]
    BY <1>6 DEF Ordered
  <2>1. j \in DOMAIN inbox /\ k \in DOMAIN inbox /\ h[j] = inbox[j] /\ h[k] = inbox[k]
    BY <1>8
  <2>2. QED
    BY <1>9, <2>1 DEF Ordered
<1>12. Ahead(h, r)
  <2> SUFFICES ASSUME NEW j \in 1 .. m, NEW k \in 1 .. n, h[j][1] = r[k][1]
               PROVE  h[j][2] < r[k][2]
    BY <1>6, <1>7 DEF Ahead
  <2>1. PICK y : y = m + k
    OBVIOUS
  <2>2. j < y /\ j \in DOMAIN inbox /\ y \in DOMAIN inbox /\ h[j] = inbox[j] /\ r[k] = inbox[y]
    BY <1>8, <2>1
  <2>3. QED
    BY <1>9, <2>2 DEF Ordered
<1>13. PICK arm : arm = [arms[i] EXCEPT !.at = "claimed", !.hand = h, !.inbox = r]
  OBVIOUS
<1>14. /\ arm \in ArmRecord /\ arm.at = "claimed" /\ arm.inbox = r
       /\ arm.found = arms[i].found /\ arm.hand = h
  BY <1>2, <1>5, <1>13 DEF ArmRecord, Looping
<1>15. Set(i, arm) /\ UNCHANGED <<slot, purged, own, source, told, states, table>>
  BY <1>3, <1>13 DEF Claim
<1>16. arms'[i] = arm
  BY <1>2, <1>14, <1>15, SetArm
<1>17. JournalExact' /\ (Exact' => Exact) /\ Facts(own)' = Facts(own)
  BY <1>2, <1>15, SameTellable, JournalStays
<1>18. InOrder(arm)
  BY <1>2, <1>5, <1>10, <1>11, <1>12, <1>14 DEF InOrder
<1>19. Exact' => StateAt(i)'
  BY <1>1, <1>2, <1>14, <1>15, <1>16, <1>17 DEF StateAt, InFolding
<1>20. QED
  BY <1>1, <1>14, <1>15, <1>17, <1>18, <1>19, MoveOrderly

(* Copies of one fact in the order of their source are one copy.           *)
LEMMA OneCopy ==
  ASSUME NEW copies \in Seq(Fact), Ordered(copies), OneOrigin(copies), Len(copies) >= 1
  PROVE  Len(copies) = 1
<1>1. PICK n \in Nat : n = Len(copies) /\ DOMAIN copies = 1 .. n
  BY SeqIsFunction
<1>2. CASE n >= 2
  <2>1. 1 \in 1 .. n /\ 2 \in 1 .. n /\ 1 < 2
    BY <1>2
  <2>2. copies[2] = copies[1]
    BY <1>1, <2>1 DEF OneOrigin
  <2>3. PICK c \in Fact : c = copies[1]
    BY <1>1, <2>1, SeqIsFunction
  <2>4. c[2] \in Nat /\ c[2] < c[2]
    BY <1>1, <2>1, <2>2, <2>3, FactPair DEF Ordered
  <2>5. QED
    BY <2>4
<1>3. QED
  BY <1>1, <1>2

(* A claim whose step leaves only checkpoints behind is of one copy.       *)
LEMMA OneClaimed ==
  ASSUME IInv, Orderly, NEW i \in Arms, arms[i].at = "claimed",
         own' = own \o Rerecords(arms[i].hand), purged' = purged, Exact'
  PROVE  Exact /\ Len(arms[i].hand) = 1
<1>1. TypeOK /\ arms[i].hand \in Seq(Fact) /\ InOrder(arms[i])
  BY AtSlot, OrderlyAt
<1>2. PICK copies : copies = arms[i].hand
  OBVIOUS
<1>3. /\ copies \in Seq(Fact) /\ Len(copies) \in 1 .. Batch /\ Ordered(copies)
      /\ DOMAIN copies = 1 .. Len(copies)
  BY <1>1, <1>2, LenProperties DEF InOrder
<1>4. Len(copies) >= 1
  BY <1>3, ProjectorAssumption
<1>5. PICK new : new = Rerecords(copies)
  OBVIOUS
<1>6. new \in Seq(Entry)
  BY <1>3, <1>5, RerecordsAre
<1>7. Exact /\ \A k \in DOMAIN new : new[k].origin = {new[k].fact}
  BY <1>1, <1>2, <1>5, <1>6, GrownExact
<1>8. OneOrigin(copies)
  <2> SUFFICES ASSUME ~OneOrigin(copies) PROVE FALSE
    OBVIOUS
  <2>1. new = Plainly(copies)
    BY <1>5 DEF Rerecords, Plainly
  <2>2. Len(new) = Len(copies) /\ \A k \in DOMAIN new : new[k].origin = {}
    BY <1>3, <2>1, PlainlyAre
  <2>3. 1 \in DOMAIN new
    BY <1>3, <1>4, <1>6, <2>2, LenProperties
  <2>4. QED
    BY <1>7, <2>2, <2>3
<1>9. QED
  BY <1>2, <1>3, <1>4, <1>7, <1>8, OneCopy

(* Such a copy is of a fact that the journal has already, or of the next   *)
(* of its source that it has not.                                          *)
LEMMA JournalOrderly ==
  ASSUME IInv, Orderly, NEW i \in Arms, Journal(i)
  PROVE  Orderly'
<1> USE DEF storeVars, liveVars, hostVars
<1>1. arms[i].at = "claimed"
  BY DEF Journal
<1>2. /\ TypeOK /\ i = slot /\ table \in {1, 2} /\ arms[i] \in ArmRecord
      /\ arms[i].inbox \in Seq(Fact) /\ arms[i].hand \in Seq(Fact) /\ states[table] \in Seq(Fact)
      /\ Range(arms[i].hand) \subseteq told /\ arms[i].open /\ CaughtAt(i)
      /\ InOrder(arms[i]) /\ JournalExact /\ (Exact => StateAt(i))
  BY <1>1, AtSlot, OrderlyAt DEF ArmRecord
<1>3. PICK copies : copies = arms[i].hand
  OBVIOUS
<1>4. PICK new : new = Rerecords(copies)
  OBVIOUS
<1>5. /\ UNCHANGED <<slot, purged, source, told, states, table>> /\ own' = own \o new
      /\ IF Len(new) < Len(copies)
         THEN Set(i, [arms[i] EXCEPT !.at = "idle", !.hand = <<>>])
         ELSE Set(i, [arms[i] EXCEPT !.at = "committed"])
  BY <1>3, <1>4 DEF Journal
<1>6. Exact => Facts(own) = states[table]
  BY <1>1, <1>2, NothingAppended DEF StateAt, InFolding
<1>7. copies \in Seq(Fact) /\ (Len(new) < Len(copies) => new = <<>>)
  BY <1>2, <1>3, <1>4, RerecordsAre
<1>8. CASE Len(new) < Len(copies)
  <2>1. PICK arm : arm = [arms[i] EXCEPT !.at = "idle", !.hand = <<>>]
    OBVIOUS
  <2>2. /\ arm \in ArmRecord /\ arm.at = "idle" /\ arm.inbox = arms[i].inbox
        /\ arm.found = arms[i].found
    BY <1>2, <2>1, NoFacts DEF ArmRecord, Looping
  <2>3. Set(i, arm)
    BY <1>5, <1>8, <2>1
  <2>4. arms'[i] = arm
    BY <1>2, <2>2, <2>3, SetArm
  <2>5. own' = own
    <3>1. own \in Seq(Entry)
      BY <1>2, TypedParts
    <3>2. own \o <<>> = own
      BY <3>1, ConcatEmptySeq
    <3>3. QED
      BY <1>5, <1>7, <1>8, <3>2
  <2>6. JournalExact' /\ (Exact' => Exact) /\ Facts(own)' = Facts(own)
    BY <1>2, <1>5, <2>5, SameTellable, JournalStays
  <2>7. InOrder(arm)
    BY <1>1, <1>2, <2>2 DEF InOrder
  <2>8. Exact' => StateAt(i)'
    BY <1>2, <1>5, <1>6, <2>2, <2>4, <2>6, NothingAppended DEF StateAt, InFolding
  <2>9. QED
    BY <1>1, <1>5, <2>2, <2>3, <2>6, <2>7, <2>8, MoveOrderly
<1>9. CASE ~(Len(new) < Len(copies))
  <2>1. PICK arm : arm = [arms[i] EXCEPT !.at = "committed"]
    OBVIOUS
  <2>2. /\ arm \in ArmRecord /\ arm.at = "committed" /\ arm.inbox = arms[i].inbox
        /\ arm.found = arms[i].found /\ arm.hand = copies
    BY <1>2, <1>3, <2>1 DEF ArmRecord, Looping
  <2>3. Set(i, arm)
    BY <1>5, <1>9, <2>1
  <2>4. arms'[i] = arm
    BY <1>2, <2>2, <2>3, SetArm
  <2>5. InOrder(arm)
    BY <1>1, <1>2, <2>2 DEF InOrder
  <2>6. ASSUME Exact'
        PROVE  JournalExact' /\ Exact /\ Facts(own)' = Facts(own) \o copies
    <3>1. Exact /\ Len(copies) = 1
      BY <1>1, <1>3, <1>4, <1>5, <2>6, OneClaimed
    <3>2. PICK c : c = copies[1]
      OBVIOUS
    <3>3. DOMAIN copies = 1 .. 1 /\ c \in Fact /\ Range(copies) = {c} /\ c \in told
      <4>1. DOMAIN copies = 1 .. 1 /\ copies[1] \in Fact
        BY <1>7, <3>1, SeqIsFunction
      <4>2. Range(copies) = {c}
        BY <3>2, <4>1 DEF Range
      <4>3. QED
        BY <1>2, <1>3, <3>2, <4>1, <4>2
    <3>4. /\ own' = own \o Checkpoints(copies)
          /\ \A f \in Range(copies) : ~Held(f)
      BY <1>4, <1>5, <1>7, <1>9, <3>1, <3>2, <3>3, RerecordsAre
    <3>5. Ordered(copies)
      BY <3>3 DEF Ordered
    <3>6. ASSUME NEW e \in Tellable, e[1] = c[1], e[2] < c[2]
          PROVE  e \in Range(Facts(own))
      <4>1. c[1] \in Sources /\ c[2] \in Nat
        BY <3>3, FactPair
      <4>2. c[2] <= source[c[1]].done /\ source[c[1]].done \in Nat
        BY <1>2, <3>3, <4>1, TypedParts DEF IInv, Numbered, SourceRecord
      <4>3. e \in Fact /\ e[2] \in Nat /\ (e \in told \/ e[2] > source[e[1]].done)
        BY FactPair DEF Tellable
      <4>4. ~(e[2] > source[e[1]].done)
        BY <3>6, <4>1, <4>2, <4>3
      <4>5. e \in Reached(i)
        BY <1>1, <1>2, <4>3, <4>4 DEF CaughtAt, Working
      <4>6. Range(arms[i].found) \subseteq Range(states[table])
        BY <1>1, <1>2 DEF CaughtAt, Folded, Working
      <4>7. e \notin Range(arms[i].inbox)
        <5>1. \A k \in DOMAIN arms[i].inbox :
                c[1] = arms[i].inbox[k][1] => c[2] < arms[i].inbox[k][2]
          BY <1>1, <1>2, <1>3, <3>2, <3>3 DEF InOrder, Ahead
        <5>2. ~(c[2] < e[2]) /\ e[1] = c[1]
          BY <3>6, <4>1, <4>3
        <5>3. QED
          BY <5>1, <5>2 DEF Range
      <4>8. e # c
        BY <3>6, <4>1
      <4>9. e \in Range(states[table])
        BY <1>1, <1>3, <3>3, <4>5, <4>6, <4>7, <4>8 DEF Reached, Working
      <4>10. QED
        BY <1>6, <3>1, <4>9
    <3>7. \A f \in Range(copies) : \A e \in Tellable :
            e[1] = f[1] /\ e[2] < f[2] => e \in Range(Facts(own)) \cup Range(copies)
      BY <3>3, <3>6
    <3>8. QED
      BY <1>2, <1>5, <1>7, <3>1, <3>4, <3>5, <3>7, JournalGrows
  <2>7. JournalExact'
    BY <2>6 DEF JournalExact
  <2>8. Exact' => StateAt(i)'
    BY <1>5, <1>6, <2>2, <2>4, <2>6 DEF StateAt, InFolding
  <2>9. QED
    BY <1>1, <1>5, <2>2, <2>3, <2>5, <2>7, <2>8, MoveOrderly
<1>10. QED
  BY <1>8, <1>9

LEMMA JournalFailsOrderly ==
  ASSUME IInv, Orderly, NEW i \in Arms, JournalFails(i)
  PROVE  Orderly'
<1> USE DEF storeVars, liveVars, hostVars
<1>1. arms[i].at = "claimed"
  BY DEF JournalFails
<1>2. /\ TypeOK /\ i = slot /\ arms[i] \in ArmRecord
      /\ arms[i].inbox \in Seq(Fact) /\ arms[i].hand \in Seq(Fact)
      /\ InOrder(arms[i]) /\ JournalExact /\ (Exact => StateAt(i))
  BY <1>1, AtSlot, OrderlyAt
<1>3. PICK inbox : inbox = arms[i].hand \o arms[i].inbox
  OBVIOUS
<1>4. PICK arm : arm = [arms[i] EXCEPT !.at = "crashed", !.hand = <<>>, !.inbox = inbox]
  OBVIOUS
<1>5. inbox \in Seq(Fact)
  BY <1>2, <1>3, ConcatProperties
<1>6. arm \in ArmRecord /\ arm.at = "crashed" /\ arm.found = arms[i].found
  BY <1>2, <1>4, <1>5, NoFacts DEF ArmRecord
<1>7. Set(i, arm) /\ UNCHANGED <<slot, purged, own, source, told, states, table>>
  BY <1>3, <1>4 DEF JournalFails
<1>8. arms'[i] = arm
  BY <1>2, <1>6, <1>7, SetArm
<1>9. JournalExact' /\ (Exact' => Exact) /\ Facts(own)' = Facts(own)
  BY <1>2, <1>7, SameTellable, JournalStays
<1>10. InOrder(arm)
  BY <1>2, <1>6 DEF InOrder
<1>11. Exact' => StateAt(i)'
  BY <1>1, <1>2, <1>6, <1>7, <1>8, <1>9 DEF StateAt, InFolding
<1>12. QED
  BY <1>1, <1>6, <1>7, <1>9, <1>10, <1>11, MoveOrderly

LEMMA ApplyOrderly ==
  ASSUME IInv, Orderly, NEW i \in Arms, Apply(i)
  PROVE  Orderly'
<1> USE DEF storeVars, liveVars, hostVars
<1>1. arms[i].at = "committed"
  BY DEF Apply
<1>2. /\ TypeOK /\ i = slot /\ table \in {1, 2} /\ arms[i] \in ArmRecord /\ arms[i].state = table
      /\ arms[i].hand \in Seq(Fact) /\ states[table] \in Seq(Fact)
      /\ InOrder(arms[i]) /\ JournalExact /\ (Exact => StateAt(i))
  BY <1>1, AtSlot, OrderlyAt DEF Looping
<1>3. PICK arm : arm = [arms[i] EXCEPT !.at = "idle", !.hand = <<>>]
  OBVIOUS
<1>4. /\ arm \in ArmRecord /\ arm.at = "idle" /\ arm.inbox = arms[i].inbox
      /\ arm.found = arms[i].found
  BY <1>2, <1>3, NoFacts DEF ArmRecord, Looping
<1>5. Set(i, arm) /\ UNCHANGED <<slot, purged, own, source, told, table>>
  BY <1>3 DEF Apply
<1>6. arms'[i] = arm
  BY <1>2, <1>4, <1>5, SetArm
<1>7. JournalExact' /\ (Exact' => Exact) /\ Facts(own)' = Facts(own)
  BY <1>2, <1>5, SameTellable, JournalStays
<1>8. InOrder(arm)
  BY <1>1, <1>2, <1>4 DEF InOrder
<1>9. Exact' => StateAt(i)'
  <2>1. PICK facts : facts = states[table] \o arms[i].hand
    OBVIOUS
  <2>2. states'[table] = facts
    BY <1>2, <2>1, TypedParts DEF Apply
  <2>3. Exact => Facts(own) = facts
    BY <1>1, <1>2, <2>1 DEF StateAt, InFolding
  <2>4. facts \in Seq(Fact)
    BY <1>2, <2>1, ConcatProperties
  <2>5. facts \o <<>> = facts
    BY <2>4, NothingAppended
  <2>6. QED
    BY <1>4, <1>5, <1>6, <1>7, <2>2, <2>3, <2>5 DEF StateAt, InFolding
<1>10. QED
  BY <1>1, <1>4, <1>5, <1>7, <1>8, <1>9, MoveOrderly

LEMMA CloseOrderly ==
  ASSUME IInv, Orderly, NEW i \in Arms, Close(i)
  PROVE  Orderly'
<1> USE DEF storeVars, liveVars, hostVars
<1>1. arms[i].at = "idle"
  BY DEF Close
<1>2. /\ TypeOK /\ i = slot /\ arms[i] \in ArmRecord
      /\ InOrder(arms[i]) /\ JournalExact /\ (Exact => StateAt(i))
  BY <1>1, AtSlot, OrderlyAt
<1>3. PICK arm : arm = [arms[i] EXCEPT !.open = FALSE]
  OBVIOUS
<1>4. /\ arm \in ArmRecord /\ arm.at = "idle" /\ arm.inbox = arms[i].inbox
      /\ arm.found = arms[i].found
  BY <1>1, <1>2, <1>3 DEF ArmRecord
<1>5. Set(i, arm) /\ UNCHANGED <<slot, purged, own, source, told, states, table>>
  BY <1>3 DEF Close
<1>6. arms'[i] = arm
  BY <1>2, <1>4, <1>5, SetArm
<1>7. JournalExact' /\ (Exact' => Exact) /\ Facts(own)' = Facts(own)
  BY <1>2, <1>5, SameTellable, JournalStays
<1>8. InOrder(arm)
  BY <1>1, <1>2, <1>4 DEF InOrder
<1>9. Exact' => StateAt(i)'
  BY <1>1, <1>2, <1>4, <1>5, <1>6, <1>7 DEF StateAt, InFolding
<1>10. QED
  BY <1>1, <1>4, <1>5, <1>7, <1>8, <1>9, MoveOrderly

(* A teardown leaves no arm at work.                                       *)
LEMMA TeardownOrderly ==
  ASSUME IInv, Orderly, NEW i \in Arms, Teardown(i), UNCHANGED <<own, source, told, purged>>
  PROVE  Orderly'
<1>1. TypeOK /\ arms[i] \in ArmRecord /\ 0 \notin Arms
  BY Typed DEF IInv
<1>2. PICK arm : arm = [arms[i] EXCEPT !.at = "gone", !.inbox = <<>>, !.open = FALSE,
                                       !.found = <<>>, !.state = 1]
  OBVIOUS
<1>3. arm.at = "gone" /\ arm.inbox = <<>> /\ arm.found = <<>>
  BY <1>1, <1>2 DEF ArmRecord
<1>4. /\ Arms' = Arms /\ arms'[i] = arm /\ slot' = 0
      /\ \A j \in Arms : j # i => arms'[j] = arms[j]
  BY <1>1, <1>2, TeardownType
<1>5. InOrder(arm)
  BY <1>3 DEF InOrder, Ordered, Whole
<1>6. MailOrder'
  BY <1>4, <1>5 DEF Orderly, MailOrder
<1>7. StateIsJournal'
  BY <1>1, <1>4 DEF StateIsJournal
<1>8. JournalExact'
  BY SameTellable, JournalStays DEF Orderly
<1>9. QED
  BY <1>6, <1>7, <1>8 DEF Orderly

(* A new arm starts from a fresh state.                                    *)
LEMMA ArmOrderly ==
  ASSUME IInv, Orderly, slot = 0, NEW mail \in Seq(Fact), Arm(mail), Len(mail) <= 1,
         UNCHANGED <<own, purged>>, Tellable' \subseteq Tellable
  PROVE  Orderly'
<1>1. TypeOK
  BY DEF IInv
<1>2. /\ Arms' = Arms \cup {slot'} /\ slot' \notin Arms /\ arms'[slot'] = Armed(mail)
      /\ \A j \in Arms : arms'[j] = arms[j]
      /\ table' = 1 /\ states' = states
  BY <1>1, NewArm
<1>3. PICK arm : arm = Armed(mail)
  OBVIOUS
<1>4. arm.at = "armed" /\ arm.inbox = mail /\ arm.found = <<>>
  BY <1>3 DEF Armed
<1>5. Ordered(mail)
  <2>1. PICK n \in Nat : n = Len(mail) /\ DOMAIN mail = 1 .. n
    BY SeqIsFunction
  <2>2. \A j, k \in 1 .. n : ~(j < k)
    BY <2>1
  <2>3. QED
    BY <2>1, <2>2 DEF Ordered
<1>6. InOrder(arm)
  BY <1>4, <1>5 DEF InOrder, Ordered, Whole
<1>7. MailOrder'
  BY <1>2, <1>3, <1>6 DEF Orderly, MailOrder
<1>8. StateIsJournal'
  <2>1. PICK i : i = slot'
    OBVIOUS
  <2>2. arms'[i].at = "armed"
    BY <1>2, <1>3, <1>4, <2>1
  <2>3. states'[table'] = <<>>
    BY <1>2, ShellsType DEF IInv, Slotted
  <2>4. StateAt(i)'
    BY <2>2, <2>3 DEF StateAt
  <2>5. QED
    BY <2>1, <2>4 DEF StateIsJournal
<1>9. JournalExact'
  BY JournalStays DEF Orderly
<1>10. QED
  BY <1>7, <1>8, <1>9 DEF Orderly

(* A step that leaves the arms and the journal alone.                      *)
LEMMA StillOrderly ==
  ASSUME Orderly, UNCHANGED <<arms, slot, states, table, own, purged>>,
         Tellable' \subseteq Tellable
  PROVE  Orderly'
<1>1. Arms' = Arms /\ Facts(own)' = Facts(own)
  BY DEF Arms, Facts
<1>2. MailOrder'
  BY <1>1 DEF Orderly, MailOrder
<1>3. JournalExact' /\ (Exact' => Exact)
  BY JournalStays DEF Orderly
<1>4. \A i : StateAt(i) => StateAt(i)'
  BY <1>1 DEF StateAt, InFolding
<1>5. StateIsJournal'
  BY <1>1, <1>3, <1>4 DEF Orderly, StateIsJournal
<1>6. QED
  BY <1>2, <1>3, <1>5 DEF Orderly

(* What is told was to be told.                                            *)
LEMMA ToldTellable ==
  ASSUME TypeOK, Numbered, NEW s \in Sources, Telling(s), Told(s)
  PROVE  Tellable' \subseteq Tellable
<1>1. /\ Next1(s) \in Fact /\ Next1(s)[1] = s /\ Next1(s)[2] = source[s].done + 1
      /\ source[s].done \in Nat
  BY NextFact
<1>2. /\ source'[s] = [at |-> "idle", done |-> source[s].done + 1, target |-> 0]
      /\ \A x \in Sources : x # s => source'[x] = source[x]
      /\ told' = told \cup {Next1(s)}
  BY ToldIs
<1>3. SUFFICES ASSUME NEW f \in Fact, f \in told' \/ f[2] > source'[f[1]].done
               PROVE  f \in told \/ f[2] > source[f[1]].done
  BY DEF Tellable
<1>4. f[1] \in Sources /\ f[2] \in Nat
  BY FactPair
<1>5. CASE f = Next1(s)
  BY <1>1, <1>5
<1>6. CASE f # Next1(s) /\ f \in told'
  BY <1>2, <1>6
<1>7. CASE f[2] > source'[f[1]].done /\ f[1] = s
  BY <1>1, <1>2, <1>4, <1>7
<1>8. CASE f[2] > source'[f[1]].done /\ f[1] # s
  BY <1>2, <1>4, <1>8
<1>9. QED
  BY <1>3, <1>5, <1>6, <1>7, <1>8

LEMMA DeliverOrderly ==
  ASSUME IInv, Orderly, NEW s \in Sources, Deliver(s)
  PROVE  Orderly'
<1> USE DEF storeVars, liveVars, hostVars
<1>1. /\ UNCHANGED <<own, slot, states, table, purged>>
      /\ Telling(s) /\ Told(s) /\ source[s].target # 0
  BY DEF Deliver
<1>2. TypeOK /\ Numbered /\ Known /\ Slotted
  BY DEF IInv
<1>3. Tellable' \subseteq Tellable
  BY <1>1, <1>2, ToldTellable
<1>4. PICK i \in Arms : i = source[s].target
  BY <1>1, <1>2, NextFact
<1>5. CASE ~arms[i].open
  <2>1. arms' = arms
    BY <1>4, <1>5 DEF Deliver
  <2>2. QED
    BY <1>1, <1>3, <2>1, StillOrderly
<1>6. CASE arms[i].open
  <2>1. arms[i].at # "gone"
    BY <1>2, <1>6 DEF Slotted
  <2>2. /\ i = slot /\ arms[i] \in ArmRecord /\ arms[i].inbox \in Seq(Fact)
        /\ arms[i].hand \in Seq(Fact) /\ Range(arms[i].inbox) \subseteq told
        /\ (arms[i].at \in {"claimed", "committed"} => Range(arms[i].hand) \subseteq told)
        /\ InOrder(arms[i]) /\ JournalExact /\ (Exact => StateAt(i))
    BY <2>1, AtSlot, OrderlyAt
  <2>3. PICK f : f = Next1(s)
    OBVIOUS
  <2>4. f \in Fact /\ f[1] = s /\ f[2] = source[s].done + 1 /\ source[s].done \in Nat
    BY <1>1, <1>2, <2>3, NextFact
  <2>5. \A e \in told : e[1] = f[1] => e[2] < f[2]
    <3> SUFFICES ASSUME NEW e \in told, e[1] = f[1] PROVE e[2] < f[2]
      OBVIOUS
    <3>1. e[2] \in Nat /\ e[2] <= source[s].done
      BY <1>2, <2>4, FactPair, TypedParts DEF Numbered
    <3>2. QED
      BY <2>4, <3>1
  <2>6. PICK old : old = arms[i].inbox
    OBVIOUS
  <2>7. PICK inbox : inbox = Append(old, f)
    OBVIOUS
  <2>8. PICK n \in Nat : n = Len(old) /\ DOMAIN old = 1 .. n
    BY <2>2, <2>6, SeqIsFunction
  <2>9. /\ inbox \in Seq(Fact) /\ DOMAIN inbox = 1 .. n + 1 /\ inbox[n + 1] = f
        /\ \A k \in 1 .. n : inbox[k] = old[k] /\ old[k] \in told
    <3>1. old \in Seq(Fact)
      BY <2>2, <2>6
    <3>2. /\ inbox \in Seq(Fact) /\ DOMAIN inbox = 1 .. n + 1 /\ inbox[n + 1] = f
          /\ \A k \in 1 .. n : inbox[k] = old[k]
      BY <2>4, <2>7, <2>8, <3>1, AppendedIs
    <3>3. \A k \in 1 .. n : old[k] \in told
      BY <2>2, <2>6, <2>8 DEF Range
    <3>4. QED
      BY <3>2, <3>3
  <2>10. Ordered(old) => Ordered(inbox)
    <3> SUFFICES ASSUME Ordered(old), NEW j \in 1 .. n + 1, NEW k \in 1 .. n + 1, j < k,
                        inbox[j][1] = inbox[k][1]
                 PROVE  inbox[j][2] < inbox[k][2]
      BY <2>9 DEF Ordered
    <3>1. j \in 1 .. n
      OBVIOUS
    <3>2. CASE k \in 1 .. n
      BY <2>8, <2>9, <3>1, <3>2 DEF Ordered
    <3>3. CASE k = n + 1
      BY <2>5, <2>9, <3>1, <3>3
    <3>4. QED
      BY <3>2, <3>3
  <2>11. PICK arm : arm = [arms[i] EXCEPT !.inbox = inbox]
    OBVIOUS
  <2>12. /\ arm \in ArmRecord /\ arm.inbox = inbox /\ arm.at = arms[i].at
         /\ arm.hand = arms[i].hand /\ arm.found = arms[i].found
    BY <2>2, <2>9, <2>11 DEF ArmRecord
  <2>13. Set(i, arm)
    BY <1>4, <1>6, <2>3, <2>6, <2>7, <2>11 DEF Deliver
  <2>14. /\ Arms' = Arms /\ arms'[i] = arm /\ \A j \in Arms : j # i => arms'[j] = arms[j]
    BY <1>2, <2>12, <2>13, SetArm
  <2>15. InOrder(arm)
    <3>1. ASSUME arm.at = "claimed"
          PROVE  Len(arm.hand) \in 1 .. Batch /\ Ordered(arm.hand) /\ Ahead(arm.hand, old)
                 /\ Range(arm.hand) \subseteq told
      BY <2>2, <2>6, <2>12, <3>1 DEF InOrder
    <3>2. ASSUME arm.at = "claimed"
          PROVE  Ahead(arm.hand, inbox)
      <4> SUFFICES ASSUME NEW j \in DOMAIN arm.hand, NEW k \in 1 .. n + 1,
                          arm.hand[j][1] = inbox[k][1]
                   PROVE  arm.hand[j][2] < inbox[k][2]
        BY <2>9 DEF Ahead
      <4>1. CASE k \in 1 .. n
        BY <2>8, <2>9, <3>1, <3>2, <4>1 DEF Ahead
      <4>2. CASE k = n + 1
        <5>1. arm.hand[j] \in told
          BY <3>1, <3>2 DEF Range
        <5>2. QED
          BY <2>5, <2>9, <4>2, <5>1
      <4>3. QED
        BY <4>1, <4>2
    <3>3. arm.at # "crashed" => Ordered(inbox)
      BY <2>2, <2>6, <2>10, <2>12 DEF InOrder
    <3>4. Ordered(arm.found) /\ Whole(arm.found)
      BY <2>2, <2>12 DEF InOrder
    <3>5. QED
      BY <2>12, <3>1, <3>2, <3>3, <3>4 DEF InOrder
  <2>16. JournalExact' /\ (Exact' => Exact) /\ Facts(own)' = Facts(own)
    BY <1>1, <1>3, <2>2, JournalStays
  <2>17. Exact' => StateAt(i)'
    BY <1>1, <2>2, <2>12, <2>14, <2>16 DEF StateAt, InFolding
  <2>18. MailOrder' /\ StateIsJournal'
    BY <1>1, <2>2, <2>14, <2>15, <2>17 DEF Orderly, MailOrder, StateIsJournal
  <2>19. QED
    BY <2>16, <2>18 DEF Orderly
<1>7. QED
  BY <1>5, <1>6

LEMMA DeliverColdOrderly ==
  ASSUME IInv, Orderly, NEW s \in Sources, DeliverCold(s)
  PROVE  Orderly'
<1> USE DEF storeVars, liveVars, hostVars
<1>1. UNCHANGED <<own, purged>> /\ Telling(s)
  BY DEF DeliverCold
<1>2. TypeOK /\ Numbered
  BY DEF IInv
<1>3. CASE Told(s) /\ UNCHANGED liveVars
  <2>1. Tellable' \subseteq Tellable
    BY <1>1, <1>2, <1>3, ToldTellable
  <2>2. QED
    BY <1>1, <1>3, <2>1, StillOrderly
<1>4. CASE slot = 0 /\ Told(s) /\ Arm(<<Next1(s)>>)
  <2>1. Tellable' \subseteq Tellable
    BY <1>1, <1>2, <1>4, ToldTellable
  <2>2. PICK mail : mail = <<Next1(s)>>
    OBVIOUS
  <2>3. mail \in Seq(Fact) /\ Len(mail) = 1
    BY <1>1, <1>2, <2>2, NextFact, SmallSeqs
  <2>4. Len(mail) <= 1
    BY <2>3
  <2>5. slot = 0 /\ Arm(mail)
    BY <1>4, <2>2
  <2>6. QED
    BY <1>1, <2>1, <2>3, <2>4, <2>5, ArmOrderly
<1>5. CASE source' = [source EXCEPT ![s].at = "dead"] /\ UNCHANGED <<told, liveVars>>
  <2>1. \A x \in Sources : source'[x].done = source[x].done
    BY <1>2, <1>5, TypedParts DEF SourceRecord
  <2>2. Tellable' \subseteq Tellable
    BY <1>5, <2>1, FactPair DEF Tellable
  <2>3. QED
    BY <1>1, <1>5, <2>2, StillOrderly
<1>6. QED
  BY <1>3, <1>4, <1>5 DEF DeliverCold

LEMMA SourceOrderly ==
  ASSUME IInv, Orderly, NEW s \in Sources,
         (\E n \in 1 .. 2 : Record(s, n)) \/ Tell(s) \/ Mute(s)
  PROVE  Orderly'
<1> USE DEF storeVars, liveVars, hostVars
<1>1. CASE \E n \in 1 .. 2 : Record(s, n)
  <2>1. UNCHANGED <<arms, slot, states, table, own, purged, source, told>>
    BY <1>1 DEF Record
  <2>2. QED
    BY <2>1, SameTellable, StillOrderly
<1>2. CASE Resolve(s)
  <2>1. UNCHANGED <<arms, slot, states, table, own, purged, told>>
    BY <1>2 DEF Resolve
  <2>2. \A x \in Sources : source'[x].done = source[x].done
    BY <1>2, TypedParts DEF Resolve, SourceRecord, IInv
  <2>3. Tellable' \subseteq Tellable
    BY <2>1, <2>2, FactPair DEF Tellable
  <2>4. QED
    BY <2>1, <2>3, StillOrderly
<1>3. CASE Mute(s)
  <2>1. UNCHANGED <<arms, slot, states, table, own, purged, told>>
    BY <1>3 DEF Mute
  <2>2. /\ source'[s].done = Count(s) /\ source[s].done < Count(s)
        /\ \A x \in Sources : x # s => source'[x] = source[x]
    BY <1>3, TypedParts DEF Mute, SourceRecord, IInv
  <2>3. Count(s) \in Nat /\ \A x \in Sources : source[x].done \in Nat
    BY ProjectorAssumption, TypedParts DEF IInv, Numbered, SourceRecord
  <2>4. \A f \in Fact : f[2] > source'[f[1]].done => f[2] > source[f[1]].done
    <3> SUFFICES ASSUME NEW f \in Fact, f[2] > source'[f[1]].done
                 PROVE  f[2] > source[f[1]].done
      OBVIOUS
    <3>1. f[1] \in Sources /\ f[2] \in Nat
      BY FactPair
    <3>2. CASE f[1] = s
      BY <2>2, <2>3, <3>1, <3>2
    <3>3. CASE f[1] # s
      BY <2>2, <3>1, <3>3
    <3>4. QED
      BY <3>2, <3>3
  <2>5. Tellable' \subseteq Tellable
    BY <2>1, <2>4 DEF Tellable
  <2>6. QED
    BY <2>1, <2>5, StillOrderly
<1>4. QED
  BY <1>1, <1>2, <1>3, DeliverOrderly, DeliverColdOrderly DEF Tell

LEMMA LeaveOrderly ==
  ASSUME IInv, Orderly, NEW i \in Arms, Leave(i)
  PROVE  Orderly'
BY TeardownOrderly DEF Leave, storeVars, hostVars

----------------------------------------------------------------------------
(* The order: the host.                                                    *)

(* The host's looks change nothing but what the host remembers.            *)
LEMMA LookOrderly ==
  ASSUME Orderly,
         ReadHot \/ ReadCold \/ Wake \/ Mark \/ Wait \/ Quiesce \/ Read \/ BeginStop
  PROVE  Orderly'
<1>1. UNCHANGED <<arms, slot, states, table, own, purged, source, told>>
  BY DEF ReadHot, ReadCold, Wake, Mark, Wait, Quiesce, Read, BeginStop, storeVars, liveVars
<1>2. QED
  BY <1>1, SameTellable, StillOrderly

(* Arming with nothing in the mail.                                        *)
LEMMA ColdOrderly ==
  ASSUME IInv, Orderly, slot = 0, Arm(<<>>), UNCHANGED <<own, purged, source, told>>
  PROVE  Orderly'
<1>1. PICK mail : mail = <<>>
  OBVIOUS
<1>2. mail \in Seq(Fact) /\ Len(mail) = 0
  BY <1>1, NoFacts, EmptySeq
<1>3. Len(mail) <= 1 /\ Arm(mail)
  BY <1>1, <1>2
<1>4. QED
  BY <1>2, <1>3, SameTellable, ArmOrderly

LEMMA StartOrderly ==
  ASSUME IInv, Orderly, Start
  PROVE  Orderly'
BY ColdOrderly DEF Start, storeVars, hostVars

LEMMA FactoryOrderly ==
  ASSUME IInv, Orderly, Factory
  PROVE  Orderly'
<1>1. UNCHANGED <<own, purged, source, told>>
  BY DEF Factory, storeVars
<1>2. CASE slot = 0
  BY <1>1, <1>2, ColdOrderly DEF Factory
<1>3. CASE slot # 0
  <2>1. UNCHANGED <<arms, slot, states, table>>
    BY <1>3 DEF Factory, liveVars
  <2>2. QED
    BY <1>1, <2>1, SameTellable, StillOrderly
<1>4. QED
  BY <1>2, <1>3

LEMMA StopOrderly ==
  ASSUME IInv, Orderly, Stop
  PROVE  Orderly'
<1>1. UNCHANGED <<own, purged, source, told>>
  BY DEF Stop, storeVars
<1>2. CASE slot = 0
  <2>1. UNCHANGED <<arms, slot, states, table>>
    BY <1>2 DEF Stop, liveVars
  <2>2. QED
    BY <1>1, <2>1, SameTellable, StillOrderly
<1>3. CASE slot # 0
  <2>1. PICK i \in Arms : i = slot
    BY <1>3, TypedParts DEF IInv
  <2>2. Teardown(i)
    BY <1>3, <2>1 DEF Stop
  <2>3. QED
    BY <1>1, <2>1, <2>2, TeardownOrderly
<1>4. QED
  BY <1>2, <1>3

(* An emptied journal is in order; a state that lives on is no longer it.  *)
LEMMA PurgeOrderly ==
  ASSUME IInv, Orderly, Purge
  PROVE  Orderly'
<1>1. /\ UNCHANGED <<arms, slot, states, table>>
      /\ own' = <<>> /\ purged' = (purged \/ slot # 0)
  BY DEF Purge, liveVars
<1>2. DOMAIN own' = {} /\ DOMAIN Facts(own)' = {}
  BY <1>1 DEF Facts
<1>3. JournalExact'
  BY <1>2 DEF JournalExact, Once, Sorted, Gapless
<1>4. MailOrder'
  BY <1>1 DEF Orderly, MailOrder, Arms
<1>5. StateIsJournal'
  <2>1. CASE slot = 0
    <3>1. 0 \notin Arms' /\ slot' = 0
      BY <1>1, <2>1, Typed DEF IInv, Arms
    <3>2. QED
      BY <3>1 DEF StateIsJournal
  <2>2. CASE slot # 0
    BY <1>1, <2>2 DEF StateIsJournal, Exact
  <2>3. QED
    BY <2>1, <2>2
<1>6. QED
  BY <1>3, <1>4, <1>5 DEF Orderly

----------------------------------------------------------------------------
(* The theorems about the order.                                           *)

LEMMA InitOrderly == Init => Orderly
<1> SUFFICES ASSUME Init PROVE Orderly
  OBVIOUS
<1>1. own = <<>> /\ arms = <<>>
  BY DEF Init
<1>2. DOMAIN own = {} /\ Arms = {} /\ DOMAIN Facts(own) = {}
  BY <1>1 DEF Arms, Facts
<1>3. JournalExact
  BY <1>2 DEF JournalExact, Once, Sorted, Gapless
<1>4. StateIsJournal /\ MailOrder
  BY <1>2 DEF StateIsJournal, MailOrder
<1>5. QED
  BY <1>3, <1>4 DEF Orderly

LEMMA NextOrderly == IInv /\ Orderly /\ [Next]_vars => Orderly'
<1> SUFFICES ASSUME IInv, Orderly, [Next]_vars PROVE Orderly'
  OBVIOUS
<1>1. CASE Next
  <2>1. ASSUME NEW s \in Sources, (\E n \in 1 .. 2 : Record(s, n)) \/ Tell(s) \/ Mute(s)
        PROVE  Orderly'
    BY <2>1, SourceOrderly
  <2>2. ASSUME NEW i \in Arms, CatchUp(i)
        PROVE  Orderly'
    BY <2>2, LoadOwnOrderly, ScanOrderly, SeedOrderly, GoLiveOrderly DEF CatchUp
  <2>3. ASSUME NEW i \in Arms, Step(i)
        PROVE  Orderly'
    BY <2>3, BootOrderly, ClaimOrderly, JournalOrderly, ApplyOrderly DEF Step
  <2>4. ASSUME NEW i \in Arms, JournalFails(i) \/ Close(i) \/ Leave(i)
        PROVE  Orderly'
    BY <2>4, JournalFailsOrderly, CloseOrderly, LeaveOrderly
  <2>5. ASSUME Reads PROVE Orderly'
    BY <2>5, LookOrderly, FactoryOrderly DEF Reads
  <2>6. ASSUME Host PROVE Orderly'
    BY <2>6, LookOrderly, StartOrderly, StopOrderly, PurgeOrderly DEF Host
  <2>7. QED
    BY <1>1, <2>1, <2>2, <2>3, <2>4, <2>5, <2>6 DEF Next
<1>2. CASE UNCHANGED vars
  <2>1. UNCHANGED <<arms, slot, states, table, own, purged, source, told>>
    BY <1>2 DEF vars, storeVars, liveVars, hostVars
  <2>2. QED
    BY <2>1, SameTellable, StillOrderly
<1>3. QED
  BY <1>1, <1>2

(* As long as every entry of the journal is a checkpoint, the state that   *)
(* readers see is the journal, which has each fact once, those of a source *)
(* in its order and without a gap; copies are claimed in that order.       *)
THEOREM ProjectorOrderly == Spec => []Orderly
<1>1. Init => Orderly
  BY InitOrderly
<1>2. IInv /\ Orderly /\ [Next]_vars => Orderly'
  BY NextOrderly
<1>3. QED
  BY <1>1, <1>2, ProjectorInvariant, PTL DEF Spec

(* The state holds facts of the journal, in its order.                     *)
LEMMA StateInJournal ==
  ASSUME IInv, Orderly, table # 0, Exact
  PROVE  /\ states[table] \in Seq(Fact)
         /\ \A j \in DOMAIN states[table] :
              j \in DOMAIN Facts(own) /\ states[table][j] = Facts(own)[j]
<1>1. slot # 0
  BY DEF IInv, Slotted
<1>2. PICK i \in Arms : i = slot
  BY <1>1, TypedParts DEF IInv
<1>3. StateAt(i) /\ arms[i].hand \in Seq(Fact) /\ table \in {1, 2}
  BY <1>2, Typed, TypedParts DEF IInv, Orderly, StateIsJournal
<1>4. PICK state : state = states[table]
  OBVIOUS
<1>5. state \in Seq(Fact)
  BY <1>3, <1>4, TypedParts DEF IInv
<1>6. CASE arms[i].at = "armed"
  <2>1. state = <<>>
    BY <1>3, <1>4, <1>6 DEF StateAt
  <2>2. DOMAIN state = {}
    BY <2>1
  <2>3. QED
    BY <1>4, <1>5, <2>2
<1>7. CASE arms[i].at # "armed"
  <2>1. PICK more : more = InFolding(i)
    OBVIOUS
  <2>2. more \in Seq(Fact)
    BY <1>3, <2>1, NoFacts DEF InFolding
  <2>3. Facts(own) = state \o more
    BY <1>3, <1>4, <1>7, <2>1 DEF StateAt
  <2>4. /\ Len(state) \in Nat /\ Len(more) \in Nat /\ DOMAIN state = 1 .. Len(state)
        /\ DOMAIN (state \o more) = 1 .. Len(state) + Len(more)
        /\ \A j \in 1 .. Len(state) : (state \o more)[j] = state[j]
    BY <1>5, <2>2, ConcatProperties, LenProperties
  <2>5. \A j \in DOMAIN state : j \in DOMAIN (state \o more) /\ state[j] = (state \o more)[j]
    BY <2>4
  <2>6. QED
    BY <1>4, <1>5, <2>3, <2>5
<1>8. QED
  BY <1>6, <1>7

LEMMA FoldsOnce == IInv /\ Orderly => (Checkpointed => FoldedOnce)
<1> SUFFICES ASSUME IInv, Orderly, Checkpointed, table # 0, ~purged,
                    NEW j \in DOMAIN states[table], NEW k \in DOMAIN states[table],
                    states[table][j] = states[table][k]
             PROVE  j = k
  BY DEF FoldedOnce
<1>1. Exact
  BY DEF Exact
<1>2. /\ j \in DOMAIN Facts(own) /\ k \in DOMAIN Facts(own)
      /\ Facts(own)[j] = Facts(own)[k]
  BY <1>1, StateInJournal
<1>3. Once(Facts(own))
  BY <1>1 DEF Orderly, JournalExact
<1>4. QED
  BY <1>2, <1>3 DEF Once

LEMMA FoldsInOrder == IInv /\ Orderly => (Checkpointed => SourceOrder)
<1> SUFFICES ASSUME IInv, Orderly, Checkpointed, table # 0, ~purged,
                    NEW j \in DOMAIN states[table], NEW k \in DOMAIN states[table],
                    j < k, states[table][j][1] = states[table][k][1], states[table][k] \in told
             PROVE  states[table][j][2] < states[table][k][2]
  BY DEF SourceOrder
<1>1. Exact
  BY DEF Exact
<1>2. /\ j \in DOMAIN Facts(own) /\ k \in DOMAIN Facts(own)
      /\ Facts(own)[j] = states[table][j] /\ Facts(own)[k] = states[table][k]
  BY <1>1, StateInJournal
<1>3. states[table][k] \in Tellable
  BY TypedParts DEF Tellable, IInv
<1>4. Sorted(Facts(own), Tellable)
  BY <1>1 DEF Orderly, JournalExact
<1>5. QED
  BY <1>2, <1>3, <1>4 DEF Sorted

(* Whichever way a fact comes, by the catch-up, as a live copy, or by both *)
(* and by both twice, across passivations, restarts and rebuilds, the      *)
(* state holds it once, as long as every entry of the journal is a         *)
(* checkpoint: a step of copies of several facts leaves none.              *)
THEOREM ProjectorFoldsOnce == Spec => [](Checkpointed => FoldedOnce)
BY FoldsOnce, ProjectorInvariant, ProjectorOrderly, PTL

(* The facts of one source fold in its order, whether they came from       *)
(* history or live, as long as every entry of the journal is a checkpoint; *)
(* only one its source never told may be found late.                       *)
THEOREM ProjectorKeepsSourceOrder == Spec => [](Checkpointed => SourceOrder)
BY FoldsInOrder, ProjectorInvariant, ProjectorOrderly, PTL

----------------------------------------------------------------------------
(* A projector that takes one copy at a time.                              *)

LEMMA CheckpointsAppended ==
  ASSUME TypeOK, Checkpointed, NEW new \in Seq(Fact), own' = own \o Checkpoints(new)
  PROVE  Checkpointed'
<1>1. PICK taken : taken = Checkpoints(new)
  OBVIOUS
<1>2. taken \in Seq(Entry) /\ \A k \in DOMAIN taken : taken[k].origin = {taken[k].fact}
  BY <1>1, CheckpointsAre
<1>3. own \in Seq(Entry)
  BY TypedParts
<1>4. PICK journal : journal = own \o taken
  OBVIOUS
<1>5. PICK m, n \in Nat : /\ m = Len(own) /\ n = Len(taken) /\ DOMAIN own = 1 .. m
                          /\ DOMAIN taken = 1 .. n /\ DOMAIN journal = 1 .. m + n
                          /\ \A k \in 1 .. m + n :
                               journal[k] = IF k <= m THEN own[k] ELSE taken[k - m]
  BY <1>2, <1>3, <1>4, ConcatProperties, LenProperties
<1>6. ASSUME NEW k \in 1 .. m + n
      PROVE  journal[k].origin = {journal[k].fact}
  <2>1. CASE k <= m
    <3>1. k \in DOMAIN own /\ journal[k] = own[k]
      BY <1>5, <2>1
    <3>2. QED
      BY <3>1 DEF Checkpointed
  <2>2. CASE ~(k <= m)
    <3>1. PICK j : j = k - m
      OBVIOUS
    <3>2. j \in 1 .. n /\ journal[k] = taken[j]
      BY <1>5, <2>2, <3>1
    <3>3. QED
      BY <1>2, <1>5, <3>2
  <2>3. QED
    BY <2>1, <2>2
<1>7. own' = journal
  BY <1>1, <1>4
<1>8. QED
  BY <1>5, <1>6, <1>7 DEF Checkpointed

(* Three actions write the journal; the step of one copy checkpoints it.   *)
LEMMA NextCheckpointed ==
  ASSUME Batch = 1
  PROVE  IInv /\ Orderly /\ Checkpointed /\ [Next]_vars => Checkpointed'
<1> SUFFICES ASSUME IInv, Orderly, Checkpointed, [Next]_vars PROVE Checkpointed'
  OBVIOUS
<1> USE DEF storeVars
<1>1. TypeOK
  BY DEF IInv
<1>2. CASE own' = own
  BY <1>2 DEF Checkpointed
<1>3. CASE own' = <<>>
  BY <1>3 DEF Checkpointed
<1>4. ASSUME NEW i \in Arms, Seed(i)
      PROVE  Checkpointed'
  <2>1. arms[i].found \in Seq(Fact)
    BY <1>1, Typed DEF ArmRecord
  <2>2. PICK hand : hand = Lacking(arms[i].found)
    OBVIOUS
  <2>3. hand \in Seq(Fact)
    BY <2>1, <2>2, LackingIs
  <2>4. own' = own \o Checkpoints(hand)
    BY <1>4, <2>2 DEF Seed
  <2>5. QED
    BY <1>1, <2>3, <2>4, CheckpointsAppended
<1>5. ASSUME NEW i \in Arms, Journal(i)
      PROVE  Checkpointed'
  <2>1. arms[i].at = "claimed"
    BY <1>5 DEF Journal
  <2>2. PICK copies : copies = arms[i].hand
    OBVIOUS
  <2>3. copies \in Seq(Fact) /\ Len(copies) \in 1 .. Batch
    BY <2>1, <2>2, AtSlot, OrderlyAt DEF InOrder
  <2>4. DOMAIN copies = 1 .. 1
    BY <2>3, LenProperties
  <2>5. OneOrigin(copies)
    BY <2>4 DEF OneOrigin
  <2>6. PICK new : new = Lacking(copies)
    OBVIOUS
  <2>7. new \in Seq(Fact)
    BY <2>3, <2>6, LackingIs
  <2>8. Rerecords(copies) = Checkpoints(new)
    BY <2>5, <2>6 DEF Rerecords
  <2>9. own' = own \o Checkpoints(new)
    BY <1>5, <2>2, <2>8 DEF Journal
  <2>10. QED
    BY <1>1, <2>7, <2>9, CheckpointsAppended
<1>6. ASSUME NEW s \in Sources, (\E n \in 1 .. 2 : Record(s, n)) \/ Tell(s) \/ Mute(s)
      PROVE  own' = own
  BY <1>6 DEF Record, Tell, Resolve, Deliver, DeliverCold, Mute
<1>7. ASSUME NEW i \in Arms, LoadOwn(i) \/ Scan(i) \/ GoLive(i) \/ Boot(i) \/ Claim(i)
                             \/ Apply(i) \/ JournalFails(i) \/ Close(i) \/ Leave(i)
      PROVE  own' = own
  BY <1>7 DEF LoadOwn, Scan, GoLive, Boot, Claim, Apply, JournalFails, Close, Leave
<1>8. ASSUME Reads PROVE own' = own
  BY <1>8 DEF Reads, Wake, Factory, Mark, Wait, Quiesce, Read
<1>9. ASSUME Host PROVE own' = own \/ own' = <<>>
  BY <1>9 DEF Host, Start, ReadHot, ReadCold, BeginStop, Stop, Purge
<1>10. CASE UNCHANGED vars
  BY <1>2, <1>10 DEF vars
<1>11. QED
  BY <1>2, <1>3, <1>4, <1>5, <1>6, <1>7, <1>8, <1>9, <1>10 DEF Next, CatchUp, Step

(* A projector whose batch is one records nothing but checkpoints.         *)
THEOREM ProjectorCheckpoints == ASSUME Batch = 1 PROVE Spec => []Checkpointed
<1>1. Init => Checkpointed
  BY DEF Init, Checkpointed
<1>2. IInv /\ Orderly /\ Checkpointed /\ [Next]_vars => Checkpointed'
  BY NextCheckpointed
<1>3. QED
  BY <1>1, <1>2, ProjectorInvariant, ProjectorOrderly, PTL DEF Spec

(* So with a batch of one a fact is folded once, whichever way and however *)
(* often it comes.                                                         *)
THEOREM OneByOneFoldsOnce == ASSUME Batch = 1 PROVE Spec => []FoldedOnce
BY ProjectorCheckpoints, ProjectorFoldsOnce, PTL

(* And the facts of one source fold in its order.                          *)
THEOREM OneByOneKeepsSourceOrder == ASSUME Batch = 1 PROVE Spec => []SourceOrder
BY ProjectorCheckpoints, ProjectorKeepsSourceOrder, PTL
=============================================================================
