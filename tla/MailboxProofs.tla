---------------------------- MODULE MailboxProofs ----------------------------
(***************************************************************************)
(* Proofs about Inbox and Mailbox, for every number of senders, messages   *)
(* and restarts, and whatever goes wrong.                                  *)
(***************************************************************************)
EXTENDS Mailbox, Integers, WellFoundedInduction, FiniteSetTheorems, SequenceTheorems, TLAPS

----------------------------------------------------------------------------
(* Sets of naturals: the library's theorems on induction take an operator, *)
(* these take a set.                                                       *)

(* The order of the naturals as a relation.                                *)
Below == {p \in Nat \X Nat : p[1] < p[2]}

LEMMA BelowWellFounded == IsWellFoundedOn(Below, Nat)
<1>1. OpToRel(<, Nat) = Below
  BY DEF OpToRel, Below
<1>2. QED
  BY <1>1, NatLessThanWellFounded

(* A set of naturals that is not empty has a least element.                *)
LEMMA LeastNatural ==
  ASSUME NEW S, S \subseteq Nat, S # {}
  PROVE  \E n \in S : \A m \in S : n <= m
<1>1. PICK n \in S : \A m \in S : ~ (<<m, n>> \in Below)
  BY BelowWellFounded, WFMin
<1>2. \A m \in Nat : m < n => <<m, n>> \in Below
  BY DEF Below
<1>3. \A m \in S : ~ (m < n)
  BY <1>1, <1>2
<1>4. \A m \in S : n <= m
  BY <1>3
<1>5. QED
  BY <1>4

(* One that is bounded has a greatest.                                     *)
LEMMA GreatestNatural ==
  ASSUME NEW bound \in Nat, NEW S, S \subseteq 0 .. bound, S # {}
  PROVE  \E n \in S : \A m \in S : m <= n
<1> DEFINE mirror == {k \in Nat : \E m \in S : k = bound - m}
<1>1. mirror # {} /\ mirror \subseteq Nat
  <2>1. PICK m \in S : m \in 0 .. bound
    OBVIOUS
  <2>2. bound - m \in mirror
    BY <2>1
  <2>3. QED
    BY <2>2
<1>2. PICK k \in mirror : \A j \in mirror : k <= j
  BY <1>1, LeastNatural
<1>3. PICK n \in S : k = bound - n
  BY <1>2
<1>4. \A m \in S : bound - m \in mirror
  OBVIOUS
<1>5. \A m \in S : m <= n
  BY <1>2, <1>3, <1>4
<1>6. QED
  BY <1>5

----------------------------------------------------------------------------
(* Sequences, as functions on an interval.                                 *)

(* A sequence is a function on an interval.                                *)
LEMMA SeqIsFunction ==
  ASSUME NEW S, NEW s \in Seq(S)
  PROVE  /\ Len(s) \in Nat /\ DOMAIN s = 1 .. Len(s)
         /\ s \in [1 .. Len(s) -> S]
         /\ \A k \in DOMAIN s : s[k] \in S
<1>1. Len(s) \in Nat /\ DOMAIN s = 1 .. Len(s) /\ s \in [1 .. Len(s) -> S]
  BY LenProperties
<1>2. QED
  BY <1>1

LEMMA FunctionIsSeq ==
  ASSUME NEW S, NEW n \in Nat, NEW s \in [1 .. n -> S]
  PROVE  s \in Seq(S) /\ Len(s) = n /\ DOMAIN s = 1 .. n
<1>1. s \in Seq(S)
  BY SeqDef
<1>2. DOMAIN s = 1 .. n /\ Len(s) \in Nat /\ DOMAIN s = 1 .. Len(s)
  BY <1>1, LenProperties
<1>3. QED
  BY <1>1, <1>2

(* What is appended comes last and nothing before it changes.              *)
LEMMA AppendedIs ==
  ASSUME NEW S, NEW s \in Seq(S), NEW e \in S, NEW t, t = Append(s, e)
  PROVE  /\ t \in Seq(S) /\ Len(t) = Len(s) + 1
         /\ Len(s) \in Nat /\ DOMAIN s = 1 .. Len(s) /\ DOMAIN t = 1 .. Len(s) + 1
         /\ \A k \in DOMAIN s : t[k] = s[k]
         /\ t[Len(s) + 1] = e
<1>1. t \in Seq(S) /\ Len(t) = Len(s) + 1 /\ t[Len(s) + 1] = e
  BY AppendProperties
<1>2. \A k \in 1 .. Len(s) : t[k] = s[k]
  BY AppendProperties
<1>3. Len(s) \in Nat /\ DOMAIN s = 1 .. Len(s) /\ DOMAIN t = 1 .. Len(t)
  BY <1>1, LenProperties
<1>4. QED
  BY <1>1, <1>2, <1>3

LEMMA RangeSmall ==
  ASSUME NEW e
  PROVE  /\ Range(<<>>) = {} /\ IsInjective(<<>>)
         /\ Range(<<e>>) = {e} /\ IsInjective(<<e>>)
BY DEF Range, IsInjective

LEMMA SmallSeqs ==
  ASSUME NEW S
  PROVE  <<>> \in Seq(S) /\ \A e \in S : <<e>> \in Seq(S)
<1>1. <<>> \in [1 .. 0 -> S]
  OBVIOUS
<1>2. \A e \in S : <<e>> \in [1 .. 1 -> S]
  OBVIOUS
<1>3. QED
  BY <1>1, <1>2, SeqDef

LEMMA RangeAppend ==
  ASSUME NEW S, NEW s \in Seq(S), NEW e \in S
  PROVE  /\ Append(s, e) \in Seq(S)
         /\ Range(Append(s, e)) = Range(s) \cup {e}
         /\ IsInjective(s) /\ e \notin Range(s) => IsInjective(Append(s, e))
<1>1. PICK t : t = Append(s, e)
  OBVIOUS
<1>2. /\ t \in Seq(S) /\ Len(s) \in Nat
      /\ DOMAIN s = 1 .. Len(s) /\ DOMAIN t = 1 .. Len(s) + 1
      /\ \A k \in DOMAIN s : t[k] = s[k]
      /\ t[Len(s) + 1] = e
  BY <1>1, AppendedIs
<1>3. DOMAIN t = DOMAIN s \cup {Len(s) + 1}
  BY <1>2
<1>4. Range(t) = Range(s) \cup {e}
  BY <1>2, <1>3 DEF Range
<1>5. IsInjective(s) /\ e \notin Range(s) => IsInjective(t)
  BY <1>2, <1>3 DEF Range, IsInjective
<1>6. QED
  BY <1>1, <1>2, <1>4, <1>5

LEMMA RangeHeadTail ==
  ASSUME NEW S, NEW s \in Seq(S), s # <<>>
  PROVE  /\ Head(s) \in S /\ Tail(s) \in Seq(S)
         /\ Head(s) \in Range(s)
         /\ Range(s) = Range(Tail(s)) \cup {Head(s)}
         /\ IsInjective(s) => IsInjective(Tail(s)) /\ Range(Tail(s)) = Range(s) \ {Head(s)}
<1>1. PICK t : t = Tail(s)
  OBVIOUS
<1>2. PICK h : h = Head(s)
  OBVIOUS
<1>3. /\ h \in S /\ t \in Seq(S)
      /\ Len(s) \in Nat /\ Len(t) = Len(s) - 1
      /\ DOMAIN s = 1 .. Len(s) /\ DOMAIN t = 1 .. Len(t)
      /\ \A k \in DOMAIN t : t[k] = s[k + 1]
      /\ h = s[1] /\ 1 \in DOMAIN s
  BY <1>1, <1>2, HeadTailProperties, LenProperties, EmptySeq
<1>4. \A k \in DOMAIN s : k = 1 \/ (k - 1 \in DOMAIN t /\ s[k] = t[k - 1])
  <2> SUFFICES ASSUME NEW k \in DOMAIN s, k # 1
               PROVE  k - 1 \in DOMAIN t /\ s[k] = t[k - 1]
    OBVIOUS
  <2>1. k - 1 \in DOMAIN t /\ (k - 1) + 1 = k
    BY <1>3
  <2>2. QED
    BY <1>3, <2>1
<1>5. Range(s) = Range(t) \cup {h}
  <2>1. \A k \in DOMAIN t : k + 1 \in DOMAIN s
    BY <1>3
  <2>2. QED
    BY <1>3, <1>4, <2>1 DEF Range
<1>6. ASSUME IsInjective(s)
      PROVE  IsInjective(t) /\ h \notin Range(t)
  <2>1. \A k \in DOMAIN t : k + 1 \in DOMAIN s /\ k + 1 # 1 /\ k \in Int
    BY <1>3
  <2>2. h \notin Range(t)
    BY <1>3, <1>6, <2>1 DEF Range, IsInjective
  <2>3. IsInjective(t)
    <3> SUFFICES ASSUME NEW j \in DOMAIN t, NEW k \in DOMAIN t, t[j] = t[k]
                 PROVE  j = k
      BY DEF IsInjective
    <3>1. s[j + 1] = s[k + 1]
      BY <1>3
    <3>2. j + 1 = k + 1
      BY <1>6, <2>1, <3>1 DEF IsInjective
    <3>3. QED
      BY <2>1, <3>2
  <2>4. QED
    BY <2>2, <2>3
<1>7. Head(s) \in Range(s) /\ Range(s) = Range(Tail(s)) \cup {Head(s)}
  BY <1>1, <1>2, <1>5
<1>8. IsInjective(s) => IsInjective(Tail(s)) /\ Range(Tail(s)) = Range(s) \ {Head(s)}
  BY <1>1, <1>2, <1>5, <1>6
<1>9. QED
  BY <1>1, <1>2, <1>3, <1>7, <1>8

LEMMA RangeConcat ==
  ASSUME NEW S, NEW s \in Seq(S), NEW t \in Seq(S)
  PROVE  /\ s \o t \in Seq(S)
         /\ Range(s \o t) = Range(s) \cup Range(t)
         /\ IsInjective(s) /\ IsInjective(t) /\ Range(s) \cap Range(t) = {}
              => IsInjective(s \o t)
<1>1. PICK u : u = s \o t
  OBVIOUS
<1>2. /\ u \in Seq(S)
      /\ Len(s) \in Nat /\ Len(t) \in Nat
      /\ DOMAIN s = 1 .. Len(s) /\ DOMAIN t = 1 .. Len(t)
      /\ DOMAIN u = 1 .. Len(s) + Len(t)
      /\ \A k \in 1 .. Len(s) + Len(t) :
           u[k] = IF k <= Len(s) THEN s[k] ELSE t[k - Len(s)]
  BY <1>1, ConcatProperties, LenProperties
<1>3. \A k \in DOMAIN u : \/ k \in DOMAIN s /\ u[k] = s[k]
                          \/ k - Len(s) \in DOMAIN t /\ u[k] = t[k - Len(s)]
  BY <1>2
<1>4. /\ \A k \in DOMAIN s : k \in DOMAIN u /\ u[k] = s[k]
      /\ \A k \in DOMAIN t : k + Len(s) \in DOMAIN u /\ u[k + Len(s)] = t[k]
  <2>1. \A k \in DOMAIN t : k + Len(s) \in DOMAIN u /\ (k + Len(s)) - Len(s) = k
                            /\ ~(k + Len(s) <= Len(s))
    BY <1>2
  <2>2. QED
    BY <1>2, <2>1
<1>5. Range(u) = Range(s) \cup Range(t)
  BY <1>3, <1>4 DEF Range
<1>6. ASSUME IsInjective(s), IsInjective(t), Range(s) \cap Range(t) = {}
      PROVE  IsInjective(u)
  <2> SUFFICES ASSUME NEW j \in DOMAIN u, NEW k \in DOMAIN u, u[j] = u[k]
               PROVE  j = k
    BY DEF IsInjective
  <2>1. CASE j \in DOMAIN s /\ u[j] = s[j] /\ k \in DOMAIN s /\ u[k] = s[k]
    BY <1>6, <2>1 DEF IsInjective
  <2>2. CASE /\ j - Len(s) \in DOMAIN t /\ u[j] = t[j - Len(s)]
             /\ k - Len(s) \in DOMAIN t /\ u[k] = t[k - Len(s)]
    <3>1. j - Len(s) = k - Len(s)
      BY <1>6, <2>2 DEF IsInjective
    <3>2. QED
      BY <1>2, <3>1
  <2>3. CASE \/ /\ j \in DOMAIN s /\ u[j] = s[j]
                /\ k - Len(s) \in DOMAIN t /\ u[k] = t[k - Len(s)]
             \/ /\ k \in DOMAIN s /\ u[k] = s[k]
                /\ j - Len(s) \in DOMAIN t /\ u[j] = t[j - Len(s)]
    <3>1. u[j] \in Range(s) /\ u[j] \in Range(t)
      BY <2>3 DEF Range
    <3>2. QED
      BY <1>6, <3>1
  <2>4. QED
    BY <1>3, <2>1, <2>2, <2>3
<1>7. QED
  BY <1>1, <1>2, <1>5, <1>6

----------------------------------------------------------------------------
(* The operators of Inbox.                                                 *)

LEMMA InboxIs ==
  ASSUME NEW box \in InboxType
  PROVE  /\ box.slots \in [Offset -> Envelope \cup {Tombstone, Vacant}]
         /\ box.next \in Nat /\ box.cursor \in Nat /\ box.open \in BOOLEAN
         /\ box.capacity \in Nat \ {0} /\ box.policy \in Policies
BY DEF InboxType

LEMMA EmptyInboxIs ==
  ASSUME NEW capacity \in Nat \ {0}, NEW policy \in Policies
  PROVE  EmptyInbox(capacity, policy) \in InboxType
BY DEF EmptyInbox, InboxType

LEMMA QueueNextIs ==
  ASSUME NEW box \in InboxType, NEW e \in Envelope, NEW new, new = QueueNext(box, e)
  PROVE  /\ new \in InboxType
         /\ new.next = box.next + 1 /\ new.cursor = box.cursor
         /\ new.policy = box.policy
         /\ \A o \in Offset : new.slots[o] = IF o = box.next THEN e ELSE box.slots[o]
<1>1. PICK slots : slots = [box.slots EXCEPT ![box.next] = e]
  OBVIOUS
<1>2. slots \in [Offset -> Envelope \cup {Tombstone, Vacant}]
  BY <1>1, InboxIs
<1>3. \A o \in Offset : slots[o] = IF o = box.next THEN e ELSE box.slots[o]
  BY <1>1, InboxIs
<1>4. new = [[box EXCEPT !.slots = slots] EXCEPT !.next = @ + 1]
  BY <1>1 DEF QueueNext
<1>5. new = [slots |-> slots, next |-> box.next + 1, cursor |-> box.cursor,
             open |-> box.open, capacity |-> box.capacity, policy |-> box.policy]
  BY <1>4 DEF InboxType
<1>6. QED
  BY <1>2, <1>3, <1>5, InboxIs DEF InboxType

LEMMA PopFrontIs ==
  ASSUME NEW box \in InboxType
  PROVE  /\ PopFront(box) \in InboxType
         /\ [PopFront(box) EXCEPT !.cursor = @ + 1] \in InboxType
         /\ [PopFront(box) EXCEPT !.cursor = @ + 1].policy = box.policy
         /\ PopFront(box).policy = box.policy
<1>1. PICK slots : slots = [box.slots EXCEPT ![Front(box)] = Vacant]
  OBVIOUS
<1>2. slots \in [Offset -> Envelope \cup {Tombstone, Vacant}]
  BY <1>1, InboxIs
<1>3. PICK popped : popped = PopFront(box)
  OBVIOUS
<1>4. popped = [slots |-> slots, next |-> box.next, cursor |-> box.cursor,
                open |-> box.open, capacity |-> box.capacity, policy |-> box.policy]
  BY <1>1, <1>3 DEF PopFront, InboxType
<1>5. popped \in InboxType /\ popped.policy = box.policy /\ popped.cursor \in Nat
  BY <1>2, <1>4, InboxIs DEF InboxType
<1>6. [popped EXCEPT !.cursor = @ + 1] \in InboxType
  BY <1>5 DEF InboxType
<1>7. [popped EXCEPT !.cursor = @ + 1].policy = box.policy
  BY <1>5 DEF InboxType
<1>8. QED
  BY <1>3, <1>5, <1>6, <1>7

(* Only DropOld evicts, and a push that is refused changes nothing.        *)
LEMMA PushIs ==
  ASSUME NEW box \in InboxType, NEW e \in Envelope
  PROVE  /\ PushAnswer(box) \in {"Queued", "Closed", "Full", "Evicted", "EvictPanic"}
         /\ Push(box, e) \in InboxType /\ Push(box, e).policy = box.policy
         /\ PushAnswer(box) = "Queued" => Push(box, e) = QueueNext(box, e)
         /\ PushAnswer(box) \in {"Full", "Closed"} => Push(box, e) = box
         /\ box.policy # "DropOld" => PushAnswer(box) \notin {"Evicted", "EvictPanic"}
<1>1. box.open \in BOOLEAN
  BY InboxIs
<1>2. PICK full \in BOOLEAN : full <=> IsFull(box)
  BY DEF IsFull
<1>3. /\ ~box.open => PushAnswer(box) = "Closed"
      /\ box.open /\ ~full => PushAnswer(box) = "Queued"
      /\ box.open /\ full /\ box.policy # "DropOld" => PushAnswer(box) = "Full"
      /\ box.open /\ full /\ box.policy = "DropOld" =>
           PushAnswer(box) \in {"Evicted", "EvictPanic"}
  BY <1>1, <1>2 DEF PushAnswer
<1>4. PICK answer : answer = PushAnswer(box)
  OBVIOUS
<1>5. /\ answer \in {"Queued", "Closed", "Full", "Evicted", "EvictPanic"}
      /\ box.policy # "DropOld" => answer \notin {"Evicted", "EvictPanic"}
  BY <1>1, <1>3, <1>4
<1> DEFINE queued == QueueNext(box, e)
           traded == QueueNext([PopFront(box) EXCEPT !.cursor = @ + 1], e)
           popped == PopFront(box)
<1>6. /\ answer = "Queued" => Push(box, e) = queued
      /\ answer = "Evicted" => Push(box, e) = traded
      /\ answer = "EvictPanic" => Push(box, e) = popped
      /\ answer \in {"Full", "Closed"} => Push(box, e) = box
  <2>1. Push(box, e) = CASE answer = "Queued"     -> queued
                         [] answer = "Evicted"    -> traded
                         [] answer = "EvictPanic" -> popped
                         [] OTHER                 -> box
    BY <1>4 DEF Push
  <2> HIDE DEF queued, traded, popped
  <2>2. QED
    BY <2>1
<1>7. Push(box, e) \in InboxType /\ Push(box, e).policy = box.policy
  <2>1. CASE answer = "Queued"
    BY <1>6, <2>1, QueueNextIs
  <2>2. CASE answer = "Evicted"
    <3>1. PICK rest : rest = [PopFront(box) EXCEPT !.cursor = @ + 1]
      OBVIOUS
    <3>2. rest \in InboxType /\ rest.policy = box.policy
      BY <3>1, PopFrontIs
    <3>3. PICK new : new = QueueNext(rest, e)
      OBVIOUS
    <3>4. new \in InboxType /\ new.policy = box.policy
      BY <3>2, <3>3, QueueNextIs
    <3>5. Push(box, e) = new
      BY <1>6, <2>2, <3>1, <3>3
    <3>6. QED
      BY <3>4, <3>5
  <2>3. CASE answer = "EvictPanic"
    BY <1>6, <2>3, PopFrontIs
  <2>4. CASE answer \in {"Full", "Closed"}
    BY <1>6, <2>4
  <2>5. QED
    BY <1>5, <2>1, <2>2, <2>3, <2>4
<1>8. QED
  BY <1>4, <1>5, <1>6, <1>7

(* The operators that give every slot a content of its own.                *)
LEMMA SlotsIs ==
  ASSUME NEW box \in InboxType,
         NEW slots \in [Offset -> Envelope \cup {Tombstone, Vacant}],
         NEW new, new = [box EXCEPT !.slots = slots]
  PROVE  /\ new \in InboxType /\ new.slots = slots
         /\ new.next = box.next /\ new.cursor = box.cursor /\ new.policy = box.policy
BY DEF InboxType

LEMMA TakeIs ==
  ASSUME NEW box \in InboxType, NEW offsets, NEW new, new = Take(box, offsets)
  PROVE  /\ new \in InboxType
         /\ new.next = box.next /\ new.cursor = box.cursor /\ new.policy = box.policy
         /\ \A o \in Offset : new.slots[o] = IF o \in offsets THEN Tombstone ELSE box.slots[o]
<1>1. PICK slots : slots = [o \in Offset |-> IF o \in offsets THEN Tombstone ELSE box.slots[o]]
  OBVIOUS
<1>2. slots \in [Offset -> Envelope \cup {Tombstone, Vacant}]
  BY <1>1, InboxIs
<1>3. new = [box EXCEPT !.slots = slots]
  BY <1>1 DEF Take
<1>4. QED
  BY <1>1, <1>2, <1>3, SlotsIs

LEMMA RestoreIs ==
  ASSUME NEW box \in InboxType, NEW mine \in [Offset -> Envelope \cup {Vacant}],
         NEW new, new = Restore(box, mine)
  PROVE  /\ new \in InboxType
         /\ new.next = box.next /\ new.cursor = box.cursor /\ new.policy = box.policy
         /\ \A o \in Offset : new.slots[o] = IF mine[o] # Vacant THEN mine[o] ELSE box.slots[o]
<1>1. PICK slots : slots = [o \in Offset |-> IF mine[o] # Vacant THEN mine[o] ELSE box.slots[o]]
  OBVIOUS
<1>2. slots \in [Offset -> Envelope \cup {Tombstone, Vacant}]
  BY <1>1, InboxIs
<1>3. new = [box EXCEPT !.slots = slots]
  BY <1>1 DEF Restore
<1>4. QED
  BY <1>1, <1>2, <1>3, SlotsIs

LEMMA CommitThroughIs ==
  ASSUME NEW box \in InboxType, NEW offset \in Nat, NEW new, new = CommitThrough(box, offset)
  PROVE  /\ new \in InboxType
         /\ new.next = box.next /\ new.cursor = offset + 1 /\ new.policy = box.policy
         /\ \A o \in Offset : new.slots[o] = IF o <= offset THEN Vacant ELSE box.slots[o]
<1>1. PICK slots : slots = [o \in Offset |-> IF o <= offset THEN Vacant ELSE box.slots[o]]
  OBVIOUS
<1>2. slots \in [Offset -> Envelope \cup {Tombstone, Vacant}]
  BY <1>1, InboxIs
<1>3. PICK mid : mid = [box EXCEPT !.slots = slots]
  OBVIOUS
<1>4. /\ mid \in InboxType /\ mid.slots = slots
      /\ mid.next = box.next /\ mid.policy = box.policy
  BY <1>2, <1>3, SlotsIs
<1>5. new = [mid EXCEPT !.cursor = offset + 1]
  BY <1>1, <1>3 DEF CommitThrough
<1>6. /\ new \in InboxType /\ new.slots = slots
      /\ new.next = box.next /\ new.cursor = offset + 1 /\ new.policy = box.policy
  BY <1>4, <1>5 DEF InboxType
<1>7. QED
  BY <1>1, <1>6

(* Whether the inbox is open matters to none of the invariants.            *)
LEMMA OpenIs ==
  ASSUME NEW box \in InboxType, NEW new, NEW open \in BOOLEAN,
         new = [box EXCEPT !.open = open]
  PROVE  /\ new \in InboxType /\ new.slots = box.slots
         /\ new.next = box.next /\ new.cursor = box.cursor /\ new.policy = box.policy
BY DEF InboxType

LEMMA DrainLiveIs ==
  ASSUME NEW box \in InboxType, NEW new, new = DrainLive(Close(box))
  PROVE  /\ new \in InboxType
         /\ new.next = box.next /\ new.cursor = box.cursor /\ new.policy = box.policy
         /\ \A o \in Offset :
              new.slots[o] = IF box.slots[o] \in Envelope THEN Vacant ELSE box.slots[o]
<1>1. PICK closed : closed = Close(box)
  OBVIOUS
<1>2. /\ closed \in InboxType /\ closed.slots = box.slots
      /\ closed.next = box.next /\ closed.cursor = box.cursor /\ closed.policy = box.policy
  BY <1>1, OpenIs DEF Close
<1>3. PICK slots :
        slots = [o \in Offset |-> IF closed.slots[o] \in Envelope THEN Vacant ELSE closed.slots[o]]
  OBVIOUS
<1>4. slots \in [Offset -> Envelope \cup {Tombstone, Vacant}]
  BY <1>2, <1>3, InboxIs
<1>5. new = [closed EXCEPT !.slots = slots]
  BY <1>1, <1>3 DEF DrainLive
<1>6. QED
  BY <1>2, <1>3, <1>4, <1>5, SlotsIs

LEMMA ReopenedIs ==
  ASSUME NEW box \in InboxType, NEW new,
         new \in {Close(box), Reopen(box), Reopen(Close(box))}
  PROVE  /\ new \in InboxType /\ new.slots = box.slots
         /\ new.next = box.next /\ new.cursor = box.cursor /\ new.policy = box.policy
<1>1. PICK closed : closed = Close(box)
  OBVIOUS
<1>2. /\ closed \in InboxType /\ closed.slots = box.slots
      /\ closed.next = box.next /\ closed.cursor = box.cursor /\ closed.policy = box.policy
  BY <1>1, OpenIs DEF Close
<1>3. CASE new = closed
  BY <1>2, <1>3
<1>4. CASE new = Reopen(box)
  BY <1>4, OpenIs DEF Reopen
<1>5. CASE new = Reopen(closed)
  BY <1>2, <1>5, OpenIs DEF Reopen
<1>6. QED
  BY <1>1, <1>3, <1>4, <1>5

----------------------------------------------------------------------------
(* The inductive invariant of every mailbox: a sender under way has a      *)
(* message; a loop that holds claims is at one of few places, and holds    *)
(* those of one stretch of offsets.                                        *)

WayInv == \A s \in Senders : idx[s] >= 1 /\ (at[s] # "send" => idx[s] <= Len(Program[s]))

Claiming == {"claimed", "dispatch", "unwind", "restore", "flush", "panicked"}

LoopInv ==
  \A i \in Incarnation :
    /\ i > current => loop[i] = "absent"
    /\ loop[i] \notin Claiming => Held(i) = {}
    /\ loop[i] = "claimed" => Held(i) # {}

SpanInv ==
  \A i \in Incarnation : \A o, q \in Held(i) : \A p \in o .. q : p \in Held(i)

KindInv == TypeOK /\ WayInv /\ LoopInv /\ SpanInv

LEMMA ConstantsAre ==
  /\ MaxOffset \in Nat /\ MaxIncarnation \in Nat /\ MaxIncarnation >= 1
  /\ Tombstone \notin Envelope /\ Vacant \notin Envelope /\ Tombstone # Vacant
  /\ \A s \in Senders : /\ Program[s] \in Seq(Envelope) /\ Len(Program[s]) \in Nat
                        /\ DOMAIN Program[s] = 1 .. Len(Program[s])
                        /\ \A k \in DOMAIN Program[s] : Program[s][k] \in Envelope
<1>1. \A s \in Senders : Program[s] \in Seq(Envelope)
  BY MailboxAssumption
<1>2. QED
  BY <1>1, InboxAssumption, MailboxAssumption, SeqIsFunction

LEMMA MessageIs ==
  ASSUME KindInv, NEW s \in Senders, at[s] # "send" \/ Sending(s)
  PROVE  /\ idx[s] \in DOMAIN Program[s] /\ idx[s] <= Len(Program[s])
         /\ Message(s) = Program[s][idx[s]] /\ Message(s) \in Envelope
<1>1. idx[s] \in Nat /\ idx[s] >= 1 /\ idx[s] <= Len(Program[s])
  BY DEF KindInv, TypeOK, WayInv, Sending
<1>2. QED
  BY <1>1, ConstantsAre DEF Message

LEMMA CellIs ==
  ASSUME TypeOK
  PROVE  /\ Tier \in {"EventSourced", "Service"} /\ Policy \in Policies
         /\ Batch \in Nat /\ Batch >= 1 /\ cell.capacity \in Nat \ {0}
<1>1. cell \in Spawn
  BY MailboxAssumption DEF TypeOK
<1>2. QED
  BY <1>1 DEF Spawn, Tier, Policy, Batch

LEMMA NotifyWorkIs ==
  ASSUME TypeOK, NotifyWork
  PROVE  /\ work' \in BOOLEAN /\ loop' \in [Incarnation -> LoopStates]
         /\ \A i \in Incarnation :
              loop'[i] = loop[i] \/ (loop[i] = "idle" /\ loop'[i] = "step")
<1>1. CASE UNCHANGED loop /\ work' = TRUE
  BY <1>1 DEF TypeOK
<1>2. ASSUME NEW i \in Incarnation, loop[i] = "idle", loop' = [loop EXCEPT ![i] = "step"],
             UNCHANGED work
      PROVE  /\ work' \in BOOLEAN /\ loop' \in [Incarnation -> LoopStates]
             /\ \A j \in Incarnation :
                  loop'[j] = loop[j] \/ (loop[j] = "idle" /\ loop'[j] = "step")
  BY <1>2 DEF TypeOK, LoopStates
<1>3. QED
  BY <1>1, <1>2 DEF NotifyWork

LEMMA NotifySpaceIs ==
  ASSUME TypeOK, NotifySpace
  PROVE  space' \in BOOLEAN /\ door' \in [Incarnation -> DoorStates]
<1>1. CASE UNCHANGED door /\ space' = TRUE
  BY <1>1 DEF TypeOK
<1>2. ASSUME NEW d \in Incarnation, door' = [door EXCEPT ![d] = "ready"], UNCHANGED space
      PROVE  space' \in BOOLEAN /\ door' \in [Incarnation -> DoorStates]
  BY <1>2 DEF TypeOK, DoorStates
<1>3. QED
  BY <1>1, <1>2 DEF NotifySpace, Parked

LEMMA DeadLetterIs ==
  ASSUME TypeOK, NEW es, DeadLetter(es)
  PROVE  /\ dead' \in [Envelope -> Nat]
         /\ \A e \in Envelope : dead'[e] = IF e \in es THEN dead[e] + 1 ELSE dead[e]
BY DEF DeadLetter, TypeOK

(* No loop moves, but one that a wake has found parked.                    *)
LEMMA LoopRests ==
  ASSUME LoopInv, UNCHANGED <<current, claims>>,
         \A i \in Incarnation : loop'[i] = loop[i] \/ (loop[i] = "idle" /\ loop'[i] = "step")
  PROVE  LoopInv'
<1> SUFFICES ASSUME NEW i \in Incarnation
             PROVE  /\ i > current' => loop'[i] = "absent"
                    /\ loop'[i] \notin Claiming => Held(i)' = {}
                    /\ loop'[i] = "claimed" => Held(i)' # {}
  BY DEF LoopInv
<1>1. Held(i)' = Held(i)
  BY DEF Held
<1>2. "step" \notin Claiming /\ "idle" \notin Claiming
  BY DEF Claiming
<1>3. QED
  BY <1>1, <1>2 DEF LoopInv

LEMMA SpanRests == SpanInv /\ UNCHANGED claims => SpanInv'
BY DEF SpanInv, Held

(* One loop moves, its claims as they are.                                 *)
LEMMA LoopMoves ==
  ASSUME TypeOK, LoopInv, UNCHANGED <<current, claims>>, NEW i \in Incarnation, NEW state,
         loop' = [loop EXCEPT ![i] = state],
         loop[i] # "absent",
         state \notin Claiming => Held(i) = {},
         state = "claimed" => Held(i) # {}
  PROVE  LoopInv'
<1>1. \A j \in Incarnation : Held(j)' = Held(j)
  BY DEF Held
<1>2. loop'[i] = state /\ \A j \in Incarnation \ {i} : loop'[j] = loop[j]
  BY DEF TypeOK
<1>3. QED
  BY <1>1, <1>2 DEF LoopInv

LEMMA KindInit == Init => KindInv
<1> SUFFICES ASSUME Init
             PROVE  KindInv
  OBVIOUS
<1>1. cell.capacity \in Nat \ {0} /\ cell.policy \in Policies
  <2>1. cell \in Spawn
    BY MailboxAssumption DEF Init
  <2>2. QED
    BY <2>1 DEF Spawn
<1>2. inbox \in InboxType
  BY <1>1, EmptyInboxIs DEF Init
<1>3. 1 \in Incarnation
  BY ConstantsAre DEF Incarnation
<1>4. <<>> \in Seq(Envelope)
  BY SmallSeqs
<1>5. NoClaims \in [Offset -> Envelope \cup {Vacant}]
  BY DEF NoClaims
<1>6. TypeOK
  BY <1>2, <1>3, <1>4, <1>5 DEF Init, TypeOK, DoorStates, LoopStates
<1>7. WayInv
  BY DEF Init, WayInv
<1>8. \A i \in Incarnation : Held(i) = {}
  BY DEF Init, Held, NoClaims
<1>9. LoopInv
  <2>1. \A i \in Incarnation : i > 1 => loop[i] = "absent"
    BY DEF Init
  <2>2. \A i \in Incarnation : loop[i] # "claimed"
    BY DEF Init
  <2>3. QED
    BY <1>8, <2>1, <2>2 DEF Init, LoopInv
<1>10. SpanInv
  BY <1>8 DEF SpanInv
<1>11. QED
  BY <1>6, <1>7, <1>9, <1>10 DEF KindInv

LEMMA KindSenders ==
  ASSUME KindInv, NEW s \in Senders, SenderStep(s)
  PROVE  KindInv'
<1> USE DEF KindInv
<1>0. SpanInv'
  BY SpanRests DEF SenderStep, Resolve, DirectPush, NotifyAfterPush, DeliverToDoor, loopVars
<1>1. CASE Resolve(s)
  <2>1. /\ Message(s) \in Envelope /\ at[s] = "send" /\ Sending(s)
        /\ UNCHANGED <<cell, inbox, work, space, doorVars, loopVars, lifeVars, consumed>>
    BY <1>1, MessageIs DEF Resolve
  <2>2. CASE slot = "gone"
    <3>1. /\ DeadLetter({Message(s)}) /\ idx' = [idx EXCEPT ![s] = @ + 1]
          /\ UNCHANGED <<at, target>>
      BY <1>1, <2>2 DEF Resolve
    <3>2. TypeOK'
      BY <2>1, <3>1, DeadLetterIs, SMTT(30) DEF TypeOK, doorVars, loopVars, lifeVars
    <3>3. WayInv'
      BY <2>1, <3>1 DEF WayInv, TypeOK
    <3>4. LoopInv'
      BY <2>1, LoopRests DEF loopVars, lifeVars
    <3>5. QED
      BY <1>0, <3>2, <3>3, <3>4
  <2>3. CASE slot # "gone"
    <3>1. /\ at' = [at EXCEPT ![s] = "resolved"] /\ target' = [target EXCEPT ![s] = current]
          /\ UNCHANGED <<idx, dead>>
      BY <1>1, <2>3 DEF Resolve
    <3>2. TypeOK'
      BY <2>1, <3>1 DEF TypeOK, doorVars, loopVars, lifeVars
    <3>3. WayInv'
      BY <2>1, <3>1, MessageIs DEF WayInv, TypeOK
    <3>4. LoopInv'
      BY <2>1, LoopRests DEF loopVars, lifeVars
    <3>5. QED
      BY <1>0, <3>2, <3>3, <3>4
  <2>4. QED
    BY <2>2, <2>3
<1>2. CASE DirectPush(s)
  <2>1. /\ at[s] = "resolved" /\ Message(s) \in Envelope
        /\ inbox' = Push(inbox, Message(s))
        /\ UNCHANGED <<cell, work, space, doorVars, loopVars, lifeVars, idx, target, consumed>>
    BY <1>2, MessageIs DEF DirectPush
  <2>2. inbox \in InboxType /\ inbox' \in InboxType
    BY <2>1, PushIs DEF TypeOK
  <2>3. PICK answer : answer = PushAnswer(inbox)
    OBVIOUS
  <2>4. answer \in {"Queued", "Closed", "Full", "Evicted", "EvictPanic"}
    BY <2>1, <2>2, <2>3, PushIs
  <2>5. PICK state : state \in {"pushed", "refused", "panicked"} /\ at' = [at EXCEPT ![s] = state]
    <3>1. at' = [at EXCEPT ![s] = CASE answer \in {"Queued", "Evicted"} -> "pushed"
                                    [] answer \in {"Full", "Closed"}    -> "refused"
                                    [] answer = "EvictPanic"            -> "panicked"]
      BY <1>2, <2>3 DEF DirectPush
    <3>2. QED
      BY <2>4, <3>1
  <2>6. dead' \in [Envelope -> Nat]
    <3>1. CASE answer = "Evicted"
      BY <1>2, <2>3, <3>1, DeadLetterIs DEF DirectPush
    <3>2. CASE answer # "Evicted"
      BY <1>2, <2>3, <3>2 DEF DirectPush, TypeOK
    <3>3. QED
      BY <3>1, <3>2
  <2>7. TypeOK'
    BY <2>1, <2>2, <2>5, <2>6 DEF TypeOK, doorVars, loopVars, lifeVars
  <2>8. WayInv'
    BY <2>1, <2>5 DEF WayInv, TypeOK
  <2>9. LoopInv'
    BY <2>1, LoopRests DEF loopVars, lifeVars
  <2>10. QED
    BY <1>0, <2>7, <2>8, <2>9
<1>3. CASE NotifyAfterPush(s)
  <2>1. /\ at[s] = "pushed" /\ NotifyWork /\ at' = [at EXCEPT ![s] = "send"]
        /\ idx' = [idx EXCEPT ![s] = @ + 1]
        /\ UNCHANGED <<cell, inbox, space, doorVars, claims, after, passivating, lifeVars,
                       target, consumed, dead>>
    BY <1>3 DEF NotifyAfterPush
  <2>2. TypeOK'
    BY <2>1, NotifyWorkIs, SMTT(30) DEF TypeOK, doorVars, lifeVars
  <2>3. WayInv'
    BY <2>1 DEF WayInv, TypeOK
  <2>4. LoopInv'
    BY <2>1, NotifyWorkIs, LoopRests DEF lifeVars
  <2>5. QED
    BY <1>0, <2>2, <2>3, <2>4
<1>4. CASE DeliverToDoor(s)
  <2>1. /\ at[s] = "refused" /\ Message(s) \in Envelope
        /\ chan' = [chan EXCEPT ![target[s]] = Append(@, Message(s))]
        /\ at' = [at EXCEPT ![s] = "send"] /\ idx' = [idx EXCEPT ![s] = @ + 1]
        /\ UNCHANGED <<cell, inbox, work, space, held, parks, door, loopVars,
                       lifeVars, target, consumed, dead>>
    BY <1>4, MessageIs DEF DeliverToDoor
  <2>2. chan' \in [Incarnation -> Seq(Envelope)]
    <3>1. target[s] \in Incarnation /\ chan[target[s]] \in Seq(Envelope)
      BY DEF TypeOK
    <3>2. PICK longer : longer = Append(chan[target[s]], Message(s))
      OBVIOUS
    <3>3. longer \in Seq(Envelope)
      BY <2>1, <3>1, <3>2, AppendProperties
    <3>4. QED
      BY <2>1, <3>1, <3>2, <3>3 DEF TypeOK
  <2>3. TypeOK'
    BY <2>1, <2>2 DEF TypeOK, loopVars, lifeVars
  <2>4. WayInv'
    BY <2>1 DEF WayInv, TypeOK
  <2>5. LoopInv'
    BY <2>1, LoopRests DEF loopVars, lifeVars
  <2>6. QED
    BY <1>0, <2>3, <2>4, <2>5
<1>5. QED
  BY <1>1, <1>2, <1>3, <1>4 DEF SenderStep

LEMMA KindDoors ==
  ASSUME KindInv, NEW d \in Incarnation, DoorStep(d)
  PROVE  KindInv'
<1> USE DEF KindInv
<1>0. ASSUME UNCHANGED <<loopVars, lifeVars, senderVars>>, TypeOK'
      PROVE  KindInv'
  <2>1. WayInv'
    BY <1>0 DEF WayInv, senderVars
  <2>2. LoopInv'
    BY <1>0, LoopRests DEF loopVars, lifeVars
  <2>3. SpanInv'
    BY <1>0, SpanRests DEF loopVars
  <2>4. QED
    BY <1>0, <2>1, <2>2, <2>3
<1>1. ASSUME held[d] # Vacant
      PROVE  /\ held[d] \in Envelope /\ inbox \in InboxType
             /\ Push(inbox, held[d]) \in InboxType
  <2>1. held[d] \in Envelope /\ inbox \in InboxType
    BY <1>1 DEF TypeOK
  <2>2. QED
    BY <2>1, PushIs
<1>2. CASE DoorReceive(d)
  <2>1. /\ chan[d] # <<>> /\ held' = [held EXCEPT ![d] = Head(chan[d])]
        /\ chan' = [chan EXCEPT ![d] = Tail(@)] /\ parks' = [parks EXCEPT ![d] = 0]
        /\ UNCHANGED <<cell, inbox, work, space, door, loopVars, lifeVars,
                       senderVars, consumed, dead>>
    BY <1>2 DEF DoorReceive
  <2>2. chan[d] \in Seq(Envelope)
    BY DEF TypeOK
  <2>3. PICK h, t : h = Head(chan[d]) /\ t = Tail(chan[d])
    OBVIOUS
  <2>4. h \in Envelope /\ t \in Seq(Envelope)
    BY <2>1, <2>2, <2>3, RangeHeadTail
  <2>5. TypeOK'
    BY <2>1, <2>3, <2>4 DEF TypeOK, loopVars, lifeVars, senderVars
  <2>6. QED
    BY <1>0, <2>1, <2>5
<1>3. CASE DoorPush(d)
  <2>1. TypeOK'
    BY <1>1, <1>3 DEF DoorPush, SetDoor, TypeOK, DoorStates, loopVars, lifeVars, senderVars
  <2>2. QED
    BY <1>0, <1>3, <2>1 DEF DoorPush
<1>4. CASE DoorNotify(d)
  <2>1. /\ NotifyWork /\ door' = [door EXCEPT ![d] = "ready"]
        /\ UNCHANGED <<cell, inbox, space, chan, held, parks, claims, after,
                       passivating, lifeVars, senderVars, consumed, dead>>
    BY <1>4 DEF DoorNotify, SetDoor
  <2>2. TypeOK'
    BY <2>1, NotifyWorkIs DEF TypeOK, DoorStates, lifeVars, senderVars
  <2>3. WayInv'
    BY <2>1 DEF WayInv, senderVars
  <2>4. LoopInv'
    BY <2>1, NotifyWorkIs, LoopRests DEF lifeVars
  <2>5. SpanInv'
    BY <2>1, SpanRests
  <2>6. QED
    BY <2>2, <2>3, <2>4, <2>5
<1>5. CASE DoorHold(d)
  <2>1. TypeOK'
    BY <1>5 DEF DoorHold, SetDoor, TypeOK, DoorStates, loopVars, lifeVars, senderVars
  <2>2. QED
    BY <1>0, <1>5, <2>1 DEF DoorHold
<1>6. CASE DoorPark(d)
  <2>1. TypeOK'
    BY <1>6 DEF DoorPark, SetDoor, TypeOK, DoorStates, loopVars, lifeVars, senderVars
  <2>2. QED
    BY <1>0, <1>6, <2>1 DEF DoorPark
<1>7. CASE DoorRefuse(d)
  <2>1. dead' \in [Envelope -> Nat]
    BY <1>7, DeadLetterIs DEF DoorRefuse
  <2>2. TypeOK'
    BY <1>1, <1>7, <2>1 DEF DoorRefuse, TypeOK, loopVars, lifeVars, senderVars
  <2>3. QED
    BY <1>0, <1>7, <2>2 DEF DoorRefuse
<1>8. CASE DoorPanic(d)
  <2>1. TypeOK'
    BY <1>1, <1>8 DEF DoorPanic, SetDoor, TypeOK, DoorStates, loopVars, lifeVars, senderVars
  <2>2. QED
    BY <1>0, <1>8, <2>1 DEF DoorPanic
<1>9. QED
  BY <1>2, <1>3, <1>4, <1>5, <1>6, <1>7, <1>8 DEF DoorStep

(* A stretch of offsets from its first to its last.                        *)
LEMMA SpanIs ==
  ASSUME NEW set, set \subseteq Offset, set # {},
         \A o, q \in set : \A p \in o .. q : p \in set
  PROVE  /\ Min(set) \in set /\ Max(set) \in set
         /\ Min(set) \in Nat /\ Max(set) \in Nat /\ Min(set) <= Max(set)
         /\ set = Min(set) .. Max(set)
         /\ Cardinality(set) = Max(set) - Min(set) + 1
<1>1. PICK lo \in set : \A q \in set : lo <= q
  <2>1. set \subseteq Nat
    BY DEF Offset
  <2>2. QED
    BY <2>1, LeastNatural
<1>2. PICK hi \in set : \A q \in set : q <= hi
  BY ConstantsAre, GreatestNatural DEF Offset
<1>3. lo \in Nat /\ hi \in Nat /\ lo <= hi /\ \A q \in set : q \in Nat
  BY <1>1 DEF Offset
<1>4. Min(set) = lo
  <2>1. Min(set) = CHOOSE o \in set : \A q \in set : o <= q
    BY DEF Min
  <2>2. Min(set) \in set /\ \A q \in set : Min(set) <= q
    BY <1>1, <2>1
  <2>3. PICK m : m = Min(set)
    OBVIOUS
  <2>4. m \in set /\ m <= lo /\ lo <= m /\ m \in Nat /\ lo \in Nat
    BY <1>1, <1>3, <2>2, <2>3
  <2>5. m = lo
    BY <2>4
  <2>6. QED
    BY <2>3, <2>5
<1>5. Max(set) = hi
  <2>1. \A q \in set : hi >= q
    BY <1>2, <1>3
  <2>2. Max(set) = CHOOSE o \in set : \A q \in set : o >= q
    BY DEF Max
  <2>3. Max(set) \in set /\ \A q \in set : Max(set) >= q
    BY <1>2, <2>1, <2>2
  <2>4. PICK m : m = Max(set)
    OBVIOUS
  <2>5. m \in set /\ m >= hi /\ m <= hi /\ m \in Nat /\ hi \in Nat
    BY <1>2, <1>3, <2>3, <2>4
  <2>6. m = hi
    BY <2>5
  <2>7. QED
    BY <2>4, <2>6
<1>6. set = lo .. hi
  <2>1. \A p \in lo .. hi : p \in set
    BY <1>1, <1>2
  <2>2. \A q \in set : q \in lo .. hi
    BY <1>1, <1>2, <1>3
  <2>3. QED
    BY <2>1, <2>2
<1>7. Cardinality(lo .. hi) = hi - lo + 1
  BY <1>3, FS_Interval
<1>8. QED
  BY <1>1, <1>2, <1>3, <1>4, <1>5, <1>6, <1>7

LEMMA HeldIs ==
  ASSUME KindInv, NEW i \in Incarnation
  PROVE  /\ Held(i) \subseteq Offset
         /\ \A o \in Held(i) : claims[i][o] \in Envelope
         /\ \A o \in Offset : o \notin Held(i) => claims[i][o] = Vacant
         /\ \A o, q \in Held(i) : \A p \in o .. q : p \in Held(i)
         /\ claims[i] \in [Offset -> Envelope \cup {Vacant}]
<1>1. claims[i] \in [Offset -> Envelope \cup {Vacant}]
  BY DEF KindInv, TypeOK
<1>2. QED
  BY <1>1 DEF Held, KindInv, SpanInv

(* What a claim takes: a stretch from the cursor, of envelopes.            *)
LEMMA RunIs ==
  ASSUME TypeOK, NEW run, run = ClaimRun(inbox, Batch), ~ClaimPanics(inbox, Batch),
         NEW taken, taken = Contents(inbox, run)
  PROVE  /\ run \subseteq Offset
         /\ \A o \in run : inbox.slots[o] \in Envelope /\ inbox.cursor <= o
         /\ \A o \in run : \A p \in inbox.cursor .. o : p \in run
         /\ taken \in [Offset -> Envelope \cup {Vacant}]
         /\ \A o \in run : taken[o] = inbox.slots[o]
         /\ \A o \in Offset \ run : taken[o] = Vacant
<1>1. inbox.slots \in [Offset -> Envelope \cup {Tombstone, Vacant}] /\ inbox.cursor \in Nat
  BY InboxIs DEF TypeOK
<1>2. /\ run \subseteq Offset
      /\ \A o \in run : /\ inbox.cursor <= o /\ o < inbox.cursor + Batch
                        /\ \A p \in Offset : inbox.cursor <= p /\ p <= o =>
                             inbox.slots[p] # Vacant
  BY DEF ClaimRun
<1>3. \A o \in run : inbox.slots[o] # Vacant /\ inbox.slots[o] # Tombstone
  BY <1>2 DEF ClaimPanics, Offset
<1>4. \A o \in run : inbox.slots[o] \in Envelope
  BY <1>1, <1>2, <1>3
<1>5. ASSUME NEW o \in run, NEW p \in inbox.cursor .. o
      PROVE  p \in run
  <2>1. p \in Offset /\ inbox.cursor <= p /\ p <= o /\ o \in Nat /\ p \in Nat
    BY <1>1, <1>2, ConstantsAre DEF Offset
  <2>2. p < inbox.cursor + Batch
    BY <1>1, <1>2, <2>1, CellIs
  <2>3. \A q \in Offset : inbox.cursor <= q /\ q <= p => inbox.slots[q] # Vacant
    BY <1>1, <1>2, <2>1 DEF Offset
  <2>4. QED
    BY <2>1, <2>2, <2>3 DEF ClaimRun
<1>6. /\ taken \in [Offset -> Envelope \cup {Vacant}]
      /\ \A o \in run : taken[o] = inbox.slots[o]
      /\ \A o \in Offset \ run : taken[o] = Vacant
  BY <1>2, <1>4 DEF Contents
<1>7. QED
  BY <1>2, <1>4, <1>5, <1>6

(* What a batch that commits adds to the committed messages.               *)
LEMMA BatchIs ==
  ASSUME KindInv, NEW i \in Incarnation, Held(i) # {},
         NEW batch, batch = [k \in 1 .. Cardinality(Held(i)) |-> claims[i][Min(Held(i)) + k - 1]]
  PROVE  /\ batch \in Seq(Envelope)
         /\ Range(batch) = {claims[i][o] : o \in Held(i)}
         /\ (\A o, p \in Held(i) : claims[i][o] = claims[i][p] => o = p) => IsInjective(batch)
<1>1. PICK set : set = Held(i)
  OBVIOUS
<1>2. /\ set \subseteq Offset /\ set # {} /\ \A o, q \in set : \A p \in o .. q : p \in set
      /\ \A o \in set : claims[i][o] \in Envelope
  BY <1>1, HeldIs
<1>3. PICK lo, hi : lo = Min(set) /\ hi = Max(set)
  OBVIOUS
<1>4. lo \in Nat /\ hi \in Nat /\ lo <= hi /\ set = lo .. hi /\ Cardinality(set) = hi - lo + 1
  BY <1>2, <1>3, SpanIs
<1>5. batch = [k \in 1 .. hi - lo + 1 |-> claims[i][lo + k - 1]]
  BY <1>1, <1>3, <1>4
<1>6. \A k \in 1 .. hi - lo + 1 : k \in Int /\ lo + k - 1 \in set
  BY <1>4
<1>7. \A o \in set : o - lo + 1 \in 1 .. hi - lo + 1 /\ lo + (o - lo + 1) - 1 = o
  BY <1>4
<1>8. batch \in [1 .. hi - lo + 1 -> Envelope]
  BY <1>2, <1>5, <1>6
<1>9. batch \in Seq(Envelope) /\ DOMAIN batch = 1 .. hi - lo + 1
  <2>1. hi - lo + 1 \in Nat
    BY <1>4
  <2>2. QED
    BY <1>8, <2>1, FunctionIsSeq
<1>10. Range(batch) = {claims[i][o] : o \in set}
  <2>1. \A k \in DOMAIN batch : \E o \in set : batch[k] = claims[i][o]
    BY <1>5, <1>6
  <2>2. \A o \in set : o - lo + 1 \in DOMAIN batch /\ batch[o - lo + 1] = claims[i][o]
    BY <1>5, <1>7
  <2>3. PICK told : told = {claims[i][o] : o \in set}
    OBVIOUS
  <2>4. \A e : e \in told <=> \E o \in set : e = claims[i][o]
    BY <2>3
  <2>5. \A e : e \in Range(batch) <=> \E k \in DOMAIN batch : e = batch[k]
    BY DEF Range
  <2>6. \A e : e \in Range(batch) <=> e \in told
    <3>1. ASSUME NEW o \in set
          PROVE  claims[i][o] \in Range(batch)
      BY <2>2, <2>5
    <3>2. ASSUME NEW k \in DOMAIN batch
          PROVE  batch[k] \in told
      BY <2>1, <2>4
    <3>3. QED
      BY <3>1, <3>2, <2>4, <2>5
  <2>7. Range(batch) = told
    BY <2>6
  <2>8. QED
    BY <2>3, <2>7
<1>11. ASSUME \A o, p \in set : claims[i][o] = claims[i][p] => o = p
       PROVE  IsInjective(batch)
  <2> SUFFICES ASSUME NEW j \in DOMAIN batch, NEW k \in DOMAIN batch, batch[j] = batch[k]
               PROVE  j = k
    BY DEF IsInjective
  <2>1. lo + j - 1 \in set /\ lo + k - 1 \in set /\ j \in Int /\ k \in Int
    BY <1>6, <1>9
  <2>2. claims[i][lo + j - 1] = claims[i][lo + k - 1]
    BY <1>5, <1>9
  <2>3. lo + j - 1 = lo + k - 1
    BY <1>11, <2>1, <2>2
  <2>4. QED
    BY <1>4, <2>1, <2>3
<1>12. QED
  BY <1>1, <1>9, <1>10, <1>11

LEMMA WayRests == WayInv /\ UNCHANGED <<at, idx>> => WayInv'
BY DEF WayInv

(* One loop's claims change.                                               *)
ClaimsBecome(i, mine, state) ==
  /\ claims' = [claims EXCEPT ![i] = mine] /\ loop' = [loop EXCEPT ![i] = state]
  /\ UNCHANGED current /\ loop[i] # "absent"

Stretch(set) == \A o, q \in set : \A p \in o .. q : p \in set

LEMMA ClaimsMove ==
  ASSUME KindInv, NEW i \in Incarnation, NEW mine \in [Offset -> Envelope \cup {Vacant}],
         NEW state, ClaimsBecome(i, mine, state),
         NEW set, set = {o \in Offset : mine[o] # Vacant}, Stretch(set),
         state \notin Claiming => set = {},
         state = "claimed" => set # {}
  PROVE  LoopInv' /\ SpanInv' /\ claims' \in [Incarnation -> [Offset -> Envelope \cup {Vacant}]]
<1>1. /\ claims'[i] = mine /\ loop'[i] = state
      /\ \A j \in Incarnation \ {i} : claims'[j] = claims[j] /\ loop'[j] = loop[j]
      /\ claims' \in [Incarnation -> [Offset -> Envelope \cup {Vacant}]]
  BY DEF ClaimsBecome, KindInv, TypeOK
<1>2. Held(i)' = set /\ \A j \in Incarnation \ {i} : Held(j)' = Held(j)
  BY <1>1 DEF Held
<1>3. LoopInv'
  BY <1>1, <1>2 DEF ClaimsBecome, KindInv, LoopInv
<1>4. SpanInv'
  BY <1>2 DEF KindInv, SpanInv, Stretch
<1>5. QED
  BY <1>1, <1>3, <1>4

LEMMA NoClaimsIs ==
  /\ NoClaims \in [Offset -> Envelope \cup {Vacant}]
  /\ {o \in Offset : NoClaims[o] # Vacant} = {}
BY DEF NoClaims

LEMMA ClaimingIs ==
  /\ \A state \in {"claimed", "dispatch", "unwind", "restore", "flush", "panicked"} :
       state \in Claiming
  /\ \A state \in {"absent", "step", "idling", "idle", "exit", "crashed", "ended"} :
       state \notin Claiming /\ state # "claimed"
BY DEF Claiming

LEMMA ClaimsEnd ==
  ASSUME KindInv, NEW i \in Incarnation, claims' = [claims EXCEPT ![i] = NoClaims],
         NEW state \in {"step", "crashed", "exit", "ended"},
         loop' = [loop EXCEPT ![i] = state], UNCHANGED current, loop[i] # "absent"
  PROVE  LoopInv' /\ SpanInv' /\ claims' \in [Incarnation -> [Offset -> Envelope \cup {Vacant}]]
<1>1. PICK mine : mine = NoClaims
  OBVIOUS
<1>2. PICK set : set = {}
  OBVIOUS
<1>3. /\ mine \in [Offset -> Envelope \cup {Vacant}]
      /\ set = {o \in Offset : mine[o] # Vacant}
  BY <1>1, <1>2, NoClaimsIs
<1>4. state # "claimed" /\ ClaimsBecome(i, mine, state) /\ Stretch(set)
  BY <1>1, <1>2 DEF ClaimsBecome, Stretch
<1>5. QED
  BY <1>2, <1>3, <1>4, ClaimsMove

(* What the loop of one incarnation does.                                  *)
LEMMA KindLoops ==
  ASSUME KindInv, NEW i \in Incarnation, LoopStep(i)
  PROVE  KindInv'
<1> USE DEF KindInv
<1>0. ASSUME UNCHANGED <<claims, current, senderVars>>, NEW state, TypeOK',
             loop' = [loop EXCEPT ![i] = state], loop[i] # "absent",
             state \notin Claiming => Held(i) = {},
             state = "claimed" => Held(i) # {}
      PROVE  KindInv'
  BY <1>0, LoopMoves, WayRests, SpanRests DEF senderVars
<1>1. CASE Claim(i)
  <2>0. /\ loop[i] = "step"
        /\ UNCHANGED <<cell, work, space, doorVars, after, passivating, lifeVars,
                       senderVars, consumed, dead>>
    BY <1>1 DEF Claim
  <2>1. PICK run : run = ClaimRun(inbox, Batch)
    OBVIOUS
  <2>2. CASE ClaimPanics(inbox, Batch)
    <3>1. SetLoop(i, "panicked") /\ UNCHANGED <<inbox, claims>>
      BY <1>1, <2>2 DEF Claim
    <3>2. TypeOK'
      BY <2>0, <3>1 DEF SetLoop, TypeOK, LoopStates, doorVars, lifeVars, senderVars
    <3>3. QED
      BY <1>0, <2>0, <3>1, <3>2, ClaimingIs DEF SetLoop, lifeVars
  <2>3. CASE ~ClaimPanics(inbox, Batch) /\ run = {}
    <3>1. PICK state \in {"exit", "idling"} : state = IF passivating[i] THEN "exit" ELSE "idling"
      OBVIOUS
    <3>2. loop' = [loop EXCEPT ![i] = state] /\ UNCHANGED <<inbox, claims>>
      BY <1>1, <2>1, <2>3, <3>1 DEF Claim, SetLoop
    <3>3. TypeOK'
      BY <2>0, <3>1, <3>2 DEF TypeOK, LoopStates, doorVars, lifeVars, senderVars
    <3>4. Held(i) = {}
      BY <2>0, ClaimingIs DEF LoopInv
    <3>5. QED
      BY <1>0, <2>0, <3>1, <3>2, <3>3, <3>4, ClaimingIs DEF lifeVars
  <2>4. CASE ~ClaimPanics(inbox, Batch) /\ run # {}
    <3>1. PICK mine : mine = Contents(inbox, run)
      OBVIOUS
    <3>2. /\ inbox' = Take(inbox, run) /\ claims' = [claims EXCEPT ![i] = mine]
          /\ loop' = [loop EXCEPT ![i] = "claimed"]
      BY <1>1, <2>1, <2>4, <3>1 DEF Claim, SetLoop
    <3>3. /\ run \subseteq Offset /\ mine \in [Offset -> Envelope \cup {Vacant}]
          /\ \A o \in run : mine[o] \in Envelope /\ inbox.cursor <= o
          /\ \A o \in Offset \ run : mine[o] = Vacant
          /\ \A o \in run : \A p \in inbox.cursor .. o : p \in run
      BY <2>1, <2>4, <3>1, RunIs
    <3>4. run = {o \in Offset : mine[o] # Vacant}
      BY <3>3, ConstantsAre
    <3>5. \A o, q \in run : \A p \in o .. q : p \in run
      <4>1. inbox.cursor \in Nat
        BY InboxIs DEF TypeOK
      <4> SUFFICES ASSUME NEW o \in run, NEW q \in run, NEW p \in o .. q
                   PROVE  p \in run
        OBVIOUS
      <4>2. o \in Nat /\ q \in Nat /\ p \in inbox.cursor .. q
        BY <3>3, <4>1 DEF Offset
      <4>3. QED
        BY <3>3, <4>2
    <3>6. /\ LoopInv' /\ SpanInv'
          /\ claims' \in [Incarnation -> [Offset -> Envelope \cup {Vacant}]]
      <4>1. "claimed" \in Claiming
        BY ClaimingIs
      <4>2. ClaimsBecome(i, mine, "claimed") /\ Stretch(run)
        BY <2>0, <3>2, <3>5 DEF lifeVars, ClaimsBecome, Stretch
      <4>3. QED
        BY <2>4, <3>3, <3>4, <4>1, <4>2, ClaimsMove
    <3>7. inbox' \in InboxType
      BY <3>2, TakeIs DEF TypeOK
    <3>8. TypeOK'
      BY <2>0, <3>2, <3>6, <3>7 DEF TypeOK, LoopStates, doorVars, lifeVars, senderVars
    <3>9. QED
      BY <2>0, <3>6, <3>8, WayRests DEF senderVars
  <2>5. QED
    BY <2>2, <2>3, <2>4
<1>2. CASE IdleWait(i)
  <2>1. /\ loop[i] = "idling" /\ work' \in BOOLEAN
        /\ \E state \in {"step", "idle"} : loop' = [loop EXCEPT ![i] = state]
        /\ UNCHANGED <<cell, inbox, space, doorVars, claims, after, passivating, lifeVars,
                       senderVars, consumed, dead>>
    BY <1>2 DEF IdleWait, SetLoop, TypeOK
  <2>2. PICK state \in {"step", "idle"} : loop' = [loop EXCEPT ![i] = state]
    BY <2>1
  <2>3. TypeOK'
    BY <2>1, <2>2 DEF TypeOK, LoopStates, doorVars, lifeVars, senderVars
  <2>4. Held(i) = {}
    BY <2>1, ClaimingIs DEF LoopInv
  <2>5. QED
    BY <1>0, <2>1, <2>2, <2>3, <2>4, ClaimingIs DEF lifeVars
<1>3. CASE CommitBatch(i)
  <2>0. /\ loop[i] = "claimed"
        /\ inbox' = CommitThrough(inbox, Max(Held(i)))
        /\ claims' = [claims EXCEPT ![i] = NoClaims]
        /\ loop' = [loop EXCEPT ![i] = "step"]
        /\ UNCHANGED <<cell, work, chan, held, parks, after, passivating, lifeVars,
                       senderVars, dead>>
    BY <1>3 DEF CommitBatch, SetLoop
  <2>1. Held(i) # {}
    BY <2>0 DEF LoopInv
  <2>2. Max(Held(i)) \in Nat
    BY <2>1, HeldIs, SpanIs
  <2>3. inbox' \in InboxType
    BY <2>0, <2>2, CommitThroughIs DEF TypeOK
  <2>4. PICK batch :
          batch = [k \in 1 .. Cardinality(Held(i)) |-> claims[i][Min(Held(i)) + k - 1]]
    OBVIOUS
  <2>5. consumed' = consumed \o batch
    BY <1>3, <2>4 DEF CommitBatch
  <2>6. batch \in Seq(Envelope)
    BY <2>1, <2>4, BatchIs
  <2>7. consumed' \in Seq(Envelope)
    BY <2>5, <2>6, ConcatProperties DEF TypeOK
  <2>8. space' \in BOOLEAN /\ door' \in [Incarnation -> DoorStates]
    <3>1. NotifySpace \/ UNCHANGED <<space, door>>
      BY <1>3 DEF CommitBatch, NotifySpaceIf
    <3>2. QED
      BY <3>1, NotifySpaceIs DEF TypeOK
  <2>9. /\ LoopInv' /\ SpanInv'
        /\ claims' \in [Incarnation -> [Offset -> Envelope \cup {Vacant}]]
    <3>1. UNCHANGED current /\ loop[i] # "absent"
      BY <2>0 DEF lifeVars
    <3>2. QED
      BY <2>0, <3>1, ClaimsEnd
  <2>10. TypeOK'
    BY <2>0, <2>3, <2>7, <2>8, <2>9 DEF TypeOK, LoopStates, lifeVars, senderVars
  <2>11. QED
    BY <2>0, <2>9, <2>10, WayRests DEF senderVars
<1>4. CASE CommitOne(i)
  <2>1. PICK first : first = Min(Held(i))
    OBVIOUS
  <2>2. /\ loop[i] = "claimed"
        /\ consumed' = Append(consumed, claims[i][first])
        /\ inbox' = CommitThrough(inbox, first)
        /\ claims' = [claims EXCEPT ![i][first] = Vacant]
        /\ loop' = [loop EXCEPT ![i] = "dispatch"]
        /\ UNCHANGED <<cell, work, chan, held, parks, after, passivating, lifeVars,
                       senderVars, dead>>
    BY <1>4, <2>1 DEF CommitOne, SetLoop
  <2>3. Held(i) # {}
    BY <2>2 DEF LoopInv
  <2>4. /\ first \in Held(i) /\ first \in Nat /\ claims[i][first] \in Envelope
        /\ Held(i) = first .. Max(Held(i)) /\ Max(Held(i)) \in Nat
    BY <2>1, <2>3, HeldIs, SpanIs
  <2>5. inbox' \in InboxType
    BY <2>2, <2>4, CommitThroughIs DEF TypeOK
  <2>6. consumed' \in Seq(Envelope)
    BY <2>2, <2>4, AppendProperties DEF TypeOK
  <2>7. space' \in BOOLEAN /\ door' \in [Incarnation -> DoorStates]
    <3>1. NotifySpace \/ UNCHANGED <<space, door>>
      BY <1>4 DEF CommitOne, NotifySpaceIf
    <3>2. QED
      BY <3>1, NotifySpaceIs DEF TypeOK
  <2>8. PICK mine : mine = [claims[i] EXCEPT ![first] = Vacant]
    OBVIOUS
  <2>9. /\ mine \in [Offset -> Envelope \cup {Vacant}]
        /\ {o \in Offset : mine[o] # Vacant} = Held(i) \ {first}
    BY <2>8, HeldIs DEF Held
  <2>10. claims' = [claims EXCEPT ![i] = mine]
    BY <2>2, <2>8
  <2>11. \A o, q \in Held(i) \ {first} : \A p \in o .. q : p \in Held(i) \ {first}
    BY <2>4
  <2>12. /\ LoopInv' /\ SpanInv'
         /\ claims' \in [Incarnation -> [Offset -> Envelope \cup {Vacant}]]
    <3>1. "dispatch" \in Claiming /\ ClaimsBecome(i, mine, "dispatch")
      BY <2>2, <2>10, ClaimingIs DEF lifeVars, ClaimsBecome
    <3>2. PICK rest : rest = Held(i) \ {first}
      OBVIOUS
    <3>3. rest = {o \in Offset : mine[o] # Vacant} /\ Stretch(rest)
      BY <2>9, <2>11, <3>2 DEF Stretch
    <3>4. QED
      BY <2>9, <3>1, <3>3, ClaimsMove
  <2>13. TypeOK'
    BY <2>2, <2>5, <2>6, <2>7, <2>12 DEF TypeOK, LoopStates, lifeVars, senderVars
  <2>14. QED
    BY <2>2, <2>12, <2>13, WayRests DEF senderVars
<1>5. CASE Dispatched(i)
  <2>1. PICK state \in {"step", "claimed"} :
          state = IF Held(i) = {} THEN "step" ELSE "claimed"
    OBVIOUS
  <2>2. /\ loop[i] = "dispatch" /\ loop' = [loop EXCEPT ![i] = state]
        /\ UNCHANGED <<cell, inbox, work, space, doorVars, claims, after, passivating,
                       lifeVars, senderVars, consumed, dead>>
    BY <1>5, <2>1 DEF Dispatched, SetLoop
  <2>3. TypeOK'
    BY <2>2 DEF TypeOK, LoopStates, doorVars, lifeVars, senderVars
  <2>4. QED
    BY <1>0, <2>1, <2>2, <2>3, ClaimingIs DEF lifeVars
<1>6. CASE GuardReads(i)
  <2>1. PICK state : state = IF Held(i) = {} THEN after[i]
                             ELSE IF stopping THEN "flush" ELSE "restore"
    OBVIOUS
  <2>2. /\ loop[i] = "unwind" /\ loop' = [loop EXCEPT ![i] = state]
        /\ UNCHANGED <<cell, inbox, work, space, doorVars, claims, after, passivating,
                       lifeVars, senderVars, consumed, dead>>
    BY <1>6, <2>1 DEF GuardReads, SetLoop
  <2>3. /\ state \in {"crashed", "exit", "ended", "flush", "restore"}
        /\ state \notin {"flush", "restore"} => Held(i) = {}
    BY <2>1 DEF TypeOK
  <2>4. TypeOK'
    BY <2>2, <2>3 DEF TypeOK, LoopStates, doorVars, lifeVars, senderVars
  <2>5. state # "claimed" /\ (state \notin Claiming => Held(i) = {})
    BY <2>3 DEF Claiming
  <2>6. QED
    BY <1>0, <2>2, <2>4, <2>5 DEF lifeVars
<1>7. CASE GuardRestores(i)
  <2>0. /\ loop[i] = "restore"
        /\ UNCHANGED <<cell, work, chan, held, parks, after, passivating, lifeVars,
                       senderVars, consumed, dead>>
    BY <1>7 DEF GuardRestores
  <2>1. CASE RestorePanics(inbox, claims[i])
    <3>1. /\ loop' = [loop EXCEPT ![i] = "panicked"]
          /\ UNCHANGED <<inbox, claims, space, door>>
      BY <1>7, <2>1 DEF GuardRestores, SetLoop
    <3>2. TypeOK'
      BY <2>0, <3>1 DEF TypeOK, LoopStates, lifeVars, senderVars
    <3>3. QED
      BY <1>0, <2>0, <3>1, <3>2, ClaimingIs DEF lifeVars
  <2>2. CASE ~RestorePanics(inbox, claims[i])
    <3>1. /\ inbox' = Restore(inbox, claims[i]) /\ NotifySpace
          /\ claims' = [claims EXCEPT ![i] = NoClaims]
          /\ loop' = [loop EXCEPT ![i] = after[i]]
      BY <1>7, <2>2 DEF GuardRestores, SetLoop
    <3>2. after[i] \in {"crashed", "exit", "ended"}
      BY DEF TypeOK
    <3>3. inbox' \in InboxType
      BY <3>1, HeldIs, RestoreIs DEF TypeOK
    <3>4. /\ LoopInv' /\ SpanInv'
          /\ claims' \in [Incarnation -> [Offset -> Envelope \cup {Vacant}]]
      <4>1. UNCHANGED current /\ loop[i] # "absent"
        BY <2>0 DEF lifeVars
      <4>2. QED
        BY <3>1, <3>2, <4>1, ClaimsEnd
    <3>5. space' \in BOOLEAN /\ door' \in [Incarnation -> DoorStates]
      BY <3>1, NotifySpaceIs
    <3>6. TypeOK'
      BY <2>0, <3>1, <3>2, <3>3, <3>4, <3>5 DEF TypeOK, LoopStates, lifeVars, senderVars
    <3>7. QED
      BY <2>0, <3>4, <3>6, WayRests DEF senderVars
  <2>3. QED
    BY <2>1, <2>2
<1>8. CASE GuardFlushes(i)
  <2>1. /\ loop[i] = "flush" /\ claims' = [claims EXCEPT ![i] = NoClaims]
        /\ loop' = [loop EXCEPT ![i] = after[i]]
        /\ UNCHANGED <<cell, inbox, work, space, doorVars, after, passivating, lifeVars,
                       senderVars, consumed>>
    BY <1>8 DEF GuardFlushes, SetLoop
  <2>2. after[i] \in {"crashed", "exit", "ended"}
    BY DEF TypeOK
  <2>3. dead' \in [Envelope -> Nat]
    BY <1>8, DeadLetterIs DEF GuardFlushes
  <2>4. /\ LoopInv' /\ SpanInv'
        /\ claims' \in [Incarnation -> [Offset -> Envelope \cup {Vacant}]]
    <3>1. UNCHANGED current /\ loop[i] # "absent"
      BY <2>1 DEF lifeVars
    <3>2. QED
      BY <2>1, <2>2, <3>1, ClaimsEnd
  <2>5. TypeOK'
    BY <2>1, <2>2, <2>3, <2>4 DEF TypeOK, LoopStates, doorVars, lifeVars, senderVars
  <2>6. QED
    BY <2>1, <2>4, <2>5, WayRests DEF senderVars
<1>9. CASE LoopEnds(i)
  <2>1. /\ loop[i] \in {"step", "idle", "crashed", "exit"}
        /\ inbox' = Reopen(Close(inbox)) /\ loop' = [loop EXCEPT ![i] = "ended"]
        /\ UNCHANGED <<cell, work, space, doorVars, claims, after, passivating, lifeVars,
                       senderVars, consumed, dead>>
    BY <1>9 DEF LoopEnds, SetLoop
  <2>2. inbox' \in InboxType
    BY <2>1, ReopenedIs DEF TypeOK
  <2>3. TypeOK'
    BY <2>1, <2>2 DEF TypeOK, LoopStates, doorVars, lifeVars, senderVars
  <2>4. Held(i) = {}
    BY <2>1, ClaimingIs DEF LoopInv
  <2>5. QED
    BY <1>0, <2>1, <2>3, <2>4, ClaimingIs DEF lifeVars
<1>10. QED
  BY <1>1, <1>2, <1>3, <1>4, <1>5, <1>6, <1>7, <1>8, <1>9 DEF LoopStep

(* What befalls the loops, and what others do to the mailbox.              *)
Befalls(i) == Passivate(i) \/ Crash(i) \/ StopSelf(i) \/ Abort(i)

LEMMA UnwindIs ==
  ASSUME KindInv, NEW i \in Incarnation, NEW then \in {"crashed", "exit", "ended"},
         Unwind(i, then), crashed' \in BOOLEAN, loop[i] \in {"claimed", "dispatch"}
  PROVE  KindInv'
<1> USE DEF KindInv
<1>1. /\ loop' = [loop EXCEPT ![i] = "unwind"] /\ after' = [after EXCEPT ![i] = then]
      /\ UNCHANGED <<cell, inbox, work, space, doorVars, claims, passivating,
                     current, stopping, slot, stop, senderVars, consumed, dead>>
  BY DEF Unwind, SetLoop
<1>2. TypeOK'
  BY <1>1 DEF TypeOK, LoopStates, doorVars, senderVars
<1>3. "unwind" \in Claiming
  BY ClaimingIs
<1>4. LoopInv'
  BY <1>1, <1>3, LoopMoves
<1>5. QED
  BY <1>1, <1>2, <1>4, WayRests, SpanRests DEF senderVars

LEMMA KindBefallen ==
  ASSUME KindInv, NEW i \in Incarnation, Befalls(i)
  PROVE  KindInv'
<1>1. CASE Passivate(i)
  <2>1. /\ loop[i] = "idling" /\ inbox' = Close(inbox)
        /\ passivating' = [passivating EXCEPT ![i] = TRUE]
        /\ loop' = [loop EXCEPT ![i] = "step"]
        /\ UNCHANGED <<cell, work, space, doorVars, claims, after, lifeVars,
                       senderVars, consumed, dead>>
    BY <1>1 DEF Passivate, SetLoop
  <2>2. inbox' \in InboxType
    BY <2>1, ReopenedIs DEF KindInv, TypeOK
  <2>3. TypeOK'
    BY <2>1, <2>2 DEF KindInv, TypeOK, LoopStates, doorVars, lifeVars, senderVars
  <2>4. Held(i) = {} /\ "step" \notin Claiming
    BY <2>1, ClaimingIs DEF KindInv, LoopInv
  <2>5. LoopInv'
    BY <2>1, <2>4, LoopMoves DEF KindInv, lifeVars
  <2>6. QED
    BY <2>1, <2>3, <2>5, WayRests, SpanRests DEF KindInv, senderVars
<1>2. CASE Crash(i)
  <2>1. PICK then \in {"exit", "crashed"} : then = IF passivating[i] THEN "exit" ELSE "crashed"
    OBVIOUS
  <2>2. Unwind(i, then) /\ crashed' = TRUE /\ loop[i] \in {"claimed", "dispatch"}
    BY <1>2, <2>1 DEF Crash
  <2>3. QED
    BY <2>2, UnwindIs
<1>3. CASE StopSelf(i)
  <2>1. Unwind(i, "exit") /\ crashed' = crashed /\ loop[i] \in {"claimed", "dispatch"}
    BY <1>3 DEF StopSelf
  <2>2. QED
    BY <2>1, UnwindIs DEF KindInv, TypeOK
<1>4. CASE Abort(i)
  <2>1. Unwind(i, "ended") /\ crashed' = crashed /\ loop[i] \in {"claimed", "dispatch"}
    BY <1>4 DEF Abort
  <2>2. QED
    BY <2>1, UnwindIs DEF KindInv, TypeOK
<1>5. QED
  BY <1>1, <1>2, <1>3, <1>4 DEF Befalls

LEMMA KindHost ==
  ASSUME KindInv, Restart \/ ExternalStop \/ Join \/ Teardown
  PROVE  KindInv'
<1> USE DEF KindInv
<1>0. ASSUME UNCHANGED <<loopVars, current, senderVars>>, TypeOK'
      PROVE  KindInv'
  BY <1>0, LoopRests, WayRests, SpanRests DEF loopVars, senderVars
<1>1. CASE Restart
  <2>1. /\ current < MaxIncarnation /\ crashed' = FALSE /\ current' = current + 1
        /\ loop' = [loop EXCEPT ![current + 1] = "step"] /\ inbox' = Reopen(inbox)
        /\ UNCHANGED <<cell, work, space, doorVars, claims, after, passivating,
                       stopping, slot, stop, senderVars, consumed, dead>>
    BY <1>1 DEF Restart
  <2>2. current \in Nat /\ current + 1 \in Incarnation
    BY <2>1, ConstantsAre DEF TypeOK, Incarnation
  <2>3. inbox' \in InboxType
    BY <2>1, ReopenedIs DEF TypeOK
  <2>4. TypeOK'
    BY <2>1, <2>2, <2>3 DEF TypeOK, LoopStates, doorVars, senderVars
  <2>5. PICK next \in Incarnation : next = current + 1
    BY <2>2
  <2>6. /\ loop'[next] = "step" /\ \A j \in Incarnation \ {next} : loop'[j] = loop[j]
        /\ loop[next] = "absent"
        /\ \A j \in Incarnation : j > next => j > current
    BY <2>1, <2>2, <2>5 DEF TypeOK, LoopInv, Incarnation
  <2>7. Held(next) = {} /\ \A j \in Incarnation : Held(j)' = Held(j)
    BY <2>1, <2>6, ClaimingIs DEF LoopInv, Held
  <2>8. LoopInv'
    <3> SUFFICES ASSUME NEW j \in Incarnation
                 PROVE  /\ j > current' => loop'[j] = "absent"
                        /\ loop'[j] \notin Claiming => Held(j)' = {}
                        /\ loop'[j] = "claimed" => Held(j)' # {}
      BY DEF LoopInv
    <3>1. CASE j = next
      BY <2>1, <2>2, <2>5, <2>6, <2>7, <3>1
    <3>2. CASE j # next
      BY <2>1, <2>5, <2>6, <2>7, <3>2 DEF LoopInv
    <3>3. QED
      BY <3>1, <3>2
  <2>9. QED
    BY <2>1, <2>4, <2>8, WayRests, SpanRests DEF senderVars
<1>2. CASE ExternalStop
  <2>1. TypeOK'
    BY <1>2 DEF ExternalStop, TypeOK, doorVars, loopVars, senderVars
  <2>2. QED
    BY <1>0, <1>2, <2>1 DEF ExternalStop
<1>3. CASE Join
  <2>1. TypeOK'
    BY <1>3 DEF Join, TypeOK, doorVars, loopVars, senderVars
  <2>2. QED
    BY <1>0, <1>3, <2>1 DEF Join
<1>4. CASE TeardownDrain
  <2>1. /\ stopping' = TRUE /\ slot' = "drained"
        /\ UNCHANGED <<cell, work, space, doorVars, loopVars, current, crashed, stop,
                       senderVars, consumed>>
    BY <1>4 DEF TeardownDrain
  <2>2. inbox' \in InboxType /\ dead' \in [Envelope -> Nat]
    <3>1. CASE UNCHANGED <<inbox, dead>>
      BY <3>1 DEF TypeOK
    <3>2. CASE /\ inbox' = DrainLive(Close(inbox))
               /\ DeadLetter({inbox.slots[o] : o \in Live(inbox)})
      BY <3>2, DrainLiveIs, DeadLetterIs DEF TypeOK
    <3>3. QED
      BY <1>4, <3>1, <3>2 DEF TeardownDrain
  <2>3. TypeOK'
    BY <2>1, <2>2 DEF TypeOK, doorVars, loopVars, senderVars
  <2>4. QED
    BY <1>0, <2>1, <2>3
<1>5. CASE TeardownUnregister
  <2>1. TypeOK'
    BY <1>5 DEF TeardownUnregister, TypeOK, doorVars, loopVars, senderVars
  <2>2. QED
    BY <1>0, <1>5, <2>1 DEF TeardownUnregister
<1>6. QED
  BY <1>1, <1>2, <1>3, <1>4, <1>5 DEF Teardown

LEMMA Steps ==
  ASSUME Next
  PROVE  \/ \E s \in Senders : SenderStep(s)
         \/ \E d \in Incarnation : DoorStep(d)
         \/ \E i \in Incarnation : LoopStep(i) \/ Befalls(i)
         \/ Restart \/ ExternalStop \/ Join \/ Teardown
BY DEF Next, Befalls

LEMMA KindStep == KindInv /\ [Next]_vars => KindInv'
<1> SUFFICES ASSUME KindInv, [Next]_vars
             PROVE  KindInv'
  OBVIOUS
<1>1. CASE UNCHANGED vars
  <2>1. TypeOK'
    BY <1>1 DEF KindInv, TypeOK, vars, doorVars, loopVars, lifeVars, senderVars
  <2>2. QED
    BY <1>1, <2>1, LoopRests, WayRests, SpanRests
       DEF KindInv, vars, loopVars, lifeVars, senderVars
<1>2. CASE Next
  BY <1>2, Steps, KindSenders, KindDoors, KindLoops, KindBefallen, KindHost
<1>3. QED
  BY <1>1, <1>2

(* Whatever is pushed, claimed, restored, restarted and torn down, every   *)
(* variable of a mailbox has the type its code gives it.                   *)
THEOREM TypeCorrect == Spec => []TypeOK
<1>1. KindInv => TypeOK
  BY DEF KindInv
<1>2. QED
  BY KindInit, KindStep, <1>1, PTL DEF Spec

----------------------------------------------------------------------------
(* Where nothing is evicted, the slots in use are between the cursor and   *)
(* the write head, one step at most has claims, and they are the front of  *)
(* the queue: nobody has taken their slots, which a commit removes.        *)

BoxInv ==
  /\ inbox.cursor <= inbox.next
  /\ \A o \in Offset : inbox.slots[o] # Vacant => inbox.cursor <= o /\ o < inbox.next

HoldInv ==
  /\ \A i, j \in Incarnation : Held(i) # {} /\ Held(j) # {} => i = j
  /\ \A i \in Incarnation : \A o \in Held(i) :
       /\ inbox.slots[o] = Tombstone
       /\ \A p \in inbox.cursor .. o : p \in Held(i)

KeepInv == inbox.policy = Policy /\ (Policy # "DropOld" => BoxInv /\ HoldInv)

LEMMA KeepIs ==
  ASSUME KindInv, KeepInv, Policy # "DropOld"
  PROVE  /\ inbox.cursor \in Nat /\ inbox.next \in Nat /\ inbox.cursor <= inbox.next
         /\ \A o \in Offset : o \in Nat
         /\ \A o \in Offset : inbox.slots[o] # Vacant => inbox.cursor <= o /\ o < inbox.next
         /\ \A i \in Incarnation : \A o \in Held(i) :
              o \in Offset /\ o \in Nat /\ inbox.slots[o] = Tombstone /\ inbox.cursor <= o
         /\ \A i, j \in Incarnation : Held(i) # {} => j = i \/ Held(j) = {}
<1>1. inbox.cursor \in Nat /\ inbox.next \in Nat
  BY InboxIs DEF KindInv, TypeOK
<1>2. \A i \in Incarnation : Held(i) \subseteq Offset
  BY HeldIs
<1>3. \A o \in Offset : o \in Nat
  BY DEF Offset
<1>4. \A i \in Incarnation : \A o \in Held(i) : inbox.slots[o] = Tombstone
  BY DEF KeepInv, HoldInv
<1>5. \A i \in Incarnation : \A o \in Held(i) : inbox.slots[o] # Vacant
  BY <1>4, ConstantsAre
<1>6. QED
  BY <1>1, <1>2, <1>3, <1>4, <1>5 DEF KeepInv, BoxInv, HoldInv

(* A step that commits has the front of the queue in hand.                 *)
LEMMA FrontIs ==
  ASSUME KindInv, KeepInv, Policy # "DropOld", NEW i \in Incarnation, Held(i) # {}
  PROVE  /\ Min(Held(i)) = inbox.cursor
         /\ Held(i) = inbox.cursor .. Max(Held(i)) /\ Max(Held(i)) \in Nat
         /\ inbox.cursor <= Max(Held(i)) /\ Max(Held(i)) < inbox.next
         /\ inbox.cursor \in Held(i)
<1>1. PICK set : set = Held(i)
  OBVIOUS
<1>2. set \subseteq Offset /\ set # {} /\ \A o, q \in set : \A p \in o .. q : p \in set
  BY <1>1, HeldIs
<1>3. PICK lo, hi : lo = Min(set) /\ hi = Max(set)
  OBVIOUS
<1>4. /\ lo \in set /\ hi \in set /\ lo \in Nat /\ hi \in Nat /\ lo <= hi
      /\ set = lo .. hi
  BY <1>2, <1>3, SpanIs
<1>5. /\ inbox.cursor \in Nat /\ inbox.cursor <= lo /\ hi < inbox.next
      /\ \A p \in inbox.cursor .. lo : p \in set
  <2>1. inbox.slots[hi] # Vacant /\ hi \in Offset /\ inbox.cursor <= lo
    <3>1. \A o \in set : o \in Offset /\ inbox.slots[o] = Tombstone /\ inbox.cursor <= o
      BY <1>1, KeepIs
    <3>2. QED
      BY <1>4, <3>1, ConstantsAre
  <2>2. \A p \in inbox.cursor .. lo : p \in set
    BY <1>1, <1>4 DEF KeepInv, HoldInv
  <2>3. QED
    BY <2>1, <2>2, KeepIs
<1>6. inbox.cursor \in set
  BY <1>4, <1>5
<1>7. lo = inbox.cursor
  BY <1>4, <1>5, <1>6
<1>8. QED
  BY <1>1, <1>3, <1>4, <1>5, <1>6, <1>7

LEMMA KeepRests ==
  ASSUME KeepInv, UNCHANGED <<cell, claims>>,
         inbox'.slots = inbox.slots, inbox'.next = inbox.next,
         inbox'.cursor = inbox.cursor, inbox'.policy = inbox.policy
  PROVE  KeepInv'
<1>1. \A i \in Incarnation : Held(i)' = Held(i)
  BY DEF Held
<1>2. Policy' = Policy
  BY DEF Policy
<1>3. BoxInv => BoxInv'
  BY DEF BoxInv
<1>4. HoldInv => HoldInv'
  BY <1>1 DEF HoldInv
<1>5. QED
  BY <1>2, <1>3, <1>4 DEF KeepInv

(* A push.                                                                 *)
LEMMA KeepPush ==
  ASSUME KindInv, KeepInv, NEW e \in Envelope, inbox' = Push(inbox, e), UNCHANGED <<cell, claims>>
  PROVE  KeepInv'
<1>1. inbox \in InboxType /\ Policy' = Policy
  BY DEF KindInv, TypeOK, Policy
<1>2. inbox'.policy = Policy'
  BY <1>1, PushIs DEF KeepInv
<1>3. CASE Policy = "DropOld"
  BY <1>1, <1>2, <1>3 DEF KeepInv
<1>4. CASE Policy # "DropOld" /\ PushAnswer(inbox) # "Queued"
  <2>1. inbox' = inbox
    BY <1>1, <1>4, PushIs DEF KeepInv
  <2>2. QED
    BY <2>1, KeepRests
<1>5. CASE Policy # "DropOld" /\ PushAnswer(inbox) = "Queued"
  <2>1. inbox' = QueueNext(inbox, e)
    BY <1>1, <1>5, PushIs
  <2>2. /\ inbox'.next = inbox.next + 1 /\ inbox'.cursor = inbox.cursor
        /\ \A o \in Offset : inbox'.slots[o] = IF o = inbox.next THEN e ELSE inbox.slots[o]
    BY <1>1, <2>1, QueueNextIs
  <2>3. BoxInv'
    <3>1. inbox'.cursor <= inbox'.next
      BY <1>5, <2>2, KeepIs
    <3>2. ASSUME NEW o \in Offset, inbox'.slots[o] # Vacant
          PROVE  inbox'.cursor <= o /\ o < inbox'.next
      BY <1>5, <2>2, <3>2, KeepIs
    <3>3. QED
      BY <3>1, <3>2 DEF BoxInv
  <2>4. HoldInv'
    <3>1. \A i \in Incarnation : Held(i)' = Held(i)
      BY DEF Held
    <3>2. \A i \in Incarnation : \A o \in Held(i) : inbox'.slots[o] = Tombstone
      <4>1. \A i \in Incarnation : \A o \in Held(i) : o # inbox.next
        <5>1. \A i \in Incarnation : \A o \in Held(i) : o < inbox.next /\ o \in Nat
          BY <1>5, KeepIs, ConstantsAre
        <5>2. QED
          BY <1>5, <5>1, KeepIs
      <4>2. QED
        BY <1>5, <2>2, <4>1, KeepIs
    <3>3. QED
      BY <1>5, <2>2, <3>1, <3>2 DEF KeepInv, HoldInv
  <2>5. QED
    BY <1>1, <1>2, <2>3, <2>4 DEF KeepInv
<1>6. QED
  BY <1>3, <1>4, <1>5

(* One step's claims become others, and its slots with them.               *)
LEMMA KeepMoves ==
  ASSUME KindInv, KeepInv, Policy # "DropOld", NEW i \in Incarnation,
         UNCHANGED cell, inbox'.policy = inbox.policy, inbox'.next = inbox.next,
         \A j \in Incarnation \ {i} : claims'[j] = claims[j] /\ Held(j) = {},
         inbox'.cursor \in Nat, inbox'.cursor <= inbox.next,
         \A o \in Offset : inbox'.slots[o] # Vacant =>
           inbox.slots[o] # Vacant /\ inbox'.cursor <= o,
         \A o \in Held(i)' : /\ inbox'.slots[o] = Tombstone
                             /\ \A p \in inbox'.cursor .. o : p \in Held(i)'
  PROVE  KeepInv'
<1>1. Policy' = Policy
  BY DEF Policy
<1>2. BoxInv'
  BY KeepIs DEF BoxInv
<1>3. \A j \in Incarnation \ {i} : Held(j)' = {}
  BY DEF Held
<1>4. HoldInv'
  BY <1>3 DEF HoldInv
<1>5. QED
  BY <1>1, <1>2, <1>4 DEF KeepInv

LEMMA KeepInit == Init => KeepInv
<1> SUFFICES ASSUME Init
             PROVE  KeepInv
  OBVIOUS
<1>1. inbox.policy = Policy /\ inbox.cursor = 0 /\ inbox.next = 0
  BY DEF Init, EmptyInbox, Policy
<1>2. \A o \in Offset : inbox.slots[o] = Vacant
  BY DEF Init, EmptyInbox
<1>3. \A i \in Incarnation : Held(i) = {}
  BY DEF Init, Held, NoClaims
<1>4. BoxInv
  BY <1>1, <1>2 DEF BoxInv
<1>5. HoldInv
  BY <1>3 DEF HoldInv
<1>6. QED
  BY <1>1, <1>4, <1>5 DEF KeepInv

LEMMA KeepSenders ==
  ASSUME KindInv, KeepInv, NEW s \in Senders, SenderStep(s)
  PROVE  KeepInv'
<1>1. CASE DirectPush(s)
  <2>1. inbox' = Push(inbox, Message(s)) /\ UNCHANGED <<cell, claims>> /\ at[s] # "send"
    BY <1>1 DEF DirectPush, loopVars
  <2>2. QED
    BY <2>1, MessageIs, KeepPush
<1>2. CASE UNCHANGED <<cell, inbox, claims>>
  BY <1>2, KeepRests
<1>3. QED
  BY <1>1, <1>2 DEF SenderStep, Resolve, NotifyAfterPush, DeliverToDoor, loopVars

LEMMA KeepDoors ==
  ASSUME KindInv, KeepInv, NEW d \in Incarnation, DoorStep(d)
  PROVE  KeepInv'
<1>1. CASE /\ inbox' = Push(inbox, held[d]) /\ held[d] # Vacant
           /\ UNCHANGED <<cell, claims>>
  <2>1. held[d] \in Envelope
    BY <1>1 DEF KindInv, TypeOK
  <2>2. QED
    BY <1>1, <2>1, KeepPush
<1>2. CASE UNCHANGED <<cell, inbox, claims>>
  BY <1>2, KeepRests
<1>3. QED
  BY <1>1, <1>2 DEF DoorStep, DoorReceive, DoorPush, DoorNotify, DoorHold, DoorPark,
                    DoorRefuse, DoorPanic, loopVars

(* Nobody else holds what a claim takes.                                   *)
LEMMA FreeToTake ==
  ASSUME KindInv, KeepInv, Policy # "DropOld", NEW run, run = ClaimRun(inbox, Batch),
         run # {}, ~ClaimPanics(inbox, Batch)
  PROVE  \A j \in Incarnation : Held(j) = {}
<1> SUFFICES ASSUME NEW j \in Incarnation, Held(j) # {}
             PROVE  FALSE
  OBVIOUS
<1>1. inbox.cursor \in Held(j)
  BY FrontIs
<1>2. inbox.slots[inbox.cursor] = Tombstone /\ inbox.cursor \in Nat
  BY <1>1, KeepIs
<1>3. PICK o \in run : TRUE
  OBVIOUS
<1>4. TypeOK
  BY DEF KindInv
<1>5. PICK taken : taken = Contents(inbox, run)
  OBVIOUS
<1>6. /\ run \subseteq Offset
      /\ \A p \in run : inbox.slots[p] \in Envelope /\ inbox.cursor <= p
      /\ \A p \in run : \A q \in inbox.cursor .. p : q \in run
  BY <1>4, <1>5, RunIs
<1>7. o \in Nat /\ inbox.cursor <= o
  BY <1>3, <1>6 DEF Offset
<1>8. inbox.cursor \in inbox.cursor .. o
  BY <1>2, <1>7
<1>9. inbox.cursor \in run
  BY <1>3, <1>6, <1>8
<1>10. QED
  BY <1>2, <1>6, <1>9, ConstantsAre

LEMMA EmptyHanded ==
  ASSUME KindInv, NEW i \in Incarnation, Held(i) = {}
  PROVE  claims[i] = NoClaims /\ [claims EXCEPT ![i] = NoClaims] = claims
<1>1. claims[i] \in [Offset -> Envelope \cup {Vacant}] /\ \A o \in Offset : claims[i][o] = Vacant
  BY HeldIs
<1>2. claims[i] = NoClaims
  BY <1>1 DEF NoClaims
<1>3. claims = [j \in Incarnation |-> claims[j]]
  BY DEF KindInv, TypeOK
<1>4. QED
  BY <1>2, <1>3

LEMMA KeepClaim ==
  ASSUME KindInv, KeepInv, NEW i \in Incarnation, Claim(i)
  PROVE  KeepInv'
<1>1. UNCHANGED cell
  BY DEF Claim
<1>2. CASE UNCHANGED <<inbox, claims>>
  BY <1>1, <1>2, KeepRests
<1>3. CASE ~UNCHANGED <<inbox, claims>>
  <2>1. PICK run : run = ClaimRun(inbox, Batch)
    OBVIOUS
  <2>2. PICK taken : taken = Contents(inbox, run)
    OBVIOUS
  <2>3. /\ ~ClaimPanics(inbox, Batch) /\ run # {}
        /\ inbox' = Take(inbox, run) /\ claims' = [claims EXCEPT ![i] = taken]
    BY <1>3, <2>1, <2>2 DEF Claim
  <2>4. TypeOK /\ inbox \in InboxType
    BY DEF KindInv, TypeOK
  <2>5. /\ run \subseteq Offset
        /\ \A o \in run : inbox.slots[o] \in Envelope /\ inbox.cursor <= o
        /\ \A o \in run : \A p \in inbox.cursor .. o : p \in run
        /\ \A o \in run : taken[o] = inbox.slots[o]
        /\ \A o \in Offset \ run : taken[o] = Vacant
    BY <2>1, <2>2, <2>3, <2>4, RunIs
  <2>6. /\ inbox'.next = inbox.next /\ inbox'.cursor = inbox.cursor
        /\ inbox'.policy = inbox.policy
        /\ \A o \in Offset : inbox'.slots[o] = IF o \in run THEN Tombstone ELSE inbox.slots[o]
    BY <2>3, <2>4, TakeIs
  <2>7. CASE Policy = "DropOld"
    BY <1>1, <2>6, <2>7 DEF KeepInv, Policy
  <2>8. CASE Policy # "DropOld"
    <3>1. \A j \in Incarnation : Held(j) = {}
      BY <2>1, <2>3, <2>8, FreeToTake
    <3>2. claims'[i] = taken /\ \A j \in Incarnation \ {i} : claims'[j] = claims[j]
      BY <2>3 DEF KindInv, TypeOK
    <3>3. Held(i)' = run
      <4>1. \A o \in Offset : taken[o] # Vacant <=> o \in run
        BY <2>5, ConstantsAre
      <4>2. QED
        BY <2>5, <3>2, <4>1 DEF Held
    <3>4. inbox'.cursor \in Nat /\ inbox'.cursor <= inbox.next
      BY <2>6, <2>8, KeepIs
    <3>5. \A o \in Offset : inbox'.slots[o] # Vacant => inbox.slots[o] # Vacant /\ inbox'.cursor <= o
      BY <2>5, <2>6, <2>8, KeepIs, ConstantsAre
    <3>6. \A o \in run : /\ inbox'.slots[o] = Tombstone
                         /\ \A p \in inbox'.cursor .. o : p \in run
      BY <2>5, <2>6
    <3>7. QED
      BY <1>1, <2>6, <2>8, <3>1, <3>2, <3>3, <3>4, <3>5, <3>6, KeepMoves
  <2>9. QED
    BY <2>7, <2>8
<1>4. QED
  BY <1>2, <1>3

LEMMA KeepCommits ==
  ASSUME KindInv, KeepInv, NEW i \in Incarnation, CommitBatch(i) \/ CommitOne(i)
  PROVE  KeepInv'
<1>1. UNCHANGED cell /\ loop[i] = "claimed"
  BY DEF CommitBatch, CommitOne
<1>2. Held(i) # {}
  BY <1>1 DEF KindInv, LoopInv
<1>3. PICK lo, hi : lo = Min(Held(i)) /\ hi = Max(Held(i))
  OBVIOUS
<1>4. PICK top : top = IF Tier = "Service" THEN lo ELSE hi
  OBVIOUS
<1>5. lo \in Held(i) /\ hi \in Held(i) /\ lo \in Nat /\ hi \in Nat /\ lo <= hi /\ top \in Nat
  BY <1>2, <1>3, <1>4, HeldIs, SpanIs
<1>6. inbox' = CommitThrough(inbox, top)
  BY <1>3, <1>4, <1>5 DEF CommitBatch, CommitOne
<1>7. /\ inbox'.next = inbox.next /\ inbox'.cursor = top + 1 /\ inbox'.policy = inbox.policy
      /\ \A o \in Offset : inbox'.slots[o] = IF o <= top THEN Vacant ELSE inbox.slots[o]
  <2>1. inbox \in InboxType
    BY DEF KindInv, TypeOK
  <2>2. PICK new : new = inbox'
    OBVIOUS
  <2>3. new = CommitThrough(inbox, top)
    BY <1>6, <2>2
  <2>4. /\ new.next = inbox.next /\ new.cursor = top + 1 /\ new.policy = inbox.policy
        /\ \A o \in Offset : new.slots[o] = IF o <= top THEN Vacant ELSE inbox.slots[o]
    BY <1>5, <2>1, <2>3, CommitThroughIs
  <2>5. QED
    BY <2>2, <2>4
<1>8. CASE Policy = "DropOld"
  BY <1>1, <1>7, <1>8 DEF KeepInv, Policy
<1>9. CASE Policy # "DropOld"
  <2>1. lo = inbox.cursor /\ Held(i) = inbox.cursor .. hi /\ hi < inbox.next
    BY <1>2, <1>3, <1>9, FrontIs
  <2>2. \A j \in Incarnation \ {i} : Held(j) = {}
    BY <1>2, <1>9, KeepIs
  <2>3. \A j \in Incarnation \ {i} : claims'[j] = claims[j]
    BY DEF CommitBatch, CommitOne, KindInv, TypeOK
  <2>4. \A o \in Held(i)' : o \in Held(i) /\ top < o
    <3>1. CASE CommitBatch(i)
      <4>1. claims'[i] = NoClaims
        BY <3>1 DEF CommitBatch, KindInv, TypeOK
      <4>2. QED
        BY <4>1 DEF Held, NoClaims
    <3>2. CASE CommitOne(i)
      <4>1. top = lo /\ claims' = [claims EXCEPT ![i][lo] = Vacant]
        BY <1>3, <1>4, <3>2 DEF CommitOne
      <4>2. /\ claims'[i][lo] = Vacant
            /\ \A o \in Offset \ {lo} : claims'[i][o] = claims[i][o]
        BY <1>5, <4>1, HeldIs DEF KindInv, TypeOK
      <4>3. \A o \in Held(i)' : o \in Held(i) /\ o # lo
        BY <4>2 DEF Held
      <4>4. \A o \in Held(i) : o # lo => lo < o
        BY <1>5, <2>1
      <4>5. QED
        BY <4>1, <4>3, <4>4
    <3>3. QED
      BY <3>1, <3>2
  <2>5. \A o \in Held(i)' : \A p \in top + 1 .. o : p \in Held(i)'
    <3>1. CASE CommitBatch(i)
      <4>1. claims'[i] = NoClaims
        BY <3>1 DEF CommitBatch, KindInv, TypeOK
      <4>2. QED
        BY <4>1 DEF Held, NoClaims
    <3>2. CASE CommitOne(i)
      <4>1. top = lo /\ claims' = [claims EXCEPT ![i][lo] = Vacant]
        BY <1>3, <1>4, <3>2 DEF CommitOne
      <4>2. \A o \in Offset \ {lo} : claims'[i][o] = claims[i][o]
        BY <1>5, <4>1, HeldIs DEF KindInv, TypeOK
      <4>3. \A o \in Held(i) : o # lo => o \in Held(i)'
        BY <4>2 DEF Held
      <4>4. ASSUME NEW o \in Held(i)', NEW p \in top + 1 .. o
            PROVE  p \in Held(i)'
        <5>1. o \in inbox.cursor .. hi /\ inbox.cursor \in Nat
          BY <1>5, <2>1, <2>4
        <5>2. p \in inbox.cursor .. hi /\ p # lo
          BY <1>5, <2>1, <4>1, <4>4, <5>1
        <5>3. QED
          BY <2>1, <4>3, <5>2
      <4>5. QED
        BY <4>4
    <3>3. QED
      BY <3>1, <3>2
  <2>6. \A o \in Held(i)' : inbox'.slots[o] = Tombstone
    <3>1. \A o \in Held(i) : o \in Offset /\ o \in Nat /\ inbox.slots[o] = Tombstone
      BY <1>9, KeepIs
    <3>2. \A o \in Offset : ~(o <= top) => inbox'.slots[o] = inbox.slots[o]
      BY <1>7
    <3>3. \A o \in Held(i) : top < o => inbox'.slots[o] = Tombstone
      <4>1. \A o \in Nat : top < o => ~(o <= top)
        BY <1>5
      <4>2. QED
        BY <3>1, <3>2, <4>1
    <3>4. QED
      BY <2>4, <3>3
  <2>7. inbox'.cursor \in Nat /\ inbox'.cursor <= inbox.next
    <3>1. top < inbox.next /\ inbox.next \in Nat
      BY <1>4, <1>5, <1>9, <2>1, KeepIs
    <3>2. QED
      BY <1>5, <1>7, <3>1
  <2>8. \A o \in Offset : inbox'.slots[o] # Vacant => inbox.slots[o] # Vacant /\ inbox'.cursor <= o
    BY <1>5, <1>7, <1>9, KeepIs
  <2>9. QED
    BY <1>1, <1>7, <1>9, <2>2, <2>3, <2>4, <2>5, <2>6, <2>7, <2>8, KeepMoves
<1>10. QED
  BY <1>8, <1>9

(* The claims go, back to their slots or to the dead letters.              *)
LEMMA KeepUnwound ==
  ASSUME KindInv, KeepInv, NEW i \in Incarnation, UNCHANGED cell,
         claims' = [claims EXCEPT ![i] = NoClaims],
         inbox' = Restore(inbox, claims[i]) \/ inbox' = inbox
  PROVE  KeepInv'
<1>1. /\ inbox' \in InboxType
      /\ inbox'.next = inbox.next /\ inbox'.cursor = inbox.cursor
      /\ inbox'.policy = inbox.policy
      /\ \A o \in Offset : o \notin Held(i) => inbox'.slots[o] = inbox.slots[o]
  BY RestoreIs, HeldIs DEF KindInv, TypeOK
<1>2. CASE Policy = "DropOld"
  BY <1>1, <1>2 DEF KeepInv, Policy
<1>3. CASE Held(i) = {}
  <2>1. claims' = claims
    BY <1>3, EmptyHanded
  <2>2. inbox'.slots = inbox.slots
    <3>1. inbox \in InboxType
      BY DEF KindInv, TypeOK
    <3>2. /\ inbox.slots \in [Offset -> Envelope \cup {Tombstone, Vacant}]
          /\ inbox'.slots \in [Offset -> Envelope \cup {Tombstone, Vacant}]
      BY <1>1, <3>1, InboxIs
    <3>3. \A o \in Offset : inbox'.slots[o] = inbox.slots[o]
      BY <1>1, <1>3
    <3>4. QED
      BY <3>2, <3>3
  <2>3. QED
    BY <1>1, <2>1, <2>2, KeepRests
<1>4. CASE Policy # "DropOld" /\ Held(i) # {}
  <2>1. \A j \in Incarnation \ {i} : Held(j) = {}
    BY <1>4, KeepIs
  <2>2. claims'[i] = NoClaims /\ \A j \in Incarnation \ {i} : claims'[j] = claims[j]
    BY DEF KindInv, TypeOK
  <2>3. Held(i)' = {}
    BY <2>2 DEF Held, NoClaims
  <2>4. inbox'.cursor \in Nat /\ inbox'.cursor <= inbox.next
    BY <1>1, <1>4, KeepIs
  <2>5. \A o \in Held(i) : inbox.slots[o] # Vacant
    BY <1>4, KeepIs, ConstantsAre
  <2>6. \A o \in Offset : inbox'.slots[o] # Vacant => inbox.slots[o] # Vacant
    BY <1>1, <2>5
  <2>7. \A o \in Offset : inbox'.slots[o] # Vacant => inbox'.cursor <= o
    BY <1>1, <1>4, <2>6, KeepIs
  <2>8. QED
    BY <1>1, <1>4, <2>1, <2>2, <2>3, <2>4, <2>6, <2>7, KeepMoves
<1>5. QED
  BY <1>2, <1>3, <1>4

LEMMA KeepLoops ==
  ASSUME KindInv, KeepInv, NEW i \in Incarnation, LoopStep(i)
  PROVE  KeepInv'
<1>1. CASE Claim(i)
  BY <1>1, KeepClaim
<1>2. CASE CommitBatch(i) \/ CommitOne(i)
  BY <1>2, KeepCommits
<1>3. CASE GuardRestores(i)
  <2>1. UNCHANGED cell
    BY <1>3 DEF GuardRestores
  <2>2. CASE RestorePanics(inbox, claims[i])
    BY <1>3, <2>1, <2>2, KeepRests DEF GuardRestores
  <2>3. CASE ~RestorePanics(inbox, claims[i])
    BY <1>3, <2>1, <2>3, KeepUnwound DEF GuardRestores
  <2>4. QED
    BY <2>2, <2>3
<1>4. CASE GuardFlushes(i)
  BY <1>4, KeepUnwound DEF GuardFlushes
<1>5. CASE LoopEnds(i)
  <2>1. inbox' = Reopen(Close(inbox)) /\ UNCHANGED <<cell, claims>> /\ inbox \in InboxType
    BY <1>5 DEF LoopEnds, KindInv, TypeOK
  <2>2. QED
    BY <2>1, ReopenedIs, KeepRests
<1>6. CASE UNCHANGED <<cell, inbox, claims>>
  BY <1>6, KeepRests
<1>7. QED
  BY <1>1, <1>2, <1>3, <1>4, <1>5, <1>6 DEF LoopStep, IdleWait, Dispatched, GuardReads

LEMMA KeepBefallen ==
  ASSUME KindInv, KeepInv, NEW i \in Incarnation, Befalls(i)
  PROVE  KeepInv'
<1>1. CASE Passivate(i)
  <2>1. inbox' = Close(inbox) /\ UNCHANGED <<cell, claims>> /\ inbox \in InboxType
    BY <1>1 DEF Passivate, KindInv, TypeOK
  <2>2. QED
    BY <2>1, ReopenedIs, KeepRests
<1>2. CASE UNCHANGED <<cell, inbox, claims>>
  BY <1>2, KeepRests
<1>3. QED
  BY <1>1, <1>2 DEF Befalls, Crash, StopSelf, Abort, Unwind

LEMMA KeepHost ==
  ASSUME KindInv, KeepInv, Restart \/ ExternalStop \/ Join \/ Teardown
  PROVE  KeepInv'
<1>0. inbox \in InboxType
  BY DEF KindInv, TypeOK
<1>1. CASE Restart
  <2>1. inbox' = Reopen(inbox) /\ UNCHANGED <<cell, claims>>
    BY <1>1 DEF Restart
  <2>2. QED
    BY <1>0, <2>1, ReopenedIs, KeepRests
<1>2. CASE TeardownDrain /\ inbox' = DrainLive(Close(inbox))
  <2>1. UNCHANGED <<cell, claims>>
    BY <1>2 DEF TeardownDrain, loopVars
  <2>2. /\ inbox'.next = inbox.next /\ inbox'.cursor = inbox.cursor
        /\ inbox'.policy = inbox.policy
        /\ \A o \in Offset :
             inbox'.slots[o] = IF inbox.slots[o] \in Envelope THEN Vacant ELSE inbox.slots[o]
    BY <1>0, <1>2, DrainLiveIs
  <2>3. Policy' = Policy /\ \A i \in Incarnation : Held(i)' = Held(i)
    BY <2>1 DEF Policy, Held
  <2>4. CASE Policy = "DropOld"
    BY <2>2, <2>3, <2>4 DEF KeepInv
  <2>5. CASE Policy # "DropOld"
    <3>1. BoxInv'
      BY <2>2, <2>5 DEF BoxInv, KeepInv
    <3>2. \A i \in Incarnation : \A o \in Held(i) : o \in Offset /\ inbox.slots[o] = Tombstone
      BY <2>5, KeepIs
    <3>3. \A i \in Incarnation : \A o \in Held(i) : inbox'.slots[o] = Tombstone
      BY <2>2, <3>2, ConstantsAre
    <3>4. HoldInv'
      BY <2>2, <2>3, <2>5, <3>3 DEF HoldInv, KeepInv
    <3>5. QED
      BY <2>2, <2>3, <3>1, <3>4 DEF KeepInv
  <2>6. QED
    BY <2>4, <2>5
<1>3. CASE UNCHANGED <<cell, inbox, claims>>
  BY <1>3, KeepRests
<1>4. QED
  BY <1>1, <1>2, <1>3 DEF Teardown, TeardownDrain, TeardownUnregister, ExternalStop, Join, loopVars

LEMMA KeepStep == KindInv /\ KeepInv /\ [Next]_vars => KeepInv'
<1> SUFFICES ASSUME KindInv, KeepInv, [Next]_vars
             PROVE  KeepInv'
  OBVIOUS
<1>1. CASE UNCHANGED vars
  BY <1>1, KeepRests DEF vars, loopVars
<1>2. CASE Next
  BY <1>2, Steps, KeepSenders, KeepDoors, KeepLoops, KeepBefallen, KeepHost
<1>3. QED
  BY <1>1, <1>2

----------------------------------------------------------------------------
(* Where the messages are.  Every message is at one spot: with its sender, *)
(* in a channel, with a door, in a slot, with a step, committed or dead.   *)

Way == ({"sender"} \X Senders) \cup ({"channel", "door"} \X Incarnation)

Spot == Way \cup ({"claim"} \X Incarnation) \cup ({"slot", "consumed", "dead"} \X {0})

At(kind, x) ==
  CASE kind = "sender"   -> {Program[x][k] : k \in Unsent(x)}
    [] kind = "channel"  -> Range(chan[x])
    [] kind = "door"     -> {held[x]} \ {Vacant}
    [] kind = "claim"    -> {claims[x][o] : o \in Held(x)}
    [] kind = "slot"     -> {inbox.slots[o] : o \in Live(inbox)}
    [] kind = "consumed" -> Range(consumed)
    [] kind = "dead"     -> {e \in Envelope : dead[e] > 0}

Where(e) == {spot \in Spot : e \in At(spot[1], spot[2])}

SpotInv ==
  \A e \in Envelope : /\ e \in Sendable => \E a : Where(e) = {a}
                      /\ e \notin Sendable => Where(e) = {}

(* A spot holds nothing twice.                                             *)
OnceInv ==
  /\ \A i \in Incarnation :
       /\ IsInjective(chan[i])
       /\ \A o, p \in Held(i) : claims[i][o] = claims[i][p] => o = p
  /\ \A o, p \in Live(inbox) : inbox.slots[o] = inbox.slots[p] => o = p
  /\ IsInjective(consumed)
  /\ \A e \in Envelope : dead[e] <= 1

(* A message is pushed once: the offsets handed out are at most as many as *)
(* the messages that are on their way no more.                             *)
Arrived == {e \in Sendable : \A spot \in Way : e \notin At(spot[1], spot[2])}

RoomInv == inbox.next <= Cardinality(Arrived)

Placed == SpotInv /\ OnceInv /\ RoomInv

MailInv == Policy # "DropOld" => Placed

Sorted ==
  /\ DistinctPrograms /\ OffsetsSuffice /\ Policy # "DropOld"
  /\ KindInv /\ KeepInv /\ Placed

LEMMA AtIs ==
  ASSUME NEW x
  PROVE  /\ At("sender", x) = {Program[x][k] : k \in Unsent(x)}
         /\ At("channel", x) = Range(chan[x])
         /\ At("door", x) = {held[x]} \ {Vacant}
         /\ At("claim", x) = {claims[x][o] : o \in Held(x)}
         /\ At("slot", x) = {inbox.slots[o] : o \in Live(inbox)}
         /\ At("consumed", x) = Range(consumed)
         /\ At("dead", x) = {e \in Envelope : dead[e] > 0}
BY DEF At

LEMMA AtIsNext ==
  ASSUME NEW x
  PROVE  /\ At("sender", x)' = {Program[x][k] : k \in Unsent(x)'}
         /\ At("channel", x)' = Range(chan'[x])
         /\ At("door", x)' = {held'[x]} \ {Vacant}
         /\ At("claim", x)' = {claims'[x][o] : o \in Held(x)'}
         /\ At("slot", x)' = {inbox'.slots[o] : o \in Live(inbox')}
         /\ At("consumed", x)' = Range(consumed')
         /\ At("dead", x)' = {e \in Envelope : dead'[e] > 0}
BY DEF At

LEMMA SpotIs ==
  /\ \A s \in Senders : <<"sender", s>> \in Way
  /\ \A i \in Incarnation : /\ <<"channel", i>> \in Way /\ <<"door", i>> \in Way
                            /\ <<"claim", i>> \in Spot \ Way
  /\ <<"slot", 0>> \in Spot \ Way /\ <<"consumed", 0>> \in Spot \ Way
  /\ <<"dead", 0>> \in Spot \ Way
  /\ Way \subseteq Spot
  /\ \A spot \in Spot :
       \/ \E s \in Senders : spot = <<"sender", s>>
       \/ \E i \in Incarnation : spot \in {<<"channel", i>>, <<"door", i>>, <<"claim", i>>}
       \/ spot \in {<<"slot", 0>>, <<"consumed", 0>>, <<"dead", 0>>}
<1>1. \A s \in Senders : <<"sender", s>> \in Way
  BY DEF Way
<1>2. \A i \in Incarnation : <<"channel", i>> \in Way /\ <<"door", i>> \in Way
  BY DEF Way
<1>3. \A i \in Incarnation : <<"claim", i>> \in Spot \ Way
  BY DEF Spot, Way
<1>4. <<"slot", 0>> \in Spot \ Way /\ <<"consumed", 0>> \in Spot \ Way
  BY DEF Spot, Way
<1>5. <<"dead", 0>> \in Spot \ Way
  BY DEF Spot, Way
<1>6. \A spot \in Way :
       \/ \E s \in Senders : spot = <<"sender", s>>
       \/ \E i \in Incarnation : spot \in {<<"channel", i>>, <<"door", i>>}
  BY DEF Way
<1>7. \A spot \in Spot \ Way :
       \/ \E i \in Incarnation : spot = <<"claim", i>>
       \/ spot \in {<<"slot", 0>>, <<"consumed", 0>>, <<"dead", 0>>}
  BY DEF Spot
<1>8. Way \subseteq Spot
  BY DEF Spot
<1>9. QED
  BY <1>1, <1>2, <1>3, <1>4, <1>5, <1>6, <1>7, <1>8

(* What is at one spot is at no other.                                     *)
LEMMA OneSpot ==
  ASSUME SpotInv, NEW e \in Envelope, NEW a \in Spot, e \in At(a[1], a[2])
  PROVE  e \in Sendable /\ \A b \in Spot \ {a} : e \notin At(b[1], b[2])
BY DEF SpotInv, Where

(* Every spot but two is as it was.                                        *)
Still(a, b) == \A spot \in Spot \ {a, b} : At(spot[1], spot[2])' = At(spot[1], spot[2])

LEMMA StillLive ==
  ASSUME NEW a, NEW b,
         \A s \in Senders : <<"sender", s>> \notin {a, b} => Unsent(s)' = Unsent(s),
         \A i \in Incarnation :
           /\ <<"channel", i>> \notin {a, b} => chan'[i] = chan[i]
           /\ <<"door", i>> \notin {a, b} => held'[i] = held[i]
           /\ <<"claim", i>> \notin {a, b} => claims'[i] = claims[i],
         <<"slot", 0>> \notin {a, b} =>
           /\ Live(inbox') = Live(inbox)
           /\ \A o \in Live(inbox) : inbox'.slots[o] = inbox.slots[o],
         <<"consumed", 0>> \notin {a, b} => consumed' = consumed,
         <<"dead", 0>> \notin {a, b} => dead' = dead
  PROVE  Still(a, b)
<1> SUFFICES ASSUME NEW spot \in Spot \ {a, b}
             PROVE  At(spot[1], spot[2])' = At(spot[1], spot[2])
  BY DEF Still
<1>1. ASSUME NEW s \in Senders, spot = <<"sender", s>>
      PROVE  At(spot[1], spot[2])' = At(spot[1], spot[2])
  <2>1. Unsent(s)' = Unsent(s) /\ spot[1] = "sender" /\ spot[2] = s
    BY <1>1
  <2>2. QED
    BY <2>1 DEF At
<1>2. ASSUME NEW i \in Incarnation, spot = <<"channel", i>>
      PROVE  At(spot[1], spot[2])' = At(spot[1], spot[2])
  <2>1. chan'[i] = chan[i] /\ spot[1] = "channel" /\ spot[2] = i
    BY <1>2
  <2>2. QED
    BY <2>1 DEF At
<1>3. ASSUME NEW i \in Incarnation, spot = <<"door", i>>
      PROVE  At(spot[1], spot[2])' = At(spot[1], spot[2])
  <2>1. held'[i] = held[i] /\ spot[1] = "door" /\ spot[2] = i
    BY <1>3
  <2>2. QED
    BY <2>1 DEF At
<1>4. ASSUME NEW i \in Incarnation, spot = <<"claim", i>>
      PROVE  At(spot[1], spot[2])' = At(spot[1], spot[2])
  <2>1. claims'[i] = claims[i] /\ spot[1] = "claim" /\ spot[2] = i
    BY <1>4
  <2>2. Held(i)' = Held(i)
    BY <2>1 DEF Held
  <2>3. QED
    BY <2>1, <2>2 DEF At
<1>5. CASE spot = <<"slot", 0>>
  <2>1. /\ Live(inbox') = Live(inbox)
        /\ \A o \in Live(inbox) : inbox'.slots[o] = inbox.slots[o]
        /\ spot[1] = "slot" /\ spot[2] = 0
    BY <1>5
  <2>2. At("slot", 0)' = At("slot", 0)
    <3>1. At("slot", 0) = {inbox.slots[o] : o \in Live(inbox)}
      BY AtIs
    <3>2. At("slot", 0)' = {inbox'.slots[o] : o \in Live(inbox')}
      BY AtIsNext
    <3>3. {inbox'.slots[o] : o \in Live(inbox)} = {inbox.slots[o] : o \in Live(inbox)}
      BY <2>1
    <3>4. QED
      BY <2>1, <3>1, <3>2, <3>3
  <2>3. QED
    BY <2>1, <2>2 DEF At
<1>6. CASE spot = <<"consumed", 0>>
  <2>1. consumed' = consumed /\ spot[1] = "consumed" /\ spot[2] = 0
    BY <1>6
  <2>2. QED
    BY <2>1 DEF At
<1>7. CASE spot = <<"dead", 0>>
  <2>1. dead' = dead /\ spot[1] = "dead" /\ spot[2] = 0
    BY <1>7
  <2>2. QED
    BY <2>1 DEF At
<1>8. QED
  BY SpotIs, <1>1, <1>2, <1>3, <1>4, <1>5, <1>6, <1>7

LEMMA StillIs ==
  ASSUME NEW a, NEW b,
         \A s \in Senders : <<"sender", s>> \notin {a, b} => Unsent(s)' = Unsent(s),
         \A i \in Incarnation :
           /\ <<"channel", i>> \notin {a, b} => chan'[i] = chan[i]
           /\ <<"door", i>> \notin {a, b} => held'[i] = held[i]
           /\ <<"claim", i>> \notin {a, b} => claims'[i] = claims[i],
         <<"slot", 0>> \notin {a, b} => inbox'.slots = inbox.slots,
         <<"consumed", 0>> \notin {a, b} => consumed' = consumed,
         <<"dead", 0>> \notin {a, b} => dead' = dead
  PROVE  Still(a, b)
<1>1. ASSUME inbox'.slots = inbox.slots
      PROVE  /\ Live(inbox') = Live(inbox)
             /\ \A o \in Live(inbox) : inbox'.slots[o] = inbox.slots[o]
  BY <1>1 DEF Live
<1>2. <<"slot", 0>> \notin {a, b} =>
        /\ Live(inbox') = Live(inbox)
        /\ \A o \in Live(inbox) : inbox'.slots[o] = inbox.slots[o]
  BY <1>1
<1>3. QED
  BY <1>2, StillLive

LEMMA SendableIs == Sendable \subseteq Envelope
BY ConstantsAre DEF Sendable

(* Some messages move from one spot to another, nobody back to its way;    *)
(* at most one of them takes an offset.                                    *)
LEMMA SpotsMove ==
  ASSUME Sorted,
         NEW a \in Spot, NEW b \in Spot, a # b, Still(a, b), b \in Way => a \in Way,
         NEW x, x \subseteq At(a[1], a[2]), x \subseteq Envelope,
         At(a[1], a[2])' = At(a[1], a[2]) \ x,
         At(b[1], b[2])' = At(b[1], b[2]) \cup x,
         \/ inbox'.next = inbox.next
         \/ /\ inbox'.next = inbox.next + 1
            /\ a \in Way /\ b \notin Way /\ x # {}
  PROVE  SpotInv' /\ RoomInv'
<1>0. SpotInv /\ RoomInv
  BY DEF Sorted, Placed
<1>1. ASSUME NEW e \in Envelope
      PROVE  /\ e \in Sendable => \E c : Where(e)' = {c}
             /\ e \notin Sendable => Where(e)' = {}
  <2>1. CASE e \in x
    <3>1. e \in Sendable /\ \A spot \in Spot \ {a} : e \notin At(spot[1], spot[2])
      BY <1>0, <2>1, OneSpot
    <3>2. Where(e)' = {b}
      BY <2>1, <3>1 DEF Where, Still
    <3>3. QED
      BY <3>1, <3>2
  <2>2. CASE e \notin x
    <3>1. Where(e)' = Where(e)
      BY <2>2 DEF Where, Still
    <3>2. QED
      BY <1>0, <3>1 DEF SpotInv
  <2>3. QED
    BY <2>1, <2>2
<1>2. SpotInv'
  BY <1>1 DEF SpotInv
<1>3. Arrived \subseteq Arrived'
  <2> SUFFICES ASSUME NEW e \in Arrived, NEW spot \in Way, e \in At(spot[1], spot[2])'
               PROVE  FALSE
    BY DEF Arrived
  <2>1. spot \in Spot /\ e \notin At(spot[1], spot[2])
    BY SpotIs DEF Arrived
  <2>2. CASE spot = b
    BY <2>1, <2>2 DEF Arrived
  <2>3. CASE spot # b
    BY <2>1, <2>3 DEF Still
  <2>4. QED
    BY <2>2, <2>3
<1>4. /\ IsFiniteSet(Arrived') /\ IsFiniteSet(Arrived)
      /\ Cardinality(Arrived) \in Nat /\ Cardinality(Arrived') \in Nat
      /\ Cardinality(Arrived) <= Cardinality(Arrived')
  <2>1. IsFiniteSet(Sendable) /\ Arrived' \subseteq Sendable
    BY DEF Sorted, OffsetsSuffice, Arrived
  <2>2. QED
    BY <1>3, <2>1, FS_Subset, FS_CardinalityType
<1>5. inbox.next \in Nat /\ inbox.next <= Cardinality(Arrived)
  BY <1>0, KeepIs DEF Sorted, RoomInv
<1>6. CASE inbox'.next = inbox.next
  <2>1. RoomInv'
    BY <1>4, <1>5, <1>6 DEF RoomInv
  <2>2. QED
    BY <1>2, <2>1
<1>7. CASE /\ inbox'.next = inbox.next + 1
           /\ a \in Way /\ b \notin Way /\ x # {}
  <2>1. PICK e \in x : TRUE
    BY <1>7
  <2>2. e \in Sendable /\ \A spot \in Spot \ {a} : e \notin At(spot[1], spot[2])
    BY <1>0, OneSpot
  <2>3. e \notin Arrived
    BY <1>7 DEF Arrived
  <2>4. e \in Arrived'
    <3> SUFFICES ASSUME NEW spot \in Way
                 PROVE  e \notin At(spot[1], spot[2])'
      BY <2>2 DEF Arrived
    <3>1. spot \in Spot /\ spot # b
      BY <1>7, SpotIs
    <3>2. QED
      BY <2>2, <3>1 DEF Still
  <2>5. Cardinality(Arrived \cup {e}) = Cardinality(Arrived) + 1
    BY <1>4, <2>3, FS_AddElement
  <2>6. Cardinality(Arrived \cup {e}) <= Cardinality(Arrived')
    BY <1>3, <1>4, <2>4, FS_Subset
  <2>7. RoomInv'
    BY <1>4, <1>5, <1>7, <2>5, <2>6 DEF RoomInv
  <2>8. QED
    BY <1>2, <2>7
<1>8. QED
  BY <1>6, <1>7

LEMMA MessageMoves ==
  ASSUME Sorted,
         NEW a \in Spot, NEW b \in Spot, a # b, Still(a, b), b \in Way => a \in Way,
         NEW e \in Envelope, e \in At(a[1], a[2]),
         At(a[1], a[2])' = At(a[1], a[2]) \ {e},
         At(b[1], b[2])' = At(b[1], b[2]) \cup {e},
         \/ inbox'.next = inbox.next
         \/ inbox'.next = inbox.next + 1 /\ a \in Way /\ b \notin Way
  PROVE  SpotInv' /\ RoomInv'
<1>1. PICK x : x = {e}
  OBVIOUS
<1>2. /\ x \subseteq At(a[1], a[2]) /\ x \subseteq Envelope /\ x # {}
      /\ At(a[1], a[2])' = At(a[1], a[2]) \ x
      /\ At(b[1], b[2])' = At(b[1], b[2]) \cup x
  BY <1>1
<1>3. \/ inbox'.next = inbox.next
      \/ /\ inbox'.next = inbox.next + 1
         /\ a \in Way /\ b \notin Way /\ x # {}
  BY <1>2
<1>4. QED
  BY <1>2, <1>3, SpotsMove

(* A message on its way finds an offset.                                   *)
LEMMA RoomLeft ==
  ASSUME Sorted, NEW a \in Way, NEW e \in Envelope, e \in At(a[1], a[2])
  PROVE  inbox.next \in Offset
<1>1. SpotInv /\ RoomInv /\ IsFiniteSet(Sendable) /\ Cardinality(Sendable) <= MaxOffset + 1
  BY DEF Sorted, Placed, OffsetsSuffice
<1>2. e \in Sendable /\ e \notin Arrived
  BY <1>1, SpotIs, OneSpot DEF Arrived
<1>3. Arrived \subseteq Sendable \ {e}
  BY <1>2 DEF Arrived
<1>4. /\ IsFiniteSet(Sendable \ {e})
      /\ Cardinality(Sendable \ {e}) = Cardinality(Sendable) - 1
      /\ Cardinality(Sendable) \in Nat
  BY <1>1, <1>2, FS_RemoveElement, FS_CardinalityType
<1>5. Cardinality(Arrived) <= Cardinality(Sendable \ {e}) /\ Cardinality(Arrived) \in Nat
  BY <1>3, <1>4, FS_Subset, FS_CardinalityType
<1>6. inbox.next \in Nat /\ inbox.next <= Cardinality(Arrived)
  BY <1>1, KeepIs DEF Sorted, RoomInv
<1>7. inbox.next <= MaxOffset
  BY <1>1, <1>4, <1>5, <1>6, ConstantsAre
<1>8. QED
  BY <1>6, <1>7, ConstantsAre DEF Offset

LEMMA UnsentIs ==
  ASSUME KindInv, NEW s \in Senders
  PROVE  /\ idx'[s] = idx[s] /\ at'[s] = at[s] => Unsent(s)' = Unsent(s)
         /\ idx'[s] = idx[s] /\ {at[s], at'[s]} \subseteq {"send", "resolved", "refused"} =>
              Unsent(s)' = Unsent(s)
         /\ idx'[s] = idx[s] + 1 /\ at[s] = "pushed" /\ at'[s] = "send" =>
              Unsent(s)' = Unsent(s)
         /\ at[s] \in {"send", "resolved", "refused"}
              /\ (\/ idx'[s] = idx[s] /\ at'[s] = "pushed"
                  \/ idx'[s] = idx[s] + 1 /\ at'[s] = "send") =>
              Unsent(s)' = Unsent(s) \ {idx[s]}
<1>1. PICK n \in Nat : n = idx[s]
  BY DEF KindInv, TypeOK
<1>2. \A k \in DOMAIN Program[s] : k \in Nat
  BY ConstantsAre
<1>3. PICK way : way = {"send", "resolved", "refused"}
  OBVIOUS
<1>4. Unsent(s) = {k \in DOMAIN Program[s] : k > n \/ (k = n /\ at[s] \in way)}
  BY <1>1, <1>3 DEF Unsent
<1>5. \A m \in Nat : idx'[s] = m =>
         Unsent(s)' = {k \in DOMAIN Program[s] : k > m \/ (k = m /\ at'[s] \in way)}
  BY <1>3 DEF Unsent
<1>6. /\ idx'[s] = n => Unsent(s)' = {k \in DOMAIN Program[s] : k > n \/ (k = n /\ at'[s] \in way)}
      /\ idx'[s] = n + 1 =>
           Unsent(s)' = {k \in DOMAIN Program[s] : k > n + 1 \/ (k = n + 1 /\ at'[s] \in way)}
  BY <1>5
<1>7. "send" \in way /\ "pushed" \notin way
  BY <1>3
<1>8. \A k \in DOMAIN Program[s] : k > n <=> k > n + 1 \/ k = n + 1
  BY <1>2
<1>9. /\ idx'[s] = n /\ (at'[s] \in way <=> at[s] \in way) => Unsent(s)' = Unsent(s)
      /\ idx'[s] = n + 1 /\ at[s] \notin way /\ at'[s] \in way => Unsent(s)' = Unsent(s)
  BY <1>4, <1>6, <1>8
<1>10. /\ idx'[s] = n /\ at[s] \in way /\ at'[s] \notin way => Unsent(s)' = Unsent(s) \ {n}
       /\ idx'[s] = n + 1 /\ at[s] \in way /\ at'[s] \in way => Unsent(s)' = Unsent(s) \ {n}
  BY <1>2, <1>4, <1>6, <1>8
<1>11. QED
  BY <1>1, <1>3, <1>7, <1>9, <1>10

(* A sender lets go of the message it is on.                               *)
LEMMA LetsGo ==
  ASSUME Sorted, NEW s \in Senders, at[s] \in {"send", "resolved", "refused"},
         at[s] # "send" \/ Sending(s),
         \/ idx'[s] = idx[s] /\ at'[s] = "pushed"
         \/ idx'[s] = idx[s] + 1 /\ at'[s] = "send"
  PROVE  /\ Message(s) \in Envelope /\ Message(s) \in At("sender", s)
         /\ At("sender", s)' = At("sender", s) \ {Message(s)}
<1>0. KindInv
  BY DEF Sorted
<1>1. Unsent(s)' = Unsent(s) \ {idx[s]}
  BY <1>0, UnsentIs
<1>2. /\ idx[s] \in DOMAIN Program[s]
      /\ Message(s) = Program[s][idx[s]] /\ Message(s) \in Envelope
  BY <1>0, MessageIs
<1>3. idx[s] \in Unsent(s)
  BY <1>2 DEF Unsent
<1>4. \A k \in Unsent(s) : Program[s][k] = Message(s) => k = idx[s]
  BY <1>2 DEF Unsent, Sorted, DistinctPrograms
<1>5. At("sender", s) = {Program[s][k] : k \in Unsent(s)}
  BY AtIs
<1>6. At("sender", s)' = {Program[s][k] : k \in Unsent(s) \ {idx[s]}}
  BY <1>1, AtIsNext
<1>7. QED
  BY <1>2, <1>3, <1>4, <1>5, <1>6

(* What was somewhere else comes to the dead letters.                      *)
LEMMA DeadMoves ==
  ASSUME Sorted, NEW a \in Spot, a # <<"dead", 0>>,
         NEW x, x \subseteq At(a[1], a[2]), x \subseteq Envelope, DeadLetter(x)
  PROVE  At("dead", 0)' = At("dead", 0) \cup x /\ \A e \in Envelope : dead'[e] <= 1
<1>1. /\ TypeOK /\ dead \in [Envelope -> Nat] /\ SpotInv
      /\ \A e \in Envelope : dead[e] <= 1
  BY DEF Sorted, KindInv, TypeOK, Placed, OnceInv
<1>2. \A e \in Envelope : dead'[e] = IF e \in x THEN dead[e] + 1 ELSE dead[e]
  BY <1>1, DeadLetterIs
<1>3. At("dead", 0) = {e \in Envelope : dead[e] > 0}
  BY AtIs
<1>4. \A e \in x : dead[e] = 0
  <2> SUFFICES ASSUME NEW e \in x
               PROVE  dead[e] = 0
    OBVIOUS
  <2>1. PICK b \in Spot : b = <<"dead", 0>>
    BY SpotIs
  <2>2. e \notin At(b[1], b[2])
    BY <1>1, <2>1, OneSpot
  <2>3. e \notin At("dead", 0)
    BY <2>1, <2>2
  <2>4. QED
    BY <1>1, <1>3, <2>3
<1>5. At("dead", 0)' = {e \in Envelope : dead'[e] > 0}
  BY AtIsNext
<1>6. QED
  BY <1>1, <1>2, <1>3, <1>4, <1>5

(* Nothing moves.                                                          *)
LEMMA MailRests ==
  ASSUME Sorted, UNCHANGED <<chan, held, claims, consumed, dead>>,
         inbox'.slots = inbox.slots, inbox'.next = inbox.next,
         \A s \in Senders : Unsent(s)' = Unsent(s)
  PROVE  Placed'
<1>1. Still(<<"none", 0>>, <<"none", 0>>)
  BY StillIs
<1>2. <<"none", 0>> \notin Spot
  BY DEF Spot, Way
<1>3. \A spot \in Spot : At(spot[1], spot[2])' = At(spot[1], spot[2])
  BY <1>1, <1>2 DEF Still
<1>4. \A e \in Envelope : Where(e)' = Where(e)
  BY <1>3 DEF Where
<1>5. SpotInv'
  BY <1>4 DEF Sorted, Placed, SpotInv
<1>6. Arrived' = Arrived
  BY <1>3, SpotIs DEF Arrived
<1>7. RoomInv'
  BY <1>6 DEF Sorted, Placed, RoomInv
<1>8. OnceInv'
  <2>1. Live(inbox') = Live(inbox) /\ \A i \in Incarnation : Held(i)' = Held(i)
    BY DEF Live, Held
  <2>2. QED
    BY <2>1 DEF Sorted, Placed, OnceInv
<1>9. QED
  BY <1>5, <1>7, <1>8 DEF Placed

LEMMA MailInit == DistinctPrograms /\ Init => MailInv
<1> SUFFICES ASSUME DistinctPrograms, Init
             PROVE  Placed
  BY DEF MailInv
<1>1. KindInv
  BY KindInit
<1>2. \A s \in Senders : Unsent(s) = DOMAIN Program[s]
  <2> SUFFICES ASSUME NEW s \in Senders, NEW k \in DOMAIN Program[s]
               PROVE  k \in Unsent(s)
    BY DEF Unsent
  <2>1. k \in Nat /\ k >= 1
    BY ConstantsAre
  <2>2. idx[s] = 1 /\ at[s] = "send"
    BY DEF Init
  <2>3. QED
    BY <2>1, <2>2 DEF Unsent
<1>3. \A s \in Senders : At("sender", s) = {Program[s][k] : k \in DOMAIN Program[s]}
  BY <1>2, AtIs
<1>4. \A i \in Incarnation : At("channel", i) = {} /\ At("door", i) = {} /\ At("claim", i) = {}
  <2> SUFFICES ASSUME NEW i \in Incarnation
               PROVE  At("channel", i) = {} /\ At("door", i) = {} /\ At("claim", i) = {}
    OBVIOUS
  <2>1. chan[i] = <<>> /\ held[i] = Vacant /\ Held(i) = {}
    BY DEF Init, Held, NoClaims
  <2>2. Range(chan[i]) = {}
    BY <2>1, RangeSmall
  <2>3. QED
    BY <2>1, <2>2, AtIs
<1>5. At("slot", 0) = {} /\ At("consumed", 0) = {} /\ At("dead", 0) = {}
  <2>1. Live(inbox) = {}
    BY ConstantsAre DEF Init, EmptyInbox, Live
  <2>2. Range(consumed) = {}
    BY RangeSmall DEF Init
  <2>3. \A e \in Envelope : ~(dead[e] > 0)
    BY DEF Init
  <2>4. QED
    BY <2>1, <2>2, <2>3, AtIs
<1>6. \A spot \in Spot : \/ At(spot[1], spot[2]) = {}
                         \/ \E s \in Senders : /\ spot = <<"sender", s>>
                                               /\ At(spot[1], spot[2]) = At("sender", s)
  <2> SUFFICES ASSUME NEW spot \in Spot
               PROVE  \/ At(spot[1], spot[2]) = {}
                      \/ \E s \in Senders : /\ spot = <<"sender", s>>
                                            /\ At(spot[1], spot[2]) = At("sender", s)
    OBVIOUS
  <2>1. ASSUME NEW i \in Incarnation, spot \in {<<"channel", i>>, <<"door", i>>, <<"claim", i>>}
        PROVE  At(spot[1], spot[2]) = {}
    BY <1>4, <2>1
  <2>2. CASE spot \in {<<"slot", 0>>, <<"consumed", 0>>, <<"dead", 0>>}
    BY <1>5, <2>2
  <2>3. ASSUME NEW s \in Senders, spot = <<"sender", s>>
        PROVE  At(spot[1], spot[2]) = At("sender", s)
    BY <2>3
  <2>4. QED
    BY SpotIs, <2>1, <2>2, <2>3
<1>7. SpotInv
  <2> SUFFICES ASSUME NEW e \in Envelope
               PROVE  /\ e \in Sendable => \E a : Where(e) = {a}
                      /\ e \notin Sendable => Where(e) = {}
    BY DEF SpotInv
  <2>1. \A spot \in Where(e) : \E s \in Senders : /\ spot = <<"sender", s>>
                                                  /\ e \in At("sender", s)
    BY <1>6 DEF Where
  <2>2. CASE e \in Sendable
    <3>1. PICK s \in Senders : e \in At("sender", s)
      BY <1>3, <2>2 DEF Sendable
    <3>2. PICK a \in Spot : a = <<"sender", s>>
      BY SpotIs
    <3>3. a \in Where(e)
      BY <3>1, <3>2 DEF Where
    <3>4. \A r \in Senders : e \in At("sender", r) => r = s
      BY <1>3, <3>1 DEF DistinctPrograms
    <3>5. Where(e) = {a}
      BY <2>1, <3>2, <3>3, <3>4
    <3>6. QED
      BY <2>2, <3>5
  <2>3. CASE e \notin Sendable
    <3>1. \A s \in Senders : e \notin At("sender", s)
      BY <1>3, <2>3 DEF Sendable
    <3>2. Where(e) = {}
      BY <2>1, <3>1
    <3>3. QED
      BY <2>3, <3>2
  <2>4. QED
    BY <2>2, <2>3
<1>8. OnceInv
  <2>1. Live(inbox) = {} /\ \A i \in Incarnation : Held(i) = {} /\ chan[i] = <<>>
    BY ConstantsAre DEF Init, EmptyInbox, Live, Held, NoClaims
  <2>2. consumed = <<>> /\ \A e \in Envelope : dead[e] <= 1
    BY DEF Init
  <2>3. QED
    BY <2>1, <2>2, RangeSmall DEF OnceInv
<1>9. RoomInv
  <2>1. \A e \in Sendable : \E spot \in Way : e \in At(spot[1], spot[2])
    <3> SUFFICES ASSUME NEW e \in Sendable
                 PROVE  \E spot \in Way : e \in At(spot[1], spot[2])
      OBVIOUS
    <3>1. PICK s \in Senders : e \in At("sender", s)
      BY <1>3 DEF Sendable
    <3>2. PICK a \in Way : a = <<"sender", s>>
      BY SpotIs
    <3>3. QED
      BY <3>1, <3>2
  <2>2. Arrived = {}
    BY <2>1 DEF Arrived
  <2>3. inbox.next = 0
    BY DEF Init, EmptyInbox
  <2>4. QED
    BY <2>2, <2>3, FS_EmptySet DEF RoomInv
<1>10. QED
  BY <1>7, <1>8, <1>9 DEF Placed

LEMMA UnsentRests == UNCHANGED <<at, idx>> => \A s \in Senders : Unsent(s)' = Unsent(s)
BY DEF Unsent

(* A push that queues puts what was on its way in a free slot.             *)
LEMMA PushQueues ==
  ASSUME Sorted, NEW a \in Way, NEW e \in Envelope, e \in At(a[1], a[2]),
         inbox' = Push(inbox, e), PushAnswer(inbox) = "Queued"
  PROVE  /\ inbox'.next = inbox.next + 1
         /\ At("slot", 0)' = At("slot", 0) \cup {e}
         /\ \A o, p \in Live(inbox') : inbox'.slots[o] = inbox'.slots[p] => o = p
<1>1. inbox \in InboxType /\ SpotInv /\ OnceInv /\ KindInv /\ KeepInv /\ Policy # "DropOld"
  BY DEF Sorted, Placed, KindInv, TypeOK
<1>2. PICK new : new = inbox'
  OBVIOUS
<1>3. new = QueueNext(inbox, e)
  BY <1>1, <1>2, PushIs
<1>4. /\ new.next = inbox.next + 1
      /\ \A o \in Offset : new.slots[o] = IF o = inbox.next THEN e ELSE inbox.slots[o]
  BY <1>1, <1>3, QueueNextIs
<1>5. PICK n \in Offset : n = inbox.next
  BY RoomLeft
<1>6. inbox.slots[n] = Vacant
  <2>1. ~(n < n)
    BY DEF Offset
  <2>2. QED
    BY <1>1, <1>5, <2>1, KeepIs
<1>7. /\ n \notin Live(inbox) /\ Live(new) = Live(inbox) \cup {n}
      /\ new.slots[n] = e /\ \A o \in Live(inbox) : new.slots[o] = inbox.slots[o]
  <2>1. n \notin Live(inbox)
    BY <1>6, ConstantsAre DEF Live
  <2>2. new.slots[n] = e /\ \A o \in Offset \ {n} : new.slots[o] = inbox.slots[o]
    BY <1>4, <1>5
  <2>3. QED
    BY <2>1, <2>2 DEF Live
<1>8. e \notin {inbox.slots[o] : o \in Live(inbox)}
  <2>1. PICK b \in Spot \ Way : b = <<"slot", 0>>
    BY SpotIs
  <2>2. e \notin At(b[1], b[2])
    BY <1>1, <2>1, SpotIs, OneSpot
  <2>3. QED
    BY <2>1, <2>2, AtIs
<1>9. At("slot", 0)' = At("slot", 0) \cup {e}
  <2>1. At("slot", 0)' = {new.slots[o] : o \in Live(new)}
    BY <1>2, AtIsNext
  <2>2. At("slot", 0) = {inbox.slots[o] : o \in Live(inbox)}
    BY AtIs
  <2>3. QED
    BY <1>7, <2>1, <2>2
<1>10. \A o, p \in Live(new) : new.slots[o] = new.slots[p] => o = p
  BY <1>1, <1>7, <1>8 DEF OnceInv
<1>11. QED
  BY <1>2, <1>4, <1>9, <1>10

LEMMA MailSenders ==
  ASSUME Sorted, NEW s \in Senders, SenderStep(s)
  PROVE  Placed'
<1>0. /\ KindInv /\ TypeOK /\ OnceInv /\ SpotInv
      /\ at \in [Senders -> {"send", "resolved", "pushed", "refused", "panicked"}]
      /\ idx \in [Senders -> Nat]
  BY DEF Sorted, KindInv, TypeOK, Placed
<1>1. PICK a \in Way : a = <<"sender", s>>
  BY SpotIs
<1>2. a[1] = "sender" /\ a[2] = s /\ a \in Spot
  BY <1>1, SpotIs
<1>3. \A r \in Senders : idx'[r] = idx[r] /\ at'[r] = at[r] => Unsent(r)' = Unsent(r)
  BY <1>0, UnsentIs
<1>4. /\ inbox'.slots = inbox.slots \/ DirectPush(s)
      /\ UNCHANGED <<held, claims, consumed>>
      /\ \A r \in Senders \ {s} : idx'[r] = idx[r] /\ at'[r] = at[r]
  BY <1>0 DEF SenderStep, Resolve, DirectPush, NotifyAfterPush, DeliverToDoor, loopVars, doorVars
<1>5. \A r \in Senders \ {s} : Unsent(r)' = Unsent(r)
  BY <1>3, <1>4
<1>6. CASE Resolve(s) /\ slot = "gone"
  <2>1. /\ at[s] = "send" /\ Sending(s) /\ DeadLetter({Message(s)})
        /\ idx'[s] = idx[s] + 1 /\ at'[s] = "send"
        /\ UNCHANGED <<inbox, chan, held, claims, consumed>>
    BY <1>0, <1>6 DEF Resolve, doorVars, loopVars
  <2>2. PICK e \in Envelope :
          /\ e = Message(s) /\ e \in At("sender", s)
          /\ At("sender", s)' = At("sender", s) \ {e}
    BY <2>1, LetsGo
  <2>3. PICK b \in Spot \ Way : b = <<"dead", 0>>
    BY SpotIs
  <2>4. /\ At(b[1], b[2])' = At(b[1], b[2]) \cup {e}
        /\ \A f \in Envelope : dead'[f] <= 1
    BY <1>1, <1>2, <2>1, <2>2, <2>3, DeadMoves
  <2>5. Still(a, b)
    BY <1>1, <1>5, <2>1, <2>3, StillIs
  <2>6. SpotInv' /\ RoomInv'
    <3>1. e \in At(a[1], a[2]) /\ At(a[1], a[2])' = At(a[1], a[2]) \ {e}
      BY <1>2, <2>2
    <3>2. inbox'.next = inbox.next /\ a # b /\ b \in Spot /\ b \notin Way
      BY <2>1, <2>3
    <3>3. QED
      BY <1>2, <2>4, <2>5, <3>1, <3>2, MessageMoves
  <2>7. OnceInv'
    BY <1>0, <2>1, <2>4 DEF OnceInv, Held, Live
  <2>8. QED
    BY <2>6, <2>7 DEF Placed
<1>7. CASE Resolve(s) /\ slot # "gone"
  <2>1. /\ at[s] = "send" /\ at'[s] = "resolved" /\ idx'[s] = idx[s]
        /\ UNCHANGED <<inbox, chan, held, claims, consumed, dead>>
    BY <1>0, <1>7 DEF Resolve, doorVars, loopVars
  <2>2. Unsent(s)' = Unsent(s)
    BY <1>0, <2>1, UnsentIs
  <2>3. QED
    BY <1>5, <2>1, <2>2, MailRests
<1>8. CASE DirectPush(s)
  <2>1. /\ at[s] = "resolved" /\ inbox' = Push(inbox, Message(s))
        /\ idx'[s] = idx[s]
        /\ UNCHANGED <<chan, held, claims, consumed>>
    BY <1>8 DEF DirectPush, doorVars, loopVars
  <2>2. PICK answer : answer = PushAnswer(inbox)
    OBVIOUS
  <2>3. /\ inbox \in InboxType /\ Message(s) \in Envelope
        /\ inbox.policy # "DropOld"
    BY <1>0, <2>1, MessageIs DEF TypeOK, Sorted, KeepInv
  <2>4. answer \in {"Queued", "Full", "Closed"}
    BY <2>2, <2>3, PushIs
  <2>5. UNCHANGED dead
    BY <1>8, <2>2, <2>4 DEF DirectPush
  <2>6. at'[s] = IF answer = "Queued" THEN "pushed" ELSE "refused"
    <3>1. at' = [at EXCEPT ![s] = CASE answer \in {"Queued", "Evicted"} -> "pushed"
                                    [] answer \in {"Full", "Closed"}    -> "refused"
                                    [] answer = "EvictPanic"            -> "panicked"]
      BY <1>8, <2>2 DEF DirectPush
    <3>2. at'[s] = CASE answer \in {"Queued", "Evicted"} -> "pushed"
                     [] answer \in {"Full", "Closed"}    -> "refused"
                     [] answer = "EvictPanic"            -> "panicked"
      BY <1>0, <3>1
    <3>3. QED
      BY <2>4, <3>2
  <2>7. CASE answer = "Queued"
    <3>1. PICK e \in Envelope :
            /\ e = Message(s) /\ e \in At("sender", s)
            /\ At("sender", s)' = At("sender", s) \ {e}
      BY <2>1, <2>6, <2>7, LetsGo
    <3>2. /\ inbox'.next = inbox.next + 1
          /\ At("slot", 0)' = At("slot", 0) \cup {e}
          /\ \A o, p \in Live(inbox') : inbox'.slots[o] = inbox'.slots[p] => o = p
      BY <1>1, <1>2, <2>1, <2>2, <2>7, <3>1, PushQueues
    <3>3. PICK b \in Spot \ Way : b = <<"slot", 0>>
      BY SpotIs
    <3>4. Still(a, b)
      BY <1>1, <1>5, <2>1, <2>5, <3>3, StillIs
    <3>5. SpotInv' /\ RoomInv'
      <4>1. e \in At(a[1], a[2]) /\ At(a[1], a[2])' = At(a[1], a[2]) \ {e}
        BY <1>2, <3>1
      <4>2. At(b[1], b[2])' = At(b[1], b[2]) \cup {e}
        BY <3>2, <3>3
      <4>3. a # b /\ b \in Spot /\ b \notin Way
        BY <3>3
      <4>4. QED
        BY <1>2, <3>2, <3>4, <4>1, <4>2, <4>3, MessageMoves
    <3>6. OnceInv'
      BY <1>0, <2>1, <2>5, <3>2 DEF OnceInv, Held
    <3>7. QED
      BY <3>5, <3>6 DEF Placed
  <2>8. CASE answer # "Queued"
    <3>1. inbox' = inbox
      BY <2>1, <2>2, <2>3, <2>4, <2>8, PushIs
    <3>2. Unsent(s)' = Unsent(s)
      BY <1>0, <2>1, <2>6, <2>8, UnsentIs
    <3>3. QED
      BY <1>5, <2>1, <2>5, <3>1, <3>2, MailRests
  <2>9. QED
    BY <2>7, <2>8
<1>9. CASE NotifyAfterPush(s)
  <2>1. /\ at[s] = "pushed" /\ at'[s] = "send" /\ idx'[s] = idx[s] + 1
        /\ UNCHANGED <<inbox, chan, held, claims, consumed, dead>>
    BY <1>0, <1>9 DEF NotifyAfterPush, doorVars
  <2>2. Unsent(s)' = Unsent(s)
    BY <1>0, <2>1, UnsentIs
  <2>3. QED
    BY <1>5, <2>1, <2>2, MailRests
<1>10. CASE DeliverToDoor(s)
  <2>1. PICK i \in Incarnation : i = target[s]
    BY <1>0 DEF TypeOK
  <2>2. /\ at[s] = "refused" /\ at'[s] = "send" /\ idx'[s] = idx[s] + 1
        /\ chan' = [chan EXCEPT ![i] = Append(chan[i], Message(s))]
        /\ UNCHANGED <<inbox, held, claims, consumed, dead>>
    BY <1>0, <1>10, <2>1 DEF DeliverToDoor, loopVars
  <2>3. PICK e \in Envelope :
          /\ e = Message(s) /\ e \in At("sender", s)
          /\ At("sender", s)' = At("sender", s) \ {e}
    BY <2>2, LetsGo
  <2>4. PICK b \in Spot : b = <<"channel", i>>
    BY SpotIs
  <2>5. PICK q \in Seq(Envelope) : q = chan[i]
    BY <1>0 DEF TypeOK
  <2>6. chan'[i] = Append(q, e) /\ \A j \in Incarnation \ {i} : chan'[j] = chan[j]
    BY <1>0, <2>2, <2>3, <2>5 DEF TypeOK
  <2>7. At(b[1], b[2]) = Range(q) /\ At(b[1], b[2])' = Range(Append(q, e))
    <3>1. b[1] = "channel" /\ b[2] = i
      BY <2>4
    <3>2. QED
      BY <2>5, <2>6, <3>1, AtIs, AtIsNext
  <2>8. e \notin Range(q)
    BY <1>0, <1>1, <1>2, <2>3, <2>4, <2>7, OneSpot
  <2>9. Range(Append(q, e)) = Range(q) \cup {e} /\ IsInjective(Append(q, e))
    BY <1>0, <2>5, <2>8, RangeAppend DEF OnceInv
  <2>10. Still(a, b)
    BY <1>1, <1>5, <2>2, <2>4, <2>6, StillIs
  <2>11. SpotInv' /\ RoomInv'
    <3>1. e \in At(a[1], a[2]) /\ At(a[1], a[2])' = At(a[1], a[2]) \ {e}
      BY <1>2, <2>3
    <3>2. At(b[1], b[2])' = At(b[1], b[2]) \cup {e}
      BY <2>7, <2>9
    <3>3. inbox'.next = inbox.next /\ a # b
      BY <1>1, <2>2, <2>4
    <3>4. QED
      BY <1>2, <2>10, <3>1, <3>2, <3>3, MessageMoves
  <2>12. OnceInv'
    BY <1>0, <2>2, <2>6, <2>9 DEF OnceInv, Held, Live
  <2>13. QED
    BY <2>11, <2>12 DEF Placed
<1>11. QED
  BY <1>6, <1>7, <1>8, <1>9, <1>10 DEF SenderStep

LEMMA MailDoors ==
  ASSUME Sorted, NEW d \in Incarnation, DoorStep(d)
  PROVE  Placed'
<1>0. /\ KindInv /\ TypeOK /\ OnceInv /\ SpotInv
      /\ held \in [Incarnation -> Envelope \cup {Vacant}]
      /\ chan \in [Incarnation -> Seq(Envelope)]
      /\ inbox \in InboxType /\ inbox.policy # "DropOld"
  BY DEF Sorted, KindInv, TypeOK, Placed, KeepInv
<1>1. UNCHANGED <<at, idx, claims, consumed>>
  BY DEF DoorStep, DoorReceive, DoorPush, DoorNotify, DoorHold, DoorPark, DoorRefuse, DoorPanic,
         loopVars, senderVars
<1>2. \A s \in Senders : Unsent(s)' = Unsent(s)
  BY <1>1, UnsentRests
<1>3. PICK a \in Way : a = <<"door", d>>
  BY SpotIs
<1>4. a[1] = "door" /\ a[2] = d /\ a \in Spot
  BY <1>3, SpotIs
<1>5. CASE DoorReceive(d)
  <2>1. PICK q \in Seq(Envelope) : q = chan[d]
    BY <1>0
  <2>2. /\ held[d] = Vacant /\ q # <<>>
        /\ held' = [held EXCEPT ![d] = Head(q)] /\ chan' = [chan EXCEPT ![d] = Tail(q)]
        /\ UNCHANGED <<inbox, dead>>
    BY <1>5, <2>1 DEF DoorReceive
  <2>3. PICK e \in Envelope : e = Head(q)
    BY <2>2, RangeHeadTail
  <2>4. /\ e \in Range(q) /\ Range(Tail(q)) = Range(q) \ {e} /\ IsInjective(Tail(q))
    BY <1>0, <2>1, <2>2, <2>3, RangeHeadTail DEF OnceInv
  <2>5. PICK c \in Way : c = <<"channel", d>>
    BY SpotIs
  <2>6. c[1] = "channel" /\ c[2] = d /\ c \in Spot
    BY <2>5, SpotIs
  <2>7. /\ chan'[d] = Tail(q) /\ \A j \in Incarnation \ {d} : chan'[j] = chan[j]
        /\ held'[d] = e /\ \A j \in Incarnation \ {d} : held'[j] = held[j]
    BY <1>0, <2>2, <2>3
  <2>8. At(c[1], c[2]) = Range(q) /\ At(c[1], c[2])' = Range(q) \ {e}
    BY <2>1, <2>4, <2>6, <2>7, AtIs, AtIsNext
  <2>9. At(a[1], a[2])' = At(a[1], a[2]) \cup {e}
    <3>1. At("door", d) = {} /\ At("door", d)' = {e} \ {Vacant}
      BY <2>2, <2>7, AtIs, AtIsNext
    <3>2. QED
      BY <1>4, <3>1, ConstantsAre
  <2>10. Still(c, a)
    BY <1>1, <1>2, <1>3, <2>2, <2>5, <2>7, StillIs
  <2>11. SpotInv' /\ RoomInv'
    <3>1. e \in At(c[1], c[2]) /\ At(c[1], c[2])' = At(c[1], c[2]) \ {e}
      BY <2>4, <2>8
    <3>2. inbox'.next = inbox.next /\ c # a
      BY <1>3, <2>2, <2>5
    <3>3. QED
      BY <1>4, <2>6, <2>5, <2>9, <2>10, <3>1, <3>2, MessageMoves
  <2>12. OnceInv'
    BY <1>0, <1>1, <2>2, <2>4, <2>7 DEF OnceInv, Held, Live
  <2>13. QED
    BY <2>11, <2>12 DEF Placed
<1>6. CASE UNCHANGED <<inbox, chan, held, dead>>
  BY <1>1, <1>2, <1>6, MailRests
<1>7. ASSUME held[d] # Vacant, held' = [held EXCEPT ![d] = Vacant], UNCHANGED chan
      PROVE  /\ held[d] \in Envelope /\ held[d] \in At(a[1], a[2])
             /\ At(a[1], a[2])' = At(a[1], a[2]) \ {held[d]}
             /\ \A j \in Incarnation \ {d} : held'[j] = held[j]
  <2>1. held[d] \in Envelope /\ held'[d] = Vacant /\ \A j \in Incarnation \ {d} : held'[j] = held[j]
    BY <1>0, <1>7
  <2>2. At("door", d) = {held[d]} /\ At("door", d)' = {}
    BY <1>7, <2>1, AtIs, AtIsNext
  <2>3. QED
    BY <1>4, <2>1, <2>2
<1>8. CASE DoorPush(d)
  <2>1. /\ held[d] # Vacant /\ held' = [held EXCEPT ![d] = Vacant]
        /\ PushAnswer(inbox) = "Queued" /\ inbox' = Push(inbox, held[d])
        /\ UNCHANGED <<chan, dead>>
    BY <1>8 DEF DoorPush
  <2>2. PICK e \in Envelope : e = held[d]
    BY <1>7, <2>1
  <2>3. /\ e \in At(a[1], a[2]) /\ At(a[1], a[2])' = At(a[1], a[2]) \ {e}
        /\ \A j \in Incarnation \ {d} : held'[j] = held[j]
    BY <1>7, <2>1, <2>2
  <2>4. /\ inbox'.next = inbox.next + 1
        /\ At("slot", 0)' = At("slot", 0) \cup {e}
        /\ \A o, p \in Live(inbox') : inbox'.slots[o] = inbox'.slots[p] => o = p
    BY <2>1, <2>2, <2>3, PushQueues
  <2>5. PICK b \in Spot \ Way : b = <<"slot", 0>>
    BY SpotIs
  <2>6. Still(a, b)
    BY <1>1, <1>2, <1>3, <2>1, <2>3, <2>5, StillIs
  <2>7. SpotInv' /\ RoomInv'
    <3>1. At(b[1], b[2])' = At(b[1], b[2]) \cup {e}
      BY <2>4, <2>5
    <3>2. a # b /\ b \in Spot /\ b \notin Way
      BY <2>5
    <3>3. QED
      BY <1>4, <2>3, <2>4, <2>6, <3>1, <3>2, MessageMoves
  <2>8. OnceInv'
    BY <1>0, <1>1, <2>1, <2>4 DEF OnceInv, Held
  <2>9. QED
    BY <2>7, <2>8 DEF Placed
<1>9. CASE DoorRefuse(d)
  <2>1. PICK answer : answer = PushAnswer(inbox)
    OBVIOUS
  <2>2. answer \in {"Full", "Closed"}
    <3>1. held[d] # Vacant
      BY <1>9 DEF DoorRefuse
    <3>2. held[d] \in Envelope
      BY <1>0, <3>1
    <3>3. answer # "Evicted" /\ answer # "EvictPanic"
      BY <1>0, <2>1, <3>2, PushIs
    <3>4. QED
      BY <1>9, <2>1, <3>3 DEF DoorRefuse
  <2>3. /\ held[d] # Vacant /\ held' = [held EXCEPT ![d] = Vacant]
        /\ DeadLetter({held[d]}) /\ inbox' = Push(inbox, held[d]) /\ UNCHANGED chan
    BY <1>9, <2>1, <2>2 DEF DoorRefuse
  <2>4. PICK e \in Envelope : e = held[d]
    BY <1>7, <2>3
  <2>5. inbox' = inbox
    BY <1>0, <2>1, <2>2, <2>3, <2>4, PushIs
  <2>6. /\ e \in At(a[1], a[2]) /\ At(a[1], a[2])' = At(a[1], a[2]) \ {e}
        /\ \A j \in Incarnation \ {d} : held'[j] = held[j]
    BY <1>7, <2>3, <2>4
  <2>7. PICK b \in Spot \ Way : b = <<"dead", 0>>
    BY SpotIs
  <2>8. /\ At(b[1], b[2])' = At(b[1], b[2]) \cup {e}
        /\ \A f \in Envelope : dead'[f] <= 1
    BY <1>3, <1>4, <2>3, <2>4, <2>6, <2>7, DeadMoves
  <2>9. Still(a, b)
    BY <1>1, <1>2, <1>3, <2>3, <2>5, <2>6, <2>7, StillIs
  <2>10. SpotInv' /\ RoomInv'
    <3>1. inbox'.next = inbox.next /\ a # b /\ b \in Spot /\ b \notin Way
      BY <2>5, <2>7
    <3>2. QED
      BY <1>4, <2>6, <2>8, <2>9, <3>1, MessageMoves
  <2>11. OnceInv'
    BY <1>0, <1>1, <2>3, <2>5, <2>8 DEF OnceInv, Held, Live
  <2>12. QED
    BY <2>10, <2>11 DEF Placed
<1>10. CASE DoorPanic(d)
  <2>1. held[d] \in Envelope /\ PushAnswer(inbox) = "EvictPanic"
    BY <1>0, <1>10 DEF DoorPanic
  <2>2. QED
    BY <1>0, <2>1, PushIs
<1>11. QED
  BY <1>5, <1>6, <1>8, <1>9, <1>10 DEF DoorStep, DoorNotify, DoorHold, DoorPark

(* A claim takes envelopes out of their slots.                             *)
LEMMA MailClaim ==
  ASSUME Sorted, NEW i \in Incarnation, Claim(i)
  PROVE  Placed'
<1>0. /\ KindInv /\ TypeOK /\ KeepInv /\ OnceInv /\ inbox \in InboxType /\ Policy # "DropOld"
      /\ claims \in [Incarnation -> [Offset -> Envelope \cup {Vacant}]]
  BY DEF Sorted, KindInv, TypeOK, Placed
<1>1. /\ UNCHANGED <<at, idx, chan, held, consumed, dead>>
      /\ \A s \in Senders : Unsent(s)' = Unsent(s)
  BY UnsentRests DEF Claim, doorVars, senderVars
<1>2. CASE UNCHANGED <<inbox, claims>>
  BY <1>1, <1>2, MailRests
<1>3. CASE ~UNCHANGED <<inbox, claims>>
  <2>1. PICK run : run = ClaimRun(inbox, Batch)
    OBVIOUS
  <2>2. PICK taken : taken = Contents(inbox, run)
    OBVIOUS
  <2>3. /\ ~ClaimPanics(inbox, Batch) /\ run # {}
        /\ inbox' = Take(inbox, run) /\ claims' = [claims EXCEPT ![i] = taken]
    BY <1>3, <2>1, <2>2 DEF Claim
  <2>4. /\ run \subseteq Offset
        /\ \A o \in run : inbox.slots[o] \in Envelope
        /\ \A o \in run : taken[o] = inbox.slots[o]
        /\ \A o \in Offset \ run : taken[o] = Vacant
    BY <1>0, <2>1, <2>2, <2>3, RunIs
  <2>5. /\ inbox'.next = inbox.next
        /\ \A o \in Offset : inbox'.slots[o] = IF o \in run THEN Tombstone ELSE inbox.slots[o]
    BY <1>0, <2>3, TakeIs
  <2>6. Held(i) = {}
    BY <1>0, <2>1, <2>3, FreeToTake
  <2>7. claims'[i] = taken /\ \A j \in Incarnation \ {i} : claims'[j] = claims[j]
    BY <1>0, <2>3
  <2>8. Held(i)' = run
    <3>1. \A o \in Offset : taken[o] # Vacant <=> o \in run
      BY <2>4, ConstantsAre
    <3>2. QED
      BY <2>4, <2>7, <3>1 DEF Held
  <2>9. /\ run \subseteq Live(inbox) /\ Live(inbox') = Live(inbox) \ run
        /\ \A o \in Live(inbox) \ run : inbox'.slots[o] = inbox.slots[o]
    <3>1. run \subseteq Live(inbox)
      BY <2>4 DEF Live
    <3>2. \A o \in Offset : inbox'.slots[o] \in Envelope <=> o \in Live(inbox) /\ o \notin run
      BY <2>5, ConstantsAre DEF Live
    <3>3. Live(inbox') = {o \in Offset : inbox'.slots[o] \in Envelope}
      BY DEF Live
    <3>4. Live(inbox') = Live(inbox) \ run
      BY <3>2, <3>3 DEF Live
    <3>5. QED
      BY <2>5, <3>1, <3>4 DEF Live
  <2>10. PICK x : x = {inbox.slots[o] : o \in run}
    OBVIOUS
  <2>11. PICK a \in Spot \ Way : a = <<"slot", 0>>
    BY SpotIs
  <2>12. PICK b \in Spot \ Way : b = <<"claim", i>>
    BY SpotIs
  <2>13. \A o, p \in Live(inbox) : inbox.slots[o] = inbox.slots[p] => o = p
    BY <1>0 DEF OnceInv
  <2>14. /\ x \subseteq At(a[1], a[2]) /\ x \subseteq Envelope
         /\ At(a[1], a[2])' = At(a[1], a[2]) \ x
    <3>1. At("slot", 0) = {inbox.slots[o] : o \in Live(inbox)}
      BY AtIs
    <3>2. At("slot", 0)' = {inbox.slots[o] : o \in Live(inbox) \ run}
      BY <2>9, AtIsNext
    <3>3. x \subseteq At("slot", 0) /\ x \subseteq Envelope
      BY <2>4, <2>9, <2>10, <3>1
    <3>4. At("slot", 0)' = At("slot", 0) \ x
      BY <2>9, <2>10, <2>13, <3>1, <3>2
    <3>5. QED
      BY <2>11, <3>3, <3>4
  <2>15. At(b[1], b[2])' = At(b[1], b[2]) \cup x
    <3>1. At("claim", i) = {} /\ At("claim", i)' = x
      BY <2>4, <2>6, <2>7, <2>8, <2>10, AtIs, AtIsNext
    <3>2. QED
      BY <2>12, <3>1
  <2>16. Still(a, b)
    BY <1>1, <2>7, <2>11, <2>12, StillIs
  <2>17. SpotInv' /\ RoomInv'
    BY <2>5, <2>11, <2>12, <2>14, <2>15, <2>16, SpotsMove
  <2>18. OnceInv'
    <3>1. \A o, p \in Live(inbox') : inbox'.slots[o] = inbox'.slots[p] => o = p
      BY <2>9, <2>13
    <3>2. \A o, p \in Held(i)' : claims'[i][o] = claims'[i][p] => o = p
      BY <2>4, <2>7, <2>8, <2>9, <2>13
    <3>3. \A j \in Incarnation \ {i} : Held(j)' = Held(j)
      BY <2>7 DEF Held
    <3>4. QED
      BY <1>0, <1>1, <2>7, <3>1, <3>2, <3>3 DEF OnceInv
  <2>19. QED
    BY <2>17, <2>18 DEF Placed
<1>4. QED
  BY <1>2, <1>3

(* What a commit pops is the front of the queue, which is in the step's    *)
(* hands: no envelope is in a slot it removes.                             *)
LEMMA PopsNoEnvelope ==
  ASSUME Sorted, NEW i \in Incarnation, Held(i) # {},
         NEW top \in Nat, top <= Max(Held(i)), inbox' = CommitThrough(inbox, top)
  PROVE  /\ inbox'.next = inbox.next /\ Live(inbox') = Live(inbox)
         /\ \A o \in Live(inbox) : inbox'.slots[o] = inbox.slots[o]
<1>0. KindInv /\ KeepInv /\ Policy # "DropOld" /\ inbox \in InboxType
  BY DEF Sorted, KindInv, TypeOK
<1>1. PICK hi : hi = Max(Held(i))
  OBVIOUS
<1>2. Held(i) = inbox.cursor .. hi /\ hi \in Nat /\ inbox.cursor \in Nat
  BY <1>0, <1>1, FrontIs, KeepIs
<1>3. PICK new : new = inbox'
  OBVIOUS
<1>4. /\ new.next = inbox.next
      /\ \A o \in Offset : new.slots[o] = IF o <= top THEN Vacant ELSE inbox.slots[o]
  BY <1>0, <1>3, CommitThroughIs, ZenonT(60)
<1>5. \A o \in Live(inbox) : /\ o \in Offset /\ o \in Nat /\ inbox.cursor <= o
                             /\ inbox.slots[o] \in Envelope
  BY <1>0, KeepIs, ConstantsAre DEF Live
<1>6. \A o \in Held(i) : inbox.slots[o] = Tombstone
  BY <1>0, KeepIs
<1>7. \A o \in Live(inbox) : ~(o <= hi)
  <2> SUFFICES ASSUME NEW o \in Live(inbox), o <= hi
               PROVE  FALSE
    OBVIOUS
  <2>1. o \in Held(i)
    BY <1>2, <1>5
  <2>2. QED
    BY <1>5, <1>6, <2>1, ConstantsAre
<1>8. \A o \in Live(inbox) : ~(o <= top)
  BY <1>1, <1>2, <1>5, <1>7
<1>9. \A o \in Live(inbox) : new.slots[o] = inbox.slots[o]
  BY <1>4, <1>5, <1>8
<1>10. \A o \in Offset : new.slots[o] \in Envelope => o \in Live(inbox)
  BY <1>4, ConstantsAre DEF Live
<1>11. Live(new) = Live(inbox)
  BY <1>5, <1>9, <1>10 DEF Live
<1>12. QED
  BY <1>3, <1>4, <1>9, <1>11

LEMMA MailCommits ==
  ASSUME Sorted, NEW i \in Incarnation, CommitBatch(i) \/ CommitOne(i)
  PROVE  Placed'
<1>0. /\ KindInv /\ TypeOK /\ KeepInv /\ OnceInv /\ SpotInv /\ Policy # "DropOld"
      /\ claims \in [Incarnation -> [Offset -> Envelope \cup {Vacant}]]
      /\ consumed \in Seq(Envelope) /\ IsInjective(consumed)
  BY DEF Sorted, KindInv, TypeOK, Placed, OnceInv
<1>1. /\ UNCHANGED <<at, idx, chan, held, dead>> /\ loop[i] = "claimed"
      /\ \A s \in Senders : Unsent(s)' = Unsent(s)
  BY UnsentRests DEF CommitBatch, CommitOne, senderVars
<1>2. Held(i) # {}
  BY <1>0, <1>1 DEF KindInv, LoopInv
<1>3. PICK lo, hi : lo = Min(Held(i)) /\ hi = Max(Held(i))
  OBVIOUS
<1>4. lo \in Held(i) /\ hi \in Held(i) /\ lo \in Nat /\ hi \in Nat /\ lo <= hi
  BY <1>0, <1>2, <1>3, HeldIs, SpanIs
<1>5. PICK a \in Spot \ Way : a = <<"claim", i>>
  BY SpotIs
<1>6. PICK b \in Spot \ Way : b = <<"consumed", 0>>
  BY SpotIs
<1>7. /\ At(a[1], a[2]) = {claims[i][o] : o \in Held(i)}
      /\ At(a[1], a[2])' = {claims'[i][o] : o \in Held(i)'}
      /\ At(b[1], b[2]) = Range(consumed) /\ At(b[1], b[2])' = Range(consumed')
  BY <1>5, <1>6, AtIs, AtIsNext
<1>8. \A o \in Held(i) : o \in Offset /\ claims[i][o] \in Envelope
  BY <1>0, HeldIs
<1>9. \A o \in Held(i) : claims[i][o] \notin Range(consumed)
  <2> SUFFICES ASSUME NEW o \in Held(i)
               PROVE  claims[i][o] \notin Range(consumed)
    OBVIOUS
  <2>1. PICK e \in Envelope : e = claims[i][o]
    BY <1>8
  <2>2. e \in At(a[1], a[2])
    BY <1>7, <2>1
  <2>3. e \notin At(b[1], b[2])
    BY <1>0, <1>5, <1>6, <2>2, OneSpot
  <2>4. QED
    BY <1>7, <2>1, <2>3
<1>10. \A o, p \in Held(i) : claims[i][o] = claims[i][p] => o = p
  BY <1>0 DEF OnceInv
<1>11. ASSUME NEW top \in Nat, top <= hi, inbox' = CommitThrough(inbox, top),
              \A j \in Incarnation \ {i} : claims'[j] = claims[j],
              \A o, p \in Held(i)' : claims'[i][o] = claims'[i][p] => o = p,
              IsInjective(consumed')
       PROVE  Still(a, b) /\ OnceInv' /\ inbox'.next = inbox.next
  <2>1. /\ inbox'.next = inbox.next /\ Live(inbox') = Live(inbox)
        /\ \A o \in Live(inbox) : inbox'.slots[o] = inbox.slots[o]
    BY <1>2, <1>3, <1>11, PopsNoEnvelope
  <2>2. Still(a, b)
    BY <1>1, <1>5, <1>6, <1>11, <2>1, StillLive
  <2>3. \A j \in Incarnation \ {i} : Held(j)' = Held(j)
    BY <1>11 DEF Held
  <2>4. \A o, p \in Live(inbox') : inbox'.slots[o] = inbox'.slots[p] => o = p
    BY <1>0, <2>1 DEF OnceInv
  <2>5. OnceInv'
    BY <1>0, <1>1, <1>11, <2>3, <2>4 DEF OnceInv
  <2>6. QED
    BY <2>1, <2>2, <2>5
<1>12. CASE CommitBatch(i)
  <2>1. PICK batch :
          batch = [k \in 1 .. Cardinality(Held(i)) |-> claims[i][Min(Held(i)) + k - 1]]
    OBVIOUS
  <2>2. /\ consumed' = consumed \o batch /\ inbox' = CommitThrough(inbox, hi)
        /\ claims' = [claims EXCEPT ![i] = NoClaims]
    BY <1>3, <1>12, <2>1 DEF CommitBatch
  <2>3. /\ batch \in Seq(Envelope) /\ IsInjective(batch)
        /\ Range(batch) = {claims[i][o] : o \in Held(i)}
    BY <1>0, <1>2, <1>10, <2>1, BatchIs
  <2>4. PICK x : x = Range(batch)
    OBVIOUS
  <2>5. Range(consumed) \cap Range(batch) = {}
    BY <1>9, <2>3
  <2>6. Range(consumed') = Range(consumed) \cup x /\ IsInjective(consumed')
    BY <1>0, <2>2, <2>3, <2>4, <2>5, RangeConcat
  <2>7. claims'[i] = NoClaims /\ \A j \in Incarnation \ {i} : claims'[j] = claims[j]
    BY <1>0, <2>2
  <2>8. Held(i)' = {}
    BY <2>7 DEF Held, NoClaims
  <2>9. /\ x \subseteq At(a[1], a[2]) /\ x \subseteq Envelope
        /\ At(a[1], a[2])' = At(a[1], a[2]) \ x
        /\ At(b[1], b[2])' = At(b[1], b[2]) \cup x
    BY <1>7, <1>8, <2>3, <2>4, <2>6, <2>8
  <2>10. Still(a, b) /\ OnceInv' /\ inbox'.next = inbox.next
    BY <1>4, <1>11, <2>2, <2>6, <2>7, <2>8
  <2>11. SpotInv' /\ RoomInv'
    BY <1>5, <1>6, <2>9, <2>10, SpotsMove
  <2>12. QED
    BY <2>10, <2>11 DEF Placed
<1>13. CASE CommitOne(i)
  <2>1. /\ consumed' = Append(consumed, claims[i][lo]) /\ inbox' = CommitThrough(inbox, lo)
        /\ claims' = [claims EXCEPT ![i][lo] = Vacant]
    BY <1>3, <1>13 DEF CommitOne
  <2>2. PICK e \in Envelope : e = claims[i][lo]
    BY <1>4, <1>8
  <2>3. Range(consumed') = Range(consumed) \cup {e} /\ IsInjective(consumed')
    BY <1>0, <1>4, <1>9, <2>1, <2>2, RangeAppend
  <2>4. /\ claims'[i][lo] = Vacant
        /\ \A o \in Offset \ {lo} : claims'[i][o] = claims[i][o]
        /\ \A j \in Incarnation \ {i} : claims'[j] = claims[j]
    BY <1>0, <1>4, <1>8, <2>1
  <2>5. Held(i)' = Held(i) \ {lo}
    BY <2>4 DEF Held
  <2>6. \A o \in Held(i) \ {lo} : claims'[i][o] = claims[i][o]
    BY <1>8, <2>4
  <2>7. /\ e \in At(a[1], a[2])
        /\ At(a[1], a[2])' = At(a[1], a[2]) \ {e}
        /\ At(b[1], b[2])' = At(b[1], b[2]) \cup {e}
    <3>1. At(a[1], a[2])' = {claims[i][o] : o \in Held(i) \ {lo}}
      BY <1>7, <2>5, <2>6
    <3>2. At(a[1], a[2])' = At(a[1], a[2]) \ {e}
      BY <1>4, <1>7, <1>10, <2>2, <3>1
    <3>3. QED
      BY <1>4, <1>7, <2>2, <2>3, <3>2
  <2>8. Still(a, b) /\ OnceInv' /\ inbox'.next = inbox.next
    <3>1. \A o, p \in Held(i)' : claims'[i][o] = claims'[i][p] => o = p
      BY <1>10, <2>5, <2>6
    <3>2. QED
      BY <1>4, <1>11, <2>1, <2>3, <2>4, <3>1
  <2>9. SpotInv' /\ RoomInv'
    BY <1>5, <1>6, <2>7, <2>8, MessageMoves
  <2>10. QED
    BY <2>8, <2>9 DEF Placed
<1>14. QED
  BY <1>12, <1>13

(* A step that comes undone puts its claims back ...                       *)
LEMMA MailRestores ==
  ASSUME Sorted, NEW i \in Incarnation, GuardRestores(i)
  PROVE  Placed'
<1>0. /\ KindInv /\ TypeOK /\ KeepInv /\ OnceInv /\ SpotInv /\ Policy # "DropOld"
      /\ claims \in [Incarnation -> [Offset -> Envelope \cup {Vacant}]]
      /\ inbox \in InboxType
  BY DEF Sorted, KindInv, TypeOK, Placed
<1>1. /\ UNCHANGED <<at, idx, chan, held, consumed, dead>>
      /\ \A s \in Senders : Unsent(s)' = Unsent(s)
  BY UnsentRests DEF GuardRestores, senderVars
<1>2. CASE UNCHANGED <<inbox, claims>>
  BY <1>1, <1>2, MailRests
<1>3. CASE ~UNCHANGED <<inbox, claims>>
  <2>1. PICK mine \in [Offset -> Envelope \cup {Vacant}] : mine = claims[i]
    BY <1>0
  <2>2. inbox' = Restore(inbox, mine) /\ claims' = [claims EXCEPT ![i] = NoClaims]
    BY <1>3, <2>1 DEF GuardRestores
  <2>3. PICK new : new = inbox'
    OBVIOUS
  <2>4. /\ new.next = inbox.next
        /\ \A o \in Offset : new.slots[o] = IF mine[o] # Vacant THEN mine[o] ELSE inbox.slots[o]
    BY <1>0, <2>2, <2>3, RestoreIs
  <2>5. /\ \A o \in Held(i) : o \in Offset /\ mine[o] \in Envelope /\ inbox.slots[o] = Tombstone
        /\ \A o \in Offset : o \notin Held(i) => mine[o] = Vacant
    BY <1>0, <2>1, HeldIs, KeepIs
  <2>6. /\ \A o \in Held(i) : new.slots[o] = mine[o]
        /\ \A o \in Offset \ Held(i) : new.slots[o] = inbox.slots[o]
    BY <2>4, <2>5, ConstantsAre
  <2>7. /\ Live(new) = Live(inbox) \cup Held(i) /\ Live(inbox) \cap Held(i) = {}
        /\ \A o \in Live(inbox) : new.slots[o] = inbox.slots[o]
    <3>1. \A o \in Live(inbox) : o \in Offset /\ o \notin Held(i)
      BY <2>5, ConstantsAre DEF Live
    <3>2. \A o \in Offset : new.slots[o] \in Envelope <=> o \in Live(inbox) \/ o \in Held(i)
      BY <2>5, <2>6 DEF Live
    <3>3. Live(new) = {o \in Offset : new.slots[o] \in Envelope}
      BY DEF Live
    <3>4. Live(new) = Live(inbox) \cup Held(i)
      BY <2>5, <3>1, <3>2, <3>3
    <3>5. QED
      BY <2>6, <3>1, <3>4
  <2>8. PICK x : x = {mine[o] : o \in Held(i)}
    OBVIOUS
  <2>9. PICK a \in Spot \ Way : a = <<"claim", i>>
    BY SpotIs
  <2>10. PICK b \in Spot \ Way : b = <<"slot", 0>>
    BY SpotIs
  <2>11. claims'[i] = NoClaims /\ \A j \in Incarnation \ {i} : claims'[j] = claims[j]
    BY <1>0, <2>2
  <2>12. Held(i)' = {} /\ \A j \in Incarnation \ {i} : Held(j)' = Held(j)
    BY <2>11 DEF Held, NoClaims
  <2>13. /\ At(a[1], a[2]) = x /\ At(a[1], a[2])' = {} /\ x \subseteq Envelope
    <3>1. At("claim", i) = {claims[i][o] : o \in Held(i)} /\ At("claim", i)' = {}
      BY <2>12, AtIs, AtIsNext
    <3>2. QED
      BY <2>1, <2>5, <2>8, <2>9, <3>1
  <2>14. /\ At(b[1], b[2]) = {inbox.slots[o] : o \in Live(inbox)}
         /\ At(b[1], b[2])' = At(b[1], b[2]) \cup x
    <3>1. At("slot", 0) = {inbox.slots[o] : o \in Live(inbox)}
      BY AtIs
    <3>2. At("slot", 0)' = {new.slots[o] : o \in Live(new)}
      BY <2>3, AtIsNext
    <3>3. At("slot", 0)' = At("slot", 0) \cup x
      BY <2>6, <2>7, <2>8, <3>1, <3>2
    <3>4. QED
      BY <2>10, <3>1, <3>3
  <2>15. Still(a, b)
    BY <1>1, <2>9, <2>10, <2>11, StillIs
  <2>16. SpotInv' /\ RoomInv'
    BY <2>3, <2>4, <2>9, <2>10, <2>13, <2>14, <2>15, SpotsMove
  <2>17. \A o \in Live(inbox), p \in Held(i) : inbox.slots[o] # mine[p]
    <3> SUFFICES ASSUME NEW o \in Live(inbox), NEW p \in Held(i), inbox.slots[o] = mine[p]
                 PROVE  FALSE
      OBVIOUS
    <3>1. PICK e \in Envelope : e = mine[p]
      BY <2>5
    <3>2. e \in At(a[1], a[2]) /\ e \in At(b[1], b[2])
      BY <2>8, <2>13, <2>14, <3>1
    <3>3. QED
      BY <1>0, <2>9, <2>10, <3>2, OneSpot
  <2>18. OnceInv'
    <3>1. /\ \A o, p \in Live(inbox) : inbox.slots[o] = inbox.slots[p] => o = p
          /\ \A o, p \in Held(i) : mine[o] = mine[p] => o = p
      BY <1>0, <2>1 DEF OnceInv
    <3>2. \A o, p \in Live(new) : new.slots[o] = new.slots[p] => o = p
      BY <2>6, <2>7, <2>17, <3>1
    <3>3. QED
      BY <1>0, <1>1, <2>3, <2>11, <2>12, <3>2 DEF OnceInv
  <2>19. QED
    BY <2>16, <2>18 DEF Placed
<1>4. QED
  BY <1>2, <1>3

(* ... or, when the actor is stopping, dead-letters them.                  *)
LEMMA MailFlushes ==
  ASSUME Sorted, NEW i \in Incarnation, GuardFlushes(i)
  PROVE  Placed'
<1>0. /\ KindInv /\ OnceInv
      /\ claims \in [Incarnation -> [Offset -> Envelope \cup {Vacant}]]
  BY DEF Sorted, KindInv, TypeOK, Placed
<1>1. /\ UNCHANGED <<inbox, at, idx, chan, held, consumed>>
      /\ \A s \in Senders : Unsent(s)' = Unsent(s)
      /\ claims' = [claims EXCEPT ![i] = NoClaims]
  BY UnsentRests DEF GuardFlushes, senderVars, doorVars
<1>2. PICK x : x = {claims[i][o] : o \in Held(i)}
  OBVIOUS
<1>3. DeadLetter(x) /\ x \subseteq Envelope
  BY <1>0, <1>2, HeldIs DEF GuardFlushes
<1>4. claims'[i] = NoClaims /\ \A j \in Incarnation \ {i} : claims'[j] = claims[j]
  BY <1>0, <1>1
<1>5. Held(i)' = {} /\ \A j \in Incarnation \ {i} : Held(j)' = Held(j)
  BY <1>4 DEF Held, NoClaims
<1>6. PICK a \in Spot \ Way : a = <<"claim", i>>
  BY SpotIs
<1>7. PICK b \in Spot \ Way : b = <<"dead", 0>>
  BY SpotIs
<1>8. At(a[1], a[2]) = x /\ At(a[1], a[2])' = {}
  BY <1>2, <1>5, <1>6, AtIs, AtIsNext
<1>9. /\ At(b[1], b[2])' = At(b[1], b[2]) \cup x
      /\ \A e \in Envelope : dead'[e] <= 1
  BY <1>3, <1>6, <1>7, <1>8, DeadMoves
<1>10. Still(a, b)
  BY <1>1, <1>4, <1>6, <1>7, StillIs
<1>11. SpotInv' /\ RoomInv'
  BY <1>1, <1>3, <1>6, <1>7, <1>8, <1>9, <1>10, SpotsMove
<1>12. OnceInv'
  BY <1>0, <1>1, <1>4, <1>5, <1>9 DEF OnceInv, Live
<1>13. QED
  BY <1>11, <1>12 DEF Placed

LEMMA MailLoops ==
  ASSUME Sorted, NEW i \in Incarnation, LoopStep(i)
  PROVE  Placed'
<1>1. CASE LoopEnds(i)
  <2>1. /\ inbox' = Reopen(Close(inbox)) /\ inbox \in InboxType
        /\ UNCHANGED <<at, idx, chan, held, claims, consumed, dead>>
    BY <1>1 DEF LoopEnds, Sorted, KindInv, TypeOK, doorVars, senderVars
  <2>2. inbox'.slots = inbox.slots /\ inbox'.next = inbox.next
    BY <2>1, ReopenedIs
  <2>3. QED
    BY <2>1, <2>2, UnsentRests, MailRests
<1>2. CASE UNCHANGED <<inbox, at, idx, chan, held, claims, consumed, dead>>
  BY <1>2, UnsentRests, MailRests
<1>3. CASE IdleWait(i) \/ Dispatched(i) \/ GuardReads(i)
  BY <1>2, <1>3 DEF IdleWait, Dispatched, GuardReads, doorVars, senderVars
<1>4. QED
  BY <1>1, <1>3, MailClaim, MailCommits, MailRestores, MailFlushes DEF LoopStep

LEMMA MailBefallen ==
  ASSUME Sorted, NEW i \in Incarnation, Befalls(i)
  PROVE  Placed'
<1>1. CASE Passivate(i)
  <2>1. /\ inbox' = Close(inbox) /\ inbox \in InboxType
        /\ UNCHANGED <<at, idx, chan, held, claims, consumed, dead>>
    BY <1>1 DEF Passivate, Sorted, KindInv, TypeOK, doorVars, senderVars
  <2>2. inbox'.slots = inbox.slots /\ inbox'.next = inbox.next
    BY <2>1, ReopenedIs
  <2>3. QED
    BY <2>1, <2>2, UnsentRests, MailRests
<1>2. CASE UNCHANGED <<inbox, at, idx, chan, held, claims, consumed, dead>>
  BY <1>2, UnsentRests, MailRests
<1>3. QED
  BY <1>1, <1>2 DEF Befalls, Crash, StopSelf, Abort, Unwind, doorVars, senderVars

LEMMA MailHost ==
  ASSUME Sorted, Restart \/ ExternalStop \/ Join \/ Teardown
  PROVE  Placed'
<1>0. KindInv /\ OnceInv /\ inbox \in InboxType
  BY DEF Sorted, KindInv, TypeOK, Placed
<1>1. CASE Restart
  <2>1. /\ inbox' = Reopen(inbox)
        /\ UNCHANGED <<at, idx, chan, held, claims, consumed, dead>>
    BY <1>1 DEF Restart, doorVars, senderVars
  <2>2. inbox'.slots = inbox.slots /\ inbox'.next = inbox.next
    BY <1>0, <2>1, ReopenedIs
  <2>3. QED
    BY <2>1, <2>2, UnsentRests, MailRests
<1>2. CASE UNCHANGED <<inbox, at, idx, chan, held, claims, consumed, dead>>
  BY <1>2, UnsentRests, MailRests
<1>3. CASE TeardownDrain /\ inbox' = DrainLive(Close(inbox))
           /\ DeadLetter({inbox.slots[o] : o \in Live(inbox)})
  <2>1. UNCHANGED <<at, idx, chan, held, claims, consumed>>
    BY <1>3 DEF TeardownDrain, doorVars, loopVars, senderVars
  <2>2. \A s \in Senders : Unsent(s)' = Unsent(s)
    BY <2>1, UnsentRests
  <2>3. PICK x : x = {inbox.slots[o] : o \in Live(inbox)}
    OBVIOUS
  <2>4. DeadLetter(x) /\ x \subseteq Envelope
    BY <1>3, <2>3 DEF Live
  <2>5. /\ inbox'.next = inbox.next
        /\ \A o \in Offset :
             inbox'.slots[o] = IF inbox.slots[o] \in Envelope THEN Vacant ELSE inbox.slots[o]
    BY <1>0, <1>3, DrainLiveIs
  <2>6. Live(inbox') = {}
    <3>1. \A o \in Offset : inbox'.slots[o] \notin Envelope
      BY <2>5, ConstantsAre
    <3>2. QED
      BY <3>1 DEF Live
  <2>7. PICK a \in Spot \ Way : a = <<"slot", 0>>
    BY SpotIs
  <2>8. PICK b \in Spot \ Way : b = <<"dead", 0>>
    BY SpotIs
  <2>9. At(a[1], a[2]) = x /\ At(a[1], a[2])' = {}
    BY <2>3, <2>6, <2>7, AtIs, AtIsNext
  <2>10. /\ At(b[1], b[2])' = At(b[1], b[2]) \cup x
         /\ \A e \in Envelope : dead'[e] <= 1
    BY <2>4, <2>7, <2>8, <2>9, DeadMoves
  <2>11. Still(a, b)
    BY <2>1, <2>2, <2>7, <2>8, StillIs
  <2>12. SpotInv' /\ RoomInv'
    BY <2>4, <2>5, <2>7, <2>8, <2>9, <2>10, <2>11, SpotsMove
  <2>13. OnceInv'
    BY <1>0, <2>1, <2>6, <2>10 DEF OnceInv, Held
  <2>14. QED
    BY <2>12, <2>13 DEF Placed
<1>4. QED
  BY <1>1, <1>2, <1>3 DEF Teardown, TeardownDrain, TeardownUnregister, ExternalStop, Join,
                          doorVars, loopVars, senderVars

LEMMA CellStays == [Next]_vars => UNCHANGED cell
<1> SUFFICES ASSUME [Next]_vars
             PROVE  UNCHANGED cell
  OBVIOUS
<1>1. CASE UNCHANGED vars
  BY <1>1 DEF vars
<1>2. CASE Next
  BY <1>2 DEF Next, SenderStep, Resolve, DirectPush, NotifyAfterPush, DeliverToDoor,
       DoorStep, DoorReceive, DoorPush, DoorNotify, DoorHold, DoorPark, DoorRefuse, DoorPanic,
       LoopStep, Claim, IdleWait, CommitBatch, CommitOne, Dispatched, GuardReads,
       GuardRestores, GuardFlushes, LoopEnds, Passivate, Crash, StopSelf, Abort, Unwind,
       Restart, ExternalStop, Join, Teardown, TeardownDrain, TeardownUnregister
<1>3. QED
  BY <1>1, <1>2

LEMMA MailStep ==
  ASSUME DistinctPrograms, OffsetsSuffice
  PROVE  KindInv /\ KeepInv /\ MailInv /\ [Next]_vars => MailInv'
<1> SUFFICES ASSUME KindInv, KeepInv, MailInv, [Next]_vars, Policy' # "DropOld"
             PROVE  Placed'
  BY DEF MailInv
<1>1. UNCHANGED cell
  BY CellStays
<1>2. Sorted
  BY <1>1 DEF Policy, MailInv, Sorted
<1>3. CASE UNCHANGED vars
  <2>1. UNCHANGED <<inbox, at, idx, chan, held, claims, consumed, dead>>
    BY <1>3 DEF vars, doorVars, loopVars, senderVars
  <2>2. QED
    BY <1>2, <2>1, UnsentRests, MailRests
<1>4. CASE Next
  BY <1>2, <1>4, Steps, MailSenders, MailDoors, MailLoops, MailBefallen, MailHost
<1>5. QED
  BY <1>3, <1>4

(* A spot holds a message at one place.                                    *)
Index(e, kind, x) ==
  CASE kind = "sender"   -> Unsent(x) \cap Indices(e, Program[x])
    [] kind = "channel"  -> Indices(e, chan[x])
    [] kind = "claim"    -> Indices(e, claims[x])
    [] kind = "door"     -> IF held[x] = e THEN {0} ELSE {}
    [] kind = "slot"     -> Indices(e, inbox.slots)
    [] kind = "consumed" -> Indices(e, consumed)
    [] kind = "dead"     -> 1 .. dead[e]

LEMMA IndexOf ==
  ASSUME NEW e, NEW x
  PROVE  /\ Index(e, "sender", x) = Unsent(x) \cap Indices(e, Program[x])
         /\ Index(e, "channel", x) = Indices(e, chan[x])
         /\ Index(e, "claim", x) = Indices(e, claims[x])
         /\ Index(e, "door", x) = IF held[x] = e THEN {0} ELSE {}
         /\ Index(e, "slot", x) = Indices(e, inbox.slots)
         /\ Index(e, "consumed", x) = Indices(e, consumed)
         /\ Index(e, "dead", x) = 1 .. dead[e]
BY DEF Index

LEMMA IndexIs ==
  ASSUME Sorted, NEW e \in Envelope, NEW spot \in Spot
  PROVE  /\ e \notin At(spot[1], spot[2]) => Index(e, spot[1], spot[2]) = {}
         /\ e \in At(spot[1], spot[2]) => \E k : Index(e, spot[1], spot[2]) = {k}
<1> DEFINE Good(set, index) == /\ e \notin set => index = {}
                               /\ e \in set => \E k : index = {k}
<1>0. KindInv /\ OnceInv /\ DistinctPrograms /\ TypeOK /\ inbox \in InboxType
  BY DEF Sorted, Placed, KindInv, TypeOK
<1>1. ASSUME NEW f, NEW keys, keys \subseteq DOMAIN f,
             \A j, k \in keys : f[j] = f[k] => j = k
      PROVE  Good({f[k] : k \in keys}, keys \cap Indices(e, f))
  <2>1. CASE e \notin {f[k] : k \in keys}
    <3>1. keys \cap Indices(e, f) = {}
      BY <2>1 DEF Indices
    <3>2. QED
      BY <2>1, <3>1
  <2>2. CASE e \in {f[k] : k \in keys}
    <3>1. PICK k \in keys : f[k] = e
      BY <2>2
    <3>2. keys \cap Indices(e, f) = {k}
      BY <1>1, <3>1 DEF Indices
    <3>3. QED
      BY <2>2, <3>2
  <2>3. QED
    BY <2>1, <2>2
<1>2. ASSUME NEW q, IsInjective(q)
      PROVE  Good(Range(q), Indices(e, q))
  <2>1. Good({q[k] : k \in DOMAIN q}, DOMAIN q \cap Indices(e, q))
    BY <1>1, <1>2 DEF IsInjective
  <2>2. Range(q) = {q[k] : k \in DOMAIN q} /\ DOMAIN q \cap Indices(e, q) = Indices(e, q)
    BY DEF Range, Indices
  <2>3. QED
    BY <2>1, <2>2
<1> HIDE DEF Good
<1>3. ASSUME NEW s \in Senders
      PROVE  Good(At("sender", s), Index(e, "sender", s))
  <2>1. Unsent(s) \subseteq DOMAIN Program[s]
    BY DEF Unsent
  <2>2. \A j, k \in Unsent(s) : Program[s][j] = Program[s][k] => j = k
    BY <1>0, <2>1 DEF DistinctPrograms
  <2>3. Good({Program[s][k] : k \in Unsent(s)}, Unsent(s) \cap Indices(e, Program[s]))
    BY <1>1, <2>1, <2>2
  <2>4. QED
    BY <2>3, AtIs, IndexOf
<1>4. ASSUME NEW i \in Incarnation
      PROVE  Good(At("channel", i), Index(e, "channel", i))
  <2>1. Good(Range(chan[i]), Indices(e, chan[i]))
    BY <1>0, <1>2 DEF OnceInv
  <2>2. QED
    BY <2>1, AtIs, IndexOf
<1>5. ASSUME NEW i \in Incarnation
      PROVE  Good(At("claim", i), Index(e, "claim", i))
  <2>1. PICK mine \in [Offset -> Envelope \cup {Vacant}] : mine = claims[i]
    BY <1>0 DEF TypeOK
  <2>2. /\ Held(i) \subseteq DOMAIN mine
        /\ \A j, k \in Held(i) : mine[j] = mine[k] => j = k
    BY <1>0, <2>1, HeldIs DEF OnceInv
  <2>3. Good({mine[o] : o \in Held(i)}, Held(i) \cap Indices(e, mine))
    BY <1>1, <2>2
  <2>4. Indices(e, mine) \subseteq Held(i)
    BY <2>1, ConstantsAre DEF Indices, Held
  <2>5. Held(i) \cap Indices(e, mine) = Indices(e, mine)
    BY <2>4
  <2>6. At("claim", i) = {mine[o] : o \in Held(i)} /\ Index(e, "claim", i) = Indices(e, mine)
    BY <2>1, AtIs, IndexOf
  <2>7. QED
    BY <2>3, <2>5, <2>6
<1>6. ASSUME NEW i \in Incarnation
      PROVE  Good(At("door", i), Index(e, "door", i))
  <2>1. At("door", i) = {held[i]} \ {Vacant} /\ e # Vacant
    BY AtIs, ConstantsAre
  <2>2. CASE held[i] = e
    <3>1. e \in At("door", i) /\ Index(e, "door", i) = {0}
      BY <2>1, <2>2, IndexOf
    <3>2. QED
      BY <3>1 DEF Good
  <2>3. CASE held[i] # e
    <3>1. e \notin At("door", i) /\ Index(e, "door", i) = {}
      BY <2>1, <2>3, IndexOf
    <3>2. QED
      BY <3>1 DEF Good
  <2>4. QED
    BY <2>2, <2>3
<1>7. Good(At("slot", 0), Index(e, "slot", 0))
  <2>1. PICK slots \in [Offset -> Envelope \cup {Tombstone, Vacant}] : slots = inbox.slots
    BY <1>0, InboxIs
  <2>2. /\ Live(inbox) \subseteq DOMAIN slots
        /\ \A j, k \in Live(inbox) : slots[j] = slots[k] => j = k
    BY <1>0, <2>1 DEF OnceInv, Live
  <2>3. Good({slots[o] : o \in Live(inbox)}, Live(inbox) \cap Indices(e, slots))
    BY <1>1, <2>2
  <2>4. Indices(e, slots) \subseteq Live(inbox)
    BY <2>1 DEF Indices, Live
  <2>5. Live(inbox) \cap Indices(e, slots) = Indices(e, slots)
    BY <2>4
  <2>6. /\ At("slot", 0) = {slots[o] : o \in Live(inbox)}
        /\ Index(e, "slot", 0) = Indices(e, slots)
    BY <2>1, AtIs, IndexOf
  <2>7. QED
    BY <2>3, <2>5, <2>6
<1>8. Good(At("consumed", 0), Index(e, "consumed", 0))
  <2>1. Good(Range(consumed), Indices(e, consumed))
    BY <1>0, <1>2 DEF OnceInv
  <2>2. QED
    BY <2>1, AtIs, IndexOf
<1>9. Good(At("dead", 0), Index(e, "dead", 0))
  <2>1. dead[e] \in Nat /\ dead[e] <= 1
    BY <1>0 DEF OnceInv, TypeOK
  <2>2. /\ e \in At("dead", 0) <=> dead[e] > 0
        /\ Index(e, "dead", 0) = 1 .. dead[e]
    BY AtIs, IndexOf
  <2>3. dead[e] = 0 \/ dead[e] = 1
    BY <2>1
  <2>4. 1 .. 0 = {} /\ 1 .. 1 = {1}
    OBVIOUS
  <2>5. QED
    BY <2>2, <2>3, <2>4 DEF Good
<1>10. Good(At(spot[1], spot[2]), Index(e, spot[1], spot[2]))
  <2>1. ASSUME NEW s \in Senders, spot = <<"sender", s>>
        PROVE  Good(At(spot[1], spot[2]), Index(e, spot[1], spot[2]))
    BY <1>3, <2>1
  <2>2. ASSUME NEW i \in Incarnation, spot = <<"channel", i>>
        PROVE  Good(At(spot[1], spot[2]), Index(e, spot[1], spot[2]))
    BY <1>4, <2>2
  <2>3. ASSUME NEW i \in Incarnation, spot = <<"claim", i>>
        PROVE  Good(At(spot[1], spot[2]), Index(e, spot[1], spot[2]))
    BY <1>5, <2>3
  <2>4. ASSUME NEW i \in Incarnation, spot = <<"door", i>>
        PROVE  Good(At(spot[1], spot[2]), Index(e, spot[1], spot[2]))
    BY <1>6, <2>4
  <2>5. CASE spot = <<"slot", 0>>
    BY <1>7, <2>5
  <2>6. CASE spot = <<"consumed", 0>>
    BY <1>8, <2>6
  <2>7. CASE spot = <<"dead", 0>>
    BY <1>9, <2>7
  <2>8. QED
    BY SpotIs, <2>1, <2>2, <2>3, <2>4, <2>5, <2>6, <2>7
<1>11. QED
  BY <1>10 DEF Good

LEMMA PlacesIs ==
  ASSUME TypeOK, NEW e, NEW y
  PROVE  y \in Places(e) <=>
           \/ \E s \in Senders : \E k \in Index(e, "sender", s) : y = <<"sender", s, k>>
           \/ \E i \in Incarnation : \E k \in Index(e, "channel", i) : y = <<"channel", i, k>>
           \/ \E i \in Incarnation : \E k \in Index(e, "claim", i) : y = <<"claim", i, k>>
           \/ \E i \in Incarnation : \E k \in Index(e, "door", i) : y = <<"door", i, k>>
           \/ \E k \in Index(e, "slot", 0) : y = <<"slot", 0, k>>
           \/ \E k \in Index(e, "consumed", 0) : y = <<"consumed", 0, k>>
           \/ \E k \in Index(e, "dead", 0) : y = <<"dead", 0, k>>
<1> DEFINE sent(s) == {<<"sender", s, k>> : k \in Unsent(s) \cap Indices(e, Program[s])}
           mid(i) == {<<"channel", i, k>> : k \in Indices(e, chan[i])}
                       \cup {<<"claim", i, o>> : o \in Indices(e, claims[i])}
<1>1. PICK sends : sends = UNION {sent(s) : s \in Senders}
  OBVIOUS
<1>2. PICK mids : mids = UNION {mid(i) : i \in Incarnation}
  OBVIOUS
<1>3. PICK doors : doors = {<<"door", d, 0>> : d \in Indices(e, held)}
  OBVIOUS
<1>4. PICK slots : slots = {<<"slot", 0, o>> : o \in Indices(e, inbox.slots)}
  OBVIOUS
<1>5. PICK commits : commits = {<<"consumed", 0, k>> : k \in Indices(e, consumed)}
  OBVIOUS
<1>6. PICK letters : letters = {<<"dead", 0, k>> : k \in 1 .. dead[e]}
  OBVIOUS
<1>7. y \in Places(e) <=> \/ y \in sends \/ y \in mids \/ y \in doors
                          \/ y \in slots \/ y \in commits \/ y \in letters
  <2>1. Places(e) = sends \cup mids \cup doors \cup slots \cup commits \cup letters
    BY <1>1, <1>2, <1>3, <1>4, <1>5, <1>6 DEF Places
  <2>2. QED
    BY <2>1
<1>8. \A s : y \in sent(s) <=> \E k \in Index(e, "sender", s) : y = <<"sender", s, k>>
  BY IndexOf
<1>9. \A i : y \in mid(i) <=> \/ \E k \in Index(e, "channel", i) : y = <<"channel", i, k>>
                              \/ \E k \in Index(e, "claim", i) : y = <<"claim", i, k>>
  BY IndexOf
<1> HIDE DEF sent, mid
<1>10. y \in sends <=>
         \E s \in Senders : \E k \in Index(e, "sender", s) : y = <<"sender", s, k>>
  <2>1. y \in sends <=> \E s \in Senders : y \in sent(s)
    BY <1>1
  <2>2. QED
    BY <1>8, <2>1
<1>11. y \in mids <=>
         \/ \E i \in Incarnation : \E k \in Index(e, "channel", i) : y = <<"channel", i, k>>
         \/ \E i \in Incarnation : \E k \in Index(e, "claim", i) : y = <<"claim", i, k>>
  <2>1. y \in mids <=> \E i \in Incarnation : y \in mid(i)
    BY <1>2
  <2>2. QED
    BY <1>9, <2>1
<1>12. y \in doors <=>
         \E i \in Incarnation : \E k \in Index(e, "door", i) : y = <<"door", i, k>>
  <2>1. \A d : d \in Indices(e, held) <=> d \in Incarnation /\ held[d] = e
    BY DEF Indices, TypeOK
  <2>2. \A i, k : k \in Index(e, "door", i) <=> held[i] = e /\ k = 0
    BY IndexOf
  <2>3. y \in doors <=> \E d \in Indices(e, held) : y = <<"door", d, 0>>
    BY <1>3
  <2>4. QED
    BY <2>1, <2>2, <2>3
<1>13. y \in slots <=> \E k \in Index(e, "slot", 0) : y = <<"slot", 0, k>>
  BY <1>4, IndexOf
<1>14. y \in commits <=> \E k \in Index(e, "consumed", 0) : y = <<"consumed", 0, k>>
  BY <1>5, IndexOf
<1>15. y \in letters <=> \E k \in Index(e, "dead", 0) : y = <<"dead", 0, k>>
  <2>1. PICK range : range = 1 .. dead[e]
    OBVIOUS
  <2>2. letters = {<<"dead", 0, k>> : k \in range} /\ Index(e, "dead", 0) = range
    BY <1>6, <2>1, IndexOf
  <2>3. QED
    BY <2>2
<1>16. QED
  BY <1>7, <1>10, <1>11, <1>12, <1>13, <1>14, <1>15

LEMMA PlacesAre ==
  ASSUME TypeOK, NEW e, NEW y
  PROVE  y \in Places(e) <=>
           \E spot \in Spot : \E k \in Index(e, spot[1], spot[2]) : y = <<spot[1], spot[2], k>>
<1>1. ASSUME NEW spot \in Spot, NEW k \in Index(e, spot[1], spot[2]), y = <<spot[1], spot[2], k>>
      PROVE  y \in Places(e)
  <2>1. ASSUME NEW s \in Senders, spot = <<"sender", s>>
        PROVE  y \in Places(e)
    <3>1. k \in Index(e, "sender", s) /\ y = <<"sender", s, k>>
      BY <1>1, <2>1
    <3>2. QED
      BY <3>1, PlacesIs
  <2>2. ASSUME NEW i \in Incarnation, spot = <<"channel", i>>
        PROVE  y \in Places(e)
    <3>1. k \in Index(e, "channel", i) /\ y = <<"channel", i, k>>
      BY <1>1, <2>2
    <3>2. QED
      BY <3>1, PlacesIs
  <2>3. ASSUME NEW i \in Incarnation, spot = <<"claim", i>>
        PROVE  y \in Places(e)
    <3>1. k \in Index(e, "claim", i) /\ y = <<"claim", i, k>>
      BY <1>1, <2>3
    <3>2. QED
      BY <3>1, PlacesIs
  <2>4. ASSUME NEW i \in Incarnation, spot = <<"door", i>>
        PROVE  y \in Places(e)
    <3>1. k \in Index(e, "door", i) /\ y = <<"door", i, k>>
      BY <1>1, <2>4
    <3>2. QED
      BY <3>1, PlacesIs
  <2>5. CASE spot = <<"slot", 0>>
    <3>1. k \in Index(e, "slot", 0) /\ y = <<"slot", 0, k>>
      BY <1>1, <2>5
    <3>2. QED
      BY <3>1, PlacesIs
  <2>6. CASE spot = <<"consumed", 0>>
    <3>1. k \in Index(e, "consumed", 0) /\ y = <<"consumed", 0, k>>
      BY <1>1, <2>6
    <3>2. QED
      BY <3>1, PlacesIs
  <2>7. CASE spot = <<"dead", 0>>
    <3>1. k \in Index(e, "dead", 0) /\ y = <<"dead", 0, k>>
      BY <1>1, <2>7
    <3>2. QED
      BY <3>1, PlacesIs
  <2>8. QED
    BY SpotIs, <2>1, <2>2, <2>3, <2>4, <2>5, <2>6, <2>7
<1>2. ASSUME NEW kind, NEW x, <<kind, x>> \in Spot,
             NEW k \in Index(e, kind, x), y = <<kind, x, k>>
      PROVE  \E spot \in Spot : \E j \in Index(e, spot[1], spot[2]) : y = <<spot[1], spot[2], j>>
  <2>1. PICK spot \in Spot : spot = <<kind, x>>
    BY <1>2
  <2>2. spot[1] = kind /\ spot[2] = x
    BY <2>1
  <2>3. QED
    BY <1>2, <2>2
<1>3. ASSUME y \in Places(e)
      PROVE  \E kind, x : <<kind, x>> \in Spot /\ \E k \in Index(e, kind, x) : y = <<kind, x, k>>
  <2>1. CASE \E s \in Senders : \E k \in Index(e, "sender", s) : y = <<"sender", s, k>>
    BY <2>1, SpotIs
  <2>2. CASE \E i \in Incarnation : \E k \in Index(e, "channel", i) : y = <<"channel", i, k>>
    BY <2>2, SpotIs
  <2>3. CASE \E i \in Incarnation : \E k \in Index(e, "claim", i) : y = <<"claim", i, k>>
    BY <2>3, SpotIs
  <2>4. CASE \E i \in Incarnation : \E k \in Index(e, "door", i) : y = <<"door", i, k>>
    BY <2>4, SpotIs
  <2>5. CASE \E k \in Index(e, "slot", 0) : y = <<"slot", 0, k>>
    BY <2>5, SpotIs
  <2>6. CASE \E k \in Index(e, "consumed", 0) : y = <<"consumed", 0, k>>
    BY <2>6, SpotIs
  <2>7. CASE \E k \in Index(e, "dead", 0) : y = <<"dead", 0, k>>
    BY <2>7, SpotIs
  <2>8. \/ \E s \in Senders : \E k \in Index(e, "sender", s) : y = <<"sender", s, k>>
        \/ \E i \in Incarnation : \E k \in Index(e, "channel", i) : y = <<"channel", i, k>>
        \/ \E i \in Incarnation : \E k \in Index(e, "claim", i) : y = <<"claim", i, k>>
        \/ \E i \in Incarnation : \E k \in Index(e, "door", i) : y = <<"door", i, k>>
        \/ \E k \in Index(e, "slot", 0) : y = <<"slot", 0, k>>
        \/ \E k \in Index(e, "consumed", 0) : y = <<"consumed", 0, k>>
        \/ \E k \in Index(e, "dead", 0) : y = <<"dead", 0, k>>
    BY <1>3, PlacesIs
  <2>9. QED
    BY <2>1, <2>2, <2>3, <2>4, <2>5, <2>6, <2>7, <2>8
<1>4. QED
  BY <1>1, <1>2, <1>3

LEMMA PlacedOnce == Sorted => Conservation
<1> SUFFICES ASSUME Sorted, NEW e \in Sendable
             PROVE  Cardinality(Places(e)) = 1
  BY DEF Conservation
<1>1. e \in Envelope /\ TypeOK /\ SpotInv
  BY SendableIs DEF Sorted, KindInv, Placed
<1>2. PICK a : Where(e) = {a}
  BY <1>1 DEF SpotInv
<1>3. a \in Spot /\ e \in At(a[1], a[2]) /\ \A b \in Spot \ {a} : e \notin At(b[1], b[2])
  BY <1>2 DEF Where
<1>4. PICK k : Index(e, a[1], a[2]) = {k}
  BY <1>1, <1>3, IndexIs
<1>5. \A b \in Spot \ {a} : Index(e, b[1], b[2]) = {}
  BY <1>1, <1>3, IndexIs
<1>6. \A y : y \in Places(e) <=> y = <<a[1], a[2], k>>
  BY <1>1, <1>3, <1>4, <1>5, PlacesAre
<1>7. Places(e) = {<<a[1], a[2], k>>}
  BY <1>6
<1>8. QED
  BY <1>7, FS_Singleton

(* However pushes, doors, claims, crashes, restores, restarts and teardown *)
(* interleave, and whatever the policy that never evicts, a message is in  *)
(* exactly one place: none is lost and none doubled.  The envelopes are    *)
(* told apart, and the offsets that bound a model are as many as they are. *)
THEOREM MailIsKept ==
  ASSUME DistinctPrograms, OffsetsSuffice
  PROVE  Spec => []ConservedUnlessEvicting
<1>1. KindInv /\ KeepInv /\ MailInv => ConservedUnlessEvicting
  <2> SUFFICES ASSUME KindInv, KeepInv, MailInv, Policy # "DropOld"
               PROVE  Conservation
    BY DEF ConservedUnlessEvicting
  <2>1. Sorted
    BY DEF MailInv, Sorted
  <2>2. QED
    BY <2>1, PlacedOnce
<1>2. Init => MailInv
  BY MailInit
<1>3. KindInv /\ KeepInv /\ MailInv /\ [Next]_vars => MailInv'
  BY MailStep
<1>4. QED
  BY KindInit, KeepInit, KindStep, KeepStep, <1>1, <1>2, <1>3, PTL DEF Spec

(* So nothing is ever lost by an actor that is spawned with such a policy. *)
THEOREM NothingIsLost ==
  ASSUME DistinctPrograms, OffsetsSuffice, \A sp \in Spawns : sp.policy # "DropOld"
  PROVE  Spec => []Conservation
<1>1. TypeOK /\ ConservedUnlessEvicting => Conservation
  BY DEF TypeOK, ConservedUnlessEvicting, Policy
<1>2. Spec => []ConservedUnlessEvicting
  BY MailIsKept
<1>3. Spec => []TypeOK
  BY TypeCorrect
<1>4. QED
  BY <1>1, <1>2, <1>3, PTL

----------------------------------------------------------------------------
(* The mailbox as a queue.  While nothing stops the actor, an offset       *)
(* between the cursor and the write head has its message in its slot or in *)
(* the hands of a step, and a step has no more than a batch of them.       *)

Seen(o, e) ==
  \/ inbox.slots[o] = e
  \/ \E i \in Incarnation : o \in Held(i) /\ claims[i][o] = e

SolidInv ==
  \A o \in Offset : inbox.cursor <= o /\ o < inbox.next => \E e \in Envelope : Seen(o, e)

BatchInv == \A i \in Incarnation : \A o \in Held(i) : o < inbox.cursor + Batch

CalmInv ==
  /\ stop = "none" /\ slot = "live"
  /\ \A i \in Incarnation : /\ ~passivating[i] /\ after[i] # "exit"
                            /\ loop[i] \notin {"exit", "flush"}
  /\ ~stopping

QueueInv == Sorted /\ SolidInv /\ BatchInv /\ CalmInv

NeverStops == Faults \cap {"selfStop", "passivation", "externalStop"} = {}

NeverEvicts == \A sp \in Spawns : sp.policy # "DropOld"

(* A message that is seen at an offset is what the queue has there.        *)
LEMMA SeenIs ==
  QueueInv => \A o \in Offset : \A e \in Envelope : Seen(o, e) => Content(o) = e
<1> SUFFICES ASSUME QueueInv, NEW o \in Offset, NEW e \in Envelope, Seen(o, e)
             PROVE  Content(o) = e
  OBVIOUS
<1>1. KindInv /\ KeepInv /\ Policy # "DropOld"
  BY DEF QueueInv, Sorted
<1>2. CASE inbox.slots[o] = e
  BY <1>2 DEF Content
<1>3. ASSUME NEW i \in Incarnation, o \in Held(i), claims[i][o] = e
      PROVE  Content(o) = e
  <2>1. inbox.slots[o] \notin Envelope
    BY <1>1, <1>3, KeepIs, ConstantsAre
  <2>2. \A j \in Incarnation : claims[j][o] # Vacant <=> j = i
    <3>1. \A j \in Incarnation : claims[j][o] # Vacant <=> o \in Held(j)
      BY DEF Held
    <3>2. \A j \in Incarnation : o \in Held(j) => j = i
      BY <1>1, <1>3, KeepIs
    <3>3. QED
      BY <1>3, <3>1, <3>2
  <2>3. (CHOOSE j \in Incarnation : claims[j][o] # Vacant) = i
    BY <2>2
  <2>4. QED
    BY <1>3, <2>1, <2>3 DEF Content
<1>4. QED
  BY <1>2, <1>3 DEF Seen

LEMMA SortedReach ==
  Sorted => /\ inbox.cursor \in Nat /\ inbox.next \in Nat /\ inbox.cursor <= inbox.next
            /\ inbox.next <= MaxOffset + 1
            /\ \A o \in Nat : o < inbox.next => o \in Offset
<1> SUFFICES ASSUME Sorted
             PROVE  /\ inbox.cursor \in Nat /\ inbox.next \in Nat /\ inbox.cursor <= inbox.next
                    /\ inbox.next <= MaxOffset + 1
                    /\ \A o \in Nat : o < inbox.next => o \in Offset
  OBVIOUS
<1>1. inbox.cursor \in Nat /\ inbox.next \in Nat /\ inbox.cursor <= inbox.next
  BY KeepIs DEF Sorted
<1>2. RoomInv /\ IsFiniteSet(Sendable) /\ Cardinality(Sendable) <= MaxOffset + 1
  BY DEF Sorted, Placed, OffsetsSuffice
<1>3. Arrived \subseteq Sendable
  BY DEF Arrived
<1>4. Cardinality(Arrived) <= Cardinality(Sendable) /\ Cardinality(Arrived) \in Nat
      /\ Cardinality(Sendable) \in Nat
  BY <1>2, <1>3, FS_Subset, FS_CardinalityType
<1>5. inbox.next <= MaxOffset + 1
  BY <1>1, <1>2, <1>4, ConstantsAre DEF RoomInv
<1>6. QED
  BY <1>1, <1>5, ConstantsAre DEF Offset

LEMMA SortedReachNext ==
  Sorted' => /\ inbox'.cursor \in Nat /\ inbox'.next \in Nat /\ inbox'.cursor <= inbox'.next
             /\ inbox'.next <= MaxOffset + 1
             /\ \A o \in Nat : o < inbox'.next => o \in Offset
<1>1. (Sorted => /\ inbox.cursor \in Nat /\ inbox.next \in Nat /\ inbox.cursor <= inbox.next
                 /\ inbox.next <= MaxOffset + 1
                 /\ \A o \in Nat : o < inbox.next => o \in Offset)'
  BY SortedReach, PTL
<1>2. QED
  BY <1>1

LEMMA ReachIs ==
  QueueInv => /\ inbox.cursor \in Nat /\ inbox.next \in Nat /\ inbox.cursor <= inbox.next
              /\ \A o \in Nat : o < inbox.next => o \in Offset
BY SortedReach DEF QueueInv

LEMMA ReachIsNext ==
  QueueInv' => /\ inbox'.cursor \in Nat /\ inbox'.next \in Nat /\ inbox'.cursor <= inbox'.next
               /\ \A o \in Nat : o < inbox'.next => o \in Offset
BY SortedReachNext DEF QueueInv

(* The queue, entry by entry.                                              *)
LEMMA PendingIs ==
  QueueInv => /\ Pending \in Seq(Envelope) /\ Len(Pending) = inbox.next - inbox.cursor
              /\ DOMAIN Pending = 1 .. inbox.next - inbox.cursor
              /\ \A k \in 1 .. inbox.next - inbox.cursor :
                   /\ inbox.cursor + k - 1 \in Offset
                   /\ inbox.cursor <= inbox.cursor + k - 1 /\ inbox.cursor + k - 1 < inbox.next
                   /\ Seen(inbox.cursor + k - 1, Pending[k])
<1> SUFFICES ASSUME QueueInv
             PROVE  /\ Pending \in Seq(Envelope) /\ Len(Pending) = inbox.next - inbox.cursor
                    /\ DOMAIN Pending = 1 .. inbox.next - inbox.cursor
                    /\ \A k \in 1 .. inbox.next - inbox.cursor :
                         /\ inbox.cursor + k - 1 \in Offset
                         /\ inbox.cursor <= inbox.cursor + k - 1
                         /\ inbox.cursor + k - 1 < inbox.next
                         /\ Seen(inbox.cursor + k - 1, Pending[k])
  OBVIOUS
<1>1. PICK lo, hi : lo = inbox.cursor /\ hi = inbox.next
  OBVIOUS
<1>2. lo \in Nat /\ hi \in Nat /\ lo <= hi /\ \A o \in Nat : o < hi => o \in Offset
  BY <1>1, ReachIs
<1>3. ASSUME NEW k \in 1 .. hi - lo
      PROVE  /\ lo + k - 1 \in Offset /\ lo <= lo + k - 1 /\ lo + k - 1 < hi
             /\ Content(lo + k - 1) \in Envelope /\ Seen(lo + k - 1, Content(lo + k - 1))
  <2>1. PICK o : o = lo + k - 1
    OBVIOUS
  <2>2. o \in Nat /\ lo <= o /\ o < hi
    BY <1>2, <2>1
  <2>3. PICK e \in Envelope : Seen(o, e)
    BY <1>1, <1>2, <2>2 DEF QueueInv, SolidInv
  <2>4. Content(o) = e
    BY <1>2, <2>2, <2>3, SeenIs
  <2>5. QED
    BY <1>2, <2>1, <2>2, <2>3, <2>4
<1>4. PICK queue : queue = Pending
  OBVIOUS
<1>5. queue = [k \in 1 .. (inbox.next - inbox.cursor) |-> Content(inbox.cursor + k - 1)]
  BY <1>4 DEF Pending
<1>6. PICK range : range = 1 .. (inbox.next - inbox.cursor)
  OBVIOUS
<1>7. queue = [k \in range |-> Content(inbox.cursor + k - 1)] /\ range = 1 .. hi - lo
  BY <1>1, <1>5, <1>6
<1>8. \A k \in 1 .. hi - lo : queue[k] = Content(lo + k - 1)
  <2>1. \A k \in range : queue[k] = Content(inbox.cursor + k - 1)
    BY <1>7
  <2>2. QED
    BY <1>1, <1>7, <2>1
<1>9. queue \in [1 .. hi - lo -> Envelope] /\ hi - lo \in Nat
  <2>1. DOMAIN queue = 1 .. hi - lo /\ queue = [k \in DOMAIN queue |-> queue[k]]
    BY <1>7
  <2>2. QED
    BY <1>2, <1>3, <1>8, <2>1
<1>10. queue \in Seq(Envelope) /\ Len(queue) = hi - lo /\ DOMAIN queue = 1 .. hi - lo
  BY <1>9, FunctionIsSeq
<1>11. QED
  BY <1>1, <1>3, <1>4, <1>8, <1>10

LEMMA PendingHas ==
  QueueInv => \A k \in 1 .. inbox.next - inbox.cursor : \A o \in Offset : \A e \in Envelope :
                o = inbox.cursor + k - 1 /\ Seen(o, e) => Pending[k] = e
<1> SUFFICES ASSUME QueueInv, NEW k \in 1 .. inbox.next - inbox.cursor,
                    NEW o \in Offset, NEW e \in Envelope,
                    o = inbox.cursor + k - 1, Seen(o, e)
             PROVE  Pending[k] = e
  OBVIOUS
<1>1. PICK f \in Envelope : f = Pending[k]
  BY PendingIs, SeqIsFunction
<1>2. Seen(o, f)
  BY <1>1, PendingIs
<1>3. QED
  BY <1>1, <1>2, SeenIs

LEMMA PendingIsNext ==
  QueueInv' => /\ Pending' \in Seq(Envelope) /\ Len(Pending)' = inbox'.next - inbox'.cursor
               /\ DOMAIN Pending' = 1 .. inbox'.next - inbox'.cursor
               /\ \A k \in 1 .. inbox'.next - inbox'.cursor :
                    \A o \in Offset : \A e \in Envelope :
                      o = inbox'.cursor + k - 1 /\ Seen(o, e)' => Pending'[k] = e
<1>1. (QueueInv => /\ Pending \in Seq(Envelope) /\ Len(Pending) = inbox.next - inbox.cursor
                   /\ DOMAIN Pending = 1 .. inbox.next - inbox.cursor)'
  BY PendingIs, PTL
<1>2. (QueueInv =>
         \A k \in 1 .. inbox.next - inbox.cursor : \A o \in Offset : \A e \in Envelope :
           o = inbox.cursor + k - 1 /\ Seen(o, e) => Pending[k] = e)'
  BY PendingHas, PTL
<1>3. QED
  BY <1>1, <1>2

----------------------------------------------------------------------------
(* What a step does to the entries of the queue.                           *)

Carried ==
  \A o \in Offset : \A e \in Envelope :
    inbox'.cursor <= o /\ o < inbox.next /\ Seen(o, e) => Seen(o, e)'

LEMMA EntriesMove ==
  ASSUME QueueInv, QueueInv', Carried, inbox.cursor <= inbox'.cursor, inbox.next <= inbox'.next,
         NEW n \in Nat, n = inbox'.cursor - inbox.cursor
  PROVE  \A k \in 1 .. inbox'.next - inbox'.cursor :
           k + n <= Len(Pending) => Pending'[k] = Pending[k + n]
<1> SUFFICES ASSUME NEW k \in 1 .. inbox'.next - inbox'.cursor, k + n <= Len(Pending)
             PROVE  Pending'[k] = Pending[k + n]
  OBVIOUS
<1>1. PICK lo, hi, low : lo = inbox.cursor /\ hi = inbox.next /\ low = inbox'.cursor
  OBVIOUS
<1>2. /\ lo \in Nat /\ hi \in Nat /\ low \in Nat /\ lo <= hi /\ low = lo + n
      /\ k \in Nat /\ k >= 1
  BY <1>1, ReachIs, ReachIsNext
<1>3. Len(Pending) = hi - lo
  BY <1>1, PendingIs
<1>4. PICK m : m = k + n
  OBVIOUS
<1>5. m \in 1 .. hi - lo /\ lo + m - 1 = low + k - 1
  BY <1>2, <1>3, <1>4, SMTT(30)
<1>6. PICK o : o = lo + m - 1
  OBVIOUS
<1>7. o \in Offset /\ o < hi /\ Seen(o, Pending[m]) /\ Pending[m] \in Envelope
  <2>1. Pending \in Seq(Envelope) /\ DOMAIN Pending = 1 .. hi - lo
    BY <1>1, PendingIs
  <2>2. Pending[m] \in Envelope
    BY <1>5, <2>1, SeqIsFunction
  <2>3. o \in Offset /\ o < hi /\ Seen(o, Pending[m])
    BY <1>1, <1>5, <1>6, PendingIs
  <2>4. QED
    BY <2>2, <2>3
<1>8. low <= o
  BY <1>2, <1>5, <1>6
<1>9. PICK e \in Envelope : e = Pending[m]
  BY <1>7
<1>10. Seen(o, e)'
  BY <1>1, <1>7, <1>8, <1>9 DEF Carried
<1>11. o = inbox'.cursor + k - 1
  BY <1>1, <1>5, <1>6
<1>12. Pending'[k] = e
  BY <1>7, <1>10, <1>11, PendingIsNext
<1>13. QED
  BY <1>4, <1>9, <1>12

LEMMA FrontRemoved ==
  ASSUME NEW S, NEW s \in Seq(S), NEW t \in Seq(S), NEW n \in 0 .. Len(s),
         Len(t) = Len(s) - n, \A k \in 1 .. Len(t) : t[k] = s[k + n]
  PROVE  t = SubSeq(s, n + 1, Len(s))
<1>1. Len(s) \in Nat /\ DOMAIN s = 1 .. Len(s) /\ \A k \in 1 .. Len(s) : s[k] \in S
  BY SeqIsFunction
<1>2. PICK rest : rest = SubSeq(s, n + 1, Len(s))
  OBVIOUS
<1>3. PICK m \in Nat : m = n + 1
  OBVIOUS
<1>4. \A k \in m .. Len(s) : s[k] \in S
  BY <1>1, <1>3
<1>5. /\ rest \in Seq(S) /\ Len(rest) = IF m <= Len(s) THEN Len(s) - m + 1 ELSE 0
      /\ \A k \in 1 .. Len(s) - m + 1 : rest[k] = s[m + k - 1]
  BY <1>1, <1>2, <1>3, <1>4, SubSeqProperties
<1>6. Len(rest) = Len(t)
  BY <1>1, <1>3, <1>5
<1>7. \A k \in 1 .. Len(t) : t[k] = rest[k]
  <2> SUFFICES ASSUME NEW k \in 1 .. Len(t)
               PROVE  t[k] = rest[k]
    OBVIOUS
  <2>1. k \in 1 .. Len(s) - m + 1 /\ m + k - 1 = k + n
    BY <1>1, <1>3
  <2>2. QED
    BY <1>5, <2>1
<1>8. QED
  BY <1>2, <1>6, <1>7, SeqEqual

(* The queue is as it was, has one message more, or lost its front.        *)
LEMMA QueueRests ==
  ASSUME QueueInv, QueueInv', Carried,
         inbox'.next = inbox.next, inbox'.cursor = inbox.cursor
  PROVE  Pending' = Pending
<1>1. PICK queue, new : queue = Pending /\ new = Pending'
  OBVIOUS
<1>2. PICK lo, hi : lo = inbox.cursor /\ hi = inbox.next
  OBVIOUS
<1>3. lo \in Nat /\ hi \in Nat /\ lo <= hi /\ 0 = inbox'.cursor - inbox.cursor
  BY <1>2, ReachIs
<1>4. queue \in Seq(Envelope) /\ Len(queue) = hi - lo
  BY <1>1, <1>2, PendingIs
<1>5. new \in Seq(Envelope) /\ Len(new) = hi - lo
  BY <1>1, <1>2, PendingIsNext
<1>6. PICK n \in Nat : n = 0
  OBVIOUS
<1>7. \A k \in 1 .. inbox'.next - inbox'.cursor :
        k + n <= Len(Pending) => Pending'[k] = Pending[k + n]
  BY <1>2, <1>3, <1>6, EntriesMove
<1>8. \A k \in 1 .. Len(new) : new[k] = queue[k]
  BY <1>1, <1>2, <1>3, <1>4, <1>5, <1>6, <1>7
<1>9. QED
  BY <1>1, <1>4, <1>5, <1>8, SeqEqual

LEMMA QueueGrows ==
  ASSUME QueueInv, QueueInv', Carried, NEW o \in Offset, NEW e \in Envelope,
         o = inbox.next, Seen(o, e)',
         inbox'.next = inbox.next + 1, inbox'.cursor = inbox.cursor
  PROVE  Pending' = Append(Pending, e)
<1>1. PICK queue, new, want : queue = Pending /\ new = Pending' /\ want = Append(Pending, e)
  OBVIOUS
<1>2. PICK lo, hi : lo = inbox.cursor /\ hi = inbox.next
  OBVIOUS
<1>3. /\ lo \in Nat /\ hi \in Nat /\ lo <= hi /\ 0 = inbox'.cursor - inbox.cursor
      /\ inbox.cursor <= inbox'.cursor /\ inbox.next <= inbox'.next
      /\ inbox'.next - inbox'.cursor = hi + 1 - lo
  BY <1>2, ReachIs
<1>4. queue \in Seq(Envelope) /\ Len(queue) = hi - lo
  BY <1>1, <1>2, PendingIs
<1>5. new \in Seq(Envelope) /\ Len(new) = hi + 1 - lo
  BY <1>1, <1>3, PendingIsNext
<1>6. PICK n \in Nat : n = 0
  OBVIOUS
<1>7. \A k \in 1 .. inbox'.next - inbox'.cursor :
        k + n <= Len(Pending) => Pending'[k] = Pending[k + n]
  BY <1>3, <1>6, EntriesMove
<1>8. \A k \in 1 .. Len(queue) : new[k] = queue[k]
  BY <1>1, <1>3, <1>4, <1>6, <1>7
<1>9. new[Len(queue) + 1] = e
  <2>1. PICK k : k = hi - lo + 1
    OBVIOUS
  <2>2. k \in 1 .. inbox'.next - inbox'.cursor /\ o = inbox'.cursor + k - 1
    BY <1>2, <1>3, <2>1
  <2>3. Pending'[k] = e
    BY <2>2, PendingIsNext
  <2>4. QED
    BY <1>1, <1>4, <2>1, <2>3
<1>10. /\ want \in Seq(Envelope) /\ Len(want) = Len(queue) + 1
       /\ \A k \in DOMAIN queue : want[k] = queue[k]
       /\ want[Len(queue) + 1] = e /\ DOMAIN queue = 1 .. Len(queue)
  BY <1>1, <1>4, AppendedIs
<1>11. \A k \in 1 .. Len(new) : new[k] = want[k]
  <2>1. PICK m : m = Len(queue)
    OBVIOUS
  <2>2. m \in Nat /\ Len(new) = m + 1
    BY <1>3, <1>4, <1>5, <2>1
  <2>3. \A k \in 1 .. m : new[k] = want[k]
    BY <1>8, <1>10, <2>1
  <2>4. new[m + 1] = want[m + 1]
    BY <1>9, <1>10, <2>1
  <2>5. \A k \in 1 .. m + 1 : k \in 1 .. m \/ k = m + 1
    BY <2>2
  <2>6. QED
    BY <2>2, <2>3, <2>4, <2>5
<1>12. Len(new) = Len(want)
  BY <1>3, <1>4, <1>5, <1>10
<1>13. QED
  BY <1>1, <1>5, <1>10, <1>11, <1>12, SeqEqual

LEMMA QueueShrinks ==
  ASSUME QueueInv, QueueInv', Carried, NEW n \in Nat,
         inbox'.next = inbox.next, inbox'.cursor = inbox.cursor + n
  PROVE  n <= Len(Pending) /\ Pending' = SubSeq(Pending, n + 1, Len(Pending))
<1>1. PICK queue, new : queue = Pending /\ new = Pending'
  OBVIOUS
<1>2. PICK lo, hi : lo = inbox.cursor /\ hi = inbox.next
  OBVIOUS
<1>3. lo \in Nat /\ hi \in Nat /\ lo + n <= hi /\ n = inbox'.cursor - inbox.cursor
  BY <1>2, ReachIs, ReachIsNext
<1>4. queue \in Seq(Envelope) /\ Len(queue) = hi - lo
  BY <1>1, <1>2, PendingIs
<1>5. new \in Seq(Envelope) /\ Len(new) = hi - (lo + n)
  BY <1>1, <1>2, PendingIsNext
<1>6. \A k \in 1 .. inbox'.next - inbox'.cursor :
        k + n <= Len(Pending) => Pending'[k] = Pending[k + n]
  BY <1>2, <1>3, EntriesMove
<1>7. n \in 0 .. Len(queue) /\ Len(new) = Len(queue) - n
  BY <1>3, <1>4, <1>5
<1>8. \A k \in 1 .. Len(new) : new[k] = queue[k + n]
  BY <1>1, <1>2, <1>3, <1>4, <1>5, <1>6
<1>9. new = SubSeq(queue, n + 1, Len(queue))
  BY <1>4, <1>5, <1>7, <1>8, FrontRemoved
<1>10. QED
  BY <1>1, <1>7, <1>9

----------------------------------------------------------------------------
(* Where nothing stops the actor, nothing is drained or flushed.           *)

LEMMA CalmStep ==
  ASSUME NeverStops, KindInv, CalmInv, [Next]_vars
  PROVE  CalmInv'
<1>1. /\ "selfStop" \notin Faults /\ "passivation" \notin Faults /\ "externalStop" \notin Faults
  BY DEF NeverStops
<1>2. /\ loop \in [Incarnation -> LoopStates]
      /\ after \in [Incarnation -> {"crashed", "exit", "ended"}]
  BY DEF KindInv, TypeOK
<1>3. CASE UNCHANGED <<stop, slot, stopping, passivating, after, loop>>
  BY <1>3 DEF CalmInv
<1>4. ASSUME UNCHANGED <<stop, slot, stopping, passivating, after>>,
             \A i \in Incarnation : loop'[i] = loop[i] \/ loop'[i] \notin {"exit", "flush"}
      PROVE  CalmInv'
  BY <1>4 DEF CalmInv
<1>5. ASSUME NEW s \in Senders, SenderStep(s)
      PROVE  CalmInv'
  <2>1. CASE NotifyAfterPush(s)
    <3>1. \A i \in Incarnation : loop'[i] = loop[i] \/ loop'[i] \notin {"exit", "flush"}
      BY <2>1, NotifyWorkIs DEF NotifyAfterPush, KindInv
    <3>2. QED
      BY <1>4, <2>1, <3>1 DEF NotifyAfterPush, lifeVars
  <2>2. CASE Resolve(s) \/ DirectPush(s) \/ DeliverToDoor(s)
    BY <1>3, <2>2 DEF Resolve, DirectPush, DeliverToDoor, lifeVars, loopVars
  <2>3. QED
    BY <1>5, <2>1, <2>2 DEF SenderStep
<1>6. ASSUME NEW d \in Incarnation, DoorStep(d)
      PROVE  CalmInv'
  <2>1. CASE DoorNotify(d)
    <3>1. \A i \in Incarnation : loop'[i] = loop[i] \/ loop'[i] \notin {"exit", "flush"}
      BY <2>1, NotifyWorkIs DEF DoorNotify, KindInv
    <3>2. QED
      BY <1>4, <2>1, <3>1 DEF DoorNotify, lifeVars
  <2>2. CASE ~DoorNotify(d)
    BY <1>3, <1>6, <2>2 DEF DoorStep, DoorReceive, DoorPush, DoorHold, DoorPark, DoorRefuse,
       DoorPanic, lifeVars, loopVars
  <2>3. QED
    BY <2>1, <2>2
<1>7. ASSUME NEW i \in Incarnation, NEW state, loop' = [loop EXCEPT ![i] = state],
             state \notin {"exit", "flush"},
             UNCHANGED <<stop, slot, stopping, passivating, after>>
      PROVE  CalmInv'
  <2>1. \A j \in Incarnation : loop'[j] = loop[j] \/ loop'[j] = state
    BY <1>2, <1>7
  <2>2. QED
    BY <1>4, <1>7, <2>1
<1>8. ASSUME NEW i \in Incarnation, LoopStep(i)
      PROVE  CalmInv'
  <2>0. ~passivating[i] /\ after[i] \notin {"exit", "flush"} /\ ~stopping
        /\ loop[i] \notin {"exit", "flush"}
    BY <1>2 DEF CalmInv
  <2>1. UNCHANGED <<stop, slot, stopping, passivating, after>>
    BY <1>8 DEF LoopStep, Claim, IdleWait, CommitBatch, CommitOne, Dispatched, GuardReads,
       GuardRestores, GuardFlushes, LoopEnds, lifeVars
  <2>2. \E state : loop' = [loop EXCEPT ![i] = state] /\ state \notin {"exit", "flush"}
    <3>1. CASE Claim(i)
      BY <2>0, <3>1 DEF Claim, SetLoop
    <3>2. CASE IdleWait(i)
      BY <3>2 DEF IdleWait, SetLoop
    <3>3. CASE CommitBatch(i) \/ CommitOne(i) \/ Dispatched(i)
      BY <3>3 DEF CommitBatch, CommitOne, Dispatched, SetLoop
    <3>4. CASE GuardReads(i)
      BY <2>0, <3>4 DEF GuardReads, SetLoop
    <3>5. CASE GuardRestores(i)
      BY <2>0, <3>5 DEF GuardRestores, SetLoop
    <3>6. CASE GuardFlushes(i)
      BY <2>0, <3>6 DEF GuardFlushes
    <3>7. CASE LoopEnds(i)
      <4>1. PICK state : state = "ended"
        OBVIOUS
      <4>2. loop' = [loop EXCEPT ![i] = state]
        BY <3>7, <4>1 DEF LoopEnds, SetLoop
      <4>3. state \notin {"exit", "flush"}
        BY <4>1
      <4>4. QED
        BY <4>2, <4>3
    <3>8. QED
      BY <1>8, <3>1, <3>2, <3>3, <3>4, <3>5, <3>6, <3>7 DEF LoopStep
  <2>3. QED
    BY <1>7, <2>1, <2>2
<1>9. ASSUME NEW i \in Incarnation, Befalls(i)
      PROVE  CalmInv'
  <2>1. Crash(i)
    BY <1>1, <1>9 DEF Befalls, Passivate, StopSelf, Abort, CalmInv
  <2>2. /\ after' = [after EXCEPT ![i] = "crashed"] /\ loop' = [loop EXCEPT ![i] = "unwind"]
        /\ UNCHANGED <<stop, slot, stopping, passivating>>
    BY <2>1 DEF Crash, Unwind, SetLoop, CalmInv
  <2>3. \A j \in Incarnation : /\ after'[j] = after[j] \/ after'[j] = "crashed"
                               /\ loop'[j] = loop[j] \/ loop'[j] = "unwind"
    BY <1>2, <2>2
  <2>4. QED
    BY <2>2, <2>3 DEF CalmInv
<1>10. CASE Restart
  <2>1. /\ loop' = [loop EXCEPT ![current + 1] = "step"]
        /\ UNCHANGED <<stop, slot, stopping, passivating, after>>
    BY <1>10 DEF Restart
  <2>2. \A j \in Incarnation : loop'[j] = loop[j] \/ loop'[j] = "step"
    BY <1>2, <2>1
  <2>3. QED
    BY <1>4, <2>1, <2>2
<1>11. ~ExternalStop /\ ~Join /\ ~Teardown
  <2>1. ~TeardownDue
    BY DEF CalmInv, TeardownDue
  <2>2. QED
    BY <1>1, <2>1 DEF CalmInv, ExternalStop, Join, Teardown, TeardownDrain, TeardownUnregister
<1>12. CASE UNCHANGED vars
  BY <1>3, <1>12 DEF vars, lifeVars, loopVars
<1>13. QED
  BY <1>5, <1>6, <1>8, <1>9, <1>10, <1>11, <1>12, Steps

----------------------------------------------------------------------------
(* Each step leaves the queue as it is, adds one message, or removes the   *)
(* front that a step has in hand.                                          *)

Rests == Carried /\ UNCHANGED consumed /\ inbox'.next = inbox.next /\ inbox'.cursor = inbox.cursor

Accepts ==
  /\ Carried /\ UNCHANGED consumed
  /\ inbox'.next = inbox.next + 1 /\ inbox'.cursor = inbox.cursor
  /\ \E o \in Offset : \E e \in Envelope : o = inbox.next /\ Seen(o, e)'

Finishes ==
  /\ Carried /\ inbox'.next = inbox.next
  /\ \E n \in 1 .. Batch : /\ n <= Len(Pending)
                           /\ inbox'.cursor = inbox.cursor + n
                           /\ consumed' = consumed \o SubSeq(Pending, 1, n)

Effect == BatchInv' /\ (Rests \/ Accepts \/ Finishes)

LEMMA EffectNone ==
  ASSUME QueueInv, UNCHANGED <<cell, claims, consumed>>, inbox'.slots = inbox.slots,
         inbox'.next = inbox.next, inbox'.cursor = inbox.cursor
  PROVE  Effect
<1>1. \A i \in Incarnation : Held(i)' = Held(i)
  BY DEF Held
<1>2. Carried
  BY <1>1 DEF Carried, Seen
<1>3. BatchInv'
  BY <1>1 DEF QueueInv, BatchInv, Batch
<1>4. QED
  BY <1>2, <1>3 DEF Effect, Rests

LEMMA EffectPush ==
  ASSUME QueueInv, Sorted', NEW e \in Envelope, inbox' = Push(inbox, e),
         UNCHANGED <<cell, claims, consumed>>
  PROVE  Effect
<1>1. inbox \in InboxType /\ inbox.policy # "DropOld" /\ KindInv /\ KeepInv /\ Policy # "DropOld"
  BY DEF QueueInv, Sorted, KeepInv, KindInv, TypeOK
<1>2. CASE PushAnswer(inbox) # "Queued"
  <2>1. inbox' = inbox
    BY <1>1, <1>2, PushIs
  <2>2. QED
    BY <2>1, EffectNone
<1>3. CASE PushAnswer(inbox) = "Queued"
  <2>1. inbox' = QueueNext(inbox, e)
    BY <1>1, <1>3, PushIs
  <2>2. /\ inbox'.next = inbox.next + 1 /\ inbox'.cursor = inbox.cursor
        /\ \A o \in Offset : inbox'.slots[o] = IF o = inbox.next THEN e ELSE inbox.slots[o]
    BY <1>1, <2>1, QueueNextIs
  <2>3. PICK n \in Offset : n = inbox.next
    <3>1. inbox.next \in Nat /\ inbox'.next \in Nat /\ \A o \in Nat : o < inbox'.next => o \in Offset
      BY ReachIs, SortedReachNext
    <3>2. QED
      BY <2>2, <3>1
  <2>4. inbox'.slots[n] = e /\ \A o \in Offset : o < inbox.next => inbox'.slots[o] = inbox.slots[o]
    <3>1. \A o \in Offset : o < n => o # n
      BY DEF Offset
    <3>2. QED
      BY <2>2, <2>3, <3>1
  <2>5. \A i \in Incarnation : Held(i)' = Held(i)
    BY DEF Held
  <2>6. Carried
    BY <2>4, <2>5 DEF Carried, Seen
  <2>7. Seen(n, e)'
    BY <2>4 DEF Seen
  <2>8. BatchInv'
    BY <2>2, <2>5 DEF QueueInv, BatchInv, Batch
  <2>9. QED
    BY <2>2, <2>3, <2>6, <2>7, <2>8 DEF Effect, Accepts
<1>4. QED
  BY <1>2, <1>3

LEMMA EffectClaim ==
  ASSUME QueueInv, NEW i \in Incarnation, Claim(i)
  PROVE  Effect
<1>0. /\ KindInv /\ KeepInv /\ TypeOK /\ inbox \in InboxType /\ Policy # "DropOld"
      /\ UNCHANGED <<cell, consumed>>
  BY DEF QueueInv, Sorted, KindInv, TypeOK, Claim
<1>1. CASE UNCHANGED <<inbox, claims>>
  BY <1>0, <1>1, EffectNone
<1>2. CASE ~UNCHANGED <<inbox, claims>>
  <2>1. PICK run : run = ClaimRun(inbox, Batch)
    OBVIOUS
  <2>2. PICK taken : taken = Contents(inbox, run)
    OBVIOUS
  <2>3. /\ ~ClaimPanics(inbox, Batch) /\ run # {}
        /\ inbox' = Take(inbox, run) /\ claims' = [claims EXCEPT ![i] = taken]
    BY <1>2, <2>1, <2>2 DEF Claim
  <2>4. /\ run \subseteq Offset
        /\ \A o \in run : inbox.slots[o] \in Envelope
        /\ \A o \in run : taken[o] = inbox.slots[o]
        /\ \A o \in Offset \ run : taken[o] = Vacant
    BY <1>0, <2>1, <2>2, <2>3, RunIs
  <2>5. /\ inbox'.next = inbox.next /\ inbox'.cursor = inbox.cursor
        /\ \A o \in Offset : inbox'.slots[o] = IF o \in run THEN Tombstone ELSE inbox.slots[o]
    BY <1>0, <2>3, TakeIs
  <2>6. \A j \in Incarnation : Held(j) = {}
    BY <1>0, <2>1, <2>3, FreeToTake
  <2>7. claims'[i] = taken /\ \A j \in Incarnation \ {i} : claims'[j] = claims[j]
    BY <1>0, <2>3 DEF TypeOK
  <2>8. Held(i)' = run /\ \A j \in Incarnation \ {i} : Held(j)' = {}
    <3>1. \A o \in Offset : taken[o] # Vacant <=> o \in run
      BY <2>4, ConstantsAre
    <3>2. QED
      BY <2>4, <2>6, <2>7, <3>1 DEF Held
  <2>9. Carried
    <3> SUFFICES ASSUME NEW o \in Offset, NEW e \in Envelope, Seen(o, e)
                 PROVE  Seen(o, e)'
      BY DEF Carried
    <3>1. inbox.slots[o] = e
      BY <2>6 DEF Seen
    <3>2. CASE o \in run
      BY <2>4, <2>7, <2>8, <3>1, <3>2 DEF Seen
    <3>3. CASE o \notin run
      BY <2>5, <3>1, <3>3 DEF Seen
    <3>4. QED
      BY <3>2, <3>3
  <2>10. BatchInv'
    <3>1. \A o \in run : o < inbox.cursor + Batch
      BY <2>1 DEF ClaimRun
    <3>2. Batch' = Batch
      BY <1>0 DEF Batch
    <3>3. QED
      BY <2>5, <2>8, <3>1, <3>2 DEF BatchInv
  <2>11. QED
    BY <1>0, <2>5, <2>9, <2>10 DEF Effect, Rests
<1>3. QED
  BY <1>1, <1>2

LEMMA EffectRestore ==
  ASSUME QueueInv, NEW i \in Incarnation, UNCHANGED <<cell, consumed>>,
         inbox' = Restore(inbox, claims[i]), claims' = [claims EXCEPT ![i] = NoClaims]
  PROVE  Effect
<1>0. /\ KindInv /\ KeepInv /\ TypeOK /\ inbox \in InboxType /\ Policy # "DropOld"
  BY DEF QueueInv, Sorted, KindInv, TypeOK
<1>1. claims[i] \in [Offset -> Envelope \cup {Vacant}]
  BY <1>0 DEF TypeOK
<1>2. /\ inbox'.next = inbox.next /\ inbox'.cursor = inbox.cursor
      /\ \A o \in Offset :
           inbox'.slots[o] = IF claims[i][o] # Vacant THEN claims[i][o] ELSE inbox.slots[o]
  BY <1>0, <1>1, RestoreIs
<1>3. claims'[i] = NoClaims /\ \A j \in Incarnation \ {i} : claims'[j] = claims[j]
  BY <1>0 DEF TypeOK
<1>4. Held(i)' = {} /\ \A j \in Incarnation \ {i} : Held(j)' = Held(j)
  BY <1>3 DEF Held, NoClaims
<1>5. Carried
  <2> SUFFICES ASSUME NEW o \in Offset, NEW e \in Envelope, Seen(o, e)
               PROVE  Seen(o, e)'
    BY DEF Carried
  <2>1. CASE inbox.slots[o] = e
    <3>1. o \notin Held(i)
      BY <1>0, <2>1, KeepIs, ConstantsAre
    <3>2. inbox'.slots[o] = e
      BY <1>2, <2>1, <3>1 DEF Held
    <3>3. QED
      BY <3>2 DEF Seen
  <2>2. CASE o \in Held(i) /\ claims[i][o] = e
    <3>1. inbox'.slots[o] = e
      BY <1>2, <2>2 DEF Held
    <3>2. QED
      BY <3>1 DEF Seen
  <2>3. ASSUME NEW j \in Incarnation \ {i}, o \in Held(j), claims[j][o] = e
        PROVE  Seen(o, e)'
    BY <1>3, <1>4, <2>3 DEF Seen
  <2>4. QED
    BY <2>1, <2>2, <2>3 DEF Seen
<1>6. BatchInv'
  BY <1>2, <1>4 DEF QueueInv, BatchInv, Batch
<1>7. QED
  BY <1>2, <1>5, <1>6 DEF Effect, Rests

(* What a step has in hand is the front of the queue.                      *)
LEMMA HeldIsFront ==
  ASSUME QueueInv, NEW i \in Incarnation, Held(i) # {},
         NEW lo, lo = inbox.cursor, NEW hi, hi = Max(Held(i))
  PROVE  /\ lo \in Nat /\ hi \in Nat /\ lo <= hi /\ hi < inbox.next /\ hi < lo + Batch
         /\ Held(i) = lo .. hi /\ Min(Held(i)) = lo /\ Cardinality(Held(i)) = hi - lo + 1
         /\ hi - lo + 1 <= Len(Pending) /\ Pending \in Seq(Envelope)
         /\ \A k \in 1 .. hi - lo + 1 : Pending[k] = claims[i][lo + k - 1]
         /\ \A j \in Incarnation \ {i} : Held(j) = {}
<1>0. KindInv /\ KeepInv /\ Policy # "DropOld" /\ BatchInv
  BY DEF QueueInv, Sorted
<1>1. /\ Min(Held(i)) = lo /\ Held(i) = lo .. hi /\ hi \in Nat /\ lo <= hi
      /\ hi < inbox.next /\ lo \in Held(i) /\ lo \in Nat /\ inbox.next \in Nat
  BY <1>0, FrontIs, KeepIs
<1>2. Cardinality(Held(i)) = hi - lo + 1
  BY <1>0, <1>1, HeldIs, SpanIs
<1>3. hi < lo + Batch
  <2>1. hi \in lo .. hi /\ Held(i) = lo .. hi
    BY <1>1
  <2>2. hi \in Held(i)
    BY <2>1
  <2>3. QED
    BY <1>0, <2>2 DEF BatchInv
<1>4. hi - lo + 1 <= Len(Pending) /\ Pending \in Seq(Envelope)
  BY <1>1, PendingIs
<1>5. ASSUME NEW k \in 1 .. hi - lo + 1
      PROVE  Pending[k] = claims[i][lo + k - 1]
  <2>1. PICK o : o = lo + k - 1
    OBVIOUS
  <2>2. o \in Held(i) /\ k \in 1 .. inbox.next - inbox.cursor
    <3>1. o \in lo .. hi /\ k \in 1 .. inbox.next - lo /\ Held(i) = lo .. hi
      BY <1>1, <2>1
    <3>2. QED
      BY <3>1
  <2>3. PICK e \in Envelope : e = claims[i][o]
    BY <1>0, <2>2, HeldIs
  <2>4. o \in Offset /\ Seen(o, e)
    BY <1>0, <2>2, <2>3, HeldIs DEF Seen
  <2>5. Pending[k] = e
    BY <2>1, <2>2, <2>4, PendingHas
  <2>6. QED
    BY <2>1, <2>3, <2>5
<1>6. \A j \in Incarnation \ {i} : Held(j) = {}
  BY <1>0, KeepIs
<1>7. QED
  BY <1>1, <1>2, <1>3, <1>4, <1>5, <1>6

LEMMA FrontOf ==
  ASSUME NEW S, NEW s \in Seq(S), NEW n \in 1 .. Len(s), NEW t \in [1 .. n -> S],
         \A k \in 1 .. n : t[k] = s[k]
  PROVE  t = SubSeq(s, 1, n)
<1>1. Len(s) \in Nat /\ \A k \in 1 .. Len(s) : s[k] \in S
  BY SeqIsFunction
<1>2. n \in Nat /\ \A k \in 1 .. n : s[k] \in S
  BY <1>1
<1>3. t \in Seq(S) /\ Len(t) = n
  BY <1>2, FunctionIsSeq
<1>4. PICK front : front = SubSeq(s, 1, n)
  OBVIOUS
<1>5. PICK one \in Nat : one = 1
  OBVIOUS
<1>6. /\ front \in Seq(S) /\ Len(front) = IF one <= n THEN n - one + 1 ELSE 0
      /\ \A k \in 1 .. n - one + 1 : front[k] = s[one + k - 1]
  BY <1>2, <1>4, <1>5, SubSeqProperties
<1>7. Len(front) = n /\ \A k \in 1 .. n : front[k] = s[k]
  BY <1>2, <1>5, <1>6
<1>8. QED
  BY <1>3, <1>4, <1>6, <1>7, SeqEqual

(* A commit finishes the messages up to the offset it commits.             *)
CommitsTo(i, top) ==
  /\ UNCHANGED cell /\ inbox' = CommitThrough(inbox, top)
  /\ \A j \in Incarnation \ {i} : claims'[j] = claims[j]
  /\ \A o \in Offset : top < o => claims'[i][o] = claims[i][o]
  /\ \A o \in Offset : o <= top => claims'[i][o] = Vacant

Consumes(i, lo, n) ==
  \E batch \in [1 .. n -> Envelope] :
    /\ \A k \in 1 .. n : batch[k] = claims[i][lo + k - 1]
    /\ consumed' = consumed \o batch

LEMMA CommitMoves ==
  ASSUME KindInv, NEW i \in Incarnation, NEW top \in Nat, CommitsTo(i, top)
  PROVE  /\ inbox'.next = inbox.next /\ inbox'.cursor = top + 1
         /\ \A o \in Offset : top < o => inbox'.slots[o] = inbox.slots[o]
<1>1. inbox \in InboxType
  BY DEF KindInv, TypeOK
<1>2. PICK new : new = inbox'
  OBVIOUS
<1>3. new = CommitThrough(inbox, top)
  BY <1>2 DEF CommitsTo
<1>4. /\ new.next = inbox.next /\ new.cursor = top + 1
      /\ \A o \in Offset : new.slots[o] = IF o <= top THEN Vacant ELSE inbox.slots[o]
  BY <1>1, <1>3, CommitThroughIs
<1>5. \A o \in Offset : top < o => ~(o <= top)
  BY DEF Offset
<1>6. QED
  BY <1>2, <1>4, <1>5

LEMMA CommitCarries ==
  ASSUME KindInv, NEW i \in Incarnation, NEW top \in Nat, CommitsTo(i, top),
         \A j \in Incarnation \ {i} : Held(j) = {}
  PROVE  /\ Carried
         /\ Held(i)' \subseteq Held(i) /\ \A j \in Incarnation \ {i} : Held(j)' = {}
<1>1. \A o \in Offset : o \in Nat /\ (top + 1 <= o => top < o) /\ (o <= top \/ top < o)
  BY DEF Offset
<1>2. ASSUME NEW o \in Offset, NEW e \in Envelope, top < o, Seen(o, e)
      PROVE  Seen(o, e)'
  <2>1. CASE inbox.slots[o] = e
    <3>1. inbox'.slots[o] = e
      BY <1>2, <2>1, CommitMoves
    <3>2. QED
      BY <3>1 DEF Seen
  <2>2. CASE o \in Held(i) /\ claims[i][o] = e
    <3>1. claims'[i][o] = e /\ o \in Held(i)'
      BY <1>2, <2>2 DEF Held, CommitsTo
    <3>2. QED
      BY <3>1 DEF Seen
  <2>3. ASSUME NEW j \in Incarnation, o \in Held(j), claims[j][o] = e
        PROVE  Seen(o, e)'
    <3>1. j = i
      BY <2>3
    <3>2. QED
      BY <2>2, <2>3, <3>1
  <2>4. QED
    BY <1>2, <2>1, <2>3 DEF Seen
<1>3. Carried
  <2>1. inbox'.cursor = top + 1
    BY CommitMoves
  <2>2. QED
    BY <1>1, <1>2, <2>1 DEF Carried
<1>4. Held(i)' \subseteq Held(i)
  <2> SUFFICES ASSUME NEW o \in Offset, claims'[i][o] # Vacant
               PROVE  claims[i][o] # Vacant
    BY DEF Held
  <2>1. top < o
    BY <1>1 DEF CommitsTo
  <2>2. QED
    BY <2>1 DEF CommitsTo
<1>5. \A j \in Incarnation \ {i} : Held(j)' = {}
  BY DEF Held, CommitsTo
<1>6. QED
  BY <1>3, <1>4, <1>5

LEMMA EffectCommit ==
  ASSUME QueueInv, NEW i \in Incarnation, Held(i) # {},
         NEW lo \in Nat, lo = inbox.cursor, NEW hi \in Nat, hi = Max(Held(i)),
         NEW top \in Nat, lo <= top, top <= hi, CommitsTo(i, top),
         NEW n \in Nat, n = top - lo + 1, Consumes(i, lo, n)
  PROVE  Effect
<1>1. /\ hi < inbox.next /\ hi < lo + Batch /\ hi - lo + 1 <= Len(Pending)
      /\ Pending \in Seq(Envelope)
      /\ \A k \in 1 .. hi - lo + 1 : Pending[k] = claims[i][lo + k - 1]
      /\ \A j \in Incarnation \ {i} : Held(j) = {}
  BY HeldIsFront
<1>2. Batch \in Nat /\ Len(Pending) \in Nat /\ KindInv
  BY <1>1, CellIs, SeqIsFunction DEF QueueInv, Sorted, KindInv
<1>3. n \in 1 .. Batch /\ n \in 1 .. Len(Pending) /\ top + 1 = lo + n
  BY <1>1, <1>2
<1>4. /\ inbox'.next = inbox.next /\ inbox'.cursor = top + 1
  BY <1>2, CommitMoves
<1>5. /\ Carried /\ Held(i)' \subseteq Held(i)
      /\ \A j \in Incarnation \ {i} : Held(j)' = {}
  BY <1>1, <1>2, CommitCarries
<1>6. consumed' = consumed \o SubSeq(Pending, 1, n)
  <2>1. PICK batch \in [1 .. n -> Envelope] :
          /\ \A k \in 1 .. n : batch[k] = claims[i][lo + k - 1]
          /\ consumed' = consumed \o batch
    BY DEF Consumes
  <2>2. \A k \in 1 .. n : batch[k] = Pending[k]
    <3>1. \A k \in 1 .. n : k \in 1 .. hi - lo + 1
      OBVIOUS
    <3>2. QED
      BY <1>1, <2>1, <3>1
  <2>3. batch = SubSeq(Pending, 1, n)
    BY <1>1, <1>3, <2>2, FrontOf, SMTT(30)
  <2>4. QED
    BY <2>1, <2>3
<1>7. BatchInv'
  <2>1. \A o \in Held(i) : o \in Nat /\ o < lo + Batch
    <3>1. Held(i) \subseteq Offset /\ \A o \in Offset : o \in Nat
      BY <1>2, HeldIs DEF Offset
    <3>2. QED
      BY <3>1 DEF QueueInv, BatchInv
  <2>2. \A o \in Nat : o < lo + Batch => o < top + 1 + Batch
    BY <1>2
  <2>3. Batch' = Batch
    BY DEF Batch, CommitsTo
  <2>4. ASSUME NEW j \in Incarnation, NEW o \in Held(j)'
        PROVE  o < inbox'.cursor + Batch'
    <3>1. o \in Held(i)
      BY <1>5, <2>4
    <3>2. QED
      BY <1>4, <2>1, <2>2, <2>3, <3>1
  <2>5. QED
    BY <2>4 DEF BatchInv
<1>8. inbox'.cursor = inbox.cursor + n /\ n <= Len(Pending)
  BY <1>2, <1>3, <1>4
<1>9. Finishes
  BY <1>3, <1>4, <1>5, <1>6, <1>8 DEF Finishes
<1>10. QED
  BY <1>7, <1>9 DEF Effect

LEMMA EffectCommits ==
  ASSUME QueueInv, NEW i \in Incarnation, CommitBatch(i) \/ CommitOne(i)
  PROVE  Effect
<1>0. /\ KindInv /\ TypeOK /\ UNCHANGED cell /\ loop[i] = "claimed"
      /\ claims \in [Incarnation -> [Offset -> Envelope \cup {Vacant}]]
      /\ consumed \in Seq(Envelope)
  BY DEF QueueInv, Sorted, KindInv, TypeOK, CommitBatch, CommitOne
<1>1. Held(i) # {}
  BY <1>0 DEF KindInv, LoopInv
<1>2. PICK lo, hi : lo = inbox.cursor /\ hi = Max(Held(i))
  OBVIOUS
<1>3. /\ lo \in Nat /\ hi \in Nat /\ lo <= hi
      /\ Held(i) = lo .. hi /\ Min(Held(i)) = lo /\ Cardinality(Held(i)) = hi - lo + 1
  BY <1>1, <1>2, HeldIsFront
<1>4. \A o \in Held(i) : o \in Offset /\ claims[i][o] \in Envelope
  BY <1>0, HeldIs
<1>5. \A o \in Offset : o \notin Held(i) => claims[i][o] = Vacant
  BY <1>0, HeldIs
<1>6. \A j \in Incarnation \ {i} : claims'[j] = claims[j]
  BY <1>0 DEF CommitBatch, CommitOne
<1>7. CASE CommitBatch(i)
  <2>1. PICK batch : batch = [k \in 1 .. hi - lo + 1 |-> claims[i][lo + k - 1]]
    OBVIOUS
  <2>2. \A k \in 1 .. hi - lo + 1 : lo + k - 1 \in Held(i)
    <3>1. \A k \in 1 .. hi - lo + 1 : lo + k - 1 \in lo .. hi
      BY <1>3
    <3>2. QED
      BY <1>3, <3>1
  <2>3. /\ batch \in [1 .. hi - lo + 1 -> Envelope]
        /\ \A k \in 1 .. hi - lo + 1 : batch[k] = claims[i][lo + k - 1]
    BY <1>4, <2>1, <2>2
  <2>4. /\ consumed' = consumed \o [k \in 1 .. Cardinality(Held(i)) |->
                                      claims[i][Min(Held(i)) + k - 1]]
        /\ inbox' = CommitThrough(inbox, hi)
        /\ claims'[i] = NoClaims
    BY <1>0, <1>2, <1>7 DEF CommitBatch
  <2>5. consumed' = consumed \o batch
    BY <1>3, <2>1, <2>4
  <2>6. /\ \A o \in Offset : hi < o => claims'[i][o] = claims[i][o]
        /\ \A o \in Offset : o <= hi => claims'[i][o] = Vacant
    <3>1. \A o \in Offset : hi < o => o \notin Held(i)
      <4>1. \A o \in Offset : hi < o => o \notin lo .. hi
        BY <1>3 DEF Offset
      <4>2. QED
        BY <1>3, <4>1
    <3>2. \A o \in Offset : claims'[i][o] = Vacant
      BY <2>4 DEF NoClaims
    <3>3. QED
      BY <1>5, <3>1, <3>2
  <2>7. PICK top \in Nat : top = hi /\ lo <= top /\ top <= hi
    BY <1>3
  <2>8. CommitsTo(i, top)
    BY <1>0, <1>6, <2>4, <2>6, <2>7 DEF CommitsTo
  <2>9. PICK n \in Nat : n = top - lo + 1
    BY <1>3, <2>7
  <2>10. Consumes(i, lo, n)
    BY <2>3, <2>5, <2>7, <2>9 DEF Consumes
  <2>11. QED
    BY <1>1, <1>2, <1>3, <2>7, <2>8, <2>9, <2>10, EffectCommit
<1>8. CASE CommitOne(i)
  <2>1. /\ consumed' = Append(consumed, claims[i][lo])
        /\ inbox' = CommitThrough(inbox, lo)
        /\ claims' = [claims EXCEPT ![i][lo] = Vacant]
    BY <1>3, <1>8 DEF CommitOne
  <2>2. lo \in Held(i)
    <3>1. lo \in lo .. hi
      BY <1>3
    <3>2. QED
      BY <1>3, <3>1
  <2>3. PICK e \in Envelope : e = claims[i][lo]
    BY <1>4, <2>2
  <2>4. PICK batch : batch = <<e>>
    OBVIOUS
  <2>5. consumed' = consumed \o batch
    BY <1>0, <2>1, <2>3, <2>4, AppendIsConcat
  <2>6. lo - lo + 1 = 1
    BY <1>3
  <2>7. /\ batch \in [1 .. lo - lo + 1 -> Envelope]
        /\ \A k \in 1 .. lo - lo + 1 : batch[k] = claims[i][lo + k - 1]
    <3>1. batch \in [1 .. 1 -> Envelope] /\ batch[1] = e
      BY <2>4
    <3>2. lo + 1 - 1 = lo
      BY <1>3
    <3>3. \A k \in 1 .. 1 : batch[k] = claims[i][lo + k - 1]
      BY <2>3, <3>1, <3>2
    <3>4. QED
      BY <2>6, <3>1, <3>3
  <2>8. claims'[i][lo] = Vacant /\ \A o \in Offset \ {lo} : claims'[i][o] = claims[i][o]
    BY <1>0, <1>4, <2>1, <2>2
  <2>9. /\ \A o \in Offset : lo < o => claims'[i][o] = claims[i][o]
        /\ \A o \in Offset : o <= lo => claims'[i][o] = Vacant
    <3>1. \A o \in Offset : (lo < o => o # lo) /\ (o <= lo /\ o # lo => o \notin lo .. hi)
      BY <1>3 DEF Offset
    <3>2. QED
      BY <1>3, <1>5, <2>8, <3>1
  <2>10. PICK top \in Nat : top = lo /\ lo <= top /\ top <= hi
    BY <1>3
  <2>11. CommitsTo(i, top)
    BY <1>0, <1>6, <2>1, <2>9, <2>10 DEF CommitsTo
  <2>12. PICK n \in Nat : n = top - lo + 1
    BY <1>3, <2>10
  <2>13. Consumes(i, lo, n)
    BY <2>5, <2>7, <2>10, <2>12 DEF Consumes
  <2>14. QED
    BY <1>1, <1>2, <1>3, <2>10, <2>11, <2>12, <2>13, EffectCommit
<1>9. QED
  BY <1>7, <1>8

LEMMA StepEffect ==
  ASSUME QueueInv, Sorted', [Next]_vars
  PROVE  Effect
<1>0. /\ KindInv /\ TypeOK /\ inbox \in InboxType /\ CalmInv
  BY DEF QueueInv, Sorted, KindInv, TypeOK
<1>1. CASE UNCHANGED <<cell, claims, consumed>> /\ inbox' \in {inbox, Close(inbox), Reopen(inbox), Reopen(Close(inbox))}
  <2>1. /\ inbox'.slots = inbox.slots /\ inbox'.next = inbox.next
        /\ inbox'.cursor = inbox.cursor
    BY <1>0, <1>1, ReopenedIs
  <2>2. QED
    BY <1>1, <2>1, EffectNone
<1>2. ASSUME NEW s \in Senders, SenderStep(s)
      PROVE  Effect
  <2>1. CASE DirectPush(s)
    <3>1. /\ inbox' = Push(inbox, Message(s)) /\ at[s] # "send"
          /\ UNCHANGED <<cell, claims, consumed>>
      BY <2>1 DEF DirectPush, loopVars
    <3>2. Message(s) \in Envelope
      BY <1>0, <3>1, MessageIs
    <3>3. QED
      BY <3>1, <3>2, EffectPush
  <2>2. CASE ~DirectPush(s)
    BY <1>1, <1>2, <2>2 DEF SenderStep, Resolve, NotifyAfterPush, DeliverToDoor, loopVars
  <2>3. QED
    BY <2>1, <2>2
<1>3. ASSUME NEW d \in Incarnation, DoorStep(d)
      PROVE  Effect
  <2>1. CASE DoorPush(d) \/ DoorRefuse(d) \/ DoorPanic(d)
    <3>1. /\ inbox' = Push(inbox, held[d]) /\ held[d] # Vacant
          /\ UNCHANGED <<cell, claims, consumed>>
      BY <2>1 DEF DoorPush, DoorRefuse, DoorPanic, loopVars
    <3>2. held[d] \in Envelope
      BY <1>0, <3>1 DEF TypeOK
    <3>3. QED
      BY <3>1, <3>2, EffectPush
  <2>2. CASE DoorReceive(d) \/ DoorNotify(d) \/ DoorHold(d) \/ DoorPark(d)
    BY <1>1, <2>2 DEF DoorReceive, DoorNotify, DoorHold, DoorPark, loopVars
  <2>3. QED
    BY <1>3, <2>1, <2>2 DEF DoorStep
<1>4. ASSUME NEW i \in Incarnation, LoopStep(i)
      PROVE  Effect
  <2>1. CASE Claim(i)
    BY <2>1, EffectClaim
  <2>2. CASE CommitBatch(i) \/ CommitOne(i)
    BY <2>2, EffectCommits
  <2>3. CASE GuardRestores(i)
    <3>1. UNCHANGED <<cell, consumed>>
      BY <2>3 DEF GuardRestores
    <3>2. CASE RestorePanics(inbox, claims[i])
      BY <1>1, <2>3, <3>1, <3>2 DEF GuardRestores
    <3>3. CASE ~RestorePanics(inbox, claims[i])
      BY <2>3, <3>1, <3>3, EffectRestore DEF GuardRestores
    <3>4. QED
      BY <3>2, <3>3
  <2>4. ~GuardFlushes(i)
    BY <1>0 DEF GuardFlushes, CalmInv
  <2>5. CASE LoopEnds(i)
    BY <1>1, <2>5 DEF LoopEnds
  <2>6. CASE IdleWait(i) \/ Dispatched(i) \/ GuardReads(i)
    BY <1>1, <2>6 DEF IdleWait, Dispatched, GuardReads
  <2>7. QED
    BY <1>4, <2>1, <2>2, <2>3, <2>4, <2>5, <2>6 DEF LoopStep
<1>5. ASSUME NEW i \in Incarnation, Befalls(i)
      PROVE  Effect
  BY <1>1, <1>5 DEF Befalls, Passivate, Crash, StopSelf, Abort, Unwind
<1>6. CASE Restart
  BY <1>1, <1>6 DEF Restart
<1>7. ~ExternalStop => ~Join /\ ~Teardown
  BY <1>0 DEF CalmInv, TeardownDue, Join, Teardown, TeardownDrain, TeardownUnregister
<1>8. CASE ExternalStop
  BY <1>1, <1>8 DEF ExternalStop, loopVars
<1>9. CASE UNCHANGED vars
  BY <1>1, <1>9 DEF vars, loopVars
<1>10. QED
  BY <1>2, <1>3, <1>4, <1>5, <1>6, <1>7, <1>8, <1>9, Steps

----------------------------------------------------------------------------
(* The invariant of the queue, and the refinement.                         *)

LEMMA QueueStep ==
  ASSUME QueueInv, Sorted', CalmInv', Effect
  PROVE  QueueInv'
<1>1. inbox.cursor \in Nat /\ inbox.next \in Nat
  BY ReachIs
<1>2. /\ Carried /\ BatchInv'
      /\ inbox'.cursor \in Nat /\ inbox.cursor <= inbox'.cursor
      /\ \/ inbox'.next = inbox.next
         \/ /\ inbox'.next = inbox.next + 1
            /\ \E o \in Offset : \E e \in Envelope : o = inbox.next /\ Seen(o, e)'
  BY <1>1 DEF Effect, Rests, Accepts, Finishes
<1>3. ASSUME NEW o \in Offset, inbox'.cursor <= o, o < inbox'.next
      PROVE  \E e \in Envelope : Seen(o, e)'
  <2>1. o \in Nat
    BY DEF Offset
  <2>2. CASE o < inbox.next
    <3>1. inbox.cursor <= o
      BY <1>1, <1>2, <1>3, <2>1
    <3>2. PICK e \in Envelope : Seen(o, e)
      BY <2>2, <3>1 DEF QueueInv, SolidInv
    <3>3. Seen(o, e)'
      BY <1>2, <1>3, <2>2, <3>2 DEF Carried
    <3>4. QED
      BY <3>3
  <2>3. CASE ~(o < inbox.next)
    <3>1. o = inbox.next /\ inbox'.next # inbox.next
      BY <1>1, <1>2, <1>3, <2>1, <2>3
    <3>2. PICK p \in Offset : \E e \in Envelope : p = inbox.next /\ Seen(p, e)'
      BY <1>2, <3>1
    <3>3. p = o
      BY <3>1, <3>2
    <3>4. QED
      BY <3>2, <3>3
  <2>4. QED
    BY <2>2, <2>3
<1>4. SolidInv'
  BY <1>3 DEF SolidInv
<1>5. QED
  BY <1>2, <1>4 DEF QueueInv

LEMMA QueueInit ==
  ASSUME DistinctPrograms, OffsetsSuffice, NeverEvicts, Init
  PROVE  QueueInv
<1>1. cell \in Spawns
  BY DEF Init
<1>2. Policy # "DropOld"
  BY <1>1 DEF NeverEvicts, Policy
<1>3. Sorted
  BY <1>2, KindInit, KeepInit, MailInit DEF Sorted, MailInv
<1>4. inbox.cursor = 0 /\ inbox.next = 0
  BY DEF Init, EmptyInbox
<1>5. SolidInv
  <2>1. \A o \in Offset : ~(o < 0)
    BY DEF Offset
  <2>2. QED
    BY <1>4, <2>1 DEF SolidInv
<1>6. BatchInv
  BY DEF BatchInv, Init, Held, NoClaims
<1>7. CalmInv
  BY DEF CalmInv, Init
<1>8. QED
  BY <1>3, <1>5, <1>6, <1>7 DEF QueueInv

LEMMA QueueInvStep ==
  ASSUME DistinctPrograms, OffsetsSuffice, NeverStops
  PROVE  QueueInv /\ [Next]_vars => QueueInv' /\ Effect /\ UNCHANGED cell
<1> SUFFICES ASSUME QueueInv, [Next]_vars
             PROVE  QueueInv' /\ Effect /\ UNCHANGED cell
  OBVIOUS
<1>1. /\ Sorted /\ KindInv /\ KeepInv /\ Policy # "DropOld" /\ CalmInv /\ MailInv
  BY DEF QueueInv, Sorted, MailInv
<1>2. UNCHANGED cell
  BY CellStays
<1>3. Policy' # "DropOld"
  BY <1>1, <1>2 DEF Policy
<1>4. KindInv' /\ KeepInv' /\ MailInv'
  BY <1>1, KindStep, KeepStep, MailStep
<1>5. Sorted'
  BY <1>1, <1>3, <1>4 DEF Sorted, MailInv
<1>6. CalmInv'
  BY <1>1, CalmStep
<1>7. Effect
  BY <1>5, StepEffect
<1>8. QED
  BY <1>2, <1>5, <1>6, <1>7, QueueStep

LEMMA EffectSimulates ==
  ASSUME QueueInv, QueueInv', Effect, UNCHANGED cell
  PROVE  [Queue!Next]_Queue!vars
<1>1. CASE Rests
  <2>1. Pending' = Pending
    BY <1>1, QueueRests DEF Rests
  <2>2. UNCHANGED Queue!vars
    BY <1>1, <2>1 DEF Rests, Queue!vars
  <2>3. QED
    BY <2>2
<1>2. CASE Accepts
  <2>1. PICK o \in Offset, e \in Envelope : o = inbox.next /\ Seen(o, e)'
    BY <1>2 DEF Accepts
  <2>2. Pending' = Append(Pending, e)
    BY <1>2, <2>1, QueueGrows DEF Accepts
  <2>3. Queue!Accept(e)
    BY <1>2, <2>2 DEF Accepts, Queue!Accept
  <2>4. QED
    BY <2>3 DEF Queue!Next
<1>3. CASE Finishes
  <2>1. PICK n \in 1 .. Batch : /\ n <= Len(Pending)
                                /\ inbox'.cursor = inbox.cursor + n
                                /\ consumed' = consumed \o SubSeq(Pending, 1, n)
    BY <1>3 DEF Finishes
  <2>2. /\ Batch \in Nat /\ Len(Pending) \in Nat
    BY CellIs, PendingIs, SeqIsFunction DEF QueueInv, Sorted, KindInv
  <2>3. n \in Nat /\ n <= Batch /\ n \in 1 .. Len(Pending)
    BY <2>1, <2>2
  <2>4. Pending' = SubSeq(Pending, n + 1, Len(Pending))
    BY <1>3, <2>1, <2>3, QueueShrinks DEF Finishes
  <2>5. Queue!Finish(n)
    BY <2>1, <2>3, <2>4 DEF Queue!Finish, Batch
  <2>6. QED
    BY <2>3, <2>5 DEF Queue!Next
<1>4. QED
  BY <1>1, <1>2, <1>3 DEF Effect

(* As long as nothing stops the actor, its mailbox is a FIFO queue: pushes *)
(* and doors add at the back, a commit removes the batch at the front, and *)
(* claims, restores, crashes and restarts - also a restart ahead of the    *)
(* crashed step's restore - are invisible.                                 *)
THEOREM MailboxIsAQueue ==
  ASSUME DistinctPrograms, OffsetsSuffice, NeverEvicts, NeverStops
  PROVE  Spec => ImplementsFifoQueue
<1>1. ASSUME Init
      PROVE  QueueInv /\ Queue!Init
  <2>1. QueueInv
    BY <1>1, QueueInit
  <2>2. cell \in Spawns /\ consumed = <<>> /\ inbox.cursor = 0 /\ inbox.next = 0
    BY <1>1 DEF Init, EmptyInbox
  <2>3. Pending \in Seq(Envelope) /\ Len(Pending) = 0
    BY <2>1, <2>2, PendingIs
  <2>4. Pending = <<>>
    BY <2>3, EmptySeq
  <2>5. QED
    BY <2>1, <2>2, <2>4 DEF Queue!Init
<1>2. QueueInv /\ [Next]_vars => QueueInv' /\ [Queue!Next]_Queue!vars
  BY QueueInvStep, EffectSimulates
<1>3. QED
  BY <1>1, <1>2, PTL DEF Spec, ImplementsFifoQueue, Queue!Spec
=============================================================================
