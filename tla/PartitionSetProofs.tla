------------------------- MODULE PartitionSetProofs -------------------------
(***************************************************************************)
(* Proofs about PartitionSet, for every number of senders and members and  *)
(* whatever the senders tell.                                              *)
(***************************************************************************)
EXTENDS PartitionSet, Integers, FiniteSetTheorems, SequenceTheorems, TLAPS

----------------------------------------------------------------------------
(* Sequences, as functions on an interval.                                 *)

(* A sequence is a function on an interval.                                *)
LEMMA SeqIsFunction ==
  ASSUME NEW S, NEW s \in Seq(S)
  PROVE  /\ Len(s) \in Nat /\ DOMAIN s = 1 .. Len(s)
         /\ s \in [1 .. Len(s) -> S]
         /\ \A k \in DOMAIN s : s[k] \in S
<1>1. Len(s) \in Nat /\ DOMAIN s = 1 .. Len(s) /\ s \in [1 .. Len(s) -> S]
  BY LenProperties
<1>2. QED
  BY <1>1

LEMMA FunctionIsSeq ==
  ASSUME NEW S, NEW n \in Nat, NEW s \in [1 .. n -> S]
  PROVE  s \in Seq(S) /\ Len(s) = n /\ DOMAIN s = 1 .. n
<1>1. s \in Seq(S)
  BY SeqDef
<1>2. DOMAIN s = 1 .. n /\ Len(s) \in Nat /\ DOMAIN s = 1 .. Len(s)
  BY <1>1, LenProperties
<1>3. QED
  BY <1>1, <1>2

(* What is appended comes last and nothing before it changes.              *)
LEMMA AppendedIs ==
  ASSUME NEW S, NEW s \in Seq(S), NEW e \in S, NEW t, t = Append(s, e)
  PROVE  /\ t \in Seq(S) /\ Len(t) = Len(s) + 1
         /\ Len(s) \in Nat /\ DOMAIN s = 1 .. Len(s) /\ DOMAIN t = 1 .. Len(s) + 1
         /\ \A k \in DOMAIN s : t[k] = s[k]
         /\ t[Len(s) + 1] = e
<1>1. t \in Seq(S) /\ Len(t) = Len(s) + 1 /\ t[Len(s) + 1] = e
  BY AppendProperties
<1>2. \A k \in 1 .. Len(s) : t[k] = s[k]
  BY AppendProperties
<1>3. Len(s) \in Nat /\ DOMAIN s = 1 .. Len(s) /\ DOMAIN t = 1 .. Len(t)
  BY <1>1, LenProperties
<1>4. QED
  BY <1>1, <1>2, <1>3

LEMMA RangeSmall ==
  ASSUME NEW e
  PROVE  /\ Range(<<>>) = {} /\ IsInjective(<<>>)
         /\ Range(<<e>>) = {e} /\ IsInjective(<<e>>)
BY DEF Range, IsInjective

LEMMA SmallSeqs ==
  ASSUME NEW S
  PROVE  <<>> \in Seq(S) /\ \A e \in S : <<e>> \in Seq(S)
<1>1. <<>> \in [1 .. 0 -> S]
  OBVIOUS
<1>2. \A e \in S : <<e>> \in [1 .. 1 -> S]
  OBVIOUS
<1>3. QED
  BY <1>1, <1>2, SeqDef

LEMMA RangeAppend ==
  ASSUME NEW S, NEW s \in Seq(S), NEW e \in S
  PROVE  /\ Append(s, e) \in Seq(S)
         /\ Range(Append(s, e)) = Range(s) \cup {e}
         /\ IsInjective(s) /\ e \notin Range(s) => IsInjective(Append(s, e))
<1>1. PICK t : t = Append(s, e)
  OBVIOUS
<1>2. /\ t \in Seq(S) /\ Len(s) \in Nat
      /\ DOMAIN s = 1 .. Len(s) /\ DOMAIN t = 1 .. Len(s) + 1
      /\ \A k \in DOMAIN s : t[k] = s[k]
      /\ t[Len(s) + 1] = e
  BY <1>1, AppendedIs
<1>3. DOMAIN t = DOMAIN s \cup {Len(s) + 1}
  BY <1>2
<1>4. Range(t) = Range(s) \cup {e}
  BY <1>2, <1>3 DEF Range
<1>5. IsInjective(s) /\ e \notin Range(s) => IsInjective(t)
  BY <1>2, <1>3 DEF Range, IsInjective
<1>6. QED
  BY <1>1, <1>2, <1>4, <1>5

LEMMA RangeHeadTail ==
  ASSUME NEW S, NEW s \in Seq(S), s # <<>>
  PROVE  /\ Head(s) \in S /\ Tail(s) \in Seq(S)
         /\ Head(s) \in Range(s)
         /\ Range(s) = Range(Tail(s)) \cup {Head(s)}
         /\ IsInjective(s) => IsInjective(Tail(s)) /\ Range(Tail(s)) = Range(s) \ {Head(s)}
<1>1. PICK t : t = Tail(s)
  OBVIOUS
<1>2. PICK h : h = Head(s)
  OBVIOUS
<1>3. /\ h \in S /\ t \in Seq(S)
      /\ Len(s) \in Nat /\ Len(t) = Len(s) - 1
      /\ DOMAIN s = 1 .. Len(s) /\ DOMAIN t = 1 .. Len(t)
      /\ \A k \in DOMAIN t : t[k] = s[k + 1]
      /\ h = s[1] /\ 1 \in DOMAIN s
  BY <1>1, <1>2, HeadTailProperties, LenProperties, EmptySeq
<1>4. \A k \in DOMAIN s : k = 1 \/ (k - 1 \in DOMAIN t /\ s[k] = t[k - 1])
  <2> SUFFICES ASSUME NEW k \in DOMAIN s, k # 1
               PROVE  k - 1 \in DOMAIN t /\ s[k] = t[k - 1]
    OBVIOUS
  <2>1. k - 1 \in DOMAIN t /\ (k - 1) + 1 = k
    BY <1>3
  <2>2. QED
    BY <1>3, <2>1
<1>5. Range(s) = Range(t) \cup {h}
  <2>1. \A k \in DOMAIN t : k + 1 \in DOMAIN s
    BY <1>3
  <2>2. QED
    BY <1>3, <1>4, <2>1 DEF Range
<1>6. ASSUME IsInjective(s)
      PROVE  IsInjective(t) /\ h \notin Range(t)
  <2>1. \A k \in DOMAIN t : k + 1 \in DOMAIN s /\ k + 1 # 1 /\ k \in Int
    BY <1>3
  <2>2. h \notin Range(t)
    BY <1>3, <1>6, <2>1 DEF Range, IsInjective
  <2>3. IsInjective(t)
    <3> SUFFICES ASSUME NEW j \in DOMAIN t, NEW k \in DOMAIN t, t[j] = t[k]
                 PROVE  j = k
      BY DEF IsInjective
    <3>1. s[j + 1] = s[k + 1]
      BY <1>3
    <3>2. j + 1 = k + 1
      BY <1>6, <2>1, <3>1 DEF IsInjective
    <3>3. QED
      BY <2>1, <3>2
  <2>4. QED
    BY <2>2, <2>3
<1>7. Head(s) \in Range(s) /\ Range(s) = Range(Tail(s)) \cup {Head(s)}
  BY <1>1, <1>2, <1>5
<1>8. IsInjective(s) => IsInjective(Tail(s)) /\ Range(Tail(s)) = Range(s) \ {Head(s)}
  BY <1>1, <1>2, <1>5, <1>6
<1>9. QED
  BY <1>1, <1>2, <1>3, <1>7, <1>8

LEMMA RangeConcat ==
  ASSUME NEW S, NEW s \in Seq(S), NEW t \in Seq(S)
  PROVE  /\ s \o t \in Seq(S)
         /\ Range(s \o t) = Range(s) \cup Range(t)
         /\ IsInjective(s) /\ IsInjective(t) /\ Range(s) \cap Range(t) = {}
              => IsInjective(s \o t)
<1>1. PICK u : u = s \o t
  OBVIOUS
<1>2. /\ u \in Seq(S)
      /\ Len(s) \in Nat /\ Len(t) \in Nat
      /\ DOMAIN s = 1 .. Len(s) /\ DOMAIN t = 1 .. Len(t)
      /\ DOMAIN u = 1 .. Len(s) + Len(t)
      /\ \A k \in 1 .. Len(s) + Len(t) :
           u[k] = IF k <= Len(s) THEN s[k] ELSE t[k - Len(s)]
  BY <1>1, ConcatProperties, LenProperties
<1>3. \A k \in DOMAIN u : \/ k \in DOMAIN s /\ u[k] = s[k]
                          \/ k - Len(s) \in DOMAIN t /\ u[k] = t[k - Len(s)]
  BY <1>2
<1>4. /\ \A k \in DOMAIN s : k \in DOMAIN u /\ u[k] = s[k]
      /\ \A k \in DOMAIN t : k + Len(s) \in DOMAIN u /\ u[k + Len(s)] = t[k]
  <2>1. \A k \in DOMAIN t : k + Len(s) \in DOMAIN u /\ (k + Len(s)) - Len(s) = k
                            /\ ~(k + Len(s) <= Len(s))
    BY <1>2
  <2>2. QED
    BY <1>2, <2>1
<1>5. Range(u) = Range(s) \cup Range(t)
  BY <1>3, <1>4 DEF Range
<1>6. ASSUME IsInjective(s), IsInjective(t), Range(s) \cap Range(t) = {}
      PROVE  IsInjective(u)
  <2> SUFFICES ASSUME NEW j \in DOMAIN u, NEW k \in DOMAIN u, u[j] = u[k]
               PROVE  j = k
    BY DEF IsInjective
  <2>1. CASE j \in DOMAIN s /\ u[j] = s[j] /\ k \in DOMAIN s /\ u[k] = s[k]
    BY <1>6, <2>1 DEF IsInjective
  <2>2. CASE /\ j - Len(s) \in DOMAIN t /\ u[j] = t[j - Len(s)]
             /\ k - Len(s) \in DOMAIN t /\ u[k] = t[k - Len(s)]
    <3>1. j - Len(s) = k - Len(s)
      BY <1>6, <2>2 DEF IsInjective
    <3>2. QED
      BY <1>2, <3>1
  <2>3. CASE \/ /\ j \in DOMAIN s /\ u[j] = s[j]
                /\ k - Len(s) \in DOMAIN t /\ u[k] = t[k - Len(s)]
             \/ /\ k \in DOMAIN s /\ u[k] = s[k]
                /\ j - Len(s) \in DOMAIN t /\ u[j] = t[j - Len(s)]
    <3>1. u[j] \in Range(s) /\ u[j] \in Range(t)
      BY <2>3 DEF Range
    <3>2. QED
      BY <1>6, <3>1
  <2>4. QED
    BY <1>3, <2>1, <2>2, <2>3
<1>7. QED
  BY <1>1, <1>2, <1>5, <1>6

----------------------------------------------------------------------------
(* The inductive invariant.                                                *)

(* A sender on its way has something to tell, and a member to start when   *)
(* it starts one: nobody else starts that member.                          *)
Spawning(s) == sender[s].at \in {"arm", "start"}

SenderInv ==
  \A s \in Senders :
    /\ sender[s].idx >= 1 /\ sender[s].idx <= Len(Program[s]) + 1
    /\ sender[s].at # "send" => Telling(s)
    /\ sender[s].at \in {"arm", "start", "push"} => sender[s].target \in Members
    /\ sender[s].at = "arm" => members[sender[s].target].at = "slotted"
    /\ sender[s].at = "start" => members[sender[s].target].at = "armed"
    /\ Spawning(s) => \A t \in Senders \ {s} :
                        Spawning(t) => sender[t].target # sender[s].target

(* A member has something in hand in a step only, and the stop waits for   *)
(* a member.                                                               *)
HandInv ==
  /\ \A i \in Members : /\ members[i].handle \in {0} \cup Members
                        /\ InStep(i) => members[i].hand # None
                        /\ ~InStep(i) => members[i].hand = None
  /\ host.at = "join" => host.joins \in Members

KindInv == TypeOK /\ SenderInv /\ HandInv

(* A member that may yet step has the slot, and once it is armed the cell. *)
Booted == {"idle", "claimed", "draining", "drainClaimed"}

Armed == {"armed", "boot"} \cup Booted

AloneInv ==
  ~overrun => \A i \in Members :
    /\ members[i].at \in {"slotted"} \cup Armed => slot = i
    /\ members[i].at \in Armed => cell = i

(* Once it has booted its state is the journal's.                          *)
CurrentInv ==
  ~overrun => \A i \in Members : members[i].at \in Booted => members[i].folded = journal

(* The spots a message may be at, and what is at each.                     *)
Spot == ({0} \X {"journal", "dead"}) \cup (Members \X {"hand", "inbox", "chan"})

At(i, part) ==
  CASE part = "journal" -> Range(journal)
    [] part = "dead" -> {m \in Message : dead[m] > 0}
    [] part = "hand" -> Range(members[i].hand)
    [] part = "inbox" -> Range(members[i].inbox)
    [] part = "chan" -> Range(members[i].chan)

(* A message that was sent is at one spot, another at none.                *)
Where(m) == {spot \in Spot : m \in At(spot[1], spot[2])}

SpotInv ==
  \A m \in Message : IF m \in Sent THEN \E spot \in Spot : Where(m) = {spot}
                                   ELSE Where(m) = {}

(* And it is there once.                                                   *)
OnceInv ==
  /\ IsInjective(journal)
  /\ \A m \in Message : dead[m] <= 1
  /\ \A i \in Members : /\ IsInjective(members[i].hand)
                        /\ IsInjective(members[i].inbox)
                        /\ IsInjective(members[i].chan)

----------------------------------------------------------------------------
(* The members' record, and what a step does to one of them.               *)

FieldNames == {"at", "inbox", "chan", "hand", "open", "stopping", "signalled", "handle",
               "folded"}

LEMMA MemberIs ==
  ASSUME TypeOK, NEW i \in Members
  PROVE  /\ members[i] \in MemberType /\ DOMAIN members[i] = FieldNames
         /\ i \in Nat /\ i # 0
<1>1. /\ Len(members) \in Nat /\ Members = 1 .. Len(members)
      /\ members[i] \in MemberType
  BY SeqIsFunction DEF TypeOK, Members
<1>2. QED
  BY <1>1 DEF MemberType, FieldNames

(* The other members stay as they are.                                     *)
Only(i) ==
  /\ members' \in Seq(MemberType) /\ Members' = Members
  /\ \A k \in Members \ {i} : members'[k] = members[k]

LEMMA MemberMoves ==
  ASSUME TypeOK, NEW i \in Members, NEW r \in MemberType,
         members' = [members EXCEPT ![i] = r]
  PROVE  Only(i) /\ members'[i] = r
<1>1. PICK n \in Nat : Members = 1 .. n /\ members \in [1 .. n -> MemberType]
  BY SeqIsFunction DEF TypeOK, Members
<1>2. members' \in [1 .. n -> MemberType]
  BY <1>1
<1>3. members' \in Seq(MemberType) /\ Members' = 1 .. n
  BY <1>2, FunctionIsSeq DEF Members
<1>4. QED
  BY <1>1, <1>2, <1>3 DEF Only

LEMMA FieldsSet ==
  ASSUME TypeOK, NEW i \in Members, NEW fields, Set(i, fields), NEW m, m = members[i],
         NEW r \in MemberType,
         r = [f \in FieldNames |-> IF f \in DOMAIN fields THEN fields[f] ELSE m[f]]
  PROVE  Only(i) /\ members'[i] = r
<1>1. DOMAIN m = FieldNames
  BY MemberIs
<1>2. members' = [members EXCEPT ![i] = r]
  BY <1>1 DEF Set
<1>3. QED
  BY <1>2, MemberMoves

LEMMA ToldIs ==
  ASSUME KindInv, NEW s \in Senders, Telling(s)
  PROVE  /\ Told(s) \in Message
         /\ sender[s].idx \in DOMAIN Program[s]
<1>1. /\ Program[s] \in Seq(Message)
      /\ sender[s].idx \in Nat /\ sender[s].idx >= 1
  BY PartitionSetAssumption DEF KindInv, TypeOK, SenderInv
<1>2. sender[s].idx \in DOMAIN Program[s]
  BY <1>1, SeqIsFunction DEF Telling
<1>3. QED
  BY <1>1, <1>2, SeqIsFunction DEF Told

(* What each step does to a member: Arm.                                   *)
LEMMA ArmEffect ==
  ASSUME KindInv, NEW i \in Members, NEW s \in Senders, i = sender[s].target, Arm(s)
  PROVE  /\ Only(i)
         /\ members'[i].at = "armed"
         /\ members'[i].inbox = members[i].inbox
         /\ members'[i].chan = members[i].chan
         /\ members'[i].hand = members[i].hand
         /\ members'[i].open = members[i].open
         /\ members'[i].stopping = members[i].stopping
         /\ members'[i].signalled = members[i].signalled
         /\ members'[i].handle = members[i].handle
         /\ members'[i].folded = members[i].folded
<1>1. TypeOK /\ members[i] \in MemberType
  BY MemberIs DEF KindInv
<1>2. PICK m \in MemberType : m = members[i]
  BY <1>1
<1> DEFINE fields == [at |-> "armed"]
<1>3. Set(i, fields)
  BY <1>2 DEF Arm
<1>4. DOMAIN fields = {"at"}
  OBVIOUS
<1>5. fields.at = "armed"
  OBVIOUS
<1> HIDE DEF fields
<1>6. PICK r : r = [f \in FieldNames |-> IF f \in DOMAIN fields THEN fields[f] ELSE m[f]]
  OBVIOUS
<1>7. /\ r.at = "armed"
      /\ r.inbox = m.inbox
      /\ r.chan = m.chan
      /\ r.hand = m.hand
      /\ r.open = m.open
      /\ r.stopping = m.stopping
      /\ r.signalled = m.signalled
      /\ r.handle = m.handle
      /\ r.folded = m.folded
  BY <1>4, <1>5, <1>6 DEF FieldNames
<1>8. r \in MemberType
  BY <1>4, <1>5, <1>6 DEF MemberType, FieldNames, Working, Leaving
<1>9. Only(i) /\ members'[i] = r
  BY <1>1, <1>2, <1>3, <1>6, <1>8, FieldsSet
<1>10. QED
  BY <1>2, <1>7, <1>9

(* Push, at an open inbox,                                                 *)
LEMMA PushOpenEffect ==
  ASSUME KindInv, NEW i \in Members, NEW s \in Senders, i = sender[s].target,
         Push(s), members[i].open
  PROVE  /\ Only(i)
         /\ members'[i].inbox = Append(members[i].inbox, Told(s))
         /\ members'[i].at = members[i].at
         /\ members'[i].chan = members[i].chan
         /\ members'[i].hand = members[i].hand
         /\ members'[i].open = members[i].open
         /\ members'[i].stopping = members[i].stopping
         /\ members'[i].signalled = members[i].signalled
         /\ members'[i].handle = members[i].handle
         /\ members'[i].folded = members[i].folded
<1>1. TypeOK /\ members[i] \in MemberType
  BY MemberIs DEF KindInv
<1>2. PICK m \in MemberType : m = members[i]
  BY <1>1
<1>3. PICK q \in Seq(Message) : q = Append(members[i].inbox, Told(s))
  BY <1>1, ToldIs, AppendProperties DEF MemberType, KindInv, SenderInv, Push
<1> DEFINE fields == [inbox |-> q]
<1>4. Set(i, fields)
  BY <1>2, <1>3 DEF Push
<1>5. DOMAIN fields = {"inbox"}
  OBVIOUS
<1>6. fields.inbox = q
  OBVIOUS
<1> HIDE DEF fields
<1>7. PICK r : r = [f \in FieldNames |-> IF f \in DOMAIN fields THEN fields[f] ELSE m[f]]
  OBVIOUS
<1>8. /\ r.inbox = q
      /\ r.at = m.at
      /\ r.chan = m.chan
      /\ r.hand = m.hand
      /\ r.open = m.open
      /\ r.stopping = m.stopping
      /\ r.signalled = m.signalled
      /\ r.handle = m.handle
      /\ r.folded = m.folded
  BY <1>5, <1>6, <1>7 DEF FieldNames
<1>9. r \in MemberType
  BY <1>5, <1>6, <1>7 DEF MemberType, FieldNames, Working, Leaving
<1>10. Only(i) /\ members'[i] = r
  BY <1>1, <1>2, <1>4, <1>7, <1>9, FieldsSet
<1>11. QED
  BY <1>2, <1>3, <1>8, <1>10

(* and at a closed one.                                                    *)
LEMMA PushClosedEffect ==
  ASSUME KindInv, NEW i \in Members, NEW s \in Senders, i = sender[s].target,
         Push(s), ~members[i].open
  PROVE  /\ Only(i)
         /\ members'[i].chan = Append(members[i].chan, Told(s))
         /\ members'[i].at = members[i].at
         /\ members'[i].inbox = members[i].inbox
         /\ members'[i].hand = members[i].hand
         /\ members'[i].open = members[i].open
         /\ members'[i].stopping = members[i].stopping
         /\ members'[i].signalled = members[i].signalled
         /\ members'[i].handle = members[i].handle
         /\ members'[i].folded = members[i].folded
<1>1. TypeOK /\ members[i] \in MemberType
  BY MemberIs DEF KindInv
<1>2. PICK m \in MemberType : m = members[i]
  BY <1>1
<1>3. PICK q \in Seq(Message) : q = Append(members[i].chan, Told(s))
  BY <1>1, ToldIs, AppendProperties DEF MemberType, KindInv, SenderInv, Push
<1> DEFINE fields == [chan |-> q]
<1>4. Set(i, fields)
  BY <1>2, <1>3 DEF Push
<1>5. DOMAIN fields = {"chan"}
  OBVIOUS
<1>6. fields.chan = q
  OBVIOUS
<1> HIDE DEF fields
<1>7. PICK r : r = [f \in FieldNames |-> IF f \in DOMAIN fields THEN fields[f] ELSE m[f]]
  OBVIOUS
<1>8. /\ r.chan = q
      /\ r.at = m.at
      /\ r.inbox = m.inbox
      /\ r.hand = m.hand
      /\ r.open = m.open
      /\ r.stopping = m.stopping
      /\ r.signalled = m.signalled
      /\ r.handle = m.handle
      /\ r.folded = m.folded
  BY <1>5, <1>6, <1>7 DEF FieldNames
<1>9. r \in MemberType
  BY <1>5, <1>6, <1>7 DEF MemberType, FieldNames, Working, Leaving
<1>10. Only(i) /\ members'[i] = r
  BY <1>1, <1>2, <1>4, <1>7, <1>9, FieldsSet
<1>11. QED
  BY <1>2, <1>3, <1>8, <1>10

(* Door, at an open inbox,                                                 *)
LEMMA DoorOpenEffect ==
  ASSUME KindInv, NEW i \in Members, Door(i), members[i].open
  PROVE  /\ Only(i)
         /\ members'[i].chan = Tail(members[i].chan)
         /\ members'[i].inbox = Append(members[i].inbox, Head(members[i].chan))
         /\ members'[i].at = members[i].at
         /\ members'[i].hand = members[i].hand
         /\ members'[i].open = members[i].open
         /\ members'[i].stopping = members[i].stopping
         /\ members'[i].signalled = members[i].signalled
         /\ members'[i].handle = members[i].handle
         /\ members'[i].folded = members[i].folded
<1>1. TypeOK /\ members[i] \in MemberType
  BY MemberIs DEF KindInv
<1>2. PICK m \in MemberType : m = members[i]
  BY <1>1
<1>3. PICK t \in Seq(Message) : t = Tail(members[i].chan)
  BY <1>1, RangeHeadTail DEF MemberType, None, Door
<1>4. PICK q \in Seq(Message) : q = Append(members[i].inbox, Head(members[i].chan))
  BY <1>1, RangeHeadTail, AppendProperties DEF MemberType, None, Door
<1> DEFINE fields == [chan |-> t, inbox |-> q]
<1>5. Set(i, fields)
  BY <1>2, <1>3, <1>4 DEF Door
<1>6. DOMAIN fields = {"chan", "inbox"}
  OBVIOUS
<1>7. fields.chan = t /\ fields.inbox = q
  OBVIOUS
<1> HIDE DEF fields
<1>8. PICK r : r = [f \in FieldNames |-> IF f \in DOMAIN fields THEN fields[f] ELSE m[f]]
  OBVIOUS
<1>9. /\ r.chan = t
      /\ r.inbox = q
      /\ r.at = m.at
      /\ r.hand = m.hand
      /\ r.open = m.open
      /\ r.stopping = m.stopping
      /\ r.signalled = m.signalled
      /\ r.handle = m.handle
      /\ r.folded = m.folded
  BY <1>6, <1>7, <1>8 DEF FieldNames
<1>10. r \in MemberType
  BY <1>6, <1>7, <1>8 DEF MemberType, FieldNames, Working, Leaving
<1>11. Only(i) /\ members'[i] = r
  BY <1>1, <1>2, <1>5, <1>8, <1>10, FieldsSet
<1>12. QED
  BY <1>2, <1>3, <1>4, <1>9, <1>11

(* and at a closed one.                                                    *)
LEMMA DoorClosedEffect ==
  ASSUME KindInv, NEW i \in Members, Door(i), ~members[i].open
  PROVE  /\ Only(i)
         /\ members'[i].chan = Tail(members[i].chan)
         /\ members'[i].at = members[i].at
         /\ members'[i].inbox = members[i].inbox
         /\ members'[i].hand = members[i].hand
         /\ members'[i].open = members[i].open
         /\ members'[i].stopping = members[i].stopping
         /\ members'[i].signalled = members[i].signalled
         /\ members'[i].handle = members[i].handle
         /\ members'[i].folded = members[i].folded
<1>1. TypeOK /\ members[i] \in MemberType
  BY MemberIs DEF KindInv
<1>2. PICK m \in MemberType : m = members[i]
  BY <1>1
<1>3. PICK t \in Seq(Message) : t = Tail(members[i].chan)
  BY <1>1, RangeHeadTail DEF MemberType, None, Door
<1> DEFINE fields == [chan |-> t]
<1>4. Set(i, fields)
  BY <1>2, <1>3 DEF Door
<1>5. DOMAIN fields = {"chan"}
  OBVIOUS
<1>6. fields.chan = t
  OBVIOUS
<1> HIDE DEF fields
<1>7. PICK r : r = [f \in FieldNames |-> IF f \in DOMAIN fields THEN fields[f] ELSE m[f]]
  OBVIOUS
<1>8. /\ r.chan = t
      /\ r.at = m.at
      /\ r.inbox = m.inbox
      /\ r.hand = m.hand
      /\ r.open = m.open
      /\ r.stopping = m.stopping
      /\ r.signalled = m.signalled
      /\ r.handle = m.handle
      /\ r.folded = m.folded
  BY <1>5, <1>6, <1>7 DEF FieldNames
<1>9. r \in MemberType
  BY <1>5, <1>6, <1>7 DEF MemberType, FieldNames, Working, Leaving
<1>10. Only(i) /\ members'[i] = r
  BY <1>1, <1>2, <1>4, <1>7, <1>9, FieldsSet
<1>11. QED
  BY <1>2, <1>3, <1>8, <1>10

(* Boot.                                                                   *)
LEMMA BootEffect ==
  ASSUME KindInv, NEW i \in Members, Boot(i)
  PROVE  /\ Only(i)
         /\ members'[i].at = "idle"
         /\ members'[i].folded = Replay
         /\ members'[i].inbox = members[i].inbox
         /\ members'[i].chan = members[i].chan
         /\ members'[i].hand = members[i].hand
         /\ members'[i].open = members[i].open
         /\ members'[i].stopping = members[i].stopping
         /\ members'[i].signalled = members[i].signalled
         /\ members'[i].handle = members[i].handle
<1>1. TypeOK /\ members[i] \in MemberType
  BY MemberIs DEF KindInv
<1>2. PICK m \in MemberType : m = members[i]
  BY <1>1
<1>3. PICK q \in Seq(Message) : q = Replay
  BY <1>1, SmallSeqs DEF Replay, None, TypeOK
<1> DEFINE fields == [at |-> "idle", folded |-> q]
<1>4. Set(i, fields)
  BY <1>2, <1>3 DEF Boot
<1>5. DOMAIN fields = {"at", "folded"}
  OBVIOUS
<1>6. fields.at = "idle" /\ fields.folded = q
  OBVIOUS
<1> HIDE DEF fields
<1>7. PICK r : r = [f \in FieldNames |-> IF f \in DOMAIN fields THEN fields[f] ELSE m[f]]
  OBVIOUS
<1>8. /\ r.at = "idle"
      /\ r.folded = q
      /\ r.inbox = m.inbox
      /\ r.chan = m.chan
      /\ r.hand = m.hand
      /\ r.open = m.open
      /\ r.stopping = m.stopping
      /\ r.signalled = m.signalled
      /\ r.handle = m.handle
  BY <1>5, <1>6, <1>7 DEF FieldNames
<1>9. r \in MemberType
  BY <1>5, <1>6, <1>7 DEF MemberType, FieldNames, Working, Leaving
<1>10. Only(i) /\ members'[i] = r
  BY <1>1, <1>2, <1>4, <1>7, <1>9, FieldsSet
<1>11. QED
  BY <1>2, <1>3, <1>8, <1>10

(* Claim.                                                                  *)
LEMMA ClaimEffect ==
  ASSUME KindInv, NEW i \in Members, Claim(i)
  PROVE  /\ Only(i)
         /\ members'[i].at = IF members[i].at = "idle" THEN "claimed" ELSE "drainClaimed"
         /\ members'[i].hand = <<Head(members[i].inbox)>>
         /\ members'[i].inbox = Tail(members[i].inbox)
         /\ members'[i].chan = members[i].chan
         /\ members'[i].open = members[i].open
         /\ members'[i].stopping = members[i].stopping
         /\ members'[i].signalled = members[i].signalled
         /\ members'[i].handle = members[i].handle
         /\ members'[i].folded = members[i].folded
<1>1. TypeOK /\ members[i] \in MemberType
  BY MemberIs DEF KindInv
<1>2. PICK m \in MemberType : m = members[i]
  BY <1>1
<1>3. PICK a \in {"claimed", "drainClaimed"} : a = IF members[i].at = "idle" THEN "claimed" ELSE "drainClaimed"
  OBVIOUS
<1>4. PICK h \in Seq(Message) : h = <<Head(members[i].inbox)>>
  BY <1>1, RangeHeadTail, SmallSeqs DEF MemberType, None, Claim
<1>5. PICK t \in Seq(Message) : t = Tail(members[i].inbox)
  BY <1>1, RangeHeadTail DEF MemberType, None, Claim
<1> DEFINE fields == [at |-> a, hand |-> h, inbox |-> t]
<1>6. Set(i, fields)
  BY <1>2, <1>3, <1>4, <1>5 DEF Claim
<1>7. DOMAIN fields = {"at", "hand", "inbox"}
  OBVIOUS
<1>8. fields.at = a /\ fields.hand = h /\ fields.inbox = t
  OBVIOUS
<1> HIDE DEF fields
<1>9. PICK r : r = [f \in FieldNames |-> IF f \in DOMAIN fields THEN fields[f] ELSE m[f]]
  OBVIOUS
<1>10. /\ r.at = a
      /\ r.hand = h
      /\ r.inbox = t
      /\ r.chan = m.chan
      /\ r.open = m.open
      /\ r.stopping = m.stopping
      /\ r.signalled = m.signalled
      /\ r.handle = m.handle
      /\ r.folded = m.folded
  BY <1>7, <1>8, <1>9 DEF FieldNames
<1>11. r \in MemberType
  BY <1>7, <1>8, <1>9, <1>3 DEF MemberType, FieldNames, Working, Leaving
<1>12. Only(i) /\ members'[i] = r
  BY <1>1, <1>2, <1>6, <1>9, <1>11, FieldsSet
<1>13. QED
  BY <1>2, <1>3, <1>4, <1>5, <1>10, <1>12

(* Handle.                                                                 *)
LEMMA HandleEffect ==
  ASSUME KindInv, NEW i \in Members, Handle(i)
  PROVE  /\ Only(i)
         /\ members'[i].at = IF members[i].at = "claimed" THEN "idle" ELSE "draining"
         /\ members'[i].hand = None
         /\ members'[i].folded = members[i].folded \o members[i].hand
         /\ members'[i].inbox = members[i].inbox
         /\ members'[i].chan = members[i].chan
         /\ members'[i].open = members[i].open
         /\ members'[i].stopping = members[i].stopping
         /\ members'[i].signalled = members[i].signalled
         /\ members'[i].handle = members[i].handle
<1>1. TypeOK /\ members[i] \in MemberType
  BY MemberIs DEF KindInv
<1>2. PICK m \in MemberType : m = members[i]
  BY <1>1
<1>3. PICK a \in {"idle", "draining"} : a = IF members[i].at = "claimed" THEN "idle" ELSE "draining"
  OBVIOUS
<1>4. PICK h \in Seq(Message) : h = None
  BY SmallSeqs DEF None
<1>5. PICK q \in Seq(Message) : q = members[i].folded \o members[i].hand
  BY <1>1, ConcatProperties DEF MemberType
<1> DEFINE fields == [at |-> a, hand |-> h, folded |-> q]
<1>6. Set(i, fields)
  BY <1>2, <1>3, <1>4, <1>5 DEF Handle
<1>7. DOMAIN fields = {"at", "hand", "folded"}
  OBVIOUS
<1>8. fields.at = a /\ fields.hand = h /\ fields.folded = q
  OBVIOUS
<1> HIDE DEF fields
<1>9. PICK r : r = [f \in FieldNames |-> IF f \in DOMAIN fields THEN fields[f] ELSE m[f]]
  OBVIOUS
<1>10. /\ r.at = a
      /\ r.hand = h
      /\ r.folded = q
      /\ r.inbox = m.inbox
      /\ r.chan = m.chan
      /\ r.open = m.open
      /\ r.stopping = m.stopping
      /\ r.signalled = m.signalled
      /\ r.handle = m.handle
  BY <1>7, <1>8, <1>9 DEF FieldNames
<1>11. r \in MemberType
  BY <1>7, <1>8, <1>9, <1>3 DEF MemberType, FieldNames, Working, Leaving
<1>12. Only(i) /\ members'[i] = r
  BY <1>1, <1>2, <1>6, <1>9, <1>11, FieldsSet
<1>13. QED
  BY <1>2, <1>3, <1>4, <1>5, <1>10, <1>12

(* Crash.                                                                  *)
LEMMA CrashEffect ==
  ASSUME KindInv, NEW i \in Members, Crash(i)
  PROVE  /\ Only(i)
         /\ members'[i].at = IF members[i].at = "claimed" THEN "crashed" ELSE "exit"
         /\ members'[i].hand = None
         /\ members'[i].inbox = IF members[i].stopping THEN members[i].inbox ELSE members[i].hand \o members[i].inbox
         /\ members'[i].chan = members[i].chan
         /\ members'[i].open = members[i].open
         /\ members'[i].stopping = members[i].stopping
         /\ members'[i].signalled = members[i].signalled
         /\ members'[i].handle = members[i].handle
         /\ members'[i].folded = members[i].folded
<1>1. TypeOK /\ members[i] \in MemberType
  BY MemberIs DEF KindInv
<1>2. PICK m \in MemberType : m = members[i]
  BY <1>1
<1>3. PICK a \in {"crashed", "exit"} : a = IF members[i].at = "claimed" THEN "crashed" ELSE "exit"
  OBVIOUS
<1>4. PICK h \in Seq(Message) : h = None
  BY SmallSeqs DEF None
<1>5. PICK q \in Seq(Message) : q = IF members[i].stopping THEN members[i].inbox ELSE members[i].hand \o members[i].inbox
  BY <1>1, ConcatProperties DEF MemberType
<1> DEFINE fields == [at |-> a, hand |-> h, inbox |-> q]
<1>6. Set(i, fields)
  BY <1>2, <1>3, <1>4, <1>5 DEF Crash
<1>7. DOMAIN fields = {"at", "hand", "inbox"}
  OBVIOUS
<1>8. fields.at = a /\ fields.hand = h /\ fields.inbox = q
  OBVIOUS
<1> HIDE DEF fields
<1>9. PICK r : r = [f \in FieldNames |-> IF f \in DOMAIN fields THEN fields[f] ELSE m[f]]
  OBVIOUS
<1>10. /\ r.at = a
      /\ r.hand = h
      /\ r.inbox = q
      /\ r.chan = m.chan
      /\ r.open = m.open
      /\ r.stopping = m.stopping
      /\ r.signalled = m.signalled
      /\ r.handle = m.handle
      /\ r.folded = m.folded
  BY <1>7, <1>8, <1>9 DEF FieldNames
<1>11. r \in MemberType
  BY <1>7, <1>8, <1>9, <1>3 DEF MemberType, FieldNames, Working, Leaving
<1>12. Only(i) /\ members'[i] = r
  BY <1>1, <1>2, <1>6, <1>9, <1>11, FieldsSet
<1>13. QED
  BY <1>2, <1>3, <1>4, <1>5, <1>10, <1>12

(* Obey.                                                                   *)
LEMMA ObeyEffect ==
  ASSUME KindInv, NEW i \in Members, Obey(i)
  PROVE  /\ Only(i)
         /\ members'[i].at = "ended"
         /\ members'[i].open = TRUE
         /\ members'[i].inbox = members[i].inbox
         /\ members'[i].chan = members[i].chan
         /\ members'[i].hand = members[i].hand
         /\ members'[i].stopping = members[i].stopping
         /\ members'[i].signalled = members[i].signalled
         /\ members'[i].handle = members[i].handle
         /\ members'[i].folded = members[i].folded
<1>1. TypeOK /\ members[i] \in MemberType
  BY MemberIs DEF KindInv
<1>2. PICK m \in MemberType : m = members[i]
  BY <1>1
<1> DEFINE fields == [at |-> "ended", open |-> TRUE]
<1>3. Set(i, fields)
  BY <1>2 DEF Obey
<1>4. DOMAIN fields = {"at", "open"}
  OBVIOUS
<1>5. fields.at = "ended" /\ fields.open = TRUE
  OBVIOUS
<1> HIDE DEF fields
<1>6. PICK r : r = [f \in FieldNames |-> IF f \in DOMAIN fields THEN fields[f] ELSE m[f]]
  OBVIOUS
<1>7. /\ r.at = "ended"
      /\ r.open = TRUE
      /\ r.inbox = m.inbox
      /\ r.chan = m.chan
      /\ r.hand = m.hand
      /\ r.stopping = m.stopping
      /\ r.signalled = m.signalled
      /\ r.handle = m.handle
      /\ r.folded = m.folded
  BY <1>4, <1>5, <1>6 DEF FieldNames
<1>8. r \in MemberType
  BY <1>4, <1>5, <1>6 DEF MemberType, FieldNames, Working, Leaving
<1>9. Only(i) /\ members'[i] = r
  BY <1>1, <1>2, <1>3, <1>6, <1>8, FieldsSet
<1>10. QED
  BY <1>2, <1>7, <1>9

(* Passivate.                                                              *)
LEMMA PassivateEffect ==
  ASSUME KindInv, NEW i \in Members, Passivate(i)
  PROVE  /\ Only(i)
         /\ members'[i].at = "draining"
         /\ members'[i].open = FALSE
         /\ members'[i].inbox = members[i].inbox
         /\ members'[i].chan = members[i].chan
         /\ members'[i].hand = members[i].hand
         /\ members'[i].stopping = members[i].stopping
         /\ members'[i].signalled = members[i].signalled
         /\ members'[i].handle = members[i].handle
         /\ members'[i].folded = members[i].folded
<1>1. TypeOK /\ members[i] \in MemberType
  BY MemberIs DEF KindInv
<1>2. PICK m \in MemberType : m = members[i]
  BY <1>1
<1> DEFINE fields == [at |-> "draining", open |-> FALSE]
<1>3. Set(i, fields)
  BY <1>2 DEF Passivate
<1>4. DOMAIN fields = {"at", "open"}
  OBVIOUS
<1>5. fields.at = "draining" /\ fields.open = FALSE
  OBVIOUS
<1> HIDE DEF fields
<1>6. PICK r : r = [f \in FieldNames |-> IF f \in DOMAIN fields THEN fields[f] ELSE m[f]]
  OBVIOUS
<1>7. /\ r.at = "draining"
      /\ r.open = FALSE
      /\ r.inbox = m.inbox
      /\ r.chan = m.chan
      /\ r.hand = m.hand
      /\ r.stopping = m.stopping
      /\ r.signalled = m.signalled
      /\ r.handle = m.handle
      /\ r.folded = m.folded
  BY <1>4, <1>5, <1>6 DEF FieldNames
<1>8. r \in MemberType
  BY <1>4, <1>5, <1>6 DEF MemberType, FieldNames, Working, Leaving
<1>9. Only(i) /\ members'[i] = r
  BY <1>1, <1>2, <1>3, <1>6, <1>8, FieldsSet
<1>10. QED
  BY <1>2, <1>7, <1>9

(* Leave.                                                                  *)
LEMMA LeaveEffect ==
  ASSUME KindInv, NEW i \in Members, Leave(i)
  PROVE  /\ Only(i)
         /\ members'[i].at = "ended"
         /\ members'[i].open = TRUE
         /\ members'[i].inbox = members[i].inbox
         /\ members'[i].chan = members[i].chan
         /\ members'[i].hand = members[i].hand
         /\ members'[i].stopping = members[i].stopping
         /\ members'[i].signalled = members[i].signalled
         /\ members'[i].handle = members[i].handle
         /\ members'[i].folded = members[i].folded
<1>1. TypeOK /\ members[i] \in MemberType
  BY MemberIs DEF KindInv
<1>2. PICK m \in MemberType : m = members[i]
  BY <1>1
<1> DEFINE fields == [at |-> "ended", open |-> TRUE]
<1>3. Set(i, fields)
  BY <1>2 DEF Leave
<1>4. DOMAIN fields = {"at", "open"}
  OBVIOUS
<1>5. fields.at = "ended" /\ fields.open = TRUE
  OBVIOUS
<1> HIDE DEF fields
<1>6. PICK r : r = [f \in FieldNames |-> IF f \in DOMAIN fields THEN fields[f] ELSE m[f]]
  OBVIOUS
<1>7. /\ r.at = "ended"
      /\ r.open = TRUE
      /\ r.inbox = m.inbox
      /\ r.chan = m.chan
      /\ r.hand = m.hand
      /\ r.stopping = m.stopping
      /\ r.signalled = m.signalled
      /\ r.handle = m.handle
      /\ r.folded = m.folded
  BY <1>4, <1>5, <1>6 DEF FieldNames
<1>8. r \in MemberType
  BY <1>4, <1>5, <1>6 DEF MemberType, FieldNames, Working, Leaving
<1>9. Only(i) /\ members'[i] = r
  BY <1>1, <1>2, <1>3, <1>6, <1>8, FieldsSet
<1>10. QED
  BY <1>2, <1>7, <1>9

(* What does not change when the path's cell is flushed, a member started  *)
(* or signalled: what a member holds in hand and channel, and its state.   *)
Same(k, r) == r.hand = members[k].hand /\ r.chan = members[k].chan /\ r.folded = members[k].folded

(* A flush empties the inbox of the member behind the cell.                *)
LEMMA FlushEffect ==
  ASSUME KindInv, NEW fl, fl = Flushed
  PROVE  /\ fl \in Seq(MemberType) /\ DOMAIN fl = Members
         /\ \A k \in Members :
              /\ Same(k, fl[k]) /\ fl[k].at = members[k].at
              /\ fl[k].handle = members[k].handle
              /\ fl[k].inbox = IF k = cell THEN None ELSE members[k].inbox
<1>1. PICK n \in Nat : Members = 1 .. n /\ members \in [1 .. n -> MemberType]
  BY SeqIsFunction DEF KindInv, TypeOK, Members
<1>2. CASE cell = 0
  BY <1>1, <1>2 DEF Flushed, Members, KindInv, TypeOK, Same
<1>3. CASE cell # 0
  <2>1. PICK c \in Members : c = cell
    BY <1>3 DEF KindInv, TypeOK
  <2>2. PICK m \in MemberType : m = members[c]
    BY <1>1
  <2>3. PICK r : r = [m EXCEPT !.open = FALSE, !.stopping = TRUE, !.inbox = None]
    OBVIOUS
  <2>4. fl = [members EXCEPT ![c] = r]
    BY <1>3, <2>1, <2>2, <2>3 DEF Flushed
  <2>5. /\ r \in MemberType /\ r.at = m.at /\ r.hand = m.hand /\ r.chan = m.chan
        /\ r.folded = m.folded /\ r.handle = m.handle /\ r.inbox = None
    BY <2>2, <2>3, SmallSeqs DEF MemberType, None
  <2>6. fl \in [1 .. n -> MemberType] /\ fl[c] = r /\ \A k \in Members \ {c} : fl[k] = members[k]
    BY <1>1, <2>1, <2>4, <2>5
  <2>7. fl \in Seq(MemberType) /\ DOMAIN fl = Members
    BY <1>1, <2>6, FunctionIsSeq
  <2>8. QED
    BY <2>1, <2>2, <2>5, <2>6, <2>7 DEF Same
<1>4. QED
  BY <1>2, <1>3

(* StopFlushes.                                                            *)
LEMMA StopFlushesEffect ==
  ASSUME KindInv, StopFlushes
  PROVE  /\ members' \in Seq(MemberType) /\ Members' = Members
         /\ \A k \in Members :
              /\ Same(k, members'[k]) /\ members'[k].at = members[k].at
              /\ members'[k].handle = members[k].handle
              /\ members'[k].inbox = IF k = cell THEN None ELSE members[k].inbox
<1>1. PICK fl : fl = Flushed
  OBVIOUS
<1>2. members' = fl
  BY <1>1 DEF StopFlushes
<1>3. QED
  BY <1>1, <1>2, FlushEffect DEF Members

(* Exit: the member that leaves flushes by path.                           *)
LEMMA ExitEffect ==
  ASSUME KindInv, NEW i \in Members, Exit(i)
  PROVE  /\ members' \in Seq(MemberType) /\ Members' = Members
         /\ \A k \in Members :
              /\ Same(k, members'[k])
              /\ members'[k].at = IF k = i THEN "leaving" ELSE members[k].at
              /\ members'[k].handle = members[k].handle
              /\ members'[k].inbox = IF k = cell THEN None ELSE members[k].inbox
<1>1. PICK fl : fl = Flushed
  OBVIOUS
<1>2. /\ fl \in Seq(MemberType) /\ DOMAIN fl = Members
      /\ \A k \in Members :
              /\ Same(k, fl[k]) /\ fl[k].at = members[k].at
              /\ fl[k].handle = members[k].handle
              /\ fl[k].inbox = IF k = cell THEN None ELSE members[k].inbox
  BY <1>1, FlushEffect
<1>3. PICK n \in Nat : Members = 1 .. n /\ fl \in [1 .. n -> MemberType]
  BY <1>2, SeqIsFunction
<1>4. PICK m \in MemberType : m = fl[i]
  BY <1>3
<1>5. PICK r : r = [m EXCEPT !.at = "leaving"]
  OBVIOUS
<1>6. members' = [fl EXCEPT ![i] = r]
  BY <1>1, <1>4, <1>5 DEF Exit
<1>7. /\ r \in MemberType /\ r.at = "leaving" /\ r.hand = m.hand /\ r.chan = m.chan
      /\ r.folded = m.folded /\ r.handle = m.handle /\ r.inbox = m.inbox
  BY <1>4, <1>5 DEF MemberType, Leaving
<1>8. members' \in [1 .. n -> MemberType] /\ members'[i] = r
      /\ \A k \in Members \ {i} : members'[k] = fl[k]
  BY <1>3, <1>6, <1>7
<1>9. members' \in Seq(MemberType) /\ Members' = Members
  BY <1>3, <1>8, FunctionIsSeq DEF Members
<1>10. QED
  BY <1>2, <1>4, <1>7, <1>8, <1>9 DEF Same

(* Start.                                                                  *)
LEMMA StartEffect ==
  ASSUME KindInv, NEW s \in Senders, NEW i \in Members, i = sender[s].target, Start(s)
  PROVE  /\ members' \in Seq(MemberType) /\ Members' = Members
         /\ \A k \in Members :
              /\ Same(k, members'[k]) /\ members'[k].inbox = members[k].inbox
              /\ members'[k].at = IF k = i THEN "boot" ELSE members[k].at
              /\ members'[k].handle \in {0} \cup Members
<1>1. PICK n \in Nat : Members = 1 .. n /\ members \in [1 .. n -> MemberType]
  BY SeqIsFunction DEF KindInv, TypeOK, Members
<1>2. PICK c : c = cell
  OBVIOUS
<1>3. members' = [k \in Members |->
                    [members[k] EXCEPT !.at = IF k = i THEN "boot" ELSE @,
                                       !.handle = IF k = c THEN i ELSE @]]
  BY <1>2 DEF Start
<1>4. ASSUME NEW k \in Members
      PROVE  /\ members'[k] \in MemberType
             /\ Same(k, members'[k]) /\ members'[k].inbox = members[k].inbox
             /\ members'[k].at = IF k = i THEN "boot" ELSE members[k].at
             /\ members'[k].handle \in {0} \cup Members
  <2>1. PICK m \in MemberType : m = members[k]
    BY <1>1
  <2>2. PICK r : r = [m EXCEPT !.at = IF k = i THEN "boot" ELSE @,
                               !.handle = IF k = c THEN i ELSE @]
    OBVIOUS
  <2>3. members'[k] = r
    BY <1>3, <2>1, <2>2
  <2>4. i \in Nat /\ m.handle \in {0} \cup Members
    BY <2>1, MemberIs DEF KindInv, HandInv
  <2>5. /\ r \in MemberType /\ r.at = (IF k = i THEN "boot" ELSE m.at)
        /\ r.hand = m.hand /\ r.chan = m.chan /\ r.folded = m.folded /\ r.inbox = m.inbox
        /\ r.handle = (IF k = c THEN i ELSE m.handle)
    BY <2>1, <2>2, <2>4 DEF MemberType
  <2>6. QED
    BY <2>1, <2>3, <2>4, <2>5 DEF Same
<1>5. members' \in [1 .. n -> MemberType]
  BY <1>1, <1>3, <1>4
<1>6. members' \in Seq(MemberType) /\ Members' = Members
  BY <1>1, <1>5, FunctionIsSeq DEF Members
<1>7. QED
  BY <1>4, <1>6

(* Signal.                                                                 *)
LEMMA SignalEffect ==
  ASSUME KindInv, Signal
  PROVE  /\ members' \in Seq(MemberType) /\ Members' = Members
         /\ \A k \in Members :
              /\ Same(k, members'[k]) /\ members'[k].inbox = members[k].inbox
              /\ members'[k].at = members[k].at
              /\ members'[k].handle \in {0} \cup Members
         /\ host' \in [at : {"none", "stop", "join", "flush", "remove"}, joins : Nat]
         /\ host'.at = "join" => host'.joins \in Members
<1>1. PICK n \in Nat : Members = 1 .. n /\ members \in [1 .. n -> MemberType]
  BY SeqIsFunction DEF KindInv, TypeOK, Members
<1>2. host \in [at : {"none", "stop", "join", "flush", "remove"}, joins : Nat]
  BY DEF KindInv, TypeOK
<1>3. CASE ~(cell # 0 /\ members[cell].handle # 0)
  <2>1. members' = members /\ host' = [host EXCEPT !.at = "flush"]
    BY <1>3 DEF Signal
  <2>2. /\ host' \in [at : {"none", "stop", "join", "flush", "remove"}, joins : Nat]
        /\ host'.at # "join"
    BY <1>2, <2>1
  <2>3. QED
    BY <2>1, <2>2 DEF Same, Members, KindInv, TypeOK, HandInv
<1>4. CASE cell # 0 /\ members[cell].handle # 0
  <2>1. PICK c \in Members : c = cell
    BY <1>4 DEF KindInv, TypeOK
  <2>2. PICK j \in Members : j = members[c].handle
    BY <1>4, <2>1 DEF KindInv, HandInv
  <2>3. /\ members' = [[members EXCEPT ![j].signalled = TRUE] EXCEPT ![c].handle = 0]
        /\ host' = [at |-> "join", joins |-> j]
    BY <1>4, <2>1, <2>2 DEF Signal
  <2>4. PICK m \in MemberType : m = members[j]
    BY <1>1
  <2>5. PICK r : r = [m EXCEPT !.signalled = TRUE]
    OBVIOUS
  <2>6. PICK mid : mid = [members EXCEPT ![j] = r]
    OBVIOUS
  <2>7. /\ r \in MemberType /\ r.at = m.at /\ r.hand = m.hand /\ r.chan = m.chan
        /\ r.folded = m.folded /\ r.inbox = m.inbox /\ r.handle = m.handle
    BY <2>4, <2>5 DEF MemberType
  <2>8. mid \in [1 .. n -> MemberType] /\ mid[j] = r /\ \A k \in Members \ {j} : mid[k] = members[k]
    BY <1>1, <2>6, <2>7
  <2>9. PICK d \in MemberType : d = mid[c]
    BY <1>1, <2>8
  <2>10. PICK e : e = [d EXCEPT !.handle = 0]
    OBVIOUS
  <2>11. members' = [mid EXCEPT ![c] = e]
    BY <2>3, <2>4, <2>5, <2>6, <2>9, <2>10
  <2>12. /\ e \in MemberType /\ e.at = d.at /\ e.hand = d.hand /\ e.chan = d.chan
         /\ e.folded = d.folded /\ e.inbox = d.inbox /\ e.handle = 0
    BY <2>9, <2>10 DEF MemberType
  <2>13. members' \in [1 .. n -> MemberType] /\ members'[c] = e
         /\ \A k \in Members \ {c} : members'[k] = mid[k]
    BY <1>1, <2>8, <2>11, <2>12
  <2>14. members' \in Seq(MemberType) /\ Members' = Members
    BY <1>1, <2>13, FunctionIsSeq DEF Members
  <2>15. \A k \in Members :
              /\ Same(k, mid[k]) /\ mid[k].inbox = members[k].inbox
              /\ mid[k].at = members[k].at /\ mid[k].handle = members[k].handle
    BY <2>4, <2>7, <2>8 DEF Same
  <2>16. \A k \in Members :
              /\ Same(k, members'[k]) /\ members'[k].inbox = members[k].inbox
              /\ members'[k].at = members[k].at
              /\ members'[k].handle \in {0} \cup Members
    BY <2>9, <2>12, <2>13, <2>15 DEF Same, KindInv, HandInv
  <2>17. j \in Nat
    BY MemberIs DEF KindInv
  <2>18. QED
    BY <2>3, <2>14, <2>16, <2>17
<1>5. QED
  BY <1>3, <1>4

(* Activate, when it spawns.                                               *)
Spawns(s) == Activate(s) /\ ~barrier /\ slot = 0

LEMMA SpawnEffect ==
  ASSUME KindInv, NEW s \in Senders, Spawns(s)
  PROVE  \E n \in Nat \ {0} :
           /\ n \notin Members /\ Members' = Members \cup {n}
           /\ members' \in Seq(MemberType)
           /\ \A k \in Members : members'[k] = members[k]
           /\ members'[n] = Member
           /\ slot' = n
           /\ Goes(s, "arm", n)
<1>1. members \in Seq(MemberType)
  BY DEF KindInv, TypeOK
<1>2. PICK e : e = Member
  OBVIOUS
<1>3. e \in MemberType
  BY <1>2, SmallSeqs DEF Member, MemberType, None
<1>4. members' = Append(members, e) /\ slot' = Len(members) + 1 /\ Goes(s, "arm", Len(members) + 1)
  BY <1>2 DEF Spawns, Activate
<1>5. /\ members' \in Seq(MemberType) /\ Len(members) \in Nat
      /\ DOMAIN members = 1 .. Len(members) /\ DOMAIN members' = 1 .. Len(members) + 1
      /\ \A k \in DOMAIN members : members'[k] = members[k]
      /\ members'[Len(members) + 1] = e
  BY <1>1, <1>3, <1>4, AppendedIs
<1>6. PICK n \in Nat \ {0} : n = Len(members) + 1
  BY <1>5
<1>7. n \notin Members /\ Members' = Members \cup {n}
  BY <1>5, <1>6 DEF Members
<1>8. QED
  BY <1>2, <1>4, <1>5, <1>6, <1>7 DEF Members

----------------------------------------------------------------------------
(* The types, what a sender has to go on and what a member has in hand.    *)

SenderType == [at : {"send", "activate", "arm", "start", "resolve", "push", "panicked"},
               idx : Nat, target : {0} \cup Members]

HostType == [at : {"none", "stop", "join", "flush", "remove"}, joins : Nat]

LEMMA GoesEffect ==
  ASSUME KindInv, NEW s \in Senders, NEW target \in {0} \cup Members',
         NEW at \in {"activate", "arm", "start", "resolve", "push", "panicked"},
         Goes(s, at, target), Members \subseteq Members'
  PROVE  /\ sender' \in [Senders -> SenderType']
         /\ sender'[s].at = at /\ sender'[s].target = target
         /\ sender'[s].idx = sender[s].idx
         /\ \A t \in Senders \ {s} : sender'[t] = sender[t]
<1>1. PICK set : set = Members'
  OBVIOUS
<1>2. sender \in [Senders -> [at : {"send", "activate", "arm", "start", "resolve", "push",
                                   "panicked"}, idx : Nat, target : {0} \cup set]]
  BY <1>1 DEF KindInv, TypeOK
<1>3. PICK r : r = sender[s]
  OBVIOUS
<1>4. PICK w : w = [r EXCEPT !.at = at, !.target = target]
  OBVIOUS
<1>5. sender' = [sender EXCEPT ![s] = w]
  BY <1>3, <1>4 DEF Goes
<1>6. /\ w.at = at /\ w.target = target /\ w.idx = r.idx
      /\ w \in [at : {"send", "activate", "arm", "start", "resolve", "push", "panicked"},
                idx : Nat, target : {0} \cup set]
  BY <1>1, <1>2, <1>3, <1>4
<1>7. sender' \in [Senders -> [at : {"send", "activate", "arm", "start", "resolve", "push",
                                   "panicked"}, idx : Nat, target : {0} \cup set]]
  BY <1>2, <1>5, <1>6
<1>8. sender'[s] = w /\ \A t \in Senders \ {s} : sender'[t] = sender[t]
  BY <1>2, <1>5
<1>9. QED
  BY <1>1, <1>3, <1>6, <1>7, <1>8 DEF SenderType

LEMMA DoneEffect ==
  ASSUME KindInv, NEW s \in Senders, Done(s), Members' = Members
  PROVE  /\ sender' \in [Senders -> SenderType']
         /\ sender'[s].at = "send" /\ sender'[s].target = 0
         /\ sender'[s].idx = sender[s].idx + 1
         /\ \A t \in Senders \ {s} : sender'[t] = sender[t]
<1>1. PICK set : set = Members
  OBVIOUS
<1>2. sender \in [Senders -> [at : {"send", "activate", "arm", "start", "resolve", "push",
                                   "panicked"}, idx : Nat, target : {0} \cup set]]
  BY <1>1 DEF KindInv, TypeOK
<1>3. PICK r : r = sender[s]
  OBVIOUS
<1>4. PICK w : w = [at |-> "send", idx |-> r.idx + 1, target |-> 0]
  OBVIOUS
<1>5. sender' = [sender EXCEPT ![s] = w]
  BY <1>3, <1>4 DEF Done
<1>6. /\ w.at = "send" /\ w.target = 0 /\ w.idx = r.idx + 1
      /\ w \in [at : {"send", "activate", "arm", "start", "resolve", "push", "panicked"},
                idx : Nat, target : {0} \cup set]
  BY <1>2, <1>3, <1>4
<1>7. sender' \in [Senders -> [at : {"send", "activate", "arm", "start", "resolve", "push",
                                   "panicked"}, idx : Nat, target : {0} \cup set]]
  BY <1>2, <1>5, <1>6
<1>8. sender'[s] = w /\ \A t \in Senders \ {s} : sender'[t] = sender[t]
  BY <1>2, <1>5
<1>9. QED
  BY <1>1, <1>3, <1>6, <1>7, <1>8 DEF SenderType

LEMMA LettersEffect ==
  ASSUME TypeOK, NEW q, dead' = Letters(q)
  PROVE  /\ dead' \in [Message -> Nat]
         /\ \A m \in Message : dead'[m] = dead[m] + (IF m \in Range(q) THEN 1 ELSE 0)
BY DEF TypeOK, Letters

(* A member's own step keeps the types.                                    *)
LEMMA MemberKind ==
  ASSUME KindInv, NEW i \in Members, Only(i), members'[i].handle = members[i].handle,
         members[i].at \notin {"slotted", "armed"} \/ members'[i].at = members[i].at,
         members'[i].at \in {"claimed", "drainClaimed"} => members'[i].hand # None,
         members'[i].at \notin {"claimed", "drainClaimed"} => members'[i].hand = None,
         UNCHANGED <<sender, host, barrier, left>>,
         {slot', cell'} \subseteq {0} \cup Members, journal' \in Seq(Message),
         dead' \in [Message -> Nat], overrun' \in BOOLEAN
  PROVE  KindInv'
<1>1. TypeOK'
  BY DEF KindInv, TypeOK, Only
<1>2. SenderInv'
  BY DEF KindInv, SenderInv, Spawning, Telling, Only
<1>3. HandInv'
  BY DEF KindInv, HandInv, InStep, Only
<1>4. QED
  BY <1>1, <1>2, <1>3 DEF KindInv

(* So does a step by path: it touches nobody's hand, and ends no member    *)
(* in a step or on its way to one.                                         *)
LEMMA PathKind ==
  ASSUME KindInv, members' \in Seq(MemberType), Members' = Members,
         \A k \in Members :
           /\ members'[k].hand = members[k].hand
           /\ members'[k].handle \in {0} \cup Members
           /\ \/ members'[k].at = members[k].at
              \/ /\ members[k].at \notin {"slotted", "armed", "claimed", "drainClaimed"}
                 /\ members'[k].at = "leaving",
         UNCHANGED <<sender, journal>>,
         {slot', cell'} \subseteq {0} \cup Members,
         dead' \in [Message -> Nat], barrier' \in BOOLEAN, overrun' \in BOOLEAN,
         left' \in [AllFaults -> Nat],
         host' \in HostType, host'.at = "join" => host'.joins \in Members
  PROVE  KindInv'
<1>1. TypeOK'
  BY DEF KindInv, TypeOK, HostType
<1>2. SenderInv'
  BY DEF KindInv, SenderInv, Spawning, Telling
<1>3. HandInv'
  BY DEF KindInv, HandInv, InStep
<1>4. QED
  BY <1>1, <1>2, <1>3 DEF KindInv

(* And a sender's, which goes on with what it tells and touches at most    *)
(* the member it spawns.                                                   *)
LEMMA SenderKind ==
  ASSUME KindInv, NEW s \in Senders,
         members' \in Seq(MemberType), Members \subseteq Members',
         \A k \in Members :
           /\ members'[k].hand = members[k].hand
           /\ members'[k].handle \in {0} \cup Members
           /\ \/ members'[k].at = members[k].at
              \/ /\ Spawning(s) /\ k = sender[s].target
                 /\ members'[k].at \in {"armed", "boot"},
         \A k \in Members' \ Members :
           members'[k].hand = None /\ members'[k].handle = 0 /\ members'[k].at = "slotted",
         sender' \in [Senders -> SenderType'],
         \A t \in Senders \ {s} : sender'[t] = sender[t],
         sender'[s].idx >= 1 /\ sender'[s].idx <= Len(Program[s]) + 1,
         sender'[s].at # "send" => Telling(s)',
         sender'[s].at \in {"arm", "start", "push"} => sender'[s].target \in Members',
         sender'[s].at = "arm" => members'[sender'[s].target].at = "slotted",
         sender'[s].at = "start" => members'[sender'[s].target].at = "armed",
         Spawning(s)' => \/ Spawning(s) /\ sender'[s].target = sender[s].target
                         \/ sender'[s].target \notin Members,
         {slot', cell'} \subseteq {0} \cup Members',
         UNCHANGED <<journal, host, barrier, left, overrun>>, dead' \in [Message -> Nat]
  PROVE  KindInv'
<1>1. TypeOK'
  BY DEF KindInv, TypeOK, SenderType
<1>2. SenderInv'
  <2> SUFFICES ASSUME NEW t \in Senders
               PROVE  SenderInv!(t)'
    BY DEF SenderInv
  <2>1. CASE t = s
    <3>1. ASSUME Spawning(s)', NEW u \in Senders \ {s}, Spawning(u)'
          PROVE  sender'[u].target # sender'[s].target
      <4>1. sender'[u] = sender[u] /\ Spawning(u) /\ sender[u].target \in Members
        BY <3>1 DEF Spawning, KindInv, SenderInv
      <4>2. CASE Spawning(s) /\ sender'[s].target = sender[s].target
        BY <3>1, <4>1, <4>2 DEF KindInv, SenderInv
      <4>3. CASE sender'[s].target \notin Members
        BY <4>1, <4>3
      <4>4. QED
        BY <3>1, <4>2, <4>3
    <3>2. QED
      BY <2>1, <3>1
  <2>2. CASE t # s
    <3>1. sender'[t] = sender[t]
      BY <2>2
    <3>2. /\ sender[t].idx >= 1 /\ sender[t].idx <= Len(Program[t]) + 1
          /\ sender[t].at # "send" => Telling(t)
          /\ sender[t].at \in {"arm", "start", "push"} => sender[t].target \in Members
          /\ sender[t].at = "arm" => members[sender[t].target].at = "slotted"
          /\ sender[t].at = "start" => members[sender[t].target].at = "armed"
          /\ Spawning(t) /\ Spawning(s) => sender[t].target # sender[s].target
      BY <2>2 DEF KindInv, SenderInv
    <3>3. Spawning(t) => members'[sender[t].target].at = members[sender[t].target].at
      BY <3>2 DEF Spawning
    <3>4. ASSUME Spawning(t)', NEW u \in Senders \ {t}, Spawning(u)'
          PROVE  sender'[u].target # sender'[t].target
      <4>1. Spawning(t)
        BY <3>1, <3>4 DEF Spawning
      <4>2. CASE u = s
        <5>1. CASE Spawning(s) /\ sender'[s].target = sender[s].target
          BY <3>1, <3>2, <4>1, <4>2, <5>1
        <5>2. CASE sender'[s].target \notin Members
          BY <3>1, <3>2, <4>1, <4>2, <5>2 DEF Spawning
        <5>3. QED
          BY <3>4, <4>2, <5>1, <5>2
      <4>3. CASE u # s
        <5>1. sender'[u] = sender[u] /\ Spawning(u)
          BY <3>4, <4>3 DEF Spawning
        <5>2. QED
          BY <3>1, <3>4, <4>1, <5>1 DEF KindInv, SenderInv
      <4>4. QED
        BY <4>2, <4>3
    <3>5. QED
      BY <3>1, <3>2, <3>3, <3>4 DEF Telling, Spawning
  <2>3. QED
    BY <2>1, <2>2
<1>3. HandInv'
  BY DEF KindInv, HandInv, InStep, Spawning, SenderInv
<1>4. QED
  BY <1>1, <1>2, <1>3 DEF KindInv

(* The initial states have them,                                           *)
LEMMA KindInit == Init => KindInv
<1> SUFFICES ASSUME Init
             PROVE  KindInv
  OBVIOUS
<1>1. Members = {}
  BY EmptySeq DEF Init, Members
<1>2. members \in Seq(MemberType) /\ journal \in Seq(Message)
  BY SmallSeqs DEF Init
<1>3. \A s \in Senders : Len(Program[s]) \in Nat
  BY PartitionSetAssumption, SeqIsFunction
<1>4. TypeOK
  BY <1>1, <1>2, PartitionSetAssumption DEF Init, TypeOK
<1>5. SenderInv
  BY <1>3 DEF Init, SenderInv, Spawning
<1>6. HandInv
  BY <1>1 DEF Init, HandInv
<1>7. QED
  BY <1>4, <1>5, <1>6 DEF KindInv

(* and every step keeps them.  First the senders'.                         *)
LEMMA SenderSteps ==
  ASSUME KindInv, NEW s \in Senders, Look(s) \/ Route(s)
  PROVE  KindInv'
<1>1. /\ members \in Seq(MemberType) /\ {slot, cell} \subseteq {0} \cup Members
      /\ dead \in [Message -> Nat] /\ TypeOK
  BY DEF KindInv, TypeOK
<1>2. \A k \in Members : members[k].handle \in {0} \cup Members
  BY DEF KindInv, HandInv
<1>3. /\ sender[s].idx \in Nat /\ sender[s].idx >= 1
      /\ sender[s].idx <= Len(Program[s]) + 1
      /\ sender[s].at # "send" => Telling(s)
      /\ sender[s].at \in {"arm", "start", "push"} => sender[s].target \in Members
      /\ sender[s].at = "arm" => members[sender[s].target].at = "slotted"
      /\ sender[s].at = "start" => members[sender[s].target].at = "armed"
      /\ Len(Program[s]) \in Nat
  BY PartitionSetAssumption, SeqIsFunction DEF KindInv, TypeOK, SenderInv
<1>4. ASSUME UNCHANGED <<slot, cell, members, journal, host, barrier, left, overrun>>,
             DeadLetter(s), Telling(s)
      PROVE  KindInv'
  <2>1. Members' = Members /\ members' = members /\ Done(s) /\ dead' = Letters(<<Told(s)>>)
    BY <1>4 DEF Members, DeadLetter
  <2>2. dead' \in [Message -> Nat]
    BY <1>1, <2>1, LettersEffect
  <2>3. /\ sender' \in [Senders -> SenderType'] /\ sender'[s].at = "send"
        /\ sender'[s].idx = sender[s].idx + 1
        /\ \A t \in Senders \ {s} : sender'[t] = sender[t]
    BY <2>1, DoneEffect
  <2>4. sender'[s].idx >= 1 /\ sender'[s].idx <= Len(Program[s]) + 1 /\ ~Spawning(s)'
    BY <1>3, <1>4, <2>3 DEF Telling, Spawning
  <2>5. QED
    BY <1>1, <1>2, <1>4, <2>1, <2>2, <2>3, <2>4, SenderKind
<1>5. ASSUME UNCHANGED <<slot, cell, members, journal, host, barrier, left, overrun, dead>>,
             Telling(s), NEW target \in {0} \cup Members,
             NEW at \in {"activate", "resolve", "push", "panicked"},
             Goes(s, at, target), at = "push" => target # 0
      PROVE  KindInv'
  <2>1. Members' = Members /\ members' = members
    BY <1>5 DEF Members
  <2>2. /\ sender' \in [Senders -> SenderType'] /\ sender'[s].at = at
        /\ sender'[s].target = target
        /\ sender'[s].idx = sender[s].idx
        /\ \A t \in Senders \ {s} : sender'[t] = sender[t]
    BY <1>5, <2>1, GoesEffect
  <2>3. Telling(s)' /\ ~Spawning(s)'
    BY <1>5, <2>2 DEF Telling, Spawning
  <2>4. QED
    BY <1>1, <1>2, <1>3, <1>5, <2>1, <2>2, <2>3, SenderKind
<1>6. CASE Look(s)
  <2>1. CASE barrier
    BY <1>4, <1>6, <2>1 DEF Look, tables
  <2>2. CASE ~barrier
    <3>1. PICK at \in {"activate", "resolve"} : at = IF slot # 0 THEN "resolve" ELSE "activate"
      OBVIOUS
    <3>2. Goes(s, at, 0)
      BY <1>6, <2>2, <3>1 DEF Look
    <3>3. QED
      BY <1>5, <1>6, <2>2, <3>1, <3>2 DEF Look, tables
  <2>3. QED
    BY <2>1, <2>2
<1>7. CASE Activate(s)
  <2>1. CASE barrier
    <3>1. Telling(s)
      BY <1>3, <1>7 DEF Activate
    <3>2. QED
      BY <1>4, <1>7, <2>1, <3>1 DEF Activate
  <2>2. CASE ~barrier /\ slot # 0
    <3>1. Telling(s) /\ Goes(s, "panicked", 0)
      BY <1>3, <1>7, <2>2 DEF Activate
    <3>2. QED
      BY <1>5, <1>7, <2>2, <3>1 DEF Activate
  <2>3. CASE ~barrier /\ slot = 0
    <3>1. Spawns(s) /\ Telling(s)
      BY <1>3, <1>7, <2>3 DEF Spawns, Activate
    <3>2. PICK n \in Nat \ {0} :
           /\ n \notin Members /\ Members' = Members \cup {n}
           /\ members' \in Seq(MemberType)
           /\ \A k \in Members : members'[k] = members[k]
           /\ members'[n] = Member
           /\ slot' = n
           /\ Goes(s, "arm", n)
      BY <3>1, SpawnEffect
    <3>3. /\ sender' \in [Senders -> SenderType'] /\ sender'[s].at = "arm"
          /\ sender'[s].target = n
          /\ sender'[s].idx = sender[s].idx
          /\ \A t \in Senders \ {s} : sender'[t] = sender[t]
      BY <3>2, GoesEffect
    <3>4. Telling(s)'
      BY <3>1, <3>3 DEF Telling
    <3>5. /\ members'[n].at = "slotted" /\ members'[n].hand = None
          /\ members'[n].handle = 0
      BY <3>2 DEF Member
    <3>6. UNCHANGED <<cell, journal, dead, host, barrier, left, overrun>>
      BY <1>7, <2>3 DEF Activate
    <3>7. {slot', cell'} \subseteq {0} \cup Members'
      BY <1>1, <3>2, <3>6
    <3>8. QED
      BY <1>1, <1>2, <1>3, <3>2, <3>3, <3>4, <3>5, <3>6, <3>7, SenderKind
  <2>4. QED
    BY <2>1, <2>2, <2>3
<1>8. CASE Arm(s)
  <2>1. PICK i \in Members : i = sender[s].target
    BY <1>3, <1>8 DEF Arm
  <2>2. /\ Only(i) /\ members'[i].at = "armed" /\ members'[i].hand = members[i].hand
        /\ members'[i].handle = members[i].handle
    BY <1>8, <2>1, ArmEffect
  <2>3. /\ cell' = i /\ Goes(s, "start", i) /\ Telling(s) /\ Spawning(s)
        /\ UNCHANGED <<slot, journal, dead, host, barrier, left, overrun>>
    BY <1>3, <1>8, <2>1 DEF Arm, Spawning
  <2>4. /\ sender' \in [Senders -> SenderType'] /\ sender'[s].at = "start"
        /\ sender'[s].target = i
        /\ sender'[s].idx = sender[s].idx
        /\ \A t \in Senders \ {s} : sender'[t] = sender[t]
    BY <2>2, <2>3, GoesEffect DEF Only
  <2>5. Telling(s)'
    BY <2>3, <2>4 DEF Telling
  <2>6. /\ members' \in Seq(MemberType) /\ Members' = Members
        /\ \A k \in Members : /\ members'[k].hand = members[k].hand
                              /\ members'[k].handle \in {0} \cup Members
                              /\ \/ members'[k].at = members[k].at
                                 \/ /\ Spawning(s) /\ k = sender[s].target
                                    /\ members'[k].at \in {"armed", "boot"}
    BY <1>2, <2>1, <2>2, <2>3 DEF Only
  <2>7. QED
    BY <1>1, <1>3, <2>1, <2>2, <2>3, <2>4, <2>5, <2>6, SenderKind, SMTT(30)
<1>9. CASE Start(s)
  <2>1. PICK i \in Members : i = sender[s].target
    BY <1>3, <1>9 DEF Start
  <2>2. /\ members' \in Seq(MemberType) /\ Members' = Members
        /\ \A k \in Members :
              /\ Same(k, members'[k]) /\ members'[k].inbox = members[k].inbox
              /\ members'[k].at = IF k = i THEN "boot" ELSE members[k].at
              /\ members'[k].handle \in {0} \cup Members
    BY <1>9, <2>1, StartEffect
  <2>3. /\ Goes(s, "resolve", 0) /\ Telling(s) /\ Spawning(s)
        /\ UNCHANGED <<slot, cell, journal, dead, host, barrier, left, overrun>>
    BY <1>3, <1>9 DEF Start, Spawning, tables
  <2>4. /\ sender' \in [Senders -> SenderType'] /\ sender'[s].at = "resolve"
        /\ sender'[s].target = 0
        /\ sender'[s].idx = sender[s].idx
        /\ \A t \in Senders \ {s} : sender'[t] = sender[t]
    BY <2>2, <2>3, GoesEffect
  <2>5. Telling(s)' /\ ~Spawning(s)'
    BY <2>3, <2>4 DEF Telling, Spawning
  <2>6. \A k \in Members : /\ members'[k].hand = members[k].hand
                           /\ members'[k].handle \in {0} \cup Members
                           /\ \/ members'[k].at = members[k].at
                              \/ /\ Spawning(s) /\ k = sender[s].target
                                 /\ members'[k].at \in {"armed", "boot"}
    BY <2>1, <2>2, <2>3 DEF Same
  <2>7. QED
    BY <1>1, <1>3, <2>2, <2>3, <2>4, <2>5, <2>6, SenderKind
<1>10. CASE Resolve(s)
  <2>1. Telling(s)
    BY <1>3, <1>10 DEF Resolve
  <2>2. CASE slot = 0
    BY <1>4, <1>10, <2>1, <2>2 DEF Resolve, tables
  <2>3. CASE slot # 0
    <3>1. PICK i \in Members : i = slot
      BY <1>1, <2>3
    <3>2. Goes(s, "push", i) /\ i # 0
      BY <1>10, <2>3, <3>1 DEF Resolve
    <3>3. QED
      BY <1>5, <1>10, <2>1, <2>3, <3>1, <3>2 DEF Resolve, tables
  <2>4. QED
    BY <2>2, <2>3
<1>11. CASE Push(s)
  <2>1. PICK i \in Members : i = sender[s].target
    BY <1>3, <1>11 DEF Push
  <2>2. /\ Only(i) /\ members'[i].at = members[i].at /\ members'[i].hand = members[i].hand
        /\ members'[i].handle = members[i].handle
    BY <1>11, <2>1, PushOpenEffect, PushClosedEffect
  <2>3. /\ Done(s) /\ Telling(s)
        /\ UNCHANGED <<slot, cell, journal, dead, host, barrier, left, overrun>>
    BY <1>3, <1>11 DEF Push, tables
  <2>4. /\ sender' \in [Senders -> SenderType'] /\ sender'[s].at = "send"
        /\ sender'[s].idx = sender[s].idx + 1
        /\ \A t \in Senders \ {s} : sender'[t] = sender[t]
    BY <2>2, <2>3, DoneEffect DEF Only
  <2>5. sender'[s].idx >= 1 /\ sender'[s].idx <= Len(Program[s]) + 1 /\ ~Spawning(s)'
    BY <1>3, <2>3, <2>4 DEF Telling, Spawning
  <2>6. /\ members' \in Seq(MemberType) /\ Members' = Members
        /\ \A k \in Members : /\ members'[k].hand = members[k].hand
                              /\ members'[k].handle \in {0} \cup Members
                              /\ members'[k].at = members[k].at
    BY <1>2, <2>2 DEF Only
  <2>7. QED
    BY <1>1, <2>3, <2>4, <2>5, <2>6, SenderKind
<1>12. QED
  BY <1>6, <1>7, <1>8, <1>9, <1>10, <1>11 DEF Route

(* Then the members'.                                                      *)
LEMMA MemberSteps ==
  ASSUME KindInv, NEW i \in Members, Door(i) \/ Loop(i) \/ Passivate(i)
  PROVE  KindInv'
<1>1. /\ members[i] \in MemberType /\ {slot, cell} \subseteq {0} \cup Members
      /\ journal \in Seq(Message)
      /\ dead \in [Message -> Nat] /\ TypeOK /\ overrun \in BOOLEAN
      /\ InStep(i) => members[i].hand # None
      /\ ~InStep(i) => members[i].hand = None
      /\ host \in HostType /\ barrier \in BOOLEAN /\ left \in [AllFaults -> Nat]
      /\ host.at = "join" => host.joins \in Members
      /\ \A k \in Members : members[k].handle \in {0} \cup Members
  BY MemberIs DEF KindInv, TypeOK, HandInv, HostType
<1>2. CASE Door(i)
  <2>1. /\ Only(i) /\ members'[i].at = members[i].at /\ members'[i].hand = members[i].hand
        /\ members'[i].handle = members[i].handle
    BY <1>2, DoorOpenEffect, DoorClosedEffect
  <2>2. dead' \in [Message -> Nat]
    <3>1. CASE members[i].open
      BY <1>1, <1>2, <3>1 DEF Door
    <3>2. CASE ~members[i].open
      BY <1>1, <1>2, <3>2, LettersEffect DEF Door
    <3>3. QED
      BY <3>1, <3>2
  <2>3. UNCHANGED <<slot, cell, journal, sender, host, barrier, left, overrun>>
    BY <1>2 DEF Door, tables
  <2>4. QED
    BY <1>1, <2>1, <2>2, <2>3, MemberKind DEF InStep
<1>3. CASE Boot(i)
  <2>1. /\ Only(i) /\ members'[i].at = "idle" /\ members'[i].hand = members[i].hand
        /\ members'[i].handle = members[i].handle
    BY <1>3, BootEffect
  <2>2. members[i].at = "boot"
        /\ UNCHANGED <<slot, cell, journal, dead, sender, host, barrier, left, overrun>>
    BY <1>3 DEF Boot, tables
  <2>3. QED
    BY <1>1, <2>1, <2>2, MemberKind DEF InStep
<1>4. CASE Claim(i)
  <2>1. /\ Only(i) /\ members'[i].hand = <<Head(members[i].inbox)>>
        /\ members'[i].at = IF members[i].at = "idle" THEN "claimed" ELSE "drainClaimed"
        /\ members'[i].handle = members[i].handle
    BY <1>4, ClaimEffect
  <2>2. members[i].at \in {"idle", "draining"}
        /\ UNCHANGED <<slot, cell, journal, dead, sender, host, barrier, left, overrun>>
    BY <1>4 DEF Claim, tables
  <2>3. members'[i].hand # None /\ members'[i].at \in {"claimed", "drainClaimed"}
    BY <2>1 DEF None
  <2>4. QED
    BY <1>1, <2>1, <2>2, <2>3, MemberKind
<1>5. CASE Handle(i)
  <2>1. /\ Only(i) /\ members'[i].hand = None
        /\ members'[i].at = IF members[i].at = "claimed" THEN "idle" ELSE "draining"
        /\ members'[i].handle = members[i].handle
    BY <1>5, HandleEffect
  <2>2. members[i].at \in {"claimed", "drainClaimed"}
        /\ UNCHANGED <<slot, cell, dead, sender, host, barrier, left, overrun>>
    BY <1>5 DEF Handle, tables, InStep
  <2>3. journal' \in Seq(Message)
    BY <1>1, <1>5, ConcatProperties DEF Handle, MemberType
  <2>4. members'[i].at \notin {"claimed", "drainClaimed"}
    BY <2>1
  <2>5. QED
    BY <1>1, <2>1, <2>2, <2>3, <2>4, MemberKind
<1>6. CASE Crash(i)
  <2>1. /\ Only(i) /\ members'[i].hand = None
        /\ members'[i].at = IF members[i].at = "claimed" THEN "crashed" ELSE "exit"
        /\ members'[i].handle = members[i].handle
    BY <1>6, CrashEffect
  <2>2. members[i].at \in {"claimed", "drainClaimed"}
        /\ UNCHANGED <<slot, cell, journal, sender, host, barrier, left, overrun>>
    BY <1>6 DEF Crash, tables, InStep
  <2>3. dead' \in [Message -> Nat]
    <3>1. CASE ~members[i].stopping
      BY <1>1, <1>6, <3>1 DEF Crash
    <3>2. CASE members[i].stopping
      BY <1>1, <1>6, <3>2, LettersEffect DEF Crash
    <3>3. QED
      BY <3>1, <3>2
  <2>4. members'[i].at \notin {"claimed", "drainClaimed"}
    BY <2>1
  <2>5. QED
    BY <1>1, <2>1, <2>2, <2>3, <2>4, MemberKind
<1>7. CASE Obey(i)
  <2>1. /\ Only(i) /\ members'[i].at = "ended" /\ members'[i].hand = members[i].hand
        /\ members'[i].handle = members[i].handle
    BY <1>7, ObeyEffect
  <2>2. members[i].at = "idle"
        /\ UNCHANGED <<slot, cell, journal, dead, sender, host, barrier, left, overrun>>
    BY <1>7 DEF Obey, tables
  <2>3. QED
    BY <1>1, <2>1, <2>2, MemberKind DEF InStep
<1>8. CASE Passivate(i)
  <2>1. /\ Only(i) /\ members'[i].at = "draining" /\ members'[i].hand = members[i].hand
        /\ members'[i].handle = members[i].handle
    BY <1>8, PassivateEffect
  <2>2. members[i].at = "idle"
        /\ UNCHANGED <<slot, cell, journal, dead, sender, host, barrier, left, overrun>>
    BY <1>8 DEF Passivate, tables
  <2>3. QED
    BY <1>1, <2>1, <2>2, MemberKind DEF InStep
<1>9. CASE Leave(i)
  <2>1. /\ Only(i) /\ members'[i].at = "ended" /\ members'[i].hand = members[i].hand
        /\ members'[i].handle = members[i].handle
    BY <1>9, LeaveEffect
  <2>2. /\ members[i].at = "leaving" /\ slot' = 0 /\ cell' = 0
        /\ UNCHANGED <<journal, dead, sender, host, barrier, left>>
    BY <1>9 DEF Leave, Removed
  <2>3. overrun' \in BOOLEAN
    BY <1>1, <1>9 DEF Leave
  <2>4. QED
    BY <1>1, <2>1, <2>2, <2>3, MemberKind DEF InStep
<1>10. CASE Exit(i)
  <2>1. /\ members' \in Seq(MemberType) /\ Members' = Members
        /\ \A k \in Members :
              /\ Same(k, members'[k])
              /\ members'[k].at = IF k = i THEN "leaving" ELSE members[k].at
              /\ members'[k].handle = members[k].handle
    BY <1>10, ExitEffect
  <2>2. dead' \in [Message -> Nat]
    BY <1>1, <1>10, LettersEffect DEF Exit
  <2>3. /\ members[i].at \in {"exit", "draining"}
        /\ UNCHANGED <<slot, cell, journal, sender, host, barrier, left>>
    BY <1>10 DEF Exit, tables
  <2>4. overrun' \in BOOLEAN
    BY <1>1, <1>10 DEF Exit
  <2>5. QED
    BY <1>1, <2>1, <2>2, <2>3, <2>4, PathKind DEF Same
<1>11. QED
  BY <1>2, <1>3, <1>4, <1>5, <1>6, <1>7, <1>8, <1>9, <1>10 DEF Loop

(* And the host's.                                                         *)
LEMMA SpendKeeps ==
  ASSUME TypeOK, NEW fault \in AllFaults, Spend(fault)
  PROVE  left' \in [AllFaults -> Nat]
<1>1. PICK n : n = left[fault]
  OBVIOUS
<1>2. n \in Nat /\ n > 0 /\ left' = [left EXCEPT ![fault] = n - 1] /\ left \in [AllFaults -> Nat]
  BY <1>1 DEF TypeOK, Spend
<1>3. n - 1 \in Nat
  BY <1>2
<1>4. QED
  BY <1>2, <1>3

LEMMA HostSteps ==
  ASSUME KindInv, BeginStop \/ Stop \/ Barrier
  PROVE  KindInv'
<1>1. /\ members \in Seq(MemberType) /\ {slot, cell} \subseteq {0} \cup Members
      /\ dead \in [Message -> Nat] /\ TypeOK /\ overrun \in BOOLEAN
      /\ host \in HostType /\ barrier \in BOOLEAN /\ left \in [AllFaults -> Nat]
      /\ host.at = "join" => host.joins \in Members
      /\ \A k \in Members : members[k].handle \in {0} \cup Members
  BY DEF KindInv, TypeOK, HandInv, HostType
<1>2. CASE BeginStop
  <2>1. /\ host' \in HostType /\ host'.at # "join" /\ left' \in [AllFaults -> Nat]
        /\ UNCHANGED <<slot, cell, members, journal, dead, sender, barrier, overrun>>
    BY <1>1, <1>2, SpendKeeps DEF BeginStop, AllFaults, HostType, tables
  <2>2. Members' = Members
    BY <2>1 DEF Members
  <2>3. QED
    BY <1>1, <2>1, <2>2, PathKind
<1>3. CASE Barrier
  <2>1. /\ barrier' \in BOOLEAN /\ left' \in [AllFaults -> Nat]
        /\ UNCHANGED <<slot, cell, members, journal, dead, sender, host, overrun>>
    BY <1>1, <1>3, SpendKeeps DEF Barrier, AllFaults, tables
  <2>2. Members' = Members
    BY <2>1 DEF Members
  <2>3. QED
    BY <1>1, <2>1, <2>2, PathKind
<1>4. CASE Signal
  <2>1. /\ members' \in Seq(MemberType) /\ Members' = Members
        /\ \A k \in Members :
              /\ Same(k, members'[k]) /\ members'[k].inbox = members[k].inbox
              /\ members'[k].at = members[k].at
              /\ members'[k].handle \in {0} \cup Members
        /\ host' \in HostType
        /\ host'.at = "join" => host'.joins \in Members
    BY <1>4, SignalEffect DEF HostType
  <2>2. UNCHANGED <<slot, cell, journal, dead, sender, barrier, left, overrun>>
    BY <1>4 DEF Signal, tables
  <2>3. QED
    BY <1>1, <2>1, <2>2, PathKind DEF Same
<1>5. CASE Join
  <2>1. /\ host' \in HostType /\ host'.at # "join"
        /\ UNCHANGED <<slot, cell, members, journal, dead, sender, barrier, left, overrun>>
    BY <1>1, <1>5 DEF Join, HostType, tables
  <2>2. Members' = Members
    BY <2>1 DEF Members
  <2>3. QED
    BY <1>1, <2>1, <2>2, PathKind
<1>6. CASE StopFlushes
  <2>1. /\ members' \in Seq(MemberType) /\ Members' = Members
        /\ \A k \in Members :
              /\ Same(k, members'[k]) /\ members'[k].at = members[k].at
              /\ members'[k].handle = members[k].handle
    BY <1>6, StopFlushesEffect
  <2>2. dead' \in [Message -> Nat]
    BY <1>1, <1>6, LettersEffect DEF StopFlushes
  <2>3. /\ host' \in HostType /\ host'.at # "join"
        /\ UNCHANGED <<slot, cell, journal, sender, barrier, left>>
    BY <1>1, <1>6 DEF StopFlushes, HostType, tables
  <2>4. overrun' \in BOOLEAN
    BY <1>1, <1>6 DEF StopFlushes
  <2>5. QED
    BY <1>1, <2>1, <2>2, <2>3, <2>4, PathKind DEF Same
<1>7. CASE StopRemoves
  <2>1. /\ slot' = 0 /\ cell' = 0 /\ host' \in HostType /\ host'.at # "join"
        /\ UNCHANGED <<members, journal, dead, sender, barrier, left>>
    BY <1>1, <1>7 DEF StopRemoves, Removed, HostType
  <2>2. Members' = Members
    BY <2>1 DEF Members
  <2>3. overrun' \in BOOLEAN
    BY <1>1, <1>7 DEF StopRemoves
  <2>4. QED
    BY <1>1, <2>1, <2>2, <2>3, PathKind
<1>8. QED
  BY <1>2, <1>3, <1>4, <1>5, <1>6, <1>7 DEF Stop

LEMMA KindStep == KindInv /\ [Next]_vars => KindInv'
<1> SUFFICES ASSUME KindInv, [Next]_vars
             PROVE  KindInv'
  OBVIOUS
<1>1. CASE UNCHANGED vars
  BY <1>1 DEF vars, tables, KindInv, TypeOK, SenderInv, HandInv, Spawning, Telling, InStep,
              Members
<1>2. CASE Next
  BY <1>2, SenderSteps, MemberSteps, HostSteps DEF Next
<1>3. QED
  BY <1>1, <1>2

(* Whatever the senders tell, however often the key is spawned and         *)
(* whenever the host stops it, the tables name members, the inboxes hold   *)
(* messages and every task is where its code can be.                       *)
THEOREM TypeCorrect == Spec => []TypeOK
<1>1. KindInv => TypeOK
  BY DEF KindInv
<1>2. QED
  BY KindInit, KindStep, <1>1, PTL DEF Spec

----------------------------------------------------------------------------
(* A member at work is alone and its state is the journal's.               *)

CurrentKey == AloneInv /\ CurrentInv

(* A step after which a member is no nearer to work and knows what it knew *)
(* disturbs neither.                                                       *)
Calm(k, r) ==
  /\ r.at \in {"slotted"} \cup Armed => members[k].at \in {"slotted"} \cup Armed
  /\ r.at \in Armed => members[k].at \in Armed
  /\ r.at \in Booted => members[k].at \in Booted /\ r.folded = members[k].folded

LEMMA CalmStep ==
  ASSUME CurrentKey, UNCHANGED <<slot, cell, journal>>, overrun => overrun',
         Members' = Members, \A k \in Members : Calm(k, members'[k])
  PROVE  CurrentKey'
BY DEF CurrentKey, AloneInv, CurrentInv, Calm

LEMMA CurrentInit == Init => CurrentKey
<1> SUFFICES ASSUME Init
             PROVE  CurrentKey
  OBVIOUS
<1>1. Members = {}
  BY EmptySeq DEF Init, Members
<1>2. QED
  BY <1>1 DEF CurrentKey, AloneInv, CurrentInv

(* A spawn finds the slot free, so that nobody is left to be at work;      *)
(* arming it puts the new member, who has the slot, behind the cell.       *)
LEMMA CurrentSenders ==
  ASSUME KindInv, CurrentKey, NEW s \in Senders, Look(s) \/ Route(s)
  PROVE  CurrentKey'
<1>1. /\ sender[s].at \in {"arm", "start", "push"} => sender[s].target \in Members
      /\ sender[s].at = "arm" => members[sender[s].target].at = "slotted"
      /\ sender[s].at = "start" => members[sender[s].target].at = "armed"
  BY DEF KindInv, SenderInv
<1>2. ASSUME UNCHANGED <<slot, cell, members, journal, overrun>>
      PROVE  CurrentKey'
  <2>1. Members' = Members /\ \A k \in Members : Calm(k, members'[k])
    BY <1>2 DEF Members, Calm
  <2>2. QED
    BY <1>2, <2>1, CalmStep
<1>3. CASE Look(s)
  BY <1>2, <1>3 DEF Look, tables
<1>4. CASE Activate(s)
  <2>1. CASE ~Spawns(s)
    BY <1>2, <1>4, <2>1 DEF Activate, Spawns
  <2>2. CASE Spawns(s)
    <3>1. PICK n \in Nat \ {0} :
           /\ n \notin Members /\ Members' = Members \cup {n}
           /\ \A k \in Members : members'[k] = members[k]
           /\ members'[n] = Member
           /\ slot' = n
      BY <2>2, SpawnEffect
    <3>2. slot = 0 /\ UNCHANGED <<cell, journal, overrun>>
      BY <2>2 DEF Spawns, Activate
    <3>3. \A k \in Members : k # 0
      BY MemberIs DEF KindInv
    <3>4. ~overrun => \A k \in Members : members[k].at \notin {"slotted"} \cup Armed
      BY <3>2, <3>3 DEF CurrentKey, AloneInv
    <3>5. members'[n].at = "slotted"
      BY <3>1 DEF Member
    <3>6. "slotted" \notin Armed /\ Booted \subseteq Armed
      BY DEF Armed, Booted
    <3>7. AloneInv'
      BY <3>1, <3>2, <3>4, <3>5, <3>6 DEF AloneInv
    <3>8. CurrentInv'
      BY <3>1, <3>2, <3>4, <3>5, <3>6 DEF CurrentInv
    <3>9. QED
      BY <3>7, <3>8 DEF CurrentKey
  <2>3. QED
    BY <2>1, <2>2
<1>5. CASE Arm(s)
  <2>1. PICK i \in Members : i = sender[s].target
    BY <1>1, <1>5 DEF Arm
  <2>2. /\ Only(i) /\ members'[i].at = "armed" /\ members[i].at = "slotted"
        /\ cell' = i /\ UNCHANGED <<slot, journal, overrun>>
    BY <1>1, <1>5, <2>1, ArmEffect DEF Arm
  <2>3. /\ "armed" \in Armed /\ "armed" \notin Booted /\ Booted \subseteq Armed
    BY DEF Armed, Booted
  <2>4. ~overrun => slot = i /\ \A k \in Members \ {i} : members[k].at \notin {"slotted"} \cup Armed
    BY <2>2 DEF CurrentKey, AloneInv
  <2>5. AloneInv'
    BY <2>2, <2>3, <2>4 DEF AloneInv, Only
  <2>6. CurrentInv'
    BY <2>2, <2>3, <2>4 DEF CurrentInv, Only
  <2>7. QED
    BY <2>5, <2>6 DEF CurrentKey
<1>6. CASE Start(s)
  <2>1. PICK i \in Members : i = sender[s].target
    BY <1>1, <1>6 DEF Start
  <2>2. members[i].at = "armed" /\ UNCHANGED <<slot, cell, journal, overrun>>
    BY <1>1, <1>6, <2>1 DEF Start, tables
  <2>3. /\ Members' = Members
        /\ \A k \in Members :
              /\ Same(k, members'[k])
              /\ members'[k].at = IF k = i THEN "boot" ELSE members[k].at
    BY <1>6, <2>1, StartEffect
  <2>4. \A k \in Members : Calm(k, members'[k])
    BY <2>2, <2>3 DEF Calm, Same, Armed, Booted
  <2>5. QED
    BY <2>2, <2>3, <2>4, CalmStep
<1>7. CASE Resolve(s)
  BY <1>2, <1>7 DEF Resolve, tables
<1>8. CASE Push(s)
  <2>1. PICK i \in Members : i = sender[s].target
    BY <1>1, <1>8 DEF Push
  <2>2. /\ Only(i) /\ members'[i].at = members[i].at /\ members'[i].folded = members[i].folded
        /\ UNCHANGED <<slot, cell, journal, overrun>>
    BY <1>8, <2>1, PushOpenEffect, PushClosedEffect DEF Push, tables
  <2>3. \A k \in Members : Calm(k, members'[k])
    BY <2>2 DEF Calm, Only
  <2>4. QED
    BY <2>2, <2>3, CalmStep DEF Only
<1>9. QED
  BY <1>3, <1>4, <1>5, <1>6, <1>7, <1>8 DEF Route

(* A teardown that overruns nobody leaves nobody at work.                  *)
LEMMA CurrentRemoved ==
  ASSUME KindInv, CurrentKey, NEW i \in Nat, overrun' = (overrun \/ Overruns(i)),
         i \in Members => members[i].at = "leaving",
         Members' = Members,
         \A k \in Members : \/ members'[k] = members[k]
                            \/ members'[k].at = "ended"
  PROVE  CurrentKey'
<1>1. \A k \in Members : k # 0
  BY MemberIs DEF KindInv
<1>2. \A k \in Members : members[k].at \in {"slotted"} \cup Armed => members[k].at \notin AtRest
  BY DEF Armed, Booted, AtRest
<1>3. ASSUME ~overrun', NEW k \in Members
      PROVE  members'[k].at \notin {"slotted"} \cup Armed
  <2> SUFFICES ASSUME members'[k].at \in {"slotted"} \cup Armed
               PROVE  FALSE
    OBVIOUS
  <2>1. members[k].at \in {"slotted"} \cup Armed
    BY DEF Armed, Booted
  <2>2. ~overrun /\ ~Overruns(i)
    BY <1>3
  <2>3. slot = k /\ k # i
    BY <2>1, <2>2 DEF CurrentKey, AloneInv, Armed, Booted
  <2>4. k \in {slot, cell} \ {0, i}
    BY <1>1, <2>3
  <2>5. members[k].at \in AtRest
    BY <2>2, <2>4 DEF Overruns
  <2>6. QED
    BY <1>2, <2>1, <2>5
<1>4. Booted \subseteq Armed
  BY DEF Armed
<1>5. AloneInv'
  BY <1>3 DEF AloneInv
<1>6. CurrentInv'
  BY <1>3, <1>4 DEF CurrentInv
<1>7. QED
  BY <1>5, <1>6 DEF CurrentKey

LEMMA CurrentMembers ==
  ASSUME KindInv, CurrentKey, NEW i \in Members, Door(i) \/ Loop(i) \/ Passivate(i)
  PROVE  CurrentKey'
<1>1. ASSUME Only(i), Calm(i, members'[i]), UNCHANGED <<slot, cell, journal, overrun>>
      PROVE  CurrentKey'
  <2>1. \A k \in Members : Calm(k, members'[k])
    BY <1>1 DEF Calm, Only
  <2>2. QED
    BY <1>1, <2>1, CalmStep DEF Only
<1>2. CASE Door(i)
  <2>1. /\ Only(i) /\ members'[i].at = members[i].at /\ members'[i].folded = members[i].folded
    BY <1>2, DoorOpenEffect, DoorClosedEffect
  <2>2. UNCHANGED <<slot, cell, journal, overrun>>
    BY <1>2 DEF Door, tables
  <2>3. QED
    BY <1>1, <2>1, <2>2 DEF Calm
<1>3. CASE Boot(i)
  <2>1. /\ Only(i) /\ members'[i].at = "idle" /\ members'[i].folded = Replay
        /\ members[i].at = "boot" /\ UNCHANGED <<slot, cell, journal, overrun>>
    BY <1>3, BootEffect DEF Boot, tables
  <2>2. i # 0
    BY MemberIs DEF KindInv
  <2>3. ~overrun => /\ slot = i /\ cell = i
                    /\ \A k \in Members \ {i} : members[k].at \notin {"slotted"} \cup Armed
    BY <2>1 DEF CurrentKey, AloneInv, Armed
  <2>4. ~overrun => members'[i].folded = journal
    BY <2>1, <2>2, <2>3 DEF Replay
  <2>5. Booted \subseteq Armed
    BY DEF Armed
  <2>6. AloneInv'
    BY <2>1, <2>3 DEF AloneInv, Only
  <2>7. CurrentInv'
    BY <2>1, <2>3, <2>4, <2>5 DEF CurrentInv, Only
  <2>8. QED
    BY <2>6, <2>7 DEF CurrentKey
<1>4. CASE Claim(i)
  <2>1. /\ Only(i) /\ members'[i].folded = members[i].folded
        /\ members'[i].at = IF members[i].at = "idle" THEN "claimed" ELSE "drainClaimed"
    BY <1>4, ClaimEffect
  <2>2. members[i].at \in {"idle", "draining"} /\ UNCHANGED <<slot, cell, journal, overrun>>
    BY <1>4 DEF Claim, tables
  <2>3. QED
    BY <1>1, <2>1, <2>2 DEF Calm, Armed, Booted
<1>5. CASE Handle(i)
  <2>1. PICK hand : hand = members[i].hand
    OBVIOUS
  <2>2. /\ Only(i) /\ members'[i].folded = members[i].folded \o hand
        /\ members'[i].at = IF members[i].at = "claimed" THEN "idle" ELSE "draining"
    BY <1>5, <2>1, HandleEffect
  <2>3. /\ members[i].at \in {"claimed", "drainClaimed"} /\ journal' = journal \o hand
        /\ UNCHANGED <<slot, cell, overrun>>
    BY <1>5, <2>1 DEF Handle, InStep, tables
  <2>4. /\ members[i].at \in Booted /\ members'[i].at \in Booted /\ Booted \subseteq Armed
    BY <2>2, <2>3 DEF Armed, Booted
  <2>5. ~overrun => /\ slot = i /\ cell = i /\ members[i].folded = journal
                    /\ \A k \in Members \ {i} : members[k].at \notin {"slotted"} \cup Armed
    BY <2>4 DEF CurrentKey, AloneInv, CurrentInv
  <2>6. AloneInv'
    BY <2>2, <2>3, <2>5 DEF AloneInv, Only
  <2>7. CurrentInv'
    BY <2>2, <2>3, <2>4, <2>5 DEF CurrentInv, Only
  <2>8. QED
    BY <2>6, <2>7 DEF CurrentKey
<1>6. CASE Crash(i)
  <2>1. /\ Only(i)
        /\ members'[i].at = IF members[i].at = "claimed" THEN "crashed" ELSE "exit"
        /\ UNCHANGED <<slot, cell, journal, overrun>>
    BY <1>6, CrashEffect DEF Crash, tables
  <2>2. members'[i].at \notin {"slotted"} \cup Armed \cup Booted
    BY <2>1 DEF Armed, Booted
  <2>3. QED
    BY <1>1, <2>1, <2>2 DEF Calm
<1>7. CASE Obey(i)
  <2>1. /\ Only(i) /\ members'[i].at = "ended" /\ UNCHANGED <<slot, cell, journal, overrun>>
    BY <1>7, ObeyEffect DEF Obey, tables
  <2>2. members'[i].at \notin {"slotted"} \cup Armed \cup Booted
    BY <2>1 DEF Armed, Booted
  <2>3. QED
    BY <1>1, <2>1, <2>2 DEF Calm
<1>8. CASE Passivate(i)
  <2>1. /\ Only(i) /\ members'[i].at = "draining" /\ members'[i].folded = members[i].folded
        /\ members[i].at = "idle" /\ UNCHANGED <<slot, cell, journal, overrun>>
    BY <1>8, PassivateEffect DEF Passivate, tables
  <2>2. QED
    BY <1>1, <2>1 DEF Calm, Armed, Booted
<1>9. CASE Exit(i)
  <2>1. /\ Members' = Members
        /\ \A k \in Members :
              /\ Same(k, members'[k])
              /\ members'[k].at = IF k = i THEN "leaving" ELSE members[k].at
        /\ UNCHANGED <<slot, cell, journal>>
        /\ overrun => overrun'
    BY <1>9, ExitEffect DEF Exit, tables
  <2>2. \A k \in Members : Calm(k, members'[k])
    BY <2>1 DEF Calm, Same, Armed, Booted
  <2>3. QED
    BY <2>1, <2>2, CalmStep
<1>10. CASE Leave(i)
  <2>1. /\ Only(i) /\ members'[i].at = "ended" /\ members[i].at = "leaving"
        /\ overrun' = (overrun \/ Overruns(i)) /\ i \in Nat
    BY <1>10, LeaveEffect, MemberIs DEF Leave, KindInv
  <2>2. QED
    BY <2>1, CurrentRemoved DEF Only
<1>11. QED
  BY <1>2, <1>3, <1>4, <1>5, <1>6, <1>7, <1>8, <1>9, <1>10 DEF Loop

LEMMA CurrentHost ==
  ASSUME KindInv, CurrentKey, BeginStop \/ Stop \/ Barrier
  PROVE  CurrentKey'
<1>1. ASSUME UNCHANGED <<slot, cell, members, journal, overrun>>
      PROVE  CurrentKey'
  <2>1. Members' = Members /\ \A k \in Members : Calm(k, members'[k])
    BY <1>1 DEF Members, Calm
  <2>2. QED
    BY <1>1, <2>1, CalmStep
<1>2. CASE BeginStop \/ Join \/ Barrier
  BY <1>1, <1>2 DEF BeginStop, Join, Barrier, tables
<1>3. CASE Signal
  <2>1. /\ Members' = Members
        /\ \A k \in Members : Same(k, members'[k]) /\ members'[k].at = members[k].at
        /\ UNCHANGED <<slot, cell, journal, overrun>>
    BY <1>3, SignalEffect DEF Signal, tables
  <2>2. \A k \in Members : Calm(k, members'[k])
    BY <2>1 DEF Calm, Same
  <2>3. QED
    BY <2>1, <2>2, CalmStep
<1>4. CASE StopFlushes
  <2>1. /\ Members' = Members
        /\ \A k \in Members : Same(k, members'[k]) /\ members'[k].at = members[k].at
        /\ UNCHANGED <<slot, cell, journal>>
        /\ overrun => overrun'
    BY <1>4, StopFlushesEffect DEF StopFlushes, tables
  <2>2. \A k \in Members : Calm(k, members'[k])
    BY <2>1 DEF Calm, Same
  <2>3. QED
    BY <2>1, <2>2, CalmStep
<1>5. CASE StopRemoves
  <2>1. Members' = Members /\ members' = members /\ overrun' = (overrun \/ Overruns(0))
    BY <1>5 DEF StopRemoves, Members
  <2>2. 0 \notin Members
    BY MemberIs DEF KindInv
  <2>3. QED
    BY <2>1, <2>2, CurrentRemoved
<1>6. QED
  BY <1>2, <1>3, <1>4, <1>5 DEF Stop

LEMMA CurrentStep == KindInv /\ CurrentKey /\ [Next]_vars => CurrentKey'
<1> SUFFICES ASSUME KindInv, CurrentKey, [Next]_vars
             PROVE  CurrentKey'
  OBVIOUS
<1>1. CASE UNCHANGED vars
  BY <1>1 DEF vars, tables, CurrentKey, AloneInv, CurrentInv, Members
<1>2. CASE Next
  BY <1>2, CurrentSenders, CurrentMembers, CurrentHost DEF Next
<1>3. QED
  BY <1>1, <1>2

(* Two senders may race to spawn, a member may passivate with mail on its  *)
(* way and the host may stop the path at any point: as long as no teardown *)
(* takes the tables from a member at work, whoever decides a message has   *)
(* folded all that the key has recorded, through whichever member.         *)
THEOREM DecidesOnTheWholeJournal == Spec => []DecidesOnCurrent
<1>1. CurrentKey => DecidesOnCurrent
  BY DEF CurrentKey, CurrentInv, DecidesOnCurrent, InStep, Booted
<1>2. QED
  BY KindInit, CurrentInit, KindStep, CurrentStep, <1>1, PTL DEF Spec

----------------------------------------------------------------------------
(* Where the messages are.                                                 *)

MailInv == SpotInv /\ OnceInv

LEMMA AtIs ==
  ASSUME NEW i
  PROVE  /\ At(i, "journal") = Range(journal)
         /\ At(i, "dead") = {m \in Message : dead[m] > 0}
         /\ At(i, "hand") = Range(members[i].hand)
         /\ At(i, "inbox") = Range(members[i].inbox)
         /\ At(i, "chan") = Range(members[i].chan)
         /\ At(i, "journal")' = Range(journal')
         /\ At(i, "dead")' = {m \in Message : dead'[m] > 0}
         /\ At(i, "hand")' = Range(members'[i].hand)
         /\ At(i, "inbox")' = Range(members'[i].inbox)
         /\ At(i, "chan")' = Range(members'[i].chan)
BY DEF At

LEMMA SpotIs ==
  ASSUME KindInv
  PROVE  /\ <<0, "journal">> \in Spot /\ <<0, "dead">> \in Spot
         /\ \A i \in Members : /\ <<i, "hand">> \in Spot /\ <<i, "inbox">> \in Spot
                               /\ <<i, "chan">> \in Spot
         /\ \A spot \in Spot :
              \/ spot = <<0, "journal">> \/ spot = <<0, "dead">>
              \/ \E i \in Members : spot \in {<<i, "hand">>, <<i, "inbox">>, <<i, "chan">>}
         /\ 0 \notin Members
         /\ \A spot \in Spot : At(spot[1], spot[2]) \subseteq Message
<1>1. /\ <<0, "journal">> \in Spot /\ <<0, "dead">> \in Spot
      /\ \A i \in Members : /\ <<i, "hand">> \in Spot /\ <<i, "inbox">> \in Spot
                            /\ <<i, "chan">> \in Spot
  BY DEF Spot
<1>2. \A spot \in Spot :
         \/ spot = <<0, "journal">> \/ spot = <<0, "dead">>
         \/ \E i \in Members : spot \in {<<i, "hand">>, <<i, "inbox">>, <<i, "chan">>}
  BY DEF Spot
<1>3. 0 \notin Members
  BY MemberIs DEF KindInv
<1>4. ASSUME NEW spot \in Spot
      PROVE  At(spot[1], spot[2]) \subseteq Message
  <2>1. \A q \in Seq(Message) : Range(q) \subseteq Message
    BY SeqIsFunction DEF Range
  <2>2. CASE spot = <<0, "journal">> \/ spot = <<0, "dead">>
    BY <2>1, <2>2, AtIs DEF KindInv, TypeOK
  <2>3. ASSUME NEW i \in Members, spot \in {<<i, "hand">>, <<i, "inbox">>, <<i, "chan">>}
        PROVE  At(spot[1], spot[2]) \subseteq Message
    <3>1. members[i] \in MemberType
      BY MemberIs DEF KindInv
    <3>2. /\ members[i].hand \in Seq(Message) /\ members[i].inbox \in Seq(Message)
          /\ members[i].chan \in Seq(Message)
      BY <3>1 DEF MemberType
    <3>3. QED
      BY <2>1, <2>3, <3>2, AtIs
  <2>4. QED
    BY <1>2, <2>2, <2>3
<1>5. QED
  BY <1>1, <1>2, <1>3, <1>4

(* What is at one spot is at no other, what was not sent is nowhere.       *)
LEMMA OneSpot ==
  ASSUME SpotInv, NEW m \in Message, NEW a \in Spot
  PROVE  /\ m \notin Sent => m \notin At(a[1], a[2])
         /\ m \in At(a[1], a[2]) =>
              m \in Sent /\ \A b \in Spot \ {a} : m \notin At(b[1], b[2])
BY DEF SpotInv, Where

(* Every spot but two is as it was.                                        *)
Still(a, b) == \A spot \in Spot \ {a, b} : At(spot[1], spot[2])' = At(spot[1], spot[2])

LEMMA StillIs ==
  ASSUME KindInv, Members' = Members, NEW a, NEW b,
         \A k \in Members :
           /\ <<k, "hand">> \notin {a, b} => members'[k].hand = members[k].hand
           /\ <<k, "inbox">> \notin {a, b} => members'[k].inbox = members[k].inbox
           /\ <<k, "chan">> \notin {a, b} => members'[k].chan = members[k].chan,
         <<0, "journal">> \notin {a, b} => journal' = journal,
         <<0, "dead">> \notin {a, b} => dead' = dead
  PROVE  Still(a, b)
<1> SUFFICES ASSUME NEW spot \in Spot \ {a, b}
             PROVE  At(spot[1], spot[2])' = At(spot[1], spot[2])
  BY DEF Still
<1>1. CASE spot = <<0, "journal">>
  <2>1. spot[1] = 0 /\ spot[2] = "journal"
    BY <1>1
  <2>2. journal' = journal
    BY <1>1
  <2>3. QED
    BY <2>1, <2>2 DEF At
<1>2. CASE spot = <<0, "dead">>
  <2>1. spot[1] = 0 /\ spot[2] = "dead"
    BY <1>2
  <2>2. dead' = dead
    BY <1>2
  <2>3. QED
    BY <2>1, <2>2 DEF At
<1>3. ASSUME NEW i \in Members, spot = <<i, "hand">>
      PROVE  At(spot[1], spot[2])' = At(spot[1], spot[2])
  BY <1>3 DEF At
<1>4. ASSUME NEW i \in Members, spot = <<i, "inbox">>
      PROVE  At(spot[1], spot[2])' = At(spot[1], spot[2])
  BY <1>4 DEF At
<1>5. ASSUME NEW i \in Members, spot = <<i, "chan">>
      PROVE  At(spot[1], spot[2])' = At(spot[1], spot[2])
  BY <1>5 DEF At
<1>6. QED
  BY SpotIs, <1>1, <1>2, <1>3, <1>4, <1>5

(* Nothing moves; the spots of a new member are empty.                     *)
LEMMA SpotsSame ==
  ASSUME KindInv, SpotInv, Members \subseteq Members', Sent' = Sent,
         \A spot \in Spot : At(spot[1], spot[2])' = At(spot[1], spot[2]),
         \A spot \in Spot' \ Spot : At(spot[1], spot[2])' = {}
  PROVE  SpotInv'
<1> SUFFICES ASSUME NEW m \in Message
             PROVE  SpotInv!(m)'
  BY DEF SpotInv
<1>1. Spot \subseteq Spot'
  BY DEF Spot
<1>2. Where(m)' = Where(m)
  BY <1>1 DEF Where
<1>3. QED
  BY <1>1, <1>2 DEF SpotInv

(* Some messages move from one spot to another.                            *)
LEMMA SpotsMove ==
  ASSUME KindInv, SpotInv, Members' = Members, Sent' = Sent,
         NEW a \in Spot, NEW b \in Spot, a # b, Still(a, b),
         NEW x, x \subseteq At(a[1], a[2]),
         At(a[1], a[2])' = At(a[1], a[2]) \ x,
         At(b[1], b[2])' = At(b[1], b[2]) \cup x
  PROVE  SpotInv'
<1> SUFFICES ASSUME NEW m \in Message
             PROVE  SpotInv!(m)'
  BY DEF SpotInv
<1>1. Spot' = Spot
  BY DEF Spot
<1>2. CASE m \in x
  <2>1. m \in Sent /\ \A spot \in Spot \ {a} : m \notin At(spot[1], spot[2])
    BY <1>2, OneSpot
  <2>2. Where(m)' = {b}
    BY <1>1, <1>2, <2>1 DEF Where, Still
  <2>3. QED
    BY <1>1, <2>1, <2>2
<1>3. CASE m \notin x
  <2>1. Where(m)' = Where(m)
    BY <1>1, <1>3 DEF Where, Still
  <2>2. QED
    BY <1>1, <2>1 DEF SpotInv
<1>4. QED
  BY <1>2, <1>3

(* A new message comes.                                                    *)
LEMMA SpotsEnter ==
  ASSUME KindInv, SpotInv, Members' = Members,
         NEW e \in Message, e \notin Sent, Sent' = Sent \cup {e},
         NEW b \in Spot, Still(b, b),
         At(b[1], b[2])' = At(b[1], b[2]) \cup {e}
  PROVE  SpotInv'
<1> SUFFICES ASSUME NEW m \in Message
             PROVE  SpotInv!(m)'
  BY DEF SpotInv
<1>1. Spot' = Spot
  BY DEF Spot
<1>2. CASE m = e
  <2>1. \A spot \in Spot : m \notin At(spot[1], spot[2])
    BY <1>2, OneSpot
  <2>2. Where(m)' = {b}
    BY <1>1, <1>2, <2>1 DEF Where, Still
  <2>3. QED
    BY <1>1, <1>2, <2>2
<1>3. CASE m # e
  <2>1. Where(m)' = Where(m)
    BY <1>1, <1>3 DEF Where, Still
  <2>2. QED
    BY <1>1, <1>3, <2>1 DEF SpotInv
<1>4. QED
  BY <1>2, <1>3

(* What has been sent grows by what a sender tells, which is new.          *)
Said(t) == {Program[t][k] : k \in 1 .. sender[t].idx - 1}

LEMMA TellSent ==
  ASSUME KindInv, NEW s \in Senders, Telling(s),
         sender'[s].idx = sender[s].idx + 1,
         \A t \in Senders \ {s} : sender'[t] = sender[t]
  PROVE  /\ Told(s) \in Message /\ Told(s) \notin Sent
         /\ Sent' = Sent \cup {Told(s)}
<1>1. /\ Sent = UNION {Said(t) : t \in Senders}
      /\ Sent' = UNION {Said(t)' : t \in Senders}
  BY DEF Sent, Said
<1>2. PICK n \in Nat : n = sender[s].idx /\ n >= 1
  BY DEF KindInv, TypeOK, SenderInv
<1>3. Told(s) = Program[s][n] /\ n \in DOMAIN Program[s] /\ Told(s) \in Message
  BY <1>2, ToldIs DEF Told
<1>4. Said(s)' = Said(s) \cup {Told(s)}
  <2>1. 1 .. sender'[s].idx - 1 = (1 .. n - 1) \cup {n}
    BY <1>2
  <2>2. QED
    BY <1>2, <1>3, <2>1 DEF Said
<1>5. \A t \in Senders \ {s} : Said(t)' = Said(t)
  BY DEF Said
<1>6. Told(s) \notin Said(s)
  <2>1. \A k \in 1 .. n - 1 : k \in DOMAIN Program[s] /\ k # n
    BY <1>2, <1>3, PartitionSetAssumption, SeqIsFunction
  <2>2. IsInjective(Program[s])
    BY PartitionSetAssumption
  <2>3. QED
    BY <1>2, <1>3, <2>1, <2>2 DEF Said, IsInjective
<1>7. ASSUME NEW t \in Senders \ {s}
      PROVE  Told(s) \notin Said(t)
  <2>1. PICK k \in Nat : k = sender[t].idx /\ k >= 1 /\ k <= Len(Program[t]) + 1
    BY DEF KindInv, TypeOK, SenderInv
  <2>2. 1 .. k - 1 \subseteq DOMAIN Program[t]
    BY <2>1, PartitionSetAssumption, SeqIsFunction
  <2>3. Said(t) \subseteq Range(Program[t])
    BY <2>1, <2>2 DEF Said, Range
  <2>4. Told(s) \in Range(Program[s])
    BY <1>3 DEF Range
  <2>5. Range(Program[s]) \cap Range(Program[t]) = {}
    BY PartitionSetAssumption
  <2>6. QED
    BY <2>3, <2>4, <2>5
<1>8. Sent' = Sent \cup {Told(s)}
  BY <1>1, <1>4, <1>5
<1>9. Told(s) \notin Sent
  BY <1>1, <1>6, <1>7
<1>10. QED
  BY <1>3, <1>8, <1>9

LEMMA SentSame ==
  ASSUME \A t \in Senders : sender'[t].idx = sender[t].idx
  PROVE  Sent' = Sent
BY DEF Sent

(* Dead letters: what was at a spot and what is new.                       *)
LEMMA DeadMoves ==
  ASSUME KindInv, MailInv, Members' = Members, Sent' = Sent,
         NEW a \in Spot, a # <<0, "dead">>,
         NEW q \in Seq(Message), Range(q) \subseteq At(a[1], a[2]),
         At(a[1], a[2])' = At(a[1], a[2]) \ Range(q),
         dead' = Letters(q), Still(a, <<0, "dead">>)
  PROVE  SpotInv' /\ \A m \in Message : dead'[m] <= 1
<1>1. /\ dead \in [Message -> Nat] /\ TypeOK
      /\ \A m \in Message : dead[m] <= 1
  BY DEF KindInv, TypeOK, MailInv, OnceInv
<1>2. \A m \in Message : dead'[m] = dead[m] + (IF m \in Range(q) THEN 1 ELSE 0)
  BY <1>1, LettersEffect
<1>3. PICK b \in Spot : b = <<0, "dead">>
  BY SpotIs
<1>4. b[1] = 0 /\ b[2] = "dead"
  BY <1>3
<1>5. Range(q) \subseteq Message
  BY SpotIs
<1>6. At(b[1], b[2])' = At(b[1], b[2]) \cup Range(q)
  BY <1>1, <1>2, <1>4, <1>5, AtIs
<1>7. SpotInv'
  BY <1>3, <1>6, SpotsMove DEF MailInv
<1>8. ASSUME NEW m \in Range(q)
      PROVE  dead[m] = 0
  <2>1. m \in Message /\ m \notin At(b[1], b[2])
    BY <1>3, <1>5, OneSpot DEF MailInv
  <2>2. QED
    BY <1>1, <1>4, <2>1, AtIs
<1>9. \A m \in Message : dead'[m] <= 1
  BY <1>1, <1>2, <1>8
<1>10. QED
  BY <1>7, <1>9

LEMMA DeadEnters ==
  ASSUME KindInv, MailInv, Members' = Members,
         NEW e \in Message, e \notin Sent, Sent' = Sent \cup {e},
         dead' = Letters(<<e>>), Still(<<0, "dead">>, <<0, "dead">>)
  PROVE  SpotInv' /\ \A m \in Message : dead'[m] <= 1
<1>1. /\ dead \in [Message -> Nat] /\ TypeOK
      /\ \A m \in Message : dead[m] <= 1
  BY DEF KindInv, TypeOK, MailInv, OnceInv
<1>2. \A m \in Message : dead'[m] = dead[m] + (IF m = e THEN 1 ELSE 0)
  BY <1>1, LettersEffect, RangeSmall
<1>3. PICK b \in Spot : b = <<0, "dead">>
  BY SpotIs
<1>4. b[1] = 0 /\ b[2] = "dead"
  BY <1>3
<1>5. At(b[1], b[2])' = At(b[1], b[2]) \cup {e}
  BY <1>1, <1>2, <1>4, AtIs
<1>6. SpotInv'
  BY <1>3, <1>5, SpotsEnter DEF MailInv
<1>7. dead[e] = 0
  <2>1. e \notin At(b[1], b[2])
    BY <1>3, OneSpot DEF MailInv
  <2>2. QED
    BY <1>1, <1>4, <2>1, AtIs
<1>8. \A m \in Message : dead'[m] <= 1
  BY <1>1, <1>2, <1>7
<1>9. QED
  BY <1>6, <1>8

(* Nobody's mail is touched.                                               *)
LEMMA MailRests ==
  ASSUME KindInv, MailInv, Sent' = Sent, Members' = Members,
         UNCHANGED <<journal, dead>>,
         \A k \in Members : /\ members'[k].hand = members[k].hand
                            /\ members'[k].inbox = members[k].inbox
                            /\ members'[k].chan = members[k].chan
  PROVE  MailInv'
<1>1. Still(<<0, "hand">>, <<0, "hand">>)
  BY StillIs
<1>2. <<0, "hand">> \notin Spot
  BY SpotIs DEF Spot
<1>3. \A spot \in Spot : At(spot[1], spot[2])' = At(spot[1], spot[2])
  BY <1>1, <1>2 DEF Still
<1>4. Spot' = Spot
  BY DEF Spot
<1>5. SpotInv'
  BY <1>3, <1>4, SpotsSame DEF MailInv
<1>6. OnceInv'
  BY DEF MailInv, OnceInv
<1>7. QED
  BY <1>5, <1>6 DEF MailInv

LEMMA MailInit == Init => MailInv
<1> SUFFICES ASSUME Init
             PROVE  MailInv
  OBVIOUS
<1>1. Members = {}
  BY EmptySeq DEF Init, Members
<1>2. Sent = {}
  BY DEF Init, Sent
<1>3. \A m \in Message : Where(m) = {}
  <2> SUFFICES ASSUME NEW m \in Message, NEW spot \in Spot, m \in At(spot[1], spot[2])
               PROVE  FALSE
    BY DEF Where
  <2>1. spot \in {<<0, "journal">>, <<0, "dead">>}
    BY <1>1 DEF Spot
  <2>2. Range(journal) = {}
    BY RangeSmall DEF Init
  <2>3. \A n \in Message : ~(dead[n] > 0)
    BY DEF Init
  <2>4. At(0, "journal") = {} /\ At(0, "dead") = {}
    BY <2>2, <2>3, AtIs
  <2>5. QED
    BY <2>1, <2>4
<1>4. OnceInv
  <2>1. IsInjective(journal)
    BY RangeSmall DEF Init
  <2>2. \A m \in Message : dead[m] <= 1
    BY DEF Init
  <2>3. QED
    BY <1>1, <2>1, <2>2 DEF OnceInv
<1>5. QED
  BY <1>2, <1>3, <1>4 DEF MailInv, SpotInv

(* A sender's message comes into an inbox, a channel or the dead letters   *)
(* when it lets go of it.                                                  *)
LEMMA MailSenders ==
  ASSUME KindInv, MailInv, NEW s \in Senders, Look(s) \/ Route(s)
  PROVE  MailInv'
<1>1. /\ sender[s].at # "send" => Telling(s)
      /\ sender[s].at \in {"arm", "start", "push"} => sender[s].target \in Members
      /\ TypeOK
  BY DEF KindInv, SenderInv
<1>2. ASSUME UNCHANGED <<members, journal>>, DeadLetter(s), Telling(s)
      PROVE  MailInv'
  <2>1. Members' = Members /\ Done(s) /\ dead' = Letters(<<Told(s)>>)
    BY <1>2 DEF Members, DeadLetter
  <2>2. /\ sender'[s].idx = sender[s].idx + 1
        /\ \A t \in Senders \ {s} : sender'[t] = sender[t]
    BY <2>1, DoneEffect
  <2>3. PICK e \in Message : e = Told(s) /\ e \notin Sent /\ Sent' = Sent \cup {e}
    BY <1>2, <2>2, TellSent
  <2>4. Still(<<0, "dead">>, <<0, "dead">>)
    BY <1>2, <2>1, StillIs
  <2>5. SpotInv' /\ \A m \in Message : dead'[m] <= 1
    BY <2>1, <2>3, <2>4, DeadEnters
  <2>6. QED
    BY <1>2, <2>1, <2>5 DEF MailInv, OnceInv
<1>3. ASSUME UNCHANGED <<members, journal, dead>>, NEW target \in {0} \cup Members,
             NEW at \in {"activate", "resolve", "push", "panicked"},
             Goes(s, at, target)
      PROVE  MailInv'
  <2>1. Members' = Members
    BY <1>3 DEF Members
  <2>2. /\ sender'[s].idx = sender[s].idx
        /\ \A t \in Senders \ {s} : sender'[t] = sender[t]
    <3>1. target \in {0} \cup Members' /\ Members \subseteq Members'
      BY <1>3, <2>1
    <3>2. at \in {"activate", "arm", "start", "resolve", "push", "panicked"}
      BY <1>3
    <3>3. Goes(s, at, target)
      BY <1>3
    <3>4. QED
      BY <3>1, <3>2, <3>3, GoesEffect
  <2>3. Sent' = Sent
    BY <2>2, SentSame
  <2>4. QED
    BY <1>3, <2>1, <2>3, MailRests
<1>4. CASE Look(s)
  <2>1. CASE barrier
    BY <1>2, <1>4, <2>1 DEF Look
  <2>2. CASE ~barrier
    <3>1. PICK at \in {"activate", "resolve"} : at = IF slot # 0 THEN "resolve" ELSE "activate"
      OBVIOUS
    <3>2. Goes(s, at, 0)
      BY <1>4, <2>2, <3>1 DEF Look
    <3>3. QED
      BY <1>3, <1>4, <2>2, <3>1, <3>2 DEF Look
  <2>3. QED
    BY <2>1, <2>2
<1>5. CASE Activate(s)
  <2>1. CASE barrier
    <3>1. Telling(s)
      BY <1>1, <1>5 DEF Activate
    <3>2. QED
      BY <1>2, <1>5, <2>1, <3>1 DEF Activate
  <2>2. CASE ~barrier /\ slot # 0
    <3>1. Goes(s, "panicked", 0)
      BY <1>5, <2>2 DEF Activate
    <3>2. QED
      BY <1>3, <1>5, <2>2, <3>1 DEF Activate
  <2>3. CASE ~barrier /\ slot = 0
    <3>1. Spawns(s)
      BY <1>5, <2>3 DEF Spawns
    <3>2. PICK n \in Nat \ {0} :
           /\ n \notin Members /\ Members' = Members \cup {n}
           /\ \A k \in Members : members'[k] = members[k]
           /\ members'[n] = Member
           /\ Goes(s, "arm", n)
      BY <3>1, SpawnEffect
    <3>3. /\ sender'[s].idx = sender[s].idx
          /\ \A t \in Senders \ {s} : sender'[t] = sender[t]
      BY <3>2, GoesEffect
    <3>4. UNCHANGED <<journal, dead>>
      BY <1>5, <2>3 DEF Activate
    <3>5. /\ members'[n].hand = <<>> /\ members'[n].inbox = <<>> /\ members'[n].chan = <<>>
      BY <3>2 DEF Member, None
    <3>6. Spot' \ Spot \subseteq {<<n, "hand">>, <<n, "inbox">>, <<n, "chan">>}
      BY <3>2 DEF Spot
    <3>7. \A spot \in Spot' \ Spot : At(spot[1], spot[2])' = {}
      <4>1. At(n, "hand")' = {} /\ At(n, "inbox")' = {} /\ At(n, "chan")' = {}
        BY <3>5, AtIs, RangeSmall
      <4>2. SUFFICES ASSUME NEW spot \in Spot' \ Spot
                     PROVE  At(spot[1], spot[2])' = {}
        OBVIOUS
      <4>3. CASE spot = <<n, "hand">>
        <5>1. spot[1] = n /\ spot[2] = "hand"
          BY <4>3
        <5>2. QED
          BY <3>5, <5>1, RangeSmall DEF At
      <4>4. CASE spot = <<n, "inbox">>
        <5>1. spot[1] = n /\ spot[2] = "inbox"
          BY <4>4
        <5>2. QED
          BY <3>5, <5>1, RangeSmall DEF At
      <4>5. CASE spot = <<n, "chan">>
        <5>1. spot[1] = n /\ spot[2] = "chan"
          BY <4>5
        <5>2. QED
          BY <3>5, <5>1, RangeSmall DEF At
      <4>6. QED
        BY <3>6, <4>2, <4>3, <4>4, <4>5
    <3>8. ASSUME NEW spot \in Spot
          PROVE  At(spot[1], spot[2])' = At(spot[1], spot[2])
      <4>1. CASE spot = <<0, "journal">> \/ spot = <<0, "dead">>
        BY <3>4, <4>1 DEF At
      <4>2. ASSUME NEW i \in Members, spot \in {<<i, "hand">>, <<i, "inbox">>, <<i, "chan">>}
            PROVE  At(spot[1], spot[2])' = At(spot[1], spot[2])
        BY <3>2, <4>2, AtIs
      <4>3. QED
        BY <4>1, <4>2, SpotIs
    <3>9. SpotInv'
      BY <3>2, <3>3, <3>7, <3>8, SentSame, SpotsSame DEF MailInv
    <3>10. OnceInv'
      BY <3>2, <3>4, <3>5, RangeSmall DEF MailInv, OnceInv
    <3>11. QED
      BY <3>9, <3>10 DEF MailInv
  <2>4. QED
    BY <2>1, <2>2, <2>3
<1>6. CASE Arm(s)
  <2>1. PICK i \in Members : i = sender[s].target
    BY <1>1, <1>6 DEF Arm
  <2>2. /\ Only(i) /\ members'[i].hand = members[i].hand
        /\ members'[i].inbox = members[i].inbox /\ members'[i].chan = members[i].chan
    BY <1>6, <2>1, ArmEffect
  <2>3. Goes(s, "start", i) /\ UNCHANGED <<journal, dead>>
    BY <1>6, <2>1 DEF Arm
  <2>4. /\ sender'[s].idx = sender[s].idx
        /\ \A t \in Senders \ {s} : sender'[t] = sender[t]
    BY <2>2, <2>3, GoesEffect DEF Only
  <2>5. QED
    BY <2>2, <2>3, <2>4, SentSame, MailRests DEF Only
<1>7. CASE Start(s)
  <2>1. PICK i \in Members : i = sender[s].target
    BY <1>1, <1>7 DEF Start
  <2>2. /\ Members' = Members
        /\ \A k \in Members : Same(k, members'[k]) /\ members'[k].inbox = members[k].inbox
    BY <1>7, <2>1, StartEffect
  <2>3. Goes(s, "resolve", 0) /\ UNCHANGED <<journal, dead>>
    BY <1>7 DEF Start
  <2>4. /\ sender'[s].idx = sender[s].idx
        /\ \A t \in Senders \ {s} : sender'[t] = sender[t]
    BY <2>2, <2>3, GoesEffect
  <2>5. QED
    BY <2>2, <2>3, <2>4, SentSame, MailRests DEF Same
<1>8. CASE Resolve(s)
  <2>1. Telling(s)
    BY <1>1, <1>8 DEF Resolve
  <2>2. CASE slot = 0
    BY <1>2, <1>8, <2>1, <2>2 DEF Resolve
  <2>3. CASE slot # 0
    <3>1. PICK i \in Members : i = slot
      BY <1>1, <2>3 DEF TypeOK
    <3>2. Goes(s, "push", i)
      BY <1>8, <2>3, <3>1 DEF Resolve
    <3>3. QED
      BY <1>3, <1>8, <2>1, <2>3, <3>1, <3>2 DEF Resolve
  <2>4. QED
    BY <2>2, <2>3
<1>9. CASE Push(s)
  <2>1. PICK i \in Members : i = sender[s].target
    BY <1>1, <1>9 DEF Push
  <2>2. Done(s) /\ Telling(s) /\ UNCHANGED <<journal, dead>>
    BY <1>1, <1>9 DEF Push
  <2>3. Members' = Members
    BY <1>9, <2>1, PushOpenEffect, PushClosedEffect DEF Only
  <2>4. /\ sender'[s].idx = sender[s].idx + 1
        /\ \A t \in Senders \ {s} : sender'[t] = sender[t]
    BY <2>2, <2>3, DoneEffect
  <2>5. PICK e \in Message : e = Told(s) /\ e \notin Sent /\ Sent' = Sent \cup {e}
    BY <2>2, <2>4, TellSent
  <2>6. members[i] \in MemberType
    BY <1>1, MemberIs
  <2>7. CASE members[i].open
    <3>1. PICK q \in Seq(Message) : q = members[i].inbox
      BY <2>6 DEF MemberType
    <3>2. PICK b \in Spot : b = <<i, "inbox">>
      BY SpotIs
    <3>3. /\ Only(i) /\ members'[i].inbox = Append(q, e)
          /\ members'[i].hand = members[i].hand /\ members'[i].chan = members[i].chan
      BY <1>9, <2>1, <2>5, <2>7, <3>1, PushOpenEffect
    <3>4. Still(b, b)
      BY <2>2, <3>2, <3>3, StillIs DEF Only
    <3>5. At(b[1], b[2]) = Range(q) /\ At(b[1], b[2])' = Range(Append(q, e))
      BY <3>1, <3>2, <3>3, AtIs
    <3>6. e \notin Range(q)
      BY <2>5, <3>5, OneSpot DEF MailInv
    <3>7. IsInjective(q)
      BY <3>1 DEF MailInv, OnceInv
    <3>8. IsInjective(Append(q, e)) /\ Range(Append(q, e)) = Range(q) \cup {e}
      BY <3>6, <3>7, RangeAppend
    <3>9. SpotInv'
      BY <2>3, <2>5, <3>4, <3>5, <3>8, SpotsEnter DEF MailInv
    <3>10. OnceInv'
      BY <2>2, <3>3, <3>8 DEF MailInv, OnceInv, Only
    <3>11. QED
      BY <3>9, <3>10 DEF MailInv
  <2>8. CASE ~members[i].open
    <3>1. PICK q \in Seq(Message) : q = members[i].chan
      BY <2>6 DEF MemberType
    <3>2. PICK b \in Spot : b = <<i, "chan">>
      BY SpotIs
    <3>3. /\ Only(i) /\ members'[i].chan = Append(q, e)
          /\ members'[i].hand = members[i].hand /\ members'[i].inbox = members[i].inbox
      BY <1>9, <2>1, <2>5, <2>8, <3>1, PushClosedEffect
    <3>4. Still(b, b)
      BY <2>2, <3>2, <3>3, StillIs DEF Only
    <3>5. At(b[1], b[2]) = Range(q) /\ At(b[1], b[2])' = Range(Append(q, e))
      BY <3>1, <3>2, <3>3, AtIs
    <3>6. e \notin Range(q)
      BY <2>5, <3>5, OneSpot DEF MailInv
    <3>7. IsInjective(q)
      BY <3>1 DEF MailInv, OnceInv
    <3>8. IsInjective(Append(q, e)) /\ Range(Append(q, e)) = Range(q) \cup {e}
      BY <3>6, <3>7, RangeAppend
    <3>9. SpotInv'
      BY <2>3, <2>5, <3>4, <3>5, <3>8, SpotsEnter DEF MailInv
    <3>10. OnceInv'
      BY <2>2, <3>3, <3>8 DEF MailInv, OnceInv, Only
    <3>11. QED
      BY <3>9, <3>10 DEF MailInv
  <2>9. QED
    BY <2>7, <2>8
<1>10. QED
  BY <1>4, <1>5, <1>6, <1>7, <1>8, <1>9 DEF Route

(* The path's cell is flushed: what was queued there is dead letters.      *)
LEMMA MailFlushed ==
  ASSUME KindInv, MailInv, Sent' = Sent, Members' = Members, journal' = journal,
         dead' = Letters(Undelivered),
         \A k \in Members : /\ Same(k, members'[k])
                            /\ members'[k].inbox = IF k = cell THEN None ELSE members[k].inbox
  PROVE  MailInv'
<1>1. CASE cell = 0
  <2>1. Undelivered = <<>> /\ 0 \notin Members /\ TypeOK
    BY <1>1, SpotIs DEF Undelivered, None, KindInv
  <2>2. Range(<<>>) = {}
    BY RangeSmall
  <2>3. /\ dead' \in [Message -> Nat] /\ dead \in [Message -> Nat]
        /\ \A m \in Message : dead'[m] = dead[m] + 0
    BY <2>1, <2>2, LettersEffect DEF TypeOK
  <2>4. \A m \in Message : dead'[m] = dead[m]
    BY <2>3
  <2>5. dead' = dead
    BY <2>3, <2>4
  <2>6. QED
    BY <1>1, <2>1, <2>5, MailRests DEF Same
<1>2. CASE cell # 0
  <2>1. PICK i \in Members : i = cell
    BY <1>2 DEF KindInv, TypeOK
  <2>2. PICK q \in Seq(Message) : q = members[i].inbox
    BY MemberIs DEF KindInv, MemberType
  <2>3. Undelivered = q
    BY <1>2, <2>1, <2>2 DEF Undelivered
  <2>4. PICK a \in Spot : a = <<i, "inbox">>
    BY SpotIs
  <2>5. members'[i].inbox = <<>>
    BY <2>1 DEF None
  <2>6. At(a[1], a[2]) = Range(q) /\ At(a[1], a[2])' = {}
    BY <2>2, <2>4, <2>5, AtIs, RangeSmall
  <2>7. Still(a, <<0, "dead">>)
    BY <2>1, <2>4, StillIs DEF Same
  <2>8. SpotInv' /\ \A m \in Message : dead'[m] <= 1
    BY <2>3, <2>4, <2>6, <2>7, DeadMoves
  <2>9. \A k \in Members : IsInjective(members'[k].inbox)
    <3>1. ASSUME NEW k \in Members, k # i
          PROVE  IsInjective(members'[k].inbox)
      BY <2>1, <3>1 DEF MailInv, OnceInv
    <3>2. QED
      BY <2>5, <3>1, RangeSmall
  <2>10. OnceInv'
    BY <2>8, <2>9 DEF MailInv, OnceInv, Same
  <2>11. QED
    BY <2>8, <2>10 DEF MailInv
<1>3. QED
  BY <1>1, <1>2

(* A door moves mail on to the inbox or the dead letters, a loop from its  *)
(* inbox to its hand and on to the journal, back or to the dead letters.   *)
LEMMA MailDoor ==
  ASSUME KindInv, MailInv, NEW i \in Members, Door(i)
  PROVE  MailInv'
<1>1. members[i] \in MemberType
  BY MemberIs DEF KindInv
<1>2. PICK c \in Seq(Message) : c = members[i].chan /\ c # <<>>
  BY <1>1 DEF MemberType, Door, None
<1>3. PICK h \in Message : h = Head(c)
  BY <1>2, RangeHeadTail
<1>4. PICK t \in Seq(Message) : t = Tail(c)
  BY <1>2, RangeHeadTail
<1>5. IsInjective(c)
  BY <1>2 DEF MailInv, OnceInv
<1>6. h \in Range(c) /\ Range(t) = Range(c) \ {h} /\ IsInjective(t)
  BY <1>2, <1>3, <1>4, <1>5, RangeHeadTail
<1>7. PICK a \in Spot : a = <<i, "chan">>
  BY SpotIs
<1>8. UNCHANGED <<journal, sender>> /\ Sent' = Sent
  BY SentSame DEF Door
<1>9. CASE members[i].open
  <2>1. PICK q \in Seq(Message) : q = members[i].inbox
    BY <1>1 DEF MemberType
  <2>2. /\ Only(i) /\ members'[i].chan = t /\ members'[i].inbox = Append(q, h)
        /\ members'[i].hand = members[i].hand
    BY <1>2, <1>3, <1>4, <1>9, <2>1, DoorOpenEffect
  <2>3. dead' = dead
    BY <1>9 DEF Door
  <2>4. PICK b \in Spot : b = <<i, "inbox">>
    BY SpotIs
  <2>5. Still(a, b)
    BY <1>7, <1>8, <2>2, <2>3, <2>4, StillIs DEF Only
  <2>6. At(a[1], a[2]) = Range(c) /\ At(a[1], a[2])' = Range(t)
    BY <1>2, <1>7, <2>2, AtIs
  <2>7. At(b[1], b[2]) = Range(q) /\ At(b[1], b[2])' = Range(Append(q, h))
    BY <2>1, <2>2, <2>4, AtIs
  <2>8. a # b
    BY <1>7, <2>4
  <2>9. h \notin Range(q)
    BY <1>6, <2>6, <2>7, <2>8, OneSpot DEF MailInv
  <2>10. IsInjective(Append(q, h)) /\ Range(Append(q, h)) = Range(q) \cup {h}
    BY <2>1, <2>9, RangeAppend DEF MailInv, OnceInv
  <2>11. SpotInv'
    <3>1. {h} \subseteq At(a[1], a[2]) /\ At(a[1], a[2])' = At(a[1], a[2]) \ {h}
      BY <1>6, <2>6
    <3>2. At(b[1], b[2])' = At(b[1], b[2]) \cup {h}
      BY <2>7, <2>10
    <3>3. Members' = Members
      BY <2>2 DEF Only
    <3>4. QED
      BY <1>8, <2>5, <2>8, <3>1, <3>2, <3>3, SpotsMove DEF MailInv
  <2>12. OnceInv'
    BY <1>6, <1>8, <2>2, <2>3, <2>10 DEF MailInv, OnceInv, Only
  <2>13. QED
    BY <2>11, <2>12 DEF MailInv
<1>10. CASE ~members[i].open
  <2>1. /\ Only(i) /\ members'[i].chan = t /\ members'[i].inbox = members[i].inbox
        /\ members'[i].hand = members[i].hand
    BY <1>2, <1>4, <1>10, DoorClosedEffect
  <2>2. PICK q \in Seq(Message) : q = <<h>>
    BY SmallSeqs
  <2>3. dead' = Letters(q) /\ Range(q) = {h}
    BY <1>2, <1>3, <1>10, <2>2, RangeSmall DEF Door
  <2>4. Still(a, <<0, "dead">>)
    BY <1>7, <1>8, <2>1, StillIs DEF Only
  <2>5. At(a[1], a[2]) = Range(c) /\ At(a[1], a[2])' = Range(t)
    BY <1>2, <1>7, <2>1, AtIs
  <2>6. a # <<0, "dead">> /\ Members' = Members
    BY <1>7, <2>1 DEF Only
  <2>7. SpotInv' /\ \A m \in Message : dead'[m] <= 1
    BY <1>6, <1>8, <2>3, <2>4, <2>5, <2>6, DeadMoves
  <2>8. OnceInv'
    BY <1>6, <1>8, <2>1, <2>7 DEF MailInv, OnceInv, Only
  <2>9. QED
    BY <2>7, <2>8 DEF MailInv
<1>11. QED
  BY <1>9, <1>10

LEMMA MailClaim ==
  ASSUME KindInv, MailInv, NEW i \in Members, Claim(i)
  PROVE  MailInv'
<1>1. members[i] \in MemberType /\ members[i].hand = <<>>
  BY MemberIs DEF KindInv, HandInv, Claim, InStep, None
<1>2. PICK c \in Seq(Message) : c = members[i].inbox /\ c # <<>>
  BY <1>1 DEF MemberType, Claim, None
<1>3. PICK h \in Message : h = Head(c)
  BY <1>2, RangeHeadTail
<1>4. PICK t \in Seq(Message) : t = Tail(c)
  BY <1>2, RangeHeadTail
<1>5. IsInjective(c)
  BY <1>2 DEF MailInv, OnceInv
<1>6. h \in Range(c) /\ Range(t) = Range(c) \ {h} /\ IsInjective(t)
  BY <1>2, <1>3, <1>4, <1>5, RangeHeadTail
<1>7. PICK a \in Spot : a = <<i, "inbox">>
  BY SpotIs
<1>8. PICK b \in Spot : b = <<i, "hand">>
  BY SpotIs
<1>9. UNCHANGED <<journal, sender, dead>> /\ Sent' = Sent
  BY SentSame DEF Claim
<1>10. /\ Only(i) /\ members'[i].inbox = t /\ members'[i].hand = <<h>>
       /\ members'[i].chan = members[i].chan
  BY <1>2, <1>3, <1>4, ClaimEffect
<1>11. Still(a, b) /\ a # b /\ Members' = Members
  BY <1>7, <1>8, <1>9, <1>10, StillIs DEF Only
<1>12. At(a[1], a[2]) = Range(c) /\ At(a[1], a[2])' = Range(t)
  BY <1>2, <1>7, <1>10, AtIs
<1>13. At(b[1], b[2]) = {} /\ At(b[1], b[2])' = {h}
  BY <1>1, <1>8, <1>10, AtIs, RangeSmall
<1>14. SpotInv'
  <2>1. {h} \subseteq At(a[1], a[2]) /\ At(a[1], a[2])' = At(a[1], a[2]) \ {h}
    BY <1>6, <1>12
  <2>2. At(b[1], b[2])' = At(b[1], b[2]) \cup {h}
    BY <1>13
  <2>3. QED
    BY <1>9, <1>11, <2>1, <2>2, SpotsMove DEF MailInv
<1>15. IsInjective(<<h>>)
  BY RangeSmall
<1>16. OnceInv'
  BY <1>6, <1>9, <1>10, <1>15 DEF MailInv, OnceInv, Only
<1>17. QED
  BY <1>14, <1>16 DEF MailInv

LEMMA MailHandle ==
  ASSUME KindInv, MailInv, NEW i \in Members, Handle(i)
  PROVE  MailInv'
<1>1. members[i] \in MemberType /\ journal \in Seq(Message)
  BY MemberIs DEF KindInv, TypeOK
<1>2. PICK c \in Seq(Message) : c = members[i].hand
  BY <1>1 DEF MemberType
<1>3. PICK a \in Spot : a = <<i, "hand">>
  BY SpotIs
<1>4. PICK b \in Spot : b = <<0, "journal">>
  BY SpotIs
<1>5. UNCHANGED <<sender, dead>> /\ journal' = journal \o c /\ Sent' = Sent
  BY <1>2, SentSame DEF Handle
<1>6. /\ Only(i) /\ members'[i].inbox = members[i].inbox /\ members'[i].hand = <<>>
      /\ members'[i].chan = members[i].chan
  BY HandleEffect DEF None
<1>7. Still(a, b) /\ a # b /\ Members' = Members
  BY <1>3, <1>4, <1>5, <1>6, StillIs DEF Only
<1>8. At(a[1], a[2]) = Range(c) /\ At(a[1], a[2])' = {}
  BY <1>2, <1>3, <1>6, AtIs, RangeSmall
<1>9. At(b[1], b[2]) = Range(journal) /\ At(b[1], b[2])' = Range(journal \o c)
  BY <1>4, <1>5, AtIs
<1>10. Range(journal) \cap Range(c) = {}
  <2> SUFFICES ASSUME NEW m \in Range(c), m \in Range(journal)
               PROVE  FALSE
    OBVIOUS
  <2>1. m \in Message
    BY <1>8, SpotIs
  <2>2. m \notin At(b[1], b[2])
    BY <1>7, <1>8, <2>1, OneSpot DEF MailInv
  <2>3. QED
    BY <1>9, <2>2
<1>11. /\ Range(journal \o c) = Range(journal) \cup Range(c)
       /\ IsInjective(journal \o c)
  BY <1>1, <1>2, <1>10, RangeConcat DEF MailInv, OnceInv
<1>12. SpotInv'
  <2>1. Range(c) \subseteq At(a[1], a[2]) /\ At(a[1], a[2])' = At(a[1], a[2]) \ Range(c)
    BY <1>8
  <2>2. At(b[1], b[2])' = At(b[1], b[2]) \cup Range(c)
    BY <1>9, <1>11
  <2>3. QED
    BY <1>5, <1>7, <2>1, <2>2, SpotsMove DEF MailInv
<1>13. IsInjective(members'[i].hand)
  BY <1>6, RangeSmall
<1>14. OnceInv'
  BY <1>5, <1>6, <1>11, <1>13 DEF MailInv, OnceInv, Only
<1>15. QED
  BY <1>12, <1>14 DEF MailInv

LEMMA MailCrash ==
  ASSUME KindInv, MailInv, NEW i \in Members, Crash(i)
  PROVE  MailInv'
<1>1. members[i] \in MemberType
  BY MemberIs DEF KindInv
<1>2. PICK c \in Seq(Message) : c = members[i].hand
  BY <1>1 DEF MemberType
<1>3. PICK q \in Seq(Message) : q = members[i].inbox
  BY <1>1 DEF MemberType
<1>4. PICK a \in Spot : a = <<i, "hand">>
  BY SpotIs
<1>5. UNCHANGED <<sender, journal>> /\ Sent' = Sent
  BY SentSame DEF Crash
<1>6. /\ Only(i) /\ members'[i].hand = <<>>
      /\ members'[i].chan = members[i].chan
  BY CrashEffect DEF None
<1>7. At(a[1], a[2]) = Range(c) /\ At(a[1], a[2])' = {}
  BY <1>2, <1>4, <1>6, AtIs, RangeSmall
<1>8. IsInjective(members'[i].hand)
  BY <1>6, RangeSmall
<1>9. CASE members[i].stopping
  <2>1. members'[i].inbox = members[i].inbox /\ dead' = Letters(c)
    BY <1>2, <1>9, CrashEffect DEF Crash
  <2>2. Still(a, <<0, "dead">>) /\ a # <<0, "dead">> /\ Members' = Members
    BY <1>4, <1>5, <1>6, <2>1, StillIs DEF Only
  <2>3. SpotInv' /\ \A m \in Message : dead'[m] <= 1
    BY <1>5, <1>7, <2>1, <2>2, DeadMoves
  <2>4. OnceInv'
    BY <1>5, <1>6, <1>8, <2>1, <2>3 DEF MailInv, OnceInv, Only
  <2>5. QED
    BY <2>3, <2>4 DEF MailInv
<1>10. CASE ~members[i].stopping
  <2>1. members'[i].inbox = c \o q /\ dead' = dead
    BY <1>2, <1>3, <1>10, CrashEffect DEF Crash
  <2>2. PICK b \in Spot : b = <<i, "inbox">>
    BY SpotIs
  <2>3. Still(a, b) /\ a # b /\ Members' = Members
    BY <1>4, <1>5, <1>6, <2>1, <2>2, StillIs DEF Only
  <2>4. At(b[1], b[2]) = Range(q) /\ At(b[1], b[2])' = Range(c \o q)
    BY <1>3, <2>1, <2>2, AtIs
  <2>5. Range(c) \cap Range(q) = {}
    <3> SUFFICES ASSUME NEW m \in Range(c), m \in Range(q)
                 PROVE  FALSE
      OBVIOUS
    <3>1. m \in Message
      BY <1>7, SpotIs
    <3>2. m \notin At(b[1], b[2])
      BY <1>7, <2>3, <3>1, OneSpot DEF MailInv
    <3>3. QED
      BY <2>4, <3>2
  <2>6. /\ Range(c \o q) = Range(c) \cup Range(q)
        /\ IsInjective(c \o q)
    BY <1>2, <1>3, <2>5, RangeConcat DEF MailInv, OnceInv
  <2>7. SpotInv'
    <3>1. Range(c) \subseteq At(a[1], a[2]) /\ At(a[1], a[2])' = At(a[1], a[2]) \ Range(c)
      BY <1>7
    <3>2. At(b[1], b[2])' = At(b[1], b[2]) \cup Range(c)
      BY <2>4, <2>6
    <3>3. QED
      BY <1>5, <2>3, <3>1, <3>2, SpotsMove DEF MailInv
  <2>8. OnceInv'
    BY <1>5, <1>6, <1>8, <2>1, <2>6 DEF MailInv, OnceInv, Only
  <2>9. QED
    BY <2>7, <2>8 DEF MailInv
<1>11. QED
  BY <1>9, <1>10

LEMMA MailStep == KindInv /\ MailInv /\ [Next]_vars => MailInv'
<1> SUFFICES ASSUME KindInv, MailInv, [Next]_vars
             PROVE  MailInv'
  OBVIOUS
<1>1. ASSUME UNCHANGED <<members, journal, dead, sender>>
      PROVE  MailInv'
  <2>1. Members' = Members /\ Sent' = Sent
    BY <1>1, SentSame DEF Members
  <2>2. QED
    BY <1>1, <2>1, MailRests
<1>2. CASE UNCHANGED vars
  BY <1>1, <1>2 DEF vars
<1>3. ASSUME NEW i \in Members, Door(i) \/ Loop(i) \/ Passivate(i)
      PROVE  MailInv'
  <2>1. CASE Boot(i)
    BY <2>1, BootEffect, SentSame, MailRests DEF Boot, Only
  <2>2. CASE Obey(i)
    BY <2>2, ObeyEffect, SentSame, MailRests DEF Obey, Only
  <2>3. CASE Passivate(i)
    BY <2>3, PassivateEffect, SentSame, MailRests DEF Passivate, Only
  <2>4. CASE Leave(i)
    BY <2>4, LeaveEffect, SentSame, MailRests DEF Leave, Only
  <2>5. CASE Exit(i)
    BY <2>5, ExitEffect, SentSame, MailFlushed DEF Exit
  <2>6. QED
    BY <1>3, <2>1, <2>2, <2>3, <2>4, <2>5, MailDoor, MailClaim, MailHandle, MailCrash
    DEF Loop
<1>4. CASE BeginStop \/ Join \/ StopRemoves \/ Barrier
  BY <1>1, <1>4 DEF BeginStop, Join, StopRemoves, Barrier
<1>5. CASE Signal
  BY <1>5, SignalEffect, SentSame, MailRests DEF Signal, Same
<1>6. CASE StopFlushes
  BY <1>6, StopFlushesEffect, SentSame, MailFlushed DEF StopFlushes
<1>7. QED
  BY <1>2, <1>3, <1>4, <1>5, <1>6, MailSenders DEF Next, Stop

(* A spot holds what is there at one place.                                *)
Index(m, i, part) ==
  CASE part = "journal" -> Spots(m, journal)
    [] part = "dead" -> 1 .. dead[m]
    [] part = "hand" -> Spots(m, members[i].hand)
    [] part = "inbox" -> Spots(m, members[i].inbox)
    [] part = "chan" -> Spots(m, members[i].chan)

LEMMA IndexIs ==
  ASSUME KindInv, OnceInv, NEW m \in Message, NEW spot \in Spot
  PROVE  /\ m \notin At(spot[1], spot[2]) => Index(m, spot[1], spot[2]) = {}
         /\ m \in At(spot[1], spot[2]) => \E k : Index(m, spot[1], spot[2]) = {k}
<1>1. ASSUME NEW q, IsInjective(q)
      PROVE  /\ m \notin Range(q) => Spots(m, q) = {}
             /\ m \in Range(q) => \E k : Spots(m, q) = {k}
  <2>1. m \notin Range(q) => Spots(m, q) = {}
    BY DEF Spots, Range
  <2>2. ASSUME m \in Range(q)
        PROVE  \E k : Spots(m, q) = {k}
    <3>1. PICK k \in DOMAIN q : q[k] = m
      BY <2>2 DEF Range
    <3>2. Spots(m, q) = {k}
      BY <1>1, <3>1 DEF Spots, IsInjective
    <3>3. QED
      BY <3>2
  <2>3. QED
    BY <2>1, <2>2
<1>2. CASE spot = <<0, "journal">>
  <2>1. At(spot[1], spot[2]) = Range(journal) /\ Index(m, spot[1], spot[2]) = Spots(m, journal)
    BY <1>2 DEF At, Index
  <2>2. IsInjective(journal)
    BY DEF OnceInv
  <2>3. QED
    BY <1>1, <2>1, <2>2
<1>3. CASE spot = <<0, "dead">>
  <2>1. /\ m \in At(spot[1], spot[2]) <=> dead[m] > 0
        /\ Index(m, spot[1], spot[2]) = 1 .. dead[m]
    BY <1>3 DEF At, Index
  <2>2. dead[m] \in Nat /\ dead[m] <= 1
    BY DEF OnceInv, KindInv, TypeOK
  <2>3. dead[m] = 0 \/ dead[m] = 1
    BY <2>2
  <2>4. 1 .. 0 = {} /\ 1 .. 1 = {1}
    OBVIOUS
  <2>5. QED
    BY <2>1, <2>3, <2>4
<1>4. ASSUME NEW i \in Members, spot = <<i, "hand">>
      PROVE  /\ m \notin At(spot[1], spot[2]) => Index(m, spot[1], spot[2]) = {}
             /\ m \in At(spot[1], spot[2]) => \E k : Index(m, spot[1], spot[2]) = {k}
  <2>1. PICK q : q = members[i].hand
    OBVIOUS
  <2>2. At(spot[1], spot[2]) = Range(q) /\ Index(m, spot[1], spot[2]) = Spots(m, q)
    BY <1>4, <2>1 DEF At, Index
  <2>3. IsInjective(q)
    BY <2>1 DEF OnceInv
  <2>4. QED
    BY <1>1, <2>2, <2>3
<1>5. ASSUME NEW i \in Members, spot = <<i, "inbox">>
      PROVE  /\ m \notin At(spot[1], spot[2]) => Index(m, spot[1], spot[2]) = {}
             /\ m \in At(spot[1], spot[2]) => \E k : Index(m, spot[1], spot[2]) = {k}
  <2>1. PICK q : q = members[i].inbox
    OBVIOUS
  <2>2. At(spot[1], spot[2]) = Range(q) /\ Index(m, spot[1], spot[2]) = Spots(m, q)
    BY <1>5, <2>1 DEF At, Index
  <2>3. IsInjective(q)
    BY <2>1 DEF OnceInv
  <2>4. QED
    BY <1>1, <2>2, <2>3
<1>6. ASSUME NEW i \in Members, spot = <<i, "chan">>
      PROVE  /\ m \notin At(spot[1], spot[2]) => Index(m, spot[1], spot[2]) = {}
             /\ m \in At(spot[1], spot[2]) => \E k : Index(m, spot[1], spot[2]) = {k}
  <2>1. PICK q : q = members[i].chan
    OBVIOUS
  <2>2. At(spot[1], spot[2]) = Range(q) /\ Index(m, spot[1], spot[2]) = Spots(m, q)
    BY <1>6, <2>1 DEF At, Index
  <2>3. IsInjective(q)
    BY <2>1 DEF OnceInv
  <2>4. QED
    BY <1>1, <2>2, <2>3
<1>7. QED
  BY SpotIs, <1>2, <1>3, <1>4, <1>5, <1>6

LEMMA PlacesAre ==
  ASSUME KindInv, NEW m \in Message
  PROVE  Places(m) = UNION {{<<spot[1], spot[2], k>> : k \in Index(m, spot[1], spot[2])} :
                              spot \in Spot}
<1>1. ASSUME NEW i
      PROVE  /\ Index(m, i, "journal") = Spots(m, journal)
             /\ Index(m, i, "dead") = 1 .. dead[m]
             /\ Index(m, i, "hand") = Spots(m, members[i].hand)
             /\ Index(m, i, "inbox") = Spots(m, members[i].inbox)
             /\ Index(m, i, "chan") = Spots(m, members[i].chan)
  BY DEF Index
<1> DEFINE Here(y, i) ==
             \/ \E k \in Spots(m, members[i].hand) : y = <<i, "hand", k>>
             \/ \E k \in Spots(m, members[i].inbox) : y = <<i, "inbox", k>>
             \/ \E k \in Spots(m, members[i].chan) : y = <<i, "chan", k>>
<1>0. \A y : y \in Places(m) <=>
               \/ \E i \in Members : Here(y, i)
               \/ \E k \in Spots(m, journal) : y = <<0, "journal", k>>
               \/ \E k \in 1 .. dead[m] : y = <<0, "dead", k>>
  <2> DEFINE parts(i) == {<<i, "hand", k>> : k \in Spots(m, members[i].hand)}
                           \cup {<<i, "inbox", k>> : k \in Spots(m, members[i].inbox)}
                           \cup {<<i, "chan", k>> : k \in Spots(m, members[i].chan)}
  <2>1. PICK all : all = UNION {parts(i) : i \in Members}
    OBVIOUS
  <2>2. PICK journalled : journalled = {<<0, "journal", k>> : k \in Spots(m, journal)}
    OBVIOUS
  <2>3. PICK buried : buried = {<<0, "dead", k>> : k \in 1 .. dead[m]}
    OBVIOUS
  <2>4. Places(m) = all \cup journalled \cup buried
    BY <2>1, <2>2, <2>3 DEF Places
  <2>5. \A y, i : y \in parts(i) <=> Here(y, i)
    OBVIOUS
  <2> HIDE DEF parts, Here
  <2>6. \A y : y \in all <=> \E i \in Members : y \in parts(i)
    BY <2>1
  <2>7. SUFFICES ASSUME NEW y
                 PROVE  y \in Places(m) <=>
                           \/ \E i \in Members : Here(y, i)
                           \/ \E k \in Spots(m, journal) : y = <<0, "journal", k>>
                           \/ \E k \in 1 .. dead[m] : y = <<0, "dead", k>>
    OBVIOUS
  <2>8. y \in Places(m) <=> y \in all \/ y \in journalled \/ y \in buried
    BY <2>4
  <2>9. y \in all <=> \E i \in Members : Here(y, i)
    BY <2>5, <2>6
  <2>10. y \in journalled <=> \E k \in Spots(m, journal) : y = <<0, "journal", k>>
    BY <2>2
  <2>11. y \in buried <=> \E k \in 1 .. dead[m] : y = <<0, "dead", k>>
    BY <2>3
  <2>12. QED
    BY <2>8, <2>9, <2>10, <2>11
<1>2. ASSUME NEW y \in Places(m)
      PROVE  \E spot \in Spot : \E k \in Index(m, spot[1], spot[2]) : y = <<spot[1], spot[2], k>>
  <2>1. CASE \E k \in Spots(m, journal) : y = <<0, "journal", k>>
    <3>1. <<0, "journal">> \in Spot /\ <<0, "journal">>[1] = 0 /\ <<0, "journal">>[2] = "journal"
      BY SpotIs
    <3>2. QED
      BY <1>1, <2>1, <3>1
  <2>2. CASE \E k \in 1 .. dead[m] : y = <<0, "dead", k>>
    <3>1. <<0, "dead">> \in Spot /\ <<0, "dead">>[1] = 0 /\ <<0, "dead">>[2] = "dead"
      BY SpotIs
    <3>2. QED
      BY <1>1, <2>2, <3>1
  <2>3. ASSUME NEW i \in Members, \E k \in Spots(m, members[i].hand) : y = <<i, "hand", k>>
        PROVE  \E spot \in Spot : \E k \in Index(m, spot[1], spot[2]) : y = <<spot[1], spot[2], k>>
    <3>1. <<i, "hand">> \in Spot /\ <<i, "hand">>[1] = i /\ <<i, "hand">>[2] = "hand"
      BY SpotIs
    <3>2. QED
      BY <1>1, <2>3, <3>1
  <2>4. ASSUME NEW i \in Members, \E k \in Spots(m, members[i].inbox) : y = <<i, "inbox", k>>
        PROVE  \E spot \in Spot : \E k \in Index(m, spot[1], spot[2]) : y = <<spot[1], spot[2], k>>
    <3>1. <<i, "inbox">> \in Spot /\ <<i, "inbox">>[1] = i /\ <<i, "inbox">>[2] = "inbox"
      BY SpotIs
    <3>2. QED
      BY <1>1, <2>4, <3>1
  <2>5. ASSUME NEW i \in Members, \E k \in Spots(m, members[i].chan) : y = <<i, "chan", k>>
        PROVE  \E spot \in Spot : \E k \in Index(m, spot[1], spot[2]) : y = <<spot[1], spot[2], k>>
    <3>1. <<i, "chan">> \in Spot /\ <<i, "chan">>[1] = i /\ <<i, "chan">>[2] = "chan"
      BY SpotIs
    <3>2. QED
      BY <1>1, <2>5, <3>1
  <2>6. QED
    BY <1>2, <2>1, <2>2, <2>3, <2>4, <2>5, <1>0
<1>3. ASSUME NEW spot \in Spot, NEW k \in Index(m, spot[1], spot[2])
      PROVE  <<spot[1], spot[2], k>> \in Places(m)
  <2>1. CASE spot = <<0, "journal">>
    <3>1. spot[1] = 0 /\ spot[2] = "journal" /\ k \in Spots(m, journal)
      BY <1>1, <1>3, <2>1
    <3>2. QED
      BY <1>0, <3>1
  <2>2. CASE spot = <<0, "dead">>
    <3>1. spot[1] = 0 /\ spot[2] = "dead" /\ k \in 1 .. dead[m]
      BY <1>1, <1>3, <2>2
    <3>2. QED
      BY <1>0, <3>1
  <2>3. ASSUME NEW i \in Members, spot = <<i, "hand">>
        PROVE  <<spot[1], spot[2], k>> \in Places(m)
    <3>1. spot[1] = i /\ spot[2] = "hand" /\ k \in Spots(m, members[i].hand)
      BY <1>1, <1>3, <2>3
    <3>2. QED
      BY <1>0, <3>1
  <2>4. ASSUME NEW i \in Members, spot = <<i, "inbox">>
        PROVE  <<spot[1], spot[2], k>> \in Places(m)
    <3>1. spot[1] = i /\ spot[2] = "inbox" /\ k \in Spots(m, members[i].inbox)
      BY <1>1, <1>3, <2>4
    <3>2. QED
      BY <1>0, <3>1
  <2>5. ASSUME NEW i \in Members, spot = <<i, "chan">>
        PROVE  <<spot[1], spot[2], k>> \in Places(m)
    <3>1. spot[1] = i /\ spot[2] = "chan" /\ k \in Spots(m, members[i].chan)
      BY <1>1, <1>3, <2>5
    <3>2. QED
      BY <1>0, <3>1
  <2>6. QED
    BY SpotIs, <2>1, <2>2, <2>3, <2>4, <2>5
<1>4. QED
  BY <1>2, <1>3

LEMMA PlacedOnce == KindInv /\ MailInv => OnePlace
<1> SUFFICES ASSUME KindInv, MailInv, NEW m \in Message
             PROVE  Cardinality(Places(m)) = IF m \in Sent THEN 1 ELSE 0
  BY DEF OnePlace
<1>1. CASE m \notin Sent
  <2>1. \A spot \in Spot : Index(m, spot[1], spot[2]) = {}
    BY <1>1, OneSpot, IndexIs DEF MailInv
  <2>2. Places(m) = {}
    BY <2>1, PlacesAre
  <2>3. QED
    BY <1>1, <2>2, FS_EmptySet
<1>2. CASE m \in Sent
  <2>1. PICK a \in Spot : Where(m) = {a}
    BY <1>2 DEF MailInv, SpotInv
  <2>2. m \in At(a[1], a[2])
    BY <2>1 DEF Where
  <2>3. PICK k : Index(m, a[1], a[2]) = {k}
    BY <2>2, IndexIs DEF MailInv
  <2>4. \A spot \in Spot \ {a} : Index(m, spot[1], spot[2]) = {}
    BY <2>2, OneSpot, IndexIs DEF MailInv
  <2>5. Places(m) = {<<a[1], a[2], k>>}
    BY <2>3, <2>4, PlacesAre
  <2>6. QED
    BY <1>2, <2>5, FS_Singleton
<1>3. QED
  BY <1>1, <1>2

(* However pushes, doors, steps, crashes, teardowns and spawns interleave, *)
(* what a sender has let go of is neither lost nor doubled: it is with one *)
(* member, recorded once, or one dead letter.                              *)
THEOREM MailIsKept == Spec => []OnePlace
<1>1. KindInv /\ MailInv => OnePlace
  BY PlacedOnce
<1>2. QED
  BY KindInit, MailInit, KindStep, MailStep, <1>1, PTL DEF Spec
=============================================================================
