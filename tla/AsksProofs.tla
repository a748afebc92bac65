----------------------------- MODULE AsksProofs -----------------------------
(***************************************************************************)
(* Proofs about Asks, for every set of actors and clients, every wiring,   *)
(* capacity, bound and budget of faults.                                   *)
(***************************************************************************)
EXTENDS Asks, SequenceTheorems, TLAPS

----------------------------------------------------------------------------
(* Type correctness.                                                       *)

AskRecord ==
  [asker : Actors \cup Clients, dest : Actors,
   at : Underway \cup {"settled", "aborted"},
   lost : BOOLEAN, got : Nat, outcome : {"none"} \cup Outcomes]

Stages == {"idle", "handling", "asking", "flushing", "gone"}

(* The asks only ever get longer, and their records keep their type.       *)
LEMMA InitType == Init => TypeOK
<1>1. SUFFICES ASSUME Init PROVE TypeOK
  OBVIOUS
<1>2. /\ wiring \in Wirings /\ left \in [AllFaults -> Nat]
      /\ asks \in Seq(AskRecord) /\ DOMAIN replies = {} /\ expired = {}
  BY <1>1, AsksAssumption DEF Init
<1>3. /\ mailbox \in [Actors -> Seq(Asked)]
      /\ actor \in [Actors -> [at : Stages, request : {0} \cup Asked]]
  BY <1>1 DEF Init, Stages
<1>4. QED
  BY <1>2, <1>3 DEF TypeOK, AskRecord, Stages, Asked

(* What an actor holds and has queued stays typed when asks are added.     *)
LEMMA MailGrows ==
  ASSUME NEW S, NEW T, S \subseteq T, NEW box \in [Actors -> Seq(S)]
  PROVE  box \in [Actors -> Seq(T)]
<1>1. Seq(S) \subseteq Seq(T)
  BY SeqMonotonic
<1>2. QED
  BY <1>1

(* An opened ask is typed.                                                 *)
LEMMA OpenType ==
  ASSUME TypeOK, NEW asker \in Actors \cup Clients, NEW dest \in Actors, Open(asker, dest)
  PROVE  /\ asks' \in Seq(AskRecord) /\ Len(asks') = Len(asks) + 1
         /\ Asked \subseteq Asked' /\ Len(asks) + 1 \in Asked'
         /\ \A k \in Asked : asks'[k] = asks[k]
         /\ asks'[Len(asks) + 1].at = "delivering" /\ asks'[Len(asks) + 1].got = 0
         /\ DOMAIN replies' = {Len(asks) + 1} \cup (DOMAIN replies \ expired)
         /\ replies'[Len(asks) + 1] = Len(asks) + 1
         /\ \A lease \in DOMAIN replies \ expired :
              lease # Len(asks) + 1 => replies'[lease] = replies[lease]
<1> DEFINE new == [asker |-> asker, dest |-> dest, at |-> "delivering",
                   lost |-> FALSE, got |-> 0, outcome |-> "none"]
<1>1. asks \in Seq(AskRecord) /\ new \in AskRecord
  BY DEF TypeOK, AskRecord, Underway, Outcomes
<1>2. asks' = Append(asks, new)
  BY DEF Open
<1>3. /\ asks' \in Seq(AskRecord) /\ Len(asks') = Len(asks) + 1
      /\ \A k \in 1 .. Len(asks) : asks'[k] = asks[k]
      /\ asks'[Len(asks) + 1] = new
  BY <1>1, <1>2, AppendProperties
<1>4. Asked = 1 .. Len(asks) /\ Asked' = 1 .. Len(asks) + 1
  BY <1>1, <1>3, LenProperties DEF Asked
<1>5. Len(asks) \in Nat
  BY <1>1, LenProperties
<1>6. replies' = [lease \in {Len(asks) + 1} \cup (DOMAIN replies \ expired) |->
                   IF lease = Len(asks) + 1 THEN Len(asks) + 1 ELSE replies[lease]]
  BY DEF Open, Lease
<1>7. /\ DOMAIN replies' = {Len(asks) + 1} \cup (DOMAIN replies \ expired)
      /\ replies'[Len(asks) + 1] = Len(asks) + 1
      /\ \A lease \in DOMAIN replies \ expired :
           lease # Len(asks) + 1 => replies'[lease] = replies[lease]
  BY <1>6
<1>8. QED
  BY <1>3, <1>4, <1>5, <1>7

(* A fault that happens is taken from its budget.                          *)
LEMMA SpendType ==
  ASSUME NEW fault \in AllFaults, left \in [AllFaults -> Nat], Spend(fault)
  PROVE  left' \in [AllFaults -> Nat]
  BY DEF Spend

(* Every step keeps the types; only an opening adds to the asks.           *)
LEMMA StepType == TypeOK /\ [Next]_vars => TypeOK'
<1> SUFFICES ASSUME TypeOK, [Next]_vars PROVE TypeOK'
  OBVIOUS
<1> USE DEF Stages
<1>0. /\ asks \in Seq(AskRecord) /\ Asked = 1 .. Len(asks) /\ Len(asks) \in Nat
      /\ \A k \in Asked : asks[k] \in AskRecord
  <2>1. asks \in Seq(AskRecord)
    BY DEF TypeOK, AskRecord
  <2>2. QED
    BY <2>1, LenProperties, ElementOfSeq DEF Asked
<1>1. ASSUME NEW k \in Asked, NEW record \in AskRecord, asks' = [asks EXCEPT ![k] = record]
      PROVE  asks' \in Seq(AskRecord) /\ Asked' = Asked
  BY <1>0, <1>1, ExceptSeq DEF Asked
<1>2. ASSUME NEW c \in Clients, ClientAsks(c) PROVE TypeOK'
  <2>1. PICK a \in Actors : Open(c, a)
    BY <1>2 DEF ClientAsks
  <2>2. mailbox \in [Actors -> Seq(Asked')]
    BY <2>1, OpenType, MailGrows DEF TypeOK
  <2>3. QED
    BY <1>2, <2>1, <2>2, OpenType, ZenonT(60) DEF ClientAsks, Open, TypeOK, AskRecord
<1>3. ASSUME NEW k \in Asked, Deliver(k) PROVE TypeOK'
  <2>1. [asks[k] EXCEPT !.at = "waiting"] \in AskRecord /\ asks[k].dest \in Actors
    BY <1>0 DEF AskRecord, Underway
  <2>2. asks' \in Seq(AskRecord) /\ Asked' = Asked
    BY <1>1, <1>3, <2>1 DEF Deliver
  <2>3. Append(mailbox[asks[k].dest], k) \in Seq(Asked)
    BY <2>1, AppendProperties DEF TypeOK
  <2>4. mailbox' \in [Actors -> Seq(Asked)]
    BY <1>3, <2>1, <2>3 DEF Deliver, TypeOK
  <2>5. QED
    BY <1>3, <2>2, <2>4 DEF Deliver, TypeOK, AskRecord
<1>4. ASSUME NEW k \in Asked, Decide(k) PROVE TypeOK'
  <2>1. PICK outcome \in Outcomes :
          asks' = [asks EXCEPT ![k].at = "decided", ![k].outcome = outcome]
    BY <1>4 DEF Decide
  <2>2. [asks[k] EXCEPT !.at = "decided", !.outcome = outcome] \in AskRecord
    BY <1>0 DEF AskRecord, Underway
  <2>3. asks' = [asks EXCEPT ![k] = [asks[k] EXCEPT !.at = "decided", !.outcome = outcome]]
    BY <1>0, <2>1
  <2>4. asks' \in Seq(AskRecord) /\ Asked' = Asked
    BY <1>1, <2>2, <2>3
  <2>5. QED
    BY <1>4, <2>4 DEF Decide, TypeOK, AskRecord
<1>5. ASSUME NEW k \in Asked, Settle(k) PROVE TypeOK'
  <2>1. [asks[k] EXCEPT !.at = "settled"] \in AskRecord /\ asks[k].asker \in Actors \cup Clients
    BY <1>0 DEF AskRecord, Underway
  <2>2. asks' \in Seq(AskRecord) /\ Asked' = Asked
    BY <1>1, <1>5, <2>1 DEF Settle
  <2>3. QED
    BY <1>5, <2>1, <2>2, ZenonT(60) DEF Settle, Cancel, Without, Restrict, TypeOK, AskRecord
<1>6. ASSUME NEW k \in Asked, Abort(k) PROVE TypeOK'
  <2>1. [asks[k] EXCEPT !.at = "aborted"] \in AskRecord /\ asks[k].asker \in Actors \cup Clients
    BY <1>0 DEF AskRecord, Underway
  <2>2. asks' \in Seq(AskRecord) /\ Asked' = Asked
    BY <1>1, <1>6, <2>1 DEF Abort
  <2>3. left' \in [AllFaults -> Nat]
    BY <1>6, SpendType DEF Abort, AllFaults, TypeOK
  <2>4. /\ actor' \in [Actors -> [at : Stages, request : {0} \cup Asked]]
        /\ mailbox' \in [Actors -> Seq(Asked)]
    <3>1. CASE asks[k].asker \in Actors
      <4>1. /\ actor' = [actor EXCEPT ![asks[k].asker] = [at |-> "gone", request |-> 0]]
            /\ mailbox' = [mailbox EXCEPT ![asks[k].asker] = <<>>]
        BY <1>6, <3>1 DEF Abort
      <4>2. [at |-> "gone", request |-> 0] \in [at : Stages, request : {0} \cup Asked]
        OBVIOUS
      <4>3. QED
        BY <3>1, <4>1, <4>2, EmptySeq DEF TypeOK
    <3>2. CASE asks[k].asker \notin Actors
      BY <1>6, <3>2 DEF Abort, TypeOK
    <3>3. QED
      BY <3>1, <3>2
  <2>5. QED
    BY <1>6, <2>2, <2>3, <2>4 DEF Abort, TypeOK, AskRecord
<1>7. ASSUME NEW a \in Actors, Begin(a) PROVE TypeOK'
  <2>1. Head(mailbox[a]) \in Asked /\ Tail(mailbox[a]) \in Seq(Asked)
    BY <1>7, HeadTailProperties DEF Begin, TypeOK
  <2>2. QED
    BY <1>7, <2>1 DEF Begin, TypeOK, Asked
<1>8. ASSUME NEW a \in Actors, AskPeer(a) PROVE TypeOK'
  <2>1. wiring[a] \in Actors
    BY <1>8, AsksAssumption DEF AskPeer, TypeOK
  <2>2. Open(a, wiring[a])
    BY <1>8 DEF AskPeer
  <2>3. mailbox \in [Actors -> Seq(Asked')]
    BY <2>1, <2>2, OpenType, MailGrows DEF TypeOK
  <2>4. asks' \in Seq(AskRecord) /\ Asked \subseteq Asked'
    BY <2>1, <2>2, OpenType
  <2>5. actor' \in [Actors -> [at : Stages, request : {0} \cup Asked']]
    BY <1>8, <2>4 DEF AskPeer, TypeOK
  <2>6. DOMAIN replies' \subseteq Asked' /\ \A lease \in DOMAIN replies' : replies'[lease] \in Asked'
    BY <2>1, <2>2, OpenType DEF TypeOK
  <2>7. QED
    BY <1>8, <2>2, <2>3, <2>4, <2>5, <2>6 DEF AskPeer, Open, TypeOK, AskRecord
<1>9. ASSUME NEW a \in Actors, AskNot(a) PROVE TypeOK'
  BY <1>9 DEF AskNot, TypeOK, Asked
<1>10. ASSUME NEW a \in Actors, Flush(a) PROVE TypeOK'
  <2>1. asks' \in Seq(AskRecord) /\ Asked' = Asked
    <3>1. CASE asks' = asks
      BY <1>0, <3>1 DEF Asked
    <3>2. CASE asks' # asks
      <4> DEFINE request == actor[a].request
                 answered == replies[Lease(request, asks[request].asker)]
      <4>1. asks' = [asks EXCEPT ![answered].got = request] /\ answered \in Asked
        BY <1>10, <3>2 DEF Flush, Complete, TypeOK
      <4>2. request \in Nat
        BY <1>0 DEF TypeOK
      <4>3. [asks[answered] EXCEPT !.got = request] \in AskRecord
        BY <1>0, <4>1, <4>2, ZenonT(60) DEF AskRecord
      <4>4. QED
        BY <1>1, <4>1, <4>3
    <3>3. QED
      BY <3>1, <3>2
  <2>2. /\ DOMAIN replies' \subseteq Asked
        /\ \A lease \in DOMAIN replies' : replies'[lease] \in Asked
        /\ expired' \subseteq Asked
    BY <1>10 DEF Flush, Complete, Without, Restrict, TypeOK
  <2>3. QED
    BY <1>10, <2>1, <2>2 DEF Flush, TypeOK, AskRecord
<1>11. ASSUME NEW a \in Actors, Loses(a)
       PROVE  /\ asks' \in Seq(AskRecord) /\ Asked' = Asked
              /\ mailbox' \in [Actors -> Seq(Asked)]
  <2>1. \A k \in Asked : [asks[k] EXCEPT !.lost = TRUE] \in AskRecord
    BY <1>0 DEF AskRecord
  <2>2. asks' \in [1 .. Len(asks) -> AskRecord]
    BY <1>0, <1>11, <2>1 DEF Loses
  <2>3. asks' \in Seq(AskRecord)
    BY <1>0, <2>2, SeqDef
  <2>4. QED
    BY <1>0, <1>11, <2>2, <2>3 DEF Loses, TypeOK, Asked
<1>12. ASSUME NEW a \in Actors, Panic(a) PROVE TypeOK'
  <2>1. /\ asks' \in Seq(AskRecord) /\ Asked' = Asked
        /\ mailbox' \in [Actors -> Seq(Asked)]
    BY <1>11, <1>12 DEF Panic
  <2>2. left' \in [AllFaults -> Nat]
    BY <1>12, SpendType DEF Panic, AllFaults, TypeOK
  <2>3. actor' \in [Actors -> [at : Stages, request : {0} \cup Asked]]
    BY <1>12 DEF Panic, TypeOK
  <2>4. QED
    BY <1>12, <2>1, <2>2, <2>3 DEF Panic, TypeOK, AskRecord
<1>13. ASSUME NEW a \in Actors, Stop(a) PROVE TypeOK'
  <2>1. /\ asks' \in Seq(AskRecord) /\ Asked' = Asked
        /\ mailbox' \in [Actors -> Seq(Asked)]
    BY <1>11, <1>13 DEF Stop
  <2>2. left' \in [AllFaults -> Nat]
    BY <1>13, SpendType DEF Stop, AllFaults, TypeOK
  <2>3. actor' \in [Actors -> [at : Stages, request : {0} \cup Asked]]
    BY <1>13 DEF Stop, TypeOK
  <2>4. QED
    BY <1>13, <2>1, <2>2, <2>3 DEF Stop, TypeOK, AskRecord
<1>14. CASE Expire
  BY <1>14 DEF Expire, TypeOK, Asked
<1>15. CASE UNCHANGED vars
  BY <1>15 DEF vars, TypeOK, Asked
<1>16. QED
  BY <1>2, <1>3, <1>4, <1>5, <1>6, <1>7, <1>8, <1>9, <1>10, <1>12, <1>13, <1>14, <1>15
  DEF Next, Ask, Serve

(* Every variable keeps its type.                                          *)
THEOREM TypeCorrect == Spec => []TypeOK
  BY InitType, StepType, PTL DEF Spec

----------------------------------------------------------------------------
(* The lease.                                                              *)

(* A lease in the table leads to the ask it was opened for, and that ask   *)
(* has not settled: it is under way, or its task was aborted.              *)
LeaseInv ==
  \A lease \in DOMAIN replies :
    /\ replies[lease] = lease
    /\ asks[lease].at \in Underway \cup {"aborted"}

(* The table never leads elsewhere, through openings that reap, replies    *)
(* that come late, aborted tasks and restarted peers; and so a reply goes  *)
(* to its own ask.                                                         *)
LEMMA StepLease ==
  TypeOK /\ LeaseInv /\ OwnReply /\ [Next]_vars => LeaseInv' /\ OwnReply'
<1> SUFFICES ASSUME TypeOK, LeaseInv, OwnReply, [Next]_vars PROVE LeaseInv' /\ OwnReply'
  OBVIOUS
<1>0. /\ asks \in Seq(AskRecord) /\ Asked = 1 .. Len(asks) /\ Len(asks) \in Nat
      /\ DOMAIN replies \subseteq Asked
      /\ \A k \in Asked : asks[k] \in AskRecord
  <2>1. asks \in Seq(AskRecord)
    BY DEF TypeOK, AskRecord
  <2>2. QED
    BY <2>1, LenProperties, ElementOfSeq DEF Asked, TypeOK
<1>1. ASSUME NEW asker \in Actors \cup Clients, NEW dest \in Actors, Open(asker, dest)
      PROVE  LeaseInv' /\ OwnReply'
  <2>1. LeaseInv'
    BY <1>0, <1>1, OpenType DEF LeaseInv, Underway
  <2>2. Asked' = Asked \cup {Len(asks) + 1}
    <3>1. Len(asks') = Len(asks) + 1 /\ asks' \in Seq(AskRecord)
      BY <1>1, OpenType
    <3>2. QED
      BY <1>0, <3>1, LenProperties DEF Asked
  <2>3. OwnReply'
    BY <1>1, <2>2, OpenType DEF OwnReply
  <2>4. QED
    BY <2>1, <2>3
<1>2. ASSUME NEW c \in Clients, ClientAsks(c) PROVE LeaseInv' /\ OwnReply'
  BY <1>1, <1>2 DEF ClientAsks
<1>3. ASSUME NEW k \in Asked, Deliver(k) PROVE LeaseInv' /\ OwnReply'
  BY <1>0, <1>3 DEF Deliver, LeaseInv, OwnReply, Asked, Underway, AskRecord
<1>4. ASSUME NEW k \in Asked, Decide(k) PROVE LeaseInv' /\ OwnReply'
  BY <1>0, <1>4 DEF Decide, LeaseInv, OwnReply, Asked, Underway, AskRecord
<1>5. ASSUME NEW k \in Asked, Settle(k) PROVE LeaseInv' /\ OwnReply'
  BY <1>0, <1>5 DEF Settle, Cancel, Without, Restrict, Lease, LeaseInv, OwnReply, Asked,
                    Underway, AskRecord
<1>6. ASSUME NEW k \in Asked, Abort(k) PROVE LeaseInv' /\ OwnReply'
  BY <1>0, <1>6 DEF Abort, LeaseInv, OwnReply, Asked, Underway, AskRecord
<1>7. ASSUME NEW a \in Actors, Begin(a) PROVE LeaseInv' /\ OwnReply'
  BY <1>7 DEF Begin, LeaseInv, OwnReply, Asked
<1>8. ASSUME NEW a \in Actors, AskPeer(a) PROVE LeaseInv' /\ OwnReply'
  <2>1. wiring[a] \in Actors
    BY <1>8, AsksAssumption DEF AskPeer, TypeOK
  <2>2. QED
    BY <1>1, <1>8, <2>1 DEF AskPeer
<1>9. ASSUME NEW a \in Actors, AskNot(a) PROVE LeaseInv' /\ OwnReply'
  BY <1>9 DEF AskNot, LeaseInv, OwnReply, Asked
<1>10. ASSUME NEW a \in Actors, Flush(a) PROVE LeaseInv' /\ OwnReply'
  <2> DEFINE k == actor[a].request
  <2>1. CASE UNCHANGED <<asks, replies, expired>>
    BY <2>1 DEF LeaseInv, OwnReply, Asked
  <2>2. CASE k \in DOMAIN replies /\ Complete(k, k)
    <3>1. /\ asks' = [asks EXCEPT ![k].got = k] /\ k \in Asked
          /\ replies' = [lease \in DOMAIN replies \ {k} |-> replies[lease]]
      BY <1>0, <2>2 DEF Complete, Without, Restrict, LeaseInv
    <3>2. QED
      BY <1>0, <3>1 DEF LeaseInv, OwnReply, Asked, Underway, AskRecord
  <2>3. QED
    BY <1>10, <2>1, <2>2 DEF Flush, Complete, Lease
<1>11. ASSUME NEW a \in Actors, Loses(a), UNCHANGED replies PROVE LeaseInv' /\ OwnReply'
  BY <1>0, <1>11 DEF Loses, LeaseInv, OwnReply, Asked, Underway, AskRecord
<1>12. ASSUME NEW a \in Actors, Panic(a) PROVE LeaseInv' /\ OwnReply'
  BY <1>11, <1>12 DEF Panic
<1>13. ASSUME NEW a \in Actors, Stop(a) PROVE LeaseInv' /\ OwnReply'
  BY <1>11, <1>13 DEF Stop
<1>14. CASE Expire
  BY <1>14 DEF Expire, LeaseInv, OwnReply, Asked
<1>15. CASE UNCHANGED vars
  BY <1>15 DEF vars, LeaseInv, OwnReply, Asked
<1>16. QED
  BY <1>2, <1>3, <1>4, <1>5, <1>6, <1>7, <1>8, <1>9, <1>10, <1>12, <1>13, <1>14, <1>15
  DEF Next, Ask, Serve

(* The table leads nowhere at the start.                                   *)
LEMMA InitLease == Init => LeaseInv /\ OwnReply
  BY DEF Init, LeaseInv, OwnReply, Asked

(* However late a reply comes, and however often the asker has asked       *)
(* again, an ask gets the reply to its own request or none                 *)
(* (ReplyTable::complete, ask_via_port_payload's timeout).                 *)
THEOREM RepliesAreOwn == Spec => []OwnReply
  BY InitType, StepType, InitLease, StepLease, PTL DEF Spec

(* No ask that has settled has a slot in the ReplyTable: ask_settled and   *)
(* complete between them leave none behind, whichever comes first.         *)
THEOREM LeasesDie == Spec => []LeaseDies
<1>1. TypeOK /\ LeaseInv => LeaseDies
  BY DEF LeaseInv, LeaseDies, Live, TypeOK
<1>2. QED
  BY <1>1, InitType, StepType, InitLease, StepLease, PTL DEF Spec
=============================================================================
