--------------------------- MODULE StopTreeProofs ---------------------------
(***************************************************************************)
(* Proofs about StopTree, for every family, set of hosts and scenario.     *)
(***************************************************************************)
EXTENDS StopTree, Integers, FiniteSetTheorems, SequenceTheorems, TLAPS

----------------------------------------------------------------------------
(* Sequences, as functions on an interval.                                 *)

(* A sequence is a function on an interval.                                *)
LEMMA SeqIsFunction ==
  ASSUME NEW S, NEW s \in Seq(S)
  PROVE  /\ Len(s) \in Nat /\ DOMAIN s = 1 .. Len(s)
         /\ s \in [1 .. Len(s) -> S]
         /\ \A k \in DOMAIN s : s[k] \in S
<1>1. Len(s) \in Nat /\ DOMAIN s = 1 .. Len(s) /\ s \in [1 .. Len(s) -> S]
  BY LenProperties
<1>2. QED
  BY <1>1

----------------------------------------------------------------------------
(* The frames of a host's stop, as a step changes them.                    *)

(* A call under way has a frame on top.                                    *)
LEMMA TopFrame ==
  ASSUME NEW s \in Seq(Frame), s # <<>>
  PROVE  /\ Len(s) \in Nat /\ Len(s) >= 1 /\ DOMAIN s = 1 .. Len(s) /\ 1 \in DOMAIN s
         /\ Head(s) = s[1] /\ Head(s) \in Frame
         /\ \A k \in DOMAIN s : s[k] \in Frame
<1>1. Len(s) \in Nat /\ DOMAIN s = 1 .. Len(s) /\ \A k \in DOMAIN s : s[k] \in Frame
  BY SeqIsFunction
<1>2. Len(s) >= 1
  BY EmptySeq
<1>3. Head(s) = s[1]
  OBVIOUS
<1>4. QED
  BY <1>1, <1>2, <1>3

(* The top frame is replaced.                                              *)
LEMMA TopReplaced ==
  ASSUME NEW s \in Seq(Frame), s # <<>>, NEW f \in Frame,
         NEW t, t = <<f>> \o Tail(s)
  PROVE  /\ t \in Seq(Frame) /\ t # <<>> /\ DOMAIN t = DOMAIN s
         /\ t[1] = f /\ Head(t) = f
         /\ \A k \in DOMAIN t : k # 1 => t[k] = s[k]
<1>1. /\ Tail(s) \in Seq(Frame) /\ Len(Tail(s)) = Len(s) - 1
      /\ \A i \in 1 .. Len(Tail(s)) : Tail(s)[i] = s[i + 1]
  BY HeadTailProperties
<1>2. /\ Len(s) \in Nat /\ Len(s) >= 1 /\ DOMAIN s = 1 .. Len(s)
  BY TopFrame
<1>3. <<f>> \in Seq(Frame) /\ Len(<<f>>) = 1 /\ <<f>>[1] = f
  OBVIOUS
<1>4. /\ t \in Seq(Frame) /\ Len(t) = 1 + Len(Tail(s))
      /\ \A i \in 1 .. 1 + Len(Tail(s)) :
           t[i] = IF i <= 1 THEN <<f>>[i] ELSE Tail(s)[i - 1]
  BY <1>1, <1>3, ConcatProperties
<1>5. Len(t) = Len(s) /\ DOMAIN t = 1 .. Len(s)
  BY <1>1, <1>2, <1>4, LenProperties
<1>6. t # <<>>
  BY <1>2, <1>5, EmptySeq
<1>7. t[1] = f
  BY <1>1, <1>2, <1>3, <1>4
<1>8. ASSUME NEW k \in 1 .. Len(s), k # 1 PROVE t[k] = s[k]
  <2>1. k - 1 \in 1 .. Len(Tail(s)) /\ k \in 1 .. 1 + Len(Tail(s)) /\ ~(k <= 1)
    BY <1>1, <1>2, <1>8
  <2>2. t[k] = Tail(s)[k - 1]
    BY <1>4, <2>1
  <2>3. Tail(s)[k - 1] = s[(k - 1) + 1] /\ (k - 1) + 1 = k
    BY <1>1, <2>1
  <2>4. QED
    BY <2>2, <2>3
<1>9. Head(t) = f
  BY <1>4, <1>6, <1>7, TopFrame
<1>10. QED
  BY <1>2, <1>4, <1>5, <1>6, <1>7, <1>8, <1>9

(* A frame is put on top of the others.                                    *)
LEMMA TopPushed ==
  ASSUME NEW s \in Seq(Frame), s # <<>>, NEW e \in Frame, NEW f \in Frame,
         NEW t, t = <<e, f>> \o Tail(s)
  PROVE  /\ t \in Seq(Frame) /\ t # <<>> /\ Head(t) = e /\ t[1] = e /\ t[2] = f
         /\ \A k \in DOMAIN t : k \in {1, 2} \/ (k > 2 /\ k - 1 \in DOMAIN s
                                                /\ k - 1 > 1 /\ t[k] = s[k - 1])
<1>1. /\ Tail(s) \in Seq(Frame) /\ Len(Tail(s)) = Len(s) - 1
      /\ \A i \in 1 .. Len(Tail(s)) : Tail(s)[i] = s[i + 1]
  BY HeadTailProperties
<1>2. /\ Len(s) \in Nat /\ Len(s) >= 1 /\ DOMAIN s = 1 .. Len(s)
  BY TopFrame
<1>3. <<e, f>> \in Seq(Frame) /\ Len(<<e, f>>) = 2 /\ <<e, f>>[1] = e /\ <<e, f>>[2] = f
  OBVIOUS
<1>4. /\ t \in Seq(Frame) /\ Len(t) = 2 + Len(Tail(s))
      /\ \A i \in 1 .. 2 + Len(Tail(s)) :
           t[i] = IF i <= 2 THEN <<e, f>>[i] ELSE Tail(s)[i - 2]
  BY <1>1, <1>3, ConcatProperties
<1>5. Len(t) = Len(s) + 1 /\ DOMAIN t = 1 .. Len(s) + 1
  BY <1>1, <1>2, <1>4, LenProperties
<1>6. t # <<>>
  BY <1>2, <1>5, EmptySeq
<1>7. t[1] = e /\ t[2] = f
  BY <1>1, <1>2, <1>3, <1>4
<1>8. ASSUME NEW k \in 1 .. Len(s) + 1, k \notin {1, 2}
      PROVE  k > 2 /\ k - 1 \in DOMAIN s /\ k - 1 > 1 /\ t[k] = s[k - 1]
  <2>1. k > 2 /\ k - 2 \in 1 .. Len(Tail(s)) /\ k \in 1 .. 2 + Len(Tail(s)) /\ ~(k <= 2)
    BY <1>1, <1>2, <1>8
  <2>2. t[k] = Tail(s)[k - 2]
    BY <1>4, <2>1
  <2>3. Tail(s)[k - 2] = s[(k - 2) + 1] /\ (k - 2) + 1 = k - 1
    BY <1>1, <2>1
  <2>4. k - 1 \in DOMAIN s /\ k - 1 > 1
    BY <1>2, <1>8, <2>1
  <2>5. QED
    BY <2>1, <2>2, <2>3, <2>4
<1>9. Head(t) = e
  BY <1>4, <1>6, <1>7, TopFrame
<1>10. QED
  BY <1>4, <1>5, <1>6, <1>7, <1>8, <1>9

(* The top frame is taken off and the next one learns of the budget.       *)
LEMMA TopPopped ==
  ASSUME NEW s \in Seq(Frame), s # <<>>, Tail(s) # <<>>, NEW f \in Frame,
         f.path = s[2].path, f.at = s[2].at, f.todo = s[2].todo,
         NEW t, t = [Tail(s) EXCEPT ![1] = f]
  PROVE  /\ t \in Seq(Frame) /\ t # <<>>
         /\ \A k \in DOMAIN t : /\ k + 1 \in DOMAIN s /\ k + 1 > 1
                                /\ t[k].path = s[k + 1].path /\ t[k].at = s[k + 1].at
                                /\ t[k].todo = s[k + 1].todo
         /\ Head(t).at = s[2].at /\ 2 \in DOMAIN s
<1>1. /\ Tail(s) \in Seq(Frame) /\ Len(Tail(s)) = Len(s) - 1
      /\ \A i \in 1 .. Len(Tail(s)) : Tail(s)[i] = s[i + 1]
  BY HeadTailProperties
<1>2. /\ Len(s) \in Nat /\ Len(s) >= 1 /\ DOMAIN s = 1 .. Len(s)
  BY TopFrame
<1>3. /\ Len(Tail(s)) >= 1 /\ 1 \in 1 .. Len(Tail(s)) /\ Len(Tail(s)) \in Nat
  BY <1>1, TopFrame
<1>4. f.path = s[1 + 1].path /\ f.at = s[1 + 1].at /\ f.todo = s[1 + 1].todo
  OBVIOUS
<1>6. /\ t \in Seq(Frame) /\ Len(t) = Len(Tail(s))
      /\ \A j \in 1 .. Len(Tail(s)) : t[j] = IF j = 1 THEN f ELSE Tail(s)[j]
  <2> DEFINE q == Tail(s)
  <2>1. q \in Seq(Frame) /\ 1 \in 1 .. Len(q)
    BY <1>1, <1>3
  <2> HIDE DEF q
  <2>2. /\ [q EXCEPT ![1] = f] \in Seq(Frame) /\ Len([q EXCEPT ![1] = f]) = Len(q)
        /\ \A j \in 1 .. Len(q) : [q EXCEPT ![1] = f][j] = IF j = 1 THEN f ELSE q[j]
    BY <2>1, ExceptSeq
  <2>3. QED
    BY <2>2 DEF q
<1>7. t # <<>> /\ DOMAIN t = 1 .. Len(Tail(s)) /\ Head(t) = t[1]
  <2>1. t # <<>>
    BY <1>3, <1>6, EmptySeq
  <2>2. QED
    BY <1>6, <2>1, TopFrame
<1>8. ASSUME NEW k \in 1 .. Len(Tail(s))
      PROVE  /\ k + 1 \in DOMAIN s /\ k + 1 > 1
             /\ t[k].path = s[k + 1].path /\ t[k].at = s[k + 1].at /\ t[k].todo = s[k + 1].todo
  <2>1. k + 1 \in DOMAIN s /\ k + 1 > 1 /\ Tail(s)[k] = s[k + 1]
    BY <1>1, <1>2, <1>8
  <2>2. CASE k = 1
    BY <1>4, <1>6, <2>1, <2>2
  <2>3. CASE k # 1
    BY <1>6, <2>1, <2>3
  <2>4. QED
    BY <2>1, <2>2, <2>3
<1>9. Head(t).at = s[2].at /\ 2 \in DOMAIN s
  <2>1. 1 + 1 = 2
    OBVIOUS
  <2>2. QED
    BY <1>3, <1>7, <1>8, <2>1
<1>10. QED
  BY <1>6, <1>7, <1>8, <1>9

(* A step that replaces the top frame of one host's stack.                 *)
LEMMA StackReplaced ==
  ASSUME TypeOK, NEW h \in Hosts, stack[h] # <<>>, NEW f \in Frame,
         Replaced(h, <<f>>)
  PROVE  /\ stack' \in [Hosts -> Seq(Frame)]
         /\ \A g \in Hosts \ {h} : stack'[g] = stack[g]
         /\ stack'[h] # <<>> /\ DOMAIN stack'[h] = DOMAIN stack[h]
         /\ stack'[h][1] = f /\ Head(stack'[h]) = f
         /\ \A k \in DOMAIN stack[h] : k # 1 => stack'[h][k] = stack[h][k]
<1>1. PICK t : t = <<f>> \o Tail(stack[h])
  OBVIOUS
<1>2. stack \in [Hosts -> Seq(Frame)]
  BY DEF TypeOK
<1>3. /\ t \in Seq(Frame) /\ t # <<>> /\ DOMAIN t = DOMAIN stack[h]
      /\ t[1] = f /\ Head(t) = f
      /\ \A k \in DOMAIN t : k # 1 => t[k] = stack[h][k]
  BY <1>1, <1>2, TopReplaced
<1>4. stack' = [stack EXCEPT ![h] = t]
  BY <1>1 DEF Replaced
<1>5. stack'[h] = t /\ \A g \in Hosts \ {h} : stack'[g] = stack[g]
  BY <1>2, <1>4
<1>6. stack' \in [Hosts -> Seq(Frame)]
  BY <1>2, <1>3, <1>4
<1>7. QED
  BY <1>3, <1>5, <1>6

(* A call moves on: all that changes is where its frame stands.            *)
LEMMA Advances ==
  ASSUME TypeOK, NEW h \in Hosts, NEW from, NEW to, Calls(h, from), Advance(h, to),
         to \in {"children", "signal", "join", "claim", "hook", "tear"}
  PROVE  /\ stack' \in [Hosts -> Seq(Frame)]
         /\ \A g \in Hosts \ {h} : stack'[g] = stack[g]
         /\ stack[h] # <<>> /\ stack'[h] # <<>> /\ DOMAIN stack'[h] = DOMAIN stack[h]
         /\ 1 \in DOMAIN stack[h] /\ Head(stack[h]) = stack[h][1] /\ Callee(h) \in Paths
         /\ Head(stack'[h]) = stack'[h][1] /\ Head(stack'[h]).at = to
         /\ Head(stack'[h]).path = Callee(h)
         /\ Head(stack'[h]).todo = Head(stack[h]).todo
         /\ \A k \in DOMAIN stack[h] : k # 1 => stack'[h][k] = stack[h][k]
<1>1. stack[h] # <<>> /\ stack[h] \in Seq(Frame)
  BY DEF Calls, TypeOK
<1>2. /\ Head(stack[h]) \in Frame /\ 1 \in DOMAIN stack[h] /\ Head(stack[h]) = stack[h][1]
  BY <1>1, TopFrame
<1>3. PICK f : f = [Head(stack[h]) EXCEPT !.at = to]
  OBVIOUS
<1>4. /\ f \in Frame /\ f.at = to /\ f.path = Head(stack[h]).path
      /\ f.todo = Head(stack[h]).todo /\ Head(stack[h]).path \in Paths
  BY <1>2, <1>3 DEF Frame
<1>5. Replaced(h, <<f>>)
  BY <1>3 DEF Advance
<1>6. QED
  BY <1>1, <1>2, <1>4, <1>5, StackReplaced DEF Callee

(* A call returns: its frame is gone, and the next is on top, waiting.     *)
LEMMA Returns ==
  ASSUME TypeOK, NEW h \in Hosts, stack[h] # <<>>, Return(h)
  PROVE  /\ stack' \in [Hosts -> Seq(Frame)]
         /\ \A g \in Hosts \ {h} : stack'[g] = stack[g]
         /\ stack'[h] # <<>> => 2 \in DOMAIN stack[h] /\ Head(stack'[h]).at = stack[h][2].at
         /\ \A k \in DOMAIN stack'[h] :
              /\ k \in Nat /\ k >= 1 /\ k + 1 \in DOMAIN stack[h]
              /\ stack'[h][k].path = stack[h][k + 1].path
              /\ stack'[h][k].at = stack[h][k + 1].at
              /\ stack'[h][k].todo = stack[h][k + 1].todo
<1>1. stack \in [Hosts -> Seq(Frame)] /\ stack[h] \in Seq(Frame)
  BY DEF TypeOK
<1>2. CASE Tail(stack[h]) = <<>>
  <2>1. stack' = [stack EXCEPT ![h] = <<>>]
    BY <1>2 DEF Return
  <2>2. stack'[h] = <<>> /\ stack' \in [Hosts -> Seq(Frame)]
    BY <1>1, <2>1
  <2>3. \A g \in Hosts \ {h} : stack'[g] = stack[g]
    BY <1>1, <2>1
  <2>4. DOMAIN stack'[h] = {}
    BY <2>2
  <2>5. QED
    BY <2>2, <2>3, <2>4
<1>3. CASE Tail(stack[h]) # <<>>
  <2>1. PICK spent \in BOOLEAN :
          stack' = [stack EXCEPT ![h] = [Tail(stack[h]) EXCEPT ![1].spent = spent]]
    BY <1>3 DEF Return
  <2> DEFINE f == [Tail(stack[h])[1] EXCEPT !.spent = spent]
  <2>2. Tail(stack[h])[1] \in Frame /\ Tail(stack[h])[1] = stack[h][2]
    <3>1. /\ Tail(stack[h]) \in Seq(Frame)
          /\ \A i \in 1 .. Len(Tail(stack[h])) : Tail(stack[h])[i] = stack[h][i + 1]
      BY <1>1, HeadTailProperties
    <3>2. 1 \in 1 .. Len(Tail(stack[h])) /\ Tail(stack[h])[1] \in Frame
      BY <1>3, <3>1, TopFrame
    <3>3. Tail(stack[h])[1] = stack[h][1 + 1]
      BY <3>1, <3>2
    <3>4. QED
      BY <3>2, <3>3
  <2>3. /\ f \in Frame /\ f.path = stack[h][2].path /\ f.at = stack[h][2].at
        /\ f.todo = stack[h][2].todo
    <3>1. spent \in BOOLEAN
      OBVIOUS
    <3>2. \A r \in Frame : \A b \in BOOLEAN :
            /\ [r EXCEPT !.spent = b] \in Frame /\ [r EXCEPT !.spent = b].path = r.path
            /\ [r EXCEPT !.spent = b].at = r.at /\ [r EXCEPT !.spent = b].todo = r.todo
      BY DEF Frame
    <3>3. QED
      BY <2>2, <3>1, <3>2
  <2>4. stack' = [stack EXCEPT ![h] = [Tail(stack[h]) EXCEPT ![1] = f]]
    BY <2>1
  <2> HIDE DEF f
  <2>5. PICK t : t = [Tail(stack[h]) EXCEPT ![1] = f]
    OBVIOUS
  <2>6. /\ t \in Seq(Frame) /\ t # <<>>
        /\ \A k \in DOMAIN t :
             /\ k + 1 \in DOMAIN stack[h] /\ k + 1 > 1
             /\ t[k].path = stack[h][k + 1].path /\ t[k].at = stack[h][k + 1].at
             /\ t[k].todo = stack[h][k + 1].todo
        /\ Head(t).at = stack[h][2].at /\ 2 \in DOMAIN stack[h]
    <3>1. PICK s : s = stack[h]
      OBVIOUS
    <3>2. PICK frame : frame = f
      OBVIOUS
    <3>3. s \in Seq(Frame) /\ s # <<>> /\ Tail(s) # <<>> /\ frame \in Frame
      BY <1>1, <1>3, <2>3, <3>1, <3>2
    <3>4. frame.path = s[2].path /\ frame.at = s[2].at /\ frame.todo = s[2].todo
      BY <2>3, <3>1, <3>2
    <3>5. t = [Tail(s) EXCEPT ![1] = frame]
      BY <2>5, <3>1, <3>2
    <3>6. /\ t \in Seq(Frame) /\ t # <<>>
          /\ \A k \in DOMAIN t :
               /\ k + 1 \in DOMAIN s /\ k + 1 > 1
               /\ t[k].path = s[k + 1].path /\ t[k].at = s[k + 1].at
               /\ t[k].todo = s[k + 1].todo
          /\ Head(t).at = s[2].at /\ 2 \in DOMAIN s
      <4> HIDE <2>1, <2>2, <2>3, <2>4, <2>5, <3>1, <3>2
      <4>1. QED
        BY <3>3, <3>4, <3>5, TopPopped, SMTT(30)
    <3>7. QED
      BY <3>1, <3>6
  <2>7. stack' = [stack EXCEPT ![h] = t]
    BY <2>4, <2>5
  <2>8. stack'[h] = t /\ \A g \in Hosts \ {h} : stack'[g] = stack[g]
    BY <1>1, <2>7
  <2>9. stack' \in [Hosts -> Seq(Frame)]
    BY <1>1, <2>6, <2>7
  <2>10. \A k \in DOMAIN t : k \in Nat /\ k >= 1
    BY <2>6, TopFrame
  <2>11. QED
    BY <2>6, <2>8, <2>9, <2>10
<1>4. QED
  BY <1>2, <1>3

(* A call begins with its actor's children.                                *)
LEMMA CallFrame ==
  ASSUME TypeOK, NEW p \in Paths
  PROVE  /\ Call(p) \in Frame /\ Call(p).path = p /\ Call(p).at = "children"
         /\ Call(p).todo = {c \in cell : Parent[c] = p}
<1>1. {c \in cell : Parent[c] = p} \subseteq Paths
  BY DEF TypeOK
<1>2. QED
  BY <1>1 DEF Call, Frame

(* A host's stop begins.                                                   *)
LEMMA Begins ==
  ASSUME TypeOK, NEW h \in Hosts, BeginStop(h)
  PROVE  /\ stack' \in [Hosts -> Seq(Frame)] /\ stack[h] = <<>>
         /\ \A g \in Hosts \ {h} : stack'[g] = stack[g]
         /\ \E p \in Paths : /\ stack'[h] = <<Call(p)>> /\ DOMAIN stack'[h] = {1}
                             /\ Head(stack'[h]) = Call(p) /\ stack'[h][1] = Call(p)
<1>1. PICK p \in Paths : stack' = [stack EXCEPT ![h] = <<Call(p)>>]
  BY DEF BeginStop
<1>2. PICK f : f = Call(p)
  OBVIOUS
<1>3. f \in Frame
  BY <1>2, CallFrame
<1>4. PICK t : t = <<f>>
  OBVIOUS
<1>5. t \in Seq(Frame) /\ DOMAIN t = {1} /\ Head(t) = f /\ t[1] = f
  BY <1>3, <1>4
<1>6. stack \in [Hosts -> Seq(Frame)] /\ stack' = [stack EXCEPT ![h] = t]
  BY <1>1, <1>2, <1>4 DEF TypeOK
<1>7. stack'[h] = t /\ (\A g \in Hosts \ {h} : stack'[g] = stack[g])
  BY <1>6
<1>8. stack' \in [Hosts -> Seq(Frame)]
  BY <1>5, <1>6
<1>9. stack[h] = <<>>
  BY DEF BeginStop
<1>10. QED
  BY <1>2, <1>4, <1>5, <1>7, <1>8, <1>9

(* A stop turns to one of the children.                                    *)
LEMMA Descends ==
  ASSUME TypeOK, NEW h \in Hosts, Descend(h)
  PROVE  /\ stack' \in [Hosts -> Seq(Frame)]
         /\ \A g \in Hosts \ {h} : stack'[g] = stack[g]
         /\ stack[h] # <<>> /\ 1 \in DOMAIN stack[h] /\ Head(stack[h]) = stack[h][1]
         /\ \E c \in Paths :
              /\ c \in Head(stack[h]).todo
              /\ stack'[h] # <<>> /\ Head(stack'[h]) = stack'[h][1] /\ stack'[h][1] = Call(c)
              /\ stack'[h][2].at = "children" /\ stack'[h][2].path = stack[h][1].path
              /\ stack'[h][2].todo = stack[h][1].todo \ {c}
              /\ \A k \in DOMAIN stack'[h] :
                   k \in {1, 2} \/ (/\ k > 2 /\ k - 1 \in DOMAIN stack[h] /\ k - 1 > 1
                                    /\ stack'[h][k] = stack[h][k - 1])
<1>1. stack[h] # <<>> /\ stack \in [Hosts -> Seq(Frame)] /\ stack[h] \in Seq(Frame)
  BY DEF Descend, Calls, TypeOK
<1>2. Head(stack[h]) \in Frame /\ 1 \in DOMAIN stack[h] /\ Head(stack[h]) = stack[h][1]
  BY <1>1, TopFrame
<1>3. PICK c \in Head(stack[h]).todo :
        Replaced(h, <<Call(c), [Head(stack[h]) EXCEPT !.todo = @ \ {c}]>>)
  BY DEF Descend
<1>4. c \in Paths
  BY <1>2, <1>3 DEF Frame
<1>5. PICK e, f : e = Call(c) /\ f = [Head(stack[h]) EXCEPT !.todo = @ \ {c}]
  OBVIOUS
<1>6. e \in Frame
  BY <1>4, <1>5, CallFrame
<1>7. /\ f \in Frame /\ f.at = Head(stack[h]).at /\ f.path = Head(stack[h]).path
      /\ f.todo = Head(stack[h]).todo \ {c}
  BY <1>2, <1>5 DEF Frame
<1>8. PICK t : t = <<e, f>> \o Tail(stack[h])
  OBVIOUS
<1>9. /\ t \in Seq(Frame) /\ t # <<>> /\ Head(t) = e /\ t[1] = e /\ t[2] = f
      /\ \A k \in DOMAIN t : k \in {1, 2} \/ (k > 2 /\ k - 1 \in DOMAIN stack[h]
                                              /\ k - 1 > 1 /\ t[k] = stack[h][k - 1])
  BY <1>1, <1>6, <1>7, <1>8, TopPushed
<1>10. stack' = [stack EXCEPT ![h] = t]
  BY <1>3, <1>5, <1>8 DEF Replaced
<1>11. stack'[h] = t /\ (\A g \in Hosts \ {h} : stack'[g] = stack[g])
  BY <1>1, <1>10
<1>12. stack' \in [Hosts -> Seq(Frame)]
  BY <1>1, <1>9, <1>10
<1>13. Head(stack[h]).at = "children"
  BY DEF Descend, Calls
<1>14. QED
  BY <1>1, <1>2, <1>3, <1>4, <1>5, <1>7, <1>9, <1>11, <1>12, <1>13

----------------------------------------------------------------------------
(* Type correctness, and what never comes back.                            *)

(* The initial state is well typed.                                        *)
LEMMA InitType == Init => TypeOK
<1>1. SUFFICES ASSUME Init PROVE TypeOK
  OBVIOUS
<1>2. PICK scenario \in Scenarios :
        /\ loop = [p \in Paths |-> IF p \in scenario.alive THEN "idle" ELSE "ended"]
        /\ cell = scenario.alive /\ handle = scenario.alive
        /\ signalled = {} /\ claimed = Paths \ scenario.alive
        /\ hooks = [p \in Paths |-> IF p \in scenario.alive THEN 0 ELSE 1]
        /\ work = [p \in Paths |-> 0]
        /\ stack = [h \in Hosts |-> <<>>]
        /\ left = [stops |-> scenario.stops, sweeps |-> scenario.sweeps]
        /\ sweep = [at |-> "none", todo |-> {}]
        /\ barrier = FALSE /\ raced = {}
  BY <1>1 DEF Init
<1>3. scenario \in [alive : SUBSET Paths, stops : Nat, sweeps : 0 .. 1]
  BY StopTreeAssumption
<1>4. scenario.alive \subseteq Paths /\ 0 \in 0 .. MaxWork
  BY <1>3, StopTreeAssumption
<1>5. left \in [stops : Nat, sweeps : 0 .. 1]
  BY <1>2, <1>3
<1>6. /\ loop \in [Paths -> {"idle", "busy", "stuck"} \cup Exiting \cup Over]
      /\ hooks \in [Paths -> Nat] /\ work \in [Paths -> 0 .. MaxWork]
  BY <1>2, <1>4 DEF Over, Exiting
<1>7. stack \in [Hosts -> Seq(Frame)]
  BY <1>2
<1>8. /\ sweep \in [at : {"none", "collect", "join", "tear", "swept"}, todo : SUBSET Paths]
      /\ barrier \in BOOLEAN /\ raced \subseteq Paths
      /\ cell \subseteq Paths /\ handle \subseteq cell
      /\ signalled \subseteq Paths /\ claimed \subseteq Paths
  BY <1>2, <1>4
<1>9. QED
  BY <1>5, <1>6, <1>7, <1>8 DEF TypeOK

(* The steps of a loop task.                                               *)
LoopStep(p) ==
  Begin(p) \/ StopSelf(p) \/ Passivate(p) \/ Stick(p) \/ Crash(p) \/ Loop(p)

(* A loop task's step touches its own actor only, and no stop.             *)
LEMMA LoopSteps ==
  ASSUME TypeOK, NEW p \in Paths, LoopStep(p)
  PROVE  /\ TypeOK'
         /\ cell' \subseteq cell /\ handle' \subseteq handle /\ claimed \subseteq claimed'
         /\ cell \ {p} = cell' \ {p} /\ handle \ {p} = handle' \ {p}
         /\ claimed \ {p} = claimed' \ {p}
         /\ \A q \in Paths \ {p} : loop'[q] = loop[q] /\ hooks'[q] = hooks[q]
         /\ loop[p] \notin Over /\ UNCHANGED <<stack, left, sweep, barrier, raced>>
<1>1. loop[p] \in {"idle", "busy", "stuck", "exiting", "hook", "tearing", "ended", "crashed"}
  BY DEF TypeOK, Over, Exiting
<1>2. CASE Begin(p)
  <2>1. /\ loop[p] = "idle" /\ work[p] + 1 \in 0 .. MaxWork
        /\ loop' = [loop EXCEPT ![p] = "busy"] /\ work' = [work EXCEPT ![p] = @ + 1]
        /\ UNCHANGED <<cell, handle, signalled, claimed, hooks, stack, left, sweep, barrier,
                       raced>>
    BY <1>2, StopTreeAssumption DEF Begin, Goes, TypeOK
  <2>2. QED
    BY <2>1 DEF TypeOK, Over, Exiting
<1>3. CASE Finish(p) \/ StopSelf(p) \/ Passivate(p) \/ Stick(p) \/ Crash(p) \/ Obey(p)
  <2>1. PICK to \in {"idle", "exiting", "stuck", "crashed", "ended"} :
          loop[p] \in {"idle", "busy"} /\ loop' = [loop EXCEPT ![p] = to] /\ Quietly
    BY <1>3 DEF Finish, StopSelf, Passivate, Stick, Crash, Obey, Goes
  <2>2. QED
    BY <2>1 DEF Quietly, TypeOK, Over, Exiting
<1>4. CASE ExitClaims(p)
  <2>1. PICK to \in {"tearing", "hook"} :
          /\ loop[p] = "exiting" /\ loop' = [loop EXCEPT ![p] = to]
          /\ claimed' = claimed \cup {p}
          /\ UNCHANGED <<cell, handle, signalled, hooks, work, stack, left, sweep, barrier,
                         raced>>
    BY <1>4 DEF ExitClaims, Goes
  <2>2. QED
    BY <2>1 DEF TypeOK, Over, Exiting
<1>5. CASE ExitHooks(p)
  <2>1. PICK n \in Nat :
          /\ loop[p] = "hook" /\ loop' = [loop EXCEPT ![p] = "tearing"]
          /\ hooks' = [hooks EXCEPT ![p] = n]
          /\ UNCHANGED <<cell, handle, signalled, claimed, work, stack, left, sweep, barrier,
                         raced>>
    <3>1. hooks[p] \in Nat /\ hooks[p] + 1 \in Nat
      BY DEF TypeOK
    <3>2. CASE HookRuns(p)
      BY <1>5, <3>1, <3>2 DEF ExitHooks, Goes, RunHook
    <3>3. CASE ~HookRuns(p)
      BY <1>5, <3>1, <3>3 DEF ExitHooks, Goes, RunHook
    <3>4. QED
      BY <3>2, <3>3
  <2>2. QED
    BY <2>1 DEF TypeOK, Over, Exiting
<1>6. CASE ExitTears(p)
  <2>1. /\ loop[p] = "tearing" /\ loop' = [loop EXCEPT ![p] = "ended"]
        /\ cell' = cell \ {p} /\ handle' = handle \ {p}
        /\ UNCHANGED <<signalled, claimed, hooks, work, stack, left, sweep, barrier, raced>>
    BY <1>6 DEF ExitTears, Goes, Removed
  <2>2. QED
    BY <2>1 DEF TypeOK, Over, Exiting
<1>7. QED
  BY <1>2, <1>3, <1>4, <1>5, <1>6 DEF LoopStep, Loop

(* A host's step keeps the types.                                          *)
LEMMA HostTypes ==
  ASSUME TypeOK, NEW h \in Hosts, BeginStop(h) \/ Stop(h)
  PROVE  TypeOK'
<1>1. CASE BeginStop(h)
  <2>1. stack' \in [Hosts -> Seq(Frame)]
    BY <1>1, Begins
  <2>2. left' = [left EXCEPT !.stops = @ - 1] /\ left.stops > 0
        /\ left \in [stops : Nat, sweeps : 0 .. 1]
    BY <1>1 DEF BeginStop, TypeOK
  <2>3. left' \in [stops : Nat, sweeps : 0 .. 1]
    BY <2>2
  <2>4. QED
    BY <1>1, <2>1, <2>3 DEF BeginStop, actors, TypeOK
<1>2. CASE Descend(h)
  BY <1>2, Descends DEF Descend, actors, TypeOK
<1>3. CASE Descended(h) \/ Joined(h)
  <2>1. PICK from \in {"children", "join"}, to \in {"signal", "claim"} :
          Calls(h, from) /\ Advance(h, to) /\ UNCHANGED <<actors, left, sweep, barrier, raced>>
    BY <1>3 DEF Descended, Joined
  <2>2. stack' \in [Hosts -> Seq(Frame)]
    BY <2>1, Advances
  <2>3. QED
    BY <2>1, <2>2 DEF actors, TypeOK
<1>4. CASE Signal(h)
  <2>1. PICK to \in {"join", "tear"} :
          /\ Calls(h, "signal") /\ Advance(h, to)
          /\ signalled' \subseteq signalled \cup {Callee(h)} /\ handle' \subseteq handle
          /\ UNCHANGED <<loop, cell, claimed, hooks, work, left, sweep, barrier, raced>>
    BY <1>4 DEF Signal
  <2>2. stack' \in [Hosts -> Seq(Frame)] /\ Callee(h) \in Paths
    BY <2>1, Advances
  <2>3. QED
    BY <2>1, <2>2 DEF TypeOK
<1>5. CASE SignalNobody(h)
  <2>1. stack' \in [Hosts -> Seq(Frame)]
    BY <1>5, Returns DEF SignalNobody, Calls
  <2>2. QED
    BY <1>5, <2>1 DEF SignalNobody, actors, TypeOK
<1>6. CASE TimesOut(h)
  <2>1. stack[h] # <<>> /\ stack[h] \in Seq(Frame)
    BY <1>6 DEF TimesOut, Calls, TypeOK
  <2>2. Head(stack[h]) \in Frame
    BY <2>1, TopFrame
  <2>3. PICK f : f = [Head(stack[h]) EXCEPT !.at = "tear", !.spent = TRUE]
    OBVIOUS
  <2>4. f \in Frame /\ Callee(h) \in Paths
    BY <2>2, <2>3 DEF Frame, Callee
  <2>5. Replaced(h, <<f>>)
    BY <1>6, <2>3 DEF TimesOut
  <2>6. stack' \in [Hosts -> Seq(Frame)]
    BY <2>1, <2>4, <2>5, StackReplaced
  <2>7. QED
    BY <1>6, <2>4, <2>6 DEF TimesOut, TypeOK, Over
<1>7. CASE ClaimHook(h)
  <2>1. PICK to \in {"hook", "tear"} :
          /\ Calls(h, "claim") /\ Advance(h, to)
          /\ claimed' \subseteq claimed \cup {Callee(h)}
          /\ UNCHANGED <<loop, cell, handle, signalled, hooks, work, left, sweep, barrier,
                         raced>>
    BY <1>7 DEF ClaimHook
  <2>2. stack' \in [Hosts -> Seq(Frame)] /\ Callee(h) \in Paths
    BY <2>1, Advances
  <2>3. QED
    BY <2>1, <2>2 DEF TypeOK
<1>8. CASE Hook(h)
  <2>1. stack' \in [Hosts -> Seq(Frame)] /\ Callee(h) \in Paths
    BY <1>8, Advances DEF Hook
  <2>2. hooks[Callee(h)] \in Nat /\ hooks[Callee(h)] + 1 \in Nat
    BY <2>1 DEF TypeOK
  <2>3. hooks' \in [Paths -> Nat]
    <3>1. CASE HookRuns(Callee(h))
      BY <1>8, <2>2, <3>1 DEF Hook, RunHook, TypeOK
    <3>2. CASE ~HookRuns(Callee(h))
      BY <1>8, <2>2, <3>2 DEF Hook, RunHook, TypeOK
    <3>3. QED
      BY <3>1, <3>2
  <2>4. QED
    BY <1>8, <2>1, <2>3 DEF Hook, TypeOK
<1>9. CASE Tear(h)
  <2>1. stack[h] # <<>> /\ stack[h] \in Seq(Frame) /\ Return(h)
    BY <1>9 DEF Tear, Calls, TypeOK
  <2>2. stack' \in [Hosts -> Seq(Frame)]
    BY <2>1, Returns
  <2>3. Head(stack[h]) \in Frame
    BY <2>1, TopFrame
  <2>4. Callee(h) \in Paths
    BY <2>3 DEF Callee, Frame
  <2>5. raced' \subseteq raced \cup {Callee(h)}
    BY <1>9 DEF Tear
  <2>6. QED
    BY <1>9, <2>2, <2>4, <2>5 DEF Tear, Removed, TypeOK
<1>10. QED
  BY <1>1, <1>2, <1>3, <1>4, <1>5, <1>6, <1>7, <1>8, <1>9 DEF Stop

(* So does a step of the sweep.                                            *)
LEMMA SweepTypes ==
  ASSUME TypeOK, RaiseBarrier \/ Sweep
  PROVE  TypeOK'
<1>1. CASE RaiseBarrier
  <2>1. /\ left' = [left EXCEPT !.sweeps = @ - 1] /\ left.sweeps > 0
        /\ left \in [stops : Nat, sweeps : 0 .. 1]
    BY <1>1 DEF RaiseBarrier, TypeOK
  <2>2. left.sweeps - 1 \in 0 .. 1
    BY <2>1
  <2>3. left' \in [stops : Nat, sweeps : 0 .. 1]
    BY <2>1, <2>2
  <2>4. QED
    BY <1>1, <2>3 DEF RaiseBarrier, actors, TypeOK
<1>2. CASE Collect
  BY <1>2 DEF Collect, TypeOK
<1>3. CASE SweepJoined \/ Flush
  BY <1>3 DEF SweepJoined, Flush, actors, TypeOK
<1>4. CASE SweepExpires
  BY <1>4 DEF SweepExpires, actors, TypeOK
<1>5. CASE SweepTears
  BY <1>5 DEF SweepTears, Removed, TypeOK
<1>6. QED
  BY <1>1, <1>2, <1>3, <1>4, <1>5 DEF Sweep

(* Every step keeps the types.                                             *)
LEMMA StepType == TypeOK /\ [Next]_vars => TypeOK'
<1>1. SUFFICES ASSUME TypeOK, [Next]_vars PROVE TypeOK'
  OBVIOUS
<1>2. CASE UNCHANGED vars
  BY <1>1, <1>2 DEF vars, actors, TypeOK
<1>3. CASE \E p \in Paths : LoopStep(p)
  BY <1>1, <1>3, LoopSteps
<1>4. CASE \E h \in Hosts : BeginStop(h) \/ Stop(h)
  BY <1>1, <1>4, HostTypes
<1>5. CASE RaiseBarrier \/ Sweep
  BY <1>1, <1>5, SweepTypes
<1>6. QED
  BY <1>1, <1>2, <1>3, <1>4, <1>5 DEF Next, LoopStep

(* Every variable keeps its type.                                          *)
THEOREM TypeCorrect == Spec => []TypeOK
  BY InitType, StepType, PTL DEF Spec

----------------------------------------------------------------------------
(* The inductive invariant.                                                *)

Gone(p) == p \notin cell /\ IsOver(p)

(* The innermost call of host h is a stop of p and at one of these places. *)
At(h, p, places) == stack[h] # <<>> /\ Callee(h) = p /\ Head(stack[h]).at \in places

(* It has nothing of its actor in hand yet.                                *)
Quiet(h) == stack[h] = <<>> \/ Head(stack[h]).at \in {"children", "signal"}

(* The outer calls of a stop wait with their children.                     *)
WaitInv ==
  \A h \in Hosts : \A k \in DOMAIN stack[h] : k > 1 => stack[h][k].at = "children"

(* An actor leaves the tables when its loop is over.                       *)
GoneInv == \A p \in Paths \ raced : p \in cell \/ IsOver(p)

(* A child that is no longer on a call's list is gone, or the call inside  *)
(* is about it.                                                            *)
ChildInv ==
  \A h \in Hosts : \A k \in DOMAIN stack[h] :
    \A c \in Paths \ (stack[h][k].todo \cup raced) :
      Parent[c] = stack[h][k].path => Gone(c) \/ (k > 1 /\ stack[h][k - 1].path = c)

(* The hook belongs to whoever claimed it, and that is one: the loop, or   *)
(* one host that has waited for the loop.  Who waits has taken the handle. *)
OneHook(p) ==
  /\ hooks[p] <= 1
  /\ p \notin claimed => hooks[p] = 0 /\ loop[p] \notin {"hook", "tearing"}
  /\ loop[p] = "hook" => hooks[p] = 0
  /\ \A h \in Hosts :
       /\ At(h, p, {"claim", "hook"}) => IsOver(p)
       /\ At(h, p, {"join", "claim", "hook", "tear"}) => p \notin handle
       /\ At(h, p, {"hook"}) => /\ p \in claimed /\ hooks[p] = 0
                                /\ \A g \in Hosts \ {h} : ~At(g, p, {"hook"})

ClaimInv == \A p \in Paths : OneHook(p)

(* The hook has run, or its loop or a host at one of these places will     *)
(* see to it.                                                              *)
HookDue(p, places) == hooks[p] = 1 \/ loop[p] = "hook" \/ \E h \in Hosts : At(h, p, places)

(* Until a shutdown begins no hook is forgotten: not of an actor that is   *)
(* gone, not once it is claimed, not once the handle is taken.             *)
Due(p) ==
  /\ p \notin cell => hooks[p] = 1
  /\ p \in claimed => HookDue(p, {"hook"})
  /\ p \in cell \ handle => HookDue(p, {"join", "claim", "hook"})

DueInv == ~barrier => \A p \in Paths \ raced : Due(p)

(* The sweep has every actor in hand that is left.                         *)
SweepInv ==
  /\ sweep.at # "none" => barrier
  /\ sweep.at \in {"join", "tear", "swept"} =>
       \A p \in Paths \ raced : p \in sweep.todo \/ Gone(p)
  /\ sweep.at = "tear" => \A p \in sweep.todo \ raced : IsOver(p)
  /\ sweep.at = "swept" => sweep.todo = {}

StopInv == WaitInv /\ GoneInv /\ ChildInv /\ ClaimInv /\ DueInv /\ SweepInv

(* What a host's step does to the actor it is about.                       *)
Move(h, p, from, to) == p \in Paths /\ At(h, p, {from}) /\ At(h, p, {to})'

QuietMove(h) == Quiet(h) /\ Quiet(h)' /\ UNCHANGED <<actors, raced>>

SignalMove(h, p) ==
  /\ p \in cell \cap handle /\ Quiet(h) /\ At(h, p, {"join"})'
  /\ handle' = handle \ {p}
  /\ UNCHANGED <<loop, cell, claimed, hooks, raced>>

PassMove(h, p) ==
  /\ p \in cell \ handle /\ Quiet(h) /\ At(h, p, {"tear"})'
  /\ UNCHANGED <<loop, cell, handle, claimed, hooks, raced>>

JoinMove(h, p) ==
  Move(h, p, "join", "claim") /\ IsOver(p) /\ UNCHANGED <<actors, raced>>

AbortMove(h, p) ==
  /\ Move(h, p, "join", "tear") /\ ~IsOver(p)
  /\ loop' = [loop EXCEPT ![p] = "ended"] /\ raced' = raced \cup {p}
  /\ UNCHANGED <<cell, handle, claimed, hooks>>

ClaimMove(h, p) ==
  /\ Move(h, p, "claim", "hook") /\ p \in cell \ claimed /\ claimed' = claimed \cup {p}
  /\ UNCHANGED <<loop, cell, handle, hooks, raced>>

LateMove(h, p) ==
  /\ Move(h, p, "claim", "tear") /\ p \notin cell \ claimed
  /\ UNCHANGED <<loop, cell, handle, claimed, hooks, raced>>

HookMove(h, p) ==
  /\ Move(h, p, "hook", "tear") /\ RunHook(p)
  /\ UNCHANGED <<loop, cell, handle, claimed, raced>>

TearMove(h, p) ==
  /\ p \in Paths /\ At(h, p, {"tear"}) /\ Quiet(h)' /\ Removed(p)
  /\ raced' = IF ~IsOver(p) \/ StoppedBy(Hosts \ {h}, p) THEN raced \cup {p} ELSE raced
  /\ UNCHANGED <<loop, claimed, hooks>>

ActorMove(h, p) ==
  \/ SignalMove(h, p) \/ PassMove(h, p) \/ JoinMove(h, p) \/ AbortMove(h, p)
  \/ ClaimMove(h, p) \/ LateMove(h, p) \/ HookMove(h, p) \/ TearMove(h, p)

(* The call that a return uncovers was waiting with its children.          *)
LEMMA ReturnsQuiet ==
  ASSUME TypeOK, WaitInv, NEW h \in Hosts, stack[h] # <<>>, Return(h)
  PROVE  Quiet(h)'
<1>1. CASE stack'[h] = <<>>
  BY <1>1 DEF Quiet
<1>2. CASE stack'[h] # <<>>
  <2>1. 2 \in DOMAIN stack[h] /\ Head(stack'[h]).at = stack[h][2].at
    BY <1>2, Returns
  <2>2. stack[h][2].at = "children"
    BY <2>1 DEF WaitInv
  <2>3. QED
    BY <2>1, <2>2 DEF Quiet
<1>3. QED
  BY <1>1, <1>2

(* Every step of a host is one of these, and of no other host's stack.     *)
LEMMA HostMoves ==
  ASSUME TypeOK, WaitInv, NEW h \in Hosts, BeginStop(h) \/ Stop(h)
  PROVE  /\ UNCHANGED <<sweep, barrier>>
         /\ \A g \in Hosts \ {h} : stack'[g] = stack[g]
         /\ QuietMove(h) \/ \E p \in Paths : ActorMove(h, p)
<1> DEFINE p == Callee(h)
<1>1. CASE BeginStop(h)
  <2>1. PICK q \in Paths : Head(stack'[h]) = Call(q)
    BY <1>1, Begins
  <2>2. Call(q).at = "children"
    BY CallFrame
  <2>3. Quiet(h) /\ Quiet(h)' /\ \A g \in Hosts \ {h} : stack'[g] = stack[g]
    BY <1>1, <2>1, <2>2, Begins DEF Quiet
  <2>4. QED
    BY <1>1, <2>3 DEF BeginStop, QuietMove
<1>2. CASE Descend(h)
  <2>1. PICK q \in Paths : stack'[h] # <<>> /\ Head(stack'[h]) = Call(q)
    BY <1>2, Descends
  <2>2. Call(q).at = "children"
    BY CallFrame
  <2>3. Quiet(h) /\ Quiet(h)' /\ \A g \in Hosts \ {h} : stack'[g] = stack[g]
    BY <1>2, <2>1, <2>2, Descends DEF Quiet, Descend, Calls
  <2>4. QED
    BY <1>2, <2>3 DEF Descend, QuietMove
<1>3. CASE Descended(h)
  <2>1. /\ \A g \in Hosts \ {h} : stack'[g] = stack[g]
        /\ stack'[h] # <<>> /\ Head(stack'[h]).at = "signal"
    BY <1>3, Advances DEF Descended
  <2>2. Quiet(h) /\ Quiet(h)'
    BY <1>3, <2>1 DEF Descended, Calls, Quiet
  <2>3. QED
    BY <1>3, <2>1, <2>2 DEF Descended, QuietMove
<1>4. CASE Signal(h)
  <2>1. Quiet(h) /\ Calls(h, "signal") /\ p \in cell
    BY <1>4 DEF Signal, Calls, Quiet
  <2>2. CASE p \in handle
    <3>1. Advance(h, "join") /\ handle' = handle \ {p}
      BY <1>4, <2>2 DEF Signal
    <3>2. /\ \A g \in Hosts \ {h} : stack'[g] = stack[g]
          /\ At(h, p, {"join"})' /\ p \in Paths
      BY <2>1, <3>1, Advances DEF At, Callee
    <3>3. SignalMove(h, p)
      BY <1>4, <2>1, <2>2, <3>1, <3>2 DEF Signal, SignalMove
    <3>4. QED
      BY <1>4, <3>2, <3>3 DEF Signal, ActorMove
  <2>3. CASE p \notin handle
    <3>1. Advance(h, "tear") /\ handle' = handle
      BY <1>4, <2>3 DEF Signal
    <3>2. /\ \A g \in Hosts \ {h} : stack'[g] = stack[g]
          /\ At(h, p, {"tear"})' /\ p \in Paths
      BY <2>1, <3>1, Advances DEF At, Callee
    <3>3. PassMove(h, p)
      BY <1>4, <2>1, <2>3, <3>1, <3>2 DEF Signal, PassMove
    <3>4. QED
      BY <1>4, <3>2, <3>3 DEF Signal, ActorMove
  <2>4. QED
    BY <2>2, <2>3
<1>5. CASE SignalNobody(h)
  <2>1. Calls(h, "signal") /\ stack[h] # <<>> /\ Return(h)
    BY <1>5 DEF SignalNobody, Calls
  <2>2. Quiet(h)'
    BY <2>1, ReturnsQuiet
  <2>3. Quiet(h) /\ \A g \in Hosts \ {h} : stack'[g] = stack[g]
    BY <2>1, Returns DEF Calls, Quiet
  <2>4. QED
    BY <1>5, <2>2, <2>3 DEF SignalNobody, QuietMove
<1>6. CASE Joined(h)
  <2>1. /\ \A g \in Hosts \ {h} : stack'[g] = stack[g]
        /\ At(h, p, {"claim"})' /\ p \in Paths /\ At(h, p, {"join"})
    BY <1>6, Advances DEF Joined, At, Callee, Calls
  <2>2. JoinMove(h, p)
    BY <1>6, <2>1 DEF Joined, JoinMove, Move
  <2>3. QED
    BY <1>6, <2>1, <2>2 DEF Joined, ActorMove
<1>7. CASE TimesOut(h)
  <2>1. stack[h] # <<>> /\ stack[h] \in Seq(Frame)
    BY <1>7 DEF TimesOut, Calls, TypeOK
  <2>2. Head(stack[h]) \in Frame
    BY <2>1, TopFrame
  <2>3. PICK f : f = [Head(stack[h]) EXCEPT !.at = "tear", !.spent = TRUE]
    OBVIOUS
  <2>4. f \in Frame /\ p \in Paths /\ f.at = "tear" /\ f.path = p
    BY <2>2, <2>3 DEF Frame, Callee
  <2>5. Replaced(h, <<f>>)
    BY <1>7, <2>3 DEF TimesOut
  <2>6. /\ \A g \in Hosts \ {h} : stack'[g] = stack[g]
        /\ stack'[h] # <<>> /\ Head(stack'[h]) = f
    BY <2>1, <2>4, <2>5, StackReplaced
  <2>7. At(h, p, {"tear"})' /\ At(h, p, {"join"})
    BY <1>7, <2>4, <2>6 DEF TimesOut, At, Callee, Calls
  <2>8. AbortMove(h, p)
    BY <1>7, <2>4, <2>7 DEF TimesOut, AbortMove, Move
  <2>9. QED
    BY <1>7, <2>4, <2>6, <2>8 DEF TimesOut, ActorMove
<1>8. CASE ClaimHook(h)
  <2>1. Calls(h, "claim")
    BY <1>8 DEF ClaimHook
  <2>2. CASE p \in cell \ claimed
    <3>1. Advance(h, "hook") /\ claimed' = claimed \cup {p}
      BY <1>8, <2>2 DEF ClaimHook
    <3>2. /\ \A g \in Hosts \ {h} : stack'[g] = stack[g]
          /\ At(h, p, {"hook"})' /\ p \in Paths /\ At(h, p, {"claim"})
      BY <2>1, <3>1, Advances DEF At, Callee, Calls
    <3>3. ClaimMove(h, p)
      BY <1>8, <2>2, <3>1, <3>2 DEF ClaimHook, ClaimMove, Move
    <3>4. QED
      BY <1>8, <3>2, <3>3 DEF ClaimHook, ActorMove
  <2>3. CASE p \notin cell \ claimed
    <3>1. Advance(h, "tear") /\ claimed' = claimed
      BY <1>8, <2>3 DEF ClaimHook
    <3>2. /\ \A g \in Hosts \ {h} : stack'[g] = stack[g]
          /\ At(h, p, {"tear"})' /\ p \in Paths /\ At(h, p, {"claim"})
      BY <2>1, <3>1, Advances DEF At, Callee, Calls
    <3>3. LateMove(h, p)
      BY <1>8, <2>3, <3>1, <3>2 DEF ClaimHook, LateMove, Move
    <3>4. QED
      BY <1>8, <3>2, <3>3 DEF ClaimHook, ActorMove
  <2>4. QED
    BY <2>2, <2>3
<1>9. CASE Hook(h)
  <2>1. /\ \A g \in Hosts \ {h} : stack'[g] = stack[g]
        /\ At(h, p, {"tear"})' /\ p \in Paths /\ At(h, p, {"hook"})
    BY <1>9, Advances DEF Hook, At, Callee, Calls
  <2>2. HookMove(h, p)
    BY <1>9, <2>1 DEF Hook, HookMove, Move
  <2>3. QED
    BY <1>9, <2>1, <2>2 DEF Hook, ActorMove
<1>10. CASE Tear(h)
  <2>1. Calls(h, "tear") /\ stack[h] # <<>> /\ stack[h] \in Seq(Frame) /\ Return(h)
    BY <1>10 DEF Tear, Calls, TypeOK
  <2>2. Quiet(h)'
    BY <2>1, ReturnsQuiet
  <2>3. \A g \in Hosts \ {h} : stack'[g] = stack[g]
    BY <2>1, Returns
  <2>4. p \in Paths
    BY <2>1, TopFrame DEF Frame, Callee
  <2>5. TearMove(h, p)
    BY <1>10, <2>1, <2>2, <2>4 DEF Tear, TearMove, At, Calls
  <2>6. QED
    BY <1>10, <2>3, <2>4, <2>5 DEF Tear, ActorMove
<1>11. QED
  BY <1>1, <1>2, <1>3, <1>4, <1>5, <1>6, <1>7, <1>8, <1>9, <1>10 DEF Stop

----------------------------------------------------------------------------
(* What never comes back: an actor that is gone, over, claimed or raced,   *)
(* a handle once taken, and the barrier once raised.                       *)

(* A host's step undoes none of it.                                        *)
LEMMA HostGrows ==
  ASSUME TypeOK, WaitInv, NEW h \in Hosts, BeginStop(h) \/ Stop(h)
  PROVE  /\ cell' \subseteq cell /\ handle' \subseteq handle
         /\ claimed \subseteq claimed' /\ raced \subseteq raced' /\ barrier' = barrier
         /\ \A p \in Paths : IsOver(p) => IsOver(p)'
<1>1. CASE QuietMove(h)
  BY <1>1, HostMoves DEF QuietMove, actors, IsOver
<1>2. ASSUME NEW p \in Paths, ActorMove(h, p)
      PROVE  /\ cell' \subseteq cell /\ handle' \subseteq handle
             /\ claimed \subseteq claimed' /\ raced \subseteq raced'
             /\ \A q \in Paths : IsOver(q) => IsOver(q)'
  <2>1. CASE SignalMove(h, p) \/ PassMove(h, p) \/ JoinMove(h, p) \/ ClaimMove(h, p)
               \/ LateMove(h, p) \/ HookMove(h, p)
    BY <2>1 DEF SignalMove, PassMove, JoinMove, ClaimMove, LateMove, HookMove, actors, IsOver
  <2>2. CASE AbortMove(h, p)
    BY <2>2 DEF AbortMove, IsOver, Over, TypeOK
  <2>3. CASE TearMove(h, p)
    BY <2>3 DEF TearMove, Removed, IsOver
  <2>4. QED
    BY <1>2, <2>1, <2>2, <2>3 DEF ActorMove
<1>3. QED
  BY <1>1, <1>2, HostMoves

(* Nor does any other.                                                     *)
LEMMA Grows ==
  ASSUME TypeOK, WaitInv, [Next]_vars
  PROVE  /\ cell' \subseteq cell /\ handle' \subseteq handle
         /\ claimed \subseteq claimed' /\ raced \subseteq raced' /\ (barrier => barrier')
         /\ \A p \in Paths : IsOver(p) => IsOver(p)'
<1>1. CASE UNCHANGED vars
  BY <1>1 DEF vars, actors, IsOver
<1>2. ASSUME NEW p \in Paths, LoopStep(p)
      PROVE  /\ cell' \subseteq cell /\ handle' \subseteq handle
             /\ claimed \subseteq claimed' /\ raced \subseteq raced' /\ (barrier => barrier')
             /\ \A q \in Paths : IsOver(q) => IsOver(q)'
  BY <1>2, LoopSteps DEF IsOver
<1>3. CASE \E h \in Hosts : BeginStop(h) \/ Stop(h)
  BY <1>3, HostGrows
<1>4. CASE RaiseBarrier \/ Sweep
  BY <1>4 DEF RaiseBarrier, Sweep, Collect, SweepJoined, SweepExpires, SweepTears, Flush,
              Removed, actors, IsOver, TypeOK
<1>5. QED
  BY <1>1, <1>2, <1>3, <1>4 DEF Next, LoopStep

----------------------------------------------------------------------------
(* The outer calls wait, and the children of a call are gone but for those *)
(* on its list and the one it is about.                                    *)

(* What a host's step does to its frames.                                  *)
FramesBegin(h) ==
  \E p \in Paths : /\ DOMAIN stack'[h] = {1}
                   /\ stack'[h][1].path = p /\ stack'[h][1].at = "children"
                   /\ stack'[h][1].todo = {c \in cell : Parent[c] = p}

FramesDescend(h) ==
  \E p \in Paths :
    /\ 1 \in DOMAIN stack[h] /\ p \in stack[h][1].todo
    /\ stack'[h][1].path = p /\ stack'[h][1].todo = {c \in cell : Parent[c] = p}
    /\ stack'[h][2].path = stack[h][1].path /\ stack'[h][2].at = "children"
    /\ stack'[h][2].todo = stack[h][1].todo \ {p}
    /\ \A k \in DOMAIN stack'[h] :
         k > 2 => /\ k - 1 \in DOMAIN stack[h] /\ k - 1 > 1
                  /\ stack'[h][k] = stack[h][k - 1]

FramesStay(h) ==
  /\ DOMAIN stack'[h] = DOMAIN stack[h]
  /\ \A k \in DOMAIN stack[h] :
       /\ stack'[h][k].path = stack[h][k].path /\ stack'[h][k].todo = stack[h][k].todo
       /\ k > 1 => stack'[h][k].at = stack[h][k].at

FramesReturn(h) ==
  /\ \E p \in Paths : p = stack[h][1].path /\ (p \in raced' \/ Gone(p)')
  /\ \A k \in DOMAIN stack'[h] :
       /\ k + 1 \in DOMAIN stack[h]
       /\ stack'[h][k].path = stack[h][k + 1].path
       /\ stack'[h][k].at = stack[h][k + 1].at
       /\ stack'[h][k].todo = stack[h][k + 1].todo

LEMMA HostFrames ==
  ASSUME TypeOK, GoneInv, NEW h \in Hosts, BeginStop(h) \/ Stop(h)
  PROVE  /\ FramesBegin(h) \/ FramesDescend(h) \/ FramesStay(h) \/ FramesReturn(h)
         /\ \A g \in Hosts \ {h} : stack'[g] = stack[g]
<1>1. CASE BeginStop(h)
  BY <1>1, Begins, CallFrame DEF FramesBegin
<1>2. CASE Descend(h)
  <2>1. PICK p \in Paths :
          /\ p \in Head(stack[h]).todo /\ stack'[h][1] = Call(p)
          /\ stack'[h][2].at = "children" /\ stack'[h][2].path = stack[h][1].path
          /\ stack'[h][2].todo = stack[h][1].todo \ {p}
          /\ \A k \in DOMAIN stack'[h] :
               k \in {1, 2} \/ (/\ k > 2 /\ k - 1 \in DOMAIN stack[h] /\ k - 1 > 1
                                /\ stack'[h][k] = stack[h][k - 1])
    BY <1>2, Descends
  <2>2. /\ 1 \in DOMAIN stack[h] /\ Head(stack[h]) = stack[h][1]
        /\ \A g \in Hosts \ {h} : stack'[g] = stack[g]
    BY <1>2, Descends
  <2>3. stack'[h][1].path = p /\ stack'[h][1].todo = {c \in cell : Parent[c] = p}
    BY <2>1, CallFrame
  <2>4. \A k \in DOMAIN stack'[h] :
          k > 2 => /\ k - 1 \in DOMAIN stack[h] /\ k - 1 > 1
                   /\ stack'[h][k] = stack[h][k - 1]
    BY <2>1
  <2>5. QED
    BY <2>1, <2>2, <2>3, <2>4 DEF FramesDescend
<1>3. ASSUME NEW from, NEW to \in {"signal", "join", "claim", "hook", "tear"},
             Calls(h, from), Advance(h, to)
      PROVE  FramesStay(h) /\ \A g \in Hosts \ {h} : stack'[g] = stack[g]
  BY <1>3, Advances DEF FramesStay, Callee
<1>4. CASE Descended(h) \/ Signal(h) \/ Joined(h) \/ ClaimHook(h) \/ Hook(h)
  <2>1. \E from \in {"children", "signal", "join", "claim", "hook"} :
          \E to \in {"signal", "join", "claim", "hook", "tear"} :
            Calls(h, from) /\ Advance(h, to)
    BY <1>4 DEF Descended, Signal, Joined, ClaimHook, Hook
  <2>2. QED
    BY <1>3, <2>1
<1>5. CASE TimesOut(h)
  <2>1. stack[h] # <<>> /\ stack[h] \in Seq(Frame)
    BY <1>5 DEF TimesOut, Calls, TypeOK
  <2>2. Head(stack[h]) \in Frame /\ Head(stack[h]) = stack[h][1]
    BY <2>1, TopFrame
  <2>3. PICK f : f = [Head(stack[h]) EXCEPT !.at = "tear", !.spent = TRUE]
    OBVIOUS
  <2>4. f \in Frame /\ f.path = stack[h][1].path /\ f.todo = stack[h][1].todo
    BY <2>2, <2>3 DEF Frame
  <2>5. Replaced(h, <<f>>)
    BY <1>5, <2>3 DEF TimesOut
  <2>6. QED
    BY <2>1, <2>4, <2>5, StackReplaced DEF FramesStay
<1>6. CASE SignalNobody(h) \/ Tear(h)
  <2>1. stack[h] # <<>> /\ stack[h] \in Seq(Frame) /\ Return(h)
    BY <1>6 DEF SignalNobody, Tear, Calls, TypeOK
  <2>2. stack[h][1] = Head(stack[h]) /\ stack[h][1].path \in Paths
    BY <2>1, TopFrame DEF Frame
  <2>3. PICK p \in Paths : p = stack[h][1].path /\ p = Callee(h)
    BY <2>2 DEF Callee
  <2>4. p \in raced' \/ Gone(p)'
    <3>1. CASE SignalNobody(h)
      BY <2>3, <3>1 DEF SignalNobody, GoneInv, Gone, actors, IsOver
    <3>2. CASE Tear(h)
      BY <2>3, <3>2 DEF Tear, Removed, Gone, IsOver
    <3>3. QED
      BY <1>6, <3>1, <3>2
  <2>5. \A k \in DOMAIN stack'[h] :
          /\ k + 1 \in DOMAIN stack[h]
          /\ stack'[h][k].path = stack[h][k + 1].path
          /\ stack'[h][k].at = stack[h][k + 1].at
          /\ stack'[h][k].todo = stack[h][k + 1].todo
    BY <2>1, Returns
  <2>6. QED
    BY <2>1, <2>3, <2>4, <2>5, Returns DEF FramesReturn
<1>7. QED
  BY <1>1, <1>2, <1>4, <1>5, <1>6 DEF Stop

(* Waiting outer calls: every step keeps them so.                          *)
LEMMA StepWait == TypeOK /\ GoneInv /\ WaitInv /\ [Next]_vars => WaitInv'
<1>1. SUFFICES ASSUME TypeOK, GoneInv, WaitInv, [Next]_vars PROVE WaitInv'
  OBVIOUS
<1>2. CASE UNCHANGED stack
  BY <1>1, <1>2 DEF WaitInv
<1>3. ASSUME NEW h \in Hosts, BeginStop(h) \/ Stop(h) PROVE WaitInv'
  <2>1. SUFFICES ASSUME NEW k \in DOMAIN stack'[h], k > 1
                 PROVE  stack'[h][k].at = "children"
    BY <1>1, <1>3, HostFrames DEF WaitInv
  <2>2. k \in Nat
    BY <1>1, StepType, SeqIsFunction DEF TypeOK
  <2>3. CASE FramesBegin(h)
    BY <2>1, <2>3 DEF FramesBegin
  <2>4. CASE FramesDescend(h)
    <3>1. CASE k = 2
      BY <2>4, <3>1 DEF FramesDescend
    <3>2. CASE k > 2
      BY <1>1, <2>4, <3>2 DEF FramesDescend, WaitInv
    <3>3. QED
      BY <2>1, <2>2, <3>1, <3>2
  <2>5. CASE FramesStay(h)
    BY <1>1, <2>1, <2>5 DEF FramesStay, WaitInv
  <2>6. CASE FramesReturn(h)
    <3>1. k + 1 > 1 /\ k + 1 \in DOMAIN stack[h] /\ stack'[h][k].at = stack[h][k + 1].at
      BY <2>1, <2>2, <2>6 DEF FramesReturn
    <3>2. QED
      BY <1>1, <3>1 DEF WaitInv
  <2>7. QED
    BY <1>1, <1>3, <2>3, <2>4, <2>5, <2>6, HostFrames
<1>4. CASE \E p \in Paths : LoopStep(p)
  BY <1>1, <1>2, <1>4, LoopSteps
<1>5. CASE RaiseBarrier \/ Sweep
  BY <1>2, <1>5 DEF RaiseBarrier, Sweep, Collect, SweepJoined, SweepExpires, SweepTears, Flush
<1>6. QED
  BY <1>1, <1>2, <1>3, <1>4, <1>5 DEF Next, LoopStep, vars

(* Children are gone first: every step keeps it so.                        *)
LEMMA StepChild ==
  TypeOK /\ GoneInv /\ WaitInv /\ ChildInv /\ [Next]_vars => ChildInv'
<1>1. SUFFICES ASSUME TypeOK, GoneInv, WaitInv, ChildInv, [Next]_vars PROVE ChildInv'
  OBVIOUS
<1>2. \A c \in Paths : (c \in raced => c \in raced') /\ (Gone(c) => Gone(c)')
  BY <1>1, Grows DEF Gone
<1>3. ASSUME NEW g \in Hosts, stack'[g] = stack[g], NEW k \in DOMAIN stack'[g],
             NEW c \in Paths \ (stack'[g][k].todo \cup raced'),
             Parent[c] = stack'[g][k].path
      PROVE  Gone(c)' \/ (k > 1 /\ stack'[g][k - 1].path = c)
  BY <1>1, <1>2, <1>3 DEF ChildInv
<1>4. CASE UNCHANGED stack
  BY <1>3, <1>4 DEF ChildInv
<1>5. ASSUME NEW h \in Hosts, BeginStop(h) \/ Stop(h) PROVE ChildInv'
  <2>1. SUFFICES ASSUME NEW k \in DOMAIN stack'[h],
                        NEW c \in Paths \ (stack'[h][k].todo \cup raced'),
                        Parent[c] = stack'[h][k].path
                 PROVE  Gone(c)' \/ (k > 1 /\ stack'[h][k - 1].path = c)
    BY <1>1, <1>3, <1>5, HostFrames DEF ChildInv
  <2>2. /\ k \in Nat /\ k >= 1 /\ (k > 1 => k - 1 \in DOMAIN stack'[h])
        /\ \A i \in DOMAIN stack[h] : i \in Nat /\ i >= 1 /\ (i > 1 => i - 1 \in DOMAIN stack[h])
    BY <1>1, StepType, SeqIsFunction DEF TypeOK
  <2>3. ASSUME NEW p \in Paths, stack'[h][k].path = p,
               stack'[h][k].todo = {d \in cell : Parent[d] = p}
        PROVE  Gone(c)'
    BY <1>1, <1>2, <2>1, <2>3 DEF GoneInv, Gone
  <2>4. ASSUME NEW i \in DOMAIN stack[h], Parent[c] = stack[h][i].path,
               c \notin stack[h][i].todo
        PROVE  Gone(c)' \/ (i > 1 /\ stack[h][i - 1].path = c)
    BY <1>1, <1>2, <2>1, <2>4 DEF ChildInv
  <2>5. CASE FramesBegin(h)
    BY <2>1, <2>3, <2>5 DEF FramesBegin
  <2>6. CASE FramesDescend(h)
    <3>1. PICK p \in Paths :
            /\ 1 \in DOMAIN stack[h] /\ p \in stack[h][1].todo
            /\ stack'[h][1].path = p /\ stack'[h][1].todo = {d \in cell : Parent[d] = p}
            /\ stack'[h][2].path = stack[h][1].path
            /\ stack'[h][2].todo = stack[h][1].todo \ {p}
            /\ \A i \in DOMAIN stack'[h] :
                 i > 2 => /\ i - 1 \in DOMAIN stack[h] /\ i - 1 > 1
                          /\ stack'[h][i] = stack[h][i - 1]
      BY <2>6 DEF FramesDescend
    <3>2. CASE k = 1
      BY <2>3, <3>1, <3>2
    <3>3. CASE k = 2
      BY <2>1, <2>4, <3>1, <3>3
    <3>4. CASE k > 2
      <4>1. /\ k - 1 \in DOMAIN stack[h] /\ k - 1 > 1 /\ stack'[h][k] = stack[h][k - 1]
        BY <3>1, <3>4
      <4>2. Gone(c)' \/ stack[h][(k - 1) - 1].path = c
        BY <2>1, <2>4, <4>1
      <4>3. stack'[h][k - 1].path = stack[h][(k - 1) - 1].path
        <5>1. CASE k = 3
          BY <3>1, <5>1
        <5>2. CASE k > 3
          BY <2>2, <3>1, <5>2
        <5>3. QED
          BY <2>2, <3>4, <5>1, <5>2
      <4>4. QED
        BY <2>2, <3>4, <4>2, <4>3
    <3>5. QED
      BY <2>2, <3>2, <3>3, <3>4
  <2>7. CASE FramesStay(h)
    <3>1. /\ k \in DOMAIN stack[h] /\ stack'[h][k].path = stack[h][k].path
          /\ stack'[h][k].todo = stack[h][k].todo
          /\ (k > 1 => stack'[h][k - 1].path = stack[h][k - 1].path)
      BY <2>2, <2>7 DEF FramesStay
    <3>2. QED
      BY <2>1, <2>4, <3>1
  <2>8. CASE FramesReturn(h)
    <3>1. /\ k + 1 \in DOMAIN stack[h] /\ stack'[h][k].path = stack[h][k + 1].path
          /\ stack'[h][k].todo = stack[h][k + 1].todo /\ (k + 1) - 1 = k
      BY <2>2, <2>8 DEF FramesReturn
    <3>2. Gone(c)' \/ stack[h][k].path = c
      BY <2>1, <2>4, <3>1
    <3>3. CASE k = 1
      BY <2>1, <2>8, <3>2, <3>3 DEF FramesReturn
    <3>4. CASE k > 1
      <4>1. stack'[h][k - 1].path = stack[h][(k - 1) + 1].path /\ (k - 1) + 1 = k
        BY <2>2, <2>8, <3>4 DEF FramesReturn
      <4>2. QED
        BY <3>2, <3>4, <4>1
    <3>5. QED
      BY <2>2, <3>3, <3>4
  <2>9. QED
    BY <1>1, <1>5, <2>5, <2>6, <2>7, <2>8, HostFrames
<1>6. CASE \E p \in Paths : LoopStep(p)
  BY <1>1, <1>4, <1>6, LoopSteps
<1>7. CASE RaiseBarrier \/ Sweep
  BY <1>4, <1>7 DEF RaiseBarrier, Sweep, Collect, SweepJoined, SweepExpires, SweepTears, Flush
<1>8. QED
  BY <1>1, <1>4, <1>5, <1>6, <1>7 DEF Next, LoopStep, vars

----------------------------------------------------------------------------
(* An actor leaves the tables when its loop is over, or is raced.          *)
LEMMA StepGone == TypeOK /\ WaitInv /\ SweepInv /\ GoneInv /\ [Next]_vars => GoneInv'
<1>1. SUFFICES ASSUME TypeOK, WaitInv, SweepInv, GoneInv, [Next]_vars,
                      NEW p \in Paths \ raced', p \in cell, p \notin cell'
               PROVE  IsOver(p)'
  BY Grows DEF GoneInv
<1>2. ~UNCHANGED vars
  BY <1>1 DEF vars, actors
<1>3. ASSUME NEW q \in Paths, LoopStep(q) PROVE IsOver(p)'
  <2>1. q = p
    BY <1>1, <1>3, LoopSteps
  <2>2. ~Begin(p) /\ ~StopSelf(p) /\ ~Passivate(p) /\ ~Stick(p) /\ ~Crash(p)
        /\ ~Finish(p) /\ ~Obey(p) /\ ~ExitClaims(p) /\ ~ExitHooks(p)
    BY <1>1 DEF Begin, StopSelf, Passivate, Stick, Crash, Finish, Obey, ExitClaims,
                ExitHooks, Quietly
  <2>3. ExitTears(p)
    BY <1>3, <2>1, <2>2 DEF LoopStep, Loop
  <2>4. QED
    BY <1>1, <2>3 DEF ExitTears, Goes, TypeOK, IsOver, Over
<1>4. ASSUME NEW h \in Hosts, BeginStop(h) \/ Stop(h) PROVE IsOver(p)'
  <2>1. ~QuietMove(h)
    BY <1>1 DEF QuietMove, actors
  <2>2. PICK q \in Paths : ActorMove(h, q)
    BY <1>1, <1>4, <2>1, HostMoves
  <2>3. TearMove(h, q)
    BY <1>1, <2>2 DEF ActorMove, SignalMove, PassMove, JoinMove, AbortMove, ClaimMove,
                      LateMove, HookMove, actors
  <2>4. q = p
    BY <1>1, <2>3 DEF TearMove, Removed
  <2>5. QED
    BY <1>1, <2>3, <2>4 DEF TearMove, IsOver
<1>5. CASE RaiseBarrier \/ Sweep
  <2>1. SweepTears
    BY <1>1, <1>5 DEF RaiseBarrier, Sweep, Collect, SweepJoined, SweepExpires, Flush, actors
  <2>2. QED
    BY <1>1, <2>1 DEF SweepTears, SweepInv, Removed, IsOver
<1>6. QED
  BY <1>1, <1>2, <1>3, <1>4, <1>5 DEF Next, LoopStep

(* The sweep has in hand whoever is left.                                  *)
LEMMA StepSweep == TypeOK /\ WaitInv /\ GoneInv /\ SweepInv /\ [Next]_vars => SweepInv'
<1>1. SUFFICES ASSUME TypeOK, WaitInv, GoneInv, SweepInv, [Next]_vars PROVE SweepInv'
  OBVIOUS
<1>2. /\ barrier => barrier'
      /\ \A p \in Paths : /\ p \in raced => p \in raced'
                          /\ IsOver(p) => IsOver(p)'
                          /\ Gone(p) => Gone(p)'
  BY <1>1, Grows DEF Gone
<1>3. CASE UNCHANGED sweep
  BY <1>1, <1>2, <1>3 DEF SweepInv, TypeOK
<1>4. CASE RaiseBarrier
  <2>1. sweep'.at = "collect" /\ barrier'
    BY <1>1, <1>4 DEF RaiseBarrier, TypeOK
  <2>2. QED
    BY <2>1 DEF SweepInv
<1>5. CASE Collect
  BY <1>1, <1>2, <1>5 DEF Collect, SweepInv, GoneInv, Gone, IsOver, TypeOK
<1>6. CASE SweepJoined
  <2>1. sweep'.at = "tear" /\ sweep'.todo = sweep.todo
    BY <1>1, <1>6 DEF SweepJoined, TypeOK
  <2>2. QED
    BY <1>1, <1>2, <1>6, <2>1 DEF SweepJoined, SweepInv, TypeOK
<1>7. CASE SweepExpires
  <2>1. sweep'.at = "tear" /\ sweep'.todo = sweep.todo
    BY <1>1, <1>7 DEF SweepExpires, TypeOK
  <2>2. QED
    BY <1>1, <1>2, <1>7, <2>1 DEF SweepExpires, SweepInv, TypeOK
<1>8. CASE SweepTears
  <2>1. PICK p \in sweep.todo : Removed(p) /\ sweep' = [sweep EXCEPT !.todo = @ \ {p}]
    BY <1>8 DEF SweepTears
  <2>2. sweep'.at = "tear" /\ sweep'.todo = sweep.todo \ {p}
    BY <1>1, <1>8, <2>1 DEF SweepTears, TypeOK
  <2>3. p \in raced' \/ Gone(p)'
    BY <1>1, <1>8, <2>1 DEF SweepTears, Removed, SweepInv, Gone, IsOver, TypeOK
  <2>4. QED
    BY <1>1, <1>2, <1>8, <2>2, <2>3 DEF SweepTears, SweepInv, TypeOK
<1>9. CASE Flush
  <2>1. sweep'.at = "swept" /\ sweep'.todo = sweep.todo
    BY <1>1, <1>9 DEF Flush, TypeOK
  <2>2. QED
    BY <1>1, <1>2, <1>9, <2>1 DEF Flush, SweepInv, TypeOK
<1>10. CASE \E p \in Paths : LoopStep(p)
  BY <1>1, <1>3, <1>10, LoopSteps
<1>11. CASE \E h \in Hosts : BeginStop(h) \/ Stop(h)
  BY <1>1, <1>3, <1>11, HostMoves
<1>12. QED
  BY <1>1, <1>3, <1>4, <1>5, <1>6, <1>7, <1>8, <1>9, <1>10, <1>11
     DEF Next, LoopStep, Sweep, vars

----------------------------------------------------------------------------
(* The hook belongs to one.                                                *)

(* A step that leaves the stops alone leaves every host where it is.       *)
LEMMA StaysAt ==
  ASSUME UNCHANGED stack
  PROVE  \A h \in Hosts : \A p, places : At(h, p, places)' <=> At(h, p, places)
  BY DEF At, Callee

(* A host's step leaves the other hosts where they are, and is about one   *)
(* actor at most.                                                          *)
LEMMA MovesOne ==
  ASSUME NEW h \in Hosts, \A g \in Hosts \ {h} : stack'[g] = stack[g]
  PROVE  /\ \A g \in Hosts \ {h} : \A p, places : At(g, p, places)' <=> At(g, p, places)
         /\ \A q \in Paths : ActorMove(h, q) =>
              \A p \in Paths \ {q} : ~At(h, p, {"join", "claim", "hook", "tear"})'
         /\ Quiet(h)' => \A p \in Paths : ~At(h, p, {"join", "claim", "hook", "tear"})'
         /\ Quiet(h) => \A p \in Paths : ~At(h, p, {"join", "claim", "hook", "tear"})
<1>1. \A g \in Hosts \ {h} : \A p, places : At(g, p, places)' <=> At(g, p, places)
  BY DEF At, Callee
<1>2. Quiet(h)' => \A p \in Paths : ~At(h, p, {"join", "claim", "hook", "tear"})'
  BY DEF At, Quiet
<1>3. Quiet(h) => \A p \in Paths : ~At(h, p, {"join", "claim", "hook", "tear"})
  BY DEF At, Quiet
<1>4. ASSUME NEW q \in Paths, ActorMove(h, q), NEW p \in Paths \ {q}
      PROVE  ~At(h, p, {"join", "claim", "hook", "tear"})'
  <2>1. CASE TearMove(h, q)
    BY <1>2, <2>1 DEF TearMove
  <2>2. CASE ~TearMove(h, q)
    <3>1. \E place \in {"join", "claim", "hook", "tear"} : At(h, q, {place})'
      BY <1>4, <2>2 DEF ActorMove, SignalMove, PassMove, JoinMove, AbortMove, ClaimMove,
                        LateMove, HookMove, Move
    <3>2. QED
      BY <3>1 DEF At
  <2>3. QED
    BY <2>1, <2>2
<1>5. QED
  BY <1>1, <1>2, <1>3, <1>4

(* A step of its own loop keeps the hook of an actor one.                  *)
LEMMA LoopClaims ==
  ASSUME TypeOK, NEW p \in Paths, OneHook(p), LoopStep(p)
  PROVE  OneHook(p)'
<1>1. /\ UNCHANGED stack /\ handle' \subseteq handle /\ ~IsOver(p)
      /\ hooks[p] \in Nat
      /\ loop[p] \in {"idle", "busy", "stuck", "exiting", "hook", "tearing", "ended", "crashed"}
  BY LoopSteps DEF IsOver, TypeOK, Exiting, Over
<1>2. \A h \in Hosts : /\ ~At(h, p, {"claim", "hook"})' /\ ~At(h, p, {"hook"})'
                       /\ At(h, p, {"join", "claim", "hook", "tear"})' => p \notin handle'
  BY <1>1, StaysAt DEF OneHook, At
<1>3. SUFFICES /\ hooks'[p] <= 1
               /\ p \notin claimed' => hooks'[p] = 0 /\ loop'[p] \notin {"hook", "tearing"}
               /\ loop'[p] = "hook" => hooks'[p] = 0
  BY <1>2 DEF OneHook
<1>4. CASE \/ Begin(p) \/ Finish(p) \/ StopSelf(p) \/ Passivate(p) \/ Stick(p) \/ Crash(p)
           \/ Obey(p)
  <2>1. /\ UNCHANGED <<hooks, claimed>>
        /\ loop'[p] \in {"idle", "busy", "stuck", "exiting", "ended", "crashed"}
    BY <1>4 DEF Begin, Finish, StopSelf, Passivate, Stick, Crash, Obey, Goes, Quietly, TypeOK
  <2>2. QED
    BY <2>1 DEF OneHook
<1>5. CASE ExitClaims(p)
  <2>1. /\ p \in claimed' /\ hooks' = hooks
        /\ loop'[p] = IF p \in claimed THEN "tearing" ELSE "hook"
    BY <1>5 DEF ExitClaims, Goes, TypeOK
  <2>2. QED
    BY <2>1 DEF OneHook
<1>6. CASE ExitHooks(p)
  <2>1. hooks[p] = 0 /\ p \in claimed /\ claimed' = claimed /\ loop'[p] = "tearing"
    BY <1>6 DEF ExitHooks, Goes, OneHook, TypeOK
  <2>2. hooks'[p] <= 1
    <3>1. CASE HookRuns(p)
      BY <1>6, <2>1, <3>1 DEF ExitHooks, RunHook, TypeOK
    <3>2. CASE ~HookRuns(p)
      BY <1>6, <2>1, <3>2 DEF ExitHooks, RunHook, TypeOK
    <3>3. QED
      BY <3>1, <3>2
  <2>3. QED
    BY <2>1, <2>2
<1>7. CASE ExitTears(p)
  <2>1. hooks' = hooks /\ claimed' = claimed /\ loop'[p] = "ended"
    BY <1>7 DEF ExitTears, Goes, TypeOK
  <2>2. QED
    BY <2>1 DEF OneHook
<1>8. QED
  BY <1>4, <1>5, <1>6, <1>7 DEF LoopStep, Loop

(* So does a move of a host about it.                                      *)
LEMMA MoveClaims ==
  ASSUME TypeOK, NEW h \in Hosts, NEW p \in Paths, OneHook(p), ActorMove(h, p),
         \A g \in Hosts \ {h} : stack'[g] = stack[g]
  PROVE  OneHook(p)'
<1>1. /\ \A g \in Hosts \ {h} : \A places : At(g, p, places)' <=> At(g, p, places)
      /\ Quiet(h)' => ~At(h, p, {"join", "claim", "hook", "tear"})'
      /\ hooks[p] \in Nat
  BY MovesOne DEF TypeOK
<1>2. \A from, to : At(h, p, {from})' /\ to # from => ~At(h, p, {to})'
  BY DEF At
<1>3. /\ At(h, p, {"claim", "hook"})' => At(h, p, {"claim"})' \/ At(h, p, {"hook"})'
      /\ At(h, p, {"join"}) => At(h, p, {"join", "claim", "hook", "tear"})
      /\ At(h, p, {"claim"}) => /\ At(h, p, {"claim", "hook"})
                                /\ At(h, p, {"join", "claim", "hook", "tear"})
      /\ At(h, p, {"hook"}) => /\ At(h, p, {"claim", "hook"})
                               /\ At(h, p, {"join", "claim", "hook", "tear"})
      /\ At(h, p, {"claim", "hook"})' => At(h, p, {"join", "claim", "hook", "tear"})'
      /\ At(h, p, {"hook"})' => At(h, p, {"claim", "hook"})'
  BY DEF At
<1>4. CASE SignalMove(h, p) \/ PassMove(h, p)
  <2>1. /\ UNCHANGED <<loop, claimed, hooks>> /\ p \notin handle' /\ handle' \subseteq handle
        /\ ~At(h, p, {"claim", "hook"})'
    BY <1>2, <1>3, <1>4 DEF SignalMove, PassMove
  <2>2. QED
    BY <1>1, <1>3, <2>1 DEF OneHook, IsOver
<1>5. CASE JoinMove(h, p)
  <2>1. /\ UNCHANGED <<loop, claimed, hooks, handle>> /\ IsOver(p) /\ p \notin handle
        /\ ~At(h, p, {"hook"})'
    BY <1>2, <1>3, <1>5 DEF JoinMove, Move, actors, OneHook
  <2>2. QED
    BY <1>1, <1>3, <2>1 DEF OneHook, IsOver
<1>6. CASE AbortMove(h, p)
  <2>1. /\ UNCHANGED <<claimed, hooks, handle>> /\ p \notin handle /\ loop'[p] = "ended"
        /\ ~At(h, p, {"claim", "hook"})'
    BY <1>2, <1>3, <1>6 DEF AbortMove, Move, OneHook, TypeOK
  <2>2. IsOver(p)'
    BY <2>1 DEF IsOver, Over
  <2>3. QED
    BY <1>1, <1>3, <2>1, <2>2 DEF OneHook
<1>7. CASE ClaimMove(h, p)
  <2>1. /\ UNCHANGED <<loop, hooks, handle>> /\ p \notin handle /\ IsOver(p) /\ p \in claimed'
        /\ hooks[p] = 0 /\ p \notin claimed
    BY <1>3, <1>7 DEF ClaimMove, Move, OneHook
  <2>2. \A g \in Hosts \ {h} : ~At(g, p, {"hook"})'
    BY <1>1, <2>1 DEF OneHook
  <2>3. /\ hooks'[p] <= 1 /\ hooks'[p] = 0
        /\ p \notin claimed' => hooks'[p] = 0 /\ loop'[p] \notin {"hook", "tearing"}
        /\ loop'[p] = "hook" => hooks'[p] = 0
    BY <2>1
  <2>4. IsOver(p)' /\ p \notin handle'
    BY <2>1 DEF IsOver
  <2>5. QED
    BY <2>1, <2>2, <2>3, <2>4 DEF OneHook
<1>8. CASE LateMove(h, p)
  <2>1. /\ UNCHANGED <<loop, hooks, handle, claimed>> /\ p \notin handle
        /\ ~At(h, p, {"claim", "hook"})'
    BY <1>2, <1>3, <1>8 DEF LateMove, Move, OneHook
  <2>2. QED
    BY <1>1, <1>3, <2>1 DEF OneHook, IsOver
<1>9. CASE HookMove(h, p)
  <2>1. /\ UNCHANGED <<loop, handle, claimed>> /\ p \notin handle /\ IsOver(p) /\ p \in claimed
        /\ hooks[p] = 0 /\ (\A g \in Hosts \ {h} : ~At(g, p, {"hook"}))
        /\ ~At(h, p, {"claim", "hook"})'
    BY <1>2, <1>3, <1>9 DEF HookMove, Move, OneHook
  <2>2. hooks'[p] <= 1
    <3>1. CASE HookRuns(p)
      BY <1>9, <2>1, <3>1 DEF HookMove, RunHook, TypeOK
    <3>2. CASE ~HookRuns(p)
      BY <1>9, <2>1, <3>2 DEF HookMove, RunHook, TypeOK
    <3>3. QED
      BY <3>1, <3>2
  <2>3. loop'[p] # "hook" /\ IsOver(p)'
    BY <2>1 DEF IsOver, Over
  <2>4. \A g \in Hosts : ~At(g, p, {"hook"})'
    BY <1>1, <1>3, <2>1
  <2>5. p \in claimed' /\ p \notin handle'
    BY <2>1
  <2>6. QED
    BY <2>2, <2>3, <2>4, <2>5 DEF OneHook
<1>10. CASE TearMove(h, p)
  <2>1. /\ UNCHANGED <<loop, hooks, claimed>> /\ handle' \subseteq handle
        /\ ~At(h, p, {"join", "claim", "hook", "tear"})'
    BY <1>1, <1>10 DEF TearMove, Removed
  <2>2. QED
    BY <1>1, <1>3, <2>1 DEF OneHook, IsOver
<1>11. QED
  BY <1>4, <1>5, <1>6, <1>7, <1>8, <1>9, <1>10 DEF ActorMove

(* What a move does not touch of the other actors.                         *)
LEMMA MoveApart ==
  ASSUME TypeOK, NEW h \in Hosts, NEW q \in Paths, ActorMove(h, q), NEW p \in Paths \ {q}
  PROVE  /\ loop'[p] = loop[p] /\ hooks'[p] = hooks[p] /\ (IsOver(p)' <=> IsOver(p))
         /\ p \in claimed' <=> p \in claimed
         /\ p \in cell' <=> p \in cell
         /\ p \in handle' <=> p \in handle
         /\ p \in raced' <=> p \in raced
<1>1. loop'[p] = loop[p]
  BY DEF ActorMove, SignalMove, PassMove, JoinMove, AbortMove, ClaimMove, LateMove, HookMove,
         TearMove, actors, TypeOK
<1>2. hooks'[p] = hooks[p]
  <2>1. CASE HookMove(h, q)
    <3>1. CASE HookRuns(q)
      BY <2>1, <3>1 DEF HookMove, RunHook, TypeOK
    <3>2. CASE ~HookRuns(q)
      BY <2>1, <3>2 DEF HookMove, RunHook, TypeOK
    <3>3. QED
      BY <3>1, <3>2
  <2>2. CASE ~HookMove(h, q)
    BY <2>2 DEF ActorMove, SignalMove, PassMove, JoinMove, AbortMove, ClaimMove, LateMove,
                TearMove, actors
  <2>3. QED
    BY <2>1, <2>2
<1>3. /\ p \in claimed' <=> p \in claimed
      /\ p \in cell' <=> p \in cell
      /\ p \in handle' <=> p \in handle
      /\ p \in raced' <=> p \in raced
  BY DEF ActorMove, SignalMove, PassMove, JoinMove, AbortMove, ClaimMove, LateMove, HookMove,
         TearMove, Removed, actors
<1>4. QED
  BY <1>1, <1>2, <1>3 DEF IsOver

(* One hook: every step keeps it so.                                       *)
LEMMA StepClaim == TypeOK /\ WaitInv /\ ClaimInv /\ [Next]_vars => ClaimInv'
<1>1. SUFFICES ASSUME TypeOK, WaitInv, ClaimInv, [Next]_vars, NEW p \in Paths
               PROVE  OneHook(p)'
  BY DEF ClaimInv
<1>2. OneHook(p)
  BY <1>1 DEF ClaimInv
<1>3. CASE /\ loop'[p] = loop[p] /\ hooks'[p] = hooks[p] /\ handle' \subseteq handle
           /\ p \in claimed' <=> p \in claimed
           /\ UNCHANGED stack
  <2>1. IsOver(p)' <=> IsOver(p)
    BY <1>3 DEF IsOver
  <2>2. QED
    BY <1>2, <1>3, <2>1, StaysAt DEF OneHook
<1>4. ASSUME NEW q \in Paths, LoopStep(q) PROVE OneHook(p)'
  <2>1. CASE q = p
    BY <1>1, <1>2, <1>4, <2>1, LoopClaims
  <2>2. CASE q # p
    BY <1>1, <1>3, <1>4, <2>2, LoopSteps
  <2>3. QED
    BY <2>1, <2>2
<1>5. ASSUME NEW h \in Hosts, BeginStop(h) \/ Stop(h) PROVE OneHook(p)'
  <2>1. /\ \A g \in Hosts \ {h} : stack'[g] = stack[g]
        /\ QuietMove(h) \/ \E q \in Paths : ActorMove(h, q)
    BY <1>1, <1>5, HostMoves
  <2>2. CASE \E q \in Paths : q = p /\ ActorMove(h, q)
    BY <1>1, <1>2, <2>1, <2>2, MoveClaims
  <2>3. CASE ~At(h, p, {"join", "claim", "hook", "tear"})'
             /\ loop'[p] = loop[p] /\ hooks'[p] = hooks[p]
             /\ (p \in handle' => p \in handle) /\ (p \in claimed' <=> p \in claimed)
    <3>1. \A g \in Hosts \ {h} : \A places : At(g, p, places)' <=> At(g, p, places)
      BY <2>1, MovesOne
    <3>2. ~At(h, p, {"claim", "hook"})' /\ ~At(h, p, {"hook"})'
      BY <2>3 DEF At
    <3>3. IsOver(p)' <=> IsOver(p)
      BY <2>3 DEF IsOver
    <3>4. QED
      BY <1>2, <2>3, <3>1, <3>2, <3>3 DEF OneHook
  <2>4. CASE QuietMove(h)
    BY <2>1, <2>3, <2>4, MovesOne DEF QuietMove, actors
  <2>5. CASE \E q \in Paths : q # p /\ ActorMove(h, q)
    BY <1>1, <2>1, <2>3, <2>5, MoveApart, MovesOne
  <2>6. QED
    BY <2>1, <2>2, <2>4, <2>5
<1>6. CASE RaiseBarrier \/ Sweep
  BY <1>1, <1>3, <1>6 DEF RaiseBarrier, Sweep, Collect, SweepJoined, SweepExpires, SweepTears,
                          Flush, Removed, actors
<1>7. CASE UNCHANGED vars
  BY <1>3, <1>7 DEF vars, actors
<1>8. QED
  BY <1>1, <1>4, <1>5, <1>6, <1>7 DEF Next, LoopStep

----------------------------------------------------------------------------
(* No hook is forgotten.                                                   *)

(* A step of its own loop forgets no hook.                                 *)
LEMMA LoopDue ==
  ASSUME TypeOK, NEW p \in Paths, OneHook(p), Due(p), ~barrier, LoopStep(p)
  PROVE  Due(p)'
<1>1. /\ UNCHANGED stack /\ ~IsOver(p) /\ hooks[p] \in Nat
      /\ loop[p] \in {"idle", "busy", "stuck", "exiting", "hook", "tearing", "ended", "crashed"}
  BY LoopSteps DEF IsOver, TypeOK, Exiting, Over
<1>2. \A h \in Hosts : \A places : At(h, p, places)' <=> At(h, p, places)
  BY <1>1, StaysAt
<1>3. \A h \in Hosts : ~At(h, p, {"hook"})
  <2>1. \A h \in Hosts : At(h, p, {"hook"}) => At(h, p, {"claim", "hook"})
    BY DEF At
  <2>2. QED
    BY <1>1, <2>1 DEF OneHook
<1>4. CASE \/ Begin(p) \/ Finish(p) \/ StopSelf(p) \/ Passivate(p) \/ Stick(p) \/ Crash(p)
           \/ Obey(p)
  <2>1. UNCHANGED <<hooks, claimed, cell, handle>> /\ loop[p] # "hook"
    BY <1>4 DEF Begin, Finish, StopSelf, Passivate, Stick, Crash, Obey, Goes, Quietly
  <2>2. QED
    BY <1>2, <2>1 DEF Due, HookDue
<1>5. CASE ExitClaims(p)
  <2>1. /\ UNCHANGED <<hooks, cell, handle>> /\ loop[p] # "hook"
        /\ p \in claimed \/ loop'[p] = "hook"
    BY <1>5 DEF ExitClaims, Goes, TypeOK
  <2>2. QED
    BY <1>2, <2>1 DEF Due, HookDue
<1>6. CASE ExitHooks(p)
  <2>1. hooks[p] = 0 /\ RunHook(p)
    BY <1>6 DEF ExitHooks, Goes, OneHook
  <2>2. HookRuns(p)
    BY <2>1 DEF Due, HookRuns
  <2>3. hooks'[p] = 1
    BY <2>1, <2>2 DEF RunHook, TypeOK
  <2>4. QED
    BY <2>3 DEF Due, HookDue
<1>7. CASE ExitTears(p)
  <2>1. p \in claimed /\ loop[p] # "hook" /\ hooks' = hooks
    BY <1>7 DEF ExitTears, Goes, OneHook
  <2>2. hooks'[p] = 1
    BY <1>3, <2>1 DEF Due, HookDue
  <2>3. QED
    BY <2>2 DEF Due, HookDue
<1>8. QED
  BY <1>4, <1>5, <1>6, <1>7 DEF LoopStep, Loop

(* Nor does a move of a host about it, unless it races.                    *)
LEMMA MoveDue ==
  ASSUME TypeOK, NEW h \in Hosts, NEW p \in Paths, OneHook(p), Due(p), ~barrier,
         ActorMove(h, p), p \notin raced',
         \A g \in Hosts \ {h} : stack'[g] = stack[g]
  PROVE  Due(p)'
<1>1. /\ \A g \in Hosts \ {h} : \A places : At(g, p, places)' <=> At(g, p, places)
      /\ Quiet(h) => ~At(h, p, {"join", "claim", "hook", "tear"})
      /\ hooks[p] \in Nat
  BY MovesOne DEF TypeOK
<1>2. \A from, to : At(h, p, {from}) /\ to # from => ~At(h, p, {to})
  BY DEF At
<1>3. /\ At(h, p, {"hook"}) => At(h, p, {"join", "claim", "hook"})
      /\ At(h, p, {"join", "claim", "hook"}) => At(h, p, {"join", "claim", "hook", "tear"})
      /\ At(h, p, {"claim"}) => At(h, p, {"claim", "hook"})
      /\ At(h, p, {"tear"}) => /\ ~At(h, p, {"join", "claim", "hook"})
                               /\ At(h, p, {"join", "claim", "hook", "tear"})
  BY DEF At
<1>4. CASE SignalMove(h, p) \/ PassMove(h, p)
  <2>1. UNCHANGED <<loop, cell, claimed, hooks>>
    BY <1>4 DEF SignalMove, PassMove
  <2>2. ~At(h, p, {"hook"}) /\ ~At(h, p, {"join", "claim", "hook"})
    BY <1>1, <1>3, <1>4 DEF SignalMove, PassMove
  <2>3. handle' = handle \/ At(h, p, {"join", "claim", "hook"})'
    BY <1>4 DEF SignalMove, PassMove, At
  <2>4. QED
    BY <1>1, <2>1, <2>2, <2>3 DEF Due, HookDue
<1>5. CASE JoinMove(h, p)
  <2>1. UNCHANGED <<loop, cell, handle, claimed, hooks>> /\ ~At(h, p, {"hook"})
    BY <1>2, <1>5 DEF JoinMove, Move, actors
  <2>2. At(h, p, {"join", "claim", "hook"})'
    BY <1>5 DEF JoinMove, Move, At
  <2>3. QED
    BY <1>1, <2>1, <2>2 DEF Due, HookDue
<1>6. CASE AbortMove(h, p)
  BY <1>6 DEF AbortMove
<1>7. CASE ClaimMove(h, p)
  <2>1. UNCHANGED <<cell, hooks>>
    BY <1>7 DEF ClaimMove
  <2>2. At(h, p, {"join", "claim", "hook"})' /\ At(h, p, {"hook"})'
    BY <1>7 DEF ClaimMove, Move, At
  <2>3. QED
    BY <2>1, <2>2 DEF Due, HookDue
<1>8. CASE LateMove(h, p)
  <2>1. /\ UNCHANGED <<loop, cell, handle, claimed, hooks>> /\ p \notin cell \ claimed
        /\ ~At(h, p, {"hook"}) /\ At(h, p, {"claim"})
    BY <1>2, <1>8 DEF LateMove, Move
  <2>2. loop[p] # "hook"
    BY <1>3, <2>1 DEF OneHook, IsOver, Over
  <2>3. hooks[p] = 1 \/ \E g \in Hosts \ {h} : At(g, p, {"hook"})
    BY <2>1, <2>2 DEF Due, HookDue
  <2>4. hooks'[p] = 1 \/ \E g \in Hosts : At(g, p, {"hook"})'
    BY <1>1, <2>1, <2>3
  <2>5. \A g \in Hosts : At(g, p, {"hook"})' => At(g, p, {"join", "claim", "hook"})'
    BY DEF At
  <2>6. p \notin cell' => hooks'[p] = 1
    BY <2>1 DEF Due
  <2>7. QED
    BY <2>4, <2>5, <2>6 DEF Due, HookDue
<1>9. CASE HookMove(h, p)
  <2>1. hooks[p] = 0 /\ RunHook(p)
    BY <1>9 DEF HookMove, Move, OneHook
  <2>2. HookRuns(p)
    BY <2>1 DEF Due, HookRuns
  <2>3. hooks'[p] = 1
    BY <2>1, <2>2 DEF RunHook, TypeOK
  <2>4. QED
    BY <2>3 DEF Due, HookDue
<1>10. CASE TearMove(h, p)
  <2>1. /\ hooks' = hooks /\ IsOver(p) /\ ~StoppedBy(Hosts \ {h}, p)
        /\ At(h, p, {"tear"})
    BY <1>10 DEF TearMove
  <2>2. loop[p] # "hook" /\ p \notin handle
    BY <1>3, <2>1 DEF OneHook, IsOver, Over
  <2>3. \A g \in Hosts : ~At(g, p, {"join", "claim", "hook"})
    BY <1>3, <2>1 DEF StoppedBy, At
  <2>4. hooks'[p] = 1
    BY <2>1, <2>2, <2>3 DEF Due, HookDue
  <2>5. QED
    BY <2>4 DEF Due, HookDue
<1>11. QED
  BY <1>4, <1>5, <1>6, <1>7, <1>8, <1>9, <1>10 DEF ActorMove

(* Every step keeps every hook due.                                        *)
LEMMA StepDue ==
  TypeOK /\ WaitInv /\ ClaimInv /\ SweepInv /\ DueInv /\ [Next]_vars => DueInv'
<1>1. SUFFICES ASSUME TypeOK, WaitInv, ClaimInv, SweepInv, DueInv, [Next]_vars, ~barrier',
                      NEW p \in Paths \ raced'
               PROVE  Due(p)'
  BY DEF DueInv
<1>2. ~barrier /\ p \notin raced /\ OneHook(p) /\ Due(p)
  BY <1>1, Grows DEF ClaimInv, DueInv
<1>3. CASE /\ loop'[p] = loop[p] /\ hooks'[p] = hooks[p] /\ (p \in claimed' <=> p \in claimed)
           /\ (p \in cell' <=> p \in cell) /\ (p \in handle' <=> p \in handle)
           /\ \A h \in Hosts : /\ At(h, p, {"hook"}) => At(h, p, {"hook"})'
                               /\ At(h, p, {"join", "claim", "hook"}) =>
                                    At(h, p, {"join", "claim", "hook"})'
  BY <1>2, <1>3 DEF Due, HookDue
<1>4. ASSUME NEW q \in Paths, LoopStep(q) PROVE Due(p)'
  <2>1. CASE q = p
    BY <1>1, <1>2, <1>4, <2>1, LoopDue
  <2>2. CASE q # p
    BY <1>1, <1>3, <1>4, <2>2, LoopSteps, StaysAt
  <2>3. QED
    BY <2>1, <2>2
<1>5. ASSUME NEW h \in Hosts, BeginStop(h) \/ Stop(h) PROVE Due(p)'
  <2>1. /\ \A g \in Hosts \ {h} : stack'[g] = stack[g]
        /\ QuietMove(h) \/ \E q \in Paths : ActorMove(h, q)
    BY <1>1, <1>5, HostMoves
  <2>2. CASE \E q \in Paths : q = p /\ ActorMove(h, q)
    BY <1>1, <1>2, <2>1, <2>2, MoveDue
  <2>3. \A g \in Hosts \ {h} : \A places : At(g, p, places)' <=> At(g, p, places)
    BY <2>1, MovesOne
  <2>4. CASE QuietMove(h)
    <3>1. ~At(h, p, {"join", "claim", "hook", "tear"})
      BY <2>1, <2>4, MovesOne DEF QuietMove
    <3>2. ~At(h, p, {"hook"}) /\ ~At(h, p, {"join", "claim", "hook"})
      BY <3>1 DEF At
    <3>3. QED
      BY <1>3, <2>3, <2>4, <3>2 DEF QuietMove, actors
  <2>5. ASSUME NEW q \in Paths, q # p, ActorMove(h, q) PROVE Due(p)'
    <3>1. ~At(h, p, {"hook"}) /\ ~At(h, p, {"join", "claim", "hook"})
      <4>1. CASE Quiet(h)
        BY <4>1 DEF At, Quiet
      <4>2. CASE ~Quiet(h)
        <5>1. \E place \in {"join", "claim", "hook", "tear"} : At(h, q, {place})
          BY <2>5, <4>2 DEF ActorMove, SignalMove, PassMove, JoinMove, AbortMove, ClaimMove,
                            LateMove, HookMove, TearMove, Move
        <5>2. QED
          BY <2>5, <5>1 DEF At
      <4>3. QED
        BY <4>1, <4>2
    <3>2. QED
      BY <1>1, <1>3, <2>3, <2>5, <3>1, MoveApart
  <2>6. QED
    BY <2>1, <2>2, <2>4, <2>5
<1>6. CASE RaiseBarrier \/ Sweep
  BY <1>1, <1>2, <1>6 DEF RaiseBarrier, Sweep, Collect, SweepJoined, SweepExpires, SweepTears,
                          Flush, SweepInv
<1>7. CASE UNCHANGED vars
  BY <1>3, <1>7, StaysAt DEF vars, actors
<1>8. QED
  BY <1>1, <1>4, <1>5, <1>6, <1>7 DEF Next, LoopStep

----------------------------------------------------------------------------
(* The theorems.                                                           *)

(* The initial state satisfies the invariant.                              *)
LEMMA InitStop == Init => StopInv
<1>1. SUFFICES ASSUME Init PROVE StopInv
  OBVIOUS
<1>2. PICK scenario \in Scenarios :
        /\ loop = [p \in Paths |-> IF p \in scenario.alive THEN "idle" ELSE "ended"]
        /\ cell = scenario.alive /\ handle = scenario.alive
        /\ claimed = Paths \ scenario.alive
        /\ hooks = [p \in Paths |-> IF p \in scenario.alive THEN 0 ELSE 1]
        /\ stack = [h \in Hosts |-> <<>>]
        /\ sweep = [at |-> "none", todo |-> {}]
  BY <1>1 DEF Init
<1>3. \A h \in Hosts : stack[h] = <<>> /\ DOMAIN stack[h] = {}
  BY <1>2
<1>4. WaitInv /\ ChildInv
  BY <1>3 DEF WaitInv, ChildInv
<1>5. GoneInv
  BY <1>2 DEF GoneInv, IsOver, Over
<1>6. ClaimInv
  BY <1>2, <1>3 DEF ClaimInv, OneHook, At
<1>7. DueInv
  BY <1>2, <1>3 DEF DueInv, Due, HookDue, At
<1>8. SweepInv
  BY <1>2 DEF SweepInv
<1>9. QED
  BY <1>4, <1>5, <1>6, <1>7, <1>8 DEF StopInv

(* Every step keeps it.                                                    *)
LEMMA StepStop == TypeOK /\ StopInv /\ [Next]_vars => StopInv'
  BY StepWait, StepGone, StepChild, StepClaim, StepDue, StepSweep DEF StopInv

(* The invariant holds of every behaviour.                                 *)
LEMMA Stopping == Spec => [](TypeOK /\ StopInv)
<1>1. Init => TypeOK /\ StopInv
  BY InitType, InitStop
<1>2. TypeOK /\ StopInv /\ [Next]_vars => (TypeOK /\ StopInv)'
  BY StepType, StepStop
<1>3. QED
  BY <1>1, <1>2, PTL DEF Spec

(* The on_stop hook is run once at most, by a stop only when the loop of   *)
(* its actor is over, and, as long as no shutdown has begun, it has run    *)
(* for every actor that is gone and was not raced: whoever of the loop and *)
(* the hosts ended it (stop_bounded_inner, graceful_exit, claim_on_stop).  *)
THEOREM HooksRunAtTheEnd == Spec => []HookAtTheEnd
<1>1. TypeOK /\ StopInv => HookAtTheEnd
  <2>1. SUFFICES ASSUME TypeOK, StopInv, NEW p \in Paths
                 PROVE  /\ hooks[p] <= 1
                        /\ \A h \in Hosts : Calls(h, "hook") /\ Callee(h) = p => IsOver(p)
                        /\ p \notin cell \cup raced /\ ~barrier => hooks[p] = 1
    BY DEF HookAtTheEnd
  <2>2. OneHook(p)
    BY <2>1 DEF StopInv, ClaimInv
  <2>3. \A h \in Hosts : Calls(h, "hook") /\ Callee(h) = p => IsOver(p)
    BY <2>2 DEF OneHook, At, Calls
  <2>4. p \notin cell \cup raced /\ ~barrier => hooks[p] = 1
    BY <2>1 DEF StopInv, DueInv, Due
  <2>5. QED
    BY <2>2, <2>3, <2>4 DEF OneHook
<1>2. QED
  BY <1>1, Stopping, PTL

(* When a stop has turned from the children of an actor to the actor, none *)
(* of them is left, but for the raced ones and those its budget did not    *)
(* reach (stop_bounded_inner).                                             *)
THEOREM ChildrenStopFirst == Spec => []ChildrenFirst
<1>1. TypeOK /\ StopInv => ChildrenFirst
  <2>1. SUFFICES ASSUME TypeOK, StopInv, NEW h \in Hosts, NEW k \in DOMAIN stack[h],
                        stack[h][k].at # "children",
                        NEW c \in Paths \ (stack[h][k].todo \cup raced),
                        Parent[c] = stack[h][k].path
                 PROVE  Gone(c)
    BY DEF ChildrenFirst, Gone
  <2>2. ~(k > 1)
    BY <2>1 DEF StopInv, WaitInv
  <2>3. QED
    BY <2>1, <2>2 DEF StopInv, ChildInv
<1>2. QED
  BY <1>1, Stopping, PTL

(* When the sweep of a shutdown is through, every actor that was not raced *)
(* has left the tables and its loop is over (shutdown_graceful).           *)
THEOREM SweepsAreFinal == Spec => []SweepFinal
<1>1. TypeOK /\ StopInv => SweepFinal
  BY DEF StopInv, SweepInv, SweepFinal, Gone
<1>2. QED
  BY <1>1, Stopping, PTL
=============================================================================
