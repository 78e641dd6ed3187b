--------------------------- MODULE DiscoveryProofs ---------------------------
(***************************************************************************)
(* No run of a program answers a T twice, and every answer pays for a T    *)
(* that was sent, for any subnet.                                          *)
(***************************************************************************)
EXTENDS Discovery, FiniteSetTheorems, TLAPS

Boxes == [Hosts -> Seq(Datagrams)]

(* A broadcast keeps the inboxes what they are and empties none.             *)
LEMMA DeliveredKeeps ==
    ASSUME NEW boxes \in Boxes, \A k \in Hosts : Len(boxes[k]) <= RcvBuf,
           NEW bound, NEW h \in Hosts, NEW letter \in Letters, NEW lost
    PROVE  /\ Delivered(boxes, bound, h, letter, lost) \in Boxes
           /\ \A k \in Hosts : Len(Delivered(boxes, bound, h, letter, lost)[k]) <= RcvBuf
           /\ \A k \in Hosts :
                Delivered(boxes, bound, h, letter, lost)[k] = <<>> => boxes[k] = <<>>
<1> DEFINE d == [msg |-> letter, from |-> h]
<1> DEFINE after == Delivered(boxes, bound, h, letter, lost)
<1>1. d \in Datagrams
  BY DEF Datagrams
<1>2. RcvBuf \in Nat
  BY NetworkAssumption
<1>3. \A k \in Hosts :
        after[k] = IF k \in bound /\ k \notin lost /\ Len(boxes[k]) < RcvBuf
                   THEN Append(boxes[k], d) ELSE boxes[k]
  BY DEF Delivered
<1>4. after = [k \in Hosts |-> after[k]]
  BY DEF Delivered
<1> HIDE DEF d, after
<1>5. ASSUME NEW k \in Hosts
      PROVE  /\ boxes[k] \in Seq(Datagrams)
             /\ Append(boxes[k], d) \in Seq(Datagrams)
             /\ Len(Append(boxes[k], d)) = Len(boxes[k]) + 1
             /\ Append(boxes[k], d) # <<>>
             /\ Len(boxes[k]) \in Nat
  <2>1. boxes[k] \in Seq(Datagrams)
    BY DEF Boxes
  <2>2. QED
    BY <1>1, <2>1
<1>6. after \in Boxes
  <2>1. \A k \in Hosts : after[k] \in Seq(Datagrams)
    BY <1>3, <1>5
  <2>2. QED
    BY <1>4, <2>1 DEF Boxes
<1>7. ASSUME NEW k \in Hosts
      PROVE  Len(after[k]) <= RcvBuf
  <2>1. CASE k \in bound /\ k \notin lost /\ Len(boxes[k]) < RcvBuf
    <3>1. after[k] = Append(boxes[k], d)
      BY <1>3, <2>1
    <3>2. Len(after[k]) = Len(boxes[k]) + 1 /\ Len(boxes[k]) \in Nat
      BY <1>5, <3>1
    <3>3. QED
      BY <1>2, <2>1, <3>2
  <2>2. CASE ~(k \in bound /\ k \notin lost /\ Len(boxes[k]) < RcvBuf)
    BY <1>3, <2>2
  <2>3. QED
    BY <2>1, <2>2
<1>8. \A k \in Hosts : after[k] = <<>> => boxes[k] = <<>>
  BY <1>3, <1>5
<1>9. QED
  BY <1>6, <1>7, <1>8 DEF after

(* A sender that listens and has room finds its own datagram in its inbox.   *)
LEMMA DeliveredToSelf ==
    ASSUME NEW boxes \in Boxes, NEW bound, NEW h \in Hosts, NEW letter, NEW lost,
           h \in bound, h \notin lost, Len(boxes[h]) < RcvBuf
    PROVE  Delivered(boxes, bound, h, letter, lost)[h] # <<>>
<1>1. boxes[h] \in Seq(Datagrams)
  BY DEF Boxes
<1>2. Append(boxes[h], [msg |-> letter, from |-> h]) # <<>>
  BY <1>1
<1>3. QED
  BY <1>2 DEF Delivered

(* The types, with the inboxes folded.                                       *)
Typed ==
    /\ inbox \in Boxes /\ \A h \in Hosts : Len(inbox[h]) <= RcvBuf
    /\ phase \in [Hosts -> {"off", "starting", "listening"}]
    /\ peer \in [Hosts -> Hosts \cup {Nobody}]
    /\ ps_buff \in [Hosts -> Letters \cup {"none"}]
    /\ clean \in [Hosts -> BOOLEAN]
    /\ starts \in 0..MaxStarts
    /\ unanswered \in [Hosts -> Int]

(* The two statements of the types agree, before and after a step.           *)
LEMMA TypedIsTypeOK == (TypeOK <=> Typed) /\ (TypeOK' <=> Typed')
  BY DEF TypeOK, Typed, Boxes

(* A host never loses the copy it sends to itself.                           *)
LEMMA OwnCopy ==
    ASSUME NEW h \in Hosts, NEW lost \in Losses(h)
    PROVE  h \notin lost
  BY DEF Losses

(* Nobody runs, and nothing is owed or kept.                                 *)
LEMMA InitInv == Init => IInv
<1> SUFFICES ASSUME Init PROVE IInv
  OBVIOUS
<1>1. Typed
  <2>1. inbox \in Boxes /\ \A h \in Hosts : Len(inbox[h]) <= RcvBuf
    <3>1. inbox = [h \in Hosts |-> <<>>] /\ <<>> \in Seq(Datagrams) /\ Len(<<>>) = 0
      BY DEF Init
    <3>2. RcvBuf \in Nat
      BY NetworkAssumption
    <3>3. QED
      BY <3>1, <3>2 DEF Boxes
  <2>2. starts \in 0..MaxStarts /\ unanswered \in [Hosts -> Int]
    BY NetworkAssumption DEF Init
  <2>3. clean \in [Hosts -> BOOLEAN]
    BY DEF Init
  <2>4. QED
    BY <2>1, <2>2, <2>3 DEF Init, Typed
<1>2. NeverAnswersTwice /\ ReplayInv
  BY DEF Init, NeverAnswersTwice, ReplayInv, Asked
<1>3. QED
  BY <1>1, <1>2, TypedIsTypeOK DEF IInv

(* main's T reaches inboxes only: no buffer and no count changes.            *)
LEMMA AnnounceInv == ASSUME IInv, NEW h \in Hosts, Announce(h) PROVE IInv'
<1>1. Typed /\ NeverAnswersTwice /\ ReplayInv
  BY TypedIsTypeOK DEF IInv
<1>2. PICK lost \in Losses(h) : inbox' = Delivered(inbox, Listening, h, "T", lost)
  BY DEF Announce
<1>3. /\ inbox' \in Boxes /\ \A k \in Hosts : Len(inbox'[k]) <= RcvBuf
      /\ \A k \in Hosts : inbox'[k] = <<>> => inbox[k] = <<>>
  <2>1. "T" \in Letters
    BY DEF Letters
  <2>2. inbox \in Boxes /\ \A k \in Hosts : Len(inbox[k]) <= RcvBuf
    BY <1>1 DEF Typed
  <2>3. QED
    BY <1>2, <2>1, <2>2, DeliveredKeeps
<1>4. Typed'
  <2>1. phase' \in [Hosts -> {"off", "starting", "listening"}]
    BY <1>1 DEF Announce, Typed
  <2>2. starts' \in 0..MaxStarts
    <3>1. starts \in 0..MaxStarts /\ MaxStarts \in Nat
      BY <1>1, NetworkAssumption DEF Typed
    <3>2. QED
      BY <3>1 DEF Announce
  <2>3. QED
    BY <1>1, <1>3, <2>1, <2>2 DEF Announce, Typed
<1>5. NeverAnswersTwice'
  BY <1>1 DEF Announce, NeverAnswersTwice
<1>6. ReplayInv'
  BY <1>1, <1>3 DEF Announce, ReplayInv, Asked, Typed
<1>7. QED
  BY <1>4, <1>5, <1>6, TypedIsTypeOK DEF IInv

(* A thread that has just bound its port has no letter in its buffer.        *)
LEMMA BindInv == ASSUME IInv, NEW h \in Hosts, BindPort(h) PROVE IInv'
<1>1. Typed /\ NeverAnswersTwice /\ ReplayInv
  BY TypedIsTypeOK DEF IInv
<1>2. Typed'
  BY <1>1 DEF BindPort, Typed
<1>3. NeverAnswersTwice'
  BY <1>1 DEF BindPort, NeverAnswersTwice
<1>4. ReplayInv'
  BY <1>1 DEF BindPort, ReplayInv, Asked, Typed
<1>5. QED
  BY <1>2, <1>3, <1>4, TypedIsTypeOK DEF IInv

(* Either the T is answered, and the answer is in the inbox of h before h    *)
(* could time out, or it is counted.                                         *)
LEMMA HandleInv ==
    ASSUME IInv, NEW h \in Hosts, NEW STATE may, Handle(h, may)
    PROVE  IInv'
<1> DEFINE d == Head(inbox[h])
<1> DEFINE rest == [inbox EXCEPT ![h] = Tail(@)]
<1>1. Typed /\ NeverAnswersTwice /\ ReplayInv
  BY TypedIsTypeOK DEF IInv
<1>2. /\ phase[h] = "listening" /\ inbox[h] # <<>>
      /\ ps_buff' = [ps_buff EXCEPT ![h] = d.msg]
      /\ peer' = [peer EXCEPT ![h] = d.from]
      /\ UNCHANGED <<phase, clean, starts>>
      /\ \/ /\ \E lost \in Losses(h) : inbox' = Delivered(rest, Listening, h, "S", lost)
            /\ UNCHANGED unanswered
         \/ /\ inbox' = rest
            /\ unanswered' = [unanswered EXCEPT ![h] = IF Asked(h, d.msg) THEN @ + 1 ELSE @]
  BY DEF Handle
<1>3. /\ d \in Datagrams /\ rest \in Boxes
      /\ \A k \in Hosts : Len(rest[k]) <= RcvBuf
      /\ Len(rest[h]) < RcvBuf
      /\ \A k \in Hosts \ {h} : rest[k] = inbox[k]
  <2>1. inbox[h] \in Seq(Datagrams) /\ Len(inbox[h]) <= RcvBuf
    BY <1>1 DEF Typed, Boxes
  <2>2. Tail(inbox[h]) \in Seq(Datagrams) /\ Len(Tail(inbox[h])) = Len(inbox[h]) - 1
        /\ d \in Datagrams /\ Len(inbox[h]) \in Nat
    BY <1>2, <2>1
  <2>3. RcvBuf \in Nat
    BY NetworkAssumption
  <2>4. rest \in Boxes /\ rest[h] = Tail(inbox[h])
        /\ \A k \in Hosts \ {h} : rest[k] = inbox[k]
    BY <1>1, <2>2 DEF Typed, Boxes
  <2>5. Len(rest[h]) < RcvBuf
    <3>1. Len(Tail(inbox[h])) < RcvBuf
      BY <2>1, <2>2, <2>3
    <3>2. QED
      BY <2>4, <3>1
  <2>6. \A k \in Hosts : Len(rest[k]) <= RcvBuf
    BY <1>1, <2>3, <2>4, <2>5, <2>2 DEF Typed
  <2>7. QED
    BY <2>2, <2>4, <2>5, <2>6
<1>4. d.msg \in Letters /\ d.from \in Hosts
  BY <1>3 DEF Datagrams
<1> HIDE DEF d, rest
<1>5. ps_buff' \in [Hosts -> Letters \cup {"none"}] /\ peer' \in [Hosts -> Hosts \cup {Nobody}]
      /\ ps_buff'[h] = d.msg /\ \A k \in Hosts \ {h} : ps_buff'[k] = ps_buff[k] /\ peer'[k] = peer[k]
  BY <1>1, <1>2, <1>4 DEF Typed
<1>6. CASE /\ \E lost \in Losses(h) : inbox' = Delivered(rest, Listening, h, "S", lost)
           /\ UNCHANGED unanswered
  <2>1. PICK lost \in Losses(h) : inbox' = Delivered(rest, Listening, h, "S", lost)
    BY <1>6
  <2>2. "S" \in Letters /\ h \notin lost /\ h \in Listening
    BY <1>2, OwnCopy DEF Letters, Listening
  <2>3. /\ inbox' \in Boxes /\ \A k \in Hosts : Len(inbox'[k]) <= RcvBuf
        /\ \A k \in Hosts : inbox'[k] = <<>> => rest[k] = <<>>
        /\ inbox'[h] # <<>>
    <3>1. inbox'[h] # <<>>
      BY <1>3, <2>1, <2>2, DeliveredToSelf
    <3>2. rest \in Boxes /\ \A k \in Hosts : Len(rest[k]) <= RcvBuf
      BY <1>3
    <3>3. /\ \A k \in Hosts : Len(inbox'[k]) <= RcvBuf
          /\ \A k \in Hosts : inbox'[k] = <<>> => rest[k] = <<>>
          /\ inbox' \in Boxes
      BY <2>1, <2>2, <3>2, DeliveredKeeps
    <3>4. QED
      BY <3>1, <3>3
  <2>4. Typed'
    BY <1>1, <1>2, <1>5, <1>6, <2>3 DEF Typed
  <2>5. NeverAnswersTwice'
    BY <1>1, <1>6 DEF NeverAnswersTwice
  <2>6. ReplayInv'
    BY <1>1, <1>2, <1>3, <1>5, <1>6, <2>3 DEF ReplayInv, Asked
  <2>7. QED
    BY <2>4, <2>5, <2>6, TypedIsTypeOK DEF IInv
<1>7. CASE /\ inbox' = rest
           /\ unanswered' = [unanswered EXCEPT ![h] = IF Asked(h, d.msg) THEN @ + 1 ELSE @]
  <2>1. /\ unanswered' \in [Hosts -> Int] /\ \A k \in Hosts : unanswered'[k] >= unanswered[k]
        /\ Asked(h, d.msg) => unanswered'[h] = unanswered[h] + 1
        /\ \A k \in Hosts : unanswered[k] \in Int
    <3>1. unanswered \in [Hosts -> Int]
      BY <1>1 DEF Typed
    <3>2. CASE Asked(h, d.msg)
      BY <1>7, <3>1, <3>2
    <3>3. CASE ~Asked(h, d.msg)
      BY <1>7, <3>1, <3>3
    <3>4. QED
      BY <3>2, <3>3
  <2>2. Typed'
    BY <1>1, <1>2, <1>3, <1>5, <1>7, <2>1 DEF Typed
  <2>3. NeverAnswersTwice'
    <3>1. ASSUME NEW k \in Hosts PROVE unanswered'[k] >= 0
      <4>1. unanswered[k] >= 0 /\ unanswered[k] \in Int /\ unanswered'[k] \in Int
        BY <1>1, <2>1 DEF NeverAnswersTwice
      <4>2. QED
        BY <2>1, <4>1
    <3>2. QED
      BY <3>1 DEF NeverAnswersTwice
  <2>4. ReplayInv'
    <3>1. Asked(h, d.msg) => unanswered'[h] >= 1
      <4>1. unanswered[h] >= 0 /\ unanswered[h] \in Int
        BY <1>1, <2>1 DEF NeverAnswersTwice
      <4>2. QED
        BY <2>1, <4>1
    <3>2. Asked(h, ps_buff[h])' => Asked(h, d.msg)
      BY <1>2, <1>5 DEF Asked
    <3>3. ASSUME NEW k \in Hosts \ {h},
                 inbox'[k] = <<>>, Asked(k, ps_buff[k])', peer'[k] # Nobody
          PROVE  unanswered'[k] >= 1
      <4>1. inbox[k] = <<>> /\ Asked(k, ps_buff[k]) /\ peer[k] # Nobody
        BY <1>2, <1>3, <1>5, <1>7, <3>3 DEF Asked
      <4>2. unanswered[k] >= 1 /\ unanswered'[k] \in Int
        BY <1>1, <2>1, <4>1 DEF ReplayInv
      <4>3. QED
        BY <2>1, <4>2
    <3>4. \A k \in Hosts : phase'[k] # "listening" => ps_buff'[k] = "none"
      BY <1>1, <1>2, <1>5 DEF ReplayInv
    <3>5. QED
      BY <1>2, <1>5, <3>1, <3>2, <3>3, <3>4 DEF ReplayInv, Asked
  <2>5. QED
    BY <2>2, <2>3, <2>4, TypedIsTypeOK DEF IInv
<1>8. QED
  BY <1>2, <1>6, <1>7

(* A time-out answers the T that ReplayInv says is unanswered, and puts an S *)
(* in its way.                                                               *)
LEMMA TimeoutInv == ASSUME IInv, NEW h \in Hosts, ServerTimeout(h) PROVE IInv'
<1>1. Typed /\ NeverAnswersTwice /\ ReplayInv
  BY TypedIsTypeOK DEF IInv
<1>2. /\ phase[h] = "listening" /\ inbox[h] = <<>> /\ Asked(h, ps_buff[h]) /\ peer[h] # Nobody
      /\ unanswered' = [unanswered EXCEPT ![h] = @ - 1]
      /\ UNCHANGED <<phase, peer, ps_buff, clean, starts>>
  BY DEF ServerTimeout
<1>3. PICK lost \in Losses(h) : inbox' = Delivered(inbox, Listening, h, "S", lost)
  BY DEF ServerTimeout
<1>4. "S" \in Letters /\ h \notin lost /\ h \in Listening /\ Len(inbox[h]) < RcvBuf
  BY <1>2, OwnCopy, NetworkAssumption DEF Letters, Listening
<1>5. /\ inbox' \in Boxes /\ \A k \in Hosts : Len(inbox'[k]) <= RcvBuf
      /\ \A k \in Hosts : inbox'[k] = <<>> => inbox[k] = <<>>
      /\ inbox'[h] # <<>>
  <2>1. inbox \in Boxes /\ \A k \in Hosts : Len(inbox[k]) <= RcvBuf
    BY <1>1 DEF Typed
  <2>2. inbox'[h] # <<>>
    BY <1>3, <1>4, <2>1, DeliveredToSelf
  <2>3. /\ \A k \in Hosts : Len(inbox'[k]) <= RcvBuf
        /\ \A k \in Hosts : inbox'[k] = <<>> => inbox[k] = <<>>
        /\ inbox' \in Boxes
    BY <1>3, <1>4, <2>1, DeliveredKeeps
  <2>4. QED
    BY <2>2, <2>3
<1>6. unanswered[h] >= 1 /\ unanswered \in [Hosts -> Int]
  BY <1>1, <1>2 DEF ReplayInv, Typed
<1>7. /\ unanswered' \in [Hosts -> Int] /\ unanswered'[h] >= 0
      /\ \A k \in Hosts \ {h} : unanswered'[k] = unanswered[k]
  BY <1>2, <1>6
<1>8. Typed'
  BY <1>1, <1>2, <1>5, <1>7 DEF Typed
<1>9. NeverAnswersTwice'
  BY <1>1, <1>7 DEF NeverAnswersTwice
<1>10. ReplayInv'
  BY <1>1, <1>2, <1>5, <1>7 DEF ReplayInv, Asked
<1>11. QED
  BY <1>8, <1>9, <1>10, TypedIsTypeOK DEF IInv

(* The end of a program: it forgets its letter and its debts, and what it    *)
(* does to the inboxes of others can only fill them.                         *)
LEMMA ForgetInv ==
    ASSUME IInv, NEW h \in Hosts, Forget(h),
           NEW sent \in Boxes, \A k \in Hosts : Len(sent[k]) <= RcvBuf,
           \A k \in Hosts : sent[k] = <<>> => inbox[k] = <<>>,
           inbox' = [sent EXCEPT ![h] = <<>>]
    PROVE  IInv'
<1>1. Typed /\ NeverAnswersTwice /\ ReplayInv
  BY TypedIsTypeOK DEF IInv
<1>2. /\ inbox' \in Boxes /\ inbox'[h] = <<>> /\ \A k \in Hosts \ {h} : inbox'[k] = sent[k]
      /\ \A k \in Hosts : Len(inbox'[k]) <= RcvBuf
  <2>1. Len(<<>>) = 0 /\ RcvBuf \in Nat
    BY NetworkAssumption
  <2>2. inbox' \in Boxes /\ inbox'[h] = <<>> /\ \A k \in Hosts \ {h} : inbox'[k] = sent[k]
    BY DEF Boxes
  <2>3. QED
    BY <2>1, <2>2
<1>3. /\ ps_buff' = [ps_buff EXCEPT ![h] = "none"] /\ peer' = [peer EXCEPT ![h] = Nobody]
      /\ clean' = [clean EXCEPT ![h] = FALSE] /\ phase' = [phase EXCEPT ![h] = "off"]
      /\ unanswered' = [unanswered EXCEPT ![h] = 0] /\ starts' = starts
  BY DEF Forget
<1>4. Typed'
  <2>1. clean' \in [Hosts -> BOOLEAN]
    BY <1>1, <1>3 DEF Typed
  <2>2. unanswered' \in [Hosts -> Int] /\ peer' \in [Hosts -> Hosts \cup {Nobody}]
    BY <1>1, <1>3 DEF Typed
  <2>3. /\ ps_buff' \in [Hosts -> Letters \cup {"none"}]
        /\ phase' \in [Hosts -> {"off", "starting", "listening"}]
    BY <1>1, <1>3 DEF Typed
  <2>4. QED
    BY <1>1, <1>2, <1>3, <2>1, <2>2, <2>3 DEF Typed
<1>5. NeverAnswersTwice'
  BY <1>1, <1>3 DEF NeverAnswersTwice, Typed
<1>6. ReplayInv'
  BY <1>1, <1>2, <1>3 DEF ReplayInv, Asked, Typed
<1>7. QED
  BY <1>4, <1>5, <1>6, TypedIsTypeOK DEF IInv

(* The farewell of a program that is stopped.                                *)
LEMMA StopInv == ASSUME IInv, NEW h \in Hosts, Stop(h) PROVE IInv'
<1>1. Typed
  BY TypedIsTypeOK DEF IInv
<1>2. PICK lost \in Losses(h) : inbox' = [Delivered(inbox, Listening, h, "E", lost) EXCEPT ![h] = <<>>]
  BY DEF Stop
<1> DEFINE sent == Delivered(inbox, Listening, h, "E", lost)
<1>3. /\ sent \in Boxes /\ \A k \in Hosts : Len(sent[k]) <= RcvBuf
      /\ \A k \in Hosts : sent[k] = <<>> => inbox[k] = <<>>
  <2>1. "E" \in Letters
    BY DEF Letters
  <2>2. inbox \in Boxes /\ \A k \in Hosts : Len(inbox[k]) <= RcvBuf
    BY <1>1 DEF Typed
  <2>3. sent = Delivered(inbox, Listening, h, "E", lost)
    OBVIOUS
  <2> HIDE DEF sent
  <2>4. QED
    BY <2>1, <2>2, <2>3, DeliveredKeeps
<1>4. inbox' = [sent EXCEPT ![h] = <<>>] /\ Forget(h)
  BY <1>2 DEF Stop
<1> HIDE DEF sent
<1>5. QED
  BY <1>3, <1>4, ForgetInv

(* A program that crashes says nothing.                                      *)
LEMMA CrashInv == ASSUME IInv, NEW h \in Hosts, Crash(h) PROVE IInv'
<1>1. inbox \in Boxes /\ \A k \in Hosts : Len(inbox[k]) <= RcvBuf
  BY TypedIsTypeOK DEF IInv, Typed
<1>2. QED
  BY <1>1, ForgetInv DEF Crash

(* No step of any host, and no stutter, breaks the invariant.                *)
LEMMA NextInv == IInv /\ [Next]_vars => IInv'
<1> SUFFICES ASSUME IInv, [Next]_vars PROVE IInv'
  OBVIOUS
<1>1. ASSUME NEW h \in Hosts, InterReceive(h) \/ ServerReceive(h) PROVE IInv'
  BY <1>1, HandleInv DEF InterReceive, ServerReceive
<1>2. CASE UNCHANGED vars
  BY <1>2 DEF vars, IInv, TypeOK, NeverAnswersTwice, ReplayInv, Asked
<1>3. QED
  BY <1>1, <1>2, AnnounceInv, BindInv, TimeoutInv, StopInv, CrashInv DEF Next, Receive

(* Type correctness of the discovery, for every subnet and every bound.      *)
THEOREM DiscoveryTypes == Spec => []TypeOK
<1>1. IInv => TypeOK
  BY DEF IInv
<1>2. QED
  BY <1>1, InitInv, NextInv, PTL DEF Spec

(* However many hosts there are and whatever the subnet loses, no run of a   *)
(* program answers the same T twice.                                         *)
THEOREM AnsweredAtMostOnce == Spec => []NeverAnswersTwice
<1>1. IInv => NeverAnswersTwice
  BY DEF IInv
<1>2. QED
  BY <1>1, InitInv, NextInv, PTL DEF Spec
-----------------------------------------------------------------------------
(* The T of an inbox can be counted.                                         *)
LEMMA QuestionsFinite ==
    ASSUME NEW box \in Seq(Datagrams)
    PROVE  IsFiniteSet(Questions(box)) /\ Cardinality(Questions(box)) \in Nat
<1>1. IsFiniteSet(1..Len(box))
  BY FS_Interval
<1>2. Questions(box) \in SUBSET (1..Len(box))
  BY DEF Questions
<1> QED BY <1>1, <1>2, FS_Subset, FS_CardinalityType

(* An S behind them leaves them what they are.                               *)
LEMMA NoNewQuestion ==
    ASSUME NEW box \in Seq(Datagrams), NEW h \in Hosts
    PROVE  Questions(Append(box, [msg |-> "S", from |-> h])) = Questions(box)
<1> DEFINE d == [msg |-> "S", from |-> h]
<1>1. d \in Datagrams /\ d.msg # "T"
  BY DEF Datagrams, Letters
<1> HIDE DEF d
<1>2. /\ Len(Append(box, d)) = Len(box) + 1 /\ Append(box, d)[Len(box) + 1] = d
      /\ \A i \in 1..Len(box) : Append(box, d)[i] = box[i]
  BY <1>1
<1>3. 1..(Len(box) + 1) = (1..Len(box)) \cup {Len(box) + 1}
  OBVIOUS
<1>4. Questions(Append(box, d)) = Questions(box)
  BY <1>1, <1>2, <1>3 DEF Questions
<1> QED BY <1>4 DEF d

(* Taking the first datagram takes a T if it is one.                         *)
LEMMA OneQuestionLess ==
    ASSUME NEW box \in Seq(Datagrams), box # <<>>
    PROVE  Cardinality(Questions(Tail(box))) =
             IF Head(box).msg = "T" THEN Cardinality(Questions(box)) - 1
             ELSE Cardinality(Questions(box))
<1> DEFINE S == Questions(Tail(box))
           R == Questions(box) \ {1}
           f == [i \in S |-> i + 1]
<1>1. /\ Tail(box) \in Seq(Datagrams) /\ Len(Tail(box)) = Len(box) - 1 /\ Len(box) \in Nat
      /\ Len(box) >= 1 /\ Head(box) = box[1]
      /\ \A i \in 1..(Len(box) - 1) : Tail(box)[i] = box[i + 1]
  OBVIOUS
<1>2. \A i : i \in S <=> i \in 1..(Len(box) - 1) /\ box[i + 1].msg = "T"
  BY <1>1 DEF Questions
<1>3. \A j : j \in R <=> j \in 2..Len(box) /\ box[j].msg = "T"
  BY <1>1 DEF Questions
<1> HIDE DEF S, R
<1>4. ExistsBijection(S, R)
  <2>1. \A i \in S : i \in Int /\ i + 1 \in R
    BY <1>1, <1>2, <1>3
  <2>2. \A j \in R : j - 1 \in S /\ (j - 1) + 1 = j
    BY <1>1, <1>2, <1>3
  <2>3. f \in [S -> R]
    BY <2>1
  <2>4. \A i, j \in S : f[i] = f[j] => i = j
    BY <2>1
  <2>5. \A j \in R : \E i \in S : f[i] = j
    <3> TAKE j \in R
    <3>1. j - 1 \in S /\ f[j - 1] = j
      BY <2>2
    <3> QED BY <3>1
  <2> HIDE DEF f
  <2>6. f \in Bijection(S, R)
    BY <2>3, <2>4, <2>5 DEF Bijection, Injection, Surjection, IsInjective
  <2> QED BY <2>6 DEF ExistsBijection
<1>5. Cardinality(R) = Cardinality(S)
  <2>1. IsFiniteSet(S)
    BY <1>1, QuestionsFinite DEF S
  <2> QED BY <1>4, <2>1, FS_Bijection
<1>6. Cardinality(R) = IF 1 \in Questions(box) THEN Cardinality(Questions(box)) - 1
                       ELSE Cardinality(Questions(box))
  BY QuestionsFinite, FS_RemoveElement DEF R
<1>7. 1 \in Questions(box) <=> Head(box).msg = "T"
  BY <1>1 DEF Questions
<1> QED BY <1>5, <1>6, <1>7 DEF S

(* A broadcast S makes nobody owe more.                                      *)
LEMMA GreetingOwesNothing ==
    ASSUME NEW boxes \in Boxes, NEW bound, NEW h \in Hosts, NEW lost, NEW k \in Hosts
    PROVE  Questions(Delivered(boxes, bound, h, "S", lost)[k]) = Questions(boxes[k])
<1>1. boxes[k] \in Seq(Datagrams)
  BY DEF Boxes
<1>2. Delivered(boxes, bound, h, "S", lost)[k] \in
        {boxes[k], Append(boxes[k], [msg |-> "S", from |-> h])}
  BY DEF Delivered
<1> QED BY <1>1, <1>2, NoNewQuestion

(* Debts are numbers.                                                        *)
LEMMA DebtIsANumber ==
    ASSUME IInv, NEW h \in Hosts
    PROVE  /\ Cardinality(Questions(inbox[h])) \in Nat /\ unanswered[h] \in Nat
           /\ Debt(h) \in Nat
<1>1. inbox[h] \in Seq(Datagrams) /\ unanswered[h] \in Int /\ unanswered[h] >= 0
  BY DEF IInv, TypeOK, NeverAnswersTwice
<1> QED BY <1>1, QuestionsFinite DEF Debt

(* The same after a step.                                                    *)
LEMMA DebtStaysANumber ==
    ASSUME IInv', NEW h \in Hosts
    PROVE  Debt(h)' \in Nat
<1>1. inbox'[h] \in Seq(Datagrams) /\ unanswered'[h] \in Int /\ unanswered'[h] >= 0
  BY DEF IInv, TypeOK, NeverAnswersTwice
<1> QED BY <1>1, QuestionsFinite DEF Debt

(* What both loops do to the debt of h when it handles a datagram.           *)
LEMMA HandledDebt ==
    ASSUME IInv, IInv', NEW h \in Hosts, NEW STATE may, Handle(h, may)
    PROVE  /\ \A k \in Hosts : Debt(k)' \in 0..Debt(k)
           /\ (\E k \in Hosts : Len(inbox'[k]) > Len(inbox[k])) => Debt(h)' < Debt(h)
<1> DEFINE d == Head(inbox[h])
           rest == [inbox EXCEPT ![h] = Tail(@)]
           n(k) == Cardinality(Questions(inbox[k]))
<1>1. Typed
  BY TypedIsTypeOK DEF IInv
<1>2. inbox[h] \in Seq(Datagrams) /\ inbox[h] # <<>>
  BY <1>1 DEF Handle, Typed, Boxes
<1>3. /\ rest \in Boxes /\ rest[h] = Tail(inbox[h])
      /\ \A k \in Hosts \ {h} : rest[k] = inbox[k]
  BY <1>1, <1>2 DEF Typed, Boxes
<1>4. Cardinality(Questions(rest[h])) = IF d.msg = "T" THEN n(h) - 1 ELSE n(h)
  BY <1>2, <1>3, OneQuestionLess
<1>5. \A k \in Hosts : n(k) \in Nat /\ unanswered[k] \in Nat /\ Debt(k) = n(k) + unanswered[k]
  BY DebtIsANumber DEF Debt
<1>6. \A k \in Hosts : Debt(k)' \in Nat
  BY DebtStaysANumber
<1> HIDE DEF rest, d
<1>7. ASSUME \A k \in Hosts : Questions(inbox'[k]) = Questions(rest[k])
      PROVE  /\ \A k \in Hosts \ {h} : Cardinality(Questions(inbox[k]))' = n(k)
             /\ Cardinality(Questions(inbox[h]))' = IF d.msg = "T" THEN n(h) - 1 ELSE n(h)
  BY <1>3, <1>4, <1>7
<1>8. CASE /\ Asked(h, d.msg)
           /\ \E lost \in Losses(h) : inbox' = Delivered(rest, Listening, h, "S", lost)
           /\ UNCHANGED unanswered
  <2>1. \A k \in Hosts : Questions(inbox'[k]) = Questions(rest[k])
    BY <1>3, <1>8, GreetingOwesNothing
  <2>2. d.msg = "T"
    BY <1>8 DEF Asked
  <2>3. Debt(h)' = Debt(h) - 1 /\ \A k \in Hosts \ {h} : Debt(k)' = Debt(k)
    BY <1>5, <1>7, <1>8, <2>1, <2>2 DEF Debt
  <2> QED BY <1>5, <1>6, <2>3
<1>9. CASE /\ inbox' = rest
           /\ unanswered' = [unanswered EXCEPT ![h] = IF Asked(h, d.msg) THEN @ + 1 ELSE @]
  <2>1. unanswered \in [Hosts -> Int]
    BY <1>1 DEF Typed
  <2>2. /\ unanswered'[h] = IF Asked(h, d.msg) THEN unanswered[h] + 1 ELSE unanswered[h]
        /\ \A k \in Hosts \ {h} : unanswered'[k] = unanswered[k]
    BY <1>9, <2>1
  <2>3. Asked(h, d.msg) => d.msg = "T"
    BY DEF Asked
  <2>4. Debt(h)' <= Debt(h) /\ \A k \in Hosts \ {h} : Debt(k)' = Debt(k)
    <3>1. \A k \in Hosts : Debt(k)' = Cardinality(Questions(inbox[k]))' + unanswered'[k]
      BY DEF Debt
    <3>2. \A k \in Hosts \ {h} : Debt(k)' = Debt(k)
      BY <1>5, <1>7, <1>9, <2>2, <3>1
    <3>3. Debt(h)' <= Debt(h)
      BY <1>5, <1>7, <1>9, <2>2, <2>3, <3>1
    <3> QED BY <3>2, <3>3
  <2>5. \A k \in Hosts : Len(inbox'[k]) <= Len(inbox[k])
    <3>1. Len(Tail(inbox[h])) <= Len(inbox[h])
      BY <1>2
    <3>2. \A k \in Hosts : Len(inbox[k]) \in Nat
      BY <1>1 DEF Typed, Boxes
    <3>3. Len(inbox'[h]) <= Len(inbox[h])
      BY <1>3, <1>9, <3>1
    <3>4. \A k \in Hosts \ {h} : Len(inbox'[k]) <= Len(inbox[k])
      BY <1>3, <1>9, <3>2
    <3> QED BY <3>3, <3>4
  <2>6. \A k \in Hosts : Len(inbox'[k]) \in Nat /\ Len(inbox[k]) \in Nat
    BY <1>1, TypedIsTypeOK DEF IInv, Typed, Boxes
  <2> QED BY <1>5, <1>6, <2>4, <2>5, <2>6
<1> QED BY <1>8, <1>9 DEF Handle, d, rest

(* A time-out answers a T that was left unanswered.                          *)
LEMMA TimeoutDebt ==
    ASSUME IInv, IInv', NEW h \in Hosts, ServerTimeout(h)
    PROVE  (\A k \in Hosts : Debt(k)' \in 0..Debt(k)) /\ Debt(h)' < Debt(h)
<1>1. inbox \in Boxes /\ unanswered \in [Hosts -> Int]
  BY TypedIsTypeOK DEF IInv, Typed
<1>2. \A k \in Hosts : Questions(inbox'[k]) = Questions(inbox[k])
  BY <1>1, GreetingOwesNothing DEF ServerTimeout
<1>3. /\ unanswered'[h] = unanswered[h] - 1
      /\ \A k \in Hosts \ {h} : unanswered'[k] = unanswered[k]
  BY <1>1 DEF ServerTimeout
<1>4. \A k \in Hosts : Debt(k) \in Nat /\ Debt(k)' \in Nat
  BY DebtIsANumber, DebtStaysANumber
<1>5. Cardinality(Questions(inbox[h])) \in Nat /\ unanswered[h] \in Nat
  BY DebtIsANumber
<1>6. Debt(h)' = Debt(h) - 1 /\ \A k \in Hosts \ {h} : Debt(k)' = Debt(k)
  BY <1>2, <1>3, <1>5 DEF Debt
<1> QED BY <1>4, <1>6

(* While nobody starts or stops, debts only fall, and every datagram pays    *)
(* off one: for any number of hosts, losses and time-outs.                   *)
THEOREM DebtsArePaid == Spec => AnswersArePaidFor
<1> DEFINE Paid == phase' = phase =>
                /\ \A h \in Hosts : Debt(h)' \in 0..Debt(h)
                /\ (\E h \in Hosts : Len(inbox[h])' > Len(inbox[h])) =>
                        \E h \in Hosts : Debt(h)' < Debt(h)
<1>1. IInv /\ IInv' /\ [Next]_vars => [Paid]_vars
  <2> SUFFICES ASSUME IInv, IInv', Next, phase' = phase PROVE Paid
    BY DEF vars
  <2>1. phase \in [Hosts -> {"off", "starting", "listening"}]
    BY DEF IInv, TypeOK
  <2>2. ASSUME NEW h \in Hosts, Announce(h) \/ BindPort(h) \/ Stop(h) \/ Crash(h) PROVE FALSE
    <3>1. phase'[h] # phase[h]
      BY <2>1, <2>2 DEF Announce, BindPort, Stop, Crash, Forget
    <3> QED BY <3>1
  <2>3. ASSUME NEW h \in Hosts, InterReceive(h) \/ ServerReceive(h) PROVE Paid
    BY <2>3, HandledDebt DEF InterReceive, ServerReceive
  <2>4. ASSUME NEW h \in Hosts, ServerTimeout(h) PROVE Paid
    BY <2>4, TimeoutDebt
  <2> QED BY <2>2, <2>3, <2>4 DEF Next, Receive
<1>2. Spec => []IInv
  BY InitInv, NextInv, PTL DEF Spec
<1> QED BY <1>1, <1>2, PTL DEF Spec, AnswersArePaidFor
=============================================================================
