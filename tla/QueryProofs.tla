----------------------------- MODULE QueryProofs -----------------------------
(***************************************************************************)
(* The safety properties of the query path, for every number of clients,   *)
(* every catalogue, every size of the buffers and of the queues, and that  *)
(* the query path implements QueryService: every step of the three         *)
(* programs is a step of the promise, or changes nothing a client can see. *)
(***************************************************************************)
EXTENDS QuerySteps

(* A step that changes nothing changes no part of the invariant.             *)
LEMMA StutterStep ==
    ASSUME IInv, TypeOK', UNCHANGED vars
    PROVE  IInv'
<1>1. /\ TypeOK /\ ClientsInv /\ ClientQueueInv /\ PsQueueInv /\ StagesInv
      /\ RelayInv /\ ServingInv /\ AnswersInv /\ OpenInv /\ DeathNeedsTheServer
  BY DEF IInv
<1>2. UNCHANGED <<conn, link, clientQueue, psQueue, cpc, shown, ipc, cur,
                  request_buff, request, ps_answer, spc, serving, a,
                  test_case>>
  BY DEF vars, socketVars, clientVars, interVars, serverVars
<1>3. ClientsInv'
  BY <1>1, <1>2 DEF ClientsInv
<1>4. ClientQueueInv'
  BY <1>1, <1>2 DEF ClientQueueInv
<1>5. PsQueueInv'
  BY <1>1, <1>2 DEF PsQueueInv
<1>6. StagesInv'
  BY <1>1, <1>2 DEF StagesInv
<1>7. RelayInv'
  BY <1>1, <1>2 DEF RelayInv, Own, Name, Right
<1>8. ServingInv'
  BY <1>1, <1>2 DEF ServingInv
<1>9. AnswersInv'
  BY <1>1, <1>2 DEF AnswersInv, Own, Name, Right
<1>10. OpenInv'
  BY <1>1, <1>2 DEF OpenInv
<1>11. DeathNeedsTheServer'
  BY <1>1, <1>2 DEF DeathNeedsTheServer
<1>12. QED
  BY <1>3, <1>4, <1>5, <1>6, <1>7, <1>8, <1>9, <1>10, <1>11 DEF IInv
-----------------------------------------------------------------------------
(* The invariant holds before anybody connects.                              *)
LEMMA InitInv == Init => IInv
<1> SUFFICES ASSUME Init PROVE IInv
  OBVIOUS
<1>1. TypeOK
  BY InitType
<1>2. /\ \A c \in Clients : /\ conn[c] = NoConnection /\ link[c] = NoConnection
                            /\ cpc[c] = "start"
      /\ clientQueue = <<>> /\ psQueue = <<>> /\ ipc = "accept" /\ spc = "accept"
  BY DEF Init, SocketsInit, ClientInit, IntermediateInit, ServerInit
<1>3. ClientsInv /\ StagesInv /\ AnswersInv /\ OpenInv
  BY <1>2 DEF ClientsInv, StagesInv, AnswersInv, OpenInv, NoConnection, InitiatorOpen
<1>4. ClientQueueInv /\ PsQueueInv
  BY <1>2 DEF ClientQueueInv, PsQueueInv
<1>5. RelayInv /\ ServingInv /\ DeathNeedsTheServer
  BY <1>2 DEF RelayInv, ServingInv, DeathNeedsTheServer, Busy
<1>6. QED
  BY <1>1, <1>3, <1>4, <1>5 DEF IInv

(* Every step preserves it: the types by the lemmas of QueryTypes, the rest  *)
(* by one lemma per action.                                                  *)
LEMMA NextInv == IInv /\ [Next]_vars => IInv'
<1> SUFFICES ASSUME IInv, [Next]_vars PROVE IInv'
  OBVIOUS
<1>1. TypeOK
  BY DEF IInv
<1>2. ASSUME NEW c \in Clients, ClientNext(c) PROVE IInv'
  <2>1. TypeOK'
    BY <1>1, <1>2, ClientType
  <2>2. QED
    BY <1>2, <2>1, ConnectStep, SendStep, ReceiveStep DEF ClientNext, ClientStep
<1>3. CASE RelayNext
  <2>1. TypeOK'
    BY <1>1, <1>3, RelayType
  <2>2. QED
    BY <1>3, <2>1, AcceptClientStep, ReadRequestStep, SleepStep, DispatchErrorStep,
       DispatchMenuStep, DispatchRequestStep, PsConnectStep, PsWriteStep, PsReadStep, ReplyStep,
       CloseThrowsStep
    DEF RelayNext, ListenClient
<1>4. CASE MainNext
  <2>1. TypeOK'
    BY <1>1, <1>4, MainType
  <2>2. QED
    BY <1>4, <2>1, LearnPsStep, InterStopStep DEF MainNext
<1>5. CASE ServerNext
  <2>1. TypeOK'
    BY <1>1, <1>5, ServerType
  <2>2. QED
    BY <1>5, <2>1, AcceptIntermediateStep, ReadIntermediateStep, RespondFigureStep,
       ServerStopStep, ServerStartStep DEF ServerNext, ServerStep
<1>6. CASE UNCHANGED vars
  <2>1. TypeOK'
    BY <1>1, <1>6, StutterType
  <2>2. QED
    BY <1>6, <2>1, StutterStep
<1>7. QED
  BY <1>2, <1>3, <1>4, <1>5, <1>6 DEF Next

(* IInv is an inductive invariant of the query path.                         *)
THEOREM Inductive == Spec => []IInv
<1>1. Init => IInv
  BY InitInv
<1>2. IInv /\ [Next]_vars => IInv'
  BY NextInv
<1>3. QED
  BY <1>1, <1>2, PTL DEF Spec

(* No turn of listen_client leaves a connection open.                        *)
THEOREM ConnectionsClosed == Spec => []NothingLeftOpen
<1>1. IInv => NothingLeftOpen
  BY DEF IInv, OpenInv, NothingLeftOpen, Busy
<1>2. QED
  BY <1>1, Inductive, PTL

(* Whatever the clients send and whenever they end, the query path of the    *)
(* intermediate only dies of what the pieces server did.                     *)
THEOREM ClientsAreHarmless == Spec => []DeathNeedsTheServer
<1>1. IInv => DeathNeedsTheServer
  BY DEF IInv
<1>2. QED
  BY <1>1, Inductive, PTL

(* What was written on a connection before its close stays there.            *)
LEMMA ClosedIsKept ==
    ASSUME IInv, Next, NEW c \in Clients, conn[c].ahup
    PROVE  conn'[c].down = conn[c].down /\ conn'[c].ahup
<1>1. RelayInv /\ TypeOK
  BY DEF IInv
<1>2. conn \in ConnType /\ cur \in Clients /\ clientQueue \in Seq(Clients)
  BY <1>1 DEF TypeOK, ConnType
<1>3. conn[c] \in Connection(Seq(Words), Seq(Blocks \cup {JUNK}))
  BY <1>2 DEF ConnType
<1>4. CASE conn'[c] = Orphaned(conn[c])
  BY <1>3, <1>4, OrphanedFields
<1>5. CASE conn'[c] = conn[c]
  BY <1>5
<1>6. ASSUME NEW d \in Clients, NEW v,
             \/ conn' = [conn EXCEPT ![d].st = v] \/ conn' = [conn EXCEPT ![d].up = v]
             \/ conn' = [conn EXCEPT ![d].got = v] \/ conn' = [conn EXCEPT ![d].ihup = v]
      PROVE  conn'[c].down = conn[c].down /\ conn'[c].ahup
  <2>1. conn \in [Clients -> Connection(Seq(Words), Seq(Blocks \cup {JUNK}))]
    BY <1>2 DEF ConnType
  <2>2. CASE conn' = [conn EXCEPT ![d].st = v]
    BY <2>1, <2>2, UpdateSt
  <2>3. CASE conn' = [conn EXCEPT ![d].up = v]
    BY <2>1, <2>3, UpdateUp
  <2>4. CASE conn' = [conn EXCEPT ![d].got = v]
    BY <2>1, <2>4, UpdateGot
  <2>5. CASE conn' = [conn EXCEPT ![d].ihup = v]
    BY <2>1, <2>5, UpdateIhup
  <2>6. QED
    BY <1>6, <2>2, <2>3, <2>4, <2>5
<1>7. ASSUME NEW v, conn' = [conn EXCEPT ![cur] = Answered(@, v)], ipc \in Busy
      PROVE  conn'[c] = conn[c]
  BY <1>1, <1>2, <1>7 DEF RelayInv, ConnType
<1>8. ASSUME NEW d \in Clients, ClientNext(d)
      PROVE  conn'[c].down = conn[c].down /\ conn'[c].ahup
  BY <1>6, <1>8 DEF ClientNext, ClientStep, Connect, Send, Receive, ReceiveTimesOut
<1>9. CASE RelayNext
  <2>1. CASE AcceptClient
    <3>1. Head(clientQueue) \in Clients
      BY <1>2, <2>1, QueueTail DEF AcceptClient
    <3>2. QED
      BY <1>6, <2>1, <3>1 DEF AcceptClient
  <2>2. CASE ReadRequest
    BY <1>2, <1>6, <2>2 DEF ReadRequest
  <2>3. CASE Sleep
    BY <1>5, <2>3 DEF Sleep, socketVars
  <2>4. CASE DispatchError
    BY <1>5, <1>7, <2>4 DEF DispatchError, Respond, Busy
  <2>5. CASE DispatchMenu
    BY <1>5, <1>7, <2>5 DEF DispatchMenu, Respond, Busy
  <2>6. CASE DispatchRequest
    BY <1>5, <2>6 DEF DispatchRequest, socketVars
  <2>7. CASE PsConnect
    BY <1>4, <1>5, <2>7 DEF PsConnect, Die
  <2>8. CASE PsWrite
    BY <1>4, <1>5, <2>8 DEF PsWrite, Die
  <2>9. CASE PsRead
    BY <1>5, <2>9 DEF PsRead, PsReadTimesOut, PsClose
  <2>10. CASE Reply
    BY <1>4, <1>5, <1>7, <2>10 DEF Reply, Respond, Die, Busy
  <2>11. CASE CloseThrows
    BY <1>4, <2>11 DEF CloseThrows, Die
  <2>12. QED
    BY <1>9, <2>1, <2>2, <2>3, <2>4, <2>5, <2>6, <2>7, <2>8, <2>9, <2>10, <2>11
    DEF RelayNext, ListenClient
<1>10. CASE MainNext
  BY <1>4, <1>5, <1>10 DEF MainNext, LearnPs, InterStop, socketVars
<1>11. CASE ServerNext
  BY <1>5, <1>11 DEF ServerNext, ServerStep, AcceptIntermediate, ReadIntermediate,
     RespondFigure, ServerStop, ServerStart
<1>12. QED
  BY <1>8, <1>9, <1>10, <1>11 DEF Next

(* No client is written to after its connection was closed.                  *)
THEOREM WrittenOnce == Spec => AnsweredOnce
<1>1. IInv /\ [Next]_vars => [\A c \in Clients : conn[c].ahup =>
                                conn'[c].down = conn[c].down /\ conn'[c].ahup]_vars
  BY ClosedIsKept
<1>2. QED
  BY <1>1, Inductive, PTL DEF Spec, AnsweredOnce
-----------------------------------------------------------------------------
(* A client that waits has written, and one that has ended has closed, or    *)
(* was never connected.                                                      *)
Heard ==
    \A c \in Clients :
        /\ cpc[c] = "waiting" => conn[c].up # <<>>
        /\ cpc[c] \in Finished => conn[c].ihup \/ conn[c].st = "refused"

(* The intermediate and the pieces server leave the clients' end of their    *)
(* connections alone.                                                        *)
LEMMA OthersLeaveTheClients ==
    ASSUME IInv, RelayNext \/ MainNext \/ ServerNext, NEW c \in Clients
    PROVE  /\ cpc' = cpc
           /\ conn'[c].up = conn[c].up /\ conn'[c].ihup = conn[c].ihup
           /\ conn[c].st = "refused" => conn'[c].st = "refused"
<1> DEFINE Left == /\ conn'[c].up = conn[c].up /\ conn'[c].ihup = conn[c].ihup
                   /\ conn[c].st = "refused" => conn'[c].st = "refused"
<1>1. /\ conn \in [Clients -> Connection(Seq(Words), Seq(Blocks \cup {JUNK}))]
      /\ cur \in Clients /\ clientQueue \in Seq(Clients)
  BY DEF IInv, TypeOK
<1>2. cpc' = cpc
  BY DEF RelayNext, MainNext, ServerNext, clientVars
<1>3. ASSUME conn'[c] = Orphaned(conn[c]) PROVE Left
  <2>1. conn[c] \in Connection(Seq(Words), Seq(Blocks \cup {JUNK}))
    BY <1>1
  <2>2. /\ Orphaned(conn[c]).up = conn[c].up /\ Orphaned(conn[c]).ihup = conn[c].ihup
        /\ conn[c].st = "refused" => Orphaned(conn[c]).st = "refused"
    BY <2>1, OrphanedFields
  <2> QED BY <1>3, <2>2
<1>4. ASSUME conn' = conn PROVE Left
  BY <1>4
<1>5. ASSUME NEW v, \/ conn' = [conn EXCEPT ![cur] = Answered(@, v)]
                    \/ conn' = [conn EXCEPT ![cur].got = v]
      PROVE  Left
  <2>1. /\ \A d \in Clients \ {cur} : conn'[d] = conn[d]
        /\ conn'[cur].st = conn[cur].st /\ conn'[cur].up = conn[cur].up
        /\ conn'[cur].ihup = conn[cur].ihup
    <3>1. CASE conn' = [conn EXCEPT ![cur] = Answered(@, v)]
      BY <1>1, <3>1 DEF Answered, Connection
    <3>2. CASE conn' = [conn EXCEPT ![cur].got = v]
      BY <1>1, <3>2, UpdateGot
    <3> QED BY <1>5, <3>1, <3>2
  <2>2. CASE c = cur
    BY <2>1, <2>2
  <2>3. CASE c # cur
    BY <2>1, <2>3
  <2> QED BY <2>2, <2>3
<1>6. CASE RelayNext
  <2>1. CASE AcceptClient
    <3> DEFINE h == Head(clientQueue)
    <3>1. h \in Clients
      BY <1>1, <2>1, QueueTail DEF AcceptClient
    <3>2. conn[h].st = "queued"
      <4>1. 1 \in 1..Len(clientQueue) /\ h = clientQueue[1]
        BY <1>1, <2>1 DEF AcceptClient
      <4> QED BY <4>1 DEF IInv, ClientQueueInv
    <3>3. conn' = [conn EXCEPT ![h].st = "accepted"]
      BY <2>1 DEF AcceptClient
    <3> HIDE DEF h
    <3>4. /\ \A d \in Clients \ {h} : conn'[d] = conn[d]
          /\ conn'[h].up = conn[h].up /\ conn'[h].ihup = conn[h].ihup
      BY <1>1, <3>1, <3>3, UpdateSt
    <3>5. CASE c = h
      BY <1>2, <3>2, <3>4, <3>5
    <3>6. CASE c # h
      BY <1>2, <3>4, <3>6
    <3> QED BY <3>5, <3>6
  <2>2. CASE ReadRequest
    BY <1>2, <1>5, <2>2 DEF ReadRequest
  <2>3. CASE Sleep \/ DispatchRequest \/ PsRead
    BY <1>2, <1>4, <2>3 DEF Sleep, DispatchRequest, PsRead, socketVars
  <2>4. CASE DispatchError \/ DispatchMenu
    BY <1>2, <1>5, <2>4 DEF DispatchError, DispatchMenu, Respond
  <2>5. CASE PsConnect \/ PsWrite \/ Reply \/ CloseThrows
    <3>1. \/ conn' = conn \/ conn' = [conn EXCEPT ![cur] = Answered(@, ps_answer)]
          \/ conn' = [d \in Clients |-> Orphaned(conn[d])]
      BY <2>5 DEF PsConnect, PsWrite, Reply, CloseThrows, Respond, Die
    <3> QED BY <1>2, <1>3, <1>4, <1>5, <3>1
  <2> QED
    BY <1>6, <2>1, <2>2, <2>3, <2>4, <2>5 DEF RelayNext, ListenClient
<1>7. CASE MainNext
  <2>1. conn' = conn \/ conn'[c] = Orphaned(conn[c])
    BY <1>7 DEF MainNext, LearnPs, InterStop, socketVars
  <2> QED BY <1>2, <1>3, <1>4, <2>1
<1>8. CASE ServerNext
  <2>1. conn' = conn
    BY <1>8 DEF ServerNext, ServerStep, AcceptIntermediate, ReadIntermediate,
       RespondFigure, ServerStop, ServerStart
  <2> QED BY <1>2, <1>4, <2>1
<1> QED BY <1>6, <1>7, <1>8

(* A client writes before it waits and closes when it ends.                  *)
LEMMA ClientsAreHeard ==
    ASSUME IInv, Heard, NEW c \in Clients, ClientNext(c)
    PROVE  Heard'
<1>1. /\ conn \in [Clients -> Connection(Seq(Words), Seq(Blocks \cup {JUNK}))]
      /\ cpc \in [Clients -> {"start", "connected", "waiting"} \cup Finished]
  BY DEF IInv, TypeOK
<1>2. ASSUME /\ \A d \in Clients \ {c} : cpc'[d] = cpc[d] /\ conn'[d] = conn[d]
             /\ cpc'[c] = "waiting" => conn'[c].up # <<>>
             /\ cpc'[c] \in Finished => conn'[c].ihup \/ conn'[c].st = "refused"
      PROVE  Heard'
  BY <1>2 DEF Heard
<1>3. ASSUME NEW v, cpc' = [cpc EXCEPT ![c] = v]
      PROVE  cpc'[c] = v /\ \A d \in Clients \ {c} : cpc'[d] = cpc[d]
  BY <1>1, <1>3
<1>4. CASE Connect(c)
  <2>1. CASE conn' = [conn EXCEPT ![c].st = "queued"] /\ cpc' = [cpc EXCEPT ![c] = "connected"]
    BY <1>1, <1>2, <1>3, <2>1, UpdateSt DEF Finished
  <2>2. CASE conn' = [conn EXCEPT ![c].st = "refused"] /\ cpc' = [cpc EXCEPT ![c] = "crashed"]
    BY <1>1, <1>2, <1>3, <2>2, UpdateSt
  <2> QED BY <1>4, <2>1, <2>2 DEF Connect
<1>5. CASE Send(c)
  <2>1. CASE conn' = [conn EXCEPT ![c].ihup = TRUE] /\ cpc' = [cpc EXCEPT ![c] = "crashed"]
    BY <1>1, <1>2, <1>3, <2>1, UpdateIhup
  <2>2. ASSUME NEW m \in Asks[c], conn' = [conn EXCEPT ![c].up = m],
               cpc' = [cpc EXCEPT ![c] = "waiting"]
        PROVE  Heard'
    <3>1. m # <<>>
      BY <2>2, ClientAssumption
    <3> QED BY <1>1, <1>2, <1>3, <2>2, <3>1, UpdateUp DEF Finished
  <2> QED BY <1>5, <2>1, <2>2 DEF Send
<1>6. CASE Receive(c)
  <2>1. conn' = [conn EXCEPT ![c].ihup = TRUE]
    BY <1>6 DEF Receive
  <2>2. \E v \in {"done", "timeout"} : cpc' = [cpc EXCEPT ![c] = v]
    BY <1>6 DEF Receive, ReceiveTimesOut
  <2> QED BY <1>1, <1>2, <1>3, <2>1, <2>2, UpdateIhup
<1> QED BY <1>4, <1>5, <1>6 DEF ClientNext, ClientStep

(* So whoever reads without a time-out waits for one that goes on.           *)
LEMMA ReadersWaitForWriters == IInv /\ Heard => PeersWillWrite
<1> SUFFICES ASSUME IInv, Heard PROVE PeersWillWrite
  OBVIOUS
<1>1. ASSUME ipc = "read", conn[cur].up = <<>>, ~conn[cur].ihup
      PROVE  cpc[cur] = "connected"
  <2>1. cur \in Clients /\ cpc[cur] \in {"start", "connected", "waiting"} \cup Finished
    BY DEF IInv, TypeOK
  <2>2. conn[cur].st = "accepted"
    BY <1>1 DEF IInv, RelayInv, Busy
  <2>3. cpc[cur] # "start"
    BY <2>1, <2>2 DEF IInv, ClientsInv
  <2> QED BY <1>1, <2>1, <2>2, <2>3 DEF Heard
<1>2. ASSUME spc = "read", link[serving].up = <<>>, ~link[serving].ihup
      PROVE  serving = cur /\ ipc = "write"
  <2>1. serving \in Clients /\ link[serving].st = "accepted"
    BY <1>2 DEF IInv, TypeOK, ServingInv
  <2>2. serving = cur /\ ipc \in {"write", "answer"}
    BY <1>2, <2>1 DEF IInv, OpenInv, InitiatorOpen
  <2> QED BY <1>2, <2>2 DEF IInv, RelayInv
<1> QED BY <1>1, <1>2 DEF PeersWillWrite

(* Nobody waits in a circle: the two reads without a time-out wait for a     *)
(* peer that is about to write or to end.                                    *)
THEOREM NobodyWaitsInACircle == Spec => []PeersWillWrite
<1>1. Init => Heard
  BY DEF Init, ClientInit, Heard, Finished
<1>2. IInv /\ Heard /\ [Next]_vars => Heard'
  <2> SUFFICES ASSUME IInv, Heard, [Next]_vars PROVE Heard'
    OBVIOUS
  <2>1. CASE RelayNext \/ MainNext \/ ServerNext
    BY <2>1, OthersLeaveTheClients DEF Heard
  <2>2. CASE UNCHANGED vars
    BY <2>2 DEF vars, socketVars, clientVars, Heard
  <2> QED BY <2>1, <2>2, ClientsAreHeard DEF Next
<1> QED BY <1>1, <1>2, Inductive, ReadersWaitForWriters, PTL DEF Spec
-----------------------------------------------------------------------------
(* The blocks a string shares with the array it is taken from: all of them,  *)
(* and junk where it runs on behind the array.                               *)
LEMMA StringCells ==
    ASSUME NEW buf \in Seq(Blocks \cup {NUL, JUNK}), NEW s \in Strings(buf)
    PROVE  /\ s \in Seq(Blocks \cup {JUNK})
           /\ \A i \in 1..Len(s) : s[i] = IF i <= Len(buf) THEN buf[i] ELSE JUNK
<1>1. s \in Seq(Blocks \cup {JUNK})
  BY AnswerStringsType
<1>2. CASE \E i \in 1..Len(buf) : buf[i] = NUL
  <2>1. PICK m \in StrLen(buf) : s = SubSeq(buf, 1, m)
    BY <1>2 DEF Strings
  <2>2. m \in 0..(Len(buf) - 1) /\ Len(buf) \in Nat
    BY <2>1 DEF StrLen
  <2>3. Len(s) = m /\ \A i \in 1..m : s[i] = buf[i]
    <3>1. \A i \in 1..m : buf[i] \in Blocks \cup {NUL, JUNK}
      BY <2>2, ElementOfSeq
    <3>2. QED
      BY <2>1, <2>2, <3>1
  <2>4. QED
    BY <1>1, <2>2, <2>3
<1>3. CASE ~ \E i \in 1..Len(buf) : buf[i] = NUL
  <2>1. s = buf \/ s = Append(buf, JUNK)
    BY <1>3 DEF Strings
  <2>2. Len(buf) \in Nat
    OBVIOUS
  <2>3. CASE s = Append(buf, JUNK)
    <3>1. Len(s) = Len(buf) + 1 /\ \A i \in 1..Len(s) :
                s[i] = IF i <= Len(buf) THEN buf[i] ELSE JUNK
      BY <2>2, <2>3
    <3>2. QED
      BY <1>1, <3>1
  <2>4. CASE s = buf
    BY <1>1, <2>2, <2>4
  <2>5. QED
    BY <2>1, <2>3, <2>4
<1>4. QED
  BY <1>2, <1>3

(* What is printed or sent after a read of k blocks: those, then what the    *)
(* array held before.                                                        *)
LEMMA FilledString ==
    ASSUME NEW buf \in Seq(Blocks \cup {NUL, JUNK}),
           NEW bytes \in Seq(Blocks \cup {JUNK}), NEW k \in 1..Len(bytes), k <= Len(buf),
           NEW s \in Strings(Fill(buf, bytes, k))
    PROVE  /\ s \in Seq(Blocks \cup {JUNK}) /\ Len(s) >= k
           /\ \A i \in 1..Len(s) :
                s[i] = IF i <= k THEN bytes[i] ELSE IF i <= Len(buf) THEN buf[i] ELSE JUNK
<1> DEFINE b == Fill(buf, bytes, k)
<1>1. /\ bytes \in Seq(Blocks \cup {NUL, JUNK}) /\ k \in Nat /\ k <= Len(bytes) /\ k >= 1
      /\ Len(bytes) \in Nat /\ Len(buf) \in Nat
  OBVIOUS
<1>2. /\ b \in Seq(Blocks \cup {NUL, JUNK}) /\ Len(b) = Len(buf)
      /\ \A i \in 1..Len(buf) : b[i] = IF i <= k THEN bytes[i] ELSE buf[i]
  BY <1>1, AnswerFillType
<1>3. \A i \in 1..k : bytes[i] # NUL
  <2>1. \A i \in 1..k : bytes[i] \in Blocks \cup {JUNK}
    BY <1>1, ElementOfSeq
  <2>2. QED
    BY <2>1, BlocksAssumption, MarksDiffer
<1>4. s \in Strings(b)
  OBVIOUS
<1> HIDE DEF b
<1>5. /\ s \in Seq(Blocks \cup {JUNK})
      /\ \A i \in 1..Len(s) : s[i] = IF i <= Len(b) THEN b[i] ELSE JUNK
  BY <1>2, <1>4, StringCells
<1>6. Len(s) >= k
  <2>1. k \in 0..Len(b) /\ \A i \in 1..k : b[i] # NUL
    BY <1>1, <1>2, <1>3
  <2>2. QED
    BY <1>2, <1>4, <2>1, StringsPrefix
<1>7. ASSUME NEW i \in 1..Len(s)
      PROVE  s[i] = IF i <= k THEN bytes[i] ELSE IF i <= Len(buf) THEN buf[i] ELSE JUNK
  <2>1. i \in Nat /\ i >= 1 /\ s[i] = IF i <= Len(b) THEN b[i] ELSE JUNK
    BY <1>5, <1>7
  <2>2. i <= Len(b) => b[i] = IF i <= k THEN bytes[i] ELSE buf[i]
    BY <1>1, <1>2, <2>1
  <2>3. QED
    BY <1>1, <1>2, <2>1, <2>2
<1>8. QED
  BY <1>5, <1>6, <1>7

(* f before and g after a step: no answer of the pieces server changes, and  *)
(* a connection that ended without one stays so.                             *)
Grown(f, g) ==
    \A d \in Clients :
        /\ f[d].down # <<>> => g[d].down = f[d].down
        /\ AnswerEnded(f[d]) => AnswerEnded(g[d])

(* Then what ps_buff may hold only becomes more.                             *)
LEMMA LeftGrows ==
    ASSUME NEW f \in LinkType, NEW g \in LinkType, Grown(f, g), NEW i \in Nat \ {0}
    PROVE  LeftAt(f, i) \subseteq LeftAt(g, i)
<1>1. ASSUME NEW d \in Clients, i <= Len(f[d].down)
      PROVE  i <= Len(g[d].down) /\ f[d].down[i] = g[d].down[i]
  <2>1. f[d].down \in Seq(Blocks) /\ Len(f[d].down) \in Nat
    BY DEF LinkType, Connection
  <2>2. f[d].down # <<>>
    BY <1>1, <2>1
  <2>3. QED
    BY <1>1, <2>2 DEF Grown
<1>2. QED
  BY <1>1 DEF LeftAt

(* And what fitted still fits.                                               *)
LEMMA FittingGrows ==
    ASSUME NEW f \in LinkType, NEW g \in LinkType, Grown(f, g), NEW c \in Clients,
           NEW r, NEW s \in Seq(Blocks \cup {JUNK}), Fitting(f, c, r, s)
    PROVE  Fitting(g, c, r, s)
<1>1. PICK n \in 0..Len(s) : Mixed(f, r, s, n) /\ (n = 0 => AnswerEnded(f[c]))
  BY DEF Fitting
<1>2. n = 0 => AnswerEnded(g[c])
  BY <1>1 DEF Grown
<1>3. \A i \in (n + 1)..Len(s) : LeftAt(f, i) \subseteq LeftAt(g, i)
  BY <1>1, LeftGrows
<1>4. Mixed(g, r, s, n)
  BY <1>1, <1>3 DEF Mixed
<1>5. QED
  BY <1>2, <1>4 DEF Fitting

(* What one step can do to the connections of request_ps: answer the one     *)
(* that is served, open the one of the current client, and nothing else that *)
(* the buffers depend on.                                                    *)
LinksStep ==
    /\ Grown(link, link')
    /\ \A d \in Clients :
        link[d].st = "none" /\ link'[d].st # "none" => d = cur /\ ipc = "connect"

(* The connections of request_ps after an update that is no answer.          *)
LEMMA LinksUpdated ==
    ASSUME IInv, NEW c \in Clients, NEW v,
           \/ /\ link' = [link EXCEPT ![c].st = v]
              /\ link[c].st # "none" \/ (c = cur /\ ipc = "connect")
           \/ link' = [link EXCEPT ![c].up = v]
           \/ link' = [link EXCEPT ![c].got = v]
           \/ link' = [link EXCEPT ![c].ihup = v]
    PROVE  LinksStep
<1>1. link \in [Clients -> Connection(Seq(Words \cup {JUNK}), Seq(Blocks))]
  BY DEF IInv, TypeOK
<1>2. ASSUME \A d \in Clients :
                /\ link'[d].down = link[d].down /\ link'[d].ahup = link[d].ahup
                /\ link[d].st = "none" /\ link'[d].st # "none" => d = cur /\ ipc = "connect"
      PROVE  LinksStep
  BY <1>2 DEF LinksStep, Grown, AnswerEnded
<1>3. CASE /\ link' = [link EXCEPT ![c].st = v]
           /\ link[c].st # "none" \/ (c = cur /\ ipc = "connect")
  <2>1. /\ \A d \in Clients \ {c} : link'[d] = link[d]
        /\ link'[c].down = link[c].down /\ link'[c].ahup = link[c].ahup
    BY <1>1, <1>3, UpdateSt
  <2> QED BY <1>2, <1>3, <2>1
<1>4. CASE link' = [link EXCEPT ![c].up = v]
  <2>1. \A d \in Clients : /\ link'[d].down = link[d].down /\ link'[d].ahup = link[d].ahup
                           /\ link'[d].st = link[d].st
    BY <1>1, <1>4, UpdateUp
  <2> QED BY <1>2, <2>1
<1>5. CASE link' = [link EXCEPT ![c].got = v]
  <2>1. \A d \in Clients : /\ link'[d].down = link[d].down /\ link'[d].ahup = link[d].ahup
                           /\ link'[d].st = link[d].st
    BY <1>1, <1>5, UpdateGot
  <2> QED BY <1>2, <2>1
<1>6. CASE link' = [link EXCEPT ![c].ihup = v]
  <2>1. \A d \in Clients : /\ link'[d].down = link[d].down /\ link'[d].ahup = link[d].ahup
                           /\ link'[d].st = link[d].st
    BY <1>1, <1>6, UpdateIhup
  <2> QED BY <1>2, <2>1
<1> QED BY <1>3, <1>4, <1>5, <1>6

(* Every step is such a step.                                                *)
LEMMA LinkSteps == ASSUME IInv, Next PROVE LinksStep
<1>1. /\ link \in [Clients -> Connection(Seq(Words \cup {JUNK}), Seq(Blocks))]
      /\ cur \in Clients /\ serving \in Clients /\ psQueue \in Seq(Clients)
  BY DEF IInv, TypeOK
<1>2. ASSUME link' = link PROVE LinksStep
  BY <1>2 DEF LinksStep, Grown
<1>3. ASSUME link' = [c \in Clients |-> Orphaned(link[c])] PROVE LinksStep
  <2>1. Orphans(link, link')
    BY <1>1, <1>3, OrphansOf
  <2> QED BY <2>1 DEF LinksStep, Grown, AnswerEnded, Orphans
<1>4. ASSUME NEW c \in Clients, ClientNext(c) PROVE LinksStep
  BY <1>2, <1>4 DEF ClientNext, ClientStep, Connect, Send, Receive
<1>5. CASE RelayNext
  <2>1. CASE AcceptClient \/ ReadRequest \/ Sleep \/ DispatchRequest \/ Reply \/ CloseThrows
    BY <1>2, <2>1 DEF AcceptClient, ReadRequest, Sleep, DispatchRequest, Reply,
       CloseThrows, socketVars
  <2>2. CASE DispatchError \/ DispatchMenu
    BY <1>2, <2>2 DEF DispatchError, DispatchMenu
  <2>3. CASE PsConnect
    <3>1. /\ ipc = "connect"
          /\ \E v : link' = [link EXCEPT ![cur].st = v]
      BY <2>3 DEF PsConnect
    <3> QED BY <1>1, <3>1, LinksUpdated
  <2>4. CASE PsWrite
    <3>1. \/ link' = [link EXCEPT ![cur].up = request]
          \/ link' = [link EXCEPT ![cur].ihup = TRUE]
      BY <2>4 DEF PsWrite
    <3> QED BY <1>1, <3>1, LinksUpdated
  <2>5. CASE PsRead
    <3>1. link' = [link EXCEPT ![cur].ihup = TRUE]
      BY <2>5 DEF PsRead, PsClose
    <3> QED BY <1>1, <3>1, LinksUpdated
  <2> QED
    BY <1>5, <2>1, <2>2, <2>3, <2>4, <2>5 DEF RelayNext, ListenClient
<1>6. CASE MainNext
  <2>1. CASE LearnPs
    BY <1>2, <2>1 DEF LearnPs, socketVars
  <2>2. CASE InterStop
    <3>1. \A d \in Clients :
            /\ link[d] \in Connection(Seq(Words \cup {JUNK}), Seq(Blocks))
            /\ link'[d] = IF InitiatorOpen(link[d]) THEN [link[d] EXCEPT !.ihup = TRUE] ELSE link[d]
      BY <1>1, <2>2 DEF InterStop
    <3>2. \A d \in Clients : /\ link'[d].down = link[d].down /\ link'[d].ahup = link[d].ahup
                             /\ link'[d].st = link[d].st
      BY <3>1 DEF Connection
    <3> QED BY <3>2 DEF LinksStep, Grown, AnswerEnded
  <2> QED BY <1>6, <2>1, <2>2 DEF MainNext
<1>7. CASE ServerNext
  <2>1. CASE AcceptIntermediate
    <3> DEFINE h == Head(psQueue)
    <3>1. h = psQueue[1] /\ 1 \in 1..Len(psQueue) /\ h \in Clients
      BY <1>1, <2>1, QueueTail DEF AcceptIntermediate
    <3>2. link[h].st = "queued"
      BY <3>1 DEF IInv, PsQueueInv
    <3>3. link' = [link EXCEPT ![h].st = "accepted"]
      BY <2>1 DEF AcceptIntermediate
    <3> HIDE DEF h
    <3>4. link[h].st # "none"
      BY <3>2
    <3> QED BY <3>1, <3>3, <3>4, LinksUpdated
  <2>2. CASE ReadIntermediate
    <3>1. link' = [link EXCEPT ![serving].got = TRUE]
      BY <2>2 DEF ReadIntermediate
    <3> QED BY <1>1, <3>1, LinksUpdated
  <2>3. CASE RespondFigure
    <3>1. link[serving].down = <<>> /\ ~link[serving].ahup
      BY <2>3 DEF IInv, ServingInv, RespondFigure
    <3>2. CASE link' = [link EXCEPT ![serving] = Answered(@, Response(formatRequest(a)))]
      <4>1. /\ \A d \in Clients \ {serving} : link'[d] = link[d]
            /\ link'[serving].st = link[serving].st
        BY <1>1, <3>2 DEF Answered, Connection
      <4> QED BY <1>1, <3>1, <4>1 DEF LinksStep, Grown, AnswerEnded
    <3> QED BY <1>3, <2>3, <3>2 DEF RespondFigure, ServerGone
  <2>4. CASE ServerStop
    BY <1>3, <2>4 DEF ServerStop, ServerGone
  <2>5. CASE ServerStart
    BY <1>2, <2>5 DEF ServerStart
  <2> QED
    BY <1>7, <2>1, <2>2, <2>3, <2>4, <2>5 DEF ServerNext, ServerStep
<1> QED BY <1>4, <1>5, <1>6, <1>7 DEF Next

(* Once something was relayed for a client its request stays what it was.    *)
LEMMA RequestIsKept ==
    ASSUME IInv, Next, NEW c \in Clients, link[c].st # "none"
    PROVE  conn'[c].up = conn[c].up
<1>1. conn \in [Clients -> Connection(Seq(Words), Seq(Blocks \cup {JUNK}))]
  BY DEF IInv, TypeOK
<1>2. ASSUME NEW d \in Clients, ClientNext(d) PROVE conn'[c].up = conn[c].up
  <2>1. CASE Connect(d)
    <3>1. \E v : conn' = [conn EXCEPT ![d].st = v]
      BY <2>1 DEF Connect
    <3> QED BY <1>1, <3>1, UpdateSt
  <2>2. CASE Send(d)
    <3>1. d # c
      BY <2>2 DEF IInv, ClientsInv, Send
    <3>2. \/ \E v : conn' = [conn EXCEPT ![d].up = v]
          \/ conn' = [conn EXCEPT ![d].ihup = TRUE]
      BY <2>2 DEF Send
    <3> QED BY <1>1, <3>1, <3>2, UpdateUp, UpdateIhup
  <2>3. CASE Receive(d)
    <3>1. conn' = [conn EXCEPT ![d].ihup = TRUE]
      BY <2>3 DEF Receive
    <3> QED BY <1>1, <3>1, UpdateIhup
  <2> QED BY <1>2, <2>1, <2>2, <2>3 DEF ClientNext, ClientStep
<1> QED BY <1>2, OthersLeaveTheClients DEF Next

(* An answer is new only at the end of a turn: an error, the menu or what    *)
(* request_ps left in ps_answer.                                             *)
LEMMA NewAnswer ==
    ASSUME IInv, Next, NEW c \in Clients, ~conn[c].ahup, conn'[c].down # <<>>
    PROVE  /\ c = cur /\ link' = link
           /\ ipc = "dispatch" \/ (ipc = "reply" /\ conn'[c].down = ps_answer)
<1> DEFINE Goal == /\ c = cur /\ link' = link
                   /\ ipc = "dispatch" \/ (ipc = "reply" /\ conn'[c].down = ps_answer)
<1>1. /\ conn \in [Clients -> Connection(Seq(Words), Seq(Blocks \cup {JUNK}))]
      /\ cur \in Clients /\ clientQueue \in Seq(Clients)
      /\ conn[c] \in Connection(Seq(Words), Seq(Blocks \cup {JUNK}))
  BY DEF IInv, TypeOK
<1>2. conn[c].down = <<>>
  BY DEF IInv, StagesInv
<1>3. conn'[c].down # conn[c].down
  BY <1>2
<1> SUFFICES Goal
  OBVIOUS
<1> HIDE DEF Goal
<1>4. ASSUME conn' = conn \/ conn'[c] = Orphaned(conn[c]) PROVE Goal
  <2>1. conn'[c].down = conn[c].down
    BY <1>1, <1>4, OrphanedFields
  <2> QED BY <1>3, <2>1
<1>5. ASSUME NEW d \in Clients, NEW v,
             \/ conn' = [conn EXCEPT ![d].st = v] \/ conn' = [conn EXCEPT ![d].up = v]
             \/ conn' = [conn EXCEPT ![d].got = v] \/ conn' = [conn EXCEPT ![d].ihup = v]
      PROVE  Goal
  <2>1. conn'[c].down = conn[c].down
    <3>1. CASE conn' = [conn EXCEPT ![d].st = v]
      BY <1>1, <3>1, UpdateSt
    <3>2. CASE conn' = [conn EXCEPT ![d].up = v]
      BY <1>1, <3>2, UpdateUp
    <3>3. CASE conn' = [conn EXCEPT ![d].got = v]
      BY <1>1, <3>3, UpdateGot
    <3>4. CASE conn' = [conn EXCEPT ![d].ihup = v]
      BY <1>1, <3>4, UpdateIhup
    <3> QED BY <1>5, <3>1, <3>2, <3>3, <3>4
  <2> QED BY <1>3, <2>1
<1>6. ASSUME NEW v, conn' = [conn EXCEPT ![cur] = Answered(@, v)]
      PROVE  c = cur /\ conn'[c].down = v
  <2>1. (\A d \in Clients \ {cur} : conn'[d] = conn[d]) /\ conn'[cur].down = v
    BY <1>1, <1>6 DEF Answered, Connection
  <2> QED BY <1>3, <2>1
<1>7. ASSUME NEW d \in Clients, ClientNext(d) PROVE Goal
  BY <1>5, <1>7 DEF ClientNext, ClientStep, Connect, Send, Receive
<1>8. CASE RelayNext
  <2>1. CASE AcceptClient
    <3>1. Head(clientQueue) \in Clients
      BY <1>1, <2>1, QueueTail DEF AcceptClient
    <3> QED BY <1>5, <2>1, <3>1 DEF AcceptClient
  <2>2. CASE ReadRequest
    BY <1>1, <1>5, <2>2 DEF ReadRequest
  <2>3. CASE Sleep \/ DispatchRequest \/ PsRead
    BY <1>4, <2>3 DEF Sleep, DispatchRequest, PsRead, socketVars
  <2>4. CASE DispatchError \/ DispatchMenu
    BY <1>6, <2>4 DEF DispatchError, DispatchMenu, Respond, Goal
  <2>5. CASE PsConnect \/ PsWrite \/ CloseThrows
    BY <1>4, <2>5 DEF PsConnect, PsWrite, CloseThrows, Die
  <2>6. CASE Reply
    <3>1. CASE conn' = [conn EXCEPT ![cur] = Answered(@, ps_answer)]
      BY <1>6, <2>6, <3>1 DEF Reply, Goal
    <3> QED BY <1>4, <2>6, <3>1 DEF Reply, Respond, Die
  <2> QED
    BY <1>8, <2>1, <2>2, <2>3, <2>4, <2>5, <2>6 DEF RelayNext, ListenClient
<1>9. CASE MainNext
  BY <1>4, <1>9 DEF MainNext, LearnPs, InterStop, socketVars
<1>10. CASE ServerNext
  BY <1>4, <1>10 DEF ServerNext, ServerStep, AcceptIntermediate, ReadIntermediate,
     RespondFigure, ServerStop, ServerStart
<1> QED BY <1>7, <1>8, <1>9, <1>10 DEF Next

(* What a client printed when it ended stays; it ends with its one read.     *)
LEMMA EndsReading ==
    ASSUME IInv, Next, NEW c \in Clients, cpc'[c] = "done"
    PROVE  \/ cpc[c] = "done" /\ shown'[c] = shown[c]
           \/ Receive(c)
<1>1. cpc \in CpcType /\ shown \in ShownType
  BY DEF IInv, TypeOK, CpcType, ShownType
<1>2. ASSUME NEW d \in Clients, ClientNext(d), d # c
      PROVE  cpc'[c] = cpc[c] /\ shown'[c] = shown[c]
  <2>1. \/ shown' = shown
        \/ \E s : shown' = [shown EXCEPT ![d] = s]
    BY <1>2 DEF ClientNext, ClientStep, Connect, Send, Receive, ReceiveTimesOut
  <2>2. \E v : cpc' = [cpc EXCEPT ![d] = v]
    BY <1>2 DEF ClientNext, ClientStep, Connect, Send, Receive, ReceiveTimesOut
  <2> QED BY <1>1, <1>2, <2>1, <2>2 DEF CpcType, ShownType
<1>3. CASE ClientNext(c)
  <2>1. ~Connect(c) /\ ~Send(c)
    <3>1. ASSUME NEW v, cpc' = [cpc EXCEPT ![c] = v] PROVE cpc'[c] = v
      BY <1>1, <3>1 DEF CpcType
    <3>2. Connect(c) => cpc'[c] \in {"connected", "crashed"}
      BY <3>1 DEF Connect
    <3>3. Send(c) => cpc'[c] \in {"waiting", "crashed"}
      BY <3>1 DEF Send
    <3> QED BY <3>2, <3>3
  <2> QED BY <1>3, <2>1 DEF ClientNext, ClientStep
<1>4. CASE RelayNext \/ MainNext \/ ServerNext
  BY <1>4 DEF RelayNext, MainNext, ServerNext, clientVars
<1> QED BY <1>2, <1>3, <1>4 DEF Next

(* What a client prints: the blocks it read, and junk behind them.           *)
LEMMA PrintsWhatItRead ==
    ASSUME IInv, NEW c \in Clients, Receive(c), cpc'[c] = "done"
    PROVE  \E k \in 0..Len(shown'[c]) :
               /\ k <= Len(conn'[c].down)
               /\ conn'[c].down # <<>> => k # 0
               /\ \A i \in 1..Len(shown'[c]) :
                    shown'[c][i] = IF i <= k THEN conn'[c].down[i] ELSE JUNK
<1>1. /\ conn \in [Clients -> Connection(Seq(Words), Seq(Blocks \cup {JUNK}))]
      /\ cpc \in CpcType /\ shown \in ShownType
  BY DEF IInv, TypeOK, CpcType, ShownType
<1>2. conn'[c].down = conn[c].down
  <2>1. conn' = [conn EXCEPT ![c].ihup = TRUE]
    BY DEF Receive
  <2> QED BY <1>1, <2>1, UpdateIhup
<1>3. conn[c].down \in Seq(Blocks \cup {JUNK}) /\ Len(conn[c].down) \in Nat
  BY <1>1 DEF Connection
<1>4. ASSUME NEW s, shown' = [shown EXCEPT ![c] = s] PROVE shown'[c] = s
  BY <1>1, <1>4 DEF ShownType
<1>5. PICK before \in Uninitialised(ClientLen) :
          \/ /\ conn[c].down # <<>>
             /\ \E k \in ReadSizes(conn[c].down, ClientLen) :
                  \E s \in Strings(Fill(before, conn[c].down, k)) :
                      shown' = [shown EXCEPT ![c] = s]
          \/ /\ AnswerEnded(conn[c])
             /\ \E s \in Strings(before) : shown' = [shown EXCEPT ![c] = s]
          \/ cpc' = [cpc EXCEPT ![c] = "timeout"]
  BY DEF Receive, ReceiveTimesOut
<1>6. before \in Seq(Blocks \cup {NUL, JUNK}) /\ Len(before) = ClientLen /\ ClientLen \in Nat
  BY ClientAssumption, AnswerBufferType
<1>7. \A i \in 1..ClientLen : before[i] \in {NUL, JUNK}
  BY <1>6 DEF Uninitialised
<1>8. NUL \notin Blocks \cup {JUNK}
  BY BlocksAssumption, MarksDiffer
<1>9. ~ (cpc' = [cpc EXCEPT ![c] = "timeout"])
  BY <1>1 DEF CpcType
<1>10. CASE /\ conn[c].down # <<>>
            /\ \E k \in ReadSizes(conn[c].down, ClientLen) :
                  \E s \in Strings(Fill(before, conn[c].down, k)) :
                      shown' = [shown EXCEPT ![c] = s]
  <2>1. PICK k \in ReadSizes(conn[c].down, ClientLen) :
                  \E s \in Strings(Fill(before, conn[c].down, k)) :
                      shown' = [shown EXCEPT ![c] = s]
    BY <1>10
  <2>2. k \in 1..Len(conn[c].down) /\ k <= ClientLen
    BY <1>3, <1>6 DEF ReadSizes
  <2>3. PICK s \in Strings(Fill(before, conn[c].down, k)) : shown' = [shown EXCEPT ![c] = s]
    BY <2>1
  <2>4. /\ s \in Seq(Blocks \cup {JUNK}) /\ Len(s) >= k
        /\ \A i \in 1..Len(s) :
             s[i] = IF i <= k THEN conn[c].down[i]
                    ELSE IF i <= Len(before) THEN before[i] ELSE JUNK
    BY <1>3, <1>6, <2>2, FilledString
  <2>5. \A i \in 1..Len(s) : s[i] \in Blocks \cup {JUNK}
    BY <2>4, ElementOfSeq
  <2>6. \A i \in 1..Len(s) : s[i] = IF i <= k THEN conn[c].down[i] ELSE JUNK
    BY <1>6, <1>7, <1>8, <2>4, <2>5
  <2>7. shown'[c] = s
    BY <1>4, <2>3
  <2>8. k \in 0..Len(s) /\ k # 0 /\ k <= Len(conn[c].down)
    BY <2>2, <2>4
  <2> QED BY <1>2, <2>6, <2>7, <2>8
<1>11. CASE AnswerEnded(conn[c]) /\ \E s \in Strings(before) : shown' = [shown EXCEPT ![c] = s]
  <2>1. PICK s \in Strings(before) : shown' = [shown EXCEPT ![c] = s]
    BY <1>11
  <2>2. /\ s \in Seq(Blocks \cup {JUNK})
        /\ \A i \in 1..Len(s) : s[i] = IF i <= Len(before) THEN before[i] ELSE JUNK
    BY <1>6, StringCells
  <2>3. \A i \in 1..Len(s) : s[i] \in Blocks \cup {JUNK}
    BY <2>2, ElementOfSeq
  <2>4. \A i \in 1..Len(s) : s[i] = JUNK
    BY <1>6, <1>7, <1>8, <2>2, <2>3
  <2>5. shown'[c] = s /\ conn[c].down = <<>>
    BY <1>4, <1>11, <2>1 DEF AnswerEnded
  <2>6. 0 \in 0..Len(s) /\ 0 <= Len(conn[c].down)
    BY <1>3, <2>2
  <2>7. \A i \in 1..Len(s) : s[i] = IF i <= 0 THEN conn[c].down[i] ELSE JUNK
    BY <2>4
  <2> QED BY <1>2, <2>5, <2>6, <2>7
<1> QED BY <1>5, <1>9, <1>10, <1>11

(* One read of request_ps: the string fits the current client, and ps_buff   *)
(* holds nothing but what answers left there.                                *)
LEMMA ReadContents ==
    ASSUME IInv, ContentsInv, TypeOK', PsRead
    PROVE  /\ \A i \in 1..ResponseLen : ps_buff'[i] \in {NUL} \cup LeftAt(link', i)
           /\ Own(cur) => Fitting(link', cur, Name(cur), ps_answer')
<1>1. /\ link \in LinkType /\ link' \in LinkType /\ cur \in Clients
      /\ ps_buff \in Seq(Blocks \cup {NUL, JUNK}) /\ Len(ps_buff) = ResponseLen
      /\ ResponseLen \in Nat /\ ResponseLen >= 2
      /\ Error504 \in Blocks /\ NUL \notin Blocks \cup {JUNK}
  <2>1. /\ link \in LinkType /\ link' \in LinkType /\ cur \in Clients
        /\ ps_buff \in Seq(Blocks \cup {NUL, JUNK}) /\ Len(ps_buff) = ResponseLen
    BY DEF IInv, TypeOK, LinkType
  <2>2. ResponseLen \in Nat /\ ResponseLen >= 2
    BY IntermediateAssumption
  <2>3. Error504 \in Blocks
    BY DEF Blocks
  <2>4. NUL \notin Blocks \cup {JUNK}
    BY BlocksAssumption, MarksDiffer
  <2> QED BY <2>1, <2>2, <2>3, <2>4
<1>2. /\ link[cur].down \in Seq(Blocks) /\ Len(link[cur].down) \in Nat
      /\ \A i \in 1..Len(link[cur].down) : link[cur].down[i] \in LeftAt(link, i)
  <2>1. link[cur].down \in Seq(Blocks) /\ Len(link[cur].down) \in Nat
    BY <1>1 DEF LinkType, Connection
  <2> QED BY <1>1, <2>1 DEF LeftAt
<1>3. /\ ipc = "answer" /\ link' = [link EXCEPT ![cur].ihup = TRUE]
      /\ ps_answer' \in Strings(ps_buff')
  BY DEF PsRead, PsReadTimesOut, PsClose
<1>4. Grown(link, link')
  BY <1>1, <1>3, LinksUpdated DEF LinksStep
<1>5. \A i \in Nat \ {0} : LeftAt(link, i) \subseteq LeftAt(link', i)
  BY <1>1, <1>4, LeftGrows
<1>6. PICK before \in {ps_buff} \cup Uninitialised(ResponseLen) :
          \/ /\ link[cur].down # <<>>
             /\ \E k \in ReadSizes(link[cur].down, ResponseLen) :
                  ps_buff' = Fill(before, link[cur].down, k)
          \/ AnswerEnded(link[cur]) /\ ps_buff' = before
          \/ ps_buff' = Fill(before, <<Error504, NUL>>, 2)
  BY DEF PsRead, PsReadTimesOut, PsClose
<1>7. /\ before \in Seq(Blocks \cup {NUL, JUNK}) /\ Len(before) = ResponseLen
      /\ \A i \in 1..ResponseLen : before[i] \in {NUL} \cup LeftAt(link, i)
  <2>1. CASE before = ps_buff
    BY <1>1, <2>1 DEF ContentsInv
  <2>2. CASE before \in Uninitialised(ResponseLen)
    <3>1. before \in Seq(Blocks \cup {NUL, JUNK}) /\ Len(before) = ResponseLen
      BY <1>1, <2>2, AnswerBufferType
    <3>2. \A i \in 1..ResponseLen : before[i] \in {NUL, JUNK}
      BY <2>2 DEF Uninitialised
    <3> QED BY <3>1, <3>2 DEF LeftAt
  <2> QED BY <2>1, <2>2
\* What a string holds behind its first k blocks.
<1>8. ASSUME NEW s \in Seq(Blocks \cup {JUNK}), NEW k \in 0..Len(s),
             \A i \in (k + 1)..Len(s) : s[i] = IF i <= ResponseLen THEN before[i] ELSE JUNK
      PROVE  \A i \in (k + 1)..Len(s) : s[i] \in LeftAt(link', i)
  <2> SUFFICES ASSUME NEW i \in (k + 1)..Len(s) PROVE s[i] \in LeftAt(link', i)
    OBVIOUS
  <2>1. i \in Nat \ {0} /\ i \in 1..Len(s)
    OBVIOUS
  <2>2. s[i] \in Blocks \cup {JUNK}
    BY <2>1, ElementOfSeq
  <2>3. i <= ResponseLen => s[i] \in LeftAt(link, i)
    BY <1>1, <1>7, <1>8, <2>1, <2>2
  <2>4. ~ (i <= ResponseLen) => s[i] \in LeftAt(link, i)
    BY <1>8 DEF LeftAt
  <2> QED BY <1>5, <2>1, <2>3, <2>4
<1>9. CASE /\ link[cur].down # <<>>
           /\ \E k \in ReadSizes(link[cur].down, ResponseLen) :
                  ps_buff' = Fill(before, link[cur].down, k)
  <2>1. PICK k \in ReadSizes(link[cur].down, ResponseLen) :
                  ps_buff' = Fill(before, link[cur].down, k)
    BY <1>9
  <2>2. k \in 1..Len(link[cur].down) /\ k <= ResponseLen
    BY <1>1, <1>2 DEF ReadSizes
  <2>3. /\ link[cur].down \in Seq(Blocks \cup {NUL, JUNK})
        /\ link[cur].down \in Seq(Blocks \cup {JUNK})
    BY <1>2
  <2>4. \A i \in 1..ResponseLen :
            ps_buff'[i] = IF i <= k THEN link[cur].down[i] ELSE before[i]
    BY <1>7, <2>1, <2>2, <2>3, AnswerFillType
  <2>5. \A i \in 1..ResponseLen : ps_buff'[i] \in {NUL} \cup LeftAt(link, i)
    BY <1>1, <1>2, <1>7, <2>2, <2>4
  <2>6. \A i \in 1..ResponseLen : ps_buff'[i] \in {NUL} \cup LeftAt(link', i)
    BY <1>1, <1>5, <2>5
  <2>7. /\ ps_answer' \in Seq(Blocks \cup {JUNK}) /\ Len(ps_answer') >= k
        /\ \A i \in 1..Len(ps_answer') :
             ps_answer'[i] = IF i <= k THEN link[cur].down[i]
                             ELSE IF i <= Len(before) THEN before[i] ELSE JUNK
    BY <1>3, <1>7, <2>1, <2>2, <2>3, FilledString
  <2>8. ASSUME Own(cur) PROVE Fitting(link', cur, Name(cur), ps_answer')
    <3>1. link[cur].down = Response(Name(cur))
      <4>1. link[cur].up # <<>>
        BY <1>3 DEF IInv, RelayInv
      <4> QED BY <1>1, <1>9, <2>8, <4>1 DEF IInv, AnswersInv
    <3>2. k \in 0..Len(ps_answer') /\ k # 0
      BY <2>2, <2>7
    <3>3. \A i \in (k + 1)..Len(ps_answer') :
              ps_answer'[i] = IF i <= ResponseLen THEN before[i] ELSE JUNK
      BY <1>7, <2>2, <2>7
    <3>4. \A i \in (k + 1)..Len(ps_answer') : ps_answer'[i] \in LeftAt(link', i)
      BY <1>8, <2>7, <3>2, <3>3
    <3>5. k <= Len(Response(Name(cur)))
          /\ \A i \in 1..k : ps_answer'[i] = Response(Name(cur))[i]
      BY <2>2, <2>7, <3>1
    <3>6. Mixed(link', Name(cur), ps_answer', k)
      BY <3>4, <3>5 DEF Mixed
    <3> QED BY <3>2, <3>6 DEF Fitting
  <2> QED BY <2>6, <2>8
<1>10. CASE AnswerEnded(link[cur]) /\ ps_buff' = before
  <2>1. \A i \in 1..ResponseLen : ps_buff'[i] \in {NUL} \cup LeftAt(link', i)
    BY <1>1, <1>5, <1>7, <1>10
  <2>2. /\ ps_answer' \in Seq(Blocks \cup {JUNK})
        /\ \A i \in 1..Len(ps_answer') :
             ps_answer'[i] = IF i <= Len(before) THEN before[i] ELSE JUNK
    BY <1>3, <1>7, <1>10, StringCells
  <2>3. \A i \in (0 + 1)..Len(ps_answer') : ps_answer'[i] \in LeftAt(link', i)
    <3>1. 0 \in 0..Len(ps_answer')
      BY <2>2
    <3>2. \A i \in (0 + 1)..Len(ps_answer') :
              ps_answer'[i] = IF i <= ResponseLen THEN before[i] ELSE JUNK
      BY <1>7, <2>2
    <3> QED BY <1>8, <2>2, <3>1, <3>2
  <2>4. Mixed(link', Name(cur), ps_answer', 0)
    <3>1. 0 <= Len(Response(Name(cur)))
      BY ResponseType
    <3> QED BY <2>3, <3>1 DEF Mixed
  <2>5. AnswerEnded(link'[cur]) /\ 0 \in 0..Len(ps_answer')
    BY <1>1, <1>4, <1>10, <2>2 DEF Grown
  <2> QED BY <2>1, <2>4, <2>5 DEF Fitting
<1>11. CASE ps_buff' = Fill(before, <<Error504, NUL>>, 2)
  <2> DEFINE msg == <<Error504, NUL>>
  <2>1. /\ msg \in Seq(Blocks \cup {NUL, JUNK}) /\ 2 \in Nat /\ 2 <= Len(msg)
        /\ msg[1] = Error504 /\ msg[2] = NUL /\ ps_buff' = Fill(before, msg, 2)
    BY <1>1, <1>11
  <2> HIDE DEF msg
  <2>2. /\ ps_buff' \in Seq(Blocks \cup {NUL, JUNK}) /\ Len(ps_buff') = ResponseLen
        /\ \A i \in 1..ResponseLen : ps_buff'[i] = IF i <= 2 THEN msg[i] ELSE before[i]
    BY <1>7, <2>1, AnswerFillType
  <2>3. \A i \in 1..ResponseLen : ps_buff'[i] \in {NUL} \cup LeftAt(link', i)
    <3>1. ASSUME NEW i \in 1..ResponseLen PROVE ps_buff'[i] \in {NUL} \cup LeftAt(link', i)
      <4>1. i \in Nat \ {0} /\ (i = 1 \/ i = 2 \/ i > 2)
        BY <1>1
      <4>2. CASE i = 1
        BY <2>1, <2>2, <4>2 DEF LeftAt
      <4>3. CASE i = 2
        BY <2>1, <2>2, <4>3
      <4>4. CASE i > 2
        BY <1>5, <1>7, <2>2, <4>1, <4>4
      <4> QED BY <4>1, <4>2, <4>3, <4>4
    <3> QED BY <3>1
  <2>4. /\ ps_answer' \in Seq(Blocks \cup {JUNK}) /\ Len(ps_answer') = 1
        /\ ps_answer'[1] = Error504
    <3>1. /\ ps_buff'[1] = Error504 /\ ps_buff'[2] = NUL /\ Error504 # NUL
      BY <1>1, <2>1, <2>2
    <3>2. StrLen(ps_buff') = {1}
      BY <1>1, <2>2, <3>1 DEF StrLen
    <3>3. Strings(ps_buff') = {SubSeq(ps_buff', 1, 1)}
      BY <1>1, <2>2, <3>1, <3>2 DEF Strings
    <3>4. ps_answer' = SubSeq(ps_buff', 1, 1)
      BY <1>3, <3>3
    <3>5. ps_answer' \in Seq(Blocks \cup {JUNK})
      BY <1>3, <2>2, AnswerStringsType
    <3> QED BY <1>1, <2>2, <3>1, <3>4, <3>5
  <2>5. Mixed(link', Name(cur), ps_answer', 1)
    BY <2>4 DEF Mixed
  <2>6. 1 \in 0..Len(ps_answer')
    BY <2>4
  <2> QED BY <2>3, <2>5, <2>6 DEF Fitting
<1> QED BY <1>6, <1>9, <1>10, <1>11

(* ps_buff changes only with the read of request_ps.                         *)
LEMMA BufferIsKept ==
    ASSUME Next
    PROVE  PsRead \/ (/\ ps_buff' = ps_buff
                      /\ ipc' = "reply" => UNCHANGED <<ipc, cur, ps_answer>>)
<1>1. ASSUME NEW c \in Clients, ClientNext(c) PROVE UNCHANGED <<ps_buff, ipc, cur, ps_answer>>
  BY <1>1 DEF ClientNext, interVars
<1>2. CASE RelayNext
  <2>1. CASE AcceptClient \/ Sleep \/ DispatchRequest
    BY <2>1 DEF AcceptClient, Sleep, DispatchRequest
  <2>2. CASE ReadRequest
    <3>1. ipc' \in {"sleep", "dispatch"} /\ ps_buff' = ps_buff
      BY <2>2 DEF ReadRequest
    <3> QED BY <3>1
  <2>3. CASE DispatchError \/ DispatchMenu
    BY <2>3 DEF DispatchError, DispatchMenu, Respond
  <2>4. CASE PsConnect \/ PsWrite
    BY <2>4 DEF PsConnect, PsWrite, Die
  <2>5. CASE Reply \/ CloseThrows
    BY <2>5 DEF Reply, CloseThrows, Respond, Die
  <2> QED BY <1>2, <2>1, <2>2, <2>3, <2>4, <2>5 DEF RelayNext, ListenClient
<1>3. CASE MainNext
  BY <1>3 DEF MainNext, LearnPs, InterStop
<1>4. CASE ServerNext
  BY <1>4 DEF ServerNext, interVars
<1> QED BY <1>1, <1>2, <1>3, <1>4 DEF Next

(* A connection of request_ps that was opened stays, and its client's name   *)
(* with it.                                                                  *)
LEMMA NamesAreKept ==
    ASSUME IInv, Next, NEW c \in Clients, link[c].st # "none"
    PROVE  Own(c)' = Own(c) /\ Name(c)' = Name(c)
<1>1. conn'[c].up = conn[c].up
  BY RequestIsKept
<1> QED BY <1>1 DEF Own, Name

(* What ps_buff, the answers and the printed strings hold, after a step.     *)
LEMMA ContentsStep ==
    ASSUME IInv, IInv', ContentsInv, Next
    PROVE  ContentsInv'
<1>1. /\ link \in LinkType /\ link' \in LinkType /\ cur \in Clients
      /\ ps_answer \in Seq(Blocks \cup {JUNK})
      /\ ps_buff \in Seq(Blocks \cup {NUL, JUNK})
      /\ conn \in [Clients -> Connection(Seq(Words), Seq(Blocks \cup {JUNK}))]
      /\ ResponseLen \in Nat /\ TypeOK'
  BY IntermediateAssumption DEF IInv, TypeOK, LinkType
<1>2. LinksStep /\ Grown(link, link')
  BY LinkSteps DEF LinksStep
<1>3. \A i \in 1..ResponseLen : ps_buff'[i] \in {NUL} \cup LeftAt(link', i)
  <2>1. CASE PsRead
    BY <1>1, <2>1, ReadContents
  <2>2. CASE ps_buff' = ps_buff
    <3>1. ASSUME NEW i \in 1..ResponseLen PROVE ps_buff'[i] \in {NUL} \cup LeftAt(link', i)
      <4>1. i \in Nat \ {0}
        BY <1>1
      <4>2. LeftAt(link, i) \subseteq LeftAt(link', i)
        BY <1>1, <1>2, <4>1, LeftGrows
      <4>3. ps_buff[i] \in {NUL} \cup LeftAt(link, i)
        BY DEF ContentsInv
      <4> QED BY <2>2, <4>2, <4>3
    <3> QED BY <3>1
  <2> QED BY <2>1, <2>2, BufferIsKept
<1>4. ASSUME ipc' = "reply", Own(cur)' PROVE Fitting(link', cur', Name(cur)', ps_answer')
  <2>1. CASE PsRead
    <3>1. conn' = conn /\ cur' = cur
      BY <2>1 DEF PsRead
    <3>2. Own(cur)' = Own(cur) /\ Name(cur)' = Name(cur)
      BY <3>1 DEF Own, Name
    <3> QED BY <1>1, <1>4, <2>1, <3>1, <3>2, ReadContents
  <2>2. CASE UNCHANGED <<ipc, cur, ps_answer>>
    <3>1. ipc = "reply" /\ cur' = cur /\ ps_answer' = ps_answer
      BY <1>4, <2>2
    <3>2. link[cur].st # "none"
      BY <3>1 DEF IInv, RelayInv
    <3>3. conn'[cur].up = conn[cur].up
      BY <1>1, <3>2, RequestIsKept
    <3>4. Own(cur)' = Own(cur) /\ Name(cur)' = Name(cur)
      BY <3>1, <3>3 DEF Own, Name
    <3>5. Fitting(link, cur, Name(cur), ps_answer)
      BY <1>4, <3>1, <3>4 DEF ContentsInv
    <3> QED BY <1>1, <1>2, <3>1, <3>4, <3>5, FittingGrows
  <2> QED BY <1>4, <2>1, <2>2, BufferIsKept
<1>5. ASSUME NEW c \in Clients, conn'[c].down # <<>>, Own(c)', link'[c].st # "none"
      PROVE  Fitting(link', c, Name(c)', conn'[c].down)
  <2>1. CASE conn[c].ahup
    <3>1. conn'[c].down = conn[c].down
      BY <2>1, ClosedIsKept
    <3>2. link[c].st # "none"
      <4>1. c = cur /\ ipc = "connect" => ~conn[c].ahup
        BY DEF IInv, RelayInv, Busy
      <4> QED BY <1>2, <1>5, <2>1, <4>1 DEF LinksStep
    <3>3. Own(c)' = Own(c) /\ Name(c)' = Name(c)
      BY <3>2, NamesAreKept
    <3>4. Fitting(link, c, Name(c), conn[c].down)
      BY <1>5, <3>1, <3>2, <3>3 DEF ContentsInv
    <3>5. conn[c].down \in Seq(Blocks \cup {JUNK})
      BY <1>1 DEF Connection
    <3> QED BY <1>1, <1>2, <3>1, <3>3, <3>4, <3>5, FittingGrows
  <2>2. CASE ~conn[c].ahup
    <3>1. /\ c = cur /\ link' = link
          /\ ipc = "dispatch" \/ (ipc = "reply" /\ conn'[c].down = ps_answer)
      BY <1>5, <2>2, NewAnswer
    <3>2. link[c].st # "none"
      BY <1>5, <3>1
    <3>3. ipc # "dispatch"
      BY <3>1, <3>2 DEF IInv, RelayInv
    <3>4. Own(c)' = Own(c) /\ Name(c)' = Name(c)
      BY <3>2, NamesAreKept
    <3>5. Fitting(link, cur, Name(cur), ps_answer)
      BY <1>5, <3>1, <3>3, <3>4 DEF ContentsInv
    <3> QED BY <3>1, <3>3, <3>4, <3>5
  <2> QED BY <2>1, <2>2
<1>6. ASSUME NEW c \in Clients, cpc'[c] = "done"
      PROVE  \E k \in 0..Len(shown'[c]) :
               /\ k <= Len(conn'[c].down)
               /\ conn'[c].down # <<>> => k # 0
               /\ \A i \in 1..Len(shown'[c]) :
                    shown'[c][i] = IF i <= k THEN conn'[c].down[i] ELSE JUNK
  <2>1. CASE cpc[c] = "done" /\ shown'[c] = shown[c]
    <3>1. conn[c].ahup
      BY <2>1 DEF IInv, ClientsInv
    <3>2. conn'[c].down = conn[c].down
      BY <3>1, ClosedIsKept
    <3>3. \E k \in 0..Len(shown[c]) :
               /\ k <= Len(conn[c].down)
               /\ conn[c].down # <<>> => k # 0
               /\ \A i \in 1..Len(shown[c]) :
                    shown[c][i] = IF i <= k THEN conn[c].down[i] ELSE JUNK
      BY <2>1 DEF ContentsInv
    <3> QED BY <2>1, <3>2, <3>3
  <2>2. CASE Receive(c)
    BY <1>6, <2>2, PrintsWhatItRead
  <2> QED BY <1>6, <2>1, <2>2, EndsReading
<1> QED BY <1>3, <1>4, <1>5, <1>6 DEF ContentsInv

(* At the start ps_buff holds what any array may.                            *)
LEMMA InitContents == Init => ContentsInv
<1> SUFFICES ASSUME Init PROVE ContentsInv
  OBVIOUS
<1>1. /\ ps_buff \in Uninitialised(ResponseLen) /\ ipc = "accept"
      /\ \A c \in Clients : conn[c].down = <<>> /\ cpc[c] = "start"
  BY DEF Init, SocketsInit, ClientInit, IntermediateInit, NoConnection
<1>2. \A i \in 1..ResponseLen : ps_buff[i] \in {NUL} \cup LeftAt(link, i)
  <2>1. \A i \in 1..ResponseLen : ps_buff[i] \in {NUL, JUNK}
    BY <1>1 DEF Uninitialised
  <2> QED BY <2>1 DEF LeftAt
<1> QED BY <1>1, <1>2 DEF ContentsInv

(* A step that changes nothing.                                              *)
LEMMA StutterContents == ASSUME ContentsInv, UNCHANGED vars PROVE ContentsInv'
<1>1. UNCHANGED <<conn, link, cpc, shown, ipc, cur, ps_buff, ps_answer>>
  BY DEF vars, socketVars, clientVars, interVars
<1>2. /\ \A i \in Nat : LeftAt(link', i) = LeftAt(link, i)
      /\ \A c \in Clients : Own(c)' = Own(c) /\ Name(c)' = Name(c)
      /\ Own(cur)' = Own(cur) /\ Name(cur)' = Name(cur)
  BY <1>1 DEF Own, Name
<1> QED BY <1>1, <1>2 DEF ContentsInv

(* The beginning of an answer that fits, with junk behind it, fits.          *)
LEMMA PrintedFits ==
    ASSUME NEW c \in Clients, NEW r, NEW down \in Seq(Blocks \cup {JUNK}),
           NEW s \in Seq(Blocks \cup {JUNK}), Fitting(link, c, r, down),
           NEW k \in 1..Len(s), k <= Len(down),
           \A i \in 1..Len(s) : s[i] = IF i <= k THEN down[i] ELSE JUNK
    PROVE  Fitting(link, c, r, s)
<1>1. PICK m \in 0..Len(down) : Mixed(link, r, down, m) /\ (m = 0 => AnswerEnded(link[c]))
  BY DEF Fitting
<1>2. Len(s) \in Nat /\ Len(down) \in Nat /\ k \in Nat /\ k >= 1 /\ m \in Nat /\ k <= Len(s)
  OBVIOUS
<1>3. PICK n \in {m, k} : n <= m /\ n <= k /\ (n = m \/ n = k)
  BY <1>2
<1>4. n \in 0..Len(s) /\ (n = 0 => AnswerEnded(link[c])) /\ n \in Nat
  BY <1>1, <1>2, <1>3
<1>5. \A i \in (n + 1)..Len(s) : s[i] \in LeftAt(link, i)
  <2> SUFFICES ASSUME NEW i \in (n + 1)..Len(s) PROVE s[i] \in LeftAt(link, i)
    OBVIOUS
  <2>1. i \in Nat /\ i > n /\ i \in 1..Len(s)
    BY <1>4
  <2>2. CASE i <= k
    <3>1. n = m /\ i \in (m + 1)..Len(down)
      BY <1>2, <1>3, <2>1, <2>2
    <3>2. down[i] \in LeftAt(link, i)
      BY <1>1, <3>1 DEF Mixed
    <3> QED BY <2>1, <2>2, <3>2
  <2>3. CASE ~(i <= k)
    BY <2>1, <2>3 DEF LeftAt
  <2> QED BY <2>2, <2>3
<1>6. \/ /\ n <= Len(Response(r))
         /\ \A i \in 1..n : s[i] = Response(r)[i]
      \/ n = 1 /\ s[1] = Error504
  <2>1. \A i \in 1..n : i \in 1..Len(s) /\ i <= k /\ i \in 1..m /\ s[i] = down[i]
    BY <1>2, <1>3, <1>4
  <2>2. CASE m <= Len(Response(r)) /\ \A i \in 1..m : down[i] = Response(r)[i]
    <3>1. Len(Response(r)) \in Nat
      BY ResponseType
    <3> QED BY <1>2, <1>3, <1>4, <2>1, <2>2, <3>1
  <2>3. CASE m = 1 /\ down[1] = Error504
    <3>1. n = 1
      BY <1>2, <1>3, <2>3
    <3> QED BY <2>1, <2>3, <3>1
  <2> QED BY <1>1, <2>2, <2>3 DEF Mixed
<1> QED BY <1>4, <1>5, <1>6 DEF Fitting, Mixed

(* Whatever the sizes of the buffers, the catalogue and the number of        *)
(* clients: who named a figure and was relayed prints the beginning of its   *)
(* own page or of the time-out message, and behind it, or alone if the       *)
(* pieces server ended the connection early, what older answers left.        *)
THEOREM AnswersBelong == Spec => []OwnAnswer
<1>1. IInv /\ ContentsInv => OwnAnswer
  <2> SUFFICES ASSUME IInv, ContentsInv, NEW c \in Clients,
                      cpc[c] = "done", Own(c), link[c].st # "none"
               PROVE  \/ Fitting(link, c, Name(c), shown[c])
                      \/ conn[c].down = <<>> /\ shown[c] \in Seq({JUNK})
    BY DEF OwnAnswer
  <2>1. /\ shown[c] \in Seq(Blocks \cup {JUNK}) /\ Len(shown[c]) \in Nat
        /\ conn[c].down \in Seq(Blocks \cup {JUNK})
    <3>1. /\ shown \in [Clients -> Seq(Blocks \cup {JUNK})]
          /\ conn \in [Clients -> Connection(Seq(Words), Seq(Blocks \cup {JUNK}))]
      BY DEF IInv, TypeOK
    <3>2. shown[c] \in Seq(Blocks \cup {JUNK})
      BY <3>1
    <3>3. conn[c].down \in Seq(Blocks \cup {JUNK})
      BY <3>1 DEF Connection
    <3> QED BY <3>2, <3>3
  <2>2. PICK k \in 0..Len(shown[c]) :
            /\ k <= Len(conn[c].down)
            /\ conn[c].down # <<>> => k # 0
            /\ \A i \in 1..Len(shown[c]) :
                 shown[c][i] = IF i <= k THEN conn[c].down[i] ELSE JUNK
    BY DEF ContentsInv
  <2>3. CASE conn[c].down = <<>>
    <3>1. k = 0
      BY <2>1, <2>2, <2>3
    <3>2. \A i \in 1..Len(shown[c]) : shown[c][i] = JUNK
      BY <2>1, <2>2, <3>1
    <3>3. shown[c] \in Seq({JUNK})
      BY <2>1, <3>2
    <3> QED BY <2>3, <3>3
  <2>4. CASE conn[c].down # <<>>
    <3>1. Fitting(link, c, Name(c), conn[c].down)
      BY <2>4 DEF ContentsInv
    <3>2. k \in 1..Len(shown[c])
      BY <2>1, <2>2, <2>4
    <3> QED BY <2>1, <2>2, <3>1, <3>2, PrintedFits
  <2> QED BY <2>3, <2>4
<1>2. IInv /\ IInv' /\ ContentsInv /\ [Next]_vars => ContentsInv'
  BY ContentsStep, StutterContents
<1>3. QED
  BY <1>1, <1>2, InitContents, Inductive, PTL DEF Spec
-----------------------------------------------------------------------------
(* A step that keeps these fields of the client connections does not change  *)
(* what the clients see of them.                                             *)
LEMMA SameClients ==
    ASSUME \A d \in Clients :
               /\ conn'[d].st = conn[d].st /\ conn'[d].up = conn[d].up
               /\ conn'[d].down = conn[d].down /\ conn'[d].ahup = conn[d].ahup
    PROVE  Arrived' = Arrived /\ Asked' = Asked /\ Answers' = Answers /\ Closed' = Closed
  BY DEF Arrived, Asked, Answers, Closed

(* The same for the connections of request_ps.                               *)
LEMMA SameLinks ==
    ASSUME \A d \in Clients :
               /\ link'[d].st = "none" <=> link[d].st = "none"
               /\ link'[d].down = link[d].down /\ link'[d].ahup = link[d].ahup
    PROVE  Relayed' = Relayed /\ Dropped' = Dropped
  BY DEF Relayed, Dropped, AnswerEnded

(* The line is a sequence of clients, and the current client is its head.    *)
LEMMA LineFacts ==
    ASSUME Typed
    PROVE  /\ Line \in Seq(Clients)
           /\ ipc \in Busy => /\ Line # <<>> /\ Head(Line) = cur
                              /\ Tail(Line) = clientQueue
                              /\ Len(Line) = Len(clientQueue) + 1
           /\ ipc \notin Busy => Line = clientQueue
<1>1. cur \in Clients /\ clientQueue \in Seq(Clients)
  BY DEF Typed
<1>2. /\ <<cur>> \o clientQueue \in Seq(Clients)
      /\ <<cur>> \o clientQueue # <<>> /\ Head(<<cur>> \o clientQueue) = cur
      /\ Tail(<<cur>> \o clientQueue) = clientQueue
      /\ Len(<<cur>> \o clientQueue) = Len(clientQueue) + 1
  BY <1>1
<1>3. QED
  BY <1>1, <1>2 DEF Line

(* A new client of the queue is the last of the line.                        *)
LEMMA LineGrows ==
    ASSUME Typed, NEW c \in Clients, clientQueue' = Append(clientQueue, c),
           UNCHANGED <<ipc, cur>>
    PROVE  Line' = Append(Line, c)
<1>1. cur \in Clients /\ clientQueue \in Seq(Clients)
  BY DEF Typed
<1>2. <<cur>> \o Append(clientQueue, c) = Append(<<cur>> \o clientQueue, c)
  BY <1>1
<1>3. QED
  BY <1>2 DEF Line

\* A step that no client can see.
Unseen == UNCHANGED Promise!vars

(* The program ends: who is in line is let go.                               *)
LEMMA EndPromised ==
    ASSUME Typed, Typed', RelayInv, ClientQueueInv,
           iUp' = FALSE, ipc' \in {"dead", "stopped"}, clientQueue' = <<>>,
           conn' = [c \in Clients |-> Orphaned(conn[c])],
           \A d \in Clients :
               /\ link[d].st # "none" => link'[d].st # "none"
               /\ link'[d].down = link[d].down /\ link'[d].ahup = link[d].ahup
    PROVE  Promise!End
<1>1. Orphans(conn, conn')
  BY OrphansOf DEF Typed, ConnType
<1>2. \A d \in Clients : conn[d].st \in States /\ conn'[d].st \in States
  BY DEF Typed, ConnType, Connection
<1>3. Arrived' = Arrived /\ Asked' = Asked /\ Answers' = Answers
  BY <1>1, <1>2 DEF Arrived, Asked, Answers, Orphans, States
<1>4. Dropped' = Dropped /\ Relayed \subseteq Relayed'
  BY DEF Dropped, Relayed, AnswerEnded
<1>5. Line' = <<>>
  BY DEF Line, Busy
<1>6. \A d \in Clients : conn[d].st \in {"queued", "accepted"} => d \in Closed'
  BY <1>1, <1>2 DEF Closed, Orphans, States
<1>7. Closed \subseteq Closed'
  BY <1>1, <1>2 DEF Closed, Orphans, States
<1>8. \A i \in 1..Len(Line) :
        Line[i] \in Clients /\ conn[Line[i]].st \in {"queued", "accepted"}
  <2>1. CASE ipc \in Busy
    <3>1. conn[cur].st = "accepted" /\ cur \in Clients /\ clientQueue \in Seq(Clients)
      BY <2>1 DEF RelayInv, Typed
    <3>2. Line = <<cur>> \o clientQueue
      BY <2>1 DEF Line
    <3>3. \A i \in 1..Len(Line) :
            Line[i] = IF i = 1 THEN cur ELSE clientQueue[i - 1]
      BY <3>1, <3>2
    <3>4. \A i \in 1..Len(Line) : i # 1 => i - 1 \in 1..Len(clientQueue)
      BY <3>1, <3>2
    <3>5. \A i \in 1..Len(clientQueue) :
            clientQueue[i] \in Clients /\ conn[clientQueue[i]].st = "queued"
      BY <3>1 DEF ClientQueueInv
    <3>6. QED
      BY <3>1, <3>3, <3>4, <3>5
  <2>2. CASE ipc \notin Busy
    BY <2>2 DEF Line, ClientQueueInv, Typed
  <2>3. QED
    BY <2>1, <2>2
<1>9. QED
  BY <1>3, <1>4, <1>5, <1>6, <1>7, <1>8 DEF Promise!End

(* The turn of the current client ends with an answer.                       *)
LEMMA AnswerPromised ==
    ASSUME Typed, Typed', RelayInv, NEW v, ipc \in Busy, Respond(v),
           iUp' = iUp, link' = link, clientQueue' = clientQueue, cur' = cur,
           Promise!Fits(cur, v)
    PROVE  Promise!Answer
<1>1. /\ \A d \in Clients \ {cur} : conn'[d] = conn[d]
      /\ conn'[cur].st = conn[cur].st /\ conn'[cur].up = conn[cur].up
      /\ conn'[cur].down = v /\ conn'[cur].ahup = TRUE
  <2>1. conn \in [Clients -> Connection(Seq(Words), Seq(Blocks \cup {JUNK}))] /\ cur \in Clients
    BY DEF Typed, ConnType
  <2>2. QED
    BY <2>1 DEF Respond, Answered, Connection
<1>2. conn[cur].st = "accepted" /\ ~conn[cur].ahup /\ cur \in Clients
  BY DEF RelayInv, Typed
<1>3. Arrived' = Arrived /\ Asked' = Asked
  BY <1>1 DEF Arrived, Asked
<1>4. Closed' = Closed \cup {cur} /\ cur \notin Closed
  BY <1>1, <1>2 DEF Closed
<1>5. Answers' = [Answers EXCEPT ![cur] = Answers'[cur]] /\ Answers'[cur] = v
  <2>1. Answers'[cur] = v /\ \A d \in Clients \ {cur} : Answers'[d] = Answers[d]
    BY <1>1, <1>2 DEF Answers
  <2>2. Answers' = [Answers EXCEPT ![cur] = Answers'[cur]]
    BY <2>1 DEF Answers
  <2>3. QED
    BY <2>1, <2>2
<1>6. Relayed' = Relayed /\ Dropped' = Dropped
  BY SameLinks
<1>7. Line # <<>> /\ Head(Line) = cur /\ Tail(Line) = clientQueue
  BY LineFacts
<1>8. Line' = clientQueue
  BY DEF Respond, Line, Busy
<1>9. QED
  BY <1>3, <1>4, <1>5, <1>6, <1>7, <1>8 DEF Promise!Answer

(* Clients arrive, ask, and read what nobody else sees.                      *)
LEMMA ClientPromised ==
    ASSUME IInv, Typed', NEW c \in Clients, ClientNext(c)
    PROVE  Promise!Arrive(c) \/ Promise!Ask(c) \/ Unseen
<1>1. Typed /\ ClientsInv
  BY TypedFacts DEF IInv
<1>2. UNCHANGED <<iUp, link, ipc, cur>>
  BY DEF ClientNext, ClientStep, Connect, Send, Receive, interVars
<1>3. Relayed' = Relayed /\ Dropped' = Dropped
  BY <1>2, SameLinks
<1>4. conn \in [Clients -> Connection(Seq(Words), Seq(Blocks \cup {JUNK}))]
  BY <1>1 DEF Typed, ConnType
<1>5. ASSUME UNCHANGED clientQueue PROVE Line' = Line
  BY <1>2, <1>5 DEF Line
<1>6. CASE Connect(c)
  <2>1. conn[c].st = "none"
    BY <1>1, <1>6 DEF ClientsInv, Connect
  <2>2. CASE conn' = [conn EXCEPT ![c].st = "queued"] /\ CanConnect(iUp, clientQueue, ListenQueue)
             /\ clientQueue' = Append(clientQueue, c)
    <3>1. conn'[c].st = "queued" /\ conn'[c].up = conn[c].up /\ conn'[c].down = conn[c].down
          /\ conn'[c].ahup = conn[c].ahup /\ \A d \in Clients \ {c} : conn'[d] = conn[d]
      BY <1>4, <2>2, UpdateSt
    <3>2. Arrived' = Arrived \cup {c} /\ c \notin Arrived
      BY <2>1, <3>1 DEF Arrived
    <3>3. Asked' = Asked /\ Answers' = Answers /\ Closed' = Closed
      BY <2>1, <3>1 DEF Asked, Answers, Closed
    <3>4. Line' = Append(Line, c)
      BY <1>1, <1>2, <2>2, LineGrows
    <3>5. Len(Line) <= ListenQueue
      <4>1. Len(clientQueue) \in Nat /\ Len(clientQueue) < ListenQueue /\ ListenQueue \in Nat
        BY <1>1, <2>2, QueuesAssumption DEF Typed, CanConnect
      <4>2. QED
        BY <1>1, <4>1, LineFacts
    <3>6. QED
      BY <1>2, <1>3, <2>2, <3>2, <3>3, <3>4, <3>5 DEF Promise!Arrive, CanConnect
  <2>3. CASE conn' = [conn EXCEPT ![c].st = "refused"] /\ UNCHANGED clientQueue
    <3>1. conn'[c].st = "refused" /\ conn'[c].up = conn[c].up /\ conn'[c].down = conn[c].down
          /\ conn'[c].ahup = conn[c].ahup /\ \A d \in Clients \ {c} : conn'[d] = conn[d]
      BY <1>4, <2>3, UpdateSt
    <3>2. Arrived' = Arrived /\ Asked' = Asked /\ Answers' = Answers /\ Closed' = Closed
      BY <2>1, <3>1 DEF Arrived, Asked, Answers, Closed
    <3>3. QED
      BY <1>2, <1>3, <1>5, <2>3, <3>2 DEF Unseen, Promise!vars
  <2>4. QED
    BY <1>6, <2>2, <2>3 DEF Connect
<1>7. CASE Send(c)
  <2>1. CASE conn' = [conn EXCEPT ![c].ihup = TRUE]
    <3>1. Arrived' = Arrived /\ Asked' = Asked /\ Answers' = Answers /\ Closed' = Closed
      BY <1>4, <2>1, UpdateIhup, SameClients
    <3>2. QED
      BY <1>2, <1>3, <1>5, <1>7, <3>1 DEF Send, Unseen, Promise!vars
  <2>2. ASSUME NEW m \in Asks[c], conn' = [conn EXCEPT ![c].up = m]
        PROVE  Promise!Ask(c)
    <3>1. conn'[c].st = conn[c].st /\ conn'[c].down = conn[c].down
          /\ conn'[c].ahup = conn[c].ahup /\ \A d \in Clients \ {c} : conn'[d] = conn[d]
      BY <1>4, <2>2, UpdateUp
    <3>2. Asked' = [Asked EXCEPT ![c] = Asked'[c]] /\ Asked[c] = <<>>
      BY <1>1, <1>7, <3>1 DEF Asked, ClientsInv, Send
    <3>3. Arrived' = Arrived /\ Answers' = Answers /\ Closed' = Closed
      BY <3>1 DEF Arrived, Answers, Closed
    <3>4. QED
      BY <1>2, <1>3, <1>5, <1>7, <3>2, <3>3 DEF Send, Promise!Ask
  <2>3. QED
    BY <1>7, <2>1, <2>2 DEF Send
<1>8. CASE Receive(c)
  <2>1. conn' = [conn EXCEPT ![c].ihup = TRUE] /\ UNCHANGED clientQueue
    BY <1>8 DEF Receive
  <2>2. Arrived' = Arrived /\ Asked' = Asked /\ Answers' = Answers /\ Closed' = Closed
    BY <1>4, <2>1, UpdateIhup, SameClients
  <2>3. QED
    BY <1>2, <1>3, <1>5, <2>1, <2>2 DEF Unseen, Promise!vars
<1>9. QED
  BY <1>6, <1>7, <1>8 DEF ClientNext, ClientStep

(* The promise reads requests and finds answers as the programs do.          *)
LEMMA SameRequests ==
    /\ \A m, n : Promise!NamesFigure(m, n) <=> NamesFigure(m, n)
    /\ \A m : Promise!formatRequest(m) = formatRequest(m)
    /\ \A r : Promise!Response(r) = Response(r)
<1>1. \A m, n : Promise!NamesFigure(m, n) <=> NamesFigure(m, n)
  BY DEF NamesFigure, Promise!NamesFigure
<1>2. \A m : Promise!formatRequest(m) = formatRequest(m)
  BY DEF formatRequest, Promise!formatRequest, PathStart, Promise!PathStart,
     PathEnd, Promise!PathEnd
<1>3. \A r : Promise!Response(r) = Response(r)
  BY DEF Response, Promise!Response, responseHTML, Promise!responseHTML,
     errorHTML, Promise!errorHTML
<1>4. QED
  BY <1>1, <1>2, <1>3

(* A fixed answer fits whoever was not relayed, the error 500 any figure.    *)
LEMMA FixedFits ==
    ASSUME IInv, ipc = "dispatch", NEW v \in {<<InvalidRequest>>, <<Error500>>, <<>>},
           Own(cur) => v = <<Error500>>
    PROVE  Promise!Fits(cur, v)
<1>1. cur \in Clients /\ cur \notin Relayed
  BY DEF IInv, RelayInv, TypeOK, Relayed
<1>2. Asked[cur] = conn[cur].up
  BY <1>1 DEF Asked
<1>3. QED
  BY <1>1, <1>2, SameRequests DEF Promise!Fits, Own

(* So does what request_ps left in ps_answer.                                *)
LEMMA RelayedFits ==
    ASSUME IInv, ipc = "reply"
    PROVE  Promise!Fits(cur, ps_answer)
<1>1. RelayInv /\ cur \in Clients
  BY DEF IInv, TypeOK
<1>2. cur \in Relayed /\ Asked[cur] = conn[cur].up
  BY <1>1 DEF RelayInv, Relayed, Asked
<1>3. Own(cur) /\ cur \notin Dropped => ps_answer # <<>> /\ Head(ps_answer) \in Right(cur)
  BY <1>1 DEF RelayInv, Dropped
<1>4. QED
  BY <1>2, <1>3, SameRequests DEF Promise!Fits, Own, Right, Name

(* One turn of listen_client.                                                *)
LEMMA RelayPromised ==
    ASSUME IInv, Typed', RelayNext
    PROVE  Promise!Relay \/ Promise!Answer \/ Promise!Abandon \/ Promise!End \/ Unseen
<1>1. Typed /\ RelayInv /\ ClientQueueInv
  BY TypedFacts DEF IInv
<1>2. /\ conn \in [Clients -> Connection(Seq(Words), Seq(Blocks \cup {JUNK}))]
      /\ link \in [Clients -> Connection(Seq(Words \cup {JUNK}), Seq(Blocks))]
      /\ cur \in Clients /\ clientQueue \in Seq(Clients)
  BY <1>1 DEF Typed, ConnType, LinkType
<1>3. ASSUME ipc \in Busy, ipc' \in Busy, UNCHANGED <<cur, clientQueue>> PROVE Line' = Line
  BY <1>3 DEF Line
<1>4. CASE AcceptClient
  <2>1. /\ Head(clientQueue) = clientQueue[1] /\ 1 \in 1..Len(clientQueue)
        /\ <<Head(clientQueue)>> \o Tail(clientQueue) = clientQueue
        /\ Head(clientQueue) \in Clients
    BY <1>2, <1>4 DEF AcceptClient
  <2>2. conn[Head(clientQueue)].st = "queued"
    BY <1>1, <2>1 DEF ClientQueueInv
  <2>3. Line' = Line
    BY <1>4, <2>1 DEF AcceptClient, Line, Busy
  <2>4. conn' = [conn EXCEPT ![Head(clientQueue)].st = "accepted"]
    BY <1>4 DEF AcceptClient
  <2>5. \A d \in Clients :
            /\ conn'[d].st = conn[d].st \/ (conn[d].st = "queued" /\ conn'[d].st = "accepted")
            /\ conn'[d].up = conn[d].up
            /\ conn'[d].down = conn[d].down /\ conn'[d].ahup = conn[d].ahup
    BY <1>2, <2>1, <2>2, <2>4, UpdateSt
  <2>6. Arrived' = Arrived /\ Asked' = Asked /\ Answers' = Answers /\ Closed' = Closed
    BY <2>5 DEF Arrived, Asked, Answers, Closed
  <2>7. iUp' = iUp /\ link' = link
    BY <1>4 DEF AcceptClient
  <2>8. QED
    BY <2>3, <2>6, <2>7, SameLinks DEF Unseen, Promise!vars
<1>5. CASE ReadRequest
  <2>1. conn' = [conn EXCEPT ![cur].got = TRUE] /\ UNCHANGED <<iUp, link, clientQueue, cur>>
        /\ ipc \in Busy /\ ipc' \in Busy
    BY <1>5 DEF ReadRequest, Busy
  <2>2. Arrived' = Arrived /\ Asked' = Asked /\ Answers' = Answers /\ Closed' = Closed
    BY <1>2, <2>1, UpdateGot, SameClients
  <2>3. QED
    BY <1>3, <2>1, <2>2, SameLinks DEF Unseen, Promise!vars
<1>6. CASE Sleep
  <2>1. UNCHANGED <<iUp, conn, link, clientQueue, cur>> /\ ipc = "sleep" /\ ipc' = "accept"
    BY <1>6 DEF Sleep, socketVars
  <2>2. 1 \in TestCases
    BY <1>1, <2>1 DEF RelayInv, IInv, TypeOK
  <2>3. Line # <<>> /\ Tail(Line) = clientQueue
    BY <1>1, <2>1, LineFacts DEF Busy
  <2>4. Line' = clientQueue
    BY <2>1 DEF Line, Busy
  <2>5. Arrived' = Arrived /\ Asked' = Asked /\ Answers' = Answers /\ Closed' = Closed
    BY <2>1, SameClients
  <2>6. QED
    BY <2>1, <2>2, <2>3, <2>4, <2>5, SameLinks DEF Promise!Abandon
<1>7. CASE DispatchError
  <2>1. PICK v : /\ Respond(v)
                 /\ v \in {<<InvalidRequest>>, <<Error500>>}
                 /\ is_valid_request(request_buff) => v = <<Error500>>
    BY <1>7 DEF DispatchError
  <2>2. ipc = "dispatch" /\ ipc \in Busy /\ UNCHANGED <<iUp, link, clientQueue, cur>>
    BY <1>7 DEF DispatchError, Busy
  <2>3. Promise!Fits(cur, v)
    BY <1>1, <2>1, <2>2, FixedFits DEF RelayInv
  <2>4. QED
    BY <1>1, <2>1, <2>2, <2>3, AnswerPromised
<1>8. CASE DispatchMenu
  <2>1. /\ Respond(<<>>) /\ <<GET>> \in Strings(request_buff)
        /\ ipc = "dispatch" /\ ipc \in Busy /\ UNCHANGED <<iUp, link, clientQueue, cur>>
    BY <1>8 DEF DispatchMenu, ps_menu, Busy
  <2>2. ~Own(cur)
    BY <1>1, <2>1 DEF RelayInv
  <2>3. Promise!Fits(cur, <<>>)
    BY <2>1, <2>2, FixedFits
  <2>4. QED
    BY <1>1, <2>1, <2>3, AnswerPromised
<1>9. CASE DispatchRequest
  <2>1. UNCHANGED <<iUp, conn, link, clientQueue, cur>> /\ ipc \in Busy /\ ipc' \in Busy
    BY <1>9 DEF DispatchRequest, socketVars, Busy
  <2>2. QED
    BY <1>3, <2>1, SameClients, SameLinks DEF Unseen, Promise!vars
<1>10. CASE PsConnect
  <2>1. link[cur].st = "none" /\ ipc = "connect"
    BY <1>1, <1>10 DEF RelayInv, PsConnect
  <2>2. CASE link' = [link EXCEPT ![cur].st = "queued"] /\ ipc' = "write"
             /\ UNCHANGED <<iUp, conn, clientQueue>>
    <3>1. link'[cur].st = "queued"
          /\ \A d \in Clients \ {cur} : link'[d] = link[d]
      BY <1>2, <2>2, UpdateSt
    <3>2. Relayed' = Relayed \cup {cur} /\ cur \notin Relayed /\ Dropped' = Dropped
      <4>1. \A d \in Clients : link'[d].down = link[d].down /\ link'[d].ahup = link[d].ahup
        BY <1>2, <2>2, UpdateSt
      <4>2. Dropped' = Dropped
        BY <4>1 DEF Dropped, AnswerEnded
      <4>3. Relayed' = Relayed \cup {cur} /\ cur \notin Relayed
        BY <1>2, <2>1, <3>1 DEF Relayed
      <4>4. QED
        BY <4>2, <4>3
    <3>3. Line' = Line /\ Line # <<>> /\ Head(Line) = cur
      BY <1>1, <1>3, <1>10, <2>1, <2>2, LineFacts DEF PsConnect, Busy
    <3>4. QED
      BY <2>2, <3>2, <3>3, SameClients DEF Promise!Relay
  <2>3. CASE link' = [link EXCEPT ![cur].st = "refused"] /\ Die
    <3>1. \A d \in Clients :
            /\ link[d].st # "none" => link'[d].st # "none"
            /\ link'[d].down = link[d].down /\ link'[d].ahup = link[d].ahup
      BY <1>2, <2>1, <2>3, UpdateSt
    <3>2. QED
      BY <1>1, <2>3, <3>1, EndPromised DEF Die
  <2>4. QED
    BY <1>10, <2>2, <2>3 DEF PsConnect
<1>11. CASE PsWrite
  <2>1. CASE link' = [link EXCEPT ![cur].up = request] /\ UNCHANGED <<iUp, conn, clientQueue>>
             /\ ipc' = "answer"
    <3>1. \A d \in Clients : link'[d].st = link[d].st /\ link'[d].down = link[d].down
                            /\ link'[d].ahup = link[d].ahup
      BY <1>2, <2>1, UpdateUp
    <3>2. Line' = Line
      BY <1>3, <1>11, <2>1 DEF PsWrite, Busy
    <3>3. QED
      BY <2>1, <3>1, <3>2, SameClients, SameLinks DEF Unseen, Promise!vars
  <2>2. CASE link' = [link EXCEPT ![cur].ihup = TRUE] /\ Die
    <3>1. \A d \in Clients : link'[d].st = link[d].st /\ link'[d].down = link[d].down
                            /\ link'[d].ahup = link[d].ahup
      BY <1>2, <2>2, UpdateIhup
    <3>2. QED
      BY <1>1, <2>2, <3>1, EndPromised DEF Die
  <2>3. QED
    BY <1>11, <2>1, <2>2 DEF PsWrite
<1>12. CASE PsRead
  <2>1. link' = [link EXCEPT ![cur].ihup = TRUE] /\ UNCHANGED <<iUp, conn, clientQueue, cur>>
        /\ ipc \in Busy /\ ipc' \in Busy
    BY <1>12 DEF PsRead, PsClose, Busy
  <2>2. \A d \in Clients : link'[d].st = link[d].st /\ link'[d].down = link[d].down
                          /\ link'[d].ahup = link[d].ahup
    BY <1>2, <2>1, UpdateIhup
  <2>3. QED
    BY <1>3, <2>1, <2>2, SameClients, SameLinks DEF Unseen, Promise!vars
<1>13. CASE Reply
  <2>1. ipc = "reply" /\ ipc \in Busy /\ UNCHANGED <<link, cur>>
    BY <1>13 DEF Reply, Busy
  <2>2. CASE Respond(ps_answer) /\ UNCHANGED <<iUp, clientQueue>>
    BY <1>1, <2>1, <2>2, RelayedFits, AnswerPromised
  <2>3. CASE Die
    BY <1>1, <2>1, <2>3, EndPromised DEF Die
  <2>4. QED
    BY <1>13, <2>2, <2>3 DEF Reply
<1>14. CASE CloseThrows
  BY <1>1, <1>14, EndPromised DEF CloseThrows, Die
<1>15. QED
  BY <1>4, <1>5, <1>6, <1>7, <1>8, <1>9, <1>10, <1>11, <1>12, <1>13, <1>14
  DEF RelayNext, ListenClient

(* The discovery is not seen; SIGINT ends the service.                       *)
LEMMA MainPromised ==
    ASSUME IInv, Typed', MainNext
    PROVE  Promise!End \/ Unseen
<1>1. Typed /\ RelayInv /\ ClientQueueInv
  BY TypedFacts DEF IInv
<1>2. CASE LearnPs
  <2>1. UNCHANGED <<iUp, conn, link, clientQueue, ipc, cur>>
    BY <1>2 DEF LearnPs, socketVars
  <2>2. Line' = Line
    BY <2>1 DEF Line
  <2>3. QED
    BY <2>1, <2>2, SameClients, SameLinks DEF Unseen, Promise!vars
<1>3. CASE InterStop
  <2>1. \A d \in Clients :
            /\ link[d] \in Connection(Seq(Words \cup {JUNK}), Seq(Blocks))
            /\ link'[d] = IF InitiatorOpen(link[d]) THEN [link[d] EXCEPT !.ihup = TRUE] ELSE link[d]
    BY <1>1, <1>3 DEF InterStop, Typed, LinkType
  <2>2. \A d \in Clients :
            /\ link[d].st # "none" => link'[d].st # "none"
            /\ link'[d].down = link[d].down /\ link'[d].ahup = link[d].ahup
    BY <2>1 DEF Connection
  <2>3. iUp' = FALSE /\ ipc' \in {"dead", "stopped"} /\ clientQueue' = <<>>
        /\ conn' = [c \in Clients |-> Orphaned(conn[c])]
    BY <1>3 DEF InterStop
  <2>4. QED
    BY <1>1, <2>2, <2>3, EndPromised
<1>4. QED
  BY <1>2, <1>3 DEF MainNext

(* The pieces server drops queries when it ends, and nothing else of it is   *)
(* seen before the intermediate has read it.                                 *)
LEMMA ServerPromised ==
    ASSUME IInv, Typed', ServerNext
    PROVE  Promise!Drop \/ Unseen
<1>1. Typed /\ ServingInv /\ PsQueueInv /\ StagesInv
  BY TypedFacts DEF IInv
<1>2. /\ link \in [Clients -> Connection(Seq(Words \cup {JUNK}), Seq(Blocks))]
      /\ serving \in Clients /\ psQueue \in Seq(Clients)
  BY <1>1 DEF Typed, LinkType
<1>3. UNCHANGED <<iUp, conn, clientQueue, ipc, cur>>
  BY DEF ServerNext, ServerStep, AcceptIntermediate, ReadIntermediate, RespondFigure,
     ServerStop, ServerStart, interVars
<1>4. Arrived' = Arrived /\ Asked' = Asked /\ Answers' = Answers /\ Closed' = Closed
  BY <1>3, SameClients
<1>5. Line' = Line
  BY <1>3 DEF Line
<1>6. ASSUME Relayed' = Relayed /\ Dropped' = Dropped PROVE Unseen
  BY <1>3, <1>4, <1>5, <1>6 DEF Unseen, Promise!vars
<1>7. ASSUME ServerGone PROVE Promise!Drop
  <2>1. Orphans(link, link')
    BY <1>2, <1>7, OrphansOf DEF ServerGone
  <2>2. \A d \in Clients : link[d].st \in States /\ link'[d].st \in States
    BY <1>1 DEF Typed, LinkType, Connection
  <2>3. Relayed' = Relayed
    BY <2>1, <2>2 DEF Relayed, Orphans, States
  <2>4. Dropped \subseteq Dropped'
    BY <2>1 DEF Dropped, AnswerEnded, Orphans
  <2>5. Dropped' \subseteq Relayed
    BY <1>1, <2>1, <2>2 DEF Dropped, Relayed, AnswerEnded, Orphans, StagesInv, States
  <2>6. QED
    BY <1>3, <1>4, <1>5, <2>3, <2>4, <2>5 DEF Promise!Drop
<1>8. CASE AcceptIntermediate
  <2>1. Head(psQueue) = psQueue[1] /\ 1 \in 1..Len(psQueue) /\ Head(psQueue) \in Clients
    BY <1>2, <1>8, QueueTail DEF AcceptIntermediate
  <2>2. link[Head(psQueue)].st = "queued"
    BY <1>1, <2>1 DEF PsQueueInv
  <2>3. link' = [link EXCEPT ![Head(psQueue)].st = "accepted"]
    BY <1>8 DEF AcceptIntermediate
  <2>4. \A d \in Clients :
            /\ link'[d].st = "none" <=> link[d].st = "none"
            /\ link'[d].down = link[d].down /\ link'[d].ahup = link[d].ahup
    BY <1>2, <2>1, <2>2, <2>3, UpdateSt
  <2>5. QED
    BY <1>6, <2>4, SameLinks
<1>9. CASE ReadIntermediate
  <2>1. link' = [link EXCEPT ![serving].got = TRUE]
    BY <1>9 DEF ReadIntermediate
  <2>2. \A d \in Clients : link'[d].st = link[d].st /\ link'[d].down = link[d].down
                          /\ link'[d].ahup = link[d].ahup
    BY <1>2, <2>1, UpdateGot
  <2>3. QED
    BY <1>6, <2>2, SameLinks
<1>10. CASE RespondFigure
  <2>1. CASE link' = [link EXCEPT ![serving] = Answered(@, Response(formatRequest(a)))]
    <3>1. link'[serving].st = link[serving].st
          /\ link'[serving].down = Response(formatRequest(a))
          /\ \A d \in Clients \ {serving} : link'[d] = link[d]
      BY <1>2, <2>1 DEF Answered, Connection
    <3>2. ~link[serving].ahup /\ Response(formatRequest(a)) # <<>>
      BY <1>1, <1>10, ResponseType DEF ServingInv, RespondFigure
    <3>3. Relayed' = Relayed
      BY <3>1 DEF Relayed
    <3>4. Dropped' = Dropped
      BY <3>1, <3>2 DEF Dropped, AnswerEnded
    <3>5. QED
      BY <1>6, <3>3, <3>4
  <2>2. QED
    BY <1>7, <1>10, <2>1 DEF RespondFigure
<1>11. CASE ServerStop
  BY <1>7, <1>11 DEF ServerStop
<1>12. CASE ServerStart
  BY <1>6, <1>12, SameLinks DEF ServerStart
<1>13. QED
  BY <1>8, <1>9, <1>10, <1>11, <1>12 DEF ServerNext, ServerStep

(* Nobody is in line before anybody connected.                               *)
LEMMA InitPromised == Init => Promise!Init
<1> SUFFICES ASSUME Init PROVE Promise!Init
  OBVIOUS
<1>1. /\ \A c \in Clients : conn[c] = NoConnection /\ link[c] = NoConnection
      /\ iUp = TRUE /\ clientQueue = <<>> /\ ipc = "accept"
  BY DEF Init, SocketsInit, IntermediateInit
<1>2. Arrived = {} /\ Relayed = {} /\ Dropped = {} /\ Closed = {}
  BY <1>1 DEF Arrived, Relayed, Dropped, Closed, AnswerEnded, NoConnection
<1>3. Asked = [c \in Clients |-> <<>>] /\ Answers = [c \in Clients |-> <<>>]
  BY <1>1 DEF Asked, Answers, NoConnection
<1>4. Line = <<>>
  BY <1>1 DEF Line, Busy
<1>5. QED
  BY <1>1, <1>2, <1>3, <1>4 DEF Promise!Init

(* Every step of the programs is one of the promise, or not seen.            *)
LEMMA NextPromised == IInv /\ IInv' /\ [Next]_vars => [Promise!Next]_(Promise!vars)
<1> SUFFICES ASSUME IInv, IInv', [Next]_vars PROVE Promise!Next \/ Unseen
  BY DEF Unseen
<1>1. Typed'
  BY TypedFacts DEF IInv
<1>2. ASSUME NEW c \in Clients, ClientNext(c) PROVE Promise!Next \/ Unseen
  BY <1>1, <1>2, ClientPromised DEF Promise!Next
<1>3. CASE RelayNext
  BY <1>1, <1>3, RelayPromised DEF Promise!Next
<1>4. CASE MainNext
  BY <1>1, <1>4, MainPromised DEF Promise!Next
<1>5. CASE ServerNext
  BY <1>1, <1>5, ServerPromised DEF Promise!Next
<1>6. CASE UNCHANGED vars
  <2>1. UNCHANGED <<iUp, conn, link, clientQueue, ipc, cur>>
    BY <1>6 DEF vars, socketVars, interVars
  <2>2. Line' = Line
    BY <2>1 DEF Line
  <2>3. QED
    BY <2>1, <2>2, SameClients, SameLinks DEF Unseen, Promise!vars
<1>7. QED
  BY <1>2, <1>3, <1>4, <1>5, <1>6 DEF Next

(* The intermediate, its clients and the pieces server keep the promise:     *)
(* first come, first served, at most one answer each, one that fits.         *)
THEOREM PromiseKept == Spec => KeepsThePromise
<1>1. Init => Promise!Init
  BY InitPromised
<1>2. IInv /\ IInv' /\ [Next]_vars => [Promise!Next]_(Promise!vars)
  BY NextPromised
<1>3. QED
  BY <1>1, <1>2, Inductive, PTL DEF Spec, KeepsThePromise, Promise!Spec
=============================================================================
