----------------------------- MODULE QuerySteps -----------------------------
(***************************************************************************)
(* No step of the query path breaks its inductive invariant: one lemma per *)
(* action of the clients, the intermediate and the pieces server.          *)
(***************************************************************************)
EXTENDS QueryTypes

(* The types the steps need, with the record sets left folded.               *)
Typed ==
    /\ conn \in ConnType /\ link \in LinkType /\ cpc \in CpcType /\ shown \in ShownType
    /\ cur \in Clients /\ serving \in Clients
    /\ clientQueue \in Seq(Clients) /\ psQueue \in Seq(Clients)

(* The types of Query, folded, before and after a step.                      *)
LEMMA TypedFacts == (TypeOK => Typed) /\ (TypeOK' => Typed')
  BY DEF TypeOK, Typed, ConnType, LinkType, CpcType, ShownType

(* connect() at a queue: the newcomer is the last.                           *)
LEMMA QueueAppend ==
    ASSUME NEW q \in Seq(Clients), NEW c \in Clients
    PROVE  /\ Len(q) \in Nat /\ Len(Append(q, c)) = Len(q) + 1
           /\ Append(q, c)[Len(q) + 1] = c
           /\ \A i \in 1..Len(q) : Append(q, c)[i] = q[i] /\ q[i] \in Clients
  OBVIOUS

(* accept(): everybody moves up by one.                                      *)
LEMMA QueueTail ==
    ASSUME NEW q \in Seq(Clients), q # <<>>
    PROVE  /\ Head(q) = q[1] /\ q[1] \in Clients
           /\ Len(q) \in Nat \ {0} /\ Len(Tail(q)) = Len(q) - 1
           /\ \A i \in 1..Len(Tail(q)) :
                    Tail(q)[i] = q[i + 1] /\ i + 1 \in 1..Len(q) /\ q[i + 1] \in Clients
  OBVIOUS

(* The first block of an answer survives a read into an array: whatever the  *)
(* rest of the array holds, the string begins with it.                       *)
LEMMA FirstBlock ==
    ASSUME NEW buf \in Seq(Blocks \cup {NUL, JUNK}), Len(buf) >= 1,
           NEW bytes \in Seq(Blocks \cup {JUNK}), NEW k \in 1..Len(bytes),
           NEW s \in Strings(Fill(buf, bytes, k))
    PROVE  s # <<>> /\ Head(s) = Head(bytes)
<1> DEFINE b == Fill(buf, bytes, k)
<1>1. bytes \in Seq(Blocks \cup {NUL, JUNK}) /\ k \in Nat /\ k <= Len(bytes) /\ k >= 1
      /\ Len(bytes) \in Nat /\ Len(buf) \in Nat
  OBVIOUS
<1>2. b \in Seq(Blocks \cup {NUL, JUNK}) /\ Len(b) = Len(buf) /\ b[1] = bytes[1]
  BY <1>1, AnswerFillType
<1>3. bytes[1] # NUL
  BY <1>1, BlocksAssumption, MarksDiffer
<1>4. s \in Seq(Blocks \cup {JUNK})
  BY <1>2, AnswerStringsType
<1>5. Len(s) >= 1 /\ s[1] = b[1]
  <2>1. 1 \in 0..Len(b) /\ \A i \in 1..1 : b[i] # NUL
    BY <1>1, <1>2, <1>3
  <2>2. s \in Strings(b)
    OBVIOUS
  <2> HIDE DEF b
  <2>3. QED
    BY <1>2, <2>1, <2>2, StringsPrefix
<1>6. QED
  BY <1>1, <1>2, <1>4, <1>5

(* f before and g after the end of the accepting process.                    *)
Orphans(f, g) ==
    \A d \in Clients :
        /\ g[d].up = f[d].up /\ g[d].down = f[d].down /\ g[d].ihup = f[d].ihup
        /\ f[d].ahup => g[d].ahup
        /\ g[d].st # f[d].st => g[d].st = "reset" /\ f[d].st \in {"queued", "accepted"}
        /\ g[d].st \in {"none", "refused"} => g[d] = f[d]
        /\ g[d].st # "queued"
        /\ g[d].st = "accepted" => g[d].ahup

(* What the end of a process does to its connections is what Orphans says.   *)
LEMMA OrphansOf ==
    ASSUME NEW ups, NEW downs, NEW f \in [Clients -> Connection(ups, downs)],
           NEW g, g = [c \in Clients |-> Orphaned(f[c])]
    PROVE  Orphans(f, g)
<1>1. ASSUME NEW d \in Clients
      PROVE  g[d] = Orphaned(f[d]) /\ f[d] \in Connection(ups, downs)
  OBVIOUS
<1>2. \A d \in Clients :
        /\ g[d].up = f[d].up /\ g[d].down = f[d].down /\ g[d].ihup = f[d].ihup
        /\ f[d].ahup => g[d].ahup
        /\ g[d].st # f[d].st => g[d].st = "reset" /\ f[d].st \in {"queued", "accepted"}
        /\ g[d].st \in {"none", "refused"} => g[d] = f[d]
        /\ g[d].st # "queued"
        /\ g[d].st = "accepted" => g[d].ahup
  BY <1>1, OrphanedFields
<1>3. QED
  BY <1>2 DEF Orphans

(* A client enters the queue, or finds nobody.                               *)
LEMMA ConnectStep ==
    ASSUME IInv, TypeOK', NEW c \in Clients, Connect(c), UNCHANGED <<interVars, serverVars>>
    PROVE  IInv'
<1>1. /\ TypeOK /\ ClientsInv /\ ClientQueueInv /\ PsQueueInv /\ StagesInv
      /\ RelayInv /\ ServingInv /\ AnswersInv /\ OpenInv /\ DeathNeedsTheServer
  BY DEF IInv
<1>2. Typed /\ Typed'
  BY <1>1, TypedFacts
<1>3. /\ cpc[c] = "start" /\ \A d \in Clients \ {c} : conn'[d] = conn[d] /\ cpc'[d] = cpc[d]
      /\ conn'[c].up = conn[c].up /\ conn'[c].got = conn[c].got
      /\ conn'[c].down = conn[c].down
      /\ conn'[c].ihup = conn[c].ihup /\ conn'[c].ahup = conn[c].ahup
      /\ \/ conn'[c].st = "queued" /\ cpc'[c] = "connected" /\ clientQueue' = Append(clientQueue, c)
         \/ conn'[c].st = "refused" /\ cpc'[c] = "crashed" /\ clientQueue' = clientQueue
  <2>1. cpc[c] = "start"
    BY DEF Connect
  <2>2. CASE conn' = [conn EXCEPT ![c].st = "queued"] /\ cpc' = [cpc EXCEPT ![c] = "connected"]
             /\ clientQueue' = Append(clientQueue, c)
    BY <1>2, <2>1, <2>2, UpdateSt DEF ConnType, CpcType, Typed
  <2>3. CASE conn' = [conn EXCEPT ![c].st = "refused"] /\ cpc' = [cpc EXCEPT ![c] = "crashed"]
             /\ clientQueue' = clientQueue
    BY <1>2, <2>1, <2>3, UpdateSt DEF ConnType, CpcType, Typed
  <2>4. QED
    BY <2>2, <2>3 DEF Connect
<1>4. UNCHANGED <<link, psQueue, shown, ipc, cur, request_buff, request,
                  ps_answer, spc, serving, a, test_case>>
  BY DEF Connect, interVars, serverVars
<1>5. ClientsInv'
  BY <1>1, <1>2, <1>3, <1>4 DEF ClientsInv
<1>6. ClientQueueInv'
  <2>1. CASE clientQueue' = clientQueue
    BY <1>1, <1>2, <1>3, <2>1 DEF ClientQueueInv, ClientsInv, Typed
  <2>2. CASE clientQueue' = Append(clientQueue, c)
    <3>1. /\ Len(clientQueue) \in Nat /\ Len(clientQueue') = Len(clientQueue) + 1
          /\ clientQueue'[Len(clientQueue) + 1] = c
          /\ \A i \in 1..Len(clientQueue) :
                    clientQueue'[i] = clientQueue[i] /\ clientQueue[i] \in Clients
      BY <1>2, <2>2, QueueAppend DEF Typed
    <3>2. \A i \in 1..Len(clientQueue) : clientQueue[i] # c
      BY <1>1, <1>3 DEF ClientQueueInv, ClientsInv
    <3>3. conn'[c].st = "queued"
      BY <1>2, <1>3, <2>2, <3>1 DEF Typed
    <3>4. \A i \in 1..Len(clientQueue') : conn'[clientQueue'[i]].st = "queued"
      BY <1>1, <1>3, <3>1, <3>2, <3>3 DEF ClientQueueInv
    <3>5. \A i, j \in 1..Len(clientQueue') : clientQueue'[i] = clientQueue'[j] => i = j
      BY <1>1, <3>1, <3>2 DEF ClientQueueInv
    <3>6. QED
      BY <3>4, <3>5 DEF ClientQueueInv
  <2>3. QED
    BY <1>3, <2>1, <2>2
<1>7. PsQueueInv'
  BY <1>1, <1>2, <1>3, <1>4 DEF PsQueueInv
<1>8. StagesInv'
  BY <1>1, <1>2, <1>3, <1>4 DEF StagesInv, ClientsInv
<1>9. RelayInv'
  BY <1>1, <1>2, <1>3, <1>4
     DEF RelayInv, Busy, Own, Name, Right, AnswerEnded, Typed, ClientsInv
<1>10. ServingInv'
  BY <1>1, <1>2, <1>3, <1>4 DEF ServingInv
<1>11. AnswersInv'
  BY <1>1, <1>2, <1>3, <1>4 DEF AnswersInv, Own, Name, Right
<1>12. OpenInv'
  BY <1>1, <1>2, <1>3, <1>4 DEF OpenInv, InitiatorOpen
<1>13. DeathNeedsTheServer'
  BY <1>1, <1>2, <1>3, <1>4 DEF DeathNeedsTheServer
<1>14. QED
  BY <1>5, <1>6, <1>7, <1>8, <1>9, <1>10, <1>11, <1>12, <1>13 DEF IInv

(* A client writes its request, or dies.                                     *)
LEMMA SendStep ==
    ASSUME IInv, TypeOK', NEW c \in Clients, Send(c), UNCHANGED <<interVars, serverVars>>
    PROVE  IInv'
<1>1. /\ TypeOK /\ ClientsInv /\ ClientQueueInv /\ PsQueueInv /\ StagesInv
      /\ RelayInv /\ ServingInv /\ AnswersInv /\ OpenInv /\ DeathNeedsTheServer
  BY DEF IInv
<1>2. Typed /\ Typed'
  BY <1>1, TypedFacts
<1>3. /\ cpc[c] = "connected" /\ \A d \in Clients \ {c} : conn'[d] = conn[d] /\ cpc'[d] = cpc[d]
      /\ conn'[c].st = conn[c].st /\ conn'[c].got = conn[c].got
      /\ conn'[c].down = conn[c].down
      /\ conn'[c].ahup = conn[c].ahup
      /\ cpc'[c] \in {"crashed", "waiting"}
  <2>1. cpc[c] = "connected"
    BY DEF Send
  <2>2. CASE conn' = [conn EXCEPT ![c].ihup = TRUE] /\ cpc' = [cpc EXCEPT ![c] = "crashed"]
    BY <1>2, <2>1, <2>2, UpdateIhup DEF ConnType, CpcType, Typed
  <2>3. ASSUME NEW m, conn' = [conn EXCEPT ![c].up = m], cpc' = [cpc EXCEPT ![c] = "waiting"]
        PROVE  /\ \A d \in Clients \ {c} : conn'[d] = conn[d] /\ cpc'[d] = cpc[d]
               /\ conn'[c].st = conn[c].st /\ conn'[c].got = conn[c].got
               /\ conn'[c].down = conn[c].down /\ conn'[c].ahup = conn[c].ahup
               /\ cpc'[c] = "waiting"
    BY <1>2, <2>1, <2>3, UpdateUp DEF ConnType, CpcType, Typed
  <2>4. QED
    BY <2>2, <2>3 DEF Send
<1>4. UNCHANGED <<link, clientQueue, psQueue, shown, ipc, cur, request_buff,
                  request, ps_answer, spc, serving, a, test_case>>
  BY DEF Send, interVars, serverVars
<1>5. ClientsInv'
  BY <1>1, <1>2, <1>3, <1>4 DEF ClientsInv
<1>6. ClientQueueInv'
  BY <1>1, <1>2, <1>3, <1>4 DEF ClientQueueInv, Typed
<1>7. PsQueueInv'
  BY <1>1, <1>2, <1>3, <1>4 DEF PsQueueInv
<1>8. StagesInv'
  BY <1>1, <1>2, <1>3, <1>4 DEF StagesInv
<1>9. RelayInv'
  BY <1>1, <1>2, <1>3, <1>4 DEF RelayInv, Busy, Own, Name, Right, AnswerEnded, Typed
<1>10. ServingInv'
  BY <1>1, <1>2, <1>3, <1>4 DEF ServingInv
<1>11. AnswersInv'
  BY <1>1, <1>2, <1>3, <1>4
     DEF AnswersInv, Own, Name, Right, AnswerEnded, Typed, ClientsInv, StagesInv
<1>12. OpenInv'
  BY <1>1, <1>2, <1>3, <1>4 DEF OpenInv, InitiatorOpen
<1>13. DeathNeedsTheServer'
  BY <1>1, <1>2, <1>3, <1>4 DEF DeathNeedsTheServer
<1>14. QED
  BY <1>5, <1>6, <1>7, <1>8, <1>9, <1>10, <1>11, <1>12, <1>13 DEF IInv

(* A client reads the answer, the end of the connection or nothing.          *)
LEMMA ReceiveStep ==
    ASSUME IInv, TypeOK', NEW c \in Clients, Receive(c), UNCHANGED <<interVars, serverVars>>
    PROVE  IInv'
<1>1. /\ TypeOK /\ ClientsInv /\ ClientQueueInv /\ PsQueueInv /\ StagesInv
      /\ RelayInv /\ ServingInv /\ AnswersInv /\ OpenInv /\ DeathNeedsTheServer
  BY DEF IInv
<1>2. Typed /\ Typed'
  BY <1>1, TypedFacts
<1>3. /\ cpc[c] = "waiting" /\ \A d \in Clients \ {c} : conn'[d] = conn[d] /\ cpc'[d] = cpc[d]
      /\ conn'[c].st = conn[c].st /\ conn'[c].up = conn[c].up /\ conn'[c].got = conn[c].got
      /\ conn'[c].down = conn[c].down /\ conn'[c].ahup = conn[c].ahup
      /\ cpc'[c] \in {"done", "timeout"}
  <2>1. /\ cpc[c] = "waiting" /\ conn' = [conn EXCEPT ![c].ihup = TRUE]
        /\ cpc' = [cpc EXCEPT ![c] = "done"] \/ cpc' = [cpc EXCEPT ![c] = "timeout"]
    BY DEF Receive, ReceiveTimesOut
  <2>2. (\A d \in Clients \ {c} : cpc'[d] = cpc[d]) /\ cpc'[c] \in {"done", "timeout"}
    BY <1>2, <2>1 DEF Typed, CpcType
  <2>3. QED
    BY <1>2, <2>1, <2>2, UpdateIhup DEF ConnType, Typed
<1>4. /\ \A d \in Clients \ {c} : shown'[d] = shown[d]
      /\ cpc'[c] = "done" =>
            /\ conn[c].ahup
            /\ conn[c].down # <<>> => shown'[c] # <<>> /\ Head(shown'[c]) = Head(conn[c].down)
  <2>1. PICK before \in Uninitialised(ClientLen) :
            \/ /\ conn[c].down # <<>>
               /\ \E k \in ReadSizes(conn[c].down, ClientLen) :
                    \E s \in Strings(Fill(before, conn[c].down, k)) :
                        shown' = [shown EXCEPT ![c] = s]
            \/ /\ AnswerEnded(conn[c])
               /\ \E s \in Strings(before) : shown' = [shown EXCEPT ![c] = s]
            \/ /\ \E s \in Strings(before) : shown' = [shown EXCEPT ![c] = s]
               /\ cpc' = [cpc EXCEPT ![c] = "timeout"]
    BY DEF Receive, ReceiveTimesOut
  <2>2. before \in Seq(Blocks \cup {NUL, JUNK}) /\ Len(before) >= 1
    BY ClientAssumption, AnswerBufferType
  <2>3. conn[c].down \in Seq(Blocks \cup {JUNK})
    BY <1>2 DEF Typed, ConnType, Connection
  <2>4. \E s : shown' = [shown EXCEPT ![c] = s]
    BY <2>1
  <2>5. \A d \in Clients \ {c} : shown'[d] = shown[d]
    BY <1>2, <2>4 DEF Typed, ShownType
  <2>6. ASSUME NEW k \in ReadSizes(conn[c].down, ClientLen),
               NEW s \in Strings(Fill(before, conn[c].down, k)),
               shown' = [shown EXCEPT ![c] = s]
        PROVE  shown'[c] # <<>> /\ Head(shown'[c]) = Head(conn[c].down)
    <3>1. k \in 1..Len(conn[c].down)
      BY <2>3 DEF ReadSizes
    <3>2. s # <<>> /\ Head(s) = Head(conn[c].down)
      BY <2>2, <2>3, <3>1, FirstBlock
    <3>3. shown'[c] = s
      BY <1>2, <2>6 DEF Typed, ShownType
    <3>4. QED
      BY <3>2, <3>3
  <2>7. CASE cpc' = [cpc EXCEPT ![c] = "timeout"]
    BY <1>2, <2>5, <2>7 DEF Typed, CpcType
  <2>8. CASE AnswerEnded(conn[c])
    BY <2>5, <2>8 DEF AnswerEnded
  <2>9. CASE conn[c].down # <<>> /\ \E k \in ReadSizes(conn[c].down, ClientLen) :
                    \E s \in Strings(Fill(before, conn[c].down, k)) :
                        shown' = [shown EXCEPT ![c] = s]
    <3>1. conn[c].ahup
      BY <1>1, <2>9 DEF StagesInv
    <3>2. QED
      BY <2>5, <2>6, <2>9, <3>1
  <2>10. QED
    BY <2>1, <2>7, <2>8, <2>9
<1>5. UNCHANGED <<link, clientQueue, psQueue, ipc, cur, request_buff, request,
                  ps_answer, spc, serving, a, test_case>>
  BY DEF Receive, ReceiveTimesOut, interVars, serverVars
<1>6. ClientsInv'
  BY <1>1, <1>2, <1>3, <1>4, <1>5 DEF ClientsInv
<1>7. ClientQueueInv'
  BY <1>1, <1>2, <1>3, <1>4, <1>5 DEF ClientQueueInv, Typed
<1>8. PsQueueInv'
  BY <1>1, <1>2, <1>3, <1>4, <1>5 DEF PsQueueInv
<1>9. StagesInv'
  BY <1>1, <1>2, <1>3, <1>4, <1>5 DEF StagesInv
<1>10. RelayInv'
  BY <1>1, <1>2, <1>3, <1>4, <1>5 DEF RelayInv, Busy, Own, Name, Right, Typed
<1>11. ServingInv'
  BY <1>1, <1>2, <1>3, <1>4, <1>5 DEF ServingInv
<1>12. AnswersInv'
  BY <1>1, <1>2, <1>3, <1>4, <1>5 DEF AnswersInv, Own, Name, Right
<1>13. OpenInv'
  BY <1>1, <1>2, <1>3, <1>4, <1>5 DEF OpenInv, InitiatorOpen
<1>14. DeathNeedsTheServer'
  BY <1>1, <1>2, <1>3, <1>4, <1>5 DEF DeathNeedsTheServer
<1>15. QED
  BY <1>6, <1>7, <1>8, <1>9, <1>10, <1>11, <1>12, <1>13, <1>14 DEF IInv

(* listen_client takes the next client.                                      *)
LEMMA AcceptClientStep ==
    ASSUME IInv, TypeOK', AcceptClient, UNCHANGED <<clientVars, serverVars>>
    PROVE  IInv'
<1>1. /\ TypeOK /\ ClientsInv /\ ClientQueueInv /\ PsQueueInv /\ StagesInv
      /\ RelayInv /\ ServingInv /\ AnswersInv /\ OpenInv /\ DeathNeedsTheServer
  BY DEF IInv
<1>2. Typed /\ Typed'
  BY <1>1, TypedFacts
<1>3. clientQueue # <<>> /\ cur' = Head(clientQueue) /\ clientQueue' = Tail(clientQueue)
      /\ ipc = "accept" /\ ipc' = "read" /\ conn' = [conn EXCEPT ![cur'].st = "accepted"]
  BY DEF AcceptClient
<1>4. /\ cur' = clientQueue[1] /\ Len(clientQueue) \in Nat \ {0}
      /\ Len(clientQueue') = Len(clientQueue) - 1
      /\ \A i \in 1..Len(clientQueue') : /\ clientQueue'[i] = clientQueue[i + 1]
                                         /\ i + 1 \in 1..Len(clientQueue)
                                         /\ clientQueue[i + 1] \in Clients
  BY <1>2, <1>3, QueueTail DEF Typed
<1>5. /\ conn[cur'].st = "queued"
      /\ \A i \in 1..Len(clientQueue') : clientQueue'[i] # cur'
  BY <1>1, <1>4 DEF ClientQueueInv
<1>6. /\ \A d \in Clients \ {cur'} : conn'[d] = conn[d]
      /\ conn'[cur'].st = "accepted"
      /\ conn'[cur'].up = conn[cur'].up /\ conn'[cur'].got = conn[cur'].got
      /\ conn'[cur'].down = conn[cur'].down
      /\ conn'[cur'].ihup = conn[cur'].ihup /\ conn'[cur'].ahup = conn[cur'].ahup
  BY <1>2, <1>3, UpdateSt DEF Typed, ConnType
<1>7. UNCHANGED <<link, psQueue, cpc, shown, request_buff, request, ps_answer,
                  spc, serving, a, test_case>>
  BY DEF AcceptClient, clientVars, serverVars
<1>8. ClientsInv'
  BY <1>1, <1>2, <1>3, <1>4, <1>5, <1>6, <1>7 DEF ClientsInv
<1>9. ClientQueueInv'
  BY <1>1, <1>2, <1>3, <1>4, <1>5, <1>6, <1>7 DEF ClientQueueInv
<1>10. PsQueueInv'
  BY <1>1, <1>2, <1>3, <1>4, <1>5, <1>6, <1>7 DEF PsQueueInv
<1>11. StagesInv'
  BY <1>1, <1>2, <1>3, <1>4, <1>5, <1>6, <1>7 DEF StagesInv
<1>12. RelayInv'
  BY <1>1, <1>2, <1>3, <1>4, <1>5, <1>6, <1>7
     DEF RelayInv, Busy, Own, Name, Right, AnswerEnded, Typed, StagesInv
<1>13. ServingInv'
  BY <1>1, <1>2, <1>3, <1>4, <1>5, <1>6, <1>7 DEF ServingInv
<1>14. AnswersInv'
  BY <1>1, <1>2, <1>3, <1>4, <1>5, <1>6, <1>7 DEF AnswersInv, Own, Name, Right
<1>15. OpenInv'
  BY <1>1, <1>2, <1>3, <1>4, <1>5, <1>6, <1>7 DEF OpenInv, InitiatorOpen, Busy
<1>16. DeathNeedsTheServer'
  BY <1>1, <1>2, <1>3, <1>4, <1>5, <1>6, <1>7 DEF DeathNeedsTheServer
<1>17. QED
  BY <1>8, <1>9, <1>10, <1>11, <1>12, <1>13, <1>14, <1>15, <1>16 DEF IInv

(* listen_client reads the request.                                          *)
LEMMA ReadRequestStep ==
    ASSUME IInv, TypeOK', ReadRequest, UNCHANGED <<clientVars, serverVars>>
    PROVE  IInv'
<1>1. /\ TypeOK /\ ClientsInv /\ ClientQueueInv /\ PsQueueInv /\ StagesInv
      /\ RelayInv /\ ServingInv /\ AnswersInv /\ OpenInv /\ DeathNeedsTheServer
  BY DEF IInv
<1>2. Typed /\ Typed'
  BY <1>1, TypedFacts
<1>3. /\ \A d \in Clients \ {cur} : conn'[d] = conn[d]
      /\ conn'[cur].st = conn[cur].st /\ conn'[cur].up = conn[cur].up
      /\ conn'[cur].down = conn[cur].down
      /\ conn'[cur].ihup = conn[cur].ihup /\ conn'[cur].ahup = conn[cur].ahup
  <2>1. conn' = [conn EXCEPT ![cur].got = TRUE]
    BY DEF ReadRequest
  <2>2. QED
    BY <1>2, <2>1, UpdateGot DEF Typed, ConnType
<1>4. ipc = "read" /\ ipc' \in {"sleep", "dispatch"} /\ (ipc' = "sleep" => test_case = 1)
      /\ (conn[cur].up # <<>> \/ conn[cur].ihup)
  BY DEF ReadRequest, RequestEnded
<1>5. cpc[cur] \notin {"start", "connected"}
  BY <1>1, <1>2, <1>4 DEF ClientsInv, Typed
<1>6. Own(cur) =>
            /\ is_valid_request(request_buff')
            /\ \A s \in Strings(request_buff') : formatRequest(s) = Name(cur) /\ s # <<GET>>
  <2>1. conn[cur].up \in Seq(Words)
    BY <1>2 DEF Typed, ConnType, Connection
  <2>2. request_buff \in Seq(Cells) /\ Len(request_buff) = RequestLen /\ RequestLen \in Nat
    BY <1>1, IntermediateAssumption DEF TypeOK
  <2>3. CASE RequestEnded(conn[cur])
    <3>1. ~Own(cur)
      BY <2>3 DEF Own, NamesFigure, RequestEnded
    <3>2. QED
      BY <3>1
  <2>4. CASE request_buff' = Fill(request_buff, conn[cur].up, WholeRead(conn[cur].up, RequestLen))
    <3>1. SUFFICES ASSUME NamesFigure(conn[cur].up, RequestLen)
                   PROVE  /\ is_valid_request(request_buff')
                          /\ \A s \in Strings(request_buff') :
                                formatRequest(s) = Name(cur) /\ s # <<GET>>
      BY DEF Own
    <3>2. is_valid_request(request_buff')
      BY <2>1, <2>2, <2>4, <3>1, RequestRecognised
    <3>3. \A s \in Strings(request_buff') : formatRequest(s) = Name(cur) /\ s # <<GET>>
      BY <2>1, <2>2, <2>4, <3>1, RequestKept DEF Name
    <3>4. QED
      BY <3>2, <3>3
  <2>5. QED
    BY <2>3, <2>4 DEF ReadRequest
<1>7. UNCHANGED <<link, clientQueue, psQueue, cur, cpc, shown, request,
                  ps_answer, spc, serving, a, test_case>>
  BY DEF ReadRequest, clientVars, serverVars
<1>8. ClientsInv'
  BY <1>1, <1>2, <1>3, <1>4, <1>5, <1>6, <1>7 DEF ClientsInv
<1>9. ClientQueueInv'
  BY <1>1, <1>2, <1>3, <1>4, <1>5, <1>6, <1>7 DEF ClientQueueInv, Typed
<1>10. PsQueueInv'
  BY <1>1, <1>2, <1>3, <1>4, <1>5, <1>6, <1>7 DEF PsQueueInv
<1>11. StagesInv'
  BY <1>1, <1>2, <1>3, <1>4, <1>5, <1>6, <1>7 DEF StagesInv
<1>12. RelayInv'
  BY <1>1, <1>2, <1>3, <1>4, <1>5, <1>6, <1>7 DEF RelayInv, Busy, Own, Name, Right
<1>13. ServingInv'
  BY <1>1, <1>2, <1>3, <1>4, <1>5, <1>6, <1>7 DEF ServingInv
<1>14. AnswersInv'
  BY <1>1, <1>2, <1>3, <1>4, <1>5, <1>6, <1>7 DEF AnswersInv, Own, Name, Right
<1>15. OpenInv'
  BY <1>1, <1>2, <1>3, <1>4, <1>5, <1>6, <1>7 DEF OpenInv, InitiatorOpen, Busy
<1>16. DeathNeedsTheServer'
  BY <1>1, <1>2, <1>3, <1>4, <1>5, <1>6, <1>7 DEF DeathNeedsTheServer
<1>17. QED
  BY <1>8, <1>9, <1>10, <1>11, <1>12, <1>13, <1>14, <1>15, <1>16 DEF IInv

(* The test case abandons the client.                                        *)
LEMMA SleepStep ==
    ASSUME IInv, TypeOK', Sleep, UNCHANGED <<clientVars, serverVars>>
    PROVE  IInv'
<1>1. /\ TypeOK /\ ClientsInv /\ ClientQueueInv /\ PsQueueInv /\ StagesInv
      /\ RelayInv /\ ServingInv /\ AnswersInv /\ OpenInv /\ DeathNeedsTheServer
  BY DEF IInv
<1>2. Typed /\ Typed'
  BY <1>1, TypedFacts
<1>3. ipc = "sleep" /\ ipc' = "accept"
  BY DEF Sleep
<1>4. test_case = 1
  BY <1>1, <1>3 DEF RelayInv
<1>5. UNCHANGED <<conn, link, clientQueue, psQueue, cur, cpc, shown,
                  request_buff, request, ps_answer, spc, serving, a,
                  test_case>>
  BY DEF Sleep, socketVars, clientVars, serverVars
<1>6. ClientsInv'
  BY <1>1, <1>2, <1>3, <1>4, <1>5 DEF ClientsInv
<1>7. ClientQueueInv'
  BY <1>1, <1>2, <1>3, <1>4, <1>5 DEF ClientQueueInv
<1>8. PsQueueInv'
  BY <1>1, <1>2, <1>3, <1>4, <1>5 DEF PsQueueInv
<1>9. StagesInv'
  BY <1>1, <1>2, <1>3, <1>4, <1>5 DEF StagesInv
<1>10. RelayInv'
  BY <1>1, <1>2, <1>3, <1>4, <1>5 DEF RelayInv, Busy, Own, Name, Right
<1>11. ServingInv'
  BY <1>1, <1>2, <1>3, <1>4, <1>5 DEF ServingInv
<1>12. AnswersInv'
  BY <1>1, <1>2, <1>3, <1>4, <1>5 DEF AnswersInv, Own, Name, Right
<1>13. OpenInv'
  BY <1>1, <1>2, <1>3, <1>4, <1>5 DEF OpenInv, InitiatorOpen
<1>14. DeathNeedsTheServer'
  BY <1>1, <1>2, <1>3, <1>4, <1>5 DEF DeathNeedsTheServer
<1>15. QED
  BY <1>6, <1>7, <1>8, <1>9, <1>10, <1>11, <1>12, <1>13, <1>14 DEF IInv

(* An error message ends the turn.                                           *)
LEMMA DispatchErrorStep ==
    ASSUME IInv, TypeOK', DispatchError, UNCHANGED <<clientVars, serverVars>>
    PROVE  IInv'
<1>1. /\ TypeOK /\ ClientsInv /\ ClientQueueInv /\ PsQueueInv /\ StagesInv
      /\ RelayInv /\ ServingInv /\ AnswersInv /\ OpenInv /\ DeathNeedsTheServer
  BY DEF IInv
<1>2. Typed /\ Typed'
  BY <1>1, TypedFacts
<1>3. ipc = "dispatch" /\ ipc' = "accept"
  BY DEF DispatchError, Respond
<1>4. /\ \A d \in Clients \ {cur} : conn'[d] = conn[d]
      /\ conn'[cur].ahup = TRUE
      /\ conn'[cur].st = conn[cur].st /\ conn'[cur].up = conn[cur].up
      /\ conn'[cur].got = conn[cur].got
      /\ conn'[cur].ihup = conn[cur].ihup
  <2>1. PICK v : conn' = [conn EXCEPT ![cur] = Answered(@, v)]
    BY DEF DispatchError, Respond
  <2>2. conn \in [Clients -> Connection(Seq(Words), Seq(Blocks \cup {JUNK}))] /\ cur \in Clients
    BY <1>2 DEF Typed, ConnType
  <2>3. QED
    BY <2>1, <2>2 DEF Answered, Connection
<1>5. UNCHANGED <<link, clientQueue, psQueue, cur, cpc, shown, request_buff,
                  request, ps_answer, spc, serving, a, test_case>>
  BY DEF DispatchError, clientVars, serverVars
<1>6. ClientsInv'
  BY <1>1, <1>2, <1>3, <1>4, <1>5 DEF ClientsInv, Typed, RelayInv, Busy
<1>7. ClientQueueInv'
  BY <1>1, <1>2, <1>3, <1>4, <1>5 DEF ClientQueueInv, Typed
<1>8. PsQueueInv'
  BY <1>1, <1>2, <1>3, <1>4, <1>5 DEF PsQueueInv
<1>9. StagesInv'
  BY <1>1, <1>2, <1>3, <1>4, <1>5 DEF StagesInv, Typed, RelayInv, Busy
<1>10. RelayInv'
  BY <1>1, <1>2, <1>3, <1>4, <1>5 DEF RelayInv, Busy, Own, Name, Right
<1>11. ServingInv'
  BY <1>1, <1>2, <1>3, <1>4, <1>5 DEF ServingInv
<1>12. AnswersInv'
  BY <1>1, <1>2, <1>3, <1>4, <1>5
     DEF AnswersInv, Own, Name, Right, AnswerEnded, Typed, RelayInv
<1>13. OpenInv'
  BY <1>1, <1>2, <1>3, <1>4, <1>5 DEF OpenInv, InitiatorOpen
<1>14. DeathNeedsTheServer'
  BY <1>1, <1>2, <1>3, <1>4, <1>5 DEF DeathNeedsTheServer
<1>15. QED
  BY <1>6, <1>7, <1>8, <1>9, <1>10, <1>11, <1>12, <1>13, <1>14 DEF IInv

(* The (empty) menu ends the turn.                                           *)
LEMMA DispatchMenuStep ==
    ASSUME IInv, TypeOK', DispatchMenu, UNCHANGED <<clientVars, serverVars>>
    PROVE  IInv'
<1>1. /\ TypeOK /\ ClientsInv /\ ClientQueueInv /\ PsQueueInv /\ StagesInv
      /\ RelayInv /\ ServingInv /\ AnswersInv /\ OpenInv /\ DeathNeedsTheServer
  BY DEF IInv
<1>2. Typed /\ Typed'
  BY <1>1, TypedFacts
<1>3. ipc = "dispatch" /\ ipc' = "accept"
  BY DEF DispatchMenu, Respond
<1>4. /\ \A d \in Clients \ {cur} : conn'[d] = conn[d]
      /\ conn'[cur].ahup = TRUE
      /\ conn'[cur].st = conn[cur].st /\ conn'[cur].up = conn[cur].up
      /\ conn'[cur].got = conn[cur].got
      /\ conn'[cur].ihup = conn[cur].ihup
  <2>1. PICK v : conn' = [conn EXCEPT ![cur] = Answered(@, v)]
    BY DEF DispatchMenu, Respond
  <2>2. conn \in [Clients -> Connection(Seq(Words), Seq(Blocks \cup {JUNK}))] /\ cur \in Clients
    BY <1>2 DEF Typed, ConnType
  <2>3. QED
    BY <2>1, <2>2 DEF Answered, Connection
<1>5. UNCHANGED <<link, clientQueue, psQueue, cur, cpc, shown, request_buff,
                  request, ps_answer, spc, serving, a, test_case>>
  BY DEF DispatchMenu, clientVars, serverVars
<1>6. ClientsInv'
  BY <1>1, <1>2, <1>3, <1>4, <1>5 DEF ClientsInv, Typed, RelayInv, Busy
<1>7. ClientQueueInv'
  BY <1>1, <1>2, <1>3, <1>4, <1>5 DEF ClientQueueInv, Typed
<1>8. PsQueueInv'
  BY <1>1, <1>2, <1>3, <1>4, <1>5 DEF PsQueueInv
<1>9. StagesInv'
  BY <1>1, <1>2, <1>3, <1>4, <1>5 DEF StagesInv, Typed, RelayInv, Busy
<1>10. RelayInv'
  BY <1>1, <1>2, <1>3, <1>4, <1>5 DEF RelayInv, Busy, Own, Name, Right
<1>11. ServingInv'
  BY <1>1, <1>2, <1>3, <1>4, <1>5 DEF ServingInv
<1>12. AnswersInv'
  BY <1>1, <1>2, <1>3, <1>4, <1>5
     DEF AnswersInv, Own, Name, Right, AnswerEnded, Typed, RelayInv
<1>13. OpenInv'
  BY <1>1, <1>2, <1>3, <1>4, <1>5 DEF OpenInv, InitiatorOpen
<1>14. DeathNeedsTheServer'
  BY <1>1, <1>2, <1>3, <1>4, <1>5 DEF DeathNeedsTheServer
<1>15. QED
  BY <1>6, <1>7, <1>8, <1>9, <1>10, <1>11, <1>12, <1>13, <1>14 DEF IInv

(* The request is relayed.                                                   *)
LEMMA DispatchRequestStep ==
    ASSUME IInv, TypeOK', DispatchRequest, UNCHANGED <<clientVars, serverVars>>
    PROVE  IInv'
<1>1. /\ TypeOK /\ ClientsInv /\ ClientQueueInv /\ PsQueueInv /\ StagesInv
      /\ RelayInv /\ ServingInv /\ AnswersInv /\ OpenInv /\ DeathNeedsTheServer
  BY DEF IInv
<1>2. Typed /\ Typed'
  BY <1>1, TypedFacts
<1>3. ipc = "dispatch" /\ ipc' = "connect" /\ request' \in Strings(request_buff)
      /\ is_valid_request(request_buff)
  BY DEF DispatchRequest
<1>4. Own(cur) => formatRequest(request') = Name(cur)
  BY <1>1, <1>3 DEF RelayInv
<1>5. request' # <<>>
  <2>1. request_buff \in Seq(Cells) /\ Len(request_buff) >= 1 /\ Len(request_buff) \in Nat
    BY <1>1, IntermediateAssumption DEF TypeOK
  <2>2. request_buff[1] # NUL
    BY <1>3, WordsAssumption DEF is_valid_request, Words
  <2>3. 1 \in 0..Len(request_buff) /\ \A i \in 1..1 : request_buff[i] # NUL
    BY <2>1, <2>2
  <2>4. Len(request') >= 1
    BY <1>3, <2>1, <2>3, StringsPrefix
  <2>5. QED
    BY <2>4
<1>6. UNCHANGED <<conn, link, clientQueue, psQueue, cur, cpc, shown,
                  request_buff, ps_answer, spc, serving, a, test_case>>
  BY DEF DispatchRequest, socketVars, clientVars, serverVars
<1>7. ClientsInv'
  BY <1>1, <1>2, <1>3, <1>4, <1>5, <1>6 DEF ClientsInv
<1>8. ClientQueueInv'
  BY <1>1, <1>2, <1>3, <1>4, <1>5, <1>6 DEF ClientQueueInv
<1>9. PsQueueInv'
  BY <1>1, <1>2, <1>3, <1>4, <1>5, <1>6 DEF PsQueueInv
<1>10. StagesInv'
  BY <1>1, <1>2, <1>3, <1>4, <1>5, <1>6 DEF StagesInv
<1>11. RelayInv'
  BY <1>1, <1>2, <1>3, <1>4, <1>5, <1>6 DEF RelayInv, Busy, Own, Name, Right
<1>12. ServingInv'
  BY <1>1, <1>2, <1>3, <1>4, <1>5, <1>6 DEF ServingInv
<1>13. AnswersInv'
  BY <1>1, <1>2, <1>3, <1>4, <1>5, <1>6 DEF AnswersInv, Own, Name, Right
<1>14. OpenInv'
  BY <1>1, <1>2, <1>3, <1>4, <1>5, <1>6 DEF OpenInv, InitiatorOpen, Busy
<1>15. DeathNeedsTheServer'
  BY <1>1, <1>2, <1>3, <1>4, <1>5, <1>6 DEF DeathNeedsTheServer
<1>16. QED
  BY <1>7, <1>8, <1>9, <1>10, <1>11, <1>12, <1>13, <1>14, <1>15 DEF IInv

(* request_ps connects, or the intermediate dies.                            *)
LEMMA PsConnectStep ==
    ASSUME IInv, TypeOK', PsConnect, UNCHANGED <<clientVars, serverVars>>
    PROVE  IInv'
<1>1. /\ TypeOK /\ ClientsInv /\ ClientQueueInv /\ PsQueueInv /\ StagesInv
      /\ RelayInv /\ ServingInv /\ AnswersInv /\ OpenInv /\ DeathNeedsTheServer
  BY DEF IInv
<1>2. Typed /\ Typed'
  BY <1>1, TypedFacts
<1>3. /\ ipc = "connect" /\ \A d \in Clients \ {cur} : link'[d] = link[d]
      /\ link'[cur].up = link[cur].up /\ link'[cur].got = link[cur].got
      /\ link'[cur].down = link[cur].down
      /\ link'[cur].ihup = link[cur].ihup /\ link'[cur].ahup = link[cur].ahup
      /\ \/ link'[cur].st = "queued" /\ ipc' = "write" /\ conn' = conn
            /\ clientQueue' = clientQueue /\ psQueue' = Append(psQueue, cur)
         \/ link'[cur].st = "refused" /\ ipc' = "dead" /\ Orphans(conn, conn')
            /\ clientQueue' = <<>> /\ psQueue' = psQueue
  <2>1. CASE /\ link' = [link EXCEPT ![cur].st = "queued"]
             /\ psQueue' = Append(psQueue, cur) /\ ipc' = "write" /\ UNCHANGED <<conn,
                                                                                 clientQueue>>
    BY <1>2, <2>1, UpdateSt DEF Typed, LinkType, PsConnect
  <2>2. CASE /\ link' = [link EXCEPT ![cur].st = "refused"] /\ psQueue' = psQueue
             /\ ipc' = "dead" /\ clientQueue' = <<>>
             /\ conn' = [c \in Clients |-> Orphaned(conn[c])]
    <3>1. Orphans(conn, conn')
      BY <1>2, <2>2, OrphansOf DEF Typed, ConnType
    <3>2. QED
      BY <1>2, <2>2, <3>1, UpdateSt DEF Typed, LinkType, PsConnect
  <2>3. QED
    BY <2>1, <2>2 DEF PsConnect, Die
<1>4. UNCHANGED <<cur, cpc, shown, request_buff, request, ps_answer, spc,
                  serving, a, test_case>>
  BY DEF PsConnect, clientVars, serverVars
<1>5. ClientsInv'
  BY <1>1, <1>2, <1>3, <1>4 DEF ClientsInv, Typed, RelayInv, Busy, Orphans
<1>6. ClientQueueInv'
  BY <1>1, <1>2, <1>3, <1>4 DEF ClientQueueInv
<1>7. PsQueueInv'
  <2>1. link[cur].st = "none"
    BY <1>1, <1>3 DEF RelayInv
  <2>2. CASE psQueue' = psQueue
    BY <1>1, <1>2, <1>3, <2>1, <2>2 DEF PsQueueInv, Typed
  <2>3. CASE psQueue' = Append(psQueue, cur) /\ link'[cur].st = "queued"
    <3>1. /\ Len(psQueue) \in Nat /\ Len(psQueue') = Len(psQueue) + 1
          /\ psQueue'[Len(psQueue) + 1] = cur
          /\ \A i \in 1..Len(psQueue) : psQueue'[i] = psQueue[i] /\ psQueue[i] \in Clients
      BY <1>2, <2>3, QueueAppend DEF Typed
    <3>2. \A i \in 1..Len(psQueue) : psQueue[i] # cur
      BY <1>1, <2>1 DEF PsQueueInv
    <3>3. \A i \in 1..Len(psQueue') : link'[psQueue'[i]].st = "queued"
      BY <1>1, <1>3, <2>3, <3>1, <3>2 DEF PsQueueInv
    <3>4. \A i, j \in 1..Len(psQueue') : psQueue'[i] = psQueue'[j] => i = j
      BY <1>1, <3>1, <3>2 DEF PsQueueInv
    <3>5. QED
      BY <3>3, <3>4 DEF PsQueueInv
  <2>4. QED
    BY <1>3, <2>2, <2>3
<1>8. StagesInv'
  BY <1>1, <1>2, <1>3, <1>4 DEF StagesInv, Typed, RelayInv, Busy, Orphans
<1>9. RelayInv'
  BY <1>1, <1>2, <1>3, <1>4
     DEF RelayInv, Busy, Own, Name, Right, AnswerEnded, Typed, Orphans, StagesInv
<1>10. ServingInv'
  BY <1>1, <1>2, <1>3, <1>4 DEF ServingInv, Typed, RelayInv
<1>11. AnswersInv'
  BY <1>1, <1>2, <1>3, <1>4
     DEF AnswersInv, Own, Name, Right, AnswerEnded, Typed, RelayInv, Busy, Orphans
<1>12. OpenInv'
  BY <1>1, <1>2, <1>3, <1>4 DEF OpenInv, InitiatorOpen, Busy, Typed, RelayInv, Orphans
<1>13. DeathNeedsTheServer'
  BY <1>1, <1>2, <1>3, <1>4 DEF DeathNeedsTheServer, Typed
<1>14. QED
  BY <1>5, <1>6, <1>7, <1>8, <1>9, <1>10, <1>11, <1>12, <1>13 DEF IInv

(* request_ps writes the request, or the intermediate dies.                  *)
LEMMA PsWriteStep ==
    ASSUME IInv, TypeOK', PsWrite, UNCHANGED <<clientVars, serverVars>>
    PROVE  IInv'
<1>1. /\ TypeOK /\ ClientsInv /\ ClientQueueInv /\ PsQueueInv /\ StagesInv
      /\ RelayInv /\ ServingInv /\ AnswersInv /\ OpenInv /\ DeathNeedsTheServer
  BY DEF IInv
<1>2. Typed /\ Typed'
  BY <1>1, TypedFacts
<1>3. /\ ipc = "write" /\ \A d \in Clients \ {cur} : link'[d] = link[d]
      /\ link'[cur].st = link[cur].st /\ link'[cur].got = link[cur].got
      /\ link'[cur].down = link[cur].down
      /\ link'[cur].ahup = link[cur].ahup
      /\ \/ link'[cur].up = request /\ link'[cur].ihup = link[cur].ihup /\ ipc' = "answer"
            /\ conn' = conn /\ clientQueue' = clientQueue
         \/ link[cur].st = "reset" /\ link'[cur].up = link[cur].up /\ link'[cur].ihup = TRUE
            /\ ipc' = "dead" /\ Orphans(conn, conn') /\ clientQueue' = <<>>
  <2>1. CASE /\ link' = [link EXCEPT ![cur].up = request]
             /\ ipc' = "answer" /\ UNCHANGED <<conn, clientQueue>>
    BY <1>2, <2>1, UpdateUp DEF Typed, LinkType, PsWrite
  <2>2. CASE /\ link[cur].st = "reset" /\ link' = [link EXCEPT ![cur].ihup = TRUE]
             /\ ipc' = "dead" /\ clientQueue' = <<>>
             /\ conn' = [c \in Clients |-> Orphaned(conn[c])]
    <3>1. Orphans(conn, conn')
      BY <1>2, <2>2, OrphansOf DEF Typed, ConnType
    <3>2. QED
      BY <1>2, <2>2, <3>1, UpdateIhup DEF Typed, LinkType, PsWrite
  <2>3. QED
    BY <2>1, <2>2 DEF PsWrite, Die, IsReset
<1>4. UNCHANGED <<psQueue, cur, cpc, shown, request_buff, request, ps_answer,
                  spc, serving, a, test_case>>
  BY DEF PsWrite, clientVars, serverVars
<1>5. ClientsInv'
  BY <1>1, <1>2, <1>3, <1>4 DEF ClientsInv, Typed, RelayInv, Orphans
<1>6. ClientQueueInv'
  BY <1>1, <1>2, <1>3, <1>4 DEF ClientQueueInv
<1>7. PsQueueInv'
  BY <1>1, <1>2, <1>3, <1>4 DEF PsQueueInv, Typed
<1>8. StagesInv'
  BY <1>1, <1>2, <1>3, <1>4 DEF StagesInv, Typed, RelayInv, Orphans
<1>9. RelayInv'
  BY <1>1, <1>2, <1>3, <1>4
     DEF RelayInv, Busy, Own, Name, Right, AnswerEnded, Typed, Orphans
<1>10. ServingInv'
  BY <1>1, <1>2, <1>3, <1>4 DEF ServingInv, Typed, RelayInv
<1>11. AnswersInv'
  BY <1>1, <1>2, <1>3, <1>4
     DEF AnswersInv, Own, Name, Right, AnswerEnded, Typed, RelayInv, Busy, Orphans
<1>12. OpenInv'
  BY <1>1, <1>2, <1>3, <1>4 DEF OpenInv, InitiatorOpen, Busy, Typed, RelayInv, Orphans
<1>13. DeathNeedsTheServer'
  BY <1>1, <1>2, <1>3, <1>4 DEF DeathNeedsTheServer, Typed
<1>14. QED
  BY <1>5, <1>6, <1>7, <1>8, <1>9, <1>10, <1>11, <1>12, <1>13 DEF IInv

(* request_ps reads the answer and closes.                                   *)
LEMMA PsReadStep ==
    ASSUME IInv, TypeOK', PsRead, UNCHANGED <<clientVars, serverVars>>
    PROVE  IInv'
<1>1. /\ TypeOK /\ ClientsInv /\ ClientQueueInv /\ PsQueueInv /\ StagesInv
      /\ RelayInv /\ ServingInv /\ AnswersInv /\ OpenInv /\ DeathNeedsTheServer
  BY DEF IInv
<1>2. Typed /\ Typed'
  BY <1>1, TypedFacts
<1>3. /\ ipc = "answer" /\ ipc' = "reply" /\ \A d \in Clients \ {cur} : link'[d] = link[d]
      /\ link'[cur].ihup = TRUE
      /\ link'[cur].st = link[cur].st /\ link'[cur].up = link[cur].up
      /\ link'[cur].got = link[cur].got
      /\ link'[cur].down = link[cur].down /\ link'[cur].ahup = link[cur].ahup
  <2>1. ipc = "answer" /\ ipc' = "reply" /\ link' = [link EXCEPT ![cur].ihup = TRUE]
    BY DEF PsRead, PsReadTimesOut, PsClose
  <2>2. QED
    BY <1>2, <2>1, UpdateIhup DEF Typed, LinkType
<1>4. /\ (Own(cur) /\ ~AnswerEnded(link[cur])) =>
            (ps_answer' # <<>> /\ Head(ps_answer') \in Right(cur))
      /\ link[cur].ahup \/ Len(ps_answer') < ResponseLen
  <2>1. PICK before \in {ps_buff} \cup Uninitialised(ResponseLen) :
            \/ /\ link[cur].down # <<>>
               /\ \E k \in ReadSizes(link[cur].down, ResponseLen) :
                    ps_buff' = Fill(before, link[cur].down, k)
            \/ AnswerEnded(link[cur])
            \/ ps_buff' = Fill(before, <<Error504, NUL>>, 2)
    BY DEF PsRead, PsReadTimesOut, PsClose
  <2>2. before \in Seq(Blocks \cup {NUL, JUNK}) /\ Len(before) = ResponseLen
    BY <1>1, IntermediateAssumption, AnswerBufferType DEF TypeOK
  <2>3. Len(before) >= 2 /\ ps_answer' \in Strings(ps_buff')
    BY <2>2, IntermediateAssumption DEF PsRead, PsReadTimesOut, PsClose
  <2>4. CASE AnswerEnded(link[cur])
    BY <2>4 DEF AnswerEnded
  <2>5. CASE link[cur].down # <<>> /\ \E k \in ReadSizes(link[cur].down, ResponseLen) :
                    ps_buff' = Fill(before, link[cur].down, k)
    <3>1. PICK k \in ReadSizes(link[cur].down, ResponseLen) :
                    ps_buff' = Fill(before, link[cur].down, k)
      BY <2>5
    <3>2. link[cur].down \in Seq(Blocks)
      BY <1>2 DEF Typed, LinkType, Connection
    <3>3. link[cur].down \in Seq(Blocks \cup {JUNK}) /\ k \in 1..Len(link[cur].down)
      BY <3>2 DEF ReadSizes
    <3>4. ps_answer' # <<>> /\ Head(ps_answer') = Head(link[cur].down)
      BY <2>2, <2>3, <3>1, <3>3, FirstBlock
    <3>5. link[cur].ahup
      BY <1>1, <1>2, <2>5 DEF StagesInv, Typed
    <3>6. ASSUME Own(cur) PROVE Head(link[cur].down) = Response(Name(cur))[1]
      <4>1. link[cur].down = Response(Name(cur))
        BY <1>1, <1>2, <1>3, <2>5, <3>6 DEF AnswersInv, RelayInv, Typed
      <4>2. QED
        BY <2>5, <3>2, <4>1
    <3>7. QED
      BY <3>4, <3>5, <3>6 DEF Right
  <2>6. CASE ps_buff' = Fill(before, <<Error504, NUL>>, 2)
    <3> DEFINE msg == <<Error504, NUL>>
    <3>1. /\ msg \in Seq(Blocks \cup {NUL, JUNK}) /\ 2 \in Nat /\ 2 <= Len(msg)
          /\ msg[1] = Error504 /\ msg[2] = NUL /\ ps_buff' = Fill(before, msg, 2)
      BY <2>6 DEF Blocks
    <3> HIDE DEF msg
    <3>2. /\ ps_buff' \in Seq(Blocks \cup {NUL, JUNK}) /\ Len(ps_buff') = ResponseLen
          /\ ps_buff'[1] = Error504 /\ ps_buff'[2] = NUL
      BY <2>2, <2>3, <3>1, AnswerFillType
    <3>3. Error504 # NUL /\ ResponseLen \in Nat /\ ResponseLen >= 2
      BY BlocksAssumption, IntermediateAssumption DEF Blocks
    <3>4. Len(ps_answer') < ResponseLen
      BY <2>3, <3>2, <3>3, StringsShort
    <3>5. Len(ps_answer') >= 1 /\ ps_answer'[1] = Error504
      <4>1. 1 \in 0..Len(ps_buff') /\ \A i \in 1..1 : ps_buff'[i] # NUL
        BY <3>2, <3>3
      <4>2. QED
        BY <2>3, <3>2, <4>1, StringsPrefix
    <3>6. ps_answer' \in Seq(Blocks \cup {JUNK})
      BY <2>3, <3>2, AnswerStringsType
    <3>7. QED
      BY <3>4, <3>5, <3>6 DEF Right
  <2>7. QED
    BY <2>1, <2>4, <2>5, <2>6
<1>5. UNCHANGED <<conn, clientQueue, psQueue, cur, cpc, shown, request_buff,
                  request, spc, serving, a, test_case>>
  BY DEF PsRead, PsReadTimesOut, PsClose, clientVars, serverVars
<1>6. ClientsInv'
  BY <1>1, <1>2, <1>3, <1>4, <1>5 DEF ClientsInv
<1>7. ClientQueueInv'
  BY <1>1, <1>2, <1>3, <1>4, <1>5 DEF ClientQueueInv
<1>8. PsQueueInv'
  BY <1>1, <1>2, <1>3, <1>4, <1>5 DEF PsQueueInv, Typed
<1>9. StagesInv'
  BY <1>1, <1>2, <1>3, <1>4, <1>5 DEF StagesInv, RelayInv
<1>10. RelayInv'
  BY <1>1, <1>2, <1>3, <1>4, <1>5 DEF RelayInv, Busy, Own, Name, Right, AnswerEnded
<1>11. ServingInv'
  BY <1>1, <1>2, <1>3, <1>4, <1>5 DEF ServingInv, Typed
<1>12. AnswersInv'
  BY <1>1, <1>2, <1>3, <1>4, <1>5 DEF AnswersInv, Own, Name, Right, AnswerEnded
<1>13. OpenInv'
  BY <1>1, <1>2, <1>3, <1>4, <1>5 DEF OpenInv, InitiatorOpen, Busy
<1>14. DeathNeedsTheServer'
  BY <1>1, <1>2, <1>3, <1>4, <1>5 DEF DeathNeedsTheServer
<1>15. QED
  BY <1>6, <1>7, <1>8, <1>9, <1>10, <1>11, <1>12, <1>13, <1>14 DEF IInv

(* The answer goes back to the client, or overflows response_buff.           *)
LEMMA ReplyStep ==
    ASSUME IInv, TypeOK', Reply, UNCHANGED <<clientVars, serverVars>>
    PROVE  IInv'
<1>1. /\ TypeOK /\ ClientsInv /\ ClientQueueInv /\ PsQueueInv /\ StagesInv
      /\ RelayInv /\ ServingInv /\ AnswersInv /\ OpenInv /\ DeathNeedsTheServer
  BY DEF IInv
<1>2. Typed /\ Typed'
  BY <1>1, TypedFacts
<1>3. /\ ipc = "reply"
      /\ \/ /\ \A d \in Clients \ {cur} : conn'[d] = conn[d]
            /\ conn'[cur].down = ps_answer /\ conn'[cur].ahup = TRUE
            /\ conn'[cur].st = conn[cur].st /\ conn'[cur].up = conn[cur].up
            /\ conn'[cur].ihup = conn[cur].ihup
            /\ ipc' = "accept" /\ clientQueue' = clientQueue
         \/ Len(ps_answer) >= ResponseLen /\ ipc' = "dead" /\ Orphans(conn, conn')
            /\ clientQueue' = <<>>
  <2>1. CASE /\ conn' = [conn EXCEPT ![cur] = Answered(@, ps_answer)]
             /\ ipc' = "accept" /\ clientQueue' = clientQueue
    <3>1. conn \in [Clients -> Connection(Seq(Words), Seq(Blocks \cup {JUNK}))] /\ cur \in Clients
      BY <1>2 DEF Typed, ConnType
    <3>2. /\ \A d \in Clients \ {cur} : conn'[d] = conn[d]
          /\ conn'[cur].down = ps_answer /\ conn'[cur].ahup = TRUE
          /\ conn'[cur].st = conn[cur].st /\ conn'[cur].up = conn[cur].up
          /\ conn'[cur].ihup = conn[cur].ihup
      BY <2>1, <3>1 DEF Answered, Connection
    <3>3. QED
      BY <2>1, <3>2 DEF Reply
  <2>2. CASE /\ Len(ps_answer) >= ResponseLen /\ ipc' = "dead" /\ clientQueue' = <<>>
             /\ conn' = [c \in Clients |-> Orphaned(conn[c])]
    <3>1. Orphans(conn, conn')
      BY <1>2, <2>2, OrphansOf DEF Typed, ConnType
    <3>2. QED
      BY <2>2, <3>1 DEF Reply
  <2>3. QED
    BY <2>1, <2>2 DEF Reply, Respond, Die
<1>4. UNCHANGED <<link, psQueue, cur, cpc, shown, request_buff, request,
                  ps_answer, spc, serving, a, test_case>>
  BY DEF Reply, clientVars, serverVars
<1>5. Len(ps_answer) \in Nat /\ ResponseLen \in Nat
  BY <1>1, IntermediateAssumption DEF TypeOK
<1>6. ClientsInv'
  BY <1>1, <1>2, <1>3, <1>4, <1>5 DEF ClientsInv, Typed, RelayInv, Busy, Orphans
<1>7. ClientQueueInv'
  BY <1>1, <1>2, <1>3, <1>4, <1>5 DEF ClientQueueInv, Typed, RelayInv
<1>8. PsQueueInv'
  BY <1>1, <1>2, <1>3, <1>4, <1>5 DEF PsQueueInv
<1>9. StagesInv'
  BY <1>1, <1>2, <1>3, <1>4, <1>5 DEF StagesInv, Typed, RelayInv, Orphans
<1>10. RelayInv'
  BY <1>1, <1>2, <1>3, <1>4, <1>5 DEF RelayInv, Busy, Own, Name, Right
<1>11. ServingInv'
  BY <1>1, <1>2, <1>3, <1>4, <1>5 DEF ServingInv
<1>12. AnswersInv'
  BY <1>1, <1>2, <1>3, <1>4, <1>5
     DEF AnswersInv, Own, Name, Right, AnswerEnded, Typed, RelayInv, Orphans
<1>13. OpenInv'
  BY <1>1, <1>2, <1>3, <1>4, <1>5 DEF OpenInv, InitiatorOpen, Busy, Orphans
<1>14. DeathNeedsTheServer'
  BY <1>1, <1>2, <1>3, <1>4, <1>5 DEF DeathNeedsTheServer, Typed, RelayInv
<1>15. QED
  BY <1>6, <1>7, <1>8, <1>9, <1>10, <1>11, <1>12, <1>13, <1>14 DEF IInv

(* Close throws after it closed, and the process ends.                       *)
LEMMA CloseThrowsStep ==
    ASSUME IInv, TypeOK', CloseThrows, UNCHANGED <<clientVars, serverVars>>
    PROVE  IInv'
<1>1. /\ TypeOK /\ ClientsInv /\ ClientQueueInv /\ PsQueueInv /\ StagesInv
      /\ RelayInv /\ ServingInv /\ AnswersInv /\ OpenInv /\ DeathNeedsTheServer
  BY DEF IInv
<1>2. Typed /\ Typed'
  BY <1>1, TypedFacts
<1>3. /\ ipc \in {"accept", "reply"} /\ ipc' = "dead"
      /\ clientQueue' = <<>> /\ Orphans(conn, conn')
  BY <1>2, OrphansOf DEF CloseThrows, Die, Typed, ConnType
<1>4. UNCHANGED <<link, psQueue, cur, cpc, shown, request_buff, request,
                  ps_answer, spc, serving, a, test_case>>
  BY DEF CloseThrows, clientVars, serverVars
<1>5. ClientsInv'
  BY <1>1, <1>2, <1>3, <1>4 DEF ClientsInv, Orphans
<1>6. ClientQueueInv'
  BY <1>3 DEF ClientQueueInv
<1>7. PsQueueInv'
  BY <1>1, <1>4 DEF PsQueueInv
<1>8. StagesInv'
  BY <1>1, <1>2, <1>3, <1>4 DEF StagesInv, Orphans
<1>9. RelayInv'
  BY <1>3 DEF RelayInv, Busy
<1>10. ServingInv'
  BY <1>1, <1>4 DEF ServingInv
<1>11. AnswersInv'
  BY <1>1, <1>2, <1>3, <1>4 DEF AnswersInv, Own, Name, Right, AnswerEnded, Orphans
<1>12. OpenInv'
  BY <1>1, <1>3, <1>4 DEF OpenInv, InitiatorOpen, Orphans
<1>13. DeathNeedsTheServer'
  BY DEF DeathNeedsTheServer, CloseThrows
<1>14. QED
  BY <1>5, <1>6, <1>7, <1>8, <1>9, <1>10, <1>11, <1>12, <1>13 DEF IInv

(* A datagram only sets ps_ip.                                               *)
LEMMA LearnPsStep ==
    ASSUME IInv, TypeOK', LearnPs, UNCHANGED <<clientVars, serverVars>>
    PROVE  IInv'
<1>1. /\ TypeOK /\ ClientsInv /\ ClientQueueInv /\ PsQueueInv /\ StagesInv
      /\ RelayInv /\ ServingInv /\ AnswersInv /\ OpenInv /\ DeathNeedsTheServer
  BY DEF IInv
<1>2. Typed /\ Typed'
  BY <1>1, TypedFacts
<1>3. UNCHANGED <<conn, link, clientQueue, psQueue, cpc, shown, ipc, cur,
                  request_buff, request, ps_answer, spc, serving, a,
                  test_case>>
  BY DEF LearnPs, socketVars, clientVars, serverVars
<1>4. ClientsInv'
  BY <1>1, <1>2, <1>3 DEF ClientsInv
<1>5. ClientQueueInv'
  BY <1>1, <1>2, <1>3 DEF ClientQueueInv
<1>6. PsQueueInv'
  BY <1>1, <1>2, <1>3 DEF PsQueueInv
<1>7. StagesInv'
  BY <1>1, <1>2, <1>3 DEF StagesInv
<1>8. RelayInv'
  BY <1>1, <1>2, <1>3 DEF RelayInv, Busy, Own, Name, Right
<1>9. ServingInv'
  BY <1>1, <1>2, <1>3 DEF ServingInv
<1>10. AnswersInv'
  BY <1>1, <1>2, <1>3 DEF AnswersInv, Own, Name, Right
<1>11. OpenInv'
  BY <1>1, <1>2, <1>3 DEF OpenInv, InitiatorOpen
<1>12. DeathNeedsTheServer'
  BY <1>1, <1>2, <1>3 DEF DeathNeedsTheServer
<1>13. QED
  BY <1>4, <1>5, <1>6, <1>7, <1>8, <1>9, <1>10, <1>11, <1>12 DEF IInv

(* SIGINT ends the intermediate.                                             *)
LEMMA InterStopStep ==
    ASSUME IInv, TypeOK', InterStop, UNCHANGED <<clientVars, serverVars>>
    PROVE  IInv'
<1>1. /\ TypeOK /\ ClientsInv /\ ClientQueueInv /\ PsQueueInv /\ StagesInv
      /\ RelayInv /\ ServingInv /\ AnswersInv /\ OpenInv /\ DeathNeedsTheServer
  BY DEF IInv
<1>2. Typed /\ Typed'
  BY <1>1, TypedFacts
<1>3. /\ ipc' = "stopped" /\ clientQueue' = <<>> /\ Orphans(conn, conn')
      /\ \A d \in Clients :
            /\ link'[d].st = link[d].st /\ link'[d].up = link[d].up
            /\ link'[d].down = link[d].down
            /\ link'[d].ahup = link[d].ahup /\ (link[d].ihup => link'[d].ihup)
            /\ link[d].st = "none" => link'[d].ihup = link[d].ihup
            /\ ~InitiatorOpen(link'[d])
  <2>1. ipc' = "stopped" /\ clientQueue' = <<>> /\ conn' = [c \in Clients |-> Orphaned(conn[c])]
    BY DEF InterStop
  <2>2. Orphans(conn, conn')
    BY <1>2, <2>1, OrphansOf DEF Typed, ConnType
  <2>3. \A d \in Clients :
            /\ link[d] \in Connection(Seq(Words \cup {JUNK}), Seq(Blocks))
            /\ link'[d] = IF InitiatorOpen(link[d]) THEN [link[d] EXCEPT !.ihup = TRUE] ELSE link[d]
    BY <1>2 DEF InterStop, Typed, LinkType
  <2>4. \A d \in Clients :
            /\ link'[d].st = link[d].st /\ link'[d].up = link[d].up
            /\ link'[d].down = link[d].down
            /\ link'[d].ahup = link[d].ahup /\ (link[d].ihup => link'[d].ihup)
            /\ link[d].st = "none" => link'[d].ihup = link[d].ihup
            /\ ~InitiatorOpen(link'[d])
    BY <2>3 DEF Connection, InitiatorOpen
  <2>5. QED
    BY <2>1, <2>2, <2>4
<1>4. UNCHANGED <<psQueue, cur, cpc, shown, request_buff, request, ps_answer,
                  spc, serving, a, test_case>>
  BY DEF InterStop, clientVars, serverVars
<1>5. ClientsInv'
  BY <1>1, <1>2, <1>3, <1>4 DEF ClientsInv, Orphans
<1>6. ClientQueueInv'
  BY <1>1, <1>2, <1>3, <1>4 DEF ClientQueueInv
<1>7. PsQueueInv'
  BY <1>1, <1>2, <1>3, <1>4 DEF PsQueueInv, Typed
<1>8. StagesInv'
  BY <1>1, <1>2, <1>3, <1>4 DEF StagesInv, Orphans
<1>9. RelayInv'
  BY <1>1, <1>2, <1>3, <1>4 DEF RelayInv, Busy, Own, Name, Right
<1>10. ServingInv'
  BY <1>1, <1>2, <1>3, <1>4 DEF ServingInv, Typed
<1>11. AnswersInv'
  BY <1>1, <1>2, <1>3, <1>4 DEF AnswersInv, Own, Name, Right, AnswerEnded, Orphans
<1>12. OpenInv'
  BY <1>3 DEF OpenInv, Orphans
<1>13. DeathNeedsTheServer'
  BY <1>1, <1>2, <1>3, <1>4 DEF DeathNeedsTheServer
<1>14. QED
  BY <1>5, <1>6, <1>7, <1>8, <1>9, <1>10, <1>11, <1>12, <1>13 DEF IInv

(* The pieces server takes the next connection.                              *)
LEMMA AcceptIntermediateStep ==
    ASSUME IInv, TypeOK', AcceptIntermediate, UNCHANGED <<clientVars, interVars>>
    PROVE  IInv'
<1>1. /\ TypeOK /\ ClientsInv /\ ClientQueueInv /\ PsQueueInv /\ StagesInv
      /\ RelayInv /\ ServingInv /\ AnswersInv /\ OpenInv /\ DeathNeedsTheServer
  BY DEF IInv
<1>2. Typed /\ Typed'
  BY <1>1, TypedFacts
<1>3. psQueue # <<>> /\ serving' = Head(psQueue) /\ psQueue' = Tail(psQueue)
      /\ spc = "accept" /\ spc' = "read" /\ link' = [link EXCEPT ![serving'].st = "accepted"]
  BY DEF AcceptIntermediate
<1>4. /\ serving' = psQueue[1] /\ Len(psQueue) \in Nat \ {0} /\ Len(psQueue') = Len(psQueue) - 1
      /\ \A i \in 1..Len(psQueue') : /\ psQueue'[i] = psQueue[i + 1]
                                     /\ i + 1 \in 1..Len(psQueue) /\ psQueue[i + 1] \in Clients
  BY <1>2, <1>3, QueueTail DEF Typed
<1>5. /\ link[serving'].st = "queued"
      /\ \A i \in 1..Len(psQueue') : psQueue'[i] # serving'
  BY <1>1, <1>4 DEF PsQueueInv
<1>6. /\ \A d \in Clients \ {serving'} : link'[d] = link[d]
      /\ link'[serving'].st = "accepted"
      /\ link'[serving'].up = link[serving'].up
      /\ link'[serving'].got = link[serving'].got
      /\ link'[serving'].down = link[serving'].down
      /\ link'[serving'].ihup = link[serving'].ihup
      /\ link'[serving'].ahup = link[serving'].ahup
  BY <1>2, <1>3, UpdateSt DEF Typed, LinkType
<1>7. UNCHANGED <<conn, clientQueue, cpc, shown, ipc, cur, request_buff,
                  request, ps_answer, test_case>>
  BY DEF AcceptIntermediate, clientVars, interVars
<1>8. ClientsInv'
  BY <1>1, <1>2, <1>3, <1>4, <1>5, <1>6, <1>7 DEF ClientsInv
<1>9. ClientQueueInv'
  BY <1>1, <1>2, <1>3, <1>4, <1>5, <1>6, <1>7 DEF ClientQueueInv
<1>10. PsQueueInv'
  BY <1>1, <1>2, <1>3, <1>4, <1>5, <1>6, <1>7 DEF PsQueueInv
<1>11. StagesInv'
  BY <1>1, <1>2, <1>3, <1>4, <1>5, <1>6, <1>7 DEF StagesInv
<1>12. RelayInv'
  BY <1>1, <1>2, <1>3, <1>4, <1>5, <1>6, <1>7
     DEF RelayInv, Busy, Own, Name, Right, AnswerEnded
<1>13. ServingInv'
  BY <1>1, <1>2, <1>3, <1>4, <1>5, <1>6, <1>7 DEF ServingInv, Typed, StagesInv
<1>14. AnswersInv'
  BY <1>1, <1>2, <1>3, <1>4, <1>5, <1>6, <1>7 DEF AnswersInv, Own, Name, Right, AnswerEnded
<1>15. OpenInv'
  BY <1>1, <1>2, <1>3, <1>4, <1>5, <1>6, <1>7 DEF OpenInv, InitiatorOpen
<1>16. DeathNeedsTheServer'
  BY <1>1, <1>2, <1>3, <1>4, <1>5, <1>6, <1>7 DEF DeathNeedsTheServer
<1>17. QED
  BY <1>8, <1>9, <1>10, <1>11, <1>12, <1>13, <1>14, <1>15, <1>16 DEF IInv

(* The pieces server reads the request.                                      *)
LEMMA ReadIntermediateStep ==
    ASSUME IInv, TypeOK', ReadIntermediate, UNCHANGED <<clientVars, interVars>>
    PROVE  IInv'
<1>1. /\ TypeOK /\ ClientsInv /\ ClientQueueInv /\ PsQueueInv /\ StagesInv
      /\ RelayInv /\ ServingInv /\ AnswersInv /\ OpenInv /\ DeathNeedsTheServer
  BY DEF IInv
<1>2. Typed /\ Typed'
  BY <1>1, TypedFacts
<1>3. /\ \A d \in Clients \ {serving} : link'[d] = link[d]
      /\ link'[serving].st = link[serving].st /\ link'[serving].up = link[serving].up
      /\ link'[serving].down = link[serving].down
      /\ link'[serving].ihup = link[serving].ihup
      /\ link'[serving].ahup = link[serving].ahup
  <2>1. link' = [link EXCEPT ![serving].got = TRUE]
    BY DEF ReadIntermediate
  <2>2. QED
    BY <1>2, <2>1, UpdateGot DEF Typed, LinkType
<1>4. spc = "read" /\ spc' = "respond" /\ a' = link[serving].up
      /\ (link[serving].up # <<>> \/ link[serving].ihup)
  BY DEF ReadIntermediate, RequestEnded
<1>5. UNCHANGED <<conn, clientQueue, psQueue, serving, cpc, shown, ipc, cur,
                  request_buff, request, ps_answer, test_case>>
  BY DEF ReadIntermediate, clientVars, interVars
<1>6. ClientsInv'
  BY <1>1, <1>2, <1>3, <1>4, <1>5 DEF ClientsInv
<1>7. ClientQueueInv'
  BY <1>1, <1>2, <1>3, <1>4, <1>5 DEF ClientQueueInv
<1>8. PsQueueInv'
  BY <1>1, <1>2, <1>3, <1>4, <1>5 DEF PsQueueInv, Typed
<1>9. StagesInv'
  BY <1>1, <1>2, <1>3, <1>4, <1>5 DEF StagesInv
<1>10. RelayInv'
  BY <1>1, <1>2, <1>3, <1>4, <1>5 DEF RelayInv, Busy, Own, Name, Right, AnswerEnded, Typed
<1>11. ServingInv'
  BY <1>1, <1>2, <1>3, <1>4, <1>5 DEF ServingInv
<1>12. AnswersInv'
  BY <1>1, <1>2, <1>3, <1>4, <1>5 DEF AnswersInv, Own, Name, Right, AnswerEnded
<1>13. OpenInv'
  BY <1>1, <1>2, <1>3, <1>4, <1>5 DEF OpenInv, InitiatorOpen
<1>14. DeathNeedsTheServer'
  BY <1>1, <1>2, <1>3, <1>4, <1>5 DEF DeathNeedsTheServer
<1>15. QED
  BY <1>6, <1>7, <1>8, <1>9, <1>10, <1>11, <1>12, <1>13, <1>14 DEF IInv

(* The pieces server answers, or dies of the file.                           *)
LEMMA RespondFigureStep ==
    ASSUME IInv, TypeOK', RespondFigure, UNCHANGED <<clientVars, interVars>>
    PROVE  IInv'
<1>1. /\ TypeOK /\ ClientsInv /\ ClientQueueInv /\ PsQueueInv /\ StagesInv
      /\ RelayInv /\ ServingInv /\ AnswersInv /\ OpenInv /\ DeathNeedsTheServer
  BY DEF IInv
<1>2. Typed /\ Typed'
  BY <1>1, TypedFacts
<1>3. /\ spc = "respond" /\ spc' = "accept"
      /\ \/ /\ \A d \in Clients \ {serving} : link'[d] = link[d]
            /\ link'[serving].down = Response(formatRequest(a))
            /\ link'[serving].ahup = TRUE
            /\ link'[serving].st = link[serving].st /\ link'[serving].up = link[serving].up
            /\ link'[serving].ihup = link[serving].ihup
            /\ psQueue' = psQueue
         \/ Orphans(link, link') /\ psQueue' = <<>>
  <2>1. CASE /\ link' = [link EXCEPT ![serving] = Answered(@, Response(formatRequest(a)))]
             /\ psQueue' = psQueue
    <3>1. link \in [Clients -> Connection(Seq(Words \cup {JUNK}), Seq(Blocks))] /\ serving \in Clients
      BY <1>2 DEF Typed, LinkType
    <3>2. /\ \A d \in Clients \ {serving} : link'[d] = link[d]
          /\ link'[serving].down = Response(formatRequest(a)) /\ link'[serving].ahup = TRUE
          /\ link'[serving].st = link[serving].st /\ link'[serving].up = link[serving].up
          /\ link'[serving].ihup = link[serving].ihup
      BY <2>1, <3>1 DEF Answered, Connection
    <3>3. QED
      BY <2>1, <3>2 DEF RespondFigure
  <2>2. CASE link' = [c \in Clients |-> Orphaned(link[c])] /\ psQueue' = <<>>
    <3>1. Orphans(link, link')
      BY <1>2, <2>2, OrphansOf DEF Typed, LinkType
    <3>2. QED
      BY <2>2, <3>1 DEF RespondFigure
  <2>3. QED
    BY <2>1, <2>2 DEF RespondFigure, ServerGone
<1>4. UNCHANGED <<conn, clientQueue, serving, a, cpc, shown, ipc, cur,
                  request_buff, request, ps_answer, test_case>>
  BY DEF RespondFigure, clientVars, interVars
<1>5. Response(formatRequest(a)) # <<>>
  BY ResponseType
<1>6. ClientsInv'
  BY <1>1, <1>2, <1>3, <1>4, <1>5 DEF ClientsInv, Typed, Orphans
<1>7. ClientQueueInv'
  BY <1>1, <1>2, <1>3, <1>4, <1>5 DEF ClientQueueInv
<1>8. PsQueueInv'
  BY <1>1, <1>2, <1>3, <1>4, <1>5 DEF PsQueueInv, Typed
<1>9. StagesInv'
  BY <1>1, <1>2, <1>3, <1>4, <1>5 DEF StagesInv, Typed, ServingInv, Orphans
<1>10. RelayInv'
  BY <1>1, <1>2, <1>3, <1>4, <1>5
     DEF RelayInv, Busy, Own, Name, Right, AnswerEnded, Typed, ServingInv, Orphans
<1>11. ServingInv'
  BY <1>1, <1>2, <1>3, <1>4, <1>5 DEF ServingInv
<1>12. AnswersInv'
  BY <1>1, <1>2, <1>3, <1>4, <1>5
     DEF AnswersInv, Own, Name, Right, AnswerEnded, Typed, ServingInv, Orphans
<1>13. OpenInv'
  BY <1>1, <1>2, <1>3, <1>4, <1>5 DEF OpenInv, InitiatorOpen, Busy, Typed, Orphans
<1>14. DeathNeedsTheServer'
  BY <1>1, <1>2, <1>3, <1>4, <1>5 DEF DeathNeedsTheServer, Orphans
<1>15. QED
  BY <1>6, <1>7, <1>8, <1>9, <1>10, <1>11, <1>12, <1>13, <1>14 DEF IInv

(* SIGINT ends the pieces server.                                            *)
LEMMA ServerStopStep ==
    ASSUME IInv, TypeOK', ServerStop, UNCHANGED <<clientVars, interVars>>
    PROVE  IInv'
<1>1. /\ TypeOK /\ ClientsInv /\ ClientQueueInv /\ PsQueueInv /\ StagesInv
      /\ RelayInv /\ ServingInv /\ AnswersInv /\ OpenInv /\ DeathNeedsTheServer
  BY DEF IInv
<1>2. Typed /\ Typed'
  BY <1>1, TypedFacts
<1>3. spc' = "accept" /\ psQueue' = <<>> /\ Orphans(link, link')
  <2>1. spc' = "accept" /\ psQueue' = <<>> /\ link' = [c \in Clients |-> Orphaned(link[c])]
    BY DEF ServerStop, ServerGone
  <2>2. QED
    BY <1>2, <2>1, OrphansOf DEF Typed, LinkType
<1>4. UNCHANGED <<conn, clientQueue, serving, a, cpc, shown, ipc, cur,
                  request_buff, request, ps_answer, test_case>>
  BY DEF ServerStop, clientVars, interVars
<1>5. ClientsInv'
  BY <1>1, <1>2, <1>3, <1>4 DEF ClientsInv, Orphans
<1>6. ClientQueueInv'
  BY <1>1, <1>2, <1>3, <1>4 DEF ClientQueueInv
<1>7. PsQueueInv'
  BY <1>1, <1>2, <1>3, <1>4 DEF PsQueueInv
<1>8. StagesInv'
  BY <1>1, <1>2, <1>3, <1>4 DEF StagesInv, Orphans
<1>9. RelayInv'
  BY <1>1, <1>2, <1>3, <1>4
     DEF RelayInv, Busy, Own, Name, Right, AnswerEnded, Typed, Orphans
<1>10. ServingInv'
  BY <1>1, <1>2, <1>3, <1>4 DEF ServingInv
<1>11. AnswersInv'
  BY <1>1, <1>2, <1>3, <1>4 DEF AnswersInv, Own, Name, Right, AnswerEnded, Orphans
<1>12. OpenInv'
  BY <1>1, <1>2, <1>3, <1>4 DEF OpenInv, InitiatorOpen, Busy, Orphans
<1>13. DeathNeedsTheServer'
  BY <1>1, <1>2, <1>3, <1>4 DEF DeathNeedsTheServer, Orphans
<1>14. QED
  BY <1>5, <1>6, <1>7, <1>8, <1>9, <1>10, <1>11, <1>12, <1>13 DEF IInv

(* The pieces server is started again.                                       *)
LEMMA ServerStartStep ==
    ASSUME IInv, TypeOK', ServerStart, UNCHANGED <<clientVars, interVars>>
    PROVE  IInv'
<1>1. /\ TypeOK /\ ClientsInv /\ ClientQueueInv /\ PsQueueInv /\ StagesInv
      /\ RelayInv /\ ServingInv /\ AnswersInv /\ OpenInv /\ DeathNeedsTheServer
  BY DEF IInv
<1>2. Typed /\ Typed'
  BY <1>1, TypedFacts
<1>3. spc' = "accept"
  BY DEF ServerStart
<1>4. UNCHANGED <<conn, link, clientQueue, psQueue, serving, a, cpc, shown,
                  ipc, cur, request_buff, request, ps_answer, test_case>>
  BY DEF ServerStart, clientVars, interVars
<1>5. ClientsInv'
  BY <1>1, <1>2, <1>3, <1>4 DEF ClientsInv
<1>6. ClientQueueInv'
  BY <1>1, <1>2, <1>3, <1>4 DEF ClientQueueInv
<1>7. PsQueueInv'
  BY <1>1, <1>2, <1>3, <1>4 DEF PsQueueInv
<1>8. StagesInv'
  BY <1>1, <1>2, <1>3, <1>4 DEF StagesInv
<1>9. RelayInv'
  BY <1>1, <1>2, <1>3, <1>4 DEF RelayInv, Busy, Own, Name, Right
<1>10. ServingInv'
  BY <1>1, <1>2, <1>3, <1>4 DEF ServingInv
<1>11. AnswersInv'
  BY <1>1, <1>2, <1>3, <1>4 DEF AnswersInv, Own, Name, Right
<1>12. OpenInv'
  BY <1>1, <1>2, <1>3, <1>4 DEF OpenInv, InitiatorOpen
<1>13. DeathNeedsTheServer'
  BY <1>1, <1>2, <1>3, <1>4 DEF DeathNeedsTheServer
<1>14. QED
  BY <1>5, <1>6, <1>7, <1>8, <1>9, <1>10, <1>11, <1>12, <1>13 DEF IInv
=============================================================================
