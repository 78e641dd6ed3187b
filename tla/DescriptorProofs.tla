-------------------------- MODULE DescriptorProofs --------------------------
(***************************************************************************)
(* Proofs about Descriptors for a table of any size and any number of      *)
(* turns.  The inductive invariant says who may hold each kind of slot     *)
(* (Owners, hit or not), which program a place belongs to (Places), what   *)
(* every thread still finds behind its numbers as long as nothing was hit  *)
(* (Clean), how many numbers have then been lost (Counted), and that only  *)
(* this loss fills the table (Filled).                                     *)
(***************************************************************************)
EXTENDS Descriptors, FiniteSetTheorems, WellFoundedInduction, TLAPS

PsTurn == {"spare", "connect", "psWrite", "psRead", "psReading", "psClose"}
FileTurn == {"decode", "closeFile"}
ClientTurn == PsTurn \cup FileTurn
                  \cup {"read", "reading", "stuck", "dispatch", "s_ps", "open", "write", "close"}

Owner(n) ==
    /\ fd[n][1] = "free" => fd[n] = Free
    /\ fd[n][1] = "listen" => n = l /\ tpc # "start"
    /\ fd[n][1] = "udp" => n = u /\ dpc # "start"
    /\ fd[n][1] = "client" =>
        \/ program = "testcase"
        \/ n = c /\ fd[n][2] = turns /\ tpc \in ClientTurn
    /\ fd[n][1] = "ps" => n = p /\ tpc \in PsTurn
    /\ fd[n][1] = "spare" => program = "intermediate"
    /\ fd[n][1] = "file" => n = f /\ tpc \in FileTurn
    /\ fd[n][1] = "cast" => n = d /\ dpc \in {"send", "close"}
    /\ fd[n][1] = "farewell" => n = e /\ mpc \in {"send", "close"}
Owners == \A n \in Numbers : Owner(n)

Places ==
    /\ tpc \in PsTurn \cup {"s_ps"} => program = "intermediate"
    /\ tpc \in FileTurn \cup {"open"} => program = "pieces"
    /\ tpc \in {"write", "close"} => program # "testcase"
    /\ program = "pieces" => end # "full"
    /\ AnswersItsClient

Untouched ==
    /\ end # "exception" /\ tpc # "stuck" /\ ~stray
    /\ sent \in {Nowhere, <<<<"client", turns>>, "right">>}
    /\ page = "right"
    /\ tpc # "start" => fd[l] = <<"listen", 0>>
    /\ tpc \in ClientTurn => fd[c] = <<"client", turns>>
    /\ tpc \in PsTurn => fd[p] = <<"ps", turns>>
    /\ tpc \in FileTurn => fd[f] = <<"file", turns>>
    /\ dpc # "start" => fd[u] = <<"udp", 0>>
    /\ dpc \in {"send", "close"} => fd[d] = <<"cast", 0>>
    /\ mpc \in {"send", "close"} => fd[e] = <<"farewell", 0>>
Clean == ~hit => Untouched

Spares == OfKind("spare")
Connections == OfKind("client")
Counted ==
    ~hit =>
        /\ Cardinality(Spares) = relayed
        /\ program = "testcase" => Cardinality(Connections) = turns

Filled == ~hit /\ end = "full" => FullOfLeaks

IInv == TypeOK /\ Owners /\ Places /\ Clean /\ Counted /\ Filled
-----------------------------------------------------------------------------
\* The table has a lowest free number unless it is full.
LEMMA LowestFree ==
    ASSUME fd \in [Numbers -> Slots], ~Full
    PROVE  Lowest \in Numbers /\ fd[Lowest] = Free
<1> DEFINE F == {n \in Numbers : fd[n] = Free}
<1>1. F # {} /\ F \subseteq Nat
  BY LimitAssumption DEF Full, Used, Numbers
<1>2. IsWellFoundedOn(OpToRel(<, Nat), Nat)
  BY NatLessThanWellFounded
<1>3. PICK n \in F : \A m \in F : ~(<<m, n>> \in OpToRel(<, Nat))
  <2> HIDE DEF F
  <2> QED BY <1>1, <1>2, WFMin
<1>4. \A m \in F : ~(m < n)
  BY <1>1, <1>3 DEF OpToRel
<1>5. n \in 0..(Limit - 1) /\ fd[n] = Free
  BY <1>3 DEF Numbers
<1>6. \A m \in 0..(n - 1) : m \in Numbers /\ m < n
  BY <1>5, LimitAssumption DEF Numbers
<1>7. \A m \in 0..(n - 1) : fd[m] # Free
  BY <1>4, <1>6
<1> QED BY <1>3, <1>7 DEF Lowest

\* What socket(), accept() and open() do to the table.
LEMMA OpenedSlot ==
    ASSUME fd \in [Numbers -> Slots], NEW slot \in Slots, Opened(slot)
    PROVE  /\ Lowest \in Numbers /\ fd[Lowest] = Free
           /\ fd' \in [Numbers -> Slots]
           /\ fd'[Lowest] = slot
           /\ \A n \in Numbers : n # Lowest => fd'[n] = fd[n]
<1>1. Lowest \in Numbers /\ fd[Lowest] = Free
  BY LowestFree DEF Opened
<1>2. fd' = [fd EXCEPT ![Lowest] = slot]
  BY DEF Opened
<1> HIDE DEF Lowest, Slots
<1> QED BY <1>1, <1>2

\* What Close does to it.
LEMMA ClosedSlot ==
    ASSUME fd \in [Numbers -> Slots], NEW n \in Numbers, fd' = [fd EXCEPT ![n] = Free]
    PROVE  /\ fd' \in [Numbers -> Slots]
           /\ fd'[n] = Free
           /\ \A m \in Numbers : m # n => fd'[m] = fd[m]
<1>1. Free \in Slots
  BY TurnsAssumption DEF Free, Slots, Kinds
<1> HIDE DEF Slots
<1> QED BY <1>1

\* The slots the programs open are slots.
LEMMA OpenedKinds ==
    ASSUME TypeOK
    PROVE  /\ <<"listen", 0>> \in Slots /\ <<"udp", 0>> \in Slots /\ <<"cast", 0>> \in Slots
           /\ <<"farewell", 0>> \in Slots
           /\ <<"ps", turns>> \in Slots /\ <<"spare", 0>> \in Slots
           /\ <<"file", turns>> \in Slots /\ Free \in Slots
           /\ turns < MaxTurns => <<"client", turns + 1>> \in Slots
<1>0. turns \in 0..MaxTurns
  BY DEF TypeOK
<1>1. 0 \in 0..MaxTurns /\ turns \in 0..MaxTurns
  BY <1>0, TurnsAssumption
<1>2. turns < MaxTurns => turns + 1 \in 0..MaxTurns
  BY <1>1, TurnsAssumption
<1>3. {"listen", "udp", "cast", "farewell", "ps", "spare", "file", "free", "client"} \subseteq Kinds
  BY DEF Kinds
<1>4. \A k \in Kinds : \A n \in 0..MaxTurns : <<k, n>> \in Slots
  BY DEF Slots
<1> QED BY <1>1, <1>2, <1>3, <1>4 DEF Free
-----------------------------------------------------------------------------
\* The program starts with a table of free numbers.
LEMMA InitTypes == Init => TypeOK
<1> SUFFICES ASSUME Init PROVE TypeOK
  OBVIOUS
<1>1. NoNumber \in Numbers /\ 0 \in 0..MaxTurns
  BY LimitAssumption, TurnsAssumption DEF NoNumber, Numbers
<1>2. Free \in Slots
  BY <1>1 DEF Free, Slots, Kinds
<1>3. fd \in [Numbers -> Slots] /\ sent \in Slots \X {"right", "wrong"}
  BY <1>2 DEF Init, Nowhere
<1>4. turns = 0 /\ relayed = 0
  BY DEF Init
<1>5. turns \in 0..MaxTurns /\ relayed \in Nat
  BY <1>1, <1>4
<1> QED BY <1>1, <1>3, <1>5 DEF Init, TypeOK

\* The serving thread keeps the types.
LEMMA ServeTypes == TypeOK /\ Serve => TypeOK'
<1> SUFFICES ASSUME TypeOK, Serve PROVE TypeOK'
  OBVIOUS
<1>1. CASE OpenListener
  <2>1. Opened(<<"listen", 0>>) => Lowest \in Numbers /\ fd' \in [Numbers -> Slots]
    BY <1>1, OpenedKinds, OpenedSlot DEF TypeOK, OpenListener
  <2> QED BY <1>1, <2>1 DEF TypeOK, OpenListener, NoneLeft, Nowhere, Serving,
      Receiving, count, numbers, casts, server, Die
<1>2. CASE Listen
  BY <1>2 DEF TypeOK, Listen, Serving, Receiving, count, numbers, casts, server,
      Die
<1>3. CASE EnterAccept
  BY <1>3 DEF TypeOK, EnterAccept, Serving, Receiving, count, numbers, casts,
      server, Die
<1>4. CASE Accept
  <2>1. turns < MaxTurns /\ Opened(<<"client", turns + 1>>)
          => Lowest \in Numbers /\ fd' \in [Numbers -> Slots]
    BY <1>4, OpenedKinds, OpenedSlot DEF TypeOK, Accept
  <2>a. turns \in 0..MaxTurns /\ (turns' = turns \/ (turns < MaxTurns /\ turns' = turns + 1))
    BY <1>4 DEF TypeOK, Accept
  <2>2. turns' \in 0..MaxTurns
    BY <2>a, TurnsAssumption
  <2>b. Nowhere \in Slots \X {"right", "wrong"}
    BY OpenedKinds DEF Nowhere
  <2>3. sent' \in Slots \X {"right", "wrong"}
    BY <1>4, <2>b DEF TypeOK, Accept
  <2>4. c' \in Numbers /\ fd' \in [Numbers -> Slots]
    BY <1>4, <2>1 DEF TypeOK, Accept, NoneLeft
  <2>5. tpc' \in {tpc, "read"} /\ end' \in {end, "full"} /\ page' \in {page, "right"}
    BY <1>4 DEF Accept, NoneLeft, Die
  <2> QED BY <1>4, <2>2, <2>3, <2>4, <2>5 DEF TypeOK, Accept, casts
<1>5. CASE EnterRead
  BY <1>5 DEF TypeOK, EnterRead, Serving, Receiving, count, numbers, casts,
      server, Die
<1>6. CASE Read
  BY <1>6 DEF TypeOK, Read, Serving, Receiving, count, numbers, casts, server, Die
<1>7. CASE Dispatch
  BY <1>7 DEF TypeOK, Dispatch, Serving, Receiving, count, numbers, casts,
      server, Die
<1>8. CASE OpenPs
  <2>1. Opened(<<"ps", turns>>) => Lowest \in Numbers /\ fd' \in [Numbers -> Slots]
    BY <1>8, OpenedKinds, OpenedSlot DEF TypeOK, OpenPs
  <2> QED BY <1>8, <2>1 DEF TypeOK, OpenPs, NoneLeft, Nowhere, Serving, Receiving,
      count, numbers, casts, server, Die
<1>9. CASE OpenSpare
  <2>1. Opened(<<"spare", 0>>) => Lowest \in Numbers /\ fd' \in [Numbers -> Slots]
    BY <1>9, OpenedKinds, OpenedSlot DEF TypeOK, OpenSpare
  <2>a. relayed \in Nat /\ relayed' \in {relayed, relayed + 1}
    BY <1>9 DEF TypeOK, OpenSpare
  <2>2. relayed' \in Nat
    BY <2>a
  <2>3. fd' \in [Numbers -> Slots]
    BY <1>9, <2>1 DEF TypeOK, OpenSpare, NoneLeft
  <2>4. tpc' \in {tpc, "connect"} /\ end' \in {end, "full"}
    BY <1>9 DEF OpenSpare, NoneLeft, Die
  <2>5. UNCHANGED <<program, l, c, p, f, u, d, e, turns, page, sent, known, hit, stray, dpc, mpc>>
    BY <1>9 DEF OpenSpare, casts, numbers
  <2> QED BY <2>2, <2>3, <2>4, <2>5 DEF TypeOK
<1>10. CASE Connect
  <2>1. fd' \in [Numbers -> Slots]
    BY <1>10, OpenedKinds DEF TypeOK, Connect
  <2> QED BY <1>10, <2>1 DEF TypeOK, Connect, Serving, Receiving, count, numbers,
      casts, server, Die
<1>11. CASE PsWrite
  BY <1>11 DEF TypeOK, PsWrite, Serving, Receiving, count, numbers, casts,
      server, Die
<1>12. CASE EnterPsRead
  BY <1>12 DEF TypeOK, EnterPsRead, Serving, Receiving, count, numbers, casts,
      server, Die
<1>13. CASE PsRead
  BY <1>13 DEF TypeOK, PsRead, Serving, Receiving, count, numbers, casts,
      server, Die
<1>14. CASE PsClose
  <2>1. fd' = [fd EXCEPT ![p] = Free] /\ p \in Numbers
    BY <1>14 DEF TypeOK, PsClose, Close
  <2>2. fd' \in [Numbers -> Slots]
    BY <2>1, ClosedSlot DEF TypeOK
  <2> QED BY <1>14, <2>2 DEF TypeOK, PsClose, Close, Serving, Receiving, count,
      numbers, casts, server, Die
<1>15. CASE OpenFile
  <2>1. Opened(<<"file", turns>>) => Lowest \in Numbers /\ fd' \in [Numbers -> Slots]
    BY <1>15, OpenedKinds, OpenedSlot DEF TypeOK, OpenFile
  <2> QED BY <1>15, <2>1 DEF TypeOK, OpenFile, NoneLeft, Nowhere, Serving,
      Receiving, count, numbers, casts, server, Die
<1>16. CASE Decode
  BY <1>16 DEF TypeOK, Decode, Serving, Receiving, count, numbers, casts,
      server, Die
<1>17. CASE CloseFile
  <2>1. fd' = [fd EXCEPT ![f] = Free] /\ f \in Numbers
    BY <1>17 DEF TypeOK, CloseFile, Close
  <2>2. fd' \in [Numbers -> Slots]
    BY <2>1, ClosedSlot DEF TypeOK
  <2> QED BY <1>17, <2>2 DEF TypeOK, CloseFile, Close, Serving, Receiving, count,
      numbers, casts, server, Die
<1>18. CASE Write
  <2>1. fd[c] \in Slots /\ page \in {"right", "wrong"}
    BY DEF TypeOK
  <2>a. sent' \in {sent, <<fd[c], page>>} /\ sent \in Slots \X {"right", "wrong"}
    BY <1>18 DEF TypeOK, Write
  <2>2. sent' \in Slots \X {"right", "wrong"}
    BY <2>1, <2>a
  <2> QED BY <1>18, <2>2 DEF TypeOK, Write, Serving, Receiving, count, numbers,
      casts, server, Die
<1>19. CASE CloseClient
  <2>1. fd' = [fd EXCEPT ![c] = Free] /\ c \in Numbers
    BY <1>19 DEF TypeOK, CloseClient, Close
  <2>2. fd' \in [Numbers -> Slots]
    BY <2>1, ClosedSlot DEF TypeOK
  <2> QED BY <1>19, <2>2 DEF TypeOK, CloseClient, Close, Serving, Receiving, count,
      numbers, casts, server, Die
<1> QED BY <1>1, <1>2, <1>3, <1>4, <1>5, <1>6, <1>7, <1>8, <1>9, <1>10, <1>11,
    <1>12, <1>13, <1>14, <1>15, <1>16, <1>17, <1>18, <1>19 DEF Serve

\* So does the datagram thread.
LEMMA DatagramTypes == TypeOK /\ Datagrams => TypeOK'
<1> SUFFICES ASSUME TypeOK, Datagrams PROVE TypeOK'
  OBVIOUS
<1>1. CASE OpenDatagrams
  <2>1. Opened(<<"udp", 0>>) => Lowest \in Numbers /\ fd' \in [Numbers -> Slots]
    BY <1>1, OpenedKinds, OpenedSlot DEF TypeOK, OpenDatagrams
  <2> QED BY <1>1, <2>1 DEF TypeOK, OpenDatagrams, NoneLeft, Nowhere, Serving,
      Receiving, count, numbers, casts, server, Die
<1>2. CASE Receive
  BY <1>2 DEF TypeOK, Receive, Serving, Receiving, count, numbers, casts,
      server, Die
<1>3. CASE OpenCast
  <2>1. Opened(<<"cast", 0>>) => Lowest \in Numbers /\ fd' \in [Numbers -> Slots]
    BY <1>3, OpenedKinds, OpenedSlot DEF TypeOK, OpenCast
  <2> QED BY <1>3, <2>1 DEF TypeOK, OpenCast, NoneLeft, Nowhere, Serving, Receiving,
      count, numbers, casts, server, Die
<1>4. CASE Broadcast
  BY <1>4 DEF TypeOK, Broadcast, SendOn, Serving, Receiving, count, numbers, casts,
      server, Die
<1>5. CASE CloseCast
  <2>1. fd' = [fd EXCEPT ![d] = Free] /\ d \in Numbers
    BY <1>5 DEF TypeOK, CloseCast, Close
  <2>2. fd' \in [Numbers -> Slots]
    BY <2>1, ClosedSlot DEF TypeOK
  <2> QED BY <1>5, <2>2 DEF TypeOK, CloseCast, Close, Serving, Receiving, count,
      numbers, casts, server, Die
<1>6. CASE DeleteCast
  <2>1. fd' = [fd EXCEPT ![d] = Free] /\ d \in Numbers
    BY <1>6 DEF TypeOK, DeleteCast, Destroy, Close
  <2>2. fd' \in [Numbers -> Slots]
    BY <2>1, ClosedSlot DEF TypeOK
  <2>3. hit' \in BOOLEAN
    BY <1>6 DEF DeleteCast, Destroy
  <2>4. end' \in {end, "close"}
    BY <1>6 DEF DeleteCast, Destroy, Close
  <2> QED BY <1>6, <2>2, <2>3, <2>4 DEF TypeOK, DeleteCast, server, numbers, count
<1>7. CASE BindDatagrams
  BY <1>7 DEF TypeOK, BindDatagrams, Receiving, count, numbers, server, Die
<1> QED BY <1>1, <1>2, <1>3, <1>4, <1>5, <1>6, <1>7 DEF Datagrams

\* And the main thread.
LEMMA FarewellTypes == TypeOK /\ Farewell => TypeOK'
<1> SUFFICES ASSUME TypeOK, Farewell PROVE TypeOK'
  OBVIOUS
<1>1. CASE OpenFarewell
  <2>1. Opened(<<"farewell", 0>>) => Lowest \in Numbers /\ fd' \in [Numbers -> Slots]
    BY <1>1, OpenedKinds, OpenedSlot DEF TypeOK, OpenFarewell
  <2>2. e' \in Numbers /\ fd' \in [Numbers -> Slots]
    BY <1>1, <2>1 DEF TypeOK, OpenFarewell, NoneLeft
  <2>3. mpc' \in {mpc, "send"} /\ end' \in {end, "full"}
    BY <1>1 DEF OpenFarewell, NoneLeft, Die
  <2>4. UNCHANGED <<program, tpc, dpc, l, c, p, f, u, d, turns, relayed, page, sent, known, hit, stray>>
    BY <1>1 DEF OpenFarewell, server, numbers, count
  <2> QED BY <2>2, <2>3, <2>4 DEF TypeOK
<1>2. CASE BroadcastFarewell
  BY <1>2 DEF TypeOK, BroadcastFarewell, SendOn, Signalled, server, numbers, count, Die
<1>3. CASE CloseFarewell
  <2>1. fd' = [fd EXCEPT ![e] = Free] /\ e \in Numbers
    BY <1>3 DEF TypeOK, CloseFarewell, Close
  <2>2. fd' \in [Numbers -> Slots]
    BY <2>1, ClosedSlot DEF TypeOK
  <2> QED BY <1>3, <2>2 DEF TypeOK, CloseFarewell, Close, Signalled, server, numbers, count
<1>4. CASE DeleteFarewell
  <2>1. fd' = [fd EXCEPT ![e] = Free] /\ e \in Numbers
    BY <1>4 DEF TypeOK, DeleteFarewell, Destroy, Close
  <2>2. fd' \in [Numbers -> Slots]
    BY <2>1, ClosedSlot DEF TypeOK
  <2>3. hit' \in BOOLEAN
    BY <1>4 DEF DeleteFarewell, Destroy
  <2>4. end' \in {end, "close"}
    BY <1>4 DEF DeleteFarewell, Destroy, Close
  <2> QED BY <1>4, <2>2, <2>3, <2>4 DEF TypeOK, DeleteFarewell, server, numbers, count
<1>5. CASE Exit
  <2>1. end' = "stopped"
    BY <1>5 DEF Exit, Die
  <2>2. UNCHANGED <<program, fd, tpc, l, c, p, f, turns, relayed, page, sent, dpc, u, d, known,
                    mpc, e, hit, stray>>
    BY <1>5 DEF Exit, casts, server, numbers, count
  <2> QED BY <2>1, <2>2 DEF TypeOK
<1> QED BY <1>1, <1>2, <1>3, <1>4, <1>5 DEF Farewell

-----------------------------------------------------------------------------
\* The serving thread keeps every slot with its owner.
LEMMA ServeOwners == TypeOK /\ Owners /\ Places /\ Serve => Owners'
<1> SUFFICES ASSUME TypeOK, Owners, Places, Serve, NEW n \in Numbers
             PROVE  Owner(n)'
  BY DEF Owners
<1>a. fd \in [Numbers -> Slots] /\ l \in Numbers /\ c \in Numbers /\ p \in Numbers
      /\ f \in Numbers /\ u \in Numbers /\ d \in Numbers /\ e \in Numbers
  BY DEF TypeOK
<1>b. Owner(n)
  BY DEF Owners
<1> HIDE DEF Lowest
<1>1. CASE OpenListener
  <2>1. CASE Opened(<<"listen", 0>>)
    <3>1. /\ Lowest \in Numbers /\ fd'[Lowest] = <<"listen", 0>>
          /\ n # Lowest => fd'[n] = fd[n]
      BY <1>a, <2>1, OpenedKinds, OpenedSlot, <1>1 DEF OpenListener
    <3>2. /\ l' = Lowest /\ tpc = "start" /\ tpc' = "listen"
          /\ UNCHANGED <<program, c, p, f, turns, u, d, dpc, mpc, e>>
      BY <1>1, <2>1 DEF OpenListener, Opened, NoneLeft, Serving, Receiving, count,
          numbers, casts, server
    <3>3. CASE n = Lowest
      <4>1. fd'[n] = <<"listen", 0>> /\ fd'[n][1] = "listen"
        BY <3>1, <3>3
      <4> QED BY <4>1, <3>2, <3>3 DEF Owner, Places, PsTurn, FileTurn, ClientTurn
    <3>4. CASE n # Lowest
      BY <1>b, <3>1, <3>2, <3>4 DEF Owner, PsTurn, FileTurn, ClientTurn
    <3> QED BY <3>3, <3>4
  <2>2. CASE fd' = fd
    BY <1>b, <1>1, <2>2 DEF Owner, OpenListener, NoneLeft, PsTurn, FileTurn,
        ClientTurn, Serving, Receiving, count, numbers, casts, server
  <2> QED BY <1>1, <2>1, <2>2 DEF OpenListener, NoneLeft
<1>2. CASE Listen
  BY <1>b, <1>2 DEF Owner, Listen, PsTurn, FileTurn, ClientTurn, Serving, Receiving,
      count, numbers, casts, server
<1>3. CASE EnterAccept
  BY <1>b, <1>3 DEF Owner, EnterAccept, PsTurn, FileTurn, ClientTurn, Serving,
      Receiving, count, numbers, casts, server
<1>4. CASE Accept
  <2>1. CASE turns < MaxTurns /\ Opened(<<"client", turns + 1>>)
    <3>1. /\ Lowest \in Numbers /\ fd'[Lowest] = <<"client", turns + 1>>
          /\ n # Lowest => fd'[n] = fd[n]
      BY <1>a, <2>1, OpenedKinds, OpenedSlot, <1>4 DEF Accept
    <3>2. /\ c' = Lowest /\ tpc = "accepting" /\ tpc' = "read" /\ turns' = turns + 1
          /\ UNCHANGED <<program, l, p, f, u, d, dpc, mpc, e>>
      BY <1>4, <2>1 DEF Accept, Opened, NoneLeft, Serving, Receiving, count,
          numbers, casts, server
    <3>3. CASE n = Lowest
      <4>1. fd'[n] = <<"client", turns + 1>> /\ fd'[n][1] = "client"
        BY <3>1, <3>3
      <4>2. fd'[n][2] = turns' /\ n = c' /\ tpc' = "read"
        BY <4>1, <3>2, <3>3
      <4> QED BY <4>1, <4>2 DEF Owner, ClientTurn
    <3>4. CASE n # Lowest
      BY <1>b, <3>1, <3>2, <3>4 DEF Owner, PsTurn, FileTurn, ClientTurn
    <3> QED BY <3>3, <3>4
  <2>2. CASE fd' = fd
    BY <1>b, <1>4, <2>2 DEF Owner, Accept, NoneLeft, PsTurn, FileTurn, ClientTurn,
        Serving, Receiving, count, numbers, casts, server
  <2> QED BY <1>4, <2>1, <2>2 DEF Accept, NoneLeft
<1>5. CASE EnterRead
  BY <1>b, <1>5 DEF Owner, EnterRead, PsTurn, FileTurn, ClientTurn, Serving,
      Receiving, count, numbers, casts, server
<1>6. CASE Read
  BY <1>b, <1>6 DEF Owner, Read, PsTurn, FileTurn, ClientTurn, Serving, Receiving,
      count, numbers, casts, server
<1>7. CASE Dispatch
  BY <1>b, <1>7 DEF Owner, Dispatch, PsTurn, FileTurn, ClientTurn, Serving,
      Receiving, count, numbers, casts, server
<1>8. CASE OpenPs
  <2>1. CASE Opened(<<"ps", turns>>)
    <3>1. /\ Lowest \in Numbers /\ fd'[Lowest] = <<"ps", turns>>
          /\ n # Lowest => fd'[n] = fd[n]
      BY <1>a, <2>1, OpenedKinds, OpenedSlot, <1>8 DEF OpenPs
    <3>2. /\ p' = Lowest /\ tpc = "s_ps" /\ tpc' = "spare"
          /\ UNCHANGED <<program, l, c, f, turns, u, d, dpc, mpc, e>>
      BY <1>8, <2>1 DEF OpenPs, Opened, NoneLeft, Serving, Receiving, count,
          numbers, casts, server
    <3>3. CASE n = Lowest
      <4>1. fd'[n] = <<"ps", turns>> /\ fd'[n][1] = "ps"
        BY <3>1, <3>3
      <4> QED BY <4>1, <3>2, <3>3 DEF Owner, Places, PsTurn, FileTurn, ClientTurn
    <3>4. CASE n # Lowest
      BY <1>b, <3>1, <3>2, <3>4 DEF Owner, PsTurn, FileTurn, ClientTurn
    <3> QED BY <3>3, <3>4
  <2>2. CASE fd' = fd
    BY <1>b, <1>8, <2>2 DEF Owner, OpenPs, NoneLeft, PsTurn, FileTurn, ClientTurn,
        Serving, Receiving, count, numbers, casts, server
  <2> QED BY <1>8, <2>1, <2>2 DEF OpenPs, NoneLeft
<1>9. CASE OpenSpare
  <2>1. CASE Opened(<<"spare", 0>>)
    <3>1. /\ Lowest \in Numbers /\ fd'[Lowest] = <<"spare", 0>>
          /\ n # Lowest => fd'[n] = fd[n]
      BY <1>a, <2>1, OpenedKinds, OpenedSlot, <1>9 DEF OpenSpare
    <3>2. /\ tpc = "spare" /\ tpc' = "connect"
          /\ UNCHANGED <<program, l, c, p, f, turns, u, d, dpc, mpc, e>>
      BY <1>9, <2>1 DEF OpenSpare, Opened, NoneLeft, Serving, Receiving, count,
          numbers, casts, server
    <3>3. CASE n = Lowest
      <4>1. fd'[n] = <<"spare", 0>> /\ fd'[n][1] = "spare"
        BY <3>1, <3>3
      <4> QED BY <4>1, <3>2, <3>3 DEF Owner, Places, PsTurn, FileTurn, ClientTurn
    <3>4. CASE n # Lowest
      BY <1>b, <3>1, <3>2, <3>4 DEF Owner, PsTurn, FileTurn, ClientTurn
    <3> QED BY <3>3, <3>4
  <2>2. CASE fd' = fd
    BY <1>b, <1>9, <2>2 DEF Owner, OpenSpare, NoneLeft, PsTurn, FileTurn,
        ClientTurn, Serving, Receiving, count, numbers, casts, server
  <2> QED BY <1>9, <2>1, <2>2 DEF OpenSpare, NoneLeft
<1>10. CASE Connect
  <2>1. CASE fd' = [fd EXCEPT ![p] = <<"ps", turns>>] /\ tpc' = "psWrite"
                /\ fd[p][1] \in {"ps", "spare"}
    <3>1. fd'[p] = <<"ps", turns>> /\ (n # p => fd'[n] = fd[n])
      BY <1>a, <2>1
    <3>2. /\ tpc = "connect" /\ fd[p][1] \in {"ps", "spare"}
          /\ UNCHANGED <<program, l, c, p, f, turns, u, d, dpc, mpc, e>>
      BY <1>10, <2>1 DEF Connect, Serving, Receiving, count, numbers, casts,
          server
    <3>3. program = "intermediate"
      BY <3>2 DEF Places, PsTurn
    <3>4. CASE n = p
      BY <1>b, <2>1, <3>1, <3>2, <3>3, <3>4 DEF Owner, PsTurn, FileTurn, ClientTurn
    <3>5. CASE n # p
      BY <1>b, <2>1, <3>1, <3>2, <3>3, <3>5 DEF Owner, PsTurn, FileTurn, ClientTurn
    <3> QED BY <3>4, <3>5
  <2>2. CASE fd' = fd /\ tpc' \in {tpc, "psWrite"}
    <3>1. tpc = "connect" /\ UNCHANGED <<program, l, c, p, f, turns, u, d, dpc, mpc, e>>
      BY <1>10 DEF Connect, Serving, count, numbers, casts
    <3> QED BY <1>b, <2>2, <3>1 DEF Owner, PsTurn, FileTurn, ClientTurn
  <2> QED BY <1>10, <2>1, <2>2 DEF Connect
<1>11. CASE PsWrite
  BY <1>b, <1>11 DEF Owner, PsWrite, PsTurn, FileTurn, ClientTurn, Serving,
      Receiving, count, numbers, casts, server
<1>12. CASE EnterPsRead
  <2>1. /\ tpc = "psRead"
        /\ tpc' = "psReading" \/ tpc' = "psClose" \/ (tpc' = "stuck" /\ fd[p][1] # "ps")
        /\ UNCHANGED <<program, fd, l, c, p, f, turns, u, d, dpc, mpc, e>>
    BY <1>12 DEF EnterPsRead, Datagram, Serving, numbers, casts
  <2>2. fd[n][1] = "ps" => n = p
    BY <1>b DEF Owner
  <2> QED BY <1>b, <2>1, <2>2 DEF Owner, PsTurn, FileTurn, ClientTurn
<1>13. CASE PsRead
  BY <1>b, <1>13 DEF Owner, PsRead, PsTurn, FileTurn, ClientTurn, Serving,
      Receiving, count, numbers, casts, server
<1>14. CASE PsClose
  <2>1. fd' = [fd EXCEPT ![p] = Free]
    BY <1>14 DEF PsClose, Close
  <2>2. fd'[p] = Free /\ (n # p => fd'[n] = fd[n])
    BY <1>a, <2>1, ClosedSlot
  <2>3. Free[1] = "free"
    BY DEF Free
  <2> QED BY <1>b, <1>14, <2>2, <2>3 DEF Owner, PsClose, PsTurn, FileTurn,
      ClientTurn, Serving, Receiving, count, numbers, casts, server
<1>15. CASE OpenFile
  <2>1. CASE Opened(<<"file", turns>>) /\ tpc' = "decode"
    <3>1. /\ Lowest \in Numbers /\ fd'[Lowest] = <<"file", turns>>
          /\ n # Lowest => fd'[n] = fd[n]
      BY <1>a, <2>1, OpenedKinds, OpenedSlot, <1>15 DEF OpenFile
    <3>2. /\ f' = Lowest /\ tpc = "open" /\ tpc' = "decode"
          /\ UNCHANGED <<program, l, c, p, turns, u, d, dpc, mpc, e>>
      BY <1>15, <2>1 DEF OpenFile, Opened, NoneLeft, Serving, Receiving, count,
          numbers, casts, server
    <3>3. CASE n = Lowest
      <4>1. fd'[n] = <<"file", turns>> /\ fd'[n][1] = "file"
        BY <3>1, <3>3
      <4> QED BY <4>1, <3>2, <3>3 DEF Owner, Places, PsTurn, FileTurn, ClientTurn
    <3>4. CASE n # Lowest
      BY <1>b, <3>1, <3>2, <3>4 DEF Owner, PsTurn, FileTurn, ClientTurn
    <3> QED BY <3>3, <3>4
  <2>2. CASE fd' = fd
    BY <1>b, <1>15, <2>2 DEF Owner, OpenFile, NoneLeft, PsTurn, FileTurn,
        ClientTurn, Serving, Receiving, count, numbers, casts, server
  <2> QED BY <1>15, <2>1, <2>2 DEF OpenFile, NoneLeft
<1>16. CASE Decode
  BY <1>b, <1>16 DEF Owner, Decode, PsTurn, FileTurn, ClientTurn, Serving,
      Receiving, count, numbers, casts, server
<1>17. CASE CloseFile
  <2>1. fd' = [fd EXCEPT ![f] = Free]
    BY <1>17 DEF CloseFile, Close
  <2>2. fd'[f] = Free /\ (n # f => fd'[n] = fd[n])
    BY <1>a, <2>1, ClosedSlot
  <2>3. Free[1] = "free"
    BY DEF Free
  <2> QED BY <1>b, <1>17, <2>2, <2>3 DEF Owner, CloseFile, PsTurn, FileTurn,
      ClientTurn, Serving, Receiving, count, numbers, casts, server
<1>18. CASE Write
  BY <1>b, <1>18 DEF Owner, Write, PsTurn, FileTurn, ClientTurn, Serving, Receiving,
      count, numbers, casts, server
<1>19. CASE CloseClient
  <2>1. fd' = [fd EXCEPT ![c] = Free]
    BY <1>19 DEF CloseClient, Close
  <2>2. fd'[c] = Free /\ (n # c => fd'[n] = fd[n])
    BY <1>a, <2>1, ClosedSlot
  <2>3. Free[1] = "free"
    BY DEF Free
  <2> QED BY <1>b, <1>19, <2>2, <2>3 DEF Owner, CloseClient, PsTurn, FileTurn,
      ClientTurn, Serving, Receiving, count, numbers, casts, server
<1> QED BY <1>1, <1>2, <1>3, <1>4, <1>5, <1>6, <1>7, <1>8, <1>9, <1>10, <1>11,
    <1>12, <1>13, <1>14, <1>15, <1>16, <1>17, <1>18, <1>19 DEF Serve

\* So does the datagram thread.
LEMMA DatagramOwners == TypeOK /\ Owners /\ Places /\ Datagrams => Owners'
<1> SUFFICES ASSUME TypeOK, Owners, Places, Datagrams, NEW n \in Numbers
             PROVE  Owner(n)'
  BY DEF Owners
<1>a. fd \in [Numbers -> Slots] /\ l \in Numbers /\ c \in Numbers /\ p \in Numbers
      /\ f \in Numbers /\ u \in Numbers /\ d \in Numbers /\ e \in Numbers
  BY DEF TypeOK
<1>b. Owner(n)
  BY DEF Owners
<1> HIDE DEF Lowest
<1>1. CASE OpenDatagrams
  <2>1. CASE Opened(<<"udp", 0>>)
    <3>1. /\ Lowest \in Numbers /\ fd'[Lowest] = <<"udp", 0>>
          /\ n # Lowest => fd'[n] = fd[n]
      BY <1>a, <2>1, OpenedKinds, OpenedSlot, <1>1 DEF OpenDatagrams
    <3>2. /\ u' = Lowest /\ dpc = "start" /\ dpc' = "bind"
          /\ UNCHANGED <<program, l, c, p, f, turns, tpc, d, mpc, e>>
      BY <1>1, <2>1 DEF OpenDatagrams, Opened, NoneLeft, Serving, Receiving, count,
          numbers, casts, server
    <3>3. CASE n = Lowest
      <4>1. fd'[n] = <<"udp", 0>> /\ fd'[n][1] = "udp"
        BY <3>1, <3>3
      <4> QED BY <4>1, <3>2, <3>3 DEF Owner, Places, PsTurn, FileTurn, ClientTurn
    <3>4. CASE n # Lowest
      BY <1>b, <3>1, <3>2, <3>4 DEF Owner, PsTurn, FileTurn, ClientTurn
    <3> QED BY <3>3, <3>4
  <2>2. CASE fd' = fd
    BY <1>b, <1>1, <2>2 DEF Owner, OpenDatagrams, NoneLeft, PsTurn, FileTurn,
        ClientTurn, Serving, Receiving, count, numbers, casts, server
  <2> QED BY <1>1, <2>1, <2>2 DEF OpenDatagrams, NoneLeft
<1>2. CASE Receive
  BY <1>b, <1>2 DEF Owner, Receive, PsTurn, FileTurn, ClientTurn, Serving,
      Receiving, count, numbers, casts, server
<1>3. CASE OpenCast
  <2>1. CASE Opened(<<"cast", 0>>)
    <3>1. /\ Lowest \in Numbers /\ fd'[Lowest] = <<"cast", 0>>
          /\ n # Lowest => fd'[n] = fd[n]
      BY <1>a, <2>1, OpenedKinds, OpenedSlot, <1>3 DEF OpenCast
    <3>2. /\ d' = Lowest /\ dpc = "socket" /\ dpc' = "send"
          /\ UNCHANGED <<program, l, c, p, f, turns, u, tpc, mpc, e>>
      BY <1>3, <2>1 DEF OpenCast, Opened, NoneLeft, Serving, Receiving, count,
          numbers, casts, server
    <3>3. CASE n = Lowest
      <4>1. fd'[n] = <<"cast", 0>> /\ fd'[n][1] = "cast"
        BY <3>1, <3>3
      <4> QED BY <4>1, <3>2, <3>3 DEF Owner, Places, PsTurn, FileTurn, ClientTurn
    <3>4. CASE n # Lowest
      BY <1>b, <3>1, <3>2, <3>4 DEF Owner, PsTurn, FileTurn, ClientTurn
    <3> QED BY <3>3, <3>4
  <2>2. CASE fd' = fd
    BY <1>b, <1>3, <2>2 DEF Owner, OpenCast, NoneLeft, PsTurn, FileTurn, ClientTurn,
        Serving, Receiving, count, numbers, casts, server
  <2> QED BY <1>3, <2>1, <2>2 DEF OpenCast, NoneLeft
<1>4. CASE Broadcast
  BY <1>b, <1>4 DEF Owner, Broadcast, PsTurn, FileTurn, ClientTurn, Serving,
      Receiving, count, numbers, casts, server
<1>5. CASE CloseCast
  <2>1. fd' = [fd EXCEPT ![d] = Free]
    BY <1>5 DEF CloseCast, Close
  <2>2. fd'[d] = Free /\ (n # d => fd'[n] = fd[n])
    BY <1>a, <2>1, ClosedSlot
  <2>3. Free[1] = "free"
    BY DEF Free
  <2> QED BY <1>b, <1>5, <2>2, <2>3 DEF Owner, CloseCast, PsTurn, FileTurn,
      ClientTurn, Serving, Receiving, count, numbers, casts, server
<1>6. CASE DeleteCast
  <2>1. fd' = [fd EXCEPT ![d] = Free]
    BY <1>6 DEF DeleteCast, Destroy, Close
  <2>2. fd'[d] = Free /\ (n # d => fd'[n] = fd[n])
    BY <1>a, <2>1, ClosedSlot
  <2>3. Free[1] = "free"
    BY DEF Free
  <2> QED BY <1>b, <1>6, <2>2, <2>3 DEF Owner, DeleteCast, Destroy, PsTurn, FileTurn,
      ClientTurn, Serving, Receiving, count, numbers, casts, server
<1>7. CASE BindDatagrams
  BY <1>b, <1>7 DEF Owner, BindDatagrams, PsTurn, FileTurn, ClientTurn, Receiving,
      count, numbers, server
<1> QED BY <1>1, <1>2, <1>3, <1>4, <1>5, <1>6, <1>7 DEF Datagrams

\* And the main thread.
LEMMA FarewellOwners == TypeOK /\ Owners /\ Farewell => Owners'
<1> SUFFICES ASSUME TypeOK, Owners, Farewell, NEW n \in Numbers
             PROVE  Owner(n)'
  BY DEF Owners
<1>a. fd \in [Numbers -> Slots] /\ e \in Numbers
  BY DEF TypeOK
<1>b. Owner(n)
  BY DEF Owners
<1>c. UNCHANGED <<program, l, c, p, f, turns, u, d, tpc, dpc>>
  BY DEF Farewell, OpenFarewell, BroadcastFarewell, CloseFarewell, DeleteFarewell, Exit,
         casts, server, numbers, count
<1> HIDE DEF Lowest
<1>1. CASE OpenFarewell
  <2>1. CASE Opened(<<"farewell", 0>>)
    <3>1. /\ Lowest \in Numbers /\ fd'[Lowest] = <<"farewell", 0>>
          /\ n # Lowest => fd'[n] = fd[n]
      BY <1>a, <2>1, OpenedKinds, OpenedSlot
    <3>2. e' = Lowest /\ mpc = "wait" /\ mpc' = "send"
      BY <1>1, <2>1 DEF OpenFarewell, Opened, NoneLeft, Signalled
    <3>3. CASE n = Lowest
      <4>1. fd'[n] = <<"farewell", 0>> /\ fd'[n][1] = "farewell"
        BY <3>1, <3>3
      <4> QED BY <4>1, <3>2, <3>3 DEF Owner
    <3>4. CASE n # Lowest
      BY <1>b, <1>c, <3>1, <3>2, <3>4 DEF Owner
    <3> QED BY <3>3, <3>4
  <2>2. CASE NoneLeft /\ UNCHANGED <<mpc, e>>
    BY <1>b, <1>c, <2>2 DEF Owner, NoneLeft
  <2> QED BY <1>1, <2>1, <2>2 DEF OpenFarewell
<1>2. CASE BroadcastFarewell
  BY <1>b, <1>c, <1>2 DEF Owner, BroadcastFarewell, Signalled
<1>3. CASE CloseFarewell \/ DeleteFarewell
  <2>1. fd' = [fd EXCEPT ![e] = Free] /\ e' = e /\ mpc' \in {"delete", "exit"}
    BY <1>3 DEF CloseFarewell, DeleteFarewell, Destroy, Close
  <2>2. fd'[e] = Free /\ (n # e => fd'[n] = fd[n])
    BY <1>a, <2>1, ClosedSlot
  <2>3. Free[1] = "free"
    BY DEF Free
  <2> QED BY <1>b, <1>c, <2>1, <2>2, <2>3 DEF Owner
<1>4. CASE Exit
  BY <1>b, <1>c, <1>4 DEF Owner, Exit, casts
<1> QED BY <1>1, <1>2, <1>3, <1>4 DEF Farewell


-----------------------------------------------------------------------------
\* Six numbers are more than five.
LEMMA SixNumbers == \A i, j, k, m, n : ~(Numbers \subseteq {i, j, k, m, n})
<1>1. {0, 1, 2, 3, 4, 5} \subseteq Numbers
  BY LimitAssumption DEF Numbers
<1> SUFFICES ASSUME NEW i, NEW j, NEW k, NEW m, NEW n, {0, 1, 2, 3, 4, 5} \subseteq {i, j, k, m, n}
             PROVE  FALSE
  BY <1>1
<1>2. 0 \in {i, j, k, m, n} /\ 1 \in {i, j, k, m, n} /\ 2 \in {i, j, k, m, n}
  OBVIOUS
<1>3. 3 \in {i, j, k, m, n} /\ 4 \in {i, j, k, m, n} /\ 5 \in {i, j, k, m, n}
  OBVIOUS
<1> QED BY <1>2, <1>3

(* The pieces server holds a number only through l, u, c, f, d and e: f, d   *)
(* and e only while the file is read and the broadcasts are sent.            *)
LEMMA ServerHolds ==
    ASSUME TypeOK, Owners, Places, program = "pieces"
    PROVE  \A n \in Used :
             \/ n = l /\ tpc # "start"
             \/ n = u /\ dpc # "start"
             \/ n = c /\ tpc \in ClientTurn
             \/ n = f /\ tpc \in FileTurn
             \/ n = d /\ dpc \in {"send", "close"}
             \/ n = e /\ mpc \in {"send", "close"}
<1> SUFFICES ASSUME NEW n \in Numbers, fd[n] # Free
             PROVE  \/ n = l /\ tpc # "start"
                    \/ n = u /\ dpc # "start"
                    \/ n = c /\ tpc \in ClientTurn
                    \/ n = f /\ tpc \in FileTurn
                    \/ n = d /\ dpc \in {"send", "close"}
                    \/ n = e /\ mpc \in {"send", "close"}
  BY DEF Used
<1>1. Owner(n)
  BY DEF Owners
<1>2. fd[n][1] \in Kinds
  BY DEF TypeOK, Slots
<1>3. tpc \notin PsTurn
  BY DEF Places
<1> QED BY <1>1, <1>2, <1>3 DEF Owner, Kinds

\* So it always finds a free number when it opens one.
LEMMA ServerHasOne ==
    ASSUME TypeOK, Owners, Places, program = "pieces",
           tpc \notin FileTurn \/ dpc \in {"start", "socket"} \/ mpc = "wait"
    PROVE  ~Full
<1>1. \/ Used \subseteq {l, u, c, d, e} \/ Used \subseteq {l, u, c, f, e}
      \/ Used \subseteq {l, u, c, f, d}
  <2>1. CASE tpc \notin FileTurn
    BY <2>1, ServerHolds
  <2>2. CASE dpc \in {"start", "socket"}
    BY <2>2, ServerHolds
  <2>3. CASE mpc = "wait"
    BY <2>3, ServerHolds
  <2> QED BY <2>1, <2>2, <2>3
<1> QED BY <1>1, SixNumbers DEF Full

\* Every place keeps its program, and the answer its connection.
LEMMA ServePlaces == TypeOK /\ Owners /\ Places /\ Serve => Places'
<1> SUFFICES ASSUME TypeOK, Owners, Places, Serve PROVE Places'
  OBVIOUS
<1>0. /\ program = "pieces" /\ tpc \notin FileTurn => ~Full
      /\ program \in Programs
  BY ServerHasOne DEF TypeOK
<1> HIDE DEF Lowest
<1>1. CASE OpenListener
  BY <1>0, <1>1 DEF Places, AnswersItsClient, OpenListener, NoneLeft, Opened, Die,
      Close, PsTurn, FileTurn, Nowhere, Programs, Serving, Receiving, count,
      numbers, casts, server
<1>2. CASE Listen
  BY <1>0, <1>2 DEF Places, AnswersItsClient, Listen, NoneLeft, Opened, Die, Close,
      PsTurn, FileTurn, Nowhere, Programs, Serving, Receiving, count, numbers,
      casts, server
<1>3. CASE EnterAccept
  BY <1>0, <1>3 DEF Places, AnswersItsClient, EnterAccept, NoneLeft, Opened, Die,
      Close, PsTurn, FileTurn, Nowhere, Programs, Serving, Receiving, count,
      numbers, casts, server
<1>4. CASE Accept
  BY <1>0, <1>4 DEF Places, AnswersItsClient, Accept, NoneLeft, Opened, Die, Close,
      PsTurn, FileTurn, Nowhere, Programs, Serving, Receiving, count, numbers,
      casts, server
<1>5. CASE EnterRead
  BY <1>0, <1>5 DEF Places, AnswersItsClient, EnterRead, NoneLeft, Opened, Die,
      Close, PsTurn, FileTurn, Nowhere, Programs, Serving, Receiving, count,
      numbers, casts, server
<1>6. CASE Read
  BY <1>0, <1>6 DEF Places, AnswersItsClient, Read, NoneLeft, Opened, Die, Close,
      PsTurn, FileTurn, Nowhere, Programs, Serving, Receiving, count, numbers,
      casts, server
<1>7. CASE Dispatch
  BY <1>0, <1>7 DEF Places, AnswersItsClient, Dispatch, NoneLeft, Opened, Die,
      Close, PsTurn, FileTurn, Nowhere, Programs, Serving, Receiving, count,
      numbers, casts, server
<1>8. CASE OpenPs
  BY <1>0, <1>8 DEF Places, AnswersItsClient, OpenPs, NoneLeft, Opened, Die, Close,
      PsTurn, FileTurn, Nowhere, Programs, Serving, Receiving, count, numbers,
      casts, server
<1>9. CASE OpenSpare
  BY <1>0, <1>9 DEF Places, AnswersItsClient, OpenSpare, NoneLeft, Opened, Die,
      Close, PsTurn, FileTurn, Nowhere, Programs, Serving, Receiving, count,
      numbers, casts, server
<1>10. CASE Connect
  BY <1>0, <1>10 DEF Places, AnswersItsClient, Connect, NoneLeft, Opened, Die,
      Close, PsTurn, FileTurn, Nowhere, Programs, Serving, Receiving, count,
      numbers, casts, server
<1>11. CASE PsWrite
  BY <1>0, <1>11 DEF Places, AnswersItsClient, PsWrite, NoneLeft, Opened, Die,
      Close, PsTurn, FileTurn, Nowhere, Programs, Serving, Receiving, count,
      numbers, casts, server
<1>12. CASE EnterPsRead
  BY <1>0, <1>12 DEF Places, AnswersItsClient, EnterPsRead, NoneLeft, Opened, Die,
      Close, PsTurn, FileTurn, Nowhere, Programs, Serving, Receiving, count,
      numbers, casts, server
<1>13. CASE PsRead
  BY <1>0, <1>13 DEF Places, AnswersItsClient, PsRead, NoneLeft, Opened, Die, Close,
      PsTurn, FileTurn, Nowhere, Programs, Serving, Receiving, count, numbers,
      casts, server
<1>14. CASE PsClose
  BY <1>0, <1>14 DEF Places, AnswersItsClient, PsClose, NoneLeft, Opened, Die,
      Close, PsTurn, FileTurn, Nowhere, Programs, Serving, Receiving, count,
      numbers, casts, server
<1>15. CASE OpenFile
  BY <1>0, <1>15 DEF Places, AnswersItsClient, OpenFile, NoneLeft, Opened, Die,
      Close, PsTurn, FileTurn, Nowhere, Programs, Serving, Receiving, count,
      numbers, casts, server
<1>16. CASE Decode
  BY <1>0, <1>16 DEF Places, AnswersItsClient, Decode, NoneLeft, Opened, Die, Close,
      PsTurn, FileTurn, Nowhere, Programs, Serving, Receiving, count, numbers,
      casts, server
<1>17. CASE CloseFile
  BY <1>0, <1>17 DEF Places, AnswersItsClient, CloseFile, NoneLeft, Opened, Die,
      Close, PsTurn, FileTurn, Nowhere, Programs, Serving, Receiving, count,
      numbers, casts, server
<1>18. CASE Write
  <2>1. Owner(c) /\ fd[c] \in Slots
    BY DEF Owners, TypeOK
  <2>2. tpc = "write" /\ program # "testcase"
    BY <1>18 DEF Write, Serving, Places
  <2>a. fd[c][1] \in {"client", "ps"} => fd[c][1] = "client" /\ fd[c][2] = turns
    BY <2>1, <2>2 DEF Owner, PsTurn
  <2>b. fd[c] = <<fd[c][1], fd[c][2]>>
    BY <2>1 DEF Slots
  <2>3. fd[c][1] \in {"client", "ps"} => fd[c] = <<"client", turns>>
    BY <2>a, <2>b
  <2>4. <<fd[c], page>>[1] = fd[c]
    OBVIOUS
  <2>5. sent' # Nowhere => sent'[1] = <<"client", turns>>
    BY <1>18, <2>3, <2>4 DEF Write, Places, AnswersItsClient, Nowhere
  <2> QED BY <1>18, <2>2, <2>5 DEF Places, AnswersItsClient, Write, Die, PsTurn,
      FileTurn, Nowhere, Serving, Receiving, count, numbers, casts, server
<1>19. CASE CloseClient
  BY <1>0, <1>19 DEF Places, AnswersItsClient, CloseClient, NoneLeft, Opened, Die,
      Close, PsTurn, FileTurn, Nowhere, Programs, Serving, Receiving, count,
      numbers, casts, server
<1> QED BY <1>1, <1>2, <1>3, <1>4, <1>5, <1>6, <1>7, <1>8, <1>9, <1>10, <1>11,
    <1>12, <1>13, <1>14, <1>15, <1>16, <1>17, <1>18, <1>19 DEF Serve

\* The thread of the datagrams keeps every place to its program.
LEMMA DatagramPlaces == TypeOK /\ Owners /\ Places /\ Datagrams => Places'
<1> SUFFICES ASSUME TypeOK, Owners, Places, Datagrams PROVE Places'
  OBVIOUS
<1>0. program = "pieces" /\ dpc \in {"start", "socket"} => ~Full
  BY ServerHasOne
<1> HIDE DEF Lowest
<1>1. CASE OpenDatagrams
  BY <1>0, <1>1 DEF Places, AnswersItsClient, OpenDatagrams, NoneLeft, Opened, Die,
      Close, PsTurn, FileTurn, Nowhere, Serving, Receiving, count, numbers,
      casts, server
<1>2. CASE Receive
  BY <1>0, <1>2 DEF Places, AnswersItsClient, Receive, NoneLeft, Opened, Die, Close,
      PsTurn, FileTurn, Nowhere, Serving, Receiving, count, numbers, casts,
      server
<1>3. CASE OpenCast
  BY <1>0, <1>3 DEF Places, AnswersItsClient, OpenCast, NoneLeft, Opened, Die,
      Close, PsTurn, FileTurn, Nowhere, Serving, Receiving, count, numbers,
      casts, server
<1>4. CASE Broadcast
  BY <1>0, <1>4 DEF Places, AnswersItsClient, Broadcast, SendOn, NoneLeft, Opened, Die,
      Close, PsTurn, FileTurn, Nowhere, Serving, Receiving, count, numbers,
      casts, server
<1>5. CASE CloseCast
  BY <1>0, <1>5 DEF Places, AnswersItsClient, CloseCast, NoneLeft, Opened, Die,
      Close, PsTurn, FileTurn, Nowhere, Serving, Receiving, count, numbers,
      casts, server
<1>6. CASE DeleteCast
  BY <1>0, <1>6 DEF Places, AnswersItsClient, DeleteCast, Destroy, NoneLeft, Opened, Die,
      Close, PsTurn, FileTurn, Nowhere, Serving, Receiving, count, numbers,
      casts, server
<1>7. CASE BindDatagrams
  BY <1>0, <1>7 DEF Places, AnswersItsClient, BindDatagrams, Die, PsTurn, FileTurn,
      Nowhere, Receiving, count, numbers, server
<1> QED BY <1>1, <1>2, <1>3, <1>4, <1>5, <1>6, <1>7 DEF Datagrams

\* And so does the main thread.
LEMMA FarewellPlaces == TypeOK /\ Owners /\ Places /\ Farewell => Places'
<1> SUFFICES ASSUME TypeOK, Owners, Places, Farewell PROVE Places'
  OBVIOUS
<1>1. UNCHANGED <<program, tpc, turns, sent>>
  BY DEF Farewell, OpenFarewell, BroadcastFarewell, CloseFarewell, DeleteFarewell, Exit,
         casts, server, numbers, count
<1>2. program = "pieces" => end' # "full"
  <2>1. OpenFarewell /\ program = "pieces" => end' = end
    BY ServerHasOne DEF OpenFarewell, NoneLeft, Signalled
  <2>2. BroadcastFarewell \/ CloseFarewell \/ DeleteFarewell \/ Exit
          => end' \in {end, "exception", "close", "stopped"}
    BY DEF BroadcastFarewell, SendOn, CloseFarewell, DeleteFarewell, Destroy, Close, Exit, Die
  <2> QED BY <2>1, <2>2 DEF Places, Farewell
<1> QED BY <1>1, <1>2 DEF Places, AnswersItsClient


\* A close takes from the threads only what is of the kind it closes.
LEMMA OthersKept ==
    ASSUME TypeOK, Untouched, NEW n \in Numbers, fd' = [fd EXCEPT ![n] = Free]
    PROVE  /\ tpc # "start" /\ fd[n][1] # "listen" => fd'[l] = <<"listen", 0>>
           /\ tpc \in ClientTurn /\ fd[n][1] # "client" => fd'[c] = <<"client", turns>>
           /\ tpc \in PsTurn /\ fd[n][1] # "ps" => fd'[p] = <<"ps", turns>>
           /\ tpc \in FileTurn /\ fd[n][1] # "file" => fd'[f] = <<"file", turns>>
           /\ dpc # "start" /\ fd[n][1] # "udp" => fd'[u] = <<"udp", 0>>
           /\ dpc \in {"send", "close"} /\ fd[n][1] # "cast" => fd'[d] = <<"cast", 0>>
           /\ mpc \in {"send", "close"} /\ fd[n][1] # "farewell" => fd'[e] = <<"farewell", 0>>
<1>1. fd \in [Numbers -> Slots] /\ l \in Numbers /\ c \in Numbers /\ p \in Numbers
      /\ f \in Numbers /\ u \in Numbers /\ d \in Numbers /\ e \in Numbers
  BY DEF TypeOK
<1>2. \A m \in Numbers : fd[m][1] # fd[n][1] => fd'[m] = fd[m]
  BY <1>1, ClosedSlot
<1>3. /\ tpc # "start" => fd[l] = <<"listen", 0>> /\ fd[l][1] = "listen"
      /\ tpc \in ClientTurn => fd[c] = <<"client", turns>> /\ fd[c][1] = "client"
      /\ tpc \in PsTurn => fd[p] = <<"ps", turns>> /\ fd[p][1] = "ps"
      /\ tpc \in FileTurn => fd[f] = <<"file", turns>> /\ fd[f][1] = "file"
  BY DEF Untouched
<1>4. /\ dpc # "start" => fd[u] = <<"udp", 0>> /\ fd[u][1] = "udp"
      /\ dpc \in {"send", "close"} => fd[d] = <<"cast", 0>> /\ fd[d][1] = "cast"
      /\ mpc \in {"send", "close"} => fd[e] = <<"farewell", 0>> /\ fd[e][1] = "farewell"
  BY DEF Untouched
<1>5. /\ tpc # "start" /\ fd[n][1] # "listen" => fd'[l] = <<"listen", 0>>
      /\ tpc \in ClientTurn /\ fd[n][1] # "client" => fd'[c] = <<"client", turns>>
      /\ tpc \in PsTurn /\ fd[n][1] # "ps" => fd'[p] = <<"ps", turns>>
      /\ tpc \in FileTurn /\ fd[n][1] # "file" => fd'[f] = <<"file", turns>>
  BY <1>1, <1>2, <1>3
<1>6. /\ dpc # "start" /\ fd[n][1] # "udp" => fd'[u] = <<"udp", 0>>
      /\ dpc \in {"send", "close"} /\ fd[n][1] # "cast" => fd'[d] = <<"cast", 0>>
      /\ mpc \in {"send", "close"} /\ fd[n][1] # "farewell" => fd'[e] = <<"farewell", 0>>
  BY <1>1, <1>2, <1>4
<1> QED BY <1>5, <1>6

\* Without a hit the serving thread finds what it opened.
LEMMA ServeClean ==
    ASSUME TypeOK, Owners, Places, Untouched, Serve
    PROVE  ~hit' /\ ~hit => Untouched'
<1> SUFFICES ASSUME ~hit, ~hit' PROVE Untouched'
  OBVIOUS
<1>a. fd \in [Numbers -> Slots] /\ l \in Numbers /\ c \in Numbers /\ p \in Numbers
      /\ f \in Numbers /\ u \in Numbers /\ d \in Numbers /\ e \in Numbers
  BY DEF TypeOK
<1>b. program = "pieces" /\ tpc \notin FileTurn => ~Full
  BY ServerHasOne
<1>c. \A x : /\ <<"listen", x>> # Free /\ <<"client", x>> # Free /\ <<"ps", x>> # Free
           /\ <<"file", x>> # Free /\ <<"cast", x>> # Free /\ <<"udp", x>> # Free
           /\ <<"farewell", x>> # Free
  BY DEF Free
<1>d. Free[1] = "free"
  BY DEF Free
<1>e. /\ tpc # "start" => fd[l][1] = "listen"
      /\ tpc \in ClientTurn => fd[c][1] = "client"
      /\ tpc \in PsTurn => fd[p][1] = "ps"
      /\ tpc \in FileTurn => fd[f][1] = "file"
      /\ dpc # "start" => fd[u][1] = "udp"
      /\ dpc \in {"send", "close"} => fd[d][1] = "cast"
      /\ mpc \in {"send", "close"} => fd[e][1] = "farewell"
  BY DEF Untouched
<1>f. PsTurn \cup FileTurn \subseteq ClientTurn
  BY DEF ClientTurn
<1> HIDE DEF Lowest
<1>1. CASE OpenListener
  <2>1. CASE Opened(<<"listen", 0>>)
    <3>1. /\ fd'[Lowest] = <<"listen", 0>> /\ Lowest \in Numbers /\ fd[Lowest] = Free
          /\ \A n \in Numbers : n # Lowest => fd'[n] = fd[n]
      BY <1>a, <2>1, OpenedKinds, OpenedSlot, <1>1 DEF OpenListener
    <3>2. \A n \in {l, c, p, f, u, d, e} : fd[n] # Free => fd'[n] = fd[n]
      BY <1>a, <3>1
    <3> QED BY <1>c, <1>1, <2>1, <3>1, <3>2 DEF Untouched, OpenListener, Opened,
        NoneLeft, Nowhere, PsTurn, FileTurn, ClientTurn, Serving, Receiving, count,
        numbers, casts, server
  <2> QED BY <1>1, <2>1 DEF OpenListener
<1>2. CASE Listen
  BY <1>d, <1>e, <1>2 DEF Untouched, Listen, TakenFrom, Die, PsTurn, FileTurn, ClientTurn,
      Serving, Receiving, count, numbers, casts, server
<1>3. CASE EnterAccept
  BY <1>d, <1>e, <1>3 DEF Untouched, EnterAccept, Die, PsTurn, FileTurn, ClientTurn,
      Serving, Receiving, count, numbers, casts, server
<1>4. CASE Accept
  <2>1. CASE turns < MaxTurns /\ Opened(<<"client", turns + 1>>)
    <3>1. /\ fd'[Lowest] = <<"client", turns + 1>> /\ Lowest \in Numbers /\ fd[Lowest] = Free
          /\ \A n \in Numbers : n # Lowest => fd'[n] = fd[n]
      BY <1>a, <2>1, OpenedKinds, OpenedSlot, <1>4 DEF Accept
    <3>2. \A n \in {l, c, p, f, u, d, e} : fd[n] # Free => fd'[n] = fd[n]
      BY <1>a, <3>1
    <3> QED BY <1>c, <1>4, <2>1, <3>1, <3>2 DEF Untouched, Accept, Opened, NoneLeft,
        Nowhere, PsTurn, FileTurn, ClientTurn, Serving, Receiving, count, numbers,
        casts, server
  <2>2. CASE NoneLeft
    <3>1. end' = "full" /\ UNCHANGED <<fd, tpc, dpc, mpc, l, c, p, f, u, d, e, turns, page, sent, stray>>
      BY <1>4, <2>2 DEF Accept, NoneLeft, Opened, Die, Serving, Receiving, count,
          numbers, casts, server
    <3> QED BY <3>1 DEF Untouched
  <2> QED BY <1>4, <2>1, <2>2 DEF Accept
<1>5. CASE EnterRead
  BY <1>d, <1>e, <1>5 DEF Untouched, EnterRead, Die, PsTurn, FileTurn, ClientTurn,
      Serving, Receiving, count, numbers, casts, server
<1>6. CASE Read
  BY <1>d, <1>e, <1>6 DEF Untouched, Read, TakenFrom, Die, PsTurn, FileTurn, ClientTurn,
      Serving, Receiving, count, numbers, casts, server
<1>7. CASE Dispatch
  BY <1>d, <1>e, <1>7 DEF Untouched, Dispatch, Die, PsTurn, FileTurn, ClientTurn,
      Serving, Receiving, count, numbers, casts, server
<1>8. CASE OpenPs
  <2>1. CASE Opened(<<"ps", turns>>)
    <3>1. /\ fd'[Lowest] = <<"ps", turns>> /\ Lowest \in Numbers /\ fd[Lowest] = Free
          /\ \A n \in Numbers : n # Lowest => fd'[n] = fd[n]
      BY <1>a, <2>1, OpenedKinds, OpenedSlot, <1>8 DEF OpenPs
    <3>2. \A n \in {l, c, p, f, u, d, e} : fd[n] # Free => fd'[n] = fd[n]
      BY <1>a, <3>1
    <3> QED BY <1>c, <1>8, <2>1, <3>1, <3>2 DEF Untouched, OpenPs, Opened, NoneLeft,
        Nowhere, PsTurn, FileTurn, ClientTurn, Serving, Receiving, count, numbers,
        casts, server
  <2>2. CASE NoneLeft
    <3>1. end' = "full" /\ UNCHANGED <<fd, tpc, dpc, mpc, l, c, p, f, u, d, e, turns, page, sent, stray>>
      BY <1>8, <2>2 DEF OpenPs, NoneLeft, Opened, Die, Serving, Receiving, count,
          numbers, casts, server
    <3> QED BY <3>1 DEF Untouched
  <2> QED BY <1>8, <2>1, <2>2 DEF OpenPs
<1>9. CASE OpenSpare
  <2>1. CASE Opened(<<"spare", 0>>)
    <3>1. /\ fd'[Lowest] = <<"spare", 0>> /\ Lowest \in Numbers /\ fd[Lowest] = Free
          /\ \A n \in Numbers : n # Lowest => fd'[n] = fd[n]
      BY <1>a, <2>1, OpenedKinds, OpenedSlot, <1>9 DEF OpenSpare
    <3>2. \A n \in {l, c, p, f, u, d, e} : fd[n] # Free => fd'[n] = fd[n]
      BY <1>a, <3>1
    <3> QED BY <1>c, <1>9, <2>1, <3>1, <3>2 DEF Untouched, OpenSpare, Opened,
        NoneLeft, Nowhere, PsTurn, FileTurn, ClientTurn, Serving, Receiving, count,
        numbers, casts, server
  <2>2. CASE NoneLeft
    <3>1. end' = "full" /\ UNCHANGED <<fd, tpc, dpc, mpc, l, c, p, f, u, d, e, turns, page, sent, stray>>
      BY <1>9, <2>2 DEF OpenSpare, NoneLeft, Opened, Die, Serving, Receiving, count,
          numbers, casts, server
    <3> QED BY <3>1 DEF Untouched
  <2> QED BY <1>9, <2>1, <2>2 DEF OpenSpare
<1>10. CASE Connect
  <2>1. fd[p] = <<"ps", turns>>
    BY <1>10 DEF Untouched, Connect, Serving, PsTurn
  <2>a. fd[p][1] = "ps" /\ fd[p][1] \notin Datagram
    BY <2>1 DEF Datagram
  <2>2. fd' = [fd EXCEPT ![p] = <<"ps", turns>>] /\ tpc' = "psWrite" /\ UNCHANGED end
    BY <1>10, <2>a DEF Connect
  <2>3. \A n \in {l, c, p, f, u, d, e} : fd'[n] = fd[n]
    BY <1>a, <2>1, <2>2
  <2> QED BY <1>10, <2>2, <2>3 DEF Untouched, Connect, PsTurn, FileTurn, ClientTurn,
      Serving, Receiving, count, numbers, casts, server
<1>11. CASE PsWrite
  BY <1>d, <1>e, <1>11 DEF Untouched, PsWrite, Die, PsTurn, FileTurn, ClientTurn,
      Serving, Receiving, count, numbers, casts, server
<1>12. CASE EnterPsRead
  <2>1. tpc = "psRead"
    BY <1>12 DEF EnterPsRead, Serving
  <2>2. fd[p][1] = "ps" /\ fd[p][1] \notin Datagram
    BY <1>e, <2>1 DEF PsTurn, Datagram
  <2>3. tpc' = "psReading"
        /\ UNCHANGED <<end, fd, l, c, p, f, u, d, e, turns, page, sent, stray, dpc, mpc>>
    BY <1>12, <2>2 DEF EnterPsRead, numbers, casts
  <2> QED BY <2>1, <2>3 DEF Untouched, PsTurn, FileTurn, ClientTurn
<1>13. CASE PsRead
  BY <1>d, <1>e, <1>13 DEF Untouched, PsRead, TakenFrom, Die, PsTurn, FileTurn, ClientTurn,
      Serving, Receiving, count, numbers, casts, server
<1>14. CASE PsClose
  <2>1. /\ fd' = [fd EXCEPT ![p] = Free] /\ end' \in {end, "close"}
        /\ tpc = "psClose" /\ tpc' = "write"
        /\ UNCHANGED <<l, c, p, f, u, d, e, turns, page, sent, stray, dpc, mpc, hit>>
    BY <1>14 DEF PsClose, Close, Serving, numbers, count, casts
  <2>2. fd[p][1] = "ps"
    BY <1>e, <2>1 DEF PsTurn, FileTurn, ClientTurn
  <2> QED BY <1>a, <2>1, <2>2, OthersKept DEF Untouched, PsTurn, FileTurn, ClientTurn
<1>15. CASE OpenFile
  <2>1. CASE Opened(<<"file", turns>>)
    <3>1. /\ fd'[Lowest] = <<"file", turns>> /\ Lowest \in Numbers /\ fd[Lowest] = Free
          /\ \A n \in Numbers : n # Lowest => fd'[n] = fd[n]
      BY <1>a, <2>1, OpenedKinds, OpenedSlot, <1>15 DEF OpenFile
    <3>2. \A n \in {l, c, p, f, u, d, e} : fd[n] # Free => fd'[n] = fd[n]
      BY <1>a, <3>1
    <3> QED BY <1>c, <1>15, <2>1, <3>1, <3>2 DEF Untouched, OpenFile, Opened,
        NoneLeft, Nowhere, PsTurn, FileTurn, ClientTurn, Serving, Receiving, count,
        numbers, casts, server
  <2>2. CASE ~Opened(<<"file", turns>>)
    <3>1. /\ tpc = "open" /\ tpc' = "write" /\ page' = page
          /\ UNCHANGED <<end, fd, l, c, p, f, u, d, e, turns, sent, stray, dpc, mpc>>
      BY <1>b, <1>15, <2>2 DEF Places, OpenFile, PsTurn, FileTurn, ClientTurn,
          Serving, Receiving, count, numbers, casts, server
    <3> QED BY <3>1 DEF Untouched, PsTurn, FileTurn, ClientTurn
  <2> QED BY <2>1, <2>2
<1>16. CASE Decode
  BY <1>d, <1>e, <1>16 DEF Untouched, Decode, Die, PsTurn, FileTurn, ClientTurn,
      Serving, Receiving, count, numbers, casts, server
<1>17. CASE CloseFile
  <2>1. /\ fd' = [fd EXCEPT ![f] = Free] /\ end' \in {end, "close"}
        /\ tpc = "closeFile" /\ tpc' = "write"
        /\ UNCHANGED <<l, c, p, f, u, d, e, turns, page, sent, stray, dpc, mpc, hit>>
    BY <1>17 DEF CloseFile, Serving, numbers, count, casts
  <2>2. fd[f][1] = "file"
    BY <1>e, <2>1 DEF PsTurn, FileTurn, ClientTurn
  <2> QED BY <1>a, <2>1, <2>2, OthersKept DEF Untouched, PsTurn, FileTurn, ClientTurn
<1>18. CASE Write
  BY <1>d, <1>e, <1>18 DEF Untouched, Write, Die, PsTurn, FileTurn, ClientTurn,
      Serving, Receiving, count, numbers, casts, server
<1>19. CASE CloseClient
  <2>1. /\ fd' = [fd EXCEPT ![c] = Free] /\ end' \in {end, "close"}
        /\ tpc = "close" /\ tpc' = "accept"
        /\ UNCHANGED <<l, c, p, f, u, d, e, turns, page, sent, stray, dpc, mpc, hit>>
    BY <1>19 DEF CloseClient, Close, Serving, numbers, count, casts
  <2>2. fd[c][1] = "client"
    BY <1>e, <2>1 DEF PsTurn, FileTurn, ClientTurn
  <2> QED BY <1>a, <2>1, <2>2, OthersKept DEF Untouched, PsTurn, FileTurn, ClientTurn
<1> QED BY <1>1, <1>2, <1>3, <1>4, <1>5, <1>6, <1>7, <1>8, <1>9, <1>10, <1>11,
    <1>12, <1>13, <1>14, <1>15, <1>16, <1>17, <1>18, <1>19 DEF Serve

\* So does the datagram thread, unless it hits.
LEMMA DatagramClean ==
    ASSUME TypeOK, Owners, Places, Untouched, Datagrams
    PROVE  ~hit' /\ ~hit => Untouched'
<1> SUFFICES ASSUME ~hit, ~hit' PROVE Untouched'
  OBVIOUS
<1>a. fd \in [Numbers -> Slots] /\ l \in Numbers /\ c \in Numbers /\ p \in Numbers
      /\ f \in Numbers /\ u \in Numbers /\ d \in Numbers /\ e \in Numbers
  BY DEF TypeOK
<1>b. program = "pieces" /\ tpc \notin FileTurn => ~Full
  BY ServerHasOne
<1>c. \A x : /\ <<"listen", x>> # Free /\ <<"client", x>> # Free /\ <<"ps", x>> # Free
           /\ <<"file", x>> # Free /\ <<"cast", x>> # Free /\ <<"udp", x>> # Free
           /\ <<"farewell", x>> # Free
  BY DEF Free
<1>d. Free[1] = "free"
  BY DEF Free
<1>e. /\ tpc # "start" => fd[l][1] = "listen"
      /\ tpc \in ClientTurn => fd[c][1] = "client"
      /\ tpc \in PsTurn => fd[p][1] = "ps"
      /\ tpc \in FileTurn => fd[f][1] = "file"
      /\ dpc # "start" => fd[u][1] = "udp"
      /\ dpc \in {"send", "close"} => fd[d][1] = "cast"
      /\ mpc \in {"send", "close"} => fd[e][1] = "farewell"
  BY DEF Untouched
<1>f. PsTurn \cup FileTurn \subseteq ClientTurn
  BY DEF ClientTurn
<1> HIDE DEF Lowest
<1>1. CASE OpenDatagrams
  <2>1. CASE Opened(<<"udp", 0>>)
    <3>1. /\ fd'[Lowest] = <<"udp", 0>> /\ Lowest \in Numbers /\ fd[Lowest] = Free
          /\ \A n \in Numbers : n # Lowest => fd'[n] = fd[n]
      BY <1>a, <2>1, OpenedKinds, OpenedSlot, <1>1 DEF OpenDatagrams
    <3>2. \A n \in {l, c, p, f, u, d, e} : fd[n] # Free => fd'[n] = fd[n]
      BY <1>a, <3>1
    <3> QED BY <1>c, <1>1, <2>1, <3>1, <3>2 DEF Untouched, OpenDatagrams, Opened,
        NoneLeft, Nowhere, PsTurn, FileTurn, ClientTurn, Serving, Receiving, count,
        numbers, casts, server
  <2>2. CASE NoneLeft
    <3>1. end' = "full" /\ UNCHANGED <<fd, tpc, dpc, mpc, l, c, p, f, u, d, e, turns, page, sent, stray>>
      BY <1>1, <2>2 DEF OpenDatagrams, NoneLeft, Opened, Die, Serving, Receiving,
          count, numbers, casts, server
    <3> QED BY <3>1 DEF Untouched
  <2> QED BY <1>1, <2>1, <2>2 DEF OpenDatagrams
<1>2. CASE Receive
  BY <1>d, <1>e, <1>2 DEF Untouched, Receive, Die, PsTurn, FileTurn, ClientTurn,
      Serving, Receiving, count, numbers, casts, server
<1>3. CASE OpenCast
  <2>1. CASE Opened(<<"cast", 0>>)
    <3>1. /\ fd'[Lowest] = <<"cast", 0>> /\ Lowest \in Numbers /\ fd[Lowest] = Free
          /\ \A n \in Numbers : n # Lowest => fd'[n] = fd[n]
      BY <1>a, <2>1, OpenedKinds, OpenedSlot, <1>3 DEF OpenCast
    <3>2. \A n \in {l, c, p, f, u, d, e} : fd[n] # Free => fd'[n] = fd[n]
      BY <1>a, <3>1
    <3> QED BY <1>c, <1>3, <2>1, <3>1, <3>2 DEF Untouched, OpenCast, Opened,
        NoneLeft, Nowhere, PsTurn, FileTurn, ClientTurn, Serving, Receiving, count,
        numbers, casts, server
  <2>2. CASE NoneLeft
    <3>1. end' = "full" /\ UNCHANGED <<fd, tpc, dpc, mpc, l, c, p, f, u, d, e, turns, page, sent, stray>>
      BY <1>3, <2>2 DEF OpenCast, NoneLeft, Opened, Die, Serving, Receiving, count,
          numbers, casts, server
    <3> QED BY <3>1 DEF Untouched
  <2> QED BY <1>3, <2>1, <2>2 DEF OpenCast
<1>4. CASE Broadcast
  BY <1>d, <1>e, <1>4 DEF Untouched, Broadcast, SendOn, Unconnected, Datagram, Die, PsTurn, FileTurn, ClientTurn,
      Serving, Receiving, count, numbers, casts, server
<1>5. CASE CloseCast
  <2>1. /\ fd' = [fd EXCEPT ![d] = Free] /\ end' \in {end, "close"}
        /\ dpc = "close" /\ dpc' = "delete"
        /\ UNCHANGED <<l, c, p, f, u, d, e, turns, page, sent, stray, tpc, mpc, hit>>
    BY <1>5 DEF CloseCast, Close, Receiving, server, numbers, count
  <2>2. fd[d][1] = "cast"
    BY <1>e, <2>1 DEF PsTurn, FileTurn, ClientTurn
  <2> QED BY <1>a, <2>1, <2>2, OthersKept DEF Untouched, PsTurn, FileTurn, ClientTurn
<1>6. CASE DeleteCast
  <2>1. fd[d] = Free
    BY <1>6 DEF DeleteCast, Destroy
  <2>2. \A n \in {l, c, p, f, u, d, e} : fd'[n] = fd[n]
    BY <1>a, <1>6, <2>1, ClosedSlot DEF DeleteCast, Destroy, Close
  <2> QED BY <1>6, <2>2 DEF Untouched, DeleteCast, Destroy, Close, PsTurn, FileTurn,
      ClientTurn, Serving, Receiving, count, numbers, casts, server
<1>7. CASE BindDatagrams
  BY <1>e, <1>7 DEF Untouched, BindDatagrams, Die, PsTurn, FileTurn, ClientTurn, Receiving,
      count, numbers, server
<1> QED BY <1>1, <1>2, <1>3, <1>4, <1>5, <1>6, <1>7 DEF Datagrams

\* And the main thread.
LEMMA FarewellClean ==
    ASSUME TypeOK, Owners, Places, Untouched, Farewell
    PROVE  ~hit' /\ ~hit => Untouched'
<1> SUFFICES ASSUME ~hit, ~hit' PROVE Untouched'
  OBVIOUS
<1>a. fd \in [Numbers -> Slots] /\ l \in Numbers /\ c \in Numbers /\ p \in Numbers
      /\ f \in Numbers /\ u \in Numbers /\ d \in Numbers /\ e \in Numbers
  BY DEF TypeOK
<1>b. UNCHANGED <<l, c, p, f, turns, page, sent, u, d, tpc, dpc>>
  BY DEF Farewell, OpenFarewell, BroadcastFarewell, CloseFarewell, DeleteFarewell, Exit,
         casts, server, numbers, count
<1>c. \A x : /\ <<"listen", x>> # Free /\ <<"client", x>> # Free /\ <<"ps", x>> # Free
           /\ <<"file", x>> # Free /\ <<"cast", x>> # Free /\ <<"udp", x>> # Free
  BY DEF Free
<1> HIDE DEF Lowest
<1>1. CASE OpenFarewell
  <2>1. CASE Opened(<<"farewell", 0>>)
    <3>1. /\ fd'[Lowest] = <<"farewell", 0>> /\ Lowest \in Numbers /\ fd[Lowest] = Free
          /\ \A n \in Numbers : n # Lowest => fd'[n] = fd[n]
      BY <1>a, <2>1, OpenedKinds, OpenedSlot
    <3>2. \A n \in {l, c, p, f, u, d} : fd[n] # Free => fd'[n] = fd[n]
      BY <1>a, <3>1
    <3>3. e' = Lowest /\ UNCHANGED <<end, stray>>
      BY <1>1, <2>1 DEF OpenFarewell, Opened, NoneLeft
    <3> QED BY <1>b, <1>c, <3>1, <3>2, <3>3 DEF Untouched
  <2>2. CASE NoneLeft /\ UNCHANGED <<mpc, e>>
    <3>1. end' = "full" /\ UNCHANGED <<fd, stray>>
      BY <1>1, <2>2 DEF OpenFarewell, NoneLeft, Die
    <3> QED BY <1>b, <2>2, <3>1 DEF Untouched
  <2> QED BY <1>1, <2>1, <2>2 DEF OpenFarewell
<1>2. CASE BroadcastFarewell
  <2>1. mpc = "send" /\ mpc' = "close" /\ UNCHANGED <<fd, e>>
    BY <1>2 DEF BroadcastFarewell, Signalled
  <2>2. fd[e] = <<"farewell", 0>>
    BY <2>1 DEF Untouched
  <2>3. fd[e][1] = "farewell"
    BY <2>2
  <2>4. ~stray' /\ UNCHANGED end
    BY <1>2, <2>3 DEF Untouched, BroadcastFarewell, SendOn, Unconnected, Datagram
  <2> QED BY <1>b, <2>1, <2>2, <2>4 DEF Untouched
<1>3. CASE CloseFarewell
  <2>1. /\ fd' = [fd EXCEPT ![e] = Free] /\ end' \in {end, "close"}
        /\ mpc = "close" /\ mpc' = "delete" /\ UNCHANGED <<stray, e>>
    BY <1>3 DEF CloseFarewell, Close, Signalled
  <2>2. fd[e] = <<"farewell", 0>>
    BY <2>1 DEF Untouched
  <2>3. fd[e][1] = "farewell"
    BY <2>2
  <2> QED BY <1>a, <1>b, <2>1, <2>3, OthersKept DEF Untouched
<1>4. CASE DeleteFarewell
  <2>1. fd[e] = Free
    BY <1>4 DEF DeleteFarewell, Destroy
  <2>2. \A n \in {l, c, p, f, u, d, e} : fd'[n] = fd[n]
    BY <1>a, <1>4, <2>1, ClosedSlot DEF DeleteFarewell, Destroy, Close
  <2>3. end' \in {end, "close"} /\ mpc' = "exit" /\ UNCHANGED <<stray, e>>
    BY <1>4 DEF DeleteFarewell, Destroy, Close
  <2> QED BY <1>b, <2>2, <2>3 DEF Untouched
<1>5. CASE Exit
  BY <1>b, <1>5 DEF Untouched, Exit, Die, casts
<1> QED BY <1>1, <1>2, <1>3, <1>4, <1>5 DEF Farewell


-----------------------------------------------------------------------------
\* One element more is at most one more.
LEMMA OneMore ==
    ASSUME NEW S, NEW x, NEW k \in Nat, IsFiniteSet(S), Cardinality(S) <= k
    PROVE  IsFiniteSet(S \cup {x}) /\ Cardinality(S \cup {x}) <= k + 1
<1>1. Cardinality(S) \in Nat
  BY FS_CardinalityType
<1>2. IsFiniteSet(S \cup {x})
  BY FS_AddElement
<1>3. \/ Cardinality(S \cup {x}) = Cardinality(S)
      \/ Cardinality(S \cup {x}) = Cardinality(S) + 1
  BY FS_AddElement
<1>4. Cardinality(S \cup {x}) <= k + 1
  BY <1>1, <1>3
<1> QED BY <1>2, <1>4

\* Three elements more are at most three more.
LEMMA ThreeMore ==
    ASSUME NEW S, NEW i, NEW j, NEW m, NEW k \in Nat, IsFiniteSet(S), Cardinality(S) <= k
    PROVE  IsFiniteSet(S \cup {i, j, m}) /\ Cardinality(S \cup {i, j, m}) <= k + 3
<1>0. k + 1 \in Nat /\ k + 2 \in Nat /\ (k + 1) + 1 = k + 2 /\ (k + 2) + 1 = k + 3
  OBVIOUS
<1>1. IsFiniteSet(S \cup {i}) /\ Cardinality(S \cup {i}) <= k + 1
  BY OneMore
<1>2. IsFiniteSet((S \cup {i}) \cup {j}) /\ Cardinality((S \cup {i}) \cup {j}) <= (k + 1) + 1
  BY <1>0, <1>1, OneMore
<1>3. /\ IsFiniteSet(((S \cup {i}) \cup {j}) \cup {m})
      /\ Cardinality(((S \cup {i}) \cup {j}) \cup {m}) <= (k + 2) + 1
  BY <1>0, <1>2, OneMore
<1>4. ((S \cup {i}) \cup {j}) \cup {m} = S \cup {i, j, m}
  OBVIOUS
<1> QED BY <1>0, <1>3, <1>4

\* A part of a set has no more elements than the set.
LEMMA NoMore ==
    ASSUME NEW S, NEW T, NEW k \in Nat, IsFiniteSet(S), Cardinality(S) <= k, T \subseteq S
    PROVE  Cardinality(T) <= k
<1>1. Cardinality(T) <= Cardinality(S) /\ IsFiniteSet(T)
  BY FS_Subset
<1>2. Cardinality(T) \in Nat /\ Cardinality(S) \in Nat
  BY <1>1, FS_CardinalityType
<1> QED BY <1>1, <1>2

\* A set within another and six elements has at most six more.
LEMMA SixMore ==
    ASSUME NEW S, NEW i, NEW j, NEW m, NEW a, NEW b, NEW o, NEW k \in Nat, NEW T,
           IsFiniteSet(S), Cardinality(S) <= k, T \subseteq S \cup {i, j, m, a, b, o}
    PROVE  Cardinality(T) <= k + 6
<1>0. k + 3 \in Nat /\ k + 6 \in Nat /\ (k + 3) + 3 = k + 6
  OBVIOUS
<1>1. IsFiniteSet(S \cup {i, j, m}) /\ Cardinality(S \cup {i, j, m}) <= k + 3
  BY ThreeMore
<1>2. /\ IsFiniteSet((S \cup {i, j, m}) \cup {a, b, o})
      /\ Cardinality((S \cup {i, j, m}) \cup {a, b, o}) <= (k + 3) + 3
  BY <1>0, <1>1, ThreeMore
<1>3. T \subseteq (S \cup {i, j, m}) \cup {a, b, o}
  OBVIOUS
<1>4. Cardinality((S \cup {i, j, m}) \cup {a, b, o}) <= k + 6
  BY <1>0, <1>2
<1> QED BY <1>0, <1>2, <1>3, <1>4, NoMore

\* And four elements at most four.
LEMMA FourMore ==
    ASSUME NEW S, NEW i, NEW j, NEW m, NEW a, NEW k \in Nat, NEW T,
           IsFiniteSet(S), Cardinality(S) <= k, T \subseteq S \cup {i, j, m, a}
    PROVE  Cardinality(T) <= k + 4
<1>0. k + 3 \in Nat /\ k + 4 \in Nat /\ (k + 3) + 1 = k + 4
  OBVIOUS
<1>1. IsFiniteSet(S \cup {i, j, m}) /\ Cardinality(S \cup {i, j, m}) <= k + 3
  BY ThreeMore
<1>2. /\ IsFiniteSet((S \cup {i, j, m}) \cup {a})
      /\ Cardinality((S \cup {i, j, m}) \cup {a}) <= (k + 3) + 1
  BY <1>0, <1>1, OneMore
<1>3. T \subseteq (S \cup {i, j, m}) \cup {a}
  OBVIOUS
<1>4. Cardinality((S \cup {i, j, m}) \cup {a}) <= k + 4
  BY <1>0, <1>2
<1> QED BY <1>0, <1>2, <1>3, <1>4, NoMore

\* The invariant holds at the start.
LEMMA InitInv == Init => IInv
<1> SUFFICES ASSUME Init PROVE IInv
  OBVIOUS
<1>1. TypeOK
  BY InitTypes
<1>2. Owners
  BY DEF Init, Owners, Owner, Free
<1>3. Places
  BY DEF Init, Places, AnswersItsClient, PsTurn, FileTurn
<1>4. Filled
  BY DEF Init, Filled
<1>5. Clean
  BY DEF Init, Clean, Untouched, PsTurn, FileTurn, ClientTurn
<1>6. Counted
  <2>1. OfKind("spare") = {} /\ OfKind("client") = {}
    BY DEF Init, OfKind, Free
  <2> QED BY <2>1, FS_EmptySet DEF Init, Counted, Spares, Connections
<1> QED BY <1>1, <1>2, <1>3, <1>4, <1>5, <1>6 DEF IInv

\* What was hit stays hit.
LEMMA HitStays == TypeOK /\ Next => (hit => hit')
<1>1. Serve => hit' = hit
  BY DEF Serve, OpenListener, Listen, EnterAccept, Accept, EnterRead, Read,
        Dispatch, OpenPs, OpenSpare, Connect, PsWrite, EnterPsRead, PsRead, PsClose,
        OpenFile, Decode, CloseFile, Write, CloseClient, casts
<1>2. Datagrams => (hit => hit')
  BY DEF Datagrams, OpenDatagrams, BindDatagrams, Receive, OpenCast, Broadcast, CloseCast,
         DeleteCast, Destroy
<1>3. Farewell => (hit => hit')
  BY DEF Farewell, OpenFarewell, BroadcastFarewell, CloseFarewell, DeleteFarewell, Exit,
         Destroy, casts
<1> QED BY <1>1, <1>2, <1>3 DEF Next

\* As long as nothing is hit, every thread finds behind its numbers what it put there.
LEMMA CleanStep == TypeOK /\ Owners /\ Places /\ Clean /\ Next => Clean'
<1> SUFFICES ASSUME TypeOK, Owners, Places, Clean, Next, ~hit'
             PROVE  Untouched'
  BY DEF Clean
<1>1. ~hit
  BY HitStays
<1> QED BY <1>1, ServeClean, DatagramClean, FarewellClean DEF Clean, Next

\* Numbers are finitely many, whatever they stand for.
LEMMA KindsFinite ==
    ASSUME NEW kind
    PROVE  IsFiniteSet(OfKind(kind)) /\ Cardinality(OfKind(kind)) \in Nat
<1>1. IsFiniteSet(Numbers)
  <2>1. 0 \in Int /\ Limit - 1 \in Int
    BY LimitAssumption
  <2> QED BY <2>1, FS_Interval DEF Numbers
<1>2. OfKind(kind) \subseteq Numbers
  BY DEF OfKind
<1>3. IsFiniteSet(OfKind(kind))
  BY <1>1, <1>2, FS_Subset
<1> QED BY <1>3, FS_CardinalityType

\* One number more of a kind.
LEMMA OneMoreOfKind ==
    ASSUME NEW kind, NEW n, n \notin OfKind(kind)
    PROVE  Cardinality(OfKind(kind) \cup {n}) = Cardinality(OfKind(kind)) + 1
BY KindsFinite, FS_AddElement

\* An open adds its number to the numbers of its kind and to no other.
LEMMA KindOpened ==
    ASSUME fd \in [Numbers -> Slots], NEW slot \in Slots, Opened(slot),
           NEW kind, kind # "free"
    PROVE  /\ Lowest \notin OfKind(kind)
           /\ slot[1] = kind => OfKind(kind)' = OfKind(kind) \cup {Lowest}
           /\ slot[1] # kind => OfKind(kind)' = OfKind(kind)
<1>1. /\ Lowest \in Numbers /\ fd[Lowest] = Free /\ fd'[Lowest] = slot
      /\ \A n \in Numbers : n # Lowest => fd'[n] = fd[n]
  BY OpenedSlot
<1>2. fd[Lowest][1] = "free"
  BY <1>1 DEF Free
<1> HIDE DEF Lowest
<1> QED BY <1>1, <1>2 DEF OfKind

\* A close takes its number from the kind it was of.
LEMMA KindClosed ==
    ASSUME fd \in [Numbers -> Slots], NEW n \in Numbers, fd' = [fd EXCEPT ![n] = Free],
           NEW kind, kind # "free", fd[n][1] # kind
    PROVE  OfKind(kind)' = OfKind(kind)
<1>1. fd'[n] = Free /\ \A m \in Numbers : m # n => fd'[m] = fd[m]
  BY ClosedSlot
<1>2. fd'[n][1] = "free"
  BY <1>1 DEF Free
<1> QED BY <1>1, <1>2 DEF OfKind

\* What a step can do to the table and to the two counters.
Quiet == UNCHANGED <<program, turns, relayed>>
Kept == fd' = fd /\ Quiet
OpenedOther ==
    /\ \E slot \in Slots : slot[1] \notin {"spare", "client", "free"} /\ Opened(slot)
    /\ Quiet
ClosedOther ==
    /\ \E n \in Numbers :
        /\ fd' = [fd EXCEPT ![n] = Free]
        /\ fd[n][1] # "spare"
        /\ program = "testcase" => fd[n][1] # "client"
    /\ Quiet
OpenedClient ==
    /\ Opened(<<"client", turns + 1>>) /\ turns < MaxTurns
    /\ turns' = turns + 1 /\ UNCHANGED <<program, relayed>>
OpenedSpare ==
    /\ Opened(<<"spare", 0>>)
    /\ relayed' = relayed + 1 /\ UNCHANGED <<program, turns>>

\* Each of these keeps the count.
LEMMA CountKept ==
    ASSUME TypeOK, Counted, ~hit,
           Kept \/ OpenedOther \/ ClosedOther \/ OpenedClient \/ OpenedSpare
    PROVE  Counted'
<1>1. /\ Cardinality(Spares) = relayed
      /\ program = "testcase" => Cardinality(Connections) = turns
      /\ fd \in [Numbers -> Slots] /\ program' = program
  BY DEF Counted, TypeOK, Kept, OpenedOther, ClosedOther, OpenedClient, OpenedSpare, Quiet
<1>2. CASE Kept
  <2>1. Spares' = Spares /\ Connections' = Connections
    BY <1>2 DEF Kept, Spares, Connections, OfKind
  <2> QED BY <1>1, <1>2, <2>1 DEF Counted, Kept, Quiet
<1>3. CASE OpenedOther
  <2>1. PICK slot \in Slots : slot[1] \notin {"spare", "client", "free"} /\ Opened(slot)
    BY <1>3 DEF OpenedOther
  <2>2. Spares' = Spares /\ Connections' = Connections
    BY <1>1, <2>1, KindOpened DEF Spares, Connections
  <2> QED BY <1>1, <1>3, <2>2 DEF Counted, OpenedOther, Quiet
<1>4. CASE ClosedOther
  <2>1. PICK n \in Numbers :
          /\ fd' = [fd EXCEPT ![n] = Free]
          /\ fd[n][1] # "spare"
          /\ program = "testcase" => fd[n][1] # "client"
    BY <1>4 DEF ClosedOther
  <2>2. Spares' = Spares
    BY <1>1, <2>1, KindClosed DEF Spares
  <2>3. program = "testcase" => Connections' = Connections
    BY <1>1, <2>1, KindClosed DEF Connections
  <2> QED BY <1>1, <1>4, <2>2, <2>3 DEF Counted, ClosedOther, Quiet
<1>5. CASE OpenedClient
  <2>1. <<"client", turns + 1>> \in Slots /\ Opened(<<"client", turns + 1>>)
    BY <1>5, OpenedKinds DEF OpenedClient
  <2>2. <<"client", turns + 1>>[1] = "client"
    OBVIOUS
  <2>3. /\ Lowest \notin Connections
        /\ Connections' = Connections \cup {Lowest} /\ Spares' = Spares
    BY <1>1, <2>1, <2>2, KindOpened DEF Spares, Connections
  <2>4. Cardinality(Connections') = Cardinality(Connections) + 1
    BY <2>3, OneMoreOfKind DEF Connections
  <2>5. turns' = turns + 1 /\ relayed' = relayed
    BY <1>5 DEF OpenedClient
  <2> QED BY <1>1, <2>3, <2>4, <2>5 DEF Counted
<1>6. CASE OpenedSpare
  <2>1. <<"spare", 0>> \in Slots /\ Opened(<<"spare", 0>>)
    BY <1>6, OpenedKinds DEF OpenedSpare
  <2>2. <<"spare", 0>>[1] = "spare"
    OBVIOUS
  <2>3. /\ Lowest \notin Spares
        /\ Spares' = Spares \cup {Lowest} /\ Connections' = Connections
    BY <1>1, <2>1, <2>2, KindOpened DEF Spares, Connections
  <2>4. Cardinality(Spares') = Cardinality(Spares) + 1
    BY <2>3, OneMoreOfKind DEF Spares
  <2>5. turns' = turns /\ relayed' = relayed + 1
    BY <1>6 DEF OpenedSpare
  <2> QED BY <1>1, <2>3, <2>4, <2>5 DEF Counted
<1> QED BY <1>2, <1>3, <1>4, <1>5, <1>6

\* The serving thread, unhit, opens and closes what it means to.
LEMMA ServeCounts ==
    ASSUME TypeOK, Places, Untouched, Serve
    PROVE  Kept \/ OpenedOther \/ ClosedOther \/ OpenedClient \/ OpenedSpare
<1>1. CASE Listen \/ EnterAccept \/ EnterRead \/ Read \/ Dispatch \/ PsWrite
           \/ EnterPsRead \/ PsRead \/ Decode \/ Write
  BY <1>1 DEF Kept, Quiet, Listen, EnterAccept, EnterRead, Read, Dispatch, PsWrite,
      EnterPsRead, PsRead, Decode, Write, numbers, count
<1>2. CASE OpenListener
  <2>1. Opened(<<"listen", 0>>) /\ Quiet
    BY <1>2 DEF OpenListener, Quiet, count
  <2> QED BY <2>1, OpenedKinds DEF OpenedOther
<1>3. CASE Accept
  BY <1>3 DEF Accept, NoneLeft, Kept, Quiet, OpenedClient
<1>4. CASE OpenPs
  <2>1. (Opened(<<"ps", turns>>) \/ fd' = fd) /\ Quiet
    BY <1>4 DEF OpenPs, NoneLeft, Quiet, count
  <2> QED BY <2>1, OpenedKinds DEF OpenedOther, Kept
<1>5. CASE OpenSpare
  BY <1>5 DEF OpenSpare, NoneLeft, Kept, Quiet, OpenedSpare
<1>6. CASE Connect
  <2>1. fd[p] = <<"ps", turns>>
    BY <1>6 DEF Untouched, Connect, Serving, PsTurn
  <2>2. fd' = fd
    BY <1>6, <2>1 DEF Connect, TypeOK
  <2> QED BY <1>6, <2>2 DEF Connect, Kept, Quiet, count
<1>7. CASE PsClose
  <2>1. fd' = [fd EXCEPT ![p] = Free] /\ p \in Numbers /\ Quiet
    BY <1>7 DEF PsClose, Close, TypeOK, Quiet, count
  <2>2. fd[p] = <<"ps", turns>>
    BY <1>7 DEF Untouched, PsClose, Serving, PsTurn
  <2>3. fd[p][1] = "ps"
    BY <2>2
  <2> QED BY <2>1, <2>3 DEF ClosedOther
<1>8. CASE OpenFile
  <2>1. (Opened(<<"file", turns>>) \/ fd' = fd) /\ Quiet
    BY <1>8 DEF OpenFile, Quiet
  <2> QED BY <2>1, OpenedKinds DEF OpenedOther, Kept
<1>9. CASE CloseFile
  <2>1. fd' = [fd EXCEPT ![f] = Free] /\ f \in Numbers /\ Quiet
    BY <1>9 DEF CloseFile, TypeOK, Quiet, count
  <2>2. fd[f] = <<"file", turns>>
    BY <1>9 DEF Untouched, CloseFile, Serving, FileTurn
  <2>3. fd[f][1] = "file"
    BY <2>2
  <2> QED BY <2>1, <2>3 DEF ClosedOther
<1>10. CASE CloseClient
  <2>1. fd' = [fd EXCEPT ![c] = Free] /\ c \in Numbers /\ Quiet
    BY <1>10 DEF CloseClient, Close, TypeOK, Quiet, count
  <2>2. fd[c] = <<"client", turns>>
    BY <1>10 DEF Untouched, CloseClient, Serving, ClientTurn
  <2>3. fd[c][1] = "client"
    BY <2>2
  <2>4. program # "testcase"
    BY <1>10 DEF CloseClient, Serving, Places
  <2> QED BY <2>1, <2>3, <2>4 DEF ClosedOther
<1> QED BY <1>1, <1>2, <1>3, <1>4, <1>5, <1>6, <1>7, <1>8, <1>9, <1>10 DEF Serve

\* So does the datagram thread: its second close, without a hit, closes nothing.
LEMMA DatagramCounts ==
    ASSUME TypeOK, Untouched, Datagrams, ~hit, ~hit'
    PROVE  Kept \/ OpenedOther \/ ClosedOther
<1>1. CASE OpenDatagrams
  <2>1. (Opened(<<"udp", 0>>) \/ fd' = fd) /\ Quiet
    BY <1>1 DEF OpenDatagrams, NoneLeft, Quiet, server, count
  <2> QED BY <2>1, OpenedKinds DEF OpenedOther, Kept
<1>2. CASE Receive \/ Broadcast \/ BindDatagrams
  BY <1>2 DEF Receive, Broadcast, BindDatagrams, Kept, Quiet, server, count
<1>3. CASE OpenCast
  <2>1. (Opened(<<"cast", 0>>) \/ fd' = fd) /\ Quiet
    BY <1>3 DEF OpenCast, NoneLeft, Quiet, server, count
  <2> QED BY <2>1, OpenedKinds DEF OpenedOther, Kept
<1>4. CASE CloseCast
  <2>1. fd' = [fd EXCEPT ![d] = Free] /\ d \in Numbers /\ Quiet
    BY <1>4 DEF CloseCast, Close, TypeOK, Quiet, server, count
  <2>2. fd[d] = <<"cast", 0>>
    BY <1>4 DEF Untouched, CloseCast, Receiving
  <2>3. fd[d][1] = "cast"
    BY <2>2
  <2> QED BY <2>1, <2>3 DEF ClosedOther
<1>5. CASE DeleteCast
  <2>1. fd[d] = Free /\ fd' = [fd EXCEPT ![d] = Free] /\ Quiet
    BY <1>5 DEF DeleteCast, Destroy, Close, Quiet, server, count
  <2>2. fd' = fd
    BY <2>1 DEF TypeOK
  <2> QED BY <2>1, <2>2 DEF Kept
<1> QED BY <1>1, <1>2, <1>3, <1>4, <1>5 DEF Datagrams

\* And the main thread.
LEMMA FarewellCounts ==
    ASSUME TypeOK, Untouched, Farewell, ~hit, ~hit'
    PROVE  Kept \/ OpenedOther \/ ClosedOther
<1>1. Quiet
  BY DEF Farewell, OpenFarewell, BroadcastFarewell, CloseFarewell, DeleteFarewell, Exit,
         Quiet, casts, server, count
<1>2. CASE OpenFarewell
  <2>1. Opened(<<"farewell", 0>>) \/ fd' = fd
    BY <1>2 DEF OpenFarewell, NoneLeft
  <2> QED BY <1>1, <2>1, OpenedKinds DEF OpenedOther, Kept
<1>3. CASE BroadcastFarewell \/ Exit
  BY <1>1, <1>3 DEF BroadcastFarewell, Exit, Kept
<1>4. CASE CloseFarewell
  <2>1. fd' = [fd EXCEPT ![e] = Free] /\ e \in Numbers
    BY <1>4 DEF CloseFarewell, Close, TypeOK
  <2>2. fd[e] = <<"farewell", 0>>
    BY <1>4 DEF Untouched, CloseFarewell, Signalled
  <2>3. fd[e][1] = "farewell"
    BY <2>2
  <2> QED BY <1>1, <2>1, <2>3 DEF ClosedOther
<1>5. CASE DeleteFarewell
  <2>1. fd[e] = Free /\ fd' = [fd EXCEPT ![e] = Free]
    BY <1>5 DEF DeleteFarewell, Destroy, Close
  <2>2. fd' = fd
    BY <2>1 DEF TypeOK
  <2> QED BY <1>1, <2>2 DEF Kept
<1> QED BY <1>2, <1>3, <1>4, <1>5 DEF Farewell

\* As long as nothing was hit the leaks are counted.
LEMMA CountedStep == TypeOK /\ Places /\ Clean /\ Counted /\ Next => Counted'
<1> SUFFICES ASSUME TypeOK, Places, Clean, Counted, Next, ~hit' PROVE Counted'
  BY DEF Counted
<1>1. ~hit /\ Untouched
  BY HitStays DEF Clean
<1> QED BY <1>1, ServeCounts, DatagramCounts, FarewellCounts, CountKept DEF Next

\* A table ends the program only when it is full.
LEMMA EndedFull ==
    ASSUME Next, end' = "full"
    PROVE  NoneLeft /\ UNCHANGED <<program, turns, relayed>>
<1>1. CASE Serve
  <2>1. OpenListener \/ Listen \/ EnterAccept \/ EnterRead \/ Read \/ Dispatch
            \/ Connect \/ PsWrite \/ EnterPsRead \/ PsRead => FALSE
    BY DEF OpenListener, Listen, EnterAccept, EnterRead, Read, Dispatch, Connect, PsWrite,
           EnterPsRead, PsRead, Serving, Die
  <2>2. PsClose \/ OpenFile \/ Decode \/ CloseFile \/ Write \/ CloseClient => FALSE
    BY DEF PsClose, OpenFile, Decode, CloseFile, Write, CloseClient, Serving, Die, Close
  <2>3. Accept \/ OpenPs \/ OpenSpare => NoneLeft /\ UNCHANGED <<program, turns, relayed>>
    BY DEF Accept, OpenPs, OpenSpare, Serving, count
  <2> QED BY <1>1, <2>1, <2>2, <2>3 DEF Serve
<1>2. CASE Datagrams
  <2>1. BindDatagrams \/ Receive \/ Broadcast \/ CloseCast \/ DeleteCast => FALSE
    BY DEF BindDatagrams, Receive, Broadcast, CloseCast, DeleteCast, Destroy, SendOn,
           Receiving, Die, Close
  <2>2. OpenDatagrams \/ OpenCast => NoneLeft /\ UNCHANGED <<program, turns, relayed>>
    BY DEF OpenDatagrams, OpenCast, Receiving, server, count
  <2> QED BY <1>2, <2>1, <2>2 DEF Datagrams
<1>3. CASE Farewell
  <2>1. BroadcastFarewell \/ CloseFarewell \/ DeleteFarewell \/ Exit => FALSE
    BY DEF BroadcastFarewell, CloseFarewell, DeleteFarewell, Exit, Destroy, SendOn,
           Signalled, Die, Close
  <2>2. OpenFarewell => NoneLeft /\ UNCHANGED <<program, turns, relayed>>
    BY DEF OpenFarewell, Signalled, server, count
  <2> QED BY <1>3, <2>1, <2>2 DEF Farewell
<1> QED BY <1>1, <1>2, <1>3 DEF Next

\* A full table that was never hit is full of what the program has lost.
LEMMA LeaksFillIt ==
    ASSUME TypeOK, Owners, Places, Counted, ~hit, Full, program # "pieces"
    PROVE  FullOfLeaks
<1>1. Cardinality(Used) = Limit /\ Limit \in Nat
  <2>1. 0 \in Int /\ Limit - 1 \in Int /\ Limit \in Nat /\ ~(0 > Limit - 1)
        /\ Limit - 1 - 0 + 1 = Limit
    BY LimitAssumption
  <2>2. Cardinality(0..(Limit - 1)) = IF 0 > Limit - 1 THEN 0 ELSE (Limit - 1) - 0 + 1
    BY <2>1, FS_Interval
  <2>3. Used = 0..(Limit - 1)
    BY DEF Full, Numbers
  <2> QED BY <2>1, <2>2, <2>3
<1>a. IsFiniteSet(Spares) /\ IsFiniteSet(Connections)
  BY KindsFinite DEF Spares, Connections
<1>b. /\ Cardinality(Spares) = relayed
      /\ program = "testcase" => Cardinality(Connections) = turns
  BY DEF Counted
<1>c. relayed \in Nat /\ turns \in 0..MaxTurns
  BY DEF TypeOK
<1>2. relayed \in Nat /\ turns \in Nat
  BY <1>c, TurnsAssumption
<1>3. \A n \in Used : Owner(n) /\ fd[n][1] \in Kinds /\ n \in Numbers /\ fd[n] # Free
  BY DEF Owners, Used, TypeOK, Slots
<1>4. CASE program = "intermediate"
  <2>1. tpc \notin FileTurn
    BY <1>4 DEF Places
  <2>2. Used \subseteq Spares \cup {l, u, c, p, d, e}
    BY <1>3, <1>4, <2>1 DEF Owner, Kinds, Spares, OfKind
  <2>a. Cardinality(Spares) <= relayed
    BY <1>b, <1>2
  <2>3. Cardinality(Used) <= relayed + 6
    BY <1>a, <1>2, <2>a, <2>2, SixMore
  <2> QED BY <1>1, <1>2, <1>4, <2>3 DEF FullOfLeaks
<1>5. CASE program = "testcase"
  <2>1. tpc \notin FileTurn /\ tpc \notin PsTurn /\ program # "intermediate"
    BY <1>5 DEF Places
  <2>2. Used \subseteq Connections \cup {l, u, d, e}
    BY <1>3, <2>1 DEF Owner, Kinds, Connections, OfKind
  <2>a. Cardinality(Connections) <= turns
    BY <1>b, <1>2, <1>5
  <2>3. Cardinality(Used) <= turns + 4
    BY <1>a, <1>2, <2>a, <2>2, FourMore
  <2> QED BY <1>1, <1>2, <1>5, <2>3 DEF FullOfLeaks
<1> QED BY <1>4, <1>5 DEF TypeOK, Programs

\* Only the leaks fill a table that was never hit.
LEMMA FilledStep ==
    ASSUME TypeOK, Owners, Places, Counted, Next, Places'
    PROVE  Filled'
<1> SUFFICES ASSUME ~hit', end' = "full" PROVE FullOfLeaks'
  BY DEF Filled
<1>1. ~hit /\ Full /\ UNCHANGED <<program, turns, relayed>>
  BY HitStays, EndedFull DEF NoneLeft
<1>2. program # "pieces"
  BY <1>1 DEF Places
<1>3. FullOfLeaks
  BY <1>1, <1>2, LeaksFillIt
<1> QED BY <1>1, <1>3 DEF FullOfLeaks

\* Every step keeps the invariant.
LEMMA StepInv == IInv /\ [Next]_vars => IInv'
<1> SUFFICES ASSUME IInv, [Next]_vars PROVE IInv'
  OBVIOUS
<1>0. TypeOK /\ Owners /\ Places /\ Clean /\ Counted /\ Filled
  BY DEF IInv
<1>1. CASE Next
  <2>1. TypeOK'
    BY <1>0, <1>1, ServeTypes, DatagramTypes, FarewellTypes DEF Next
  <2>2. Owners'
    BY <1>0, <1>1, ServeOwners, DatagramOwners, FarewellOwners DEF Next
  <2>3. Places'
    BY <1>0, <1>1, ServePlaces, DatagramPlaces, FarewellPlaces DEF Next
  <2>4. Filled'
    BY <1>0, <1>1, <2>3, FilledStep
  <2>5. Clean'
    BY <1>0, <1>1, CleanStep
  <2>6. Counted'
    BY <1>0, <1>1, CountedStep
  <2> QED BY <2>1, <2>2, <2>3, <2>4, <2>5, <2>6 DEF IInv
<1>2. CASE UNCHANGED vars
  <2>1. TypeOK'
    BY <1>0, <1>2 DEF TypeOK, vars
  <2>2. Owners'
    BY <1>0, <1>2 DEF Owners, Owner, vars
  <2>3. Places'
    BY <1>0, <1>2 DEF Places, AnswersItsClient, vars
  <2>4. Filled' /\ Clean'
    BY <1>0, <1>2 DEF Filled, FullOfLeaks, Clean, Untouched, vars
  <2>5. Counted'
    BY <1>0, <1>2 DEF Counted, Spares, Connections, OfKind, vars
  <2> QED BY <2>1, <2>2, <2>3, <2>4, <2>5 DEF IInv
<1> QED BY <1>1, <1>2

\* The invariant holds in every state of every behaviour.
LEMMA Invariant == Spec => []IInv
BY InitInv, StepInv, PTL DEF Spec

\* Every variable keeps its type (InitVSocket, Close and the two threads).
THEOREM DescriptorTypes == Spec => []TypeOK
<1>1. IInv => TypeOK
  BY DEF IInv
<1> QED BY <1>1, Invariant, PTL

(* Answers go to the connection of their own turn, for every size of the     *)
(* table (listen_client, listen_intermediate).                               *)
THEOREM AnswersGoHome == Spec => []AnswersItsClient
<1>1. IInv => AnswersItsClient
  BY DEF IInv, Places
<1> QED BY <1>1, Invariant, PTL

(* Before the destructor of send_broadcast has closed a number that another  *)
(* thread opened, calls fail only for want of a number and only because of   *)
(* the leaks, no thread hangs and every answer is right.                     *)
THEOREM HarmIsOneHitAway == Spec => []HarmNeedsAHit
<1>1. IInv => HarmNeedsAHit
  BY DEF IInv, Clean, Untouched, Filled, HarmNeedsAHit
<1> QED BY <1>1, Invariant, PTL

\* The pieces server holds at most six numbers (listen_intermediate, enviarSignal).
THEOREM ServerHoldsSix == Spec => []ServerNeverFills
<1>1. IInv => ServerNeverFills
  <2> SUFFICES ASSUME IInv, program = "pieces"
               PROVE  Cardinality(Used) <= 6 /\ end # "full"
    BY DEF ServerNeverFills
  <2>1. Used \subseteq {} \cup {l, u, c, f, d, e}
    BY ServerHolds DEF IInv
  <2>a. IsFiniteSet({}) /\ Cardinality({}) <= 0 /\ 0 \in Nat
    BY FS_EmptySet
  <2>2. Cardinality(Used) <= 0 + 6
    BY <2>1, <2>a, SixMore
  <2>b. 0 + 6 = 6
    OBVIOUS
  <2>3. end # "full"
    BY DEF IInv, Places
  <2> QED BY <2>2, <2>b, <2>3
<1> QED BY <1>1, Invariant, PTL

(* Without a hit the intermediate loses one number for every request it      *)
(* relays and test case 1 one for every client; nothing else stays open      *)
(* (listen_client, request_ps).                                              *)
THEOREM LeaksCounted == Spec => []LeaksOnePerRelay
<1>1. IInv => LeaksOnePerRelay
  <2> SUFFICES ASSUME IInv, ~hit
               PROVE  /\ Cardinality(OfKind("spare")) = relayed
                      /\ tpc = "accept" =>
                            Cardinality(OfKind("client"))
                                = IF program = "testcase" THEN turns ELSE 0
                      /\ tpc = "accept" => OfKind("ps") = {} /\ OfKind("file") = {}
    BY DEF LeaksOnePerRelay
  <2>1. /\ Cardinality(OfKind("spare")) = relayed
        /\ program = "testcase" => Cardinality(OfKind("client")) = turns
    BY DEF IInv, Counted, Spares, Connections
  <2>2. ASSUME tpc = "accept"
        PROVE  /\ OfKind("ps") = {} /\ OfKind("file") = {}
               /\ program # "testcase" => OfKind("client") = {}
    <3>1. tpc \notin PsTurn /\ tpc \notin FileTurn /\ tpc \notin ClientTurn
      BY <2>2 DEF PsTurn, FileTurn, ClientTurn
    <3>2. \A n \in Numbers : Owner(n)
      BY DEF IInv, Owners
    <3> QED BY <3>1, <3>2 DEF Owner, OfKind
  <2> QED BY <2>1, <2>2, FS_EmptySet
<1> QED BY <1>1, Invariant, PTL
=============================================================================
