---------------------------- MODULE Descriptors -----------------------------
(***************************************************************************)
(* The file descriptors of one run of the intermediate or of the pieces    *)
(* server.  Each has a thread that serves connections in turn, a thread    *)
(* that receives datagrams and answers some of them with send_broadcast,   *)
(* and the main thread, in which SIGINT calls send_broadcast too, before   *)
(* it ends the process.  The threads share nothing but the process's table *)
(* of descriptors, in which the kernel always takes the lowest free        *)
(* number; but a Socket keeps only a number, and send_broadcast closes its *)
(* number twice: with Close, and again in the destructor that delete calls.*)
(*                                                                         *)
(* The network does what it should: every connect() succeeds, every peer   *)
(* answers (Query has the other cases), so whatever goes wrong here comes  *)
(* from the numbers.  Only two calls wait long enough to matter, accept()  *)
(* and read(): each looks its number up when it begins and keeps the       *)
(* socket it found, so it is two steps.                                    *)
(***************************************************************************)
EXTENDS Naturals, Sequences, FiniteSets

CONSTANTS
    Limit,          \* numbers of the table (RLIMIT_NOFILE)
    CloseMayThrow,  \* may Close read -1 in the variable it never assigns?
    MaxTurns        \* bound: connections accepted

ASSUME LimitAssumption == Limit \in Nat /\ Limit >= 6

ASSUME CloseAssumption == CloseMayThrow \in BOOLEAN

ASSUME TurnsAssumption == MaxTurns \in Nat

VARIABLES
    program,        \* which of the programs this is
    end,            \* "none" while it runs, then why it ended
    fd,             \* fd[n]: what number n stands for
    tpc, dpc, mpc,  \* where the three threads are
    l, c, p, f,     \* numbers of the serving thread: server_socket (tcp_s),
                    \* client_socket (interm_s), s_ps, the JSON file
    u, d,           \* numbers of the datagram thread: its socket, udp_s
    e,              \* number of the main thread: udp_s
    turns, relayed, \* connections accepted, requests relayed
    page,           \* what this turn has for its client: right or wrong
    sent,           \* where the answer of this turn went, and which
    known,          \* ps_ip # "" (inter_ip # "")
    hit,            \* a destructor closed what another thread had opened
    stray           \* an S or E that did not go out as a broadcast

vars == <<program, end, fd, tpc, dpc, mpc, l, c, p, f, u, d, e, turns, relayed, page,
          sent, known, hit, stray>>

numbers == <<l, c, p, f>>
count == <<turns, relayed, page, sent>>
server == <<tpc, numbers, count>>
casts == <<dpc, u, d, known, mpc, e, hit, stray>>

Programs == {"intermediate", "testcase", "pieces"}
Numbers == 0..(Limit - 1)
Kinds == {"free", "listen", "udp", "client", "ps", "spare", "file", "cast", "farewell"}
Datagram == {"udp", "cast", "farewell"}
Slots == Kinds \X (0..MaxTurns)
Free == <<"free", 0>>
Nowhere == <<Free, "right">>

Used == {n \in Numbers : fd[n] # Free}
Full == Used = Numbers
Lowest == CHOOSE n \in Numbers : fd[n] = Free /\ \A m \in 0..(n - 1) : fd[m] # Free

\* Mutant of NoNumber: a mark that is no number.
NoNumberMarked == Limit

\* What a number that was never assigned is initialised with.
NoNumber == 0

Init ==
    /\ program \in Programs
    /\ end = "none"
    /\ fd = [n \in Numbers |-> Free]
    /\ tpc = "start" /\ dpc = "start" /\ mpc = "wait"
    /\ l = NoNumber /\ c = NoNumber /\ p = NoNumber /\ f = NoNumber
    /\ u = NoNumber /\ d = NoNumber /\ e = NoNumber
    /\ turns = 0 /\ relayed = 0 /\ page = "right" /\ sent = Nowhere
    /\ known = FALSE /\ hit = FALSE /\ stray = FALSE
-----------------------------------------------------------------------------
\* An uncaught exception or a signal ends all threads.
Die(why) == end' = why

\* socket(), accept(), open(): the lowest free number.
Opened(slot) == ~Full /\ fd' = [fd EXCEPT ![Lowest] = slot]

\* InitVSocket and DoAccept throw if there is none.
NoneLeft == Full /\ Die("full") /\ UNCHANGED fd

\* VSocket::Close: what the number stands for now, and perhaps an exception.
Close(n) ==
    /\ fd' = [fd EXCEPT ![n] = Free]
    /\ end' \in IF CloseMayThrow THEN {end, "close"} ELSE {end}

\* ~VSocket closes again: a hit, if the number stands for something by now.
Destroy(n) == hit' = (hit \/ fd[n] # Free) /\ Close(n)

\* A TCP socket that is not connected: to write on it raises SIGPIPE.
Unconnected(n) ==
    \/ fd[n][1] \in {"listen", "spare"}
    \/ fd[n][1] = "ps" /\ tpc \in {"spare", "connect"}

(* Broadcast keeps its results in a size_t, so no failure is noticed; on a   *)
(* connection sendto() ignores the address and the letter goes to the peer.  *)
SendOn(n) ==
    IF Unconnected(n)
    THEN Die("exception") /\ UNCHANGED stray
    ELSE stray' = (stray \/ fd[n][1] \notin Datagram) /\ UNCHANGED end

Serving(at) == end = "none" /\ tpc = at
Receiving(at) == end = "none" /\ dpc = at
Signalled(at) == end = "none" /\ mpc = at

\* The datagram thread reads from number n what is meant for another.
TakenFrom(n) == u = n /\ dpc # "start"
-----------------------------------------------------------------------------
(* listen_client (intermediate) and listen_intermediate (pieces server).     *)

\* The table is almost empty when the thread starts.
OpenListener ==
    /\ Serving("start")
    /\ Opened(<<"listen", 0>>)
    /\ l' = Lowest
    /\ tpc' = "listen"
    /\ UNCHANGED <<program, end, c, p, f, count, casts>>

(* Bind and Listen throw on a number that was closed, and if the datagram    *)
(* thread has bound this socket for its own.                                 *)
Listen ==
    /\ Serving("listen")
    /\ \/ fd[l][1] = "listen" /\ tpc' = "accept" /\ UNCHANGED end
       \/ /\ fd[l][1] # "listen" \/ TakenFrom(l)
          /\ Die("exception")
          /\ UNCHANGED tpc
    /\ UNCHANGED <<program, fd, numbers, count, casts>>

EnterAccept ==
    /\ Serving("accept")
    /\ \/ fd[l][1] = "listen" /\ tpc' = "accepting" /\ UNCHANGED end
       \/ fd[l][1] # "listen" /\ Die("exception") /\ UNCHANGED tpc
    /\ UNCHANGED <<program, fd, numbers, count, casts>>

Accept ==
    /\ Serving("accepting")
    /\ \/ /\ turns < MaxTurns
          /\ Opened(<<"client", turns + 1>>)
          /\ c' = Lowest
          /\ turns' = turns + 1
          /\ page' = "right" /\ sent' = Nowhere
          /\ tpc' = "read"
          /\ UNCHANGED end
       \/ /\ NoneLeft
          /\ UNCHANGED <<tpc, c, turns, page, sent>>
    /\ UNCHANGED <<program, l, p, f, relayed, casts>>

(* A read() that found its socket waits for the request.  On a number that   *)
(* stands for nothing it fails, and throws or not: the field timeout of an   *)
(* accepted Socket was never assigned.  On the socket of a broadcast it      *)
(* waits for ever; on that of the datagrams too, or a datagram comes, or the *)
(* time-out of the pieces server's.                                          *)
EnterRead ==
    /\ Serving("read")
    /\ \/ /\ fd[c][1] = "client"
          /\ tpc' = "reading"
          /\ UNCHANGED <<end, page>>
       \/ /\ fd[c][1] \in {"free", "udp"}
          /\ \/ tpc' = "dispatch" /\ page' = "wrong" /\ UNCHANGED end
             \/ Die("exception") /\ UNCHANGED <<tpc, page>>
       \/ /\ fd[c][1] \notin {"client", "free"}
          /\ tpc' = "stuck"
          /\ UNCHANGED <<end, page>>
    /\ UNCHANGED <<program, fd, numbers, turns, relayed, sent, casts>>

Read ==
    /\ Serving("reading")
    /\ page' \in IF TakenFrom(c) THEN {page, "wrong"} ELSE {page}
    /\ tpc' = "dispatch"
    /\ UNCHANGED <<program, end, fd, numbers, turns, relayed, sent, casts>>
-----------------------------------------------------------------------------
(* The rest of a turn of the intermediate.                                   *)

(* An error or the menu, or the relay; test case 1 goes to sleep and takes   *)
(* the next connection without closing this one.                             *)
Dispatch ==
    /\ Serving("dispatch")
    /\ \/ program = "intermediate" /\ tpc' \in {"write", "s_ps"}
       \/ program = "testcase" /\ tpc' = "accept"
       \/ program = "pieces" /\ tpc' = "open"
    /\ UNCHANGED <<program, end, fd, numbers, count, casts>>

OpenPs ==
    /\ Serving("s_ps")
    /\ \/ Opened(<<"ps", turns>>) /\ p' = Lowest /\ tpc' = "spare" /\ UNCHANGED end
       \/ NoneLeft /\ UNCHANGED <<tpc, p>>
    /\ UNCHANGED <<program, l, c, f, count, casts>>

\* The second socket of request_ps, which nothing uses and nothing closes.
OpenSpare ==
    /\ Serving("spare")
    /\ \/ Opened(<<"spare", 0>>) /\ relayed' = relayed + 1 /\ tpc' = "connect"
          /\ UNCHANGED end
       \/ NoneLeft /\ UNCHANGED <<tpc, relayed>>
    /\ UNCHANGED <<program, numbers, turns, page, sent, casts>>

\* Connects whatever socket the number stands for, the second one too.
Connect ==
    /\ Serving("connect")
    /\ \/ /\ fd[p][1] \in {"ps", "spare"}
          /\ fd' = [fd EXCEPT ![p] = <<"ps", turns>>]
          /\ tpc' = "psWrite"
          /\ UNCHANGED end
       \/ fd[p][1] \in Datagram /\ tpc' = "psWrite" /\ UNCHANGED <<end, fd>>
       \/ /\ fd[p][1] \notin {"ps", "spare"} \cup Datagram
          /\ Die("exception")
          /\ UNCHANGED <<fd, tpc>>
    /\ UNCHANGED <<program, numbers, count, casts>>

\* A datagram socket takes the request if Connect has connected it.
PsWrite ==
    /\ Serving("psWrite")
    /\ \/ fd[p][1] \in {"ps"} \cup Datagram /\ tpc' = "psRead" /\ UNCHANGED end
       \/ fd[p][1] # "ps" /\ Die("exception") /\ UNCHANGED tpc
    /\ UNCHANGED <<program, fd, numbers, count, casts>>

(* With SetTimeout a failed read is a time-out: the client gets that answer. *)
(* But the time-out is the socket's that had the number then: on another one *)
(* the read may wait for ever.                                               *)
EnterPsRead ==
    /\ Serving("psRead")
    /\ \/ fd[p][1] = "ps" /\ tpc' = "psReading" /\ UNCHANGED page
       \/ fd[p][1] # "ps" /\ tpc' = "psClose" /\ page' = "wrong"
       \/ fd[p][1] \in Datagram /\ tpc' = "stuck" /\ UNCHANGED page
    /\ UNCHANGED <<program, end, fd, numbers, turns, relayed, sent, casts>>

PsRead ==
    /\ Serving("psReading")
    /\ page' \in IF TakenFrom(p) THEN {page, "wrong"} ELSE {page}
    /\ tpc' = "psClose"
    /\ UNCHANGED <<program, end, fd, numbers, turns, relayed, sent, casts>>

\* Mutant of PsClose: it closes client_socket.
PsClosesClient ==
    /\ Serving("psClose")
    /\ Close(c)
    /\ tpc' = "write"
    /\ UNCHANGED <<program, numbers, count, casts>>

\* Mutant of PsClose: request_ps returns without it.
PsForgetsClose ==
    /\ Serving("psClose")
    /\ tpc' = "write"
    /\ UNCHANGED <<program, end, fd, numbers, count, casts>>

PsClose ==
    /\ Serving("psClose")
    /\ Close(p)
    /\ tpc' = "write"
    /\ UNCHANGED <<program, numbers, count, casts>>
-----------------------------------------------------------------------------
(* The rest of a turn of the pieces server.                                  *)

\* The file, or none; without a free number any file looks missing.
OpenFile ==
    /\ Serving("open")
    /\ \/ Opened(<<"file", turns>>) /\ f' = Lowest /\ tpc' = "decode" /\ UNCHANGED page
       \/ /\ page' \in IF Full THEN {page, "wrong"} ELSE {page}
          /\ tpc' = "write"
          /\ UNCHANGED <<fd, f>>
    /\ UNCHANGED <<program, end, l, c, p, turns, relayed, sent, casts>>

(* file >> root.  If the number was closed the text ends early: jsoncpp      *)
(* throws, unless everything had been read.  A datagram socket has other     *)
(* text, or none for ever.                                                   *)
Decode ==
    /\ Serving("decode")
    /\ \/ fd[f][1] \in {"file", "free", "udp"} /\ tpc' = "closeFile" /\ UNCHANGED end
       \/ fd[f][1] \in {"free", "udp"} /\ Die("exception") /\ UNCHANGED tpc
       \/ fd[f][1] \notin {"file", "free"} /\ tpc' = "stuck" /\ UNCHANGED end
    /\ UNCHANGED <<program, fd, numbers, count, casts>>

CloseFile ==
    /\ Serving("closeFile")
    /\ fd' = [fd EXCEPT ![f] = Free]
    /\ tpc' = "write"
    /\ UNCHANGED <<program, end, numbers, count, casts>>
-----------------------------------------------------------------------------
(* The answer.  A connection takes it, whichever it is; what is not a        *)
(* connection makes Write throw or raises SIGPIPE.                           *)
Write ==
    /\ Serving("write")
    /\ \/ /\ fd[c][1] \in {"client", "ps"}
          /\ sent' = <<fd[c], page>>
          /\ tpc' = "close"
          /\ UNCHANGED end
       \/ fd[c][1] \notin {"client", "ps"} /\ Die("exception") /\ UNCHANGED <<tpc, sent>>
    /\ UNCHANGED <<program, fd, numbers, turns, relayed, page, casts>>

\* Mutant of CloseClient: the next turn begins without it.
CloseClientForgotten ==
    /\ Serving("close")
    /\ tpc' = "accept"
    /\ UNCHANGED <<program, end, fd, numbers, count, casts>>

CloseClient ==
    /\ Serving("close")
    /\ Close(c)
    /\ tpc' = "accept"
    /\ UNCHANGED <<program, numbers, count, casts>>
-----------------------------------------------------------------------------
(* listen_ps_broadcast (intermediate), listen_intermediate_broadcast.        *)

OpenDatagrams ==
    /\ Receiving("start")
    /\ \/ Opened(<<"udp", 0>>) /\ u' = Lowest /\ dpc' = "bind" /\ UNCHANGED end
       \/ NoneLeft /\ UNCHANGED <<dpc, u>>
    /\ UNCHANGED <<program, server, d, known, mpc, e, hit, stray>>

\* Bind throws on a number that was closed, and on some sockets of others.
BindDatagrams ==
    /\ Receiving("bind")
    /\ \/ fd[u] # Free /\ dpc' = "receive" /\ UNCHANGED end
       \/ fd[u][1] # "udp" /\ Die("exception") /\ UNCHANGED dpc
    /\ UNCHANGED <<program, fd, server, u, d, known, mpc, e, hit, stray>>

\* Mutant of Answers: the intermediate answers every T.
AnswersAlways == TRUE

\* The intermediate answers T until it knows an address, the server after that.
Answers == known = (program = "pieces")

(* T, or any other datagram: its sender is stored at the end of the turn.  A *)
(* call that fails is taken for one, as the buffer keeps the last letter.    *)
Receive ==
    /\ Receiving("receive")
    /\ \/ Answers /\ dpc' = "socket" /\ UNCHANGED known
       \/ known' = TRUE /\ UNCHANGED dpc
    /\ UNCHANGED <<program, end, fd, server, u, d, mpc, e, hit, stray>>

\* send_broadcast of an S.
OpenCast ==
    /\ Receiving("socket")
    /\ \/ Opened(<<"cast", 0>>) /\ d' = Lowest /\ dpc' = "send" /\ UNCHANGED end
       \/ NoneLeft /\ UNCHANGED <<dpc, d>>
    /\ UNCHANGED <<program, server, u, known, mpc, e, hit, stray>>

Broadcast ==
    /\ Receiving("send")
    /\ SendOn(d)
    /\ dpc' = "close"
    /\ UNCHANGED <<program, fd, server, u, d, known, mpc, e, hit>>

CloseCast ==
    /\ Receiving("close")
    /\ Close(d)
    /\ dpc' = "delete"
    /\ UNCHANGED <<program, server, u, d, known, mpc, e, hit, stray>>

\* delete, the second close.  Then the sender is stored.
DeleteCast ==
    /\ Receiving("delete")
    /\ Destroy(d)
    /\ known' = TRUE
    /\ dpc' = "receive"
    /\ UNCHANGED <<program, server, u, d, mpc, e, stray>>
-----------------------------------------------------------------------------
(* enviarSignal: SIGINT interrupts main, which only waits; the other threads *)
(* go on until exit().                                                       *)

\* send_broadcast of the E.
OpenFarewell ==
    /\ Signalled("wait")
    /\ \/ Opened(<<"farewell", 0>>) /\ e' = Lowest /\ mpc' = "send" /\ UNCHANGED end
       \/ NoneLeft /\ UNCHANGED <<mpc, e>>
    /\ UNCHANGED <<program, server, dpc, u, d, known, hit, stray>>

BroadcastFarewell ==
    /\ Signalled("send")
    /\ SendOn(e)
    /\ mpc' = "close"
    /\ UNCHANGED <<program, fd, server, dpc, u, d, known, e, hit>>

CloseFarewell ==
    /\ Signalled("close")
    /\ Close(e)
    /\ mpc' = "delete"
    /\ UNCHANGED <<program, server, dpc, u, d, known, e, hit, stray>>

DeleteFarewell ==
    /\ Signalled("delete")
    /\ Destroy(e)
    /\ mpc' = "exit"
    /\ UNCHANGED <<program, server, dpc, u, d, known, e, stray>>

Exit ==
    /\ Signalled("exit")
    /\ Die("stopped")
    /\ UNCHANGED <<program, fd, server, casts>>
-----------------------------------------------------------------------------
Serve ==
    \/ OpenListener \/ Listen \/ EnterAccept \/ Accept \/ EnterRead \/ Read \/ Dispatch
    \/ OpenPs \/ OpenSpare \/ Connect \/ PsWrite \/ EnterPsRead \/ PsRead \/ PsClose
    \/ OpenFile \/ Decode \/ CloseFile
    \/ Write \/ CloseClient

Datagrams ==
    \/ OpenDatagrams \/ BindDatagrams \/ Receive \/ OpenCast \/ Broadcast \/ CloseCast \/ DeleteCast

Farewell ==
    OpenFarewell \/ BroadcastFarewell \/ CloseFarewell \/ DeleteFarewell \/ Exit

Next == Serve \/ Datagrams \/ Farewell

Spec == Init /\ [][Next]_vars
-----------------------------------------------------------------------------
OfKind(kind) == {n \in Numbers : fd[n][1] = kind}

(* Every variable has its type.                                              *)
TypeOK ==
    /\ program \in Programs
    /\ end \in {"none", "exception", "close", "full", "stopped"}
    /\ fd \in [Numbers -> Slots]
    /\ tpc \in {"start", "listen", "accept", "accepting", "read", "reading", "stuck",
                "dispatch", "s_ps", "spare", "connect", "psWrite", "psRead", "psReading",
                "psClose", "open", "decode", "closeFile", "write", "close"}
    /\ dpc \in {"start", "bind", "receive", "socket", "send", "close", "delete"}
    /\ mpc \in {"wait", "send", "close", "delete", "exit"}
    /\ l \in Numbers /\ c \in Numbers /\ p \in Numbers /\ f \in Numbers
    /\ u \in Numbers /\ d \in Numbers /\ e \in Numbers
    /\ turns \in 0..MaxTurns /\ relayed \in Nat
    /\ page \in {"right", "wrong"} /\ sent \in Slots \X {"right", "wrong"}
    /\ known \in BOOLEAN /\ hit \in BOOLEAN /\ stray \in BOOLEAN

(* Whatever the second closes of send_broadcast do to the numbers, an answer *)
(* is only ever written to the connection accepted in the same turn: a       *)
(* number that changed hands makes Write fail, it never names somebody       *)
(* else's connection (listen_client, request_ps, listen_intermediate).       *)
AnswersItsClient == sent # Nowhere => sent[1] = <<"client", turns>>

(* Without a hit the table is only full when the program has lost its        *)
(* numbers to the sockets that leak: six are what its threads use at a time, *)
(* four beside the connections in test case 1.                               *)
FullOfLeaks ==
    \/ program = "intermediate" /\ relayed + 6 >= Limit
    \/ program = "testcase" /\ turns + 4 >= Limit

(* Whatever else goes wrong with the numbers begins with a second close that *)
(* hits a number another thread has opened.  Until then no call fails but    *)
(* for want of a number, and only where the leaks explain it; no thread      *)
(* hangs, no S or E is lost or sent to a client, and an answer that is sent  *)
(* is right.  (A client still goes without one when the table is full, when  *)
(* Close throws, and when SIGINT ends the program.)                          *)
HarmNeedsAHit ==
    ~hit =>
        /\ end # "exception"
        /\ end = "full" => FullOfLeaks
        /\ tpc # "stuck"
        /\ ~stray
        /\ sent \in {Nowhere, <<<<"client", turns>>, "right">>}

(* Without a hit the intermediate loses exactly one number for every request *)
(* it relays, and test case 1 one for every client; nothing else stays open. *)
LeaksOnePerRelay ==
    ~hit =>
        /\ Cardinality(OfKind("spare")) = relayed
        /\ tpc = "accept" =>
            Cardinality(OfKind("client")) = IF program = "testcase" THEN turns ELSE 0
        /\ tpc = "accept" => OfKind("ps") = {} /\ OfKind("file") = {}

(* The pieces server never holds more than six numbers, hit or not and       *)
(* stopped or not, so no file it has looks missing to it for want of one.    *)
ServerNeverFills ==
    program = "pieces" => Cardinality(Used) <= 6 /\ end # "full"
=============================================================================
