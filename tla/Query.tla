-------------------------------- MODULE Query --------------------------------
(***************************************************************************)
(* The query path: clients, the intermediate and the pieces server, three  *)
(* programs that share nothing but the connections of Sockets.             *)
(***************************************************************************)
EXTENDS Client, Intermediate, PiecesServer

vars == <<socketVars, clientVars, interVars, serverVars>>

Init ==
    /\ SocketsInit
    /\ ClientInit
    /\ IntermediateInit
    /\ ServerInit

ClientNext(c) == ClientStep(c) /\ UNCHANGED <<interVars, serverVars>>
RelayNext == ListenClient /\ UNCHANGED <<clientVars, serverVars>>
MainNext == (LearnPs \/ InterStop) /\ UNCHANGED <<clientVars, serverVars>>
ServerNext == ServerStep /\ UNCHANGED <<clientVars, interVars>>

Next ==
    \/ \E c \in Clients : ClientNext(c)
    \/ RelayNext
    \/ MainNext
    \/ ServerNext

(* The threads of the clients and of the intermediate run whenever they can; *)
(* the pieces server is another machine, and nothing makes it run.           *)
Spec ==
    /\ Init
    /\ [][Next]_vars
    /\ WF_vars(RelayNext)
    /\ \A c \in Clients : WF_vars(ClientNext(c))
-----------------------------------------------------------------------------
Connection(ups, downs) ==
    [st : States, up : ups, got : BOOLEAN, down : downs, ihup : BOOLEAN, ahup : BOOLEAN]

(* Every variable has its type.  The buffers keep their size, and what is    *)
(* taken out of them, sent or printed holds no terminator.                   *)
TypeOK ==
    /\ iUp \in BOOLEAN /\ sUp \in BOOLEAN /\ psKnown \in BOOLEAN
    /\ test_case \in TestCases
    /\ conn \in [Clients -> Connection(Seq(Words), Seq(Blocks \cup {JUNK}))]
    /\ link \in [Clients -> Connection(Seq(Words \cup {JUNK}), Seq(Blocks))]
    /\ clientQueue \in Seq(Clients) /\ psQueue \in Seq(Clients)
    /\ cpc \in [Clients -> {"start", "connected", "waiting"} \cup Finished]
    /\ shown \in [Clients -> Seq(Blocks \cup {JUNK})]
    /\ ipc \in {"accept", "read", "sleep", "dispatch", "connect", "write", "answer",
                "reply", "dead", "stopped"}
    /\ cur \in Clients
    /\ request_buff \in Seq(Cells) /\ Len(request_buff) = RequestLen
    /\ request \in Seq(Words \cup {JUNK})
    /\ ps_buff \in Seq(Blocks \cup {NUL, JUNK}) /\ Len(ps_buff) = ResponseLen
    /\ ps_answer \in Seq(Blocks \cup {JUNK})
    /\ spc \in {"accept", "read", "respond"}
    /\ serving \in Clients
    /\ a \in Seq(Words \cup {JUNK})
    /\ starts \in 0..MaxStarts

\* A request with a name, the way client.cc writes it, and that name.
Own(c) == NamesFigure(conn[c].up, RequestLen)
Name(c) == formatRequest(conn[c].up)

\* What may come first in an answer to c that the pieces server had a part in.
Right(c) == {Error504, Response(Name(c))[1]}

(* What the answers on the connections l of request_ps, and the time-out     *)
(* message, leave at place i of ps_buff: nobody clears it between clients.   *)
LeftAt(l, i) ==
    {JUNK} \cup (IF i = 1 THEN {Error504} ELSE {})
           \cup {l[d].down[i] : d \in {d \in Clients : i <= Len(l[d].down)}}

(* The first n blocks of s are the beginning of the page of the figure, or   *)
(* they are the time-out message; the others were left in ps_buff.           *)
Mixed(l, figure, s, n) ==
    /\ \/ /\ n <= Len(Response(figure))
          /\ \A i \in 1..n : s[i] = Response(figure)[i]
       \/ n = 1 /\ s[1] = Error504
    /\ \A i \in (n + 1)..Len(s) : s[i] \in LeftAt(l, i)

(* Only when the pieces server ended the connection early is n zero.         *)
Fitting(l, c, figure, s) ==
    \E n \in 0..Len(s) :
        Mixed(l, figure, s, n) /\ (n = 0 => AnswerEnded(l[c]))

(* A client that names a figure, and whose request was relayed, prints the   *)
(* beginning of the answer to its own request, or of the time-out message:   *)
(* the request read over an older one, and the late answers of connections   *)
(* that request_ps gave up on, never change whose answer comes first.  After *)
(* it may come what older answers left in ps_buff, each block at the place   *)
(* it had; when the pieces server ended the connection early there is        *)
(* nothing else, and what the client prints can be the page of another one   *)
(* (listen_client, request_ps).  A client that was sent nothing prints what  *)
(* its own array held.                                                       *)
OwnAnswer ==
    \A c \in Clients :
        cpc[c] = "done" /\ Own(c) /\ link[c].st # "none" =>
            \/ Fitting(link, c, Name(c), shown[c])
            \/ conn[c].down = <<>> /\ shown[c] \in Seq({JUNK})

(* When listen_client waits for the next client, both connections of every   *)
(* client it served are closed on its side, whichever way its turn ended     *)
(* (the test case, which abandons them, is excepted).                        *)
NothingLeftOpen ==
    test_case = 0 /\ ipc = "accept" =>
        \A c \in Clients :
            /\ conn[c].st = "accepted" => conn[c].ahup
            /\ ~InitiatorOpen(link[c])

(* What clients send and when they end cannot make the intermediate crash:   *)
(* when it did, and Close never throws, the pieces server refused, reset or  *)
(* closed a connection of request_ps.  (The numbers that request_ps loses,   *)
(* which end it in the long run, are in Descriptors.)                        *)
DeathNeedsTheServer ==
    ipc = "dead" /\ ~CloseMayThrow => \E c \in Clients : link[c].st \in {"refused", "reset"} \/ link[c].ahup

(* listen_client and listen_intermediate read without a time-out.  Whom they *)
(* wait for never waits itself and is not gone: a client that is connected   *)
(* and will write or end, or the intermediate on its way to write.           *)
PeersWillWrite ==
    /\ ipc = "read" /\ conn[cur].up = <<>> /\ ~conn[cur].ihup => cpc[cur] = "connected"
    /\ spc = "read" /\ link[serving].up = <<>> /\ ~link[serving].ihup =>
            serving = cur /\ ipc = "write"

(* Once the intermediate closed the connection of a client it never writes   *)
(* on it again: every branch of the loop ends with continue or at its end.   *)
AnsweredOnce ==
    [][\A c \in Clients : conn[c].ahup =>
            conn'[c].down = conn[c].down /\ conn'[c].ahup]_vars

\* The turn of a client.
Busy == {"read", "sleep", "dispatch", "connect", "write", "answer", "reply"}

(* The view of the clients: who is in line, and what they were answered.     *)
Line == IF ipc \in Busy THEN <<cur>> \o clientQueue ELSE clientQueue

Arrived == {c \in Clients : conn[c].st \notin {"none", "refused"}}
Asked == [c \in Clients |-> conn[c].up]
Relayed == {c \in Clients : link[c].st # "none"}
Dropped == {c \in Clients : AnswerEnded(link[c])}
Answers == [c \in Clients |-> conn[c].down]
Closed == {c \in Clients : conn[c].ahup \/ conn[c].st = "reset"}

Promise == INSTANCE QueryService WITH
    Room <- ListenQueue, MayAbandon <- 1 \in TestCases,
    up <- iUp, arrived <- Arrived, line <- Line, asked <- Asked, relayed <- Relayed,
    dropped <- Dropped, answer <- Answers, closed <- Closed

(* The three programs, with their reused buffers, late answers, time-outs    *)
(* and crashes, do what QueryService promises: first come, first served, one *)
(* answer each, which begins as it should (OwnAnswer has the rest of it),    *)
(* whatever happened to the turns before.                                    *)
KeepsThePromise == Promise!Spec

(* Every client that gets into the queue is answered or sees its connection  *)
(* closed, even if the pieces server never answers: SetTimeout(5) bounds the *)
(* read of request_ps, and the clients write or close.                       *)
EveryClientIsServed ==
    \A c \in Clients :
        (test_case = 0 /\ conn[c].st = "queued") ~> (conn[c].ahup \/ ~iUp)

(* Every client ends, even if nothing ever answers it (the first argument of *)
(* the intermediate set to 1): SetTimeout(5) bounds its read.                *)
EveryClientEnds == \A c \in Clients : <>(cpc[c] \in Finished)
-----------------------------------------------------------------------------
(* The inductive invariant behind the safety properties.                     *)

(* Until a client has written, nothing is relayed for it.  A client that     *)
(* finished its read saw the connection closed and, if there was an answer,  *)
(* shows how it begins.                                                      *)
ClientsInv ==
    \A c \in Clients :
        /\ cpc[c] = "start" => conn[c].st = "none"
        /\ cpc[c] \in {"start", "connected"} =>
                conn[c].up = <<>> /\ ~conn[c].ihup /\ link[c].st = "none"
        /\ cpc[c] = "done" =>
                /\ conn[c].ahup
                /\ conn[c].down # <<>> =>
                        shown[c] # <<>> /\ Head(shown[c]) = Head(conn[c].down)

(* A connection is in its queue once, and only until it is accepted.         *)
ClientQueueInv ==
    /\ \A i \in 1..Len(clientQueue) : conn[clientQueue[i]].st = "queued"
    /\ \A i, j \in 1..Len(clientQueue) : clientQueue[i] = clientQueue[j] => i = j

PsQueueInv ==
    /\ \A i \in 1..Len(psQueue) : link[psQueue[i]].st = "queued"
    /\ \A i, j \in 1..Len(psQueue) : psQueue[i] = psQueue[j] => i = j

(* How far a connection can be in each state of its accepting end.           *)
StagesInv ==
    \A c \in Clients :
        /\ conn[c].st \in {"none", "queued"} =>
                ~conn[c].ahup /\ conn[c].down = <<>> /\ link[c].st = "none"
        /\ conn[c].down # <<>> => conn[c].ahup
        /\ link[c].st \in {"none", "queued"} => ~link[c].ahup /\ link[c].down = <<>>
        /\ link[c].st = "none" => link[c].up = <<>> /\ ~link[c].ihup
        /\ link[c].down # <<>> => link[c].ahup

(* The turn of the current client: what is open, and what the buffers hold.  *)
RelayInv ==
    /\ ipc \in Busy =>
            conn[cur].st = "accepted" /\ ~conn[cur].ahup /\ conn[cur].down = <<>>
    /\ ipc \in {"read", "dispatch", "connect"} => link[cur].st = "none"
    /\ ipc \in Busy \ {"read", "sleep"} => cpc[cur] \notin {"start", "connected"}
    /\ ipc = "sleep" => test_case = 1
    /\ ipc \in {"connect", "write"} => request # <<>>
    /\ ipc \in {"write", "answer"} => ~link[cur].ihup
    /\ ipc = "write" => link[cur].st # "none" /\ link[cur].up = <<>>
    /\ ipc \in {"answer", "reply"} => link[cur].st # "none" /\ link[cur].up # <<>>
    /\ ipc = "dispatch" /\ Own(cur) =>
            /\ is_valid_request(request_buff)
            /\ \A s \in Strings(request_buff) : formatRequest(s) = Name(cur) /\ s # <<GET>>
    /\ ipc \in {"connect", "write"} /\ Own(cur) => formatRequest(request) = Name(cur)
    /\ ipc = "reply" /\ Own(cur) /\ ~AnswerEnded(link[cur]) =>
            ps_answer # <<>> /\ Head(ps_answer) \in Right(cur)
    /\ ipc = "reply" => link[cur].ahup \/ Len(ps_answer) < ResponseLen

(* The turn of the current connection of the pieces server.                  *)
ServingInv ==
    /\ spc # "accept" =>
            /\ link[serving].st = "accepted"
            /\ ~link[serving].ahup /\ link[serving].down = <<>>
    /\ spc = "respond" =>
            /\ a = link[serving].up
            /\ a = <<>> => link[serving].ihup

(* What was written on the connections belongs to their client.              *)
AnswersInv ==
    \A c \in Clients :
        /\ link[c].up # <<>> /\ Own(c) => formatRequest(link[c].up) = Name(c)
        /\ link[c].down # <<>> => link[c].up # <<>> \/ link[c].ihup
        /\ link[c].down # <<>> /\ link[c].up # <<>> /\ Own(c) =>
                link[c].down = Response(Name(c))
        /\ conn[c].down # <<>> /\ link[c].st # "none" => link[c].up # <<>>
        /\ conn[c].down # <<>> /\ Own(c) =>
                \/ link[c].st = "none"
                \/ AnswerEnded(link[c])
                \/ Head(conn[c].down) \in Right(c)

(* Only the connections of the current turn are open on this side.           *)
OpenInv ==
    \A c \in Clients :
        /\ test_case = 0 /\ conn[c].st = "accepted" =>
                conn[c].ahup \/ (c = cur /\ ipc \in Busy)
        /\ InitiatorOpen(link[c]) => c = cur /\ ipc \in {"write", "answer"}

(* What ps_buff, the answers and the printed strings can hold: the blocks of *)
(* Fitting, and in the array of a client nothing but junk behind them.       *)
ContentsInv ==
    /\ \A i \in 1..ResponseLen : ps_buff[i] \in {NUL} \cup LeftAt(link, i)
    /\ ipc = "reply" /\ Own(cur) => Fitting(link, cur, Name(cur), ps_answer)
    /\ \A c \in Clients :
        /\ conn[c].down # <<>> /\ Own(c) /\ link[c].st # "none" =>
                Fitting(link, c, Name(c), conn[c].down)
        /\ cpc[c] = "done" =>
                \E k \in 0..Len(shown[c]) :
                    /\ k <= Len(conn[c].down)
                    /\ conn[c].down # <<>> => k # 0
                    /\ \A i \in 1..Len(shown[c]) :
                        shown[c][i] = IF i <= k THEN conn[c].down[i] ELSE JUNK

(* The conjunction is preserved by every step; so is ContentsInv beside it.  *)
IInv ==
    /\ TypeOK /\ ClientsInv /\ ClientQueueInv /\ PsQueueInv /\ StagesInv
    /\ RelayInv /\ ServingInv /\ AnswersInv /\ OpenInv /\ DeathNeedsTheServer
-----------------------------------------------------------------------------
(* The next properties state what the documentation and the comments say.    *)

(* README.md:37: the queries between the intermediate and the pieces server  *)
(* use TCP to obtain complete answers.                                       *)
CompleteAnswer ==
    \A c \in Clients :
        conn[c].down # <<>> /\ link[c].down # <<>> =>
            conn[c].down \in {<<Error504>>, link[c].down}

(* intermediate.cc:71: a request that is empty is answered with an error     *)
(* message and not relayed.                                                  *)
EmptyRequestIsInvalid ==
    \A c \in Clients : link[c].st # "none" => conn[c].up # <<>>

(* intermediate.cc:80: when there is no pieces server the intermediate       *)
(* answers with an error message (and goes on).                              *)
NoServerIsAnError ==
    ~sUp /\ link[cur].st = "refused" => iUp
==============================================================================
