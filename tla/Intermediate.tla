---------------------------- MODULE Intermediate ----------------------------
(***************************************************************************)
(* listen_client and request_ps of intermediate.cc: one thread that takes  *)
(* one client at a time, checks its request, relays it to the pieces       *)
(* server over a new connection and relays the answer back.                *)
(*                                                                         *)
(* Both buffers keep what they held: request_buff belongs to the loop and  *)
(* ps_buff lands on the same stack frame at every call.                    *)
(***************************************************************************)
EXTENDS Sockets, Requests

CONSTANTS
    TestCases,      \* the command line arguments it may be started with
    CloseMayThrow,  \* may Close read -1 in the variable it never assigns?
    RequestLen,     \* cells of request_buff (REQUEST_BUFF_SIZE)
    ResponseLen     \* cells of ps_buff, response_buff (RESPONSE_BUFF_SIZE)

ASSUME IntermediateAssumption ==
    /\ TestCases \subseteq {0, 1} /\ TestCases # {}
    /\ CloseMayThrow \in BOOLEAN
    /\ RequestLen \in Nat \ {0}
    /\ ResponseLen \in Nat \ {0, 1}

VARIABLES
    ipc,            \* where listen_client is
    cur,            \* the client of client_socket
    request_buff,
    request,        \* shared_data->request
    ps_buff,
    ps_answer,      \* shared_data->ps_answer
    psKnown,        \* shared_data->ps_ip # ""
    test_case       \* shared_data->test_case: 1 never answers

interVars ==
    <<ipc, cur, request_buff, request, ps_buff, ps_answer, psKnown, test_case>>

ps_menu == <<>>     \* set to "" by main and never again

IntermediateInit ==
    /\ ipc = "accept"
    /\ cur = AnyClient
    /\ request_buff \in Uninitialised(RequestLen)
    /\ request = <<>>
    /\ ps_buff \in Uninitialised(ResponseLen)
    /\ ps_answer = <<>>
    /\ psKnown = FALSE
    /\ test_case \in TestCases

(* An uncaught exception or a fatal signal ends the whole process: the       *)
(* kernel closes its sockets and nothing listens for clients any more.       *)
Die ==
    /\ iUp' = FALSE
    /\ ipc' = "dead"
    /\ conn' = [c \in Clients |-> Orphaned(conn[c])]
    /\ clientQueue' = <<>>

\* The answer to the client and the next turn of the loop.
Respond(bytes) ==
    /\ conn' = [conn EXCEPT ![cur] = Answered(@, bytes)]
    /\ ipc' = "accept"

AcceptClient ==
    /\ ipc = "accept"
    /\ clientQueue # <<>>
    /\ cur' = Head(clientQueue)
    /\ clientQueue' = Tail(clientQueue)
    /\ conn' = [conn EXCEPT ![Head(clientQueue)].st = "accepted"]
    /\ ipc' = "read"
    /\ UNCHANGED <<iUp, sUp, link, psQueue, request_buff, request, ps_buff,
                   ps_answer, psKnown, test_case>>

(* A request is one small segment and arrives whole, up to the size of the   *)
(* buffer.  The result of the read is not looked at: a client that closed    *)
(* without writing leaves the buffer as it was.                              *)
ReadRequest ==
    /\ ipc = "read"
    /\ \/ /\ conn[cur].up # <<>>
          /\ request_buff' = Fill(request_buff, conn[cur].up,
                                  WholeRead(conn[cur].up, RequestLen))
       \/ /\ RequestEnded(conn[cur])
          /\ UNCHANGED request_buff
    /\ conn' = [conn EXCEPT ![cur].got = TRUE]
    /\ ipc' = IF test_case = 1 THEN "sleep" ELSE "dispatch"
    /\ UNCHANGED <<iUp, sUp, link, clientQueue, psQueue, cur, request, ps_buff,
                   ps_answer, psKnown, test_case>>

\* sleep(10) and the next turn of the loop, which forgets client_socket.
Sleep ==
    /\ ipc = "sleep"
    /\ ipc' = "accept"
    /\ UNCHANGED <<socketVars, cur, request_buff, request, ps_buff, ps_answer,
                   psKnown, test_case>>

\* Mutant of DispatchError: no "continue" after the error without a server.
DispatchErrorFallsThrough ==
    /\ ipc = "dispatch"
    /\ \/ /\ ~is_valid_request(request_buff)
          /\ Respond(<<InvalidRequest>>)
          /\ UNCHANGED request
       \/ /\ is_valid_request(request_buff)
          /\ ~psKnown
          /\ conn' = [conn EXCEPT ![cur] = Answered(@, <<Error500>>)]
          /\ request' \in Strings(request_buff)
          /\ ipc' = "connect"
    /\ UNCHANGED <<iUp, sUp, link, clientQueue, psQueue, cur, request_buff,
                   ps_buff, ps_answer, psKnown, test_case>>

DispatchError ==
    /\ ipc = "dispatch"
    /\ \/ /\ ~is_valid_request(request_buff)
          /\ Respond(<<InvalidRequest>>)
       \/ /\ is_valid_request(request_buff)
          /\ ~psKnown
          /\ Respond(<<Error500>>)
    /\ UNCHANGED <<iUp, sUp, link, clientQueue, psQueue, cur, request_buff,
                   request, ps_buff, ps_answer, psKnown, test_case>>

DispatchMenu ==
    /\ ipc = "dispatch"
    /\ is_valid_request(request_buff)
    /\ psKnown
    /\ <<GET>> \in Strings(request_buff)
    /\ Respond(ps_menu)
    /\ UNCHANGED <<iUp, sUp, link, clientQueue, psQueue, cur, request_buff,
                   request, ps_buff, ps_answer, psKnown, test_case>>

DispatchRequest ==
    /\ ipc = "dispatch"
    /\ is_valid_request(request_buff)
    /\ psKnown
    /\ request' \in Strings(request_buff) \ {<<GET>>}
    /\ ipc' = "connect"
    /\ UNCHANGED <<socketVars, cur, request_buff, ps_buff, ps_answer, psKnown,
                   test_case>>

(* The address is fixed; ps_ip is not used.  DoConnect throws when nothing   *)
(* listens there or the queue of the pieces server is full.                  *)
PsConnect ==
    /\ ipc = "connect"
    /\ \/ /\ CanConnect(sUp, psQueue, PsQueue)
          /\ link' = [link EXCEPT ![cur].st = "queued"]
          /\ psQueue' = Append(psQueue, cur)
          /\ ipc' = "write"
          /\ UNCHANGED <<iUp, conn, clientQueue>>
       \/ /\ ~CanConnect(sUp, psQueue, PsQueue)
          /\ link' = [link EXCEPT ![cur].st = "refused"]
          /\ Die
          /\ UNCHANGED psQueue
    /\ UNCHANGED <<sUp, cur, request_buff, request, ps_buff, ps_answer, psKnown,
                   test_case>>

(* Socket::Write throws or SIGPIPE comes when the connection was reset; the  *)
(* test for -1 after the call is never true.                                 *)
PsWrite ==
    /\ ipc = "write"
    /\ \/ /\ ~IsReset(link[cur])
          /\ link' = [link EXCEPT ![cur].up = request]
          /\ ipc' = "answer"
          /\ UNCHANGED <<iUp, conn, clientQueue>>
       \/ /\ IsReset(link[cur])
          /\ link' = [link EXCEPT ![cur].ihup = TRUE]
          /\ Die
    /\ UNCHANGED <<sUp, psQueue, cur, request_buff, request, ps_buff, ps_answer,
                   psKnown, test_case>>

\* Mutant of PsReadTimesOut: no SetTimeout before the read.
PsReadWaits(before) == FALSE

\* Mutant of PsReadTimesOut: strncpy of the message alone.
TimeoutUnterminated(before) == ps_buff' = Fill(before, <<Error504>>, 1)

\* The read is -1 after five seconds: strcpy of the message into the array.
PsReadTimesOut(before) == ps_buff' = Fill(before, <<Error504, NUL>>, 2)

\* Mutant of PsClose: the function returns without it.
PsForget == UNCHANGED link

\* server_socket->Close(), whatever the read returned.
PsClose == link' = [link EXCEPT ![cur].ihup = TRUE]

(* One read of at most five seconds into an array nobody cleared: what the   *)
(* frame holds from the last call, or anything else.  Then ps_answer is the  *)
(* string in the array and the connection is closed.                         *)
PsRead ==
    /\ ipc = "answer"
    /\ \E before \in {ps_buff} \cup Uninitialised(ResponseLen) :
        \/ /\ link[cur].down # <<>>
           /\ \E k \in ReadSizes(link[cur].down, ResponseLen) :
                ps_buff' = Fill(before, link[cur].down, k)
        \/ /\ AnswerEnded(link[cur])
           /\ ps_buff' = before
        \/ PsReadTimesOut(before)
    /\ ps_answer' \in Strings(ps_buff')
    /\ PsClose
    /\ ipc' = "reply"
    /\ UNCHANGED <<iUp, sUp, conn, clientQueue, psQueue, cur, request_buff,
                   request, psKnown, test_case>>

\* Mutant of Reply: the whole array is written, not the string in it.
ReplyWholeBuffer ==
    /\ ipc = "reply"
    /\ Respond(ps_buff)
    /\ UNCHANGED <<iUp, sUp, clientQueue, link, psQueue, cur, request_buff, request,
                   ps_buff, ps_answer, psKnown, test_case>>

(* strcpy into response_buff, which a string without a terminator in         *)
(* ps_buff overflows: the process may survive it or not.                     *)
Reply ==
    /\ ipc = "reply"
    /\ \/ /\ Respond(ps_answer)
          /\ UNCHANGED <<iUp, clientQueue>>
       \/ /\ Len(ps_answer) >= ResponseLen
          /\ Die
    /\ UNCHANGED <<sUp, link, psQueue, cur, request_buff, request, ps_buff,
                   ps_answer, psKnown, test_case>>

(* VSocket::Close, which is not virtual, closes and then tests a variable it *)
(* never assigned: what the stack holds decides whether it throws after a    *)
(* close that succeeded, of client_socket at the end of a turn or of s_ps in *)
(* request_ps.                                                               *)
CloseThrows ==
    /\ CloseMayThrow
    /\ ipc = "reply" \/ (ipc = "accept" /\ conn[cur].ahup)
    /\ Die
    /\ UNCHANGED <<sUp, link, psQueue, cur, request_buff, request, ps_buff,
                   ps_answer, psKnown, test_case>>

(* enviarSignal: SIGINT, the farewell broadcast and exit().                  *)
InterStop ==
    /\ iUp
    /\ iUp' = FALSE
    /\ ipc' = "stopped"
    /\ conn' = [c \in Clients |-> Orphaned(conn[c])]
    /\ clientQueue' = <<>>
    /\ link' = [c \in Clients |->
                   IF InitiatorOpen(link[c]) THEN [link[c] EXCEPT !.ihup = TRUE] ELSE link[c]]
    /\ UNCHANGED <<sUp, psQueue, cur, request_buff, request, ps_buff, ps_answer,
                   psKnown, test_case>>

(* listen_ps_broadcast: any datagram on port 2561 stores its sender.         *)
LearnPs ==
    /\ iUp
    /\ psKnown' = TRUE
    /\ UNCHANGED <<socketVars, ipc, cur, request_buff, request, ps_buff, ps_answer,
                   test_case>>

ListenClient ==
    \/ AcceptClient \/ ReadRequest \/ Sleep
    \/ DispatchError \/ DispatchMenu \/ DispatchRequest
    \/ PsConnect \/ PsWrite \/ PsRead \/ Reply
    \/ CloseThrows
=============================================================================
