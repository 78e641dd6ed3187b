---------------------------- MODULE PiecesServer ----------------------------
(***************************************************************************)
(* listen_intermediate of server.cc: one thread that takes one connection  *)
(* at a time, looks the requested figure up in its JSON file and writes    *)
(* its page, and the SIGINT that ends the program.                         *)
(***************************************************************************)
EXTENDS Sockets, Requests

CONSTANT MaxStarts  \* bound: times the server is started again

ASSUME StartsAssumption == MaxStarts \in Nat

VARIABLES
    spc,            \* where listen_intermediate is
    serving,        \* the connection of interm_s
    a,              \* its buffer: cleared before the read, larger than any request
    starts

serverVars == <<spc, serving, a, starts>>

ServerInit ==
    /\ spc = "accept"
    /\ serving = AnyClient
    /\ a = <<>>
    /\ starts = 0

\* The end of the process: its sockets close, the queue is gone.
ServerGone ==
    /\ sUp' = FALSE
    /\ link' = [c \in Clients |-> Orphaned(link[c])]
    /\ psQueue' = <<>>

AcceptIntermediate ==
    /\ sUp
    /\ spc = "accept"
    /\ psQueue # <<>>
    /\ serving' = Head(psQueue)
    /\ psQueue' = Tail(psQueue)
    /\ link' = [link EXCEPT ![Head(psQueue)].st = "accepted"]
    /\ a' = <<>>
    /\ spc' = "read"
    /\ UNCHANGED <<iUp, sUp, conn, clientQueue, starts>>

ReadIntermediate ==
    /\ sUp
    /\ spc = "read"
    /\ link[serving].up # <<>> \/ RequestEnded(link[serving])
    /\ a' = link[serving].up
    /\ link' = [link EXCEPT ![serving].got = TRUE]
    /\ spc' = "respond"
    /\ UNCHANGED <<iUp, sUp, conn, clientQueue, psQueue, serving, starts>>

(* A figure, or the 404 page when there is no file; a file the decoder       *)
(* throws on ends the program.                                               *)
RespondFigure ==
    /\ sUp
    /\ spc = "respond"
    /\ spc' = "accept"
    /\ \/ /\ formatRequest(a) \notin Bad
          /\ link' = [link EXCEPT ![serving] = Answered(@, Response(formatRequest(a)))]
          /\ UNCHANGED <<sUp, psQueue>>
       \/ /\ formatRequest(a) \in Bad
          /\ ServerGone
    /\ UNCHANGED <<iUp, conn, clientQueue, serving, a, starts>>

(* enviarSignal: the farewell broadcast and exit().  The uncaught exception  *)
(* of a Close that succeeded does the same to the connections.               *)
ServerStop ==
    /\ sUp
    /\ ServerGone
    /\ spc' = "accept"
    /\ UNCHANGED <<iUp, conn, clientQueue, serving, a, starts>>

ServerStart ==
    /\ ~sUp
    /\ starts < MaxStarts
    /\ starts' = starts + 1
    /\ sUp' = TRUE
    /\ spc' = "accept"
    /\ UNCHANGED <<iUp, conn, link, clientQueue, psQueue, serving, a>>

ServerStep ==
    \/ AcceptIntermediate \/ ReadIntermediate \/ RespondFigure
    \/ ServerStop \/ ServerStart
=============================================================================
