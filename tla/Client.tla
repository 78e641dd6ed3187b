------------------------------- MODULE Client -------------------------------
(***************************************************************************)
(* client.cc: connect to the intermediate, write one request, read once    *)
(* with a timeout of five seconds, print what the buffer holds, exit.      *)
(***************************************************************************)
EXTENDS Sockets, Requests

CONSTANTS
    WithArgument,   \* the clients that are given the name on the command line
    Asks,           \* Asks[c]: the requests the others may write
    ClientLen       \* cells of the client's buffer (BUFSIZE)

ASSUME ClientAssumption ==
    /\ WithArgument \subseteq Clients
    /\ Asks \in [Clients -> SUBSET (Seq(Words) \ {<<>>})]
    /\ ClientLen \in Nat \ {0}

VARIABLES
    cpc,            \* cpc[c]: where client c is
    shown           \* shown[c]: the string it prints

clientVars == <<cpc, shown>>

Finished == {"done", "timeout", "crashed"}

ClientInit ==
    /\ cpc = [c \in Clients |-> "start"]
    /\ shown = [c \in Clients |-> <<>>]

(* DoConnect throws when connect() fails; nothing catches it.                *)
Connect(c) ==
    /\ cpc[c] = "start"
    /\ \/ /\ CanConnect(iUp, clientQueue, ListenQueue)
          /\ conn' = [conn EXCEPT ![c].st = "queued"]
          /\ clientQueue' = Append(clientQueue, c)
          /\ cpc' = [cpc EXCEPT ![c] = "connected"]
       \/ /\ ~CanConnect(iUp, clientQueue, ListenQueue)
          /\ conn' = [conn EXCEPT ![c].st = "refused"]
          /\ cpc' = [cpc EXCEPT ![c] = "crashed"]
          /\ UNCHANGED clientQueue
    /\ UNCHANGED <<iUp, sUp, link, psQueue, shown>>

\* Mutant of Send: the write stands in the branch without an argument.
SendInOneBranch(c) ==
    /\ cpc[c] = "connected"
    /\ \/ /\ IsReset(conn[c])
          /\ conn' = [conn EXCEPT ![c].ihup = TRUE]
          /\ cpc' = [cpc EXCEPT ![c] = "crashed"]
       \/ /\ ~IsReset(conn[c])
          /\ IF c \in WithArgument THEN UNCHANGED conn
             ELSE \E m \in Asks[c] : conn' = [conn EXCEPT ![c].up = m]
          /\ cpc' = [cpc EXCEPT ![c] = "waiting"]
    /\ UNCHANGED <<iUp, sUp, link, clientQueue, psQueue, shown>>

(* With an argument, sprintf() writes into a string literal and the process  *)
(* dies before it writes; so does a write to a connection that was reset.    *)
Send(c) ==
    /\ cpc[c] = "connected"
    /\ \/ /\ c \in WithArgument \/ IsReset(conn[c])
          /\ conn' = [conn EXCEPT ![c].ihup = TRUE]
          /\ cpc' = [cpc EXCEPT ![c] = "crashed"]
       \/ /\ c \notin WithArgument /\ ~IsReset(conn[c])
          /\ \E m \in Asks[c] : conn' = [conn EXCEPT ![c].up = m]
          /\ cpc' = [cpc EXCEPT ![c] = "waiting"]
    /\ UNCHANGED <<iUp, sUp, link, clientQueue, psQueue, shown>>

\* Mutant of ReceiveTimesOut: no SetTimeout before the read.
ReceiveWaits(c, before) == FALSE

\* read() is -1 after five seconds: the buffer is printed as it is.
ReceiveTimesOut(c, before) ==
    /\ \E s \in Strings(before) : shown' = [shown EXCEPT ![c] = s]
    /\ cpc' = [cpc EXCEPT ![c] = "timeout"]

(* The one read: a part of the answer over whatever the buffer held, nothing *)
(* at all, or -1 after five seconds.  The buffer is printed in every case    *)
(* and the exit closes the connection.                                       *)
Receive(c) ==
    /\ cpc[c] = "waiting"
    /\ \E before \in Uninitialised(ClientLen) :
        \/ /\ conn[c].down # <<>>
           /\ \E k \in ReadSizes(conn[c].down, ClientLen) :
                \E s \in Strings(Fill(before, conn[c].down, k)) :
                    shown' = [shown EXCEPT ![c] = s]
           /\ cpc' = [cpc EXCEPT ![c] = "done"]
        \/ /\ AnswerEnded(conn[c])
           /\ \E s \in Strings(before) : shown' = [shown EXCEPT ![c] = s]
           /\ cpc' = [cpc EXCEPT ![c] = "done"]
        \/ ReceiveTimesOut(c, before)
    /\ conn' = [conn EXCEPT ![c].ihup = TRUE]
    /\ UNCHANGED <<iUp, sUp, link, clientQueue, psQueue>>

ClientStep(c) == Connect(c) \/ Send(c) \/ Receive(c)
=============================================================================
