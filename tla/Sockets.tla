------------------------------ MODULE Sockets ------------------------------
(***************************************************************************)
(* The TCP connections between the three programs, as VSocket and Socket   *)
(* show them.  The programs exchange one request and one answer on each    *)
(* connection, so a connection is a record of the two messages and of the  *)
(* two ends:                                                               *)
(*                                                                         *)
(*   st    "none", then "queued" when connect() succeeded and the          *)
(*         connection waits for accept(), "accepted" after it; "refused"   *)
(*         when connect() failed, "reset" when the kernel of a dead        *)
(*         acceptor answers with RST                                       *)
(*   up    what the initiator wrote, <<>> if nothing                       *)
(*   got   the acceptor has read                                           *)
(*   down  what the acceptor wrote, <<>> if nothing                        *)
(*   ihup, ahup   the initiator, the acceptor has closed its end           *)
(*                                                                         *)
(* Bytes written before a close stay readable; a read() of an end whose    *)
(* peer closed without writing returns 0.                                  *)
(***************************************************************************)
EXTENDS Naturals, Sequences, Buffers

CONSTANTS
    Clients,        \* the client processes; each opens one connection
    ListenQueue,    \* connections waiting for listen_client at most
    PsQueue         \* connections waiting for the pieces server at most

ASSUME ClientsAssumption == Clients # {}

ASSUME QueuesAssumption == ListenQueue \in Nat \ {0} /\ PsQueue \in Nat \ {0}

VARIABLES
    iUp,            \* the intermediate runs, its port 4657 listens
    sUp,            \* the pieces server runs, its port 2560 listens
    conn,           \* conn[c]: the connection of client c to the intermediate
    link,           \* link[c]: the one request_ps opens to serve c
    clientQueue,    \* accepted by the kernel, not yet by listen_client
    psQueue         \* accepted by the kernel, not yet by listen_intermediate

socketVars == <<iUp, sUp, conn, link, clientQueue, psQueue>>

States == {"none", "queued", "accepted", "refused", "reset"}

NoConnection == [st |-> "none", up |-> <<>>, got |-> FALSE, down |-> <<>>,
                 ihup |-> FALSE, ahup |-> FALSE]

\* connect() succeeds if the peer listens and its queue has room.
CanConnect(listening, queue, limit) == listening /\ Len(queue) < limit

\* Socket::Write and then Close at the accepting end.
Answered(k, bytes) == [k EXCEPT !.down = bytes, !.ahup = TRUE]

(* Socket::Read at either end returns -1 when the peer's kernel sent RST    *)
(* (and after SO_RCVTIMEO), 0 when the peer closed and wrote nothing.       *)
IsReset(k) == k.st = "reset"
RequestEnded(k) == k.ihup /\ k.up = <<>>
AnswerEnded(k) == k.ahup /\ k.down = <<>>

(* The kernel closes the accepting ends of a process that dies: RST for      *)
(* what was never accepted or holds unread bytes, FIN for the rest.          *)
Orphaned(k) ==
    IF k.st = "queued" \/ (k.st = "accepted" /\ ~k.ahup /\ ~k.got /\ k.up # <<>>)
    THEN [k EXCEPT !.st = "reset"]
    ELSE IF k.st = "accepted" THEN [k EXCEPT !.ahup = TRUE] ELSE k

\* Is k a connection whose initiating end is still open?
InitiatorOpen(k) == k.st \in {"queued", "accepted", "reset"} /\ ~k.ihup

\* What a variable that holds no connection yet is initialised with.
AnyClient == CHOOSE c \in Clients : TRUE

SocketsInit ==
    /\ iUp = TRUE
    /\ sUp \in BOOLEAN
    /\ conn = [c \in Clients |-> NoConnection]
    /\ link = [c \in Clients |-> NoConnection]
    /\ clientQueue = <<>>
    /\ psQueue = <<>>
=============================================================================
