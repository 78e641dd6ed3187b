----------------------------- MODULE WebClients -----------------------------
(***************************************************************************)
(* The clients of miscellaneous/ that fetch one page from a web server:    *)
(* ipv4-ssl-cli, ipv6-ssl-cli and tcp-cli, over a Socket or an SSLSocket.  *)
(* None of them sets a time-out and none looks at what Connect or Write    *)
(* returned.  The web server is not part of the repository: it answers,    *)
(* closes, resets or stays silent as it likes.                             *)
(*                                                                         *)
(* Requests and answers are counted in cells of eight bytes, the size of   *)
(* the pointer that SSLSocket::Write takes for the length of a string.     *)
(***************************************************************************)
EXTENDS Naturals, Sequences

CONSTANTS
    RequestLen,     \* cells of the requests, which are literals
    BufLen,         \* cells of the buffer of main
    MaxAnswer       \* bound: cells of an answer

ASSUME LengthsAssumption ==
    /\ RequestLen \in Nat \ {0}
    /\ BufLen \in Nat \ {0, 1}
    /\ MaxAnswer \in Nat \ {0}

VARIABLES
    pc,             \* where main is
    prog,           \* the program
    ipv6, ssl,      \* what its arguments ask for
    tcp,            \* is idSocket connected?
    session,        \* what the web server made of the handshake
    peer,           \* the end of the web server: open, closed, reset
    wire,           \* cells of the request that reached the web server
    answer,         \* cells it wrote
    got             \* cells the read stored

vars == <<pc, prog, ipv6, ssl, tcp, session, peer, wire, answer, got>>
asked == <<prog, ipv6, ssl>>
theirs == <<session, peer, answer>>

Programs == {"ipv4-ssl-cli", "ipv6-ssl-cli", "tcp-cli"}
Arguments == UNION {[1..n -> {1, 4, 6}] : n \in 0..2}

Init ==
    /\ pc = "start"
    /\ prog \in Programs
    /\ ipv6 = FALSE /\ ssl = FALSE
    /\ tcp = FALSE /\ session = "none" /\ peer = "open"
    /\ wire = 0 /\ answer = 0 /\ got = 0
-----------------------------------------------------------------------------
(* main, up to the choice of the class.  Any argument asks the first two for *)
(* SSL; tcp-cli takes the version and then the flag.                         *)
MainIpv4 ==
    /\ prog = "ipv4-ssl-cli"
    /\ ipv6' = FALSE
    /\ \E argv \in Arguments : ssl' = (argv # <<>>)

MainIpv6 ==
    /\ prog = "ipv6-ssl-cli"
    /\ ipv6' = TRUE
    /\ \E argv \in Arguments : ssl' = (argv # <<>>)

MainTcp ==
    /\ prog = "tcp-cli"
    /\ \E argv \in Arguments :
        /\ ipv6' = (Len(argv) > 0 /\ argv[1] = 6)
        /\ ssl' = (Len(argv) > 1 /\ argv[2] = 1)

Main ==
    /\ pc = "start"
    /\ MainIpv4 \/ MainIpv6 \/ MainTcp
    /\ pc' = "socket"
    /\ UNCHANGED <<prog, tcp, wire, got, theirs>>

\* Only tcp-cli, for IPv6, names a service instead of a port.
ByService == prog = "tcp-cli" /\ ipv6

\* Only tcp-cli writes a string, the others give its length.
AsString == prog = "tcp-cli"

\* Only tcp-cli keeps a byte of its buffer for the terminator.
ReadSize == IF prog = "tcp-cli" THEN BufLen - 1 ELSE BufLen
-----------------------------------------------------------------------------
\* InitVSocket in either constructor: socket() may fail.
Construct ==
    /\ pc = "socket"
    /\ pc' \in {IF ssl THEN "context" ELSE "connect", "threw"}
    /\ UNCHANGED <<asked, tcp, wire, got, theirs>>

\* SSL_CTX_new may fail: ~VSocket closes, the exception ends the program.
InitContext ==
    /\ pc = "context"
    /\ pc' \in {"structure", "threw"}
    /\ UNCHANGED <<asked, tcp, wire, got, theirs>>

\* The rest of SSLSocket::Init: SSL_new may fail too.
InitStructure ==
    /\ pc = "structure"
    /\ pc' \in {"connect", "threw"}
    /\ UNCHANGED <<asked, tcp, wire, got, theirs>>

\* Mutant of DoConnectPort: connect() is not looked at.
DoConnectPortUnchecked(next) ==
    \/ ~ipv6 /\ tcp' = TRUE /\ pc' = next
    \/ tcp' = FALSE /\ pc' = next

(* DoConnect(host, port): IPv4 connects or throws.  For IPv6 the host is a   *)
(* link-local address with its interface: the lookup does not know the form, *)
(* and without sin6_scope_id connect() refuses it.                           *)
DoConnectPort(next) ==
    \/ ~ipv6 /\ tcp' = TRUE /\ pc' = next
    \/ tcp' = FALSE /\ pc' = "threw"

(* DoConnect(host, service).  When getaddrinfo fails, result is whatever the *)
(* stack held: the program dies, or it finds an empty list and returns the   *)
(* error of getaddrinfo, which is not -1.                                    *)
DoConnectService(connected, failed, unresolved) ==
    \/ tcp' = TRUE /\ pc' = connected
    \/ tcp' = FALSE /\ pc' \in {failed, unresolved, "killed"}

(* Socket::Connect returns what DoConnect returned, and nobody looks at it.  *)
ConnectPlain ==
    /\ pc = "connect" /\ ~ssl
    /\ IF ByService THEN DoConnectService("write", "write", "write")
                    ELSE DoConnectPort("write")
    /\ UNCHANGED <<asked, wire, got, theirs>>

\* SSLSocket::Connect throws when DoConnect returned -1.
ConnectSsl ==
    /\ pc = "connect" /\ ssl
    /\ IF ByService THEN DoConnectService("handshake", "threw", "handshake")
                    ELSE DoConnectPort("handshake")
    /\ UNCHANGED <<asked, wire, got, theirs>>

\* Connect goes on if SSL_connect returned 1.
Established == session = "up"

(* SSL_connect waits for the web server.  On a socket that is not connected, *)
(* or no longer is, its first write may end the program with SIGPIPE.        *)
Handshake ==
    /\ pc = "handshake"
    /\ \/ tcp /\ Established /\ pc' = "write"
       \/ session = "refused" /\ ~Established /\ pc' = "threw"
       \/ (~tcp \/ peer # "open") /\ pc' \in {"threw", "killed"}
    /\ UNCHANGED <<asked, tcp, wire, got, theirs>>

\* Mutant of Length: sizeof of a pointer for either Write of SSLSocket.
LengthOfPointer == IF ssl THEN 1 ELSE RequestLen

(* What Write hands over: the size it was given, strlen of the string, or,   *)
(* for a string over SSL, the size of a pointer.                             *)
Length == IF ssl /\ AsString THEN 1 ELSE RequestLen

(* A write on a socket that is not connected, or was reset, throws or ends   *)
(* the program with SIGPIPE; SSL_write may also return 0, which is not an    *)
(* error for Write.  A web server that closed does not get the bytes.        *)
Write ==
    /\ pc = "write"
    /\ \/ /\ tcp /\ peer # "reset"
          /\ wire' = IF peer = "open" THEN Length ELSE 0
          /\ pc' = "read"
       \/ /\ ~tcp \/ peer = "reset"
          /\ pc' \in IF ssl THEN {"threw", "killed", "read"} ELSE {"threw", "killed"}
          /\ wire' = 0
    /\ UNCHANGED <<asked, tcp, got, theirs>>

\* Mutant of Received: read() waits until the buffer is full.
ReceivedWhole(k) == answer >= ReadSize /\ k = ReadSize

\* Mutant of Received: the size of the buffer is not given to read().
ReceivedUnbounded(k) == k <= answer

\* read() returns what has arrived, at least a cell and at most the size.
Received(k) == k <= answer /\ k <= ReadSize

(* One read, with no time-out.  A reset makes SSLSocket::Read throw; Socket  *)
(* throws only if its field timeout, which nobody set, is false.  The end of *)
(* the stream is 0, or an error for SSL_read.                                *)
Read ==
    /\ pc = "read"
    /\ \/ \E k \in 1..MaxAnswer :
            Received(k) /\ got' = k /\ pc' = "print"
       \/ /\ answer = 0 /\ peer # "open"
          /\ got' = 0
          /\ pc' \in IF peer = "closed" /\ ~ssl THEN {"print"} ELSE {"print", "threw"}
    /\ UNCHANGED <<asked, tcp, wire, theirs>>

\* A buffer read full has no terminator: printf goes on behind it.
Overrun == got = BufLen

\* printf("%s") and the end of main.
Show ==
    /\ pc = "print"
    /\ pc' \in IF Overrun THEN {"done", "killed"} ELSE {"done"}
    /\ UNCHANGED <<asked, tcp, wire, got, theirs>>
-----------------------------------------------------------------------------
(* The web server: it takes or refuses the handshake, answers once it has    *)
(* read something, and closes or resets when it likes.                       *)
Server ==
    /\ tcp /\ peer = "open"
    /\ \/ /\ pc = "handshake" /\ session = "none"
          /\ session' \in {"up", "refused"}
          /\ UNCHANGED <<peer, answer>>
       \/ /\ wire > 0 /\ answer = 0
          /\ answer' \in 1..MaxAnswer
          /\ UNCHANGED <<session, peer>>
       \/ /\ peer' \in {"closed", "reset"}
          /\ UNCHANGED <<session, answer>>
    /\ UNCHANGED <<pc, asked, tcp, wire, got>>

Client ==
    \/ Main \/ Construct \/ InitContext \/ InitStructure
    \/ ConnectPlain \/ ConnectSsl \/ Handshake \/ Write \/ Read \/ Show

Next == Client \/ Server

(* A program runs whenever a call does not block; nothing makes the web      *)
(* server do anything.                                                       *)
Spec == Init /\ [][Next]_vars /\ WF_vars(Client)
-----------------------------------------------------------------------------
Ended == {"done", "threw", "killed"}

(* Every variable has its type.                                              *)
TypeOK ==
    /\ pc \in {"start", "socket", "context", "structure", "connect", "handshake",
               "write", "read", "print"} \cup Ended
    /\ prog \in Programs
    /\ ipv6 \in BOOLEAN /\ ssl \in BOOLEAN /\ tcp \in BOOLEAN
    /\ session \in {"none", "up", "refused"}
    /\ peer \in {"open", "closed", "reset"}
    /\ wire \in 0..RequestLen
    /\ answer \in 0..MaxAnswer
    /\ got \in 0..BufLen

(* A page that was read is the answer to the whole request, and over SSL to  *)
(* one that followed a handshake; only tcp-cli with SSL gets an answer to    *)
(* the first eight bytes of its request (SSLSocket::Write of a string).      *)
AnswerToTheRequest ==
    got > 0 =>
        /\ ssl => session = "up"
        /\ wire = RequestLen \/ (prog = "tcp-cli" /\ ssl)

(* A signal ends a program only where a result was ignored: the connection   *)
(* by service name failed, the peer left, or the page filled the buffer of   *)
(* one of the two programs that keep no byte of it for the terminator.       *)
KilledByIgnoredResult ==
    pc = "killed" =>
        \/ ByService /\ ~tcp
        \/ peer # "open"
        \/ Overrun /\ prog # "tcp-cli"

(* Once the web server has answered, closed or reset, the program ends: one  *)
(* read takes what there is and does not wait for more.  (If it stays silent *)
(* the program waits for ever: there is no time-out.)                        *)
EndsWhenTheServerActs == (answer > 0 \/ peer # "open") ~> (pc \in Ended)
=============================================================================
