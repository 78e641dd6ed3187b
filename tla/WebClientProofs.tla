-------------------------- MODULE WebClientProofs --------------------------
(***************************************************************************)
(* Proofs about WebClients for requests, buffers and answers of any        *)
(* length.  The inductive invariant follows the one connection: what main  *)
(* has established when it writes (Ready), what reached the web server     *)
(* (Wired), what can be there before anything was written (Early), and     *)
(* what an ignored result of Connect leads to (Ignored).                   *)
(***************************************************************************)
EXTENDS WebClients, TLAPS

Before == {"start", "socket", "context", "structure", "connect"}
After == {"write", "read", "print", "done"}

\* Over SSL main writes only in a session.
Ready == (pc \in After \/ got > 0) /\ ssl => session = "up"

\* The web server has nothing, or what Write handed over, and answers that.
Wired ==
    /\ wire \in {0, Length}
    /\ answer > 0 => wire = Length
    /\ got <= answer
    /\ prog = "tcp-cli" => got < BufLen

\* Nothing is written, sent or read before the connection.
Early ==
    /\ pc \in Before \cup {"handshake", "write"} => wire = 0 /\ answer = 0 /\ got = 0
    /\ pc = "start" => ~ssl
    /\ pc \in Before => ~tcp /\ peer = "open"

\* Main gets past Connect without a connection only by service name, and a
\* signal needs that, a web server that left, or a full buffer.
Ignored ==
    /\ pc \in {"handshake", "write"} => tcp \/ ByService
    /\ KilledByIgnoredResult

IInv == TypeOK /\ Ready /\ Wired /\ Early /\ Ignored
-----------------------------------------------------------------------------
\* Write hands over at least a cell, and the read of tcp-cli keeps one back.
LEMMA Sizes ==
    /\ Length \in 1..RequestLen
    /\ ReadSize \in Nat /\ ReadSize <= BufLen /\ (prog = "tcp-cli" => ReadSize < BufLen)
BY LengthsAssumption DEF Length, ReadSize

\* The program starts in the invariant.
LEMMA Starts == Init => IInv
<1> SUFFICES ASSUME Init PROVE IInv
  OBVIOUS
<1>1. 0 \in 0..RequestLen /\ 0 \in 0..MaxAnswer /\ 0 \in 0..BufLen /\ 0 < BufLen
  BY LengthsAssumption
<1>2. pc = "start" /\ wire = 0 /\ answer = 0 /\ got = 0 /\ ~ssl /\ ~tcp /\ peer = "open"
  BY DEF Init
<1>3. TypeOK
  BY <1>1 DEF Init, TypeOK
<1>4. Ready /\ Early /\ Ignored
  BY <1>2 DEF Ready, Early, Ignored, KilledByIgnoredResult
<1>5. Wired
  BY <1>1, <1>2 DEF Wired
<1> QED BY <1>3, <1>4, <1>5 DEF IInv

\* The choice of the class, the last step that changes what the program asks for.
LEMMA MainInv == ASSUME IInv, Main PROVE IInv'
<1>1. /\ pc = "start" /\ pc' = "socket" /\ UNCHANGED <<prog, tcp, wire, got, session, peer, answer>>
      /\ ipv6' \in BOOLEAN /\ ssl' \in BOOLEAN
  BY DEF Main, MainIpv4, MainIpv6, MainTcp, theirs
<1>2. wire = 0 /\ answer = 0 /\ got = 0 /\ ~tcp /\ peer = "open"
  BY <1>1 DEF IInv, Early, Before
<1>3. TypeOK'
  BY <1>1 DEF IInv, TypeOK
<1>4. (Ready /\ Early /\ Ignored)'
  BY <1>1, <1>2 DEF Ready, Early, Ignored, KilledByIgnoredResult, Before, After
<1>5. Wired'
  BY <1>1, <1>2 DEF IInv, Wired
<1> QED BY <1>3, <1>4, <1>5 DEF IInv

\* What the web server sees and the program has read is left alone.
LEMMA WiredKept ==
    ASSUME Wired, UNCHANGED <<prog, ssl, wire, answer, got>>
    PROVE  Wired'
BY DEF Wired, Length, AsString

\* The constructors: no connection yet.
LEMMA ConstructorsInv ==
    ASSUME IInv, Construct \/ InitContext \/ InitStructure
    PROVE  IInv'
<1>1. /\ pc \in {"socket", "context", "structure"}
      /\ pc' \in {"context", "structure", "connect", "threw"}
      /\ UNCHANGED <<prog, ipv6, ssl, tcp, wire, got, session, peer, answer>>
  BY DEF Construct, InitContext, InitStructure, asked, theirs
<1>2. TypeOK'
  BY <1>1 DEF IInv, TypeOK, Ended
<1>3. Wired'
  BY <1>1, WiredKept DEF IInv
<1>4. wire = 0 /\ answer = 0 /\ got = 0 /\ ~tcp /\ peer = "open"
  BY <1>1 DEF IInv, Early, Before
<1>5. (Ready /\ Early /\ Ignored)'
  BY <1>1, <1>4 DEF Ready, Early, Ignored, KilledByIgnoredResult, Before, After
<1> QED BY <1>2, <1>3, <1>5 DEF IInv

\* Connect of either class, by port or by service.
LEMMA ConnectInv == ASSUME IInv, ConnectPlain \/ ConnectSsl PROVE IInv'
<1>1. /\ pc = "connect" /\ tcp' \in BOOLEAN
      /\ UNCHANGED <<prog, ipv6, ssl, wire, got, session, peer, answer>>
  BY DEF ConnectPlain, ConnectSsl, DoConnectService, DoConnectPort, asked, theirs
<1>2. /\ pc' \in {"write", "handshake", "threw", "killed"}
      /\ pc' = "write" => ~ssl
      /\ pc' = "killed" => ByService /\ ~tcp'
      /\ pc' \in {"handshake", "write"} => tcp' \/ ByService
  BY DEF ConnectPlain, ConnectSsl, DoConnectService, DoConnectPort
<1>3. TypeOK'
  BY <1>1, <1>2 DEF IInv, TypeOK, Ended
<1>4. Wired'
  BY <1>1, WiredKept DEF IInv
<1>5. wire = 0 /\ answer = 0 /\ got = 0 /\ peer = "open"
  BY <1>1 DEF IInv, Early, Before
<1>6. (Ready /\ Early)'
  BY <1>1, <1>2, <1>5 DEF Ready, Early, Before, After
<1>7. ByService' = ByService
  BY <1>1 DEF ByService
<1>8. Ignored'
  BY <1>2, <1>7 DEF Ignored, KilledByIgnoredResult
<1> QED BY <1>3, <1>4, <1>6, <1>8 DEF IInv

\* SSL_connect: main goes on only if the session is up.
LEMMA HandshakeInv == ASSUME IInv, Handshake PROVE IInv'
<1>1. /\ pc = "handshake" /\ pc' \in {"write", "threw", "killed"}
      /\ UNCHANGED <<prog, ipv6, ssl, tcp, wire, got, session, peer, answer>>
      /\ pc' = "write" => session = "up"
      /\ pc' = "killed" => ~tcp \/ peer # "open"
  BY DEF Handshake, Established, asked, theirs
<1>2. TypeOK'
  BY <1>1 DEF IInv, TypeOK, Ended
<1>3. Wired'
  BY <1>1, WiredKept DEF IInv
<1>4. wire = 0 /\ answer = 0 /\ got = 0
  BY <1>1 DEF IInv, Early, Before
<1>5. (Ready /\ Early)'
  BY <1>1, <1>4 DEF Ready, Early, Before, After
<1>6. (ByService' = ByService) /\ (tcp \/ ByService)
  BY <1>1 DEF IInv, Ignored, ByService
<1>7. Ignored'
  BY <1>1, <1>6 DEF Ignored, KilledByIgnoredResult
<1> QED BY <1>2, <1>3, <1>5, <1>7 DEF IInv

\* The request goes out once; a connection that is not there takes nothing.
LEMMA WriteInv == ASSUME IInv, Write PROVE IInv'
<1>1. /\ pc = "write" /\ pc' \in {"read", "threw", "killed"}
      /\ UNCHANGED <<prog, ipv6, ssl, tcp, got, session, peer, answer>>
      /\ wire' \in {0, Length}
      /\ pc' = "killed" => ~tcp \/ peer = "reset"
  BY DEF Write, asked, theirs
<1>2. TypeOK'
  <2>1. wire' \in 0..RequestLen
    BY <1>1, Sizes, LengthsAssumption
  <2> QED BY <1>1, <2>1 DEF IInv, TypeOK, Ended
<1>3. wire = 0 /\ answer = 0 /\ got = 0
  BY <1>1 DEF IInv, Early
<1>4. Length' = Length /\ ByService' = ByService /\ (tcp \/ ByService)
  BY <1>1 DEF IInv, Ignored, Length, AsString, ByService
<1>5. Wired'
  BY <1>1, <1>3, <1>4, LengthsAssumption DEF IInv, Wired
<1>6. Ready'
  BY <1>1 DEF IInv, Ready, After
<1>7. (Early /\ Ignored)'
  BY <1>1, <1>4 DEF Early, Ignored, KilledByIgnoredResult, Before
<1> QED BY <1>2, <1>5, <1>6, <1>7 DEF IInv

\* One read, of what there is and no more than its size.
LEMMA ReadInv == ASSUME IInv, Read PROVE IInv'
<1>1. /\ pc = "read" /\ pc' \in {"print", "threw"}
      /\ UNCHANGED <<prog, ipv6, ssl, tcp, wire, session, peer, answer>>
      /\ pc' = "threw" => got' = 0
  BY DEF Read, asked, theirs
<1>2. got' \in Nat /\ got' <= answer /\ got' <= ReadSize
  <2>1. CASE \E k \in 1..MaxAnswer : Received(k) /\ got' = k
    BY <2>1 DEF Received
  <2>2. CASE answer = 0 /\ got' = 0
    BY <2>2, Sizes
  <2> QED BY <2>1, <2>2 DEF Read
<1>3. got' <= BufLen /\ (prog = "tcp-cli" => got' < BufLen)
  BY <1>2, Sizes, LengthsAssumption
<1>4. TypeOK'
  <2>1. got' \in 0..BufLen
    BY <1>2, <1>3, LengthsAssumption
  <2> QED BY <1>1, <2>1 DEF IInv, TypeOK, Ended
<1>5. Wired'
  <2>1. Length' = Length
    BY <1>1 DEF Length, AsString
  <2> QED BY <1>1, <1>2, <1>3, <2>1 DEF IInv, Wired
<1>6. (Ready /\ Early /\ Ignored)'
  BY <1>1 DEF IInv, Ready, Early, Ignored, KilledByIgnoredResult, Before, After
<1> QED BY <1>4, <1>5, <1>6 DEF IInv

\* The print kills the program only behind a full buffer.
LEMMA ShowInv == ASSUME IInv, Show PROVE IInv'
<1>1. /\ pc = "print" /\ pc' \in {"done", "killed"}
      /\ UNCHANGED <<prog, ipv6, ssl, tcp, wire, got, session, peer, answer>>
      /\ pc' = "killed" => Overrun
  BY DEF Show, asked, theirs
<1>2. TypeOK'
  BY <1>1 DEF IInv, TypeOK, Ended
<1>3. Wired'
  BY <1>1, WiredKept DEF IInv
<1>4. (Ready /\ Early)'
  BY <1>1 DEF IInv, Ready, Early, Before, After
<1>5. Overrun' = Overrun
  BY <1>1 DEF Overrun
<1>6. Overrun => prog # "tcp-cli"
  BY DEF IInv, TypeOK, Wired, Overrun
<1>7. Ignored'
  BY <1>1, <1>5, <1>6 DEF Ignored, KilledByIgnoredResult
<1> QED BY <1>2, <1>3, <1>4, <1>7 DEF IInv

\* The web server answers what reached it, and what it did cannot be undone.
LEMMA ServerInv == ASSUME IInv, Server PROVE IInv'
<1>1. /\ tcp /\ peer = "open"
      /\ UNCHANGED <<pc, prog, ipv6, ssl, tcp, wire, got>>
      /\ session' \in {"none", "up", "refused"} /\ peer' \in {"open", "closed", "reset"}
      /\ session' = session \/ session = "none"
      /\ answer' \in 0..MaxAnswer
      /\ answer' = answer \/ (wire > 0 /\ answer = 0)
  BY LengthsAssumption DEF IInv, TypeOK, Server, asked
<1>2. TypeOK'
  BY <1>1 DEF IInv, TypeOK
<1>3. Wired'
  <2>1. Length' = Length
    BY <1>1 DEF Length, AsString
  <2>2. answer' = answer \/ (wire = Length /\ got = 0)
    <3>1. CASE wire > 0 /\ answer = 0
      <4>1. got = 0
        BY <3>1 DEF IInv, TypeOK, Wired
      <4>2. wire = Length
        BY <3>1 DEF IInv, Wired
      <4> QED BY <4>1, <4>2
    <3> QED BY <1>1, <3>1
  <2> QED BY <1>1, <2>1, <2>2 DEF IInv, Wired
<1>4. Ready'
  BY <1>1 DEF IInv, Ready, After
<1>5. Early'
  <2>1. pc \notin Before
    BY <1>1 DEF IInv, Early
  <2>2. pc \in {"handshake", "write"} => wire = 0 /\ answer = 0 /\ got = 0
    BY DEF IInv, Early
  <2>3. pc \in {"handshake", "write"} => answer' = 0
    BY <1>1, <2>2
  <2> QED BY <1>1, <2>1, <2>2, <2>3 DEF Early, Before
<1>6. Ignored'
  <2>1. ByService' = ByService /\ Overrun' = Overrun
    BY <1>1 DEF ByService, Overrun
  <2> QED BY <1>1, <2>1 DEF IInv, Ignored, KilledByIgnoredResult
<1> QED BY <1>2, <1>3, <1>4, <1>5, <1>6 DEF IInv
-----------------------------------------------------------------------------
\* Every step keeps the invariant.
LEMMA Step == IInv /\ [Next]_vars => IInv'
<1> SUFFICES ASSUME IInv, [Next]_vars PROVE IInv'
  OBVIOUS
<1>1. CASE Main
  BY <1>1, MainInv
<1>2. CASE Construct \/ InitContext \/ InitStructure
  BY <1>2, ConstructorsInv
<1>3. CASE ConnectPlain \/ ConnectSsl
  BY <1>3, ConnectInv
<1>4. CASE Handshake
  BY <1>4, HandshakeInv
<1>5. CASE Write
  BY <1>5, WriteInv
<1>6. CASE Read
  BY <1>6, ReadInv
<1>7. CASE Show
  BY <1>7, ShowInv
<1>8. CASE Server
  BY <1>8, ServerInv
<1>9. CASE UNCHANGED vars
  BY <1>9 DEF vars, IInv, TypeOK, Ready, Wired, Early, Ignored, KilledByIgnoredResult,
              Length, AsString, ByService, Overrun
<1> QED
  BY <1>1, <1>2, <1>3, <1>4, <1>5, <1>6, <1>7, <1>8, <1>9 DEF Next, Client

\* The invariant holds in every state of every behaviour.
LEMMA Invariant == Spec => []IInv
BY Starts, Step, PTL DEF Spec

\* Every variable of the clients has its type, whatever the web server does.
THEOREM WebClientTypes == Spec => []TypeOK
<1>1. IInv => TypeOK
  BY DEF IInv
<1> QED BY Invariant, <1>1, PTL

\* A page that main has read answers the whole request, over SSL in a session;
\* only tcp-cli with SSL gets an answer to the first eight bytes
\* (SSLSocket::Write of a string).
THEOREM PagesAnswerTheRequest == Spec => []AnswerToTheRequest
<1>1. IInv => AnswerToTheRequest
  <2> SUFFICES ASSUME IInv, got > 0 PROVE AnswerToTheRequest
    BY DEF AnswerToTheRequest
  <2>1. answer > 0
    BY DEF IInv, TypeOK, Wired
  <2>2. wire = Length
    BY <2>1 DEF IInv, Wired
  <2> QED BY <2>2 DEF IInv, Ready, AnswerToTheRequest, Length, AsString
<1> QED BY Invariant, <1>1, PTL

\* A signal ends a client only after a result nobody looked at: Connect by
\* service name, a web server that left, or a read that filled the buffer of a
\* program other than tcp-cli, whose read keeps one byte back.
THEOREM SignalsExplained == Spec => []KilledByIgnoredResult
<1>1. IInv => KilledByIgnoredResult
  BY DEF IInv, Ignored
<1> QED BY Invariant, <1>1, PTL

=============================================================================
