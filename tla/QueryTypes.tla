----------------------------- MODULE QueryTypes -----------------------------
(***************************************************************************)
(* What the buffers and the parsing of Requests guarantee, and the type    *)
(* correctness of Query with the lemmas about the updates of one           *)
(* connection it rests on.                                                 *)
(***************************************************************************)
EXTENDS Query, SequenceTheorems, TLAPS

(* read() keeps the size of an array and replaces its first cells            *)
(* (Socket::Read).                                                           *)
LEMMA FillProperties ==
    ASSUME NEW S, NEW buf \in Seq(S), NEW bytes \in Seq(S),
           NEW k \in Nat, k <= Len(bytes)
    PROVE  /\ Fill(buf, bytes, k) \in Seq(S)
           /\ Len(Fill(buf, bytes, k)) = Len(buf)
           /\ \A i \in 1..Len(buf) :
                Fill(buf, bytes, k)[i] = IF i <= k THEN bytes[i] ELSE buf[i]
<1>1. \A i \in 1..Len(buf) : (IF i <= k THEN bytes[i] ELSE buf[i]) \in S
  BY ElementOfSeq
<1>2. Len(buf) \in Nat
  OBVIOUS
<1>3. Fill(buf, bytes, k) \in [1..Len(buf) -> S]
  BY <1>1 DEF Fill
<1>4. QED
  BY <1>2, <1>3 DEF Fill

(* The cells before a terminator are the beginning of every string the array *)
(* can be taken for (strlen, std::string).                                   *)
LEMMA StringsPrefix ==
    ASSUME NEW T, NEW buf \in Seq(T), NEW s \in Strings(buf),
           NEW n \in 0..Len(buf), \A i \in 1..n : buf[i] # NUL
    PROVE  Len(s) >= n /\ \A i \in 1..n : s[i] = buf[i]
<1>1. CASE \E i \in 1..Len(buf) : buf[i] = NUL
  <2>1. PICK m \in StrLen(buf) : s = SubSeq(buf, 1, m)
    BY <1>1 DEF Strings
  <2>2. m \in 0..(Len(buf) - 1) /\ buf[m + 1] = NUL
    BY <2>1 DEF StrLen
  <2>3. \A i \in 1..m : buf[i] \in T
    BY <2>2, ElementOfSeq
  <2>4. Len(s) = m /\ \A i \in 1..m : s[i] = buf[i]
    BY <2>1, <2>2, <2>3
  <2>5. n <= m
    BY <2>2
  <2>6. QED
    BY <2>2, <2>4, <2>5
<1>2. CASE ~ \E i \in 1..Len(buf) : buf[i] = NUL
  BY <1>2 DEF Strings
<1>3. QED
  BY <1>1, <1>2

(* No string holds a terminator.                                             *)
LEMMA StringsType ==
    ASSUME NEW S, JUNK \in S,
           NEW buf \in Seq(S \cup {NUL}), NEW s \in Strings(buf)
    PROVE  s \in Seq(S)
<1>1. CASE \E i \in 1..Len(buf) : buf[i] = NUL
  <2>1. PICK m \in StrLen(buf) : s = SubSeq(buf, 1, m)
    BY <1>1 DEF Strings
  <2>2. m \in 0..(Len(buf) - 1) /\ \A i \in 1..m : buf[i] # NUL
    BY <2>1 DEF StrLen
  <2>3. \A i \in 1..m : buf[i] \in S
    BY <2>2, ElementOfSeq
  <2>4. QED
    BY <2>1, <2>2, <2>3
<1>2. CASE ~ \E i \in 1..Len(buf) : buf[i] = NUL
  <2>1. s \in {buf, Append(buf, JUNK)}
    BY <1>2 DEF Strings
  <2>2. \A i \in 1..Len(buf) : buf[i] \in S
    BY <1>2, ElementOfSeq
  <2>3. buf \in Seq(S)
    BY <2>2
  <2>4. QED
    BY <2>1, <2>3
<1>3. QED
  BY <1>1, <1>2

(* A string of an array that holds a terminator is shorter than the array.   *)
LEMMA StringsShort ==
    ASSUME NEW T, NEW buf \in Seq(T), NEW s \in Strings(buf),
           \E i \in 1..Len(buf) : buf[i] = NUL
    PROVE  Len(s) < Len(buf)
<1>1. PICK m \in StrLen(buf) : s = SubSeq(buf, 1, m)
  BY DEF Strings
<1>2. m \in 0..(Len(buf) - 1)
  BY <1>1 DEF StrLen
<1>3. QED
  BY <1>1, <1>2

(* formatRequest only depends on the request up to the blank after the name. *)
LEMMA FormatPrefix ==
    ASSUME NEW m \in Seq(Cells), NEW s \in Seq(Cells), NEW size \in Nat,
           NamesFigure(m, size),
           \A n \in 0..size :
              (n <= Len(m) /\ \A i \in 1..n : m[i] # NUL) =>
                 Len(s) >= n /\ \A i \in 1..n : s[i] = m[i]
    PROVE  formatRequest(s) = formatRequest(m)
<1>1. PICK e \in 2..Len(m) :
          e <= size /\ m[e] = SP /\ \A i \in 2..(e - 1) : m[i] \notin {GET, SP, NUL}
  BY DEF NamesFigure
<1>2. m[1] = GET /\ GET # NUL /\ SP # NUL /\ GET # SP
  BY WordsAssumption DEF NamesFigure, Words
<1>3. \A i \in 1..e : m[i] # NUL
  BY <1>1, <1>2
<1>4. Len(s) >= e /\ \A i \in 1..e : s[i] = m[i]
  BY <1>1, <1>3
<1>5. ASSUME NEW r \in Seq(Cells), Len(r) >= e, \A i \in 1..e : r[i] = m[i]
      PROVE  formatRequest(r) = SubSeq(r, 2, e - 1)
  <2>0. e \in Nat /\ e >= 2 /\ 1 \in 1..e /\ e \in 1..e /\ \A i \in 2..(e - 1) : i \in 1..e
    BY <1>1
  <2>1. r[1] = GET /\ r[e] = SP /\ \A i \in 2..(e - 1) : r[i] # SP
    BY <2>0, <1>1, <1>2, <1>5
  <2>2. Len(r) \in Nat /\ 1 \in 1..Len(r)
    BY <1>1, <1>5
  <2>3. \A i \in 1..Len(r) :
          (r[i] = GET /\ \A j \in 1..(i - 1) : r[j] # GET) <=> i = 1
    BY <2>1, <2>2
  <2>4. PathStart(r) = 1
    BY <2>1, <2>2, <2>3 DEF PathStart
  <2>5. e \in 2..Len(r)
    BY <1>1, <1>5
  <2>6. \A i \in 2..Len(r) :
          (r[i] = SP /\ \A j \in 2..(i - 1) : r[j] # SP) <=> i = e
    BY <2>1, <2>5, <2>2, <1>1
  <2>7. PathEnd(r) = e
    BY <2>1, <2>4, <2>5, <2>6 DEF PathEnd
  <2>8. QED
    BY <2>4, <2>7, <1>1 DEF formatRequest
<1>6. formatRequest(m) = SubSeq(m, 2, e - 1)
  BY <1>1, <1>5
<1>7. formatRequest(s) = SubSeq(s, 2, e - 1)
  BY <1>4, <1>5
<1>8. SubSeq(s, 2, e - 1) = SubSeq(m, 2, e - 1)
  BY <1>1, <1>4
<1>9. QED
  BY <1>6, <1>7, <1>8

(* A request read into request_buff is recognised as one.                    *)
LEMMA RequestRecognised ==
    ASSUME NEW size \in Nat, NEW buf \in Seq(Cells), Len(buf) = size,
           NEW m \in Seq(Words), NamesFigure(m, size)
    PROVE  is_valid_request(Fill(buf, m, WholeRead(m, size)))
<1>1. WholeRead(m, size) \in Nat /\ WholeRead(m, size) <= Len(m)
  BY DEF WholeRead
<1>2. 1 <= WholeRead(m, size) /\ 1 \in 1..Len(buf) /\ m[1] = GET
  BY DEF NamesFigure, WholeRead
<1>3. m \in Seq(Cells)
  BY DEF Cells
<1>4. QED
  BY <1>1, <1>2, <1>3, FillProperties DEF is_valid_request

(* A request read into request_buff keeps its name, whatever the buffer held *)
(* before, provided the blank after the name fits.                           *)
LEMMA RequestKept ==
    ASSUME NEW size \in Nat, NEW buf \in Seq(Cells), Len(buf) = size,
           NEW m \in Seq(Words), NamesFigure(m, size),
           NEW s \in Strings(Fill(buf, m, WholeRead(m, size)))
    PROVE  formatRequest(s) = formatRequest(m) /\ s # <<GET>>
<1> DEFINE k == WholeRead(m, size)
<1> DEFINE b == Fill(buf, m, k)
<1>1. k \in Nat /\ k <= Len(m) /\ k <= size /\ (k = Len(m) \/ k = size)
  BY DEF WholeRead
<1>2. m \in Seq(Cells)
  BY DEF Cells
<1>3. b \in Seq(Cells) /\ Len(b) = size
      /\ \A i \in 1..size : b[i] = IF i <= k THEN m[i] ELSE buf[i]
  <2> HIDE DEF k
  <2>1. /\ Fill(buf, m, k) \in Seq(Cells) /\ Len(Fill(buf, m, k)) = Len(buf)
        /\ \A i \in 1..Len(buf) :
             Fill(buf, m, k)[i] = IF i <= k THEN m[i] ELSE buf[i]
    <3>1. buf \in Seq(Cells) /\ k \in Nat /\ k <= Len(m)
      BY <1>1
    <3>2. QED
      BY ONLY <1>2, <3>1, FillProperties
  <2>2. QED
    BY <2>1
<1>4. s \in Strings(b)
  OBVIOUS
<1>5. \A n \in 0..Len(b) : (\A i \in 1..n : b[i] # NUL) =>
            Len(s) >= n /\ \A i \in 1..n : s[i] = b[i]
  <2> HIDE DEF b
  <2>1. QED
    BY <1>3, <1>4, StringsPrefix
<1>6. s \in Seq(Cells)
  <2> DEFINE S == Words \cup {JUNK}
  <2>1. b \in Seq(S \cup {NUL}) /\ JUNK \in S
    BY <1>3 DEF Cells
  <2> HIDE DEF b, S
  <2>2. s \in Seq(S)
    BY <1>4, <2>1, StringsType
  <2>3. QED
    BY <2>2 DEF S, Cells
<1>7. ASSUME NEW n \in 0..size, n <= Len(m), \A i \in 1..n : m[i] # NUL
      PROVE  Len(s) >= n /\ \A i \in 1..n : s[i] = m[i]
  <2>1. n <= k
    BY <1>1, <1>7
  <2>2. \A i \in 1..n : b[i] = m[i]
    BY <1>1, <1>3, <2>1
  <2>3. QED
    BY <1>3, <1>5, <1>7, <2>2
<1>8. formatRequest(s) = formatRequest(m)
  BY <1>2, <1>6, <1>7, FormatPrefix
<1>9. PICK e \in 2..Len(m) : e <= size
  BY DEF NamesFigure
<1>10. Len(s) >= 2
  <2>1. \A i \in 1..2 : m[i] # NUL
    BY <1>9, WordsAssumption
  <2>2. 2 \in 0..size /\ 2 <= Len(m)
    BY <1>9
  <2>3. QED
    BY <1>7, <2>1, <2>2
<1>11. QED
  BY <1>8, <1>10

(* What the pieces server answers is never empty and holds no terminator.    *)
LEMMA ResponseType ==
    ASSUME NEW r
    PROVE  Response(r) \in Seq(Blocks) /\ Response(r) # <<>>
<1>1. CASE r \in Good
  <2>1. Size[r] \in Nat \ {0}
    BY <1>1, CatalogueAssumption
  <2>2. \A i \in 1..Size[r] : <<r, i>> \in Blocks
    BY <1>1 DEF Blocks
  <2>3. responseHTML(r) \in Seq(Blocks) /\ Len(responseHTML(r)) = Size[r]
    BY <2>1, <2>2 DEF responseHTML
  <2>4. QED
    BY <1>1, <2>1, <2>3 DEF Response
<1>2. CASE r \notin Good
  BY <1>2 DEF Response, errorHTML, Blocks
<1>3. QED
  BY <1>1, <1>2
-----------------------------------------------------------------------------
ConnType == [Clients -> Connection(Seq(Words), Seq(Blocks \cup {JUNK}))]
LinkType == [Clients -> Connection(Seq(Words \cup {JUNK}), Seq(Blocks))]
CpcType == [Clients -> {"start", "connected", "waiting"} \cup Finished]
ShownType == [Clients -> Seq(Blocks \cup {JUNK})]
-----------------------------------------------------------------------------
(* Every update of one connection the programs make keeps the type.          *)
LEMMA UpdateType ==
    ASSUME NEW ups, NEW downs, NEW f \in [Clients -> Connection(ups, downs)],
           NEW c \in Clients
    PROVE  /\ \A v \in States : [f EXCEPT ![c].st = v] \in [Clients -> Connection(ups, downs)]
           /\ \A v \in ups : [f EXCEPT ![c].up = v] \in [Clients -> Connection(ups, downs)]
           /\ [f EXCEPT ![c].got = TRUE] \in [Clients -> Connection(ups, downs)]
           /\ [f EXCEPT ![c].ihup = TRUE] \in [Clients -> Connection(ups, downs)]
           /\ \A v \in downs :
                [f EXCEPT ![c] = Answered(@, v)] \in [Clients -> Connection(ups, downs)]
  BY DEF Connection, Answered

(* What such an update changes, field by field: connect() and accept().       *)
LEMMA UpdateSt ==
    ASSUME NEW ups, NEW downs, NEW f \in [Clients -> Connection(ups, downs)],
           NEW c \in Clients, NEW v, NEW g, g = [f EXCEPT ![c].st = v]
    PROVE  /\ \A d \in Clients \ {c} : g[d] = f[d]
           /\ g[c].st = v /\ g[c].up = f[c].up /\ g[c].got = f[c].got
           /\ g[c].down = f[c].down /\ g[c].ihup = f[c].ihup /\ g[c].ahup = f[c].ahup
  BY DEF Connection

(* Write at the initiating end.                                              *)
LEMMA UpdateUp ==
    ASSUME NEW ups, NEW downs, NEW f \in [Clients -> Connection(ups, downs)],
           NEW c \in Clients, NEW v, NEW g, g = [f EXCEPT ![c].up = v]
    PROVE  /\ \A d \in Clients \ {c} : g[d] = f[d]
           /\ g[c].st = f[c].st /\ g[c].up = v /\ g[c].got = f[c].got
           /\ g[c].down = f[c].down /\ g[c].ihup = f[c].ihup /\ g[c].ahup = f[c].ahup
  BY DEF Connection

(* Read at the accepting end.                                                *)
LEMMA UpdateGot ==
    ASSUME NEW ups, NEW downs, NEW f \in [Clients -> Connection(ups, downs)],
           NEW c \in Clients, NEW v, NEW g, g = [f EXCEPT ![c].got = v]
    PROVE  /\ \A d \in Clients \ {c} : g[d] = f[d]
           /\ g[c].st = f[c].st /\ g[c].up = f[c].up /\ g[c].got = v
           /\ g[c].down = f[c].down /\ g[c].ihup = f[c].ihup /\ g[c].ahup = f[c].ahup
  BY DEF Connection

(* Close at the initiating end.                                              *)
LEMMA UpdateIhup ==
    ASSUME NEW ups, NEW downs, NEW f \in [Clients -> Connection(ups, downs)],
           NEW c \in Clients, NEW v, NEW g, g = [f EXCEPT ![c].ihup = v]
    PROVE  /\ \A d \in Clients \ {c} : g[d] = f[d]
           /\ g[c].st = f[c].st /\ g[c].up = f[c].up /\ g[c].got = f[c].got
           /\ g[c].down = f[c].down /\ g[c].ihup = v /\ g[c].ahup = f[c].ahup
  BY DEF Connection

(* Write and Close at the accepting end.                                     *)
LEMMA UpdateAnswered ==
    ASSUME NEW ups, NEW downs, NEW f \in [Clients -> Connection(ups, downs)],
           NEW c \in Clients, NEW v, NEW g, g = [f EXCEPT ![c] = Answered(@, v)]
    PROVE  /\ \A d \in Clients \ {c} : g[d] = f[d]
           /\ g[c].st = f[c].st /\ g[c].up = f[c].up /\ g[c].got = f[c].got
           /\ g[c].down = v /\ g[c].ihup = f[c].ihup /\ g[c].ahup = TRUE
  BY DEF Connection, Answered

(* What the end of the accepting process does to one of its connections.     *)
LEMMA OrphanedFields ==
    ASSUME NEW ups, NEW downs, NEW k \in Connection(ups, downs)
    PROVE  /\ Orphaned(k) \in Connection(ups, downs)
           /\ Orphaned(k).up = k.up /\ Orphaned(k).got = k.got
           /\ Orphaned(k).down = k.down /\ Orphaned(k).ihup = k.ihup
           /\ k.ahup => Orphaned(k).ahup
           /\ Orphaned(k).st # k.st =>
                Orphaned(k).st = "reset" /\ k.st \in {"queued", "accepted"}
           /\ (Orphaned(k).st = k.st /\ k.st # "accepted") => Orphaned(k) = k
           /\ Orphaned(k).st # "queued"
           /\ Orphaned(k).st = "accepted" => Orphaned(k).ahup
  BY DEF Orphaned, Connection, States

(* The same for the two kinds of connections.                                *)
LEMMA ConnUpdate ==
    ASSUME NEW f \in ConnType, NEW c \in Clients
    PROVE  /\ \A v \in States : [f EXCEPT ![c].st = v] \in ConnType
           /\ \A v \in Seq(Words) : [f EXCEPT ![c].up = v] \in ConnType
           /\ [f EXCEPT ![c].got = TRUE] \in ConnType
           /\ [f EXCEPT ![c].ihup = TRUE] \in ConnType
  BY UpdateType DEF ConnType

(* Write and Close at the accepting end of a client's connection.             *)
LEMMA ConnAnswered ==
    ASSUME NEW f \in ConnType, NEW c \in Clients, NEW v \in Seq(Blocks \cup {JUNK}),
           NEW g, g = [f EXCEPT ![c] = Answered(@, v)]
    PROVE  g \in ConnType
<1>1. f \in [Clients -> Connection(Seq(Words), Seq(Blocks \cup {JUNK}))]
  BY DEF ConnType
<1>2. g \in [Clients -> Connection(Seq(Words), Seq(Blocks \cup {JUNK}))]
  BY <1>1, UpdateType
<1>3. QED
  BY <1>2 DEF ConnType

(* The same for the connections of request_ps.                               *)
LEMMA LinkUpdate ==
    ASSUME NEW f \in LinkType, NEW c \in Clients
    PROVE  /\ \A v \in States : [f EXCEPT ![c].st = v] \in LinkType
           /\ \A v \in Seq(Words \cup {JUNK}) : [f EXCEPT ![c].up = v] \in LinkType
           /\ [f EXCEPT ![c].got = TRUE] \in LinkType
           /\ [f EXCEPT ![c].ihup = TRUE] \in LinkType
           /\ \A v \in Seq(Blocks) : [f EXCEPT ![c] = Answered(@, v)] \in LinkType
  BY UpdateType DEF LinkType

(* The two contents of an array nobody wrote to.                             *)
LEMMA UninitialisedType ==
    ASSUME NEW n \in Nat, NEW S, NUL \in S, JUNK \in S, NEW buf \in Uninitialised(n)
    PROVE  buf \in Seq(S) /\ Len(buf) = n
  BY DEF Uninitialised

(* The same for the two arrays of answers, before and after a read.          *)
LEMMA AnswerBufferType ==
    ASSUME NEW n \in Nat, NEW buf \in Uninitialised(n)
    PROVE  buf \in Seq(Blocks \cup {NUL, JUNK}) /\ Len(buf) = n
<1> DEFINE S == Blocks \cup {NUL, JUNK}
<1>1. NUL \in S /\ JUNK \in S
  OBVIOUS
<1> HIDE DEF S
<1>2. buf \in Seq(S) /\ Len(buf) = n
  BY <1>1, UninitialisedType
<1>3. QED
  BY <1>2 DEF S

(* A read of an answer leaves an array of blocks of the same size.           *)
LEMMA AnswerFillType ==
    ASSUME NEW buf \in Seq(Blocks \cup {NUL, JUNK}),
           NEW bytes \in Seq(Blocks \cup {NUL, JUNK}), NEW k \in Nat, k <= Len(bytes)
    PROVE  /\ Fill(buf, bytes, k) \in Seq(Blocks \cup {NUL, JUNK})
           /\ Len(Fill(buf, bytes, k)) = Len(buf)
           /\ \A i \in 1..Len(buf) :
                Fill(buf, bytes, k)[i] = IF i <= k THEN bytes[i] ELSE buf[i]
<1> DEFINE S == Blocks \cup {NUL, JUNK}
<1>1. buf \in Seq(S) /\ bytes \in Seq(S)
  OBVIOUS
<1> HIDE DEF S
<1>2. /\ Fill(buf, bytes, k) \in Seq(S)
      /\ Len(Fill(buf, bytes, k)) = Len(buf)
      /\ \A i \in 1..Len(buf) :
                Fill(buf, bytes, k)[i] = IF i <= k THEN bytes[i] ELSE buf[i]
  BY <1>1, FillProperties
<1>3. QED
  BY <1>2 DEF S

(* The string in an array of blocks holds no terminator.                     *)
LEMMA AnswerStringsType ==
    ASSUME NEW buf \in Seq(Blocks \cup {NUL, JUNK}), NEW s \in Strings(buf)
    PROVE  s \in Seq(Blocks \cup {JUNK})
<1> DEFINE S == Blocks \cup {JUNK}
<1>1. buf \in Seq(S \cup {NUL}) /\ JUNK \in S
  <2>1. Blocks \cup {NUL, JUNK} = S \cup {NUL}
    OBVIOUS
  <2>2. QED
    BY <2>1
<1> HIDE DEF S
<1>2. s \in Seq(S)
  BY <1>1, StringsType
<1>3. QED
  BY <1>2 DEF S

(* The string in an array of words holds no terminator.                      *)
LEMMA RequestStringsType ==
    ASSUME NEW buf \in Seq(Cells), NEW s \in Strings(buf)
    PROVE  s \in Seq(Words \cup {JUNK})
<1> DEFINE S == Words \cup {JUNK}
<1>1. buf \in Seq(S \cup {NUL}) /\ JUNK \in S
  <2>1. Cells = S \cup {NUL}
    BY DEF Cells
  <2>2. QED
    BY <2>1
<1> HIDE DEF S
<1>2. s \in Seq(S)
  BY <1>1, StringsType
<1>3. QED
  BY <1>2 DEF S
-----------------------------------------------------------------------------

(* The processes start with the types they keep.                             *)
LEMMA InitType == Init => TypeOK
<1> SUFFICES ASSUME Init PROVE TypeOK
  OBVIOUS
<1> USE DEF Init
<1>1. conn \in ConnType /\ link \in LinkType
  <2>1. conn = [c \in Clients |-> NoConnection] /\ link = [c \in Clients |-> NoConnection]
    BY DEF SocketsInit
  <2>2. NoConnection \in Connection(Seq(Words), Seq(Blocks \cup {JUNK}))
        /\ NoConnection \in Connection(Seq(Words \cup {JUNK}), Seq(Blocks))
    BY DEF NoConnection, Connection, States
  <2>3. QED
    BY <2>1, <2>2 DEF ConnType, LinkType
<1>2. cur \in Clients /\ serving \in Clients
  BY ClientsAssumption DEF AnyClient, IntermediateInit, ServerInit
<1>3. request_buff \in Seq(Cells) /\ Len(request_buff) = RequestLen
  <2>1. NUL \in Cells /\ JUNK \in Cells /\ RequestLen \in Nat
    BY IntermediateAssumption DEF Cells
  <2>2. request_buff \in Uninitialised(RequestLen)
    BY DEF IntermediateInit
  <2>3. QED
    BY <2>1, <2>2, UninitialisedType
<1>4. ps_buff \in Seq(Blocks \cup {NUL, JUNK}) /\ Len(ps_buff) = ResponseLen
  BY IntermediateAssumption, AnswerBufferType DEF IntermediateInit
<1>5. cpc \in CpcType /\ shown \in ShownType
  BY DEF ClientInit, CpcType, ShownType
<1>6. iUp \in BOOLEAN /\ sUp \in BOOLEAN /\ psKnown \in BOOLEAN /\ test_case \in TestCases
  BY DEF SocketsInit, IntermediateInit
<1>7. clientQueue \in Seq(Clients) /\ psQueue \in Seq(Clients)
  BY DEF SocketsInit
<1>8. /\ request \in Seq(Words \cup {JUNK}) /\ ps_answer \in Seq(Blocks \cup {JUNK})
      /\ a \in Seq(Words \cup {JUNK})
  BY DEF IntermediateInit, ServerInit
<1>9. ipc = "accept" /\ spc = "accept" /\ starts \in 0..MaxStarts
  BY StartsAssumption DEF IntermediateInit, ServerInit
<1>10. QED
  BY <1>1, <1>2, <1>3, <1>4, <1>5, <1>6, <1>7, <1>8, <1>9
  DEF TypeOK, ConnType, LinkType, CpcType, ShownType

(* accept() leaves a queue of clients.                                       *)
LEMMA QueueType ==
    ASSUME NEW q \in Seq(Clients), NEW c \in Clients
    PROVE  {q, Append(q, c), <<>>} \subseteq Seq(Clients)
  OBVIOUS

(* A step of a client keeps every type.                                      *)
LEMMA ClientType == ASSUME TypeOK, NEW c \in Clients, ClientNext(c) PROVE TypeOK'
<1> USE DEF ClientNext, interVars, serverVars
<1>1. conn \in ConnType /\ cpc \in CpcType /\ shown \in ShownType /\ clientQueue \in Seq(Clients)
  BY DEF TypeOK, ConnType, CpcType, ShownType
<1>2. ASSUME Connect(c) PROVE TypeOK'
  <2>1. /\ conn' = [conn EXCEPT ![c].st = "queued"] \/ conn' = [conn EXCEPT ![c].st = "refused"]
        /\ cpc' = [cpc EXCEPT ![c] = "connected"] \/ cpc' = [cpc EXCEPT ![c] = "crashed"]
        /\ clientQueue' \in {clientQueue, Append(clientQueue, c)}
    BY <1>2 DEF Connect
  <2>2. conn' \in ConnType
    BY <1>1, <2>1, ConnUpdate DEF States
  <2>3. cpc' \in CpcType
    BY <1>1, <2>1 DEF CpcType, Finished
  <2>4. clientQueue' \in Seq(Clients)
    BY <1>1, <2>1, QueueType
  <2>5. QED
    BY <1>2, <2>2, <2>3, <2>4 DEF Connect, TypeOK, ConnType, CpcType
<1>3. ASSUME Send(c) PROVE TypeOK'
  <2>1. Asks[c] \subseteq Seq(Words)
    BY ClientAssumption
  <2>2. /\ \/ conn' = [conn EXCEPT ![c].ihup = TRUE]
           \/ \E m \in Seq(Words) : conn' = [conn EXCEPT ![c].up = m]
        /\ cpc' = [cpc EXCEPT ![c] = "waiting"] \/ cpc' = [cpc EXCEPT ![c] = "crashed"]
    BY <1>3, <2>1 DEF Send
  <2>3. conn' \in ConnType
    <3>1. CASE conn' = [conn EXCEPT ![c].ihup = TRUE]
      BY <1>1, <3>1, ConnUpdate
    <3>2. ASSUME NEW m \in Seq(Words), conn' = [conn EXCEPT ![c].up = m] PROVE conn' \in ConnType
      BY <1>1, <3>2, ConnUpdate
    <3>3. QED
      BY <2>2, <3>1, <3>2
  <2>4. cpc' \in CpcType
    BY <1>1, <2>2 DEF CpcType, Finished
  <2>5. QED
    BY <1>3, <2>3, <2>4 DEF Send, TypeOK, ConnType, CpcType
<1>4. ASSUME Receive(c) PROVE TypeOK'
  <2>1. conn' = [conn EXCEPT ![c].ihup = TRUE]
        /\ (cpc' = [cpc EXCEPT ![c] = "done"] \/ cpc' = [cpc EXCEPT ![c] = "timeout"])
    BY <1>4 DEF Receive, ReceiveTimesOut
  <2>2. PICK before \in Uninitialised(ClientLen) :
            \/ /\ conn[c].down # <<>>
               /\ \E k \in ReadSizes(conn[c].down, ClientLen) :
                    \E s \in Strings(Fill(before, conn[c].down, k)) :
                        shown' = [shown EXCEPT ![c] = s]
            \/ \E s \in Strings(before) : shown' = [shown EXCEPT ![c] = s]
    BY <1>4 DEF Receive, ReceiveTimesOut
  <2>3. before \in Seq(Blocks \cup {NUL, JUNK})
    BY ClientAssumption, AnswerBufferType
  <2>4. conn[c].down \in Seq(Blocks \cup {NUL, JUNK})
    <3>1. conn[c].down \in Seq(Blocks \cup {JUNK})
      BY <1>1 DEF ConnType, Connection
    <3>2. QED
      BY <3>1
  <2>5. ASSUME NEW k \in ReadSizes(conn[c].down, ClientLen)
        PROVE  Fill(before, conn[c].down, k) \in Seq(Blocks \cup {NUL, JUNK})
    <3>1. k \in Nat /\ k <= Len(conn[c].down)
      BY DEF ReadSizes
    <3>2. QED
      BY <2>3, <2>4, <3>1, AnswerFillType
  <2>6. PICK s \in Seq(Blocks \cup {JUNK}) : shown' = [shown EXCEPT ![c] = s]
    BY <2>2, <2>3, <2>5, AnswerStringsType
  <2>7. shown' \in ShownType
    BY <1>1, <2>6 DEF ShownType
  <2>8. cpc' \in CpcType
    BY <1>1, <2>1 DEF CpcType, Finished
  <2>9. conn' \in ConnType
    BY <1>1, <2>1, ConnUpdate
  <2>10. QED
    BY <1>4, <2>7, <2>8, <2>9 DEF Receive, ReceiveTimesOut, TypeOK, ConnType, CpcType, ShownType
<1>5. QED
  BY <1>2, <1>3, <1>4 DEF ClientStep

(* The end of the intermediate.                                              *)
LEMMA DieType ==
    ASSUME conn \in ConnType, conn' = [c \in Clients |-> Orphaned(conn[c])]
    PROVE  conn' \in ConnType
  BY OrphanedFields DEF ConnType

(* A step of listen_client keeps every type: the two reused buffers keep     *)
(* their size, and what is sent holds no terminator.                         *)
LEMMA RelayType == ASSUME TypeOK, RelayNext PROVE TypeOK'
<1> USE DEF RelayNext, clientVars, serverVars
<1>1. /\ conn \in ConnType /\ link \in LinkType /\ cur \in Clients
      /\ clientQueue \in Seq(Clients) /\ psQueue \in Seq(Clients)
      /\ request_buff \in Seq(Cells) /\ Len(request_buff) = RequestLen
      /\ request \in Seq(Words \cup {JUNK})
      /\ ps_buff \in Seq(Blocks \cup {NUL, JUNK}) /\ Len(ps_buff) = ResponseLen
      /\ ps_answer \in Seq(Blocks \cup {JUNK})
  BY DEF TypeOK, ConnType, LinkType
<1>queues. clientQueue \in Seq(Clients) /\ psQueue \in Seq(Clients) /\ cur \in Clients
  BY DEF TypeOK
<1>2. ASSUME AcceptClient PROVE TypeOK'
  <2>1. Head(clientQueue) \in Clients /\ Tail(clientQueue) \in Seq(Clients)
    BY <1>1, <1>2 DEF AcceptClient
  <2>2. conn' \in ConnType
    BY <1>1, <1>2, <2>1, ConnUpdate DEF AcceptClient, States
  <2>3. cur' \in Clients /\ clientQueue' \in Seq(Clients)
    BY <1>2, <2>1 DEF AcceptClient
  <2>4. QED
    BY <1>2, <2>2, <2>3 DEF AcceptClient, TypeOK, ConnType
<1>3. ASSUME ReadRequest PROVE TypeOK'
  <2>1. conn' \in ConnType
    BY <1>1, <1>3, ConnUpdate DEF ReadRequest
  <2>2. request_buff' \in Seq(Cells) /\ Len(request_buff') = RequestLen
    <3>1. conn[cur].up \in Seq(Cells)
      <4>1. conn[cur].up \in Seq(Words)
        BY <1>1 DEF ConnType, Connection
      <4>2. QED
        BY <4>1 DEF Cells
    <3>2. WholeRead(conn[cur].up, RequestLen) \in Nat
          /\ WholeRead(conn[cur].up, RequestLen) <= Len(conn[cur].up)
      BY <3>1, IntermediateAssumption DEF WholeRead
    <3>3. \/ request_buff' = request_buff
          \/ request_buff' = Fill(request_buff, conn[cur].up, WholeRead(conn[cur].up, RequestLen))
      BY <1>3 DEF ReadRequest
    <3>4. QED
      BY <1>1, <3>1, <3>2, <3>3, FillProperties
  <2>3. QED
    BY <1>3, <2>1, <2>2 DEF ReadRequest, TypeOK, ConnType
<1>4. ASSUME Sleep PROVE TypeOK'
  BY <1>4 DEF Sleep, TypeOK, socketVars
<1>5. ASSUME DispatchError PROVE TypeOK'
  <2>1. \E v \in Seq(Blocks \cup {JUNK}) : conn' = [conn EXCEPT ![cur] = Answered(@, v)]
    <3>1. <<InvalidRequest>> \in Seq(Blocks \cup {JUNK}) /\ <<Error500>> \in Seq(Blocks \cup {JUNK})
      BY DEF Blocks
    <3>2. QED
      BY <1>5, <3>1 DEF DispatchError, Respond
  <2>2. conn' \in ConnType
    <3>1. PICK v \in Seq(Blocks \cup {JUNK}) : conn' = [conn EXCEPT ![cur] = Answered(@, v)]
      BY <2>1
    <3>2. QED
      BY <1>1, <3>1, ConnAnswered
  <2>3. ipc' = "accept"
    BY <1>5 DEF DispatchError, Respond
  <2>4. QED
    BY <1>5, <2>2, <2>3 DEF DispatchError, TypeOK, ConnType
<1>6. ASSUME DispatchMenu PROVE TypeOK'
  <2>1. \E v \in Seq(Blocks \cup {JUNK}) : conn' = [conn EXCEPT ![cur] = Answered(@, v)]
    <3>1. conn' = [conn EXCEPT ![cur] = Answered(@, <<>>)]
      BY <1>6 DEF DispatchMenu, Respond, ps_menu
    <3>2. <<>> \in Seq(Blocks \cup {JUNK})
      OBVIOUS
    <3>3. QED
      BY <3>1, <3>2
  <2>2. conn' \in ConnType
    <3>1. PICK v \in Seq(Blocks \cup {JUNK}) : conn' = [conn EXCEPT ![cur] = Answered(@, v)]
      BY <2>1
    <3>2. QED
      BY <1>1, <3>1, ConnAnswered
  <2>3. QED
    BY <1>6, <2>2 DEF DispatchMenu, Respond, TypeOK, ConnType
<1>7. ASSUME DispatchRequest PROVE TypeOK'
  <2>1. request' \in Seq(Words \cup {JUNK})
    BY <1>1, <1>7, RequestStringsType DEF DispatchRequest
  <2>2. QED
    BY <1>7, <2>1 DEF DispatchRequest, socketVars, TypeOK
<1>8. ASSUME PsConnect PROVE TypeOK'
  <2>1. /\ link' = [link EXCEPT ![cur].st = "queued"] \/ link' = [link EXCEPT ![cur].st = "refused"]
        /\ conn' = conn \/ conn' = [c \in Clients |-> Orphaned(conn[c])]
        /\ psQueue' \in {psQueue, Append(psQueue, cur)}
        /\ clientQueue' \in {clientQueue, <<>>}
        /\ iUp' \in {iUp, FALSE} /\ ipc' \in {"write", "dead"}
    BY <1>8 DEF PsConnect, Die
  <2>2. link' \in LinkType
    BY <1>1, <2>1, LinkUpdate DEF States
  <2>3. conn' \in ConnType
    BY <1>1, <2>1, DieType
  <2>4. psQueue' \in Seq(Clients) /\ clientQueue' \in Seq(Clients)
    BY <1>queues, <2>1, QueueType
  <2>5. iUp' \in BOOLEAN
    BY <2>1 DEF TypeOK
  <2>6. QED
    BY <1>8, <2>1, <2>2, <2>3, <2>4, <2>5 DEF PsConnect, TypeOK, ConnType, LinkType
<1>9. ASSUME PsWrite PROVE TypeOK'
  <2>1. /\ link' = [link EXCEPT ![cur].up = request] \/ link' = [link EXCEPT ![cur].ihup = TRUE]
        /\ conn' = conn \/ conn' = [c \in Clients |-> Orphaned(conn[c])]
        /\ clientQueue' \in {clientQueue, <<>>}
        /\ iUp' \in {iUp, FALSE} /\ ipc' \in {"answer", "dead"}
    BY <1>9 DEF PsWrite, Die
  <2>2. link' \in LinkType
    <3>1. CASE link' = [link EXCEPT ![cur].up = request]
      BY <1>1, <3>1, LinkUpdate
    <3>2. CASE link' = [link EXCEPT ![cur].ihup = TRUE]
      BY <1>1, <3>2, LinkUpdate
    <3>3. QED
      BY <2>1, <3>1, <3>2
  <2>3. conn' \in ConnType
    BY <1>1, <2>1, DieType
  <2>4. clientQueue' \in Seq(Clients)
    BY <1>queues, <2>1, QueueType
  <2>5. iUp' \in BOOLEAN
    BY <2>1 DEF TypeOK
  <2>6. QED
    BY <1>9, <2>1, <2>2, <2>3, <2>4, <2>5 DEF PsWrite, TypeOK, ConnType, LinkType
<1>10. ASSUME PsRead PROVE TypeOK'
  <2>1. PICK before \in {ps_buff} \cup Uninitialised(ResponseLen) :
            \/ \E k \in ReadSizes(link[cur].down, ResponseLen) :
                    ps_buff' = Fill(before, link[cur].down, k)
            \/ ps_buff' = before
            \/ ps_buff' = Fill(before, <<Error504, NUL>>, 2)
    BY <1>10 DEF PsRead, PsReadTimesOut, PsClose
  <2>2. before \in Seq(Blocks \cup {NUL, JUNK}) /\ Len(before) = ResponseLen
    BY <1>1, IntermediateAssumption, AnswerBufferType
  <2>3. link[cur].down \in Seq(Blocks \cup {NUL, JUNK})
    <3>1. link[cur].down \in Seq(Blocks)
      BY <1>1 DEF LinkType, Connection
    <3>2. QED
      BY <3>1
  <2>4. <<Error504, NUL>> \in Seq(Blocks \cup {NUL, JUNK}) /\ 2 <= Len(<<Error504, NUL>>)
    BY DEF Blocks
  <2>5. ps_buff' \in Seq(Blocks \cup {NUL, JUNK}) /\ Len(ps_buff') = ResponseLen
    <3>1. \A k \in ReadSizes(link[cur].down, ResponseLen) : k \in Nat /\ k <= Len(link[cur].down)
      BY DEF ReadSizes
    <3>2. CASE \E k \in ReadSizes(link[cur].down, ResponseLen) :
                    ps_buff' = Fill(before, link[cur].down, k)
      BY <2>2, <2>3, <3>1, <3>2, AnswerFillType
    <3>3. CASE ps_buff' = Fill(before, <<Error504, NUL>>, 2)
      BY <2>2, <2>4, <3>3, AnswerFillType
    <3>4. QED
      BY <2>1, <2>2, <3>2, <3>3
  <2>6. ps_answer' \in Seq(Blocks \cup {JUNK})
    BY <1>10, <2>5, AnswerStringsType DEF PsRead, PsReadTimesOut, PsClose
  <2>7. link' \in LinkType
    BY <1>1, <1>10, LinkUpdate DEF PsRead, PsReadTimesOut, PsClose
  <2>8. QED
    BY <1>10, <2>5, <2>6, <2>7 DEF PsRead, PsReadTimesOut, PsClose, TypeOK, LinkType
<1>11. ASSUME Reply PROVE TypeOK'
  <2>1. /\ \/ conn' = [conn EXCEPT ![cur] = Answered(@, ps_answer)]
           \/ conn' = [c \in Clients |-> Orphaned(conn[c])]
        /\ clientQueue' \in {clientQueue, <<>>}
        /\ iUp' \in {iUp, FALSE} /\ ipc' \in {"accept", "dead"}
    BY <1>11 DEF Reply, Respond, Die
  <2>2. conn' \in ConnType
    <3>1. CASE conn' = [conn EXCEPT ![cur] = Answered(@, ps_answer)]
      BY <1>1, <3>1, ConnAnswered
    <3>2. CASE conn' = [c \in Clients |-> Orphaned(conn[c])]
      BY <1>1, <3>2, DieType
    <3>3. QED
      BY <2>1, <3>1, <3>2
  <2>3. clientQueue' \in Seq(Clients)
    BY <1>queues, <2>1, QueueType
  <2>4. iUp' \in BOOLEAN
    BY <2>1 DEF TypeOK
  <2>5. QED
    BY <1>11, <2>1, <2>2, <2>3, <2>4 DEF Reply, TypeOK, ConnType
<1>12. ASSUME CloseThrows PROVE TypeOK'
  <2>1. conn' \in ConnType
    BY <1>1, <1>12, DieType DEF CloseThrows, Die
  <2>2. clientQueue' \in Seq(Clients) /\ iUp' = FALSE /\ ipc' = "dead"
    BY <1>12 DEF CloseThrows, Die
  <2>3. iUp' \in BOOLEAN
    BY <2>2
  <2>4. QED
    BY <1>12, <2>1, <2>2, <2>3 DEF CloseThrows, TypeOK, ConnType
<1>13. QED
  BY <1>2, <1>3, <1>4, <1>5, <1>6, <1>7, <1>8, <1>9, <1>10, <1>11, <1>12 DEF ListenClient

(* So does what the other threads of the intermediate do to this path.       *)
LEMMA MainType == ASSUME TypeOK, MainNext PROVE TypeOK'
<1> USE DEF MainNext, clientVars, serverVars
<1>1. ASSUME LearnPs PROVE TypeOK'
  BY <1>1 DEF LearnPs, socketVars, TypeOK
<1>2. ASSUME InterStop PROVE TypeOK'
  <2>1. conn \in ConnType /\ link \in LinkType
    BY DEF TypeOK, ConnType, LinkType
  <2>2. conn' \in ConnType
    BY <1>2, <2>1, DieType DEF InterStop
  <2>3. link' \in LinkType
    BY <1>2, <2>1 DEF InterStop, LinkType, Connection
  <2>4. iUp' \in BOOLEAN /\ clientQueue' \in Seq(Clients) /\ ipc' = "stopped"
    <3>1. iUp' = FALSE
      BY <1>2 DEF InterStop
    <3>2. iUp' \in BOOLEAN
      BY <3>1, Zenon
    <3>3. clientQueue' = <<>> /\ ipc' = "stopped"
      BY <1>2 DEF InterStop
    <3>4. QED
      BY <3>2, <3>3
  <2>5. UNCHANGED <<sUp, psQueue, cur, request_buff, request, ps_buff, ps_answer,
                    psKnown, test_case>>
    BY <1>2 DEF InterStop
  <2>6. QED
    BY <2>2, <2>3, <2>4, <2>5 DEF TypeOK, ConnType, LinkType
<1>3. QED
  BY <1>1, <1>2

(* A step of the pieces server keeps every type.                             *)
LEMMA ServerType == ASSUME TypeOK, ServerNext PROVE TypeOK'
<1> USE DEF ServerNext, clientVars, interVars
<1>1. link \in LinkType /\ psQueue \in Seq(Clients) /\ serving \in Clients
  BY DEF TypeOK, LinkType
<1>2. ASSUME AcceptIntermediate PROVE TypeOK'
  <2>1. Head(psQueue) \in Clients /\ Tail(psQueue) \in Seq(Clients)
    BY <1>1, <1>2 DEF AcceptIntermediate
  <2>2. link' \in LinkType
    BY <1>1, <1>2, <2>1, LinkUpdate DEF AcceptIntermediate, States
  <2>3. serving' \in Clients /\ psQueue' \in Seq(Clients) /\ a' \in Seq(Words \cup {JUNK})
    BY <1>2, <2>1 DEF AcceptIntermediate
  <2>4. QED
    BY <1>2, <2>2, <2>3 DEF AcceptIntermediate, TypeOK, LinkType
<1>3. ASSUME ReadIntermediate PROVE TypeOK'
  <2>1. link' \in LinkType
    BY <1>1, <1>3, LinkUpdate DEF ReadIntermediate
  <2>2. a' \in Seq(Words \cup {JUNK})
    BY <1>1, <1>3 DEF ReadIntermediate, LinkType, Connection
  <2>3. QED
    BY <1>3, <2>1, <2>2 DEF ReadIntermediate, TypeOK, LinkType
<1>4. ASSUME link' = [c \in Clients |-> Orphaned(link[c])] PROVE link' \in LinkType
  BY <1>1, <1>4, OrphanedFields DEF LinkType
<1>5. ASSUME RespondFigure PROVE TypeOK'
  <2>1. /\ \/ link' = [link EXCEPT ![serving] = Answered(@, Response(formatRequest(a)))]
           \/ link' = [c \in Clients |-> Orphaned(link[c])]
        /\ psQueue' \in {psQueue, <<>>} /\ sUp' \in {sUp, FALSE}
    BY <1>5 DEF RespondFigure, ServerGone
  <2>2. Response(formatRequest(a)) \in Seq(Blocks)
    BY ResponseType
  <2>3. link' \in LinkType
    <3>1. [link EXCEPT ![serving] = Answered(@, Response(formatRequest(a)))] \in LinkType
      BY <1>1, <2>2, LinkUpdate
    <3>2. QED
      BY <1>4, <2>1, <3>1
  <2>4. psQueue' \in Seq(Clients) /\ sUp' \in BOOLEAN
    <3>1. sUp \in BOOLEAN
      BY DEF TypeOK
    <3>2. psQueue' \in Seq(Clients)
      BY <1>1, <2>1, QueueType
    <3>3. QED
      BY <2>1, <3>1, <3>2
  <2>5. QED
    BY <1>5, <2>3, <2>4 DEF RespondFigure, TypeOK, LinkType
<1>6. ASSUME ServerStop PROVE TypeOK'
  <2>1. link' \in LinkType
    BY <1>4, <1>6 DEF ServerStop, ServerGone
  <2>2. psQueue' \in Seq(Clients) /\ sUp' \in BOOLEAN
    <3>1. sUp' = FALSE
      BY <1>6 DEF ServerStop, ServerGone
    <3>2. sUp' \in BOOLEAN
      BY <3>1, Zenon
    <3>3. psQueue' = <<>>
      BY <1>6 DEF ServerStop, ServerGone
    <3>4. QED
      BY <3>2, <3>3
  <2>3. spc' = "accept" /\ UNCHANGED <<iUp, conn, clientQueue, serving, a, starts>>
    BY <1>6 DEF ServerStop
  <2>4. QED
    BY <2>1, <2>2, <2>3 DEF TypeOK, LinkType
<1>7. ASSUME ServerStart PROVE TypeOK'
  <2>1. starts' \in 0..MaxStarts
    BY <1>7, StartsAssumption DEF ServerStart, TypeOK
  <2>2. QED
    BY <1>7, <2>1 DEF ServerStart, TypeOK
<1>8. QED
  BY <1>2, <1>3, <1>5, <1>6, <1>7 DEF ServerStep

(* So does no step at all.                                                   *)
LEMMA StutterType == ASSUME TypeOK, UNCHANGED vars PROVE TypeOK'
  BY DEF TypeOK, vars, socketVars, clientVars, interVars, serverVars

(* Every reachable state of the query path has the types of TypeOK: the      *)
(* reads never write past the arrays of client.cc and intermediate.cc, and   *)
(* no message or printed string holds a terminator.                          *)
THEOREM TypeCorrect == Spec => []TypeOK
<1>1. TypeOK /\ [Next]_vars => TypeOK'
  BY ClientType, RelayType, MainType, ServerType, StutterType DEF Next
<1>2. QED
  BY InitType, <1>1, PTL DEF Spec
=============================================================================
