----------------------------- MODULE Discovery -----------------------------
(***************************************************************************)
(* How the programs find each other: one-letter datagrams on port 2561 of  *)
(* the subnet, T when a program starts, S as an answer to it, E when SIGINT*)
(* ends it.  listen_ps_broadcast of intermediate.cc and                    *)
(* listen_intermediate_broadcast of server.cc receive them, each with a    *)
(* buffer that keeps the last datagram.                                    *)
(***************************************************************************)
EXTENDS Integers, Sequences, FiniteSets

CONSTANTS
    Intermediates, Servers,     \* the hosts, by the program they run
    Nobody,         \* the empty string in ps_ip and inter_ip
    Lossy,          \* may the subnet lose datagrams?
    RcvBuf,         \* datagrams the kernel keeps for a socket
    MaxStarts       \* bound: programs started, all hosts together

Hosts == Intermediates \cup Servers
Letters == {"T", "S", "E"}

ASSUME HostsAssumption ==
    /\ Intermediates \cap Servers = {}
    /\ Nobody \notin Hosts

ASSUME NetworkAssumption ==
    Lossy \in BOOLEAN /\ RcvBuf \in Nat \ {0} /\ MaxStarts \in Nat

VARIABLES
    phase,          \* off, starting (T is sent, the port is not bound), listening
    inbox,          \* datagrams the kernel keeps for the port
    peer,           \* ps_ip of an intermediate, inter_ip of a pieces server
    ps_buff,        \* the letter in the first byte of the buffer
    clean,          \* is its second byte, which nothing ever writes, zero?
    starts,
    unanswered      \* history: T received and not yet answered with S in this run

vars == <<phase, inbox, peer, ps_buff, clean, starts, unanswered>>

Datagrams == [msg : Letters, from : Hosts]

Init ==
    /\ phase = [h \in Hosts |-> "off"]
    /\ inbox = [h \in Hosts |-> <<>>]
    /\ peer = [h \in Hosts |-> Nobody]
    /\ ps_buff = [h \in Hosts |-> "none"]
    /\ clean = [h \in Hosts |-> FALSE]
    /\ starts = 0
    /\ unanswered = [h \in Hosts |-> 0]

\* Mutant of Delivered: the kernel keeps everything.
DeliveredUnbounded(boxes, bound, h, letter, lost) ==
    [k \in Hosts |->
        IF k \in bound /\ k \notin lost
        THEN Append(boxes[k], [msg |-> letter, from |-> h])
        ELSE boxes[k]]

\* Mutant of Delivered: the sender does not hear itself.
DeliveredToOthers(boxes, bound, h, letter, lost) ==
    [k \in Hosts |->
        IF k \in bound \ {h} /\ k \notin lost /\ Len(boxes[k]) < RcvBuf
        THEN Append(boxes[k], [msg |-> letter, from |-> h])
        ELSE boxes[k]]

(* Socket::Broadcast: a copy for every bound port of the subnet, the one of  *)
(* the sender included, unless its buffer is full or the copy is lost on the *)
(* way.  "boxes" are the inboxes before it, "bound" the hosts that listen.   *)
Delivered(boxes, bound, h, letter, lost) ==
    [k \in Hosts |->
        IF k \in bound /\ k \notin lost /\ Len(boxes[k]) < RcvBuf
        THEN Append(boxes[k], [msg |-> letter, from |-> h])
        ELSE boxes[k]]

Listening == {h \in Hosts : phase[h] = "listening"}
Losses(h) == IF Lossy THEN SUBSET (Hosts \ {h}) ELSE {{}}

\* main: the announcement comes before the thread that binds the port.
Announce(h) ==
    /\ phase[h] = "off"
    /\ starts < MaxStarts
    /\ starts' = starts + 1
    /\ phase' = [phase EXCEPT ![h] = "starting"]
    /\ \E lost \in Losses(h) : inbox' = Delivered(inbox, Listening, h, "T", lost)
    /\ UNCHANGED <<peer, ps_buff, clean, unanswered>>

\* The thread starts: its stack holds what it holds.
BindPort(h) ==
    /\ phase[h] = "starting"
    /\ phase' = [phase EXCEPT ![h] = "listening"]
    /\ \E b \in BOOLEAN : clean' = [clean EXCEPT ![h] = b]
    /\ UNCHANGED <<inbox, peer, ps_buff, starts, unanswered>>

\* Mutant of Asked: an S is answered as a T is.
AskedByAnyGreeting(h, letter) == letter \in {"T", "S"} /\ clean[h]

(* recvfrom stores one letter and no terminator: strcmp(ps_buff, "T") is 0   *)
(* only if the next byte happens to be zero.                                 *)
Asked(h, letter) == letter = "T" /\ clean[h]

(* One turn of either loop: h may answer a T, overwrites its buffer and      *)
(* takes the sender, whoever that is, for its peer.                          *)
Handle(h, mayAnswer) ==
    LET d == Head(inbox[h])
        rest == [inbox EXCEPT ![h] = Tail(@)]
        asked == Asked(h, d.msg)
    IN  /\ phase[h] = "listening"
        /\ inbox[h] # <<>>
        /\ \/ /\ asked /\ mayAnswer
              /\ \E lost \in Losses(h) : inbox' = Delivered(rest, Listening, h, "S", lost)
              /\ UNCHANGED unanswered
           \/ /\ ~(asked /\ mayAnswer)
              /\ inbox' = rest
              /\ unanswered' = [unanswered EXCEPT ![h] = IF asked THEN @ + 1 ELSE @]
        /\ ps_buff' = [ps_buff EXCEPT ![h] = d.msg]
        /\ peer' = [peer EXCEPT ![h] = d.from]
        /\ UNCHANGED <<phase, clean, starts>>

\* listen_ps_broadcast answers while it knows nobody.
InterReceive(i) == i \in Intermediates /\ Handle(i, peer[i] = Nobody)

\* listen_intermediate_broadcast answers once it knows somebody.
ServerReceive(s) == s \in Servers /\ Handle(s, peer[s] # Nobody)

(* SetTimeout(5): recvfrom returns -1, which "0 > st" does not see because   *)
(* st is unsigned.  The loop goes on with the letter of the last datagram;   *)
(* the sender is the address of the subnet, and inter_ip stays.              *)
ServerTimeout(s) ==
    /\ s \in Servers
    /\ phase[s] = "listening"
    /\ inbox[s] = <<>>
    /\ Asked(s, ps_buff[s]) /\ peer[s] # Nobody
    /\ \E lost \in Losses(s) : inbox' = Delivered(inbox, Listening, s, "S", lost)
    /\ unanswered' = [unanswered EXCEPT ![s] = @ - 1]
    /\ UNCHANGED <<phase, peer, ps_buff, clean, starts>>

\* The process is gone, with all it knew.
Forget(h) ==
    /\ phase' = [phase EXCEPT ![h] = "off"]
    /\ peer' = [peer EXCEPT ![h] = Nobody]
    /\ ps_buff' = [ps_buff EXCEPT ![h] = "none"]
    /\ clean' = [clean EXCEPT ![h] = FALSE]
    /\ unanswered' = [unanswered EXCEPT ![h] = 0]
    /\ UNCHANGED starts

(* enviarSignal, in either program: E to the subnet (the port of this host   *)
(* is still bound) and the end of the process.                               *)
Stop(h) ==
    /\ phase[h] # "off"
    /\ \E lost \in Losses(h) :
            inbox' = [Delivered(inbox, Listening, h, "E", lost) EXCEPT ![h] = <<>>]
    /\ Forget(h)

(* An exception that nothing catches, in either thread: the query thread     *)
(* does not get its port again (Bind, which does not set SO_REUSEADDR),      *)
(* finds no pieces server or cannot decode a file; Close throws.  No E.      *)
Crash(h) ==
    /\ phase[h] # "off"
    /\ inbox' = [inbox EXCEPT ![h] = <<>>]
    /\ Forget(h)

Receive(h) == InterReceive(h) \/ ServerReceive(h) \/ ServerTimeout(h)

Next == \E h \in Hosts : Announce(h) \/ BindPort(h) \/ Receive(h) \/ Stop(h) \/ Crash(h)

(* The threads of a running program run; nothing makes anybody start or stop *)
(* it.                                                                       *)
Spec ==
    /\ Init
    /\ [][Next]_vars
    /\ \A h \in Hosts : WF_vars(BindPort(h)) /\ WF_vars(Receive(h))
-----------------------------------------------------------------------------
(* Every variable has its type, and a program that is off keeps nothing.     *)
TypeOK ==
    /\ phase \in [Hosts -> {"off", "starting", "listening"}]
    /\ inbox \in [Hosts -> Seq(Datagrams)]
    /\ \A h \in Hosts : Len(inbox[h]) <= RcvBuf
    /\ peer \in [Hosts -> Hosts \cup {Nobody}]
    /\ ps_buff \in [Hosts -> Letters \cup {"none"}]
    /\ clean \in [Hosts -> BOOLEAN]
    /\ starts \in 0..MaxStarts
    /\ unanswered \in [Hosts -> Int]

(* No T is answered twice by the same run of a program, although the pieces  *)
(* server looks at the last datagram again whenever recvfrom times out: the  *)
(* answer comes back to its own port and replaces the T first.               *)
NeverAnswersTwice == \A h \in Hosts : unanswered[h] >= 0

\* The answers h may still give: T in its inbox, and T it has not answered.
Questions(box) == {i \in 1..Len(box) : box[i].msg = "T"}
Debt(h) == Cardinality(Questions(inbox[h])) + unanswered[h]

(* While nobody starts or stops, no host comes to owe more answers than it   *)
(* did, and a datagram is sent only by one that owes less afterwards: the    *)
(* answers come to an end, however many hosts hear each of them and although *)
(* time-outs handle old letters again (both receive loops).                  *)
AnswersArePaidFor ==
    [][phase' = phase =>
        /\ \A h \in Hosts : Debt(h)' \in 0..Debt(h)
        /\ (\E h \in Hosts : Len(inbox[h])' > Len(inbox[h])) =>
                \E h \in Hosts : Debt(h)' < Debt(h)]_vars

\* A time-out may answer once more only if the last T is still unanswered.
ReplayInv ==
    \A h \in Hosts :
        /\ inbox[h] = <<>> /\ Asked(h, ps_buff[h]) /\ peer[h] # Nobody => unanswered[h] >= 1
        /\ phase[h] # "listening" => ps_buff[h] = "none"

IInv == TypeOK /\ NeverAnswersTwice /\ ReplayInv

(* The exchange dies out: when nobody starts or stops any more, the answers  *)
(* that everybody hears, the time-outs and the stale buffers do not keep the *)
(* subnet busy.                                                              *)
Silence == <>[](\A h \in Hosts : inbox[h] = <<>>)
-----------------------------------------------------------------------------
(* README.md:43: pieces servers are discovered, and announce themselves, by  *)
(* broadcast.  An intermediate and a pieces server that both run know each   *)
(* other in the end.                                                         *)
Discovered ==
    \A i \in Intermediates, s \in Servers :
        (phase[i] = "listening" /\ phase[s] = "listening")
            ~> (peer[i] # Nobody \/ phase[i] = "off" \/ phase[s] = "off")
=============================================================================
