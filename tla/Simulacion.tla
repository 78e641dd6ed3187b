----------------------------- MODULE Simulacion -----------------------------
(***************************************************************************)
(* simulacion-protocolo.cc: the protocol in one process.  main starts the  *)
(* threads final_server, middle_server and client and joins them in this   *)
(* order; each makes its way once, over two TCP ports.  A step is one      *)
(* system call and what the thread does before the next one.               *)
(***************************************************************************)
EXTENDS Naturals, Sequences

CONSTANTS
    Names, Describe,    \* the animals of the final server, their descriptions
    Question,           \* the animal the client asks for
    NotFound, Nothing,  \* what the client shows if st is not 1, and before
    Marks               \* what an int that was never assigned may hold

ASSUME AnimalsAssumption ==
    /\ DOMAIN Describe = Names
    /\ \A n \in Names : Describe[n] \notin {Question, NotFound, Nothing}

ASSUME MarksAssumption == Marks # {} /\ Marks \subseteq Nat

VARIABLES
    taken,          \* ports an earlier run left in TIME_WAIT: bind() fails
    pc,             \* where each thread is
    listening,      \* the ports that accept connections
    msg,            \* the Message of each thread; its data is read after it is set
    wire,           \* what was written on the two connections, by direction
    printed,        \* the numbers of the steps announced
    joined          \* the threads main has joined

vars == <<taken, pc, listening, msg, wire, printed, joined>>

Ports == {5555, 6666}
Wires == {"to_middle", "to_client", "to_final", "from_final"}
JoinOrder == <<"final", "middle", "client">>
Threads == {"final", "middle", "client"}
Ended(t) == pc[t] \in {"end", "failed"}

Init ==
    /\ taken \in SUBSET Ports
    /\ pc = [t \in Threads |-> IF t = "client" THEN "connect" ELSE "bind"]
    /\ listening = {}
    /\ msg \in [Threads -> [st : Marks, data : {Question}]]
    /\ wire = [w \in Wires |-> <<>>]
    /\ printed = <<>>
    /\ joined = 0

At(t, from, to) == pc[t] = from /\ pc' = [pc EXCEPT ![t] = to]
Say(steps) == printed' = printed \o steps

\* pthread_exit: the sockets of the thread stay open, they are the process's.
Fail(t, from) == At(t, from, "failed")

\* Mutant of Bind: the result of bind() is not looked at.
BindUnchecked(t, port, next) ==
    /\ At(t, "bind", next)
    /\ listening' = listening \cup {port}
    /\ UNCHANGED <<taken, msg, wire, printed, joined>>

(* bind() and listen().  Until then a connect() to the port is refused.      *)
Bind(t, port, next) ==
    /\ \/ /\ port \notin taken
          /\ At(t, "bind", next)
          /\ listening' = listening \cup {port}
       \/ /\ port \in taken
          /\ Fail(t, "bind")
          /\ UNCHANGED listening
    /\ UNCHANGED <<taken, msg, wire, printed, joined>>

Connect(t, from, port, steps) ==
    /\ \/ /\ port \in listening
          /\ At(t, from, "write")
          /\ Say(steps)
       \/ /\ port \notin listening
          /\ Fail(t, from)
          /\ UNCHANGED printed
    /\ UNCHANGED <<taken, listening, msg, wire, joined>>

\* read() into the whole Message of the thread; it waits for the peer.
Read(t, from, w, to, steps) ==
    /\ wire[w] # <<>>
    /\ At(t, from, to)
    /\ msg' = [msg EXCEPT ![t] = Head(wire[w])]
    /\ Say(steps)
    /\ UNCHANGED <<taken, listening, wire, joined>>

Write(t, from, w, to) ==
    /\ At(t, from, to)
    /\ wire' = [wire EXCEPT ![w] = <<msg[t]>>]
    /\ UNCHANGED <<taken, listening, msg, printed, joined>>

\* The close() calls at the end of a thread.
Close(t, ports) ==
    /\ At(t, "close", "end")
    /\ listening' = listening \ ports
    /\ UNCHANGED <<taken, msg, wire, printed, joined>>

client ==
    \/ Connect("client", "connect", 5555, <<1, 2>>)
    \/ Write("client", "write", "to_middle", "read")
    \/ Read("client", "read", "to_client", "close", <<10>>)
    \/ Close("client", {})

\* Mutant of middle_server: it does not write the answer to the client.
MiddleForgetsTheClient ==
    \/ Bind("middle", 5555, "read")
    \/ Read("middle", "read", "to_middle", "connect", <<3>>)
    \/ Connect("middle", "connect", 6666, <<4>>)
    \/ Write("middle", "write", "to_final", "answer")
    \/ Read("middle", "answer", "from_final", "close", <<8, 9>>)
    \/ Close("middle", {5555})

middle_server ==
    \/ Bind("middle", 5555, "read")
    \/ Read("middle", "read", "to_middle", "connect", <<3>>)
    \/ Connect("middle", "connect", 6666, <<4>>)
    \/ Write("middle", "write", "to_final", "answer")
    \/ Read("middle", "answer", "from_final", "reply", <<8, 9>>)
    \/ Write("middle", "reply", "to_client", "close")
    \/ Close("middle", {5555})

\* Mutant of find_description: st is only assigned when nothing is found.
FoundWithoutMark(m) ==
    IF m.data \in Names THEN [m EXCEPT !.data = Describe[m.data]]
    ELSE [m EXCEPT !.st = 0]

\* The message that goes back: st tells the middle and the client the result.
find_description(m) ==
    IF m.data \in Names THEN [st |-> 1, data |-> Describe[m.data]]
    ELSE [m EXCEPT !.st = 0]

(* accept(), read() and the search; the message is changed in place.         *)
FinalRead ==
    /\ wire["to_final"] # <<>>
    /\ At("final", "read", "write")
    /\ msg' = [msg EXCEPT !["final"] = find_description(Head(wire["to_final"]))]
    /\ Say(<<5, 6, 7>>)
    /\ UNCHANGED <<taken, listening, wire, joined>>

final_server ==
    \/ Bind("final", 6666, "read")
    \/ FinalRead
    \/ Write("final", "write", "from_final", "close")
    \/ Close("final", {6666})

\* main: pthread_join, in the order of JoinOrder.
Join ==
    /\ joined < 3
    /\ Ended(JoinOrder[joined + 1])
    /\ joined' = joined + 1
    /\ UNCHANGED <<taken, pc, listening, msg, wire, printed>>

Next == client \/ middle_server \/ final_server \/ Join

\* The scheduler runs every thread that is not blocked.
Spec ==
    /\ Init
    /\ [][Next]_vars
    /\ WF_vars(client) /\ WF_vars(middle_server) /\ WF_vars(final_server)
    /\ WF_vars(Join)
-----------------------------------------------------------------------------
\* What the client has shown.
Shown ==
    IF pc["client"] \in {"close", "end"}
    THEN IF msg["client"].st = 1 THEN msg["client"].data ELSE NotFound
    ELSE Nothing

(* The threads together implement Flow: whatever the order in which they are *)
(* scheduled and whichever of them fail, the steps are announced in order    *)
(* and the client shows the answer of the final server or nothing, never its *)
(* own question and never the result of a field that nobody assigned.        *)
TheFlow == INSTANCE Flow WITH
    shown <- Shown,
    Answer <- IF Question \in Names THEN Describe[Question] ELSE NotFound
FollowsTheFlow == TheFlow!Spec

(* The three threads wait for each other only because one of them could not  *)
(* bind or connect; otherwise the program ends.                              *)
EndsUnlessOneFails == <>(joined = 3 \/ \E t \in Threads : pc[t] = "failed")

\* A thread in a read() that nothing was written for.
Waits(t) ==
    \/ pc[t] = "read" /\ wire[CASE t = "client" -> "to_client"
                                 [] t = "middle" -> "to_middle"
                                 [] t = "final" -> "to_final"] = <<>>
    \/ pc[t] = "answer" /\ wire["from_final"] = <<>>

(* Unless one of them failed, the threads that have not ended never all wait *)
(* in read(), none of which has a time-out: every message one of them waits  *)
(* for is still to be written by another that can go on.                     *)
NeverAllWaiting ==
    \/ \E t \in Threads : pc[t] = "failed"
    \/ \A t \in Threads : pc[t] = "end"
    \/ \E t \in Threads : ~Ended(t) /\ ~Waits(t)

(* Every variable has its type, and a port listens only if it was free.      *)
TypeOK ==
    /\ taken \in SUBSET Ports /\ listening \in SUBSET (Ports \ taken)
    /\ pc \in [Threads -> {"bind", "connect", "read", "write", "answer", "reply",
                           "close", "end", "failed"}]
    /\ msg \in [Threads -> [st : Marks \cup {0, 1},
                            data : {Question} \cup {Describe[n] : n \in Names}]]
    /\ \A w \in Wires : Len(wire[w]) <= 1
    /\ joined \in 0..3
=============================================================================
