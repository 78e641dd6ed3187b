-------------------------- MODULE SimulacionProofs --------------------------
(***************************************************************************)
(* Proofs about Simulacion for any animals and any question: its types,    *)
(* and that the three threads implement Flow.  The threads hand one        *)
(* message round, so where they are says which steps were announced        *)
(* (Count) and what was written (Written); the invariant also says which   *)
(* places the threads can hold at the same time (Together) and whose       *)
(* message is a question and whose a result (Held).                        *)
(***************************************************************************)
EXTENDS Simulacion, TLAPS

Upto(n) == [i \in 1..n |-> i]
C == pc["client"]
M == pc["middle"]
F == pc["final"]

Count ==
    IF C \in {"connect", "failed"} THEN 0
    ELSE IF C = "write" THEN 2
    ELSE IF C \in {"close", "end"} THEN 10
    ELSE IF M = "read" THEN 2
    ELSE IF M \in {"connect", "failed"} THEN 3
    ELSE IF M = "write" THEN 4
    ELSE IF M # "answer" THEN 9
    ELSE IF F \in {"write", "close", "end"} THEN 7 ELSE 4
Announced == printed = Upto(Count)

Places ==
    /\ C \in {"connect", "write", "read", "close", "end", "failed"}
    /\ M \in {"bind", "read", "connect", "write", "answer", "reply",
              "close", "end", "failed"}
    /\ F \in {"bind", "read", "write", "close", "end", "failed"}

Together ==
    /\ C \in {"connect", "failed"} => M \in {"bind", "read", "failed"}
    /\ C = "write" => M = "read"
    /\ C = "read" => M # "bind"
    /\ C \in {"close", "end"} => M \in {"close", "end"}
    /\ F \in {"write", "close", "end"} => M \in {"answer", "reply", "close", "end"}
    /\ M \in {"reply", "close", "end"} => F \in {"close", "end"}
    /\ 5555 \in listening => M # "bind" /\ (M = "failed" => C = "read")

Questions == [st : Marks, data : {Question}]
Results ==
    IF Question \in Names THEN {[st |-> 1, data |-> Describe[Question]]}
    ELSE {[st |-> 0, data |-> Question]}
Content ==
    [w \in Wires |-> IF w \in {"to_middle", "to_final"} THEN Questions ELSE Results]
Written == {w \in Wires :
    \/ w = "to_middle" /\ C \in {"read", "close", "end"}
    \/ w = "to_final" /\ M \in {"answer", "reply", "close", "end"}
    \/ w = "from_final" /\ F \in {"close", "end"}
    \/ w = "to_client" /\ M \in {"close", "end"}}
Wired ==
    /\ wire = [w \in Wires |-> wire[w]]
    /\ \A w \in Wires : w \in Written => \E m \in Content[w] : wire[w] = <<m>>
    /\ \A w \in Wires : w \notin Written => wire[w] = <<>>

Held ==
    /\ msg["client"] \in IF C \in {"close", "end"} THEN Results ELSE Questions
    /\ msg["middle"] \in IF M \in {"reply", "close", "end"} THEN Results ELSE Questions
    /\ msg["final"] \in IF F \in {"write", "close", "end"} THEN Results ELSE Questions

Shapes ==
    /\ taken \in SUBSET Ports /\ listening \in SUBSET (Ports \ taken)
    /\ pc = [t \in Threads |-> pc[t]]
    /\ msg = [t \in Threads |-> msg[t]]
    /\ joined \in 0..3

IInv == Shapes /\ Places /\ Together /\ Wired /\ Held /\ Announced

\* What every step does: no step that was announced is taken back.
Kept == IInv' /\ Count <= Count'
-----------------------------------------------------------------------------
\* Everything the threads hand each other is a message of the types' set.
LEMMA Messages ==
    \A m \in Questions \cup Results :
        m \in [st : Marks \cup {0, 1}, data : {Question} \cup {Describe[n] : n \in Names}]
BY DEF Questions, Results

\* The search turns a question into its result.
LEMMA Searched == \A m \in Questions : find_description(m) \in Results
BY DEF Questions, Results, find_description

\* The invariant implies the types.
LEMMA Typed == IInv => TypeOK
<1> SUFFICES ASSUME IInv PROVE TypeOK
  OBVIOUS
<1>1. pc \in [Threads -> {"bind", "connect", "read", "write", "answer", "reply",
                          "close", "end", "failed"}]
  BY DEF IInv, Shapes, Places, Threads, C, M, F
<1>2. \A t \in Threads : msg[t] \in Questions \cup Results
  BY DEF IInv, Held, Threads
<1>3. msg \in [Threads -> [st : Marks \cup {0, 1},
                           data : {Question} \cup {Describe[n] : n \in Names}]]
  BY <1>2, Messages DEF IInv, Shapes
<1>4. \A w \in Wires : Len(wire[w]) <= 1
  <2> TAKE w \in Wires
  <2>1. wire[w] = <<>> \/ \E m \in Content[w] : wire[w] = <<m>>
    BY DEF IInv, Wired
  <2>2. CASE wire[w] = <<>>
    BY <2>2
  <2>3. CASE \E m \in Content[w] : wire[w] = <<m>>
    <3>1. PICK m \in Content[w] : wire[w] = <<m>>
      BY <2>3
    <3> QED BY <3>1
  <2> QED BY <2>1, <2>2, <2>3
<1> QED BY <1>1, <1>3, <1>4 DEF IInv, Shapes, TypeOK

\* A step of one thread moves only that thread.
LEMMA Moved ==
    ASSUME Shapes, NEW t \in Threads, NEW from, NEW to, At(t, from, to)
    PROVE  /\ pc[t] = from /\ pc'[t] = to
           /\ \A s \in Threads \ {t} : pc'[s] = pc[s]
           /\ pc' = [s \in Threads |-> pc'[s]]
BY DEF At, Shapes

\* Reading replaces the message of the thread that reads.
LEMMA Took ==
    ASSUME Shapes, NEW t \in Threads, NEW m, msg' = [msg EXCEPT ![t] = m]
    PROVE  /\ msg'[t] = m
           /\ \A s \in Threads \ {t} : msg'[s] = msg[s]
           /\ msg' = [s \in Threads |-> msg'[s]]
BY DEF Shapes

\* What a thread can read was written for it.
LEMMA ToRead ==
    ASSUME Wired, NEW w \in Wires, wire[w] # <<>>
    PROVE  w \in Written /\ Head(wire[w]) \in Content[w]
<1>1. w \in Written
  BY DEF Wired
<1>2. PICK m \in Content[w] : wire[w] = <<m>>
  BY <1>1 DEF Wired
<1> QED BY <1>1, <1>2

\* The connections while nothing is written.
LEMMA Quiet ==
    ASSUME Wired, wire' = wire, Written' = Written
    PROVE  Wired'
BY DEF Wired, Content

\* A thread writes to a connection that nothing was written to.
LEMMA Wrote ==
    ASSUME Wired, NEW v \in Wires, NEW m \in Content[v],
           wire' = [wire EXCEPT ![v] = <<m>>], Written' = Written \cup {v}
    PROVE  Wired'
<1>1. wire'[v] = <<m>> /\ \A w \in Wires \ {v} : wire'[w] = wire[w]
  BY DEF Wired
<1>2. wire' = [w \in Wires |-> wire'[w]]
  BY DEF Wired
<1>3. \A w \in Wires : w \in Written' => \E k \in Content[w] : wire'[w] = <<k>>
  BY <1>1 DEF Wired
<1>4. \A w \in Wires : w \notin Written' => wire'[w] = <<>>
  BY <1>1 DEF Wired
<1> QED BY <1>2, <1>3, <1>4 DEF Wired, Content

\* Announcing the next steps.
LEMMA Further ==
    ASSUME NEW n \in Nat, NEW s \in Seq(Nat), NEW k \in Nat,
           Len(s) = k, \A i \in 1..k : s[i] = n + i
    PROVE  Upto(n) \o s = Upto(n + k)
BY DEF Upto

\* A thread announces the steps that follow the announced ones.
LEMMA Said ==
    ASSUME Announced, NEW s \in Seq(Nat), NEW k \in Nat, Count \in Nat, Len(s) = k,
           \A i \in 1..k : s[i] = Count + i, printed' = printed \o s, Count' = Count + k
    PROVE  Announced' /\ Count <= Count'
<1>1. Upto(Count) \o s = Upto(Count + k)
  BY Further
<1>2. printed' = Upto(Count')
  BY <1>1 DEF Announced
<1>3. Count <= Count'
  OBVIOUS
<1> QED BY <1>2, <1>3 DEF Announced

\* A thread announces nothing.
LEMMA Unsaid ==
    ASSUME Announced, Count \in Nat, printed' = printed, Count' = Count
    PROVE  Announced' /\ Count <= Count'
<1>1. printed' = Upto(Count')
  BY DEF Announced
<1>2. Count <= Count'
  OBVIOUS
<1> QED BY <1>1, <1>2 DEF Announced
-----------------------------------------------------------------------------
\* The client reaches the middle server.
LEMMA ClientConnects ==
    ASSUME IInv, Connect("client", "connect", 5555, <<1, 2>>), 5555 \in listening
    PROVE  Kept
<1>1. Shapes /\ Places /\ Together /\ Wired /\ Held /\ Announced
  BY DEF IInv
<1>2. /\ pc["client"] = "connect" /\ pc'["client"] = "write"
      /\ pc'["middle"] = pc["middle"] /\ pc'["final"] = pc["final"]
      /\ pc' = [s \in Threads |-> pc'[s]]
  BY <1>1, Moved DEF Connect, Threads
<1>3. /\ taken' = taken /\ joined' = joined /\ listening' = listening
      /\ wire' = wire /\ msg' = msg
  BY DEF Connect
<1>4. Places' /\ Together'
  BY <1>1, <1>2, <1>3 DEF Places, Together, C, M, F
<1>5. Written' = Written
  BY <1>2 DEF C, M, F, Written, Wires
<1>6. Count = 0 /\ Count' = 2
  BY <1>1, <1>2 DEF Places, Together, C, M, F, Count
<1>7. Shapes'
  BY <1>1, <1>2, <1>3 DEF Shapes
<1>8. Wired'
  BY <1>1, <1>3, <1>5, Quiet
<1>9. Held'
  BY <1>1, <1>2, <1>3 DEF Held, C, M, F
<1>10. Announced' /\ Count <= Count'
  <2> DEFINE s == <<1, 2>>
  <2>1. s \in Seq(Nat) /\ Len(s) = 2 /\ s[1] = 1 /\ s[2] = 2
    OBVIOUS
  <2>2. printed' = printed \o s
    BY DEF Connect, Say
  <2> HIDE DEF s
  <2>3. Count \in Nat /\ Count' = Count + 2 /\ \A i \in 1..2 : s[i] = Count + i
    BY <1>6, <2>1
  <2> QED BY ONLY <1>1, <2>1, <2>2, <2>3, Said
<1> QED BY <1>4, <1>7, <1>8, <1>9, <1>10 DEF Kept, IInv

\* The question of the client.
LEMMA ClientWrites ==
    ASSUME IInv, Write("client", "write", "to_middle", "read")
    PROVE  Kept
<1>1. Shapes /\ Places /\ Together /\ Wired /\ Held /\ Announced
  BY DEF IInv
<1>2. /\ pc["client"] = "write" /\ pc'["client"] = "read"
      /\ pc'["middle"] = pc["middle"] /\ pc'["final"] = pc["final"]
      /\ pc' = [s \in Threads |-> pc'[s]]
  BY <1>1, Moved DEF Write, Threads
<1>3. /\ taken' = taken /\ joined' = joined /\ listening' = listening
      /\ msg' = msg /\ printed' = printed
  BY DEF Write
<1>4. Places' /\ Together'
  BY <1>1, <1>2, <1>3 DEF Places, Together, C, M, F
<1>5. Written' = Written \cup {"to_middle"}
  BY <1>2 DEF C, M, F, Written, Wires
<1>6. Count \in Nat /\ Count' = Count
  BY <1>1, <1>2 DEF Places, Together, C, M, F, Count
<1>7. Shapes'
  BY <1>1, <1>2, <1>3 DEF Shapes
<1>8. Wired'
  <2>1. msg["client"] \in Content["to_middle"] /\ "to_middle" \in Wires
    BY <1>1, <1>2 DEF Held, Content, Wires, C, M, F
  <2> QED BY <1>1, <1>5, <2>1, Wrote DEF Write
<1>9. Held'
  BY <1>1, <1>2, <1>3 DEF Held, C, M, F
<1>10. Announced' /\ Count <= Count'
  BY <1>1, <1>3, <1>6, Unsaid
<1> QED BY <1>4, <1>7, <1>8, <1>9, <1>10 DEF Kept, IInv

\* The client takes the result.
LEMMA ClientReads ==
    ASSUME IInv, Read("client", "read", "to_client", "close", << 10 >>)
    PROVE  Kept
<1>1. Shapes /\ Places /\ Together /\ Wired /\ Held /\ Announced
  BY DEF IInv
<1>2. /\ pc["client"] = "read" /\ pc'["client"] = "close"
      /\ pc'["middle"] = pc["middle"] /\ pc'["final"] = pc["final"]
      /\ pc' = [s \in Threads |-> pc'[s]]
  BY <1>1, Moved DEF Read, Threads
<1>3. /\ taken' = taken /\ joined' = joined /\ listening' = listening
      /\ wire' = wire
  BY DEF Read
<1>4. /\ "to_client" \in Written /\ Head(wire["to_client"]) \in Results
      /\ M \in {"close", "end"}
  BY <1>1, ToRead DEF Read, Wires, Content, Written
<1>5. /\ msg'["client"] = Head(wire["to_client"])
      /\ msg'["middle"] = msg["middle"] /\ msg'["final"] = msg["final"]
      /\ msg' = [s \in Threads |-> msg'[s]]
  BY <1>1, Took DEF Read, Threads
<1>6. Places' /\ Together'
  BY <1>1, <1>2, <1>3, <1>4 DEF Places, Together, C, M, F
<1>7. Written' = Written
  BY <1>2 DEF C, M, F, Written, Wires
<1>8. Count = 9 /\ Count' = 10
  BY <1>1, <1>2, <1>4 DEF Places, Together, C, M, F, Count
<1>9. Shapes'
  BY <1>1, <1>2, <1>3, <1>4, <1>5 DEF Shapes
<1>10. Wired'
  BY <1>1, <1>3, <1>7, Quiet
<1>11. Held'
  BY <1>1, <1>2, <1>3, <1>4, <1>5 DEF Held, C, M, F
<1>12. Announced' /\ Count <= Count'
  <2> DEFINE s == << 10 >>
  <2>1. s \in Seq(Nat) /\ Len(s) = 1 /\ s[1] = 10
    OBVIOUS
  <2>2. printed' = printed \o s
    BY DEF Read, Say
  <2> HIDE DEF s
  <2>3. Count \in Nat /\ Count' = Count + 1 /\ \A i \in 1..1 : s[i] = Count + i
    BY <1>8, <2>1
  <2> QED BY ONLY <1>1, <2>1, <2>2, <2>3, Said
<1> QED BY <1>6, <1>9, <1>10, <1>11, <1>12 DEF Kept, IInv

\* The client closes its connection.
LEMMA ClientCloses ==
    ASSUME IInv, Close("client", {})
    PROVE  Kept
<1>1. Shapes /\ Places /\ Together /\ Wired /\ Held /\ Announced
  BY DEF IInv
<1>2. /\ pc["client"] = "close" /\ pc'["client"] = "end"
      /\ pc'["middle"] = pc["middle"] /\ pc'["final"] = pc["final"]
      /\ pc' = [s \in Threads |-> pc'[s]]
  BY <1>1, Moved DEF Close, Threads
<1>3. /\ taken' = taken /\ joined' = joined /\ listening' = listening \ {}
      /\ wire' = wire /\ msg' = msg /\ printed' = printed
  BY DEF Close
<1>4. Places' /\ Together'
  BY <1>1, <1>2, <1>3 DEF Places, Together, C, M, F
<1>5. Written' = Written
  BY <1>2 DEF C, M, F, Written, Wires
<1>6. Count \in Nat /\ Count' = Count
  BY <1>1, <1>2 DEF Places, Together, C, M, F, Count
<1>7. Shapes'
  BY <1>1, <1>2, <1>3 DEF Shapes
<1>8. Wired'
  BY <1>1, <1>3, <1>5, Quiet
<1>9. Held'
  BY <1>1, <1>2, <1>3 DEF Held, C, M, F
<1>10. Announced' /\ Count <= Count'
  BY <1>1, <1>3, <1>6, Unsaid
<1> QED BY <1>4, <1>7, <1>8, <1>9, <1>10 DEF Kept, IInv

\* The middle server listens.
LEMMA MiddleBinds ==
    ASSUME IInv, Bind("middle", 5555, "read"), 5555 \notin taken
    PROVE  Kept
<1>1. Shapes /\ Places /\ Together /\ Wired /\ Held /\ Announced
  BY DEF IInv
<1>2. /\ pc["middle"] = "bind" /\ pc'["middle"] = "read"
      /\ pc'["client"] = pc["client"] /\ pc'["final"] = pc["final"]
      /\ pc' = [s \in Threads |-> pc'[s]]
  BY <1>1, Moved DEF Bind, Threads
<1>3. /\ taken' = taken /\ joined' = joined /\ listening' = listening \cup {5555}
      /\ wire' = wire /\ msg' = msg /\ printed' = printed
  BY DEF Bind
<1>4. Places' /\ Together'
  BY <1>1, <1>2, <1>3 DEF Places, Together, C, M, F
<1>5. Written' = Written
  BY <1>2 DEF C, M, F, Written, Wires
<1>6. Count \in Nat /\ Count' = Count
  BY <1>1, <1>2 DEF Places, Together, C, M, F, Count
<1>7. Shapes'
  BY <1>1, <1>2, <1>3 DEF Shapes, Ports
<1>8. Wired'
  BY <1>1, <1>3, <1>5, Quiet
<1>9. Held'
  BY <1>1, <1>2, <1>3 DEF Held, C, M, F
<1>10. Announced' /\ Count <= Count'
  BY <1>1, <1>3, <1>6, Unsaid
<1> QED BY <1>4, <1>7, <1>8, <1>9, <1>10 DEF Kept, IInv

\* The middle server takes the question.
LEMMA MiddleReads ==
    ASSUME IInv, Read("middle", "read", "to_middle", "connect", << 3 >>)
    PROVE  Kept
<1>1. Shapes /\ Places /\ Together /\ Wired /\ Held /\ Announced
  BY DEF IInv
<1>2. /\ pc["middle"] = "read" /\ pc'["middle"] = "connect"
      /\ pc'["client"] = pc["client"] /\ pc'["final"] = pc["final"]
      /\ pc' = [s \in Threads |-> pc'[s]]
  BY <1>1, Moved DEF Read, Threads
<1>3. /\ taken' = taken /\ joined' = joined /\ listening' = listening
      /\ wire' = wire
  BY DEF Read
<1>4. /\ "to_middle" \in Written /\ Head(wire["to_middle"]) \in Questions
      /\ C \in {"read", "close", "end"}
  BY <1>1, ToRead DEF Read, Wires, Content, Written
<1>5. /\ msg'["middle"] = Head(wire["to_middle"])
      /\ msg'["client"] = msg["client"] /\ msg'["final"] = msg["final"]
      /\ msg' = [s \in Threads |-> msg'[s]]
  BY <1>1, Took DEF Read, Threads
<1>6. Places' /\ Together'
  BY <1>1, <1>2, <1>3, <1>4 DEF Places, Together, C, M, F
<1>7. Written' = Written
  BY <1>2 DEF C, M, F, Written, Wires
<1>8. Count = 2 /\ Count' = 3
  BY <1>1, <1>2, <1>4 DEF Places, Together, C, M, F, Count
<1>9. Shapes'
  BY <1>1, <1>2, <1>3, <1>4, <1>5 DEF Shapes
<1>10. Wired'
  BY <1>1, <1>3, <1>7, Quiet
<1>11. Held'
  BY <1>1, <1>2, <1>3, <1>4, <1>5 DEF Held, C, M, F
<1>12. Announced' /\ Count <= Count'
  <2> DEFINE s == << 3 >>
  <2>1. s \in Seq(Nat) /\ Len(s) = 1 /\ s[1] = 3
    OBVIOUS
  <2>2. printed' = printed \o s
    BY DEF Read, Say
  <2> HIDE DEF s
  <2>3. Count \in Nat /\ Count' = Count + 1 /\ \A i \in 1..1 : s[i] = Count + i
    BY <1>8, <2>1
  <2> QED BY ONLY <1>1, <2>1, <2>2, <2>3, Said
<1> QED BY <1>6, <1>9, <1>10, <1>11, <1>12 DEF Kept, IInv

\* The middle server reaches the final server.
LEMMA MiddleConnects ==
    ASSUME IInv, Connect("middle", "connect", 6666, << 4 >>), 6666 \in listening
    PROVE  Kept
<1>1. Shapes /\ Places /\ Together /\ Wired /\ Held /\ Announced
  BY DEF IInv
<1>2. /\ pc["middle"] = "connect" /\ pc'["middle"] = "write"
      /\ pc'["client"] = pc["client"] /\ pc'["final"] = pc["final"]
      /\ pc' = [s \in Threads |-> pc'[s]]
  BY <1>1, Moved DEF Connect, Threads
<1>3. /\ taken' = taken /\ joined' = joined /\ listening' = listening
      /\ wire' = wire /\ msg' = msg
  BY DEF Connect
<1>4. Places' /\ Together'
  BY <1>1, <1>2, <1>3 DEF Places, Together, C, M, F
<1>5. Written' = Written
  BY <1>2 DEF C, M, F, Written, Wires
<1>6. Count = 3 /\ Count' = 4
  BY <1>1, <1>2 DEF Places, Together, C, M, F, Count
<1>7. Shapes'
  BY <1>1, <1>2, <1>3 DEF Shapes
<1>8. Wired'
  BY <1>1, <1>3, <1>5, Quiet
<1>9. Held'
  BY <1>1, <1>2, <1>3 DEF Held, C, M, F
<1>10. Announced' /\ Count <= Count'
  <2> DEFINE s == << 4 >>
  <2>1. s \in Seq(Nat) /\ Len(s) = 1 /\ s[1] = 4
    OBVIOUS
  <2>2. printed' = printed \o s
    BY DEF Connect, Say
  <2> HIDE DEF s
  <2>3. Count \in Nat /\ Count' = Count + 1 /\ \A i \in 1..1 : s[i] = Count + i
    BY <1>6, <2>1
  <2> QED BY ONLY <1>1, <2>1, <2>2, <2>3, Said
<1> QED BY <1>4, <1>7, <1>8, <1>9, <1>10 DEF Kept, IInv

\* The middle server hands the question on.
LEMMA MiddleWrites ==
    ASSUME IInv, Write("middle", "write", "to_final", "answer")
    PROVE  Kept
<1>1. Shapes /\ Places /\ Together /\ Wired /\ Held /\ Announced
  BY DEF IInv
<1>2. /\ pc["middle"] = "write" /\ pc'["middle"] = "answer"
      /\ pc'["client"] = pc["client"] /\ pc'["final"] = pc["final"]
      /\ pc' = [s \in Threads |-> pc'[s]]
  BY <1>1, Moved DEF Write, Threads
<1>3. /\ taken' = taken /\ joined' = joined /\ listening' = listening
      /\ msg' = msg /\ printed' = printed
  BY DEF Write
<1>4. Places' /\ Together'
  BY <1>1, <1>2, <1>3 DEF Places, Together, C, M, F
<1>5. Written' = Written \cup {"to_final"}
  BY <1>2 DEF C, M, F, Written, Wires
<1>6. Count \in Nat /\ Count' = Count
  BY <1>1, <1>2 DEF Places, Together, C, M, F, Count
<1>7. Shapes'
  BY <1>1, <1>2, <1>3 DEF Shapes
<1>8. Wired'
  <2>1. msg["middle"] \in Content["to_final"] /\ "to_final" \in Wires
    BY <1>1, <1>2 DEF Held, Content, Wires, C, M, F
  <2> QED BY <1>1, <1>5, <2>1, Wrote DEF Write
<1>9. Held'
  BY <1>1, <1>2, <1>3 DEF Held, C, M, F
<1>10. Announced' /\ Count <= Count'
  BY <1>1, <1>3, <1>6, Unsaid
<1> QED BY <1>4, <1>7, <1>8, <1>9, <1>10 DEF Kept, IInv

\* The middle server takes the result.
LEMMA MiddleTakes ==
    ASSUME IInv, Read("middle", "answer", "from_final", "reply", <<8, 9>>)
    PROVE  Kept
<1>1. Shapes /\ Places /\ Together /\ Wired /\ Held /\ Announced
  BY DEF IInv
<1>2. /\ pc["middle"] = "answer" /\ pc'["middle"] = "reply"
      /\ pc'["client"] = pc["client"] /\ pc'["final"] = pc["final"]
      /\ pc' = [s \in Threads |-> pc'[s]]
  BY <1>1, Moved DEF Read, Threads
<1>3. /\ taken' = taken /\ joined' = joined /\ listening' = listening
      /\ wire' = wire
  BY DEF Read
<1>4. /\ "from_final" \in Written /\ Head(wire["from_final"]) \in Results
      /\ F \in {"close", "end"}
  BY <1>1, ToRead DEF Read, Wires, Content, Written
<1>5. /\ msg'["middle"] = Head(wire["from_final"])
      /\ msg'["client"] = msg["client"] /\ msg'["final"] = msg["final"]
      /\ msg' = [s \in Threads |-> msg'[s]]
  BY <1>1, Took DEF Read, Threads
<1>6. Places' /\ Together'
  BY <1>1, <1>2, <1>3, <1>4 DEF Places, Together, C, M, F
<1>7. Written' = Written
  BY <1>2 DEF C, M, F, Written, Wires
<1>8. Count = 7 /\ Count' = 9
  BY <1>1, <1>2, <1>4 DEF Places, Together, C, M, F, Count
<1>9. Shapes'
  BY <1>1, <1>2, <1>3, <1>4, <1>5 DEF Shapes
<1>10. Wired'
  BY <1>1, <1>3, <1>7, Quiet
<1>11. Held'
  BY <1>1, <1>2, <1>3, <1>4, <1>5 DEF Held, C, M, F
<1>12. Announced' /\ Count <= Count'
  <2> DEFINE s == <<8, 9>>
  <2>1. s \in Seq(Nat) /\ Len(s) = 2 /\ s[1] = 8 /\ s[2] = 9
    OBVIOUS
  <2>2. printed' = printed \o s
    BY DEF Read, Say
  <2> HIDE DEF s
  <2>3. Count \in Nat /\ Count' = Count + 2 /\ \A i \in 1..2 : s[i] = Count + i
    BY <1>8, <2>1
  <2> QED BY ONLY <1>1, <2>1, <2>2, <2>3, Said
<1> QED BY <1>6, <1>9, <1>10, <1>11, <1>12 DEF Kept, IInv

\* The middle server hands the result back.
LEMMA MiddleReplies ==
    ASSUME IInv, Write("middle", "reply", "to_client", "close")
    PROVE  Kept
<1>1. Shapes /\ Places /\ Together /\ Wired /\ Held /\ Announced
  BY DEF IInv
<1>2. /\ pc["middle"] = "reply" /\ pc'["middle"] = "close"
      /\ pc'["client"] = pc["client"] /\ pc'["final"] = pc["final"]
      /\ pc' = [s \in Threads |-> pc'[s]]
  BY <1>1, Moved DEF Write, Threads
<1>3. /\ taken' = taken /\ joined' = joined /\ listening' = listening
      /\ msg' = msg /\ printed' = printed
  BY DEF Write
<1>4. Places' /\ Together'
  BY <1>1, <1>2, <1>3 DEF Places, Together, C, M, F
<1>5. Written' = Written \cup {"to_client"}
  BY <1>2 DEF C, M, F, Written, Wires
<1>6. Count \in Nat /\ Count' = Count
  BY <1>1, <1>2 DEF Places, Together, C, M, F, Count
<1>7. Shapes'
  BY <1>1, <1>2, <1>3 DEF Shapes
<1>8. Wired'
  <2>1. msg["middle"] \in Content["to_client"] /\ "to_client" \in Wires
    BY <1>1, <1>2 DEF Held, Content, Wires, C, M, F
  <2> QED BY <1>1, <1>5, <2>1, Wrote DEF Write
<1>9. Held'
  BY <1>1, <1>2, <1>3 DEF Held, C, M, F
<1>10. Announced' /\ Count <= Count'
  BY <1>1, <1>3, <1>6, Unsaid
<1> QED BY <1>4, <1>7, <1>8, <1>9, <1>10 DEF Kept, IInv

\* The middle server closes its connections and its port.
LEMMA MiddleCloses ==
    ASSUME IInv, Close("middle", {5555})
    PROVE  Kept
<1>1. Shapes /\ Places /\ Together /\ Wired /\ Held /\ Announced
  BY DEF IInv
<1>2. /\ pc["middle"] = "close" /\ pc'["middle"] = "end"
      /\ pc'["client"] = pc["client"] /\ pc'["final"] = pc["final"]
      /\ pc' = [s \in Threads |-> pc'[s]]
  BY <1>1, Moved DEF Close, Threads
<1>3. /\ taken' = taken /\ joined' = joined /\ listening' = listening \ {5555}
      /\ wire' = wire /\ msg' = msg /\ printed' = printed
  BY DEF Close
<1>4. Places' /\ Together'
  BY <1>1, <1>2, <1>3 DEF Places, Together, C, M, F
<1>5. Written' = Written
  BY <1>2 DEF C, M, F, Written, Wires
<1>6. Count \in Nat /\ Count' = Count
  BY <1>1, <1>2 DEF Places, Together, C, M, F, Count
<1>7. Shapes'
  BY <1>1, <1>2, <1>3 DEF Shapes
<1>8. Wired'
  BY <1>1, <1>3, <1>5, Quiet
<1>9. Held'
  BY <1>1, <1>2, <1>3 DEF Held, C, M, F
<1>10. Announced' /\ Count <= Count'
  BY <1>1, <1>3, <1>6, Unsaid
<1> QED BY <1>4, <1>7, <1>8, <1>9, <1>10 DEF Kept, IInv

\* The final server listens.
LEMMA FinalBinds ==
    ASSUME IInv, Bind("final", 6666, "read"), 6666 \notin taken
    PROVE  Kept
<1>1. Shapes /\ Places /\ Together /\ Wired /\ Held /\ Announced
  BY DEF IInv
<1>2. /\ pc["final"] = "bind" /\ pc'["final"] = "read"
      /\ pc'["client"] = pc["client"] /\ pc'["middle"] = pc["middle"]
      /\ pc' = [s \in Threads |-> pc'[s]]
  BY <1>1, Moved DEF Bind, Threads
<1>3. /\ taken' = taken /\ joined' = joined /\ listening' = listening \cup {6666}
      /\ wire' = wire /\ msg' = msg /\ printed' = printed
  BY DEF Bind
<1>4. Places' /\ Together'
  BY <1>1, <1>2, <1>3 DEF Places, Together, C, M, F
<1>5. Written' = Written
  BY <1>2 DEF C, M, F, Written, Wires
<1>6. Count \in Nat /\ Count' = Count
  BY <1>1, <1>2 DEF Places, Together, C, M, F, Count
<1>7. Shapes'
  BY <1>1, <1>2, <1>3 DEF Shapes, Ports
<1>8. Wired'
  BY <1>1, <1>3, <1>5, Quiet
<1>9. Held'
  BY <1>1, <1>2, <1>3 DEF Held, C, M, F
<1>10. Announced' /\ Count <= Count'
  BY <1>1, <1>3, <1>6, Unsaid
<1> QED BY <1>4, <1>7, <1>8, <1>9, <1>10 DEF Kept, IInv

\* The final server takes the question and searches.
LEMMA FinalSearches ==
    ASSUME IInv, FinalRead
    PROVE  Kept
<1>1. Shapes /\ Places /\ Together /\ Wired /\ Held /\ Announced
  BY DEF IInv
<1>2. /\ pc["final"] = "read" /\ pc'["final"] = "write"
      /\ pc'["client"] = pc["client"] /\ pc'["middle"] = pc["middle"]
      /\ pc' = [s \in Threads |-> pc'[s]]
  BY <1>1, Moved DEF FinalRead, Threads
<1>3. /\ taken' = taken /\ joined' = joined /\ listening' = listening
      /\ wire' = wire
  BY DEF FinalRead
<1>4. /\ "to_final" \in Written /\ Head(wire["to_final"]) \in Questions
      /\ M \in {"answer", "reply", "close", "end"}
  BY <1>1, ToRead DEF FinalRead, Wires, Content, Written
<1>5. /\ msg'["final"] = find_description(Head(wire["to_final"]))
      /\ msg'["client"] = msg["client"] /\ msg'["middle"] = msg["middle"]
      /\ msg' = [s \in Threads |-> msg'[s]]
  BY <1>1, Took DEF FinalRead, Threads
<1>6. Places' /\ Together'
  BY <1>1, <1>2, <1>3, <1>4 DEF Places, Together, C, M, F
<1>7. Written' = Written
  BY <1>2 DEF C, M, F, Written, Wires
<1>8. Count = 4 /\ Count' = 7
  BY <1>1, <1>2, <1>4 DEF Places, Together, C, M, F, Count
<1>9. Shapes'
  BY <1>1, <1>2, <1>3, <1>4, <1>5 DEF Shapes
<1>10. Wired'
  BY <1>1, <1>3, <1>7, Quiet
<1>11. Held'
  BY <1>1, <1>2, <1>3, <1>4, <1>5, Searched DEF Held, C, M, F
<1>12. Announced' /\ Count <= Count'
  <2> DEFINE s == <<5, 6, 7>>
  <2>1. s \in Seq(Nat) /\ Len(s) = 3 /\ s[1] = 5 /\ s[2] = 6 /\ s[3] = 7
    OBVIOUS
  <2>2. printed' = printed \o s
    BY DEF FinalRead, Say
  <2> HIDE DEF s
  <2>3. Count \in Nat /\ Count' = Count + 3 /\ \A i \in 1..3 : s[i] = Count + i
    BY <1>8, <2>1
  <2> QED BY ONLY <1>1, <2>1, <2>2, <2>3, Said
<1> QED BY <1>6, <1>9, <1>10, <1>11, <1>12 DEF Kept, IInv

\* The result of the final server.
LEMMA FinalWrites ==
    ASSUME IInv, Write("final", "write", "from_final", "close")
    PROVE  Kept
<1>1. Shapes /\ Places /\ Together /\ Wired /\ Held /\ Announced
  BY DEF IInv
<1>2. /\ pc["final"] = "write" /\ pc'["final"] = "close"
      /\ pc'["client"] = pc["client"] /\ pc'["middle"] = pc["middle"]
      /\ pc' = [s \in Threads |-> pc'[s]]
  BY <1>1, Moved DEF Write, Threads
<1>3. /\ taken' = taken /\ joined' = joined /\ listening' = listening
      /\ msg' = msg /\ printed' = printed
  BY DEF Write
<1>4. Places' /\ Together'
  BY <1>1, <1>2, <1>3 DEF Places, Together, C, M, F
<1>5. Written' = Written \cup {"from_final"}
  BY <1>2 DEF C, M, F, Written, Wires
<1>6. Count \in Nat /\ Count' = Count
  BY <1>1, <1>2 DEF Places, Together, C, M, F, Count
<1>7. Shapes'
  BY <1>1, <1>2, <1>3 DEF Shapes
<1>8. Wired'
  <2>1. msg["final"] \in Content["from_final"] /\ "from_final" \in Wires
    BY <1>1, <1>2 DEF Held, Content, Wires, C, M, F
  <2> QED BY <1>1, <1>5, <2>1, Wrote DEF Write
<1>9. Held'
  BY <1>1, <1>2, <1>3 DEF Held, C, M, F
<1>10. Announced' /\ Count <= Count'
  BY <1>1, <1>3, <1>6, Unsaid
<1> QED BY <1>4, <1>7, <1>8, <1>9, <1>10 DEF Kept, IInv

\* The final server closes its connection and its port.
LEMMA FinalCloses ==
    ASSUME IInv, Close("final", {6666})
    PROVE  Kept
<1>1. Shapes /\ Places /\ Together /\ Wired /\ Held /\ Announced
  BY DEF IInv
<1>2. /\ pc["final"] = "close" /\ pc'["final"] = "end"
      /\ pc'["client"] = pc["client"] /\ pc'["middle"] = pc["middle"]
      /\ pc' = [s \in Threads |-> pc'[s]]
  BY <1>1, Moved DEF Close, Threads
<1>3. /\ taken' = taken /\ joined' = joined /\ listening' = listening \ {6666}
      /\ wire' = wire /\ msg' = msg /\ printed' = printed
  BY DEF Close
<1>4. Places' /\ Together'
  BY <1>1, <1>2, <1>3 DEF Places, Together, C, M, F
<1>5. Written' = Written
  BY <1>2 DEF C, M, F, Written, Wires
<1>6. Count \in Nat /\ Count' = Count
  BY <1>1, <1>2 DEF Places, Together, C, M, F, Count
<1>7. Shapes'
  BY <1>1, <1>2, <1>3 DEF Shapes
<1>8. Wired'
  BY <1>1, <1>3, <1>5, Quiet
<1>9. Held'
  BY <1>1, <1>2, <1>3 DEF Held, C, M, F
<1>10. Announced' /\ Count <= Count'
  BY <1>1, <1>3, <1>6, Unsaid
<1> QED BY <1>4, <1>7, <1>8, <1>9, <1>10 DEF Kept, IInv

\* A thread that cannot bind or connect ends; it said and wrote nothing.
LEMMA Failed ==
    ASSUME IInv, NEW t \in Threads, NEW from \in {"bind", "connect"}, Fail(t, from),
           UNCHANGED <<taken, listening, msg, wire, printed, joined>>,
           t = "client" => 5555 \notin listening
    PROVE  Kept
<1>1. Shapes /\ Places /\ Together /\ Wired /\ Held /\ Announced
  BY DEF IInv
<1>2. /\ pc[t] = from /\ pc'[t] = "failed"
      /\ \A s \in Threads \ {t} : pc'[s] = pc[s]
      /\ pc' = [s \in Threads |-> pc'[s]]
  BY <1>1, Moved DEF Fail
<1>3. t = "client" \/ t = "middle" \/ t = "final"
  BY DEF Threads
<1>4. Places'
  BY <1>1, <1>2, <1>3 DEF Places, C, M, F, Threads
<1>5. Together'
  <2>1. listening' = listening
    OBVIOUS
  <2>2. t = "client" => 5555 \notin listening
    OBVIOUS
  <2>3. CASE t = "client"
    BY ONLY <1>1, <1>2, <2>1, <2>2, <2>3 DEF Places, Together, C, M, F, Threads
  <2>4. CASE t = "middle"
    BY ONLY <1>1, <1>2, <2>1, <2>4 DEF Places, Together, C, M, F, Threads
  <2>5. CASE t = "final"
    BY ONLY <1>1, <1>2, <2>1, <2>5 DEF Places, Together, C, M, F, Threads
  <2> QED BY <1>3, <2>3, <2>4, <2>5
<1>6. Written' = Written
  <2>1. from \in {"bind", "connect"}
    OBVIOUS
  <2>2. CASE t = "client"
    BY ONLY <1>2, <2>1, <2>2 DEF C, M, F, Written, Wires, Threads
  <2>3. CASE t = "middle"
    BY ONLY <1>2, <2>1, <2>3 DEF C, M, F, Written, Wires, Threads
  <2>4. CASE t = "final"
    BY ONLY <1>2, <2>1, <2>4 DEF C, M, F, Written, Wires, Threads
  <2> QED BY <1>3, <2>2, <2>3, <2>4
<1>7. Count \in Nat /\ Count' = Count
  <2>1. from \in {"bind", "connect"}
    OBVIOUS
  <2>3. CASE t = "client"
    BY ONLY <1>1, <1>2, <2>1, <2>3 DEF Places, Together, C, M, F, Count, Threads
  <2>4. CASE t = "middle"
    BY ONLY <1>1, <1>2, <2>1, <2>4 DEF Places, Together, C, M, F, Count, Threads
  <2>5. CASE t = "final"
    BY ONLY <1>1, <1>2, <2>1, <2>5 DEF Places, Together, C, M, F, Count, Threads
  <2> QED BY <1>3, <2>3, <2>4, <2>5
<1>8. Shapes'
  BY <1>1, <1>2 DEF Shapes
<1>9. Wired'
  BY <1>1, <1>6, Quiet
<1>10. Held'
  BY <1>1, <1>2, <1>3 DEF Held, C, M, F, Threads
<1>11. Announced' /\ Count <= Count'
  BY <1>1, <1>7, Unsaid
<1> QED BY <1>4, <1>5, <1>8, <1>9, <1>10, <1>11 DEF Kept, IInv
-----------------------------------------------------------------------------
\* A step of the client.
LEMMA ClientStep == ASSUME IInv, client PROVE Kept
<1>1. CASE Connect("client", "connect", 5555, <<1, 2>>)
  <2>1. CASE 5555 \in listening
    BY <1>1, <2>1, ClientConnects
  <2>2. CASE 5555 \notin listening
    <3>1. /\ Fail("client", "connect")
          /\ UNCHANGED <<taken, listening, msg, wire, printed, joined>>
      BY <1>1, <2>2 DEF Connect
    <3> QED BY <2>2, <3>1, Failed DEF Threads
  <2> QED BY <2>1, <2>2
<1>2. CASE Write("client", "write", "to_middle", "read")
  BY ONLY <1>2, IInv, ClientWrites
<1>3. CASE Read("client", "read", "to_client", "close", << 10 >>)
  BY ONLY <1>3, IInv, ClientReads
<1>4. CASE Close("client", {})
  BY ONLY <1>4, IInv, ClientCloses
<1> QED BY <1>1, <1>2, <1>3, <1>4 DEF client

\* A server that finds its port taken.
LEMMA PortTaken ==
    ASSUME IInv, NEW t \in {"middle", "final"}, NEW port \in taken, Bind(t, port, "read")
    PROVE  Kept
<1>1. Fail(t, "bind") /\ UNCHANGED <<taken, listening, msg, wire, printed, joined>>
  BY DEF Bind
<1> QED BY <1>1, Failed DEF Threads

\* A step of the middle server.
LEMMA MiddleStep == ASSUME IInv, middle_server PROVE Kept
<1>1. CASE Bind("middle", 5555, "read")
  BY <1>1, MiddleBinds, PortTaken
<1>2. CASE Connect("middle", "connect", 6666, << 4 >>)
  <2>1. CASE 6666 \in listening
    BY <1>2, <2>1, MiddleConnects
  <2>2. CASE 6666 \notin listening
    <3>1. /\ Fail("middle", "connect")
          /\ UNCHANGED <<taken, listening, msg, wire, printed, joined>>
      BY <1>2, <2>2 DEF Connect
    <3> QED BY <3>1, Failed DEF Threads
  <2> QED BY <2>1, <2>2
<1>3. CASE Read("middle", "read", "to_middle", "connect", << 3 >>)
  BY ONLY <1>3, IInv, MiddleReads
<1>4. CASE Write("middle", "write", "to_final", "answer")
  BY ONLY <1>4, IInv, MiddleWrites
<1>5. CASE Read("middle", "answer", "from_final", "reply", <<8, 9>>)
  BY ONLY <1>5, IInv, MiddleTakes
<1>6. CASE Write("middle", "reply", "to_client", "close")
  BY ONLY <1>6, IInv, MiddleReplies
<1>7. CASE Close("middle", {5555})
  BY ONLY <1>7, IInv, MiddleCloses
<1> QED BY <1>1, <1>2, <1>3, <1>4, <1>5, <1>6, <1>7 DEF middle_server

\* A step of the final server.
LEMMA FinalStep == ASSUME IInv, final_server PROVE Kept
<1>1. CASE Bind("final", 6666, "read")
  BY <1>1, FinalBinds, PortTaken
<1>2. CASE FinalRead
  BY ONLY <1>2, IInv, FinalSearches
<1>3. CASE Write("final", "write", "from_final", "close")
  BY ONLY <1>3, IInv, FinalWrites
<1>4. CASE Close("final", {6666})
  BY ONLY <1>4, IInv, FinalCloses
<1> QED BY <1>1, <1>2, <1>3, <1>4 DEF final_server

\* What neither a joined thread nor a stutter touches.
LEMMA Untouched ==
    ASSUME IInv, UNCHANGED <<taken, pc, listening, msg, wire, printed>>, joined' \in 0..3
    PROVE  Kept
<1>1. Shapes /\ Places /\ Together /\ Wired /\ Held /\ Announced
  BY DEF IInv
<1>2. Places' /\ Together' /\ Held' /\ Written' = Written /\ Count' = Count
  BY <1>1 DEF Places, Together, Held, Written, Count, C, M, F
<1>3. Shapes'
  BY <1>1 DEF Shapes
<1>4. Wired'
  BY <1>1, <1>2, Quiet
<1>5. Count \in Nat
  BY DEF Count
<1>6. Announced' /\ Count <= Count'
  BY <1>1, <1>2, <1>5, Unsaid
<1> QED BY <1>2, <1>3, <1>4, <1>6 DEF Kept, IInv

\* Every step keeps the invariant, and what is announced only grows.
LEMMA Step == ASSUME IInv, [Next]_vars PROVE Kept
<1>1. CASE Join
  <2>1. UNCHANGED <<taken, pc, listening, msg, wire, printed>> /\ joined' \in 0..3
    BY <1>1 DEF Join, IInv, Shapes
  <2> QED BY <2>1, Untouched
<1>2. CASE UNCHANGED vars
  <2>1. UNCHANGED <<taken, pc, listening, msg, wire, printed>> /\ joined' \in 0..3
    BY <1>2 DEF vars, IInv, Shapes
  <2> QED BY <2>1, Untouched
<1> QED BY <1>1, <1>2, ClientStep, MiddleStep, FinalStep DEF Next

\* The program starts in the invariant.
LEMMA Starts == Init => IInv
<1> SUFFICES ASSUME Init PROVE IInv
  OBVIOUS
<1>1. C = "connect" /\ M = "bind" /\ F = "bind" /\ listening = {}
  BY DEF Init, C, M, F, Threads
<1>2. Places /\ Together /\ Count = 0
  BY <1>1 DEF Places, Together, Count
<1>3. Written = {}
  BY <1>1 DEF Written
<1>4. Shapes
  BY DEF Init, Shapes
<1>5. Wired
  BY <1>3 DEF Init, Wired
<1>6. \A t \in Threads : msg[t] \in Questions
  BY DEF Init, Questions
<1>7. Held
  BY <1>1, <1>6 DEF Held, Threads
<1>8. Announced
  <2>1. Upto(0) = <<>>
    BY DEF Upto
  <2> QED BY <1>2, <2>1 DEF Announced, Init
<1> QED BY <1>2, <1>4, <1>5, <1>7, <1>8 DEF IInv

\* The invariant holds in every state of the program.
LEMMA Invariant == Spec => []IInv
<1>1. IInv /\ [Next]_vars => IInv'
  BY Step DEF Kept
<1> QED BY Starts, <1>1, PTL DEF Spec

\* Types for any animals and any question: every variable has its type, a port
\* listens only if it was free, and no connection carries two messages.
THEOREM TypesKept == Spec => []TypeOK
BY Invariant, Typed, PTL
-----------------------------------------------------------------------------
\* Where a thread waits, what it waits for was not written; who has written it
\* then says that somebody else is not waiting.
LEMMA SomebodyRuns == IInv => NeverAllWaiting
<1> SUFFICES ASSUME IInv, \A t \in Threads : pc[t] # "failed",
                    \A t \in Threads : Ended(t) \/ Waits(t)
             PROVE  \A t \in Threads : pc[t] = "end"
  BY DEF NeverAllWaiting
<1>1. /\ C \in {"read", "end"} /\ (C = "read" => wire["to_client"] = <<>>)
      /\ M \in {"read", "answer", "end"} /\ (M = "read" => wire["to_middle"] = <<>>)
      /\ M = "answer" => wire["from_final"] = <<>>
      /\ F \in {"read", "end"} /\ (F = "read" => wire["to_final"] = <<>>)
  BY DEF IInv, Places, C, M, F, Threads, Ended, Waits
<1>2. \A w \in Wires : w \in Written => wire[w] # <<>>
  BY DEF IInv, Wired
<1>3. /\ C = "read" => "to_middle" \in Written
      /\ M = "end" => "to_client" \in Written
      /\ M = "answer" => "to_final" \in Written
      /\ F = "end" => "from_final" \in Written
  BY DEF Written, Wires
<1>4. M \notin {"read", "answer"}
  <2>1. CASE M = "read"
    <3>1. C # "end"
      BY <2>1 DEF IInv, Together
    <3> QED BY <1>1, <1>2, <1>3, <2>1, <3>1 DEF Wires
  <2>2. CASE M = "answer"
    BY <1>1, <1>2, <1>3, <2>2 DEF Wires
  <2> QED BY <2>1, <2>2
<1>5. M = "end" /\ C = "end"
  BY <1>1, <1>2, <1>3, <1>4 DEF Wires
<1>6. F = "end"
  BY <1>1, <1>5 DEF IInv, Together
<1> QED BY <1>5, <1>6 DEF C, M, F, Threads

\* Without a failure the threads never all wait, whatever the order they run in.
THEOREM NoCircle == Spec => []NeverAllWaiting
BY Invariant, SomebodyRuns, PTL

Result == IF Question \in Names THEN Describe[Question] ELSE NotFound
ShowsTheResult == Shown = IF Count = 10 THEN Result ELSE Nothing

\* The client shows the result from its last step on, and nothing before.
LEMMA ShownIs == IInv => ShowsTheResult
<1> SUFFICES ASSUME IInv PROVE Shown = IF Count = 10 THEN Result ELSE Nothing
  BY DEF ShowsTheResult
<1>1. Held /\ Places
  BY DEF IInv
<1>2. CASE C \in {"close", "end"}
  <2>1. msg["client"] \in Results /\ Count = 10
    BY <1>1, <1>2 DEF Held, Count
  <2>2. Shown = IF msg["client"].st = 1 THEN msg["client"].data ELSE NotFound
    BY <1>2 DEF Shown, C
  <2>3. CASE Question \in Names
    <3>1. msg["client"] = [st |-> 1, data |-> Describe[Question]]
      BY <2>1, <2>3 DEF Results
    <3> QED BY <2>1, <2>2, <2>3, <3>1 DEF Result
  <2>4. CASE Question \notin Names
    <3>1. msg["client"] = [st |-> 0, data |-> Question]
      BY <2>1, <2>4 DEF Results
    <3> QED BY <2>1, <2>2, <2>4, <3>1 DEF Result
  <2> QED BY <2>3, <2>4
<1>3. CASE C \notin {"close", "end"}
  <2>1. Count # 10
    BY <1>3 DEF Count
  <2>2. Shown = Nothing
    BY <1>3 DEF Shown, C
  <2> QED BY <2>1, <2>2
<1> QED BY <1>2, <1>3

\* Every step of the program is a step of Flow or none.
LEMMA FlowStep == ASSUME IInv, [Next]_vars PROVE [TheFlow!Next]_<<printed, Shown>>
<1>1. IInv' /\ Count <= Count'
  BY Step DEF Kept
<1>2. Count \in 0..10 /\ Count' \in 0..10
  BY DEF Count
<1>3. printed = Upto(Count) /\ printed' = Upto(Count')
  BY <1>1 DEF IInv, Announced
<1>4. Shown = IF Count = 10 THEN Result ELSE Nothing
  BY ShownIs DEF ShowsTheResult
<1>5. Shown' = IF Count' = 10 THEN Result ELSE Nothing
  <2>1. (IInv => ShowsTheResult)'
    BY ShownIs, PTL
  <2> QED BY <1>1, <2>1 DEF ShowsTheResult
<1>6. CASE Count' = Count
  BY <1>3, <1>4, <1>5, <1>6
<1>7. CASE Count' # Count
  <2>1. Len(printed) = Count
    BY <1>2, <1>3 DEF Upto
  <2>2. Count' \in (Len(printed) + 1)..10
    BY <1>1, <1>2, <1>7, <2>1
  <2>3. printed' = [i \in 1..Count' |-> i]
    BY <1>3 DEF Upto
  <2> QED BY <1>5, <2>2, <2>3 DEF TheFlow!Next, Result
<1> QED BY <1>6, <1>7

\* The program starts as Flow does.
LEMMA FlowStarts == Init => TheFlow!Init
<1> SUFFICES ASSUME Init PROVE printed = <<>> /\ Shown = Nothing
  BY DEF TheFlow!Init
<1>1. pc["client"] = "connect"
  BY DEF Init, Threads
<1> QED BY <1>1 DEF Init, Shown

\* The three threads implement Flow for any animals and any question, whatever
\* the ports that are taken and the order in which the threads run: the steps
\* are announced in order and the client shows the result of the final server
\* or nothing.
THEOREM FlowFollowed == Spec => FollowsTheFlow
<1>1. IInv /\ [Next]_vars => [TheFlow!Next]_<<printed, Shown>>
  BY FlowStep
<1> QED BY Invariant, FlowStarts, <1>1, PTL DEF Spec, FollowsTheFlow, TheFlow!Spec
=============================================================================
