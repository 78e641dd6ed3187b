---------------------------- MODULE QueryService ----------------------------
(***************************************************************************)
(* What the intermediate promises its clients, without its buffers, its    *)
(* connections and its pieces server: the clients stand in one line and    *)
(* are served one at a time, in the order they came, at most once each,    *)
(* with an answer that fits what they asked for.  When the program ends    *)
(* everybody in the line is let go.                                        *)
(***************************************************************************)
EXTENDS Requests

CONSTANTS
    Clients,
    Room,           \* clients that wait behind the first
    RequestLen,     \* cells of the request that are looked at
    MayAbandon      \* the test case: clients leave the line with nothing

VARIABLES
    up,             \* the intermediate runs
    arrived,        \* who ever got into the line
    line,           \* who is in it
    asked,          \* asked[c]: the request of c
    relayed,        \* whose request was sent on, or could not be
    dropped,        \* whose query the pieces server ended without an answer
    answer,         \* answer[c]: the answer, <<>> if none or empty
    closed          \* with whom the intermediate is done

vars == <<up, arrived, line, asked, relayed, dropped, answer, closed>>

Init ==
    /\ up = TRUE
    /\ arrived = {} /\ line = <<>>
    /\ asked = [c \in Clients |-> <<>>]
    /\ relayed = {} /\ dropped = {}
    /\ answer = [c \in Clients |-> <<>>]
    /\ closed = {}

Arrive(c) ==
    /\ up
    /\ c \notin arrived
    /\ Len(line) <= Room
    /\ arrived' = arrived \cup {c}
    /\ line' = Append(line, c)
    /\ UNCHANGED <<up, asked, relayed, dropped, answer, closed>>

\* A request is written once.
Ask(c) ==
    /\ asked[c] = <<>>
    /\ asked' = [asked EXCEPT ![c] = asked'[c]]
    /\ UNCHANGED <<up, arrived, line, relayed, dropped, answer, closed>>

\* Only the request of the first in the line is relayed, and only once.
Relay ==
    /\ line # <<>>
    /\ Head(line) \notin relayed
    /\ relayed' = relayed \cup {Head(line)}
    /\ UNCHANGED <<up, arrived, line, asked, dropped, answer, closed>>

\* The pieces server closes, resets or dies.
Drop ==
    /\ dropped \subseteq dropped'
    /\ dropped' \subseteq relayed
    /\ UNCHANGED <<up, arrived, line, asked, relayed, answer, closed>>

(* What may be answered to c.  What was not relayed gets one of the fixed    *)
(* answers; a figure is never called invalid and never answered with the     *)
(* menu, and once relayed it is answered with the time-out message or with   *)
(* the beginning of its own page, unless the pieces server dropped it.       *)
Fits(c, bytes) ==
    /\ c \notin relayed => bytes \in {<<InvalidRequest>>, <<Error500>>, <<>>}
    /\ NamesFigure(asked[c], RequestLen) =>
        \/ c \notin relayed /\ bytes = <<Error500>>
        \/ c \in dropped
        \/ c \in relayed /\ bytes # <<>>
            /\ Head(bytes) \in {Error504, Response(formatRequest(asked[c]))[1]}

\* The first in the line is answered and leaves.
Answer ==
    /\ line # <<>>
    /\ Head(line) \notin closed
    /\ Fits(Head(line), answer'[Head(line)])
    /\ answer' = [answer EXCEPT ![Head(line)] = answer'[Head(line)]]
    /\ closed' = closed \cup {Head(line)}
    /\ line' = Tail(line)
    /\ UNCHANGED <<up, arrived, asked, relayed, dropped>>

\* Nothing is said to the first in the line, and nothing closed.
Abandon ==
    /\ MayAbandon
    /\ line # <<>>
    /\ line' = Tail(line)
    /\ UNCHANGED <<up, arrived, asked, relayed, dropped, answer, closed>>

\* The end of the program, while it relays or not.
End ==
    /\ up' = FALSE
    /\ line' = <<>>
    /\ relayed \subseteq relayed'
    /\ closed \cup {line[i] : i \in 1..Len(line)} \subseteq closed'
    /\ UNCHANGED <<arrived, asked, dropped, answer>>

Next ==
    \/ \E c \in Clients : Arrive(c) \/ Ask(c)
    \/ Relay \/ Drop \/ Answer \/ Abandon \/ End

Spec == Init /\ [][Next]_vars
=============================================================================
