------------------------------ MODULE MCQuery ------------------------------
(***************************************************************************)
(* Small catalogues and requests for Query.  The page of <<x>> fits every  *)
(* buffer; the one of <<x, y>> is longer than ps_buff; <<y>> is a file the *)
(* decoder throws on.                                                      *)
(***************************************************************************)
EXTENDS Query

CONSTANTS c1, c2, c3, x, y

MCGood == {<<x>>, <<x, y>>}
MCBad == {<<y>>}
MCSize == [r \in MCGood |-> IF r = <<x>> THEN 1 ELSE 3]

Named(name) == <<GET>> \o name \o <<SP>>

\* One client that asks for the long page, one for anything.
MCAsks ==
    [c \in Clients |->
        IF c = c1 THEN {Named(<<x, y>>)}
        ELSE {Named(<<x>>), Named(<<y>>), <<GET>>, <<x>>}]

\* Everybody asks for a figure that is there.
FigureAsks == [c \in Clients |-> IF c = c1 THEN {Named(<<x, y>>)} ELSE {Named(<<x>>)}]
=============================================================================
