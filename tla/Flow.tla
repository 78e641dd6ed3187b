-------------------------------- MODULE Flow --------------------------------
(***************************************************************************)
(* What the simulation promises: the ten steps that its threads announce   *)
(* happen in the order of their numbers, and the tenth shows the client    *)
(* what the final server has on the animal it asked for.                   *)
(***************************************************************************)
EXTENDS Naturals, Sequences

CONSTANTS Answer, Nothing

VARIABLES printed, shown

Init == printed = <<>> /\ shown = Nothing

Next ==
    \E n \in (Len(printed) + 1)..10 :
        /\ printed' = [i \in 1..n |-> i]
        /\ shown' = IF n = 10 THEN Answer ELSE Nothing

Spec == Init /\ [][Next]_<<printed, shown>>
=============================================================================
