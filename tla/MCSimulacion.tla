---------------------------- MODULE MCSimulacion ----------------------------
(***************************************************************************)
(* The animals of simulacion-protocolo.cc.                                 *)
(***************************************************************************)
EXTENDS Simulacion

CONSTANTS Goat, Horse, Camel, GoatDesc, HorseDesc, CamelDesc

MCDescribe ==
    [n \in {Goat, Horse, Camel} |->
        CASE n = Goat -> GoatDesc [] n = Horse -> HorseDesc [] n = Camel -> CamelDesc]
=============================================================================
