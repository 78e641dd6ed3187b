---------------------------- MODULE MCDiscovery ----------------------------
(***************************************************************************)
(* Small subnets for Discovery.                                            *)
(***************************************************************************)
EXTENDS Discovery

CONSTANTS i1, i2, s1, s2
=============================================================================
