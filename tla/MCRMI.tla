-------------------------------- MODULE MCRMI --------------------------------
(***************************************************************************)
(* RMI for TLC: two proxies ask for the one service, a third one asks for  *)
(* a service that does not exist.                                          *)
(***************************************************************************)
EXTENDS RMI

CONSTANTS s1, nowhere, p1, p2, p3

MCWanted == [p \in Proxies |-> IF p = p3 THEN nowhere ELSE s1]
=============================================================================
