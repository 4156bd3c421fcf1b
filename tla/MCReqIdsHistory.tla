--------------------------- MODULE MCReqIdsHistory ---------------------------
(***************************************************************************)
(* ReqIdsHistory for TLC: interchangeable threads that draw ids past the   *)
(* wrap around of the counter.                                             *)
(***************************************************************************)
EXTENDS ReqIdsHistory, TLC

CONSTANTS t1, t2, t3

Interchangeable == Permutations(Callers)
=============================================================================
