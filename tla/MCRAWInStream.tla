---------------------------- MODULE MCRAWInStream ----------------------------
(***************************************************************************)
(* RAWInStream for TLC: the instances differ only in their bounds.         *)
(***************************************************************************)
EXTENDS RAWInStream
=============================================================================
