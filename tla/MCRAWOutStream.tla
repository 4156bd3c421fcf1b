--------------------------- MODULE MCRAWOutStream ---------------------------
(***************************************************************************)
(* RAWOutStream for TLC: the instances differ only in their bounds.        *)
(***************************************************************************)
EXTENDS RAWOutStream
=============================================================================
