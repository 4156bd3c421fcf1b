---------------------------- MODULE MCAsyncServer ----------------------------
(***************************************************************************)
(* AsyncServer for TLC: up to four requests, which differ in whether they *)
(* ask for a reply and whether the service throws for them.                *)
(***************************************************************************)
EXTENDS AsyncServer

CONSTANTS m1, m2, m3, m4
=============================================================================
