---------------------------- MODULE MCAsyncClient ----------------------------
(***************************************************************************)
(* AsyncClient for TLC: up to three calls, their threads and the ids they  *)
(* pass to Send.                                                           *)
(***************************************************************************)
EXTENDS AsyncClient, TLC

CONSTANTS c1, c2, c3, t1, t2

\* c3, if there, is a SendNoReply.
Silent == {c3}

OwnThreads == [c \in Calls |-> c]
TwoThreads == [c \in Calls |-> IF c = c1 THEN t1 ELSE t2]

Drawn == [c \in Calls |-> NullReqId]
Distinct == [c \in Calls |-> IF c = c1 THEN 1 ELSE IF c = c2 THEN 2 ELSE 3]
Sender == [c \in Calls |-> IF c = c3 THEN t2 ELSE t1]
Twins == [c \in Calls |-> IF c = c1 THEN 1 ELSE 2]
=============================================================================
