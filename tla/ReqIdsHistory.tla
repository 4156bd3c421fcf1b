---------------------------- MODULE ReqIdsHistory ----------------------------
(***************************************************************************)
(* ReqIds with a history variable: which ids had already been returned     *)
(* when a call of NewReqId was entered.  It serves to state when two calls *)
(* may draw the same id.                                                   *)
(***************************************************************************)
EXTENDS ReqIds

CONSTANT MaxIncrements   \* bound: increments of the counter in a behaviour

ASSUME MaxIncrementsAssumption == MaxIncrements \in Nat

VARIABLES returned,      \* the ids returned so far
          before,        \* for each caller, "returned" when its call began
          increments     \* increments done so far

hVars == <<rid, idpc, ids, returned, before, increments>>

HistInit ==
  /\ IdInit
  /\ returned = {}
  /\ before = [c \in Callers |-> {}]
  /\ increments = 0

HistEnter(c) ==
  /\ Enter(c)
  /\ before' = [before EXCEPT ![c] = returned]
  /\ UNCHANGED <<returned, increments>>

HistIncrement(c) ==
  /\ increments < MaxIncrements
  /\ Increment(c)
  /\ increments' = increments + 1
  /\ UNCHANGED <<returned, before>>

HistInner(c) ==
  /\ Renumber(c) \/ AssertNotNull(c)
  /\ UNCHANGED <<returned, before, increments>>

HistReturn(c) ==
  /\ Return(c)
  /\ returned' = returned \cup {ids'[c]}
  /\ UNCHANGED <<before, increments>>

HistNext ==
  \E c \in Callers :
    HistEnter(c) \/ HistIncrement(c) \/ HistInner(c) \/ HistReturn(c)

HistSpec == HistInit /\ [][HistNext]_hVars

HistTypeOK ==
  /\ IdTypeOK
  /\ returned \subseteq ReqId
  /\ before \in [Callers -> SUBSET ReqId]
  /\ increments \in 0 .. MaxIncrements

-----------------------------------------------------------------------------

(***************************************************************************)
(* Before the counter wraps, only calls that overlapped may share an id:   *)
(* the value about to be returned was not returned before the call began.  *)
(* This is what makes the ids of one sending thread distinct, and what the *)
(* separate reads of the counter leave of uniqueness for several threads.  *)
(***************************************************************************)
OnlyOverlappingCallsShareIds ==
  increments < Modulus =>
    \A c \in Callers : Inside(c) => rid \notin before[c]
=============================================================================
