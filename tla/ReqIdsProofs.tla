---------------------------- MODULE ReqIdsProofs ----------------------------
(***************************************************************************)
(* What holds of NewReqId() for every number of threads and every width of *)
(* a ReqId: types, the range of the counter, and the two facts the client  *)
(* relies on, that one thread draws 1, 2, ..., Modulus - 1, 1, ... and     *)
(* that only overlapping calls can draw the same id before a wrap around.  *)
(***************************************************************************)
EXTENDS ReqIdsHistory, TLAPS

(***************************************************************************)
(* The residues the code computes, without the modulo operator.            *)
(***************************************************************************)
LEMMA SuccessorResidue ==
  ASSUME NEW r \in ReqId
  PROVE  (r + 1) % Modulus = IF r = Modulus - 1 THEN 0 ELSE r + 1
<1>1. CASE r = Modulus - 1
  BY <1>1, ModulusAssumption DEF ReqId
<1>2. CASE r # Modulus - 1
  <2>1. r + 1 \in 0 .. Modulus - 1
    BY <1>2, ModulusAssumption DEF ReqId
  <2> QED
    BY <1>2, <2>1, ModulusAssumption
<1> QED
  BY <1>1, <1>2

(***************************************************************************)
(* The variables of NewReqId keep their types; in particular the counter   *)
(* and every id handed out fit in a ReqId.                                 *)
(***************************************************************************)
THEOREM IdTypeCorrect == IdSpec => []IdTypeOK
<1>1. IdInit => IdTypeOK
  BY ModulusAssumption DEF IdInit, IdTypeOK, ReqId, IdSteps, NullReqId
<1>2. IdTypeOK /\ [IdNext]_idVars => IdTypeOK'
  <2> SUFFICES ASSUME IdTypeOK, [IdNext]_idVars
               PROVE  IdTypeOK'
    OBVIOUS
  <2> USE DEF IdTypeOK, IdStep, IdSteps
  <2>1. ASSUME NEW c \in Callers, Enter(c)
        PROVE  IdTypeOK'
    BY <2>1 DEF Enter
  <2>2. ASSUME NEW c \in Callers, Increment(c)
        PROVE  IdTypeOK'
    <3>1. rid' \in ReqId
      BY <2>2, SuccessorResidue, ModulusAssumption DEF Increment, ReqId
    <3> QED
      BY <2>2, <3>1 DEF Increment
  <2>3. ASSUME NEW c \in Callers, Renumber(c)
        PROVE  IdTypeOK'
    BY <2>3, ModulusAssumption DEF Renumber, ReqId
  <2>4. ASSUME NEW c \in Callers, AssertNotNull(c)
        PROVE  IdTypeOK'
    BY <2>4 DEF AssertNotNull
  <2>5. ASSUME NEW c \in Callers, Return(c)
        PROVE  IdTypeOK'
    BY <2>5 DEF Return
  <2>6. CASE UNCHANGED idVars
    BY <2>6 DEF idVars
  <2> QED
    BY <2>1, <2>2, <2>3, <2>4, <2>5, <2>6 DEF IdNext
<1> QED
  BY <1>1, <1>2, PTL DEF IdSpec

(***************************************************************************)
(* Once an id has been handed out the counter is 0 only between the        *)
(* increment that wraps it around and that thread's compare-and-exchange,  *)
(* for any number of threads.                                              *)
(***************************************************************************)
THEOREM ZeroIsTransientCorrect == IdSpec => []ZeroIsTransient
<1>1. IdInit => ZeroIsTransient
  BY DEF IdInit, ZeroIsTransient, Inside
<1>2. IdTypeOK /\ ZeroIsTransient /\ [IdNext]_idVars => ZeroIsTransient'
  <2> SUFFICES ASSUME IdTypeOK, ZeroIsTransient, [IdNext]_idVars
               PROVE  ZeroIsTransient'
    OBVIOUS
  <2> USE DEF IdTypeOK, IdStep, ZeroIsTransient, Inside
  <2>1. ASSUME NEW c \in Callers, Enter(c)
        PROVE  ZeroIsTransient'
    BY <2>1 DEF Enter
  <2>2. ASSUME NEW c \in Callers, Increment(c)
        PROVE  ZeroIsTransient'
    \* If the counter is 0 now, this is the call that brought it there.
    BY <2>2 DEF Increment
  <2>3. ASSUME NEW c \in Callers, Renumber(c)
        PROVE  ZeroIsTransient'
    <3>1. rid' # 0
      BY <2>3 DEF Renumber
    <3> QED
      BY <3>1
  <2>4. ASSUME NEW c \in Callers, AssertNotNull(c)
        PROVE  ZeroIsTransient'
    BY <2>4 DEF AssertNotNull
  <2>5. ASSUME NEW c \in Callers, Return(c)
        PROVE  ZeroIsTransient'
    BY <2>5 DEF Return
  <2>6. CASE UNCHANGED idVars
    BY <2>6 DEF idVars
  <2> QED
    BY <2>1, <2>2, <2>3, <2>4, <2>5, <2>6 DEF IdNext
<1> QED
  BY <1>1, <1>2, IdTypeCorrect, PTL DEF IdSpec

-----------------------------------------------------------------------------

(***************************************************************************)
(* One calling thread: the counter is the last id, its successor while the *)
(* call is under way, and never 0 where the assertion reads it.            *)
(***************************************************************************)
NextId(i) == IF i = Modulus - 1 THEN 1 ELSE i + 1

AloneInv ==
  \A c \in Callers :
    /\ idpc[c] \in {"outside", "increment"} => rid = ids[c]
    /\ idpc[c] = "renumber" =>
         rid = IF ids[c] = Modulus - 1 THEN 0 ELSE ids[c] + 1
    /\ idpc[c] \in {"assert", "return"} => rid = NextId(ids[c])
    /\ idpc[c] # "aborted"

(***************************************************************************)
(* NextId is the successor among the ids, and the residue that the         *)
(* increment and the compare-and-exchange compute.                         *)
(***************************************************************************)
LEMMA NextIdResidue ==
  ASSUME NEW i \in ReqId
  PROVE  /\ NextId(i) = (i % (Modulus - 1)) + 1
         /\ NextId(i) # 0
<1>1. CASE i = Modulus - 1
  BY <1>1, ModulusAssumption DEF NextId, ReqId
<1>2. CASE i # Modulus - 1
  BY <1>2, ModulusAssumption DEF NextId, ReqId
<1> QED
  BY <1>1, <1>2

(***************************************************************************)
(* AloneInv is an invariant when one thread is alone.                      *)
(***************************************************************************)
LEMMA AloneInvariant ==
  ASSUME NEW only, Callers = {only}
  PROVE  IdSpec => []AloneInv
<1>1. IdInit => AloneInv
  BY DEF IdInit, AloneInv, NullReqId
<1>2. IdTypeOK /\ AloneInv /\ [IdNext]_idVars => AloneInv'
  <2> SUFFICES ASSUME IdTypeOK, AloneInv, [IdNext]_idVars
               PROVE  AloneInv'
    OBVIOUS
  <2> USE Callers = {only} DEF IdTypeOK, IdStep, AloneInv
  <2>1. CASE Enter(only)
    BY <2>1 DEF Enter
  <2>2. CASE Increment(only)
    BY <2>2, SuccessorResidue DEF Increment
  <2>3. CASE Renumber(only)
    BY <2>3, ModulusAssumption DEF Renumber, NextId, ReqId
  <2>4. CASE AssertNotNull(only)
    BY <2>4, NextIdResidue DEF AssertNotNull, NullReqId
  <2>5. CASE Return(only)
    BY <2>5 DEF Return
  <2>6. CASE UNCHANGED idVars
    BY <2>6 DEF idVars
  <2> QED
    BY <2>1, <2>2, <2>3, <2>4, <2>5, <2>6 DEF IdNext
<1> QED
  BY <1>1, <1>2, IdTypeCorrect, PTL DEF IdSpec

(***************************************************************************)
(* With one calling thread the assertion of NewReqId never fails, however  *)
(* wide a ReqId is.                                                        *)
(***************************************************************************)
THEOREM AssertHoldsAlone ==
  ASSUME NEW only, Callers = {only}
  PROVE  IdSpec => []AssertHolds
<1>1. AloneInv => AssertHolds
  BY DEF AloneInv, AssertHolds
<1> QED
  BY <1>1, AloneInvariant, PTL

(***************************************************************************)
(* One thread alone draws 1, 2, ..., Modulus - 1, 1, 2, ...                *)
(***************************************************************************)
THEOREM SequentialIdsAlone ==
  ASSUME NEW only, Callers = {only}
  PROVE  IdSpec => SequentialIds
<1> DEFINE Drawn == \A c \in Callers :
              ids'[c] # ids[c] => ids'[c] = (ids[c] % (Modulus - 1)) + 1
<1>1. IdTypeOK /\ AloneInv /\ [IdNext]_idVars => [Drawn]_idVars
  <2> SUFFICES ASSUME IdTypeOK, AloneInv, IdNext
               PROVE  Drawn
    OBVIOUS
  <2> USE Callers = {only} DEF IdTypeOK, IdStep, AloneInv
  <2>1. CASE Return(only)
    BY <2>1, NextIdResidue DEF Return
  <2>2. CASE ids' = ids
    BY <2>2
  <2> QED
    BY <2>1, <2>2
    DEF IdNext, Enter, Increment, Renumber, AssertNotNull
<1> QED
  BY <1>1, IdTypeCorrect, AloneInvariant, PTL DEF IdSpec, SequentialIds

-----------------------------------------------------------------------------

(***************************************************************************)
(* Before the counter wraps around it counts the increments; an id handed  *)
(* out is at most the counter, and less than the counter for a caller that *)
(* began after it was handed out and has done its own increment.           *)
(***************************************************************************)
NotWrapped ==
  /\ rid = increments
  /\ returned \subseteq 0 .. rid
  /\ \A c \in Callers :
       /\ before[c] \subseteq 0 .. rid
       /\ Inside(c) => rid # 0 /\ \A i \in before[c] : i < rid

HistInv == increments < Modulus => NotWrapped

(***************************************************************************)
(* The history variables keep their types.                                 *)
(***************************************************************************)
LEMMA HistTypeCorrect == HistSpec => []HistTypeOK
<1>1. HistInit => HistTypeOK
  BY ModulusAssumption, MaxIncrementsAssumption
  DEF HistInit, HistTypeOK, IdInit, IdTypeOK, ReqId, IdSteps, NullReqId
<1>2. HistTypeOK /\ [HistNext]_hVars => HistTypeOK'
  <2> SUFFICES ASSUME HistTypeOK, [HistNext]_hVars
               PROVE  HistTypeOK'
    OBVIOUS
  <2> USE DEF HistTypeOK, IdTypeOK, IdStep, IdSteps
  <2>1. ASSUME NEW c \in Callers, HistEnter(c)
        PROVE  HistTypeOK'
    BY <2>1 DEF HistEnter, Enter
  <2>2. ASSUME NEW c \in Callers, HistIncrement(c)
        PROVE  HistTypeOK'
    <3>1. rid' \in ReqId
      BY <2>2, SuccessorResidue, ModulusAssumption
      DEF HistIncrement, Increment, ReqId
    <3>2. increments' \in 0 .. MaxIncrements
      BY <2>2, MaxIncrementsAssumption DEF HistIncrement
    <3> QED
      BY <2>2, <3>1, <3>2 DEF HistIncrement, Increment
  <2>3. ASSUME NEW c \in Callers, HistInner(c)
        PROVE  HistTypeOK'
    BY <2>3, ModulusAssumption DEF HistInner, Renumber, AssertNotNull, ReqId
  <2>4. ASSUME NEW c \in Callers, HistReturn(c)
        PROVE  HistTypeOK'
    BY <2>4 DEF HistReturn, Return
  <2>5. CASE UNCHANGED hVars
    BY <2>5 DEF hVars
  <2> QED
    BY <2>1, <2>2, <2>3, <2>4, <2>5 DEF HistNext
<1> QED
  BY <1>1, <1>2, PTL DEF HistSpec

(***************************************************************************)
(* HistInv is inductive.                                                   *)
(***************************************************************************)
LEMMA HistInvariant == HistSpec => []HistInv
<1>1. HistInit => HistInv
  BY DEF HistInit, HistInv, NotWrapped, IdInit, Inside
<1>2. HistTypeOK /\ HistInv /\ [HistNext]_hVars => HistInv'
  <2> SUFFICES ASSUME HistTypeOK, HistInv, [HistNext]_hVars,
                      increments' < Modulus
               PROVE  NotWrapped'
    BY DEF HistInv
  <2> USE DEF HistTypeOK, IdTypeOK, IdStep, NotWrapped, Inside
  <2>0. NotWrapped
    BY ModulusAssumption, MaxIncrementsAssumption
    DEF HistInv, HistNext, HistEnter, HistIncrement, HistInner, HistReturn, hVars
  <2>1. ASSUME NEW c \in Callers, HistEnter(c)
        PROVE  NotWrapped'
    BY <2>0, <2>1 DEF HistEnter, Enter
  <2>2. ASSUME NEW c \in Callers, HistIncrement(c)
        PROVE  NotWrapped'
    <3>1. rid' = rid + 1 /\ increments' = increments + 1 /\ rid \in Nat
      BY <2>0, <2>2, SuccessorResidue, ModulusAssumption, MaxIncrementsAssumption
      DEF HistIncrement, Increment, ReqId
    <3>2. returned' \subseteq 0 .. rid'
      BY <2>0, <2>2, <3>1 DEF HistIncrement
    <3>3. ASSUME NEW d \in Callers
          PROVE  before'[d] \subseteq 0 .. rid'
                 /\ \A i \in before'[d] : i < rid'
      BY <2>0, <2>2, <3>1 DEF HistIncrement
    <3> QED
      BY <2>0, <3>1, <3>2, <3>3
  <2>3. ASSUME NEW c \in Callers, HistInner(c)
        PROVE  NotWrapped'
    BY <2>0, <2>3 DEF HistInner, Renumber, AssertNotNull
  <2>4. ASSUME NEW c \in Callers, HistReturn(c)
        PROVE  NotWrapped'
    <3>1. rid' = rid /\ rid \in Nat /\ before' = before
      BY <2>4, ModulusAssumption DEF HistReturn, Return, ReqId
    <3>2. returned' = returned \cup {rid}
      BY <2>4 DEF HistReturn, Return
    <3>3. returned' \subseteq 0 .. rid'
      BY <2>0, <3>1, <3>2
    <3>4. increments' = increments
      BY <2>4 DEF HistReturn
    <3>5. ASSUME NEW d \in Callers, Inside(d)'
          PROVE  Inside(d)
      BY <2>4, <3>5 DEF HistReturn, Return
    <3> QED
      BY <2>0, <3>1, <3>3, <3>4, <3>5
  <2>5. CASE UNCHANGED hVars
    BY <2>0, <2>5 DEF hVars
  <2> QED
    BY <2>1, <2>2, <2>3, <2>4, <2>5 DEF HistNext
<1> QED
  BY <1>1, <1>2, HistTypeCorrect, PTL DEF HistSpec

(***************************************************************************)
(* As long as the counter has not wrapped around, a call of NewReqId       *)
(* returns no id that had been returned before the call began, for any     *)
(* number of concurrent callers.                                           *)
(***************************************************************************)
THEOREM OverlapCorrect == HistSpec => []OnlyOverlappingCallsShareIds
<1>1. HistTypeOK /\ HistInv => OnlyOverlappingCallsShareIds
  BY DEF HistTypeOK, IdTypeOK, ReqId, HistInv, NotWrapped,
         OnlyOverlappingCallsShareIds
<1> QED
  BY <1>1, HistTypeCorrect, HistInvariant, PTL
=============================================================================
