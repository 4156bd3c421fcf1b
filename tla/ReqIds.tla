------------------------------- MODULE ReqIds -------------------------------
(***************************************************************************)
(* NewReqId() of AsyncClient.h: the generator of request ids.              *)
(*                                                                         *)
(* The ids come from one function-local static std::atomic<int>.  Each     *)
(* access to the atomic is indivisible, the function is not: it increments *)
(* the counter, replaces a 0 by 1 with a compare-and-exchange, reads the   *)
(* counter in an assert and reads it once more in the return statement.    *)
(* Every one of these four accesses is an action.                          *)
(*                                                                         *)
(* An int is represented by its residue modulo Modulus (2^32 in the code): *)
(* std::atomic arithmetic wraps, and 0 comes back after Modulus            *)
(* increments.                                                             *)
(***************************************************************************)
EXTENDS Integers

CONSTANTS Callers,   \* threads that call NewReqId, each any number of times
          Modulus    \* number of values of a ReqId

ASSUME CallersAssumption == Callers # {}
ASSUME ModulusAssumption == Modulus \in Nat /\ Modulus > 2

VARIABLES rid,       \* the static counter of NewReqId
          idpc,      \* where each caller is inside NewReqId
          ids        \* the id last returned to each caller, NullReqId at first

idVars == <<rid, idpc, ids>>

ReqId == 0 .. Modulus - 1

\* "0 is considered a NULL request id"
NullReqId == 0

IdSteps == {"outside", "increment", "renumber", "assert", "return", "aborted"}

IdTypeOK ==
  /\ rid \in ReqId
  /\ idpc \in [Callers -> IdSteps]
  /\ ids \in [Callers -> ReqId]

IdInit ==
  /\ rid = 0
  /\ idpc = [c \in Callers |-> "outside"]
  /\ ids = [c \in Callers |-> NullReqId]

-----------------------------------------------------------------------------

\* A failed assertion ends the process: no thread takes a further step.
IdStep(c, from, to) ==
  /\ \A d \in Callers : idpc[d] # "aborted"
  /\ idpc[c] = from
  /\ idpc' = [idpc EXCEPT ![c] = to]

\* c enters NewReqId; the first statement is still to come.
Enter(c) ==
  /\ IdStep(c, "outside", "increment")
  /\ UNCHANGED <<rid, ids>>

\* Mutant: the increment is a load and a store, and loses a concurrent one.
IncrementNotAtomic(c) ==
  /\ IdStep(c, "increment", "renumber")
  /\ rid' = IF \E d \in Callers : idpc[d] = "renumber"
            THEN rid ELSE (rid + 1) % Modulus
  /\ UNCHANGED ids

\* ++rid
Increment(c) ==
  /\ IdStep(c, "increment", "renumber")
  /\ rid' = (rid + 1) % Modulus
  /\ UNCHANGED ids

\* Mutant: the counter is not restarted at 1 when it comes back to 0.
RenumberNever(c) ==
  /\ IdStep(c, "renumber", "assert")
  /\ UNCHANGED <<rid, ids>>

\* std::atomic_compare_exchange_strong(&rid, &zero, 1)
Renumber(c) ==
  /\ IdStep(c, "renumber", "assert")
  /\ rid' = IF rid = 0 THEN 1 ELSE rid
  /\ UNCHANGED ids

\* assert(rid != ReqId(0)): a failing assertion aborts.
AssertNotNull(c) ==
  /\ IdStep(c, "assert", IF rid # NullReqId THEN "return" ELSE "aborted")
  /\ UNCHANGED <<rid, ids>>

\* return rid
Return(c) ==
  /\ IdStep(c, "return", "outside")
  /\ ids' = [ids EXCEPT ![c] = rid]
  /\ UNCHANGED rid

IdNext ==
  \E c \in Callers :
    Enter(c) \/ Increment(c) \/ Renumber(c) \/ AssertNotNull(c) \/ Return(c)

IdSpec == IdInit /\ [][IdNext]_idVars

-----------------------------------------------------------------------------

Inside(c) == idpc[c] \notin {"outside", "increment"}

(***************************************************************************)
(* The assertion of NewReqId never fails.  Its read of the counter is      *)
(* separate from the compare-and-exchange before it.                       *)
(***************************************************************************)
AssertHolds == \A c \in Callers : idpc[c] # "aborted"

(***************************************************************************)
(* Once an id has been handed out, the counter is 0 only while the thread  *)
(* that brought it there has still to replace the 0 by 1.                  *)
(***************************************************************************)
ZeroIsTransient ==
  rid = 0 => \/ \E c \in Callers : idpc[c] = "renumber"
             \/ \A c \in Callers : ids[c] = NullReqId /\ ~Inside(c)

(***************************************************************************)
(* One thread alone draws 1, 2, ..., Modulus - 1, 1, 2, ...: the null id   *)
(* is skipped at every wrap around, and no other value is.                 *)
(***************************************************************************)
SequentialIds ==
  [][\A c \in Callers :
       ids'[c] # ids[c] => ids'[c] = (ids[c] % (Modulus - 1)) + 1]_idVars
=============================================================================
