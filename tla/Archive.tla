------------------------------- MODULE Archive -------------------------------
(***************************************************************************)
(* A program that packs values into a byte array and unpacks them from it, *)
(* in the same order, as the usage comments of Serialize.h have it: all of *)
(* them at once into a tuple, or one by one, each into a new object or     *)
(* into one that it has used before.                                       *)
(***************************************************************************)
EXTENDS Serialization

CONSTANTS
  Items,    \* what can be packed: records of a type and a value
  MaxItems  \* bound: values in the array

ASSUME ArchiveAssumption ==
  /\ \A a \in Items : /\ a = [type |-> a.type, value |-> a.value]
                      /\ a.type \in Types /\ IsValue(a.type, a.value)
  /\ MaxItems \in Nat

VARIABLES
  archive,  \* the array
  packed,   \* what was packed into it
  iter,     \* where the program reads
  taken,    \* which objects the items read went into: TRUE for used ones
  object,   \* one object of each type that is used again
  latest    \* the object unpacked last

archiveVars == <<archive, packed, iter, taken, object, latest>>

ArchiveInit ==
  /\ archive = <<>> /\ packed = <<>> /\ iter = 1 /\ taken = <<>>
  /\ object = [t \in Types |-> Fresh(t)]
  /\ latest = [type |-> "none", value |-> <<>>]

\* Pack(std::move(archive), value)
PackItem(a) ==
  /\ Len(packed) < MaxItems /\ taken = <<>>
  /\ packed' = Append(packed, a)
  /\ archive' = Pack(a.type, a.value, archive)
  /\ UNCHANGED <<iter, taken, object, latest>>

\* iter = UnPack(iter, object), with a new object or a used one.
UnPackItem(used) ==
  /\ Len(taken) < Len(packed)
  /\ LET t == packed[Len(taken) + 1].type
         r == UnPack(t, archive, iter, IF used THEN object[t] ELSE Fresh(t))
     IN /\ iter' = r.next
        /\ latest' = [type |-> t, value |-> r.obj]
        /\ object' = IF used THEN [object EXCEPT ![t] = r.obj] ELSE object
  /\ taken' = Append(taken, used)
  /\ UNCHANGED <<archive, packed>>

ArchiveNext ==
  \/ \E a \in Items : PackItem(a)
  \/ \E used \in BOOLEAN : UnPackItem(used)

ArchiveSpec == ArchiveInit /\ [][ArchiveNext]_archiveVars

-----------------------------------------------------------------------------

\* The values read into the used object of a type, in order.
Uses(t) ==
  LET u[n \in 0 .. Len(taken)] ==
        IF n = 0 THEN <<>>
        ELSE IF taken[n] /\ packed[n].type = t THEN Append(u[n - 1], packed[n].value)
        ELSE u[n - 1]
  IN u[Len(taken)]

\* What an object that has read these values holds: a map the first value of
\* each key, a vector of strings all there were, others the last value.
Holds(t, seen) ==
  IF seen = <<>> THEN Fresh(t)
  ELSE CASE t = "map" ->
              [k \in UNION {DOMAIN seen[n] : n \in DOMAIN seen} |->
                 LET first == CHOOSE n \in DOMAIN seen :
                                /\ k \in DOMAIN seen[n]
                                /\ \A j \in 1 .. n - 1 : k \notin DOMAIN seen[j]
                 IN seen[first][k]]
         [] t = "strings" -> FlattenSeq(seen)
         [] OTHER -> seen[Len(seen)]

Held(t) == Holds(t, Uses(t))

(***************************************************************************)
(* What is unpacked is what was packed: into a tuple, and one by one into  *)
(* new objects.  Objects that are used again hold what Held says: vectors  *)
(* of other than trivial types grow, and maps keep their old entries.  The *)
(* iterator is always at the beginning of a value.                         *)
(***************************************************************************)
UnpackedIsPacked ==
  LET types == [n \in DOMAIN packed |-> packed[n].type]
      n == Len(taken)
  IN /\ UnPackTuple(types, archive, 1) =
          Result([k \in DOMAIN packed |-> packed[k].value], Len(archive) + 1)
     /\ n > 0 /\ ~taken[n] => latest = packed[n]
     /\ \A t \in Types : object[t] = Held(t)
     /\ SubSeq(archive, 1, iter - 1) = PackAll(<<>>, SubSeq(packed, 1, n))
=============================================================================
