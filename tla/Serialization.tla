---------------------------- MODULE Serialization ----------------------------
(***************************************************************************)
(* The serializers of Serialize.h.                                         *)
(*                                                                         *)
(* A byte array is a sequence of cells, which are integers: one for a      *)
(* trivially copyable value (its bytes are copied), one for a size.        *)
(* Pack appends to an array.                                               *)
(* UnPack takes an array, a position, and the object it overwrites; it     *)
(* returns the object and the position after it.  The templates for        *)
(* containers are those of the instances in use: elements and mapped       *)
(* values are strings, keys are numbers.  The loops of the code are        *)
(* recursive functions, for the proofs.                                    *)
(***************************************************************************)
EXTENDS Integers, SequencesExt

Result(obj, next) == [obj |-> obj, next |-> next]

\* SerializePOD
PackPOD(d, buf) == Append(buf, d)
UnPackPOD(buf, i, d) == Result(buf[i], i + 1)

\* SerializeVectorPOD; resize(s) makes room for what is copied.
PackVectorPOD(d, buf) == Append(buf, Len(d)) \o d
UnPackVectorPOD(buf, i, d) ==
  Result(SubSeq(buf, i + 1, i + buf[i]), i + 1 + buf[i])

\* SerializeString: a vector of characters on the way; a new one for UnPack.
PackString(d, buf) == PackVectorPOD(d, buf)
UnPackString(buf, i, d) == UnPackVectorPOD(buf, i, <<>>)

\* SerializeVector
PackVector(d, buf) ==
  LET b[k \in 0 .. Len(d)] ==
        IF k = 0 THEN Append(buf, Len(d)) ELSE PackString(d[k], b[k - 1])
  IN b[Len(d)]

\* It appends to what the vector holds; each element begins as T data.
UnPackVector(buf, i, d) ==
  LET r[k \in 0 .. buf[i]] ==
        IF k = 0 THEN Result(d, i + 1)
        ELSE LET e == UnPackString(buf, r[k - 1].next, <<>>)
             IN  Result(Append(r[k - 1].obj, e.obj), e.next)
  IN r[buf[i]]

\* SerializeMap: in the order of the keys.
Keys(m) ==
  CHOOSE s \in [1 .. Cardinality(DOMAIN m) -> DOMAIN m] :
    \A i, j \in DOMAIN s : i < j => s[i] < s[j]
PackMap(m, buf) ==
  LET b[k \in 0 .. Cardinality(DOMAIN m)] ==
        IF k = 0 THEN PackPOD(Cardinality(DOMAIN m), buf)
        ELSE PackString(m[Keys(m)[k]], PackPOD(Keys(m)[k], b[k - 1]))
  IN b[Cardinality(DOMAIN m)]

\* Mutant: an entry replaces the one that is there.
Assign(m, k, v) == [q \in DOMAIN m \cup {k} |-> IF q = k THEN v ELSE m[q]]

\* insert keeps the entry that is there.
Insert(m, k, v) == [q \in DOMAIN m \cup {k} |-> IF q \in DOMAIN m THEN m[q] ELSE v]

UnPackMap(buf, i, d) ==
  LET size == UnPackPOD(buf, i, 0)
      r[n \in 0 .. size.obj] ==
        IF n = 0 THEN Result(d, size.next)
        ELSE LET k == UnPackPOD(buf, r[n - 1].next, 0)
                 v == UnPackString(buf, k.next, <<>>)
             IN  Result(Insert(r[n - 1].obj, k.obj, v.obj), v.next)
  IN r[size.obj]

-----------------------------------------------------------------------------

(***************************************************************************)
(* GetSerializer, for the types that the tests and RMI use: int, string,   *)
(* vector<int>, vector<string>, map<int, string>.                          *)
(***************************************************************************)
Types == {"int", "string", "ints", "strings", "map"}

\* The values of a type; cells are integers.
IsValue(t, d) ==
  CASE t = "int" -> d \in Int
    [] t \in {"ints", "string"} -> d \in Seq(Int)
    [] t = "strings" -> d \in Seq(Seq(Int))
    [] t = "map" -> /\ IsFiniteSet(DOMAIN d) /\ DOMAIN d \subseteq Int
                    /\ d = [k \in DOMAIN d |-> d[k]]
                    /\ \A k \in DOMAIN d : d[k] \in Seq(Int)

Fresh(t) == IF t = "int" THEN 0 ELSE <<>>

Pack(t, d, buf) ==
  CASE t = "int" -> PackPOD(d, buf)
    [] t = "ints" -> PackVectorPOD(d, buf)
    [] t = "string" -> PackString(d, buf)
    [] t = "strings" -> PackVector(d, buf)
    [] t = "map" -> PackMap(d, buf)

UnPack(t, buf, i, d) ==
  CASE t = "int" -> UnPackPOD(buf, i, d)
    [] t = "ints" -> UnPackVectorPOD(buf, i, d)
    [] t = "string" -> UnPackString(buf, i, d)
    [] t = "strings" -> UnPackVector(buf, i, d)
    [] t = "map" -> UnPackMap(buf, i, d)

\* Pack(ba, args...): args are pairs of a type and a value.
PackAll(buf, args) ==
  LET b[k \in 0 .. Len(args)] ==
        IF k = 0 THEN buf ELSE Pack(args[k].type, args[k].value, b[k - 1])
  IN b[Len(args)]

\* UnPackTuple: one after the other, each into a new object.
UnPackTuple(types, buf, i) ==
  LET r[k \in 0 .. Len(types)] ==
        IF k = 0 THEN Result(<<>>, i)
        ELSE LET e == UnPack(types[k], buf, r[k - 1].next, Fresh(types[k]))
             IN  Result(Append(r[k - 1].obj, e.obj), e.next)
  IN r[Len(types)]
=============================================================================
