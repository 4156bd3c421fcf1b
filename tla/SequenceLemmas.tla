--------------------------- MODULE SequenceLemmas ---------------------------
(***************************************************************************)
(* Lemmas of several proofs: about sequences of messages, for the streams, *)
(* and about recursive functions and sequences of data, for serialization. *)
(***************************************************************************)
EXTENDS Integers, Sequences, FiniteSetTheorems, SequenceTheorems,
        WellFoundedInduction, TLAPS

-----------------------------------------------------------------------------
(* Messages that are numbered from 1, with the empty message 0 anywhere    *)
(* between them.                                                           *)

(***************************************************************************)
(* What a sequence of messages contains, and that it is in order.          *)
(***************************************************************************)
Has(s, m) == \E i \in DOMAIN s : s[i] = m

Ascending(s) ==
  \A i, j \in DOMAIN s : i < j /\ s[i] # 0 /\ s[j] # 0 => s[i] < s[j]

LEMMA ElementType ==
  ASSUME NEW n \in Nat, NEW s \in Seq(0 .. n), NEW m, Has(s, m)
  PROVE  m \in 0 .. n
BY DEF Has

(***************************************************************************)
(* Append adds a message, in order if it is above the others.              *)
(***************************************************************************)
LEMMA AppendElements ==
  ASSUME NEW n \in Nat, NEW s \in Seq(0 .. n), NEW e \in 0 .. n
  PROVE  /\ \A m : Has(Append(s, e), m) <=> Has(s, m) \/ m = e
         /\ /\ Ascending(s)
            /\ e = 0 \/ \A m \in 1 .. n : Has(s, m) => m < e
            => Ascending(Append(s, e))
<1>1. /\ DOMAIN s = 1 .. Len(s) /\ Len(s) \in Nat
      /\ DOMAIN Append(s, e) = 1 .. Len(s) + 1
      /\ \A i \in 1 .. Len(s) : Append(s, e)[i] = s[i]
      /\ Append(s, e)[Len(s) + 1] = e
  OBVIOUS
<1>2. ASSUME NEW m
      PROVE  Has(Append(s, e), m) <=> Has(s, m) \/ m = e
  <2>1. Has(s, m) => Has(Append(s, e), m)
    BY <1>1 DEF Has
  <2>2. m = e => Has(Append(s, e), m)
    <3>1. Len(s) + 1 \in DOMAIN Append(s, e)
      BY <1>1
    <3> QED
      BY <1>1, <3>1 DEF Has
  <2>3. Has(Append(s, e), m) => Has(s, m) \/ m = e
    <3> SUFFICES ASSUME NEW i \in DOMAIN Append(s, e), Append(s, e)[i] = m
                 PROVE  Has(s, m) \/ m = e
      BY DEF Has
    <3>1. i \in 1 .. Len(s) \/ i = Len(s) + 1
      BY <1>1
    <3> QED
      BY <1>1, <3>1 DEF Has
  <2> QED
    BY <2>1, <2>2, <2>3
<1>3. ASSUME Ascending(s), e = 0 \/ \A m \in 1 .. n : Has(s, m) => m < e
      PROVE  Ascending(Append(s, e))
  <2> DEFINE t == Append(s, e)
  <2> SUFFICES ASSUME NEW i \in DOMAIN t, NEW j \in DOMAIN t,
                      i < j, t[i] # 0, t[j] # 0
               PROVE  t[i] < t[j]
    BY DEF Ascending
  <2>1. i \in 1 .. Len(s) /\ (j \in 1 .. Len(s) \/ j = Len(s) + 1)
    BY <1>1
  <2>2. CASE j \in 1 .. Len(s)
    BY <1>1, <1>3, <2>1, <2>2 DEF Ascending
  <2>3. CASE j = Len(s) + 1
    <3>1. t[j] = e /\ t[i] = s[i] /\ s[i] \in 1 .. n /\ Has(s, s[i])
      BY <1>1, <2>1, <2>3 DEF Has
    <3> QED
      BY <1>3, <3>1
  <2> QED
    BY <2>1, <2>2, <2>3
<1> QED
  BY <1>2, <1>3

(***************************************************************************)
(* Head and Tail split a sequence; in order, the head is below the tail.   *)
(***************************************************************************)
LEMMA TailElements ==
  ASSUME NEW n \in Nat, NEW s \in Seq(0 .. n), s # <<>>
  PROVE  /\ \A m : Has(s, m) <=> Has(Tail(s), m) \/ m = Head(s)
         /\ Ascending(s) =>
              /\ Ascending(Tail(s))
              /\ Head(s) # 0 => \A m \in 1 .. n : Has(Tail(s), m) => Head(s) < m
<1>1. /\ DOMAIN s = 1 .. Len(s) /\ Len(s) \in Nat \ {0}
      /\ DOMAIN Tail(s) = 1 .. Len(s) - 1
      /\ \A i \in 1 .. Len(s) - 1 : Tail(s)[i] = s[i + 1]
      /\ Head(s) = s[1]
  OBVIOUS
<1>2. ASSUME NEW m
      PROVE  Has(s, m) <=> Has(Tail(s), m) \/ m = Head(s)
  <2>1. Has(Tail(s), m) \/ m = Head(s) => Has(s, m)
    BY <1>1 DEF Has
  <2>2. ASSUME NEW i \in DOMAIN s, s[i] = m
        PROVE  Has(Tail(s), m) \/ m = Head(s)
    <3>1. i = 1 \/ (i - 1 \in DOMAIN Tail(s) /\ Tail(s)[i - 1] = s[i])
      BY <1>1
    <3> QED
      BY <1>1, <2>2, <3>1 DEF Has
  <2> QED
    BY <2>1, <2>2 DEF Has
<1>3. Ascending(s) => Ascending(Tail(s))
  BY <1>1 DEF Ascending
<1>4. ASSUME Ascending(s), Head(s) # 0, NEW m \in 1 .. n, Has(Tail(s), m)
      PROVE  Head(s) < m
  BY <1>1, <1>4 DEF Ascending, Has
<1> QED
  BY <1>2, <1>3, <1>4

-----------------------------------------------------------------------------
(* Recursive functions, and sequences of anything. *)

(***************************************************************************)
(* Induction with sets in place of predicates: every set of numbers that   *)
(* is not empty has a least element.                                       *)
(***************************************************************************)
LEMMA LeastNumber ==
  ASSUME NEW T, T \subseteq Nat, T # {}
  PROVE  \E x \in T : \A y \in T : ~(y < x)
<1>1. \E x \in T : \A y \in T : <<y, x>> \notin OpToRel(<, Nat)
  BY NatLessThanWellFounded, WFMin, Zenon
<1>2. \A x, y \in Nat : <<y, x>> \in OpToRel(<, Nat) <=> y < x
  BY Zenon DEF OpToRel
<1> QED
  BY <1>1, <1>2

\* A set of numbers with 0 and the successor of each is all of them.
LEMMA Induction ==
  ASSUME NEW S, 0 \in S, \A n \in Nat : n \in S => n + 1 \in S
  PROVE  \A n \in Nat : n \in S
<1> SUFFICES ASSUME NEW m \in Nat, m \notin S PROVE FALSE
  OBVIOUS
<1>1. PICK x \in Nat \ S : \A y \in Nat \ S : ~(y < x)
  BY LeastNumber
<1> QED
  BY <1>1, x - 1 \in Nat

(***************************************************************************)
(* A function that is defined by recursion exists: b at 0, then what G[k]  *)
(* makes of the value before.                                              *)
(***************************************************************************)
IsRecursion(f, n, b, G) == f = [k \in 0 .. n |-> IF k = 0 THEN b ELSE G[k][f[k - 1]]]

\* Recursion over 0 .. n has a solution, with values in V.
LEMMA RecursionExists ==
  ASSUME NEW V, NEW n \in Nat, NEW b \in V, NEW G \in [1 .. n -> [V -> V]]
  PROVE  \E f \in [0 .. n -> V] : IsRecursion(f, n, b, G)
<1> USE DEF IsRecursion
<1> DEFINE Solves(f, m) == /\ f \in [0 .. m -> V] /\ f[0] = b
                           /\ \A k \in 1 .. m : f[k] = G[k][f[k - 1]]
           S == {m \in Nat : m <= n => \E f : Solves(f, m)}
<1>1. 0 \in S
  <2>1. Solves([k \in 0 .. 0 |-> b], 0)
    OBVIOUS
  <2> QED
    BY <2>1
<1>2. ASSUME NEW m \in Nat, m \in S
      PROVE  m + 1 \in S
  <2> SUFFICES ASSUME m + 1 <= n
               PROVE  \E f : Solves(f, m + 1)
    OBVIOUS
  <2>1. PICK f : Solves(f, m)
    BY <1>2
  <2> DEFINE g == [k \in 0 .. m + 1 |-> IF k = m + 1 THEN G[m + 1][f[m]] ELSE f[k]]
  <2>2. g \in [0 .. m + 1 -> V]
    <3>1. G[m + 1] \in [V -> V] /\ f[m] \in V
      BY <2>1
    <3>2. G[m + 1][f[m]] \in V
      BY <3>1
    <3> QED
      BY <2>1, <3>2
  <2>3. g[0] = b
    BY <2>1
  <2>4. ASSUME NEW k \in 1 .. m + 1
        PROVE  g[k] = G[k][g[k - 1]]
    <3>1. g[k - 1] = f[k - 1]
      OBVIOUS
    <3> QED
      BY <2>1, <3>1
  <2>5. Solves(g, m + 1)
    BY <2>2, <2>3, <2>4
  <2> QED
    BY <2>5
<1>3. n \in S
  <2> HIDE DEF S
  <2> QED
    BY <1>1, <1>2, Induction
<1>4. PICK f : Solves(f, n)
  BY <1>3
<1>5. f = [k \in 0 .. n |-> IF k = 0 THEN b ELSE G[k][f[k - 1]]]
  BY <1>4
<1> QED
  BY <1>4, <1>5

(***************************************************************************)
(* Two functions that begin and step alike are alike.                      *)
(***************************************************************************)
StepsAgree(r, e, n) == r[0] = e[0] /\ \A k \in 1 .. n : r[k - 1] = e[k - 1] => r[k] = e[k]

Agree(r, e, n) == \A k \in 0 .. n : r[k] = e[k]

\* By induction over the steps.
LEMMA SameSteps ==
  ASSUME NEW n \in Nat, NEW r, NEW e, StepsAgree(r, e, n)
  PROVE  Agree(r, e, n)
<1> USE DEF StepsAgree, Agree
<1> DEFINE S == {k \in Nat : k <= n => r[k] = e[k]}
<1>1. 0 \in S
  OBVIOUS
<1>2. ASSUME NEW m \in Nat, m \in S
      PROVE  m + 1 \in S
  <2> SUFFICES ASSUME m + 1 <= n PROVE r[m + 1] = e[m + 1]
    OBVIOUS
  <2>1. m + 1 \in 1 .. n /\ (m + 1) - 1 = m /\ r[m] = e[m]
    BY <1>2
  <2> QED
    BY <2>1
<1>3. \A m \in Nat : m \in S
  <2> HIDE DEF S
  <2> QED
    BY <1>1, <1>2, Induction
<1> QED
  BY <1>3

(***************************************************************************)
(* Elements of sequences that are appended, joined and cut off.            *)
(***************************************************************************)
LEMMA Appending ==
  ASSUME NEW S, NEW a \in Seq(S), NEW e \in S
  PROVE  /\ Append(a, e) \in Seq(S) /\ Len(Append(a, e)) = Len(a) + 1
         /\ Append(a, e)[Len(a) + 1] = e
         /\ \A i \in 1 .. Len(a) : Append(a, e)[i] = a[i]
OBVIOUS

\* What the concatenation of two sequences contains.
LEMMA Concatenation ==
  ASSUME NEW S, NEW a \in Seq(S), NEW b \in Seq(S)
  PROVE  /\ a \o b \in Seq(S) /\ Len(a \o b) = Len(a) + Len(b)
         /\ \A i \in 1 .. Len(a) : (a \o b)[i] = a[i]
         /\ \A i \in 1 .. Len(b) : (a \o b)[Len(a) + i] = b[i]
<1>1. Len(a) \in Nat /\ Len(b) \in Nat
  OBVIOUS
<1>2. /\ a \o b \in Seq(S) /\ Len(a \o b) = Len(a) + Len(b)
      /\ \A i \in 1 .. Len(a) + Len(b) :
           (a \o b)[i] = IF i <= Len(a) THEN a[i] ELSE b[i - Len(a)]
  BY ConcatProperties
<1>3. ASSUME NEW i \in 1 .. Len(a)
      PROVE  (a \o b)[i] = a[i]
  <2>1. i \in 1 .. Len(a) + Len(b) /\ i <= Len(a)
    BY <1>1
  <2> QED
    BY <1>2, <2>1
<1>4. ASSUME NEW i \in 1 .. Len(b)
      PROVE  (a \o b)[Len(a) + i] = b[i]
  <2>1. Len(a) + i \in 1 .. Len(a) + Len(b) /\ ~(Len(a) + i <= Len(a)) /\ (Len(a) + i) - Len(a) = i
    BY <1>1
  <2> QED
    BY <1>2, <2>1
<1> QED
  BY <1>2, <1>3, <1>4

\* Prefixes grow by one element, from the empty sequence to all of it.
LEMMA PrefixFacts ==
  ASSUME NEW S, NEW d \in Seq(S)
  PROVE  /\ SubSeq(d, 1, 0) = <<>> /\ SubSeq(d, 1, Len(d)) = d
         /\ \A k \in 1 .. Len(d) : SubSeq(d, 1, k) = Append(SubSeq(d, 1, k - 1), d[k])
         /\ \A k \in 0 .. Len(d) : SubSeq(d, 1, k) \in Seq(S) /\ Len(SubSeq(d, 1, k)) = k
                                   /\ \A i \in 1 .. k : SubSeq(d, 1, k)[i] = d[i]
<1>1. Len(d) \in Nat /\ \A i \in 1 .. Len(d) : d[i] \in S
  OBVIOUS
<1>2. SubSeq(d, 1, 0) = <<>> /\ SubSeq(d, 1, Len(d)) = d
  BY SubSeqEmpty, SubSeqFull
<1>3. ASSUME NEW k \in 0 .. Len(d)
      PROVE  SubSeq(d, 1, k) \in Seq(S) /\ Len(SubSeq(d, 1, k)) = k
             /\ \A i \in 1 .. k : SubSeq(d, 1, k)[i] = d[i]
  <2>1. \A i \in 1 .. k : d[i] \in S
    BY <1>1
  <2>2. /\ SubSeq(d, 1, k) \in Seq(S)
        /\ Len(SubSeq(d, 1, k)) = IF 1 <= k THEN k - 1 + 1 ELSE 0
        /\ \A i \in 1 .. k - 1 + 1 : SubSeq(d, 1, k)[i] = d[1 + i - 1]
    BY <2>1, SubSeqProperties, 1 \in Int, k \in Int
  <2>3. k - 1 + 1 = k /\ \A i \in 1 .. k : 1 + i - 1 = i
    BY <1>1
  <2> QED
    BY <1>1, <2>2, <2>3
<1>4. ASSUME NEW k \in 1 .. Len(d)
      PROVE  SubSeq(d, 1, k) = Append(SubSeq(d, 1, k - 1), d[k])
  <2>1. k \in 0 .. Len(d) /\ k - 1 \in 0 .. Len(d) /\ d[k] \in S /\ (k - 1) + 1 = k
    BY <1>1
  <2>2. PICK s \in Seq(S) : s = SubSeq(d, 1, k - 1) /\ Len(s) = k - 1
                            /\ \A i \in 1 .. k - 1 : s[i] = d[i]
    BY <2>1, <1>3
  <2>3. /\ Append(s, d[k]) \in Seq(S) /\ Len(Append(s, d[k])) = k /\ Append(s, d[k])[k] = d[k]
        /\ \A i \in 1 .. k - 1 : Append(s, d[k])[i] = d[i]
    <3>1. /\ Append(s, d[k]) \in Seq(S) /\ Len(Append(s, d[k])) = Len(s) + 1
          /\ Append(s, d[k])[Len(s) + 1] = d[k]
          /\ \A i \in 1 .. Len(s) : Append(s, d[k])[i] = s[i]
      BY <2>1, Appending
    <3> QED
      BY <2>1, <2>2, <3>1
  <2>4. \A i \in 1 .. k : i = k \/ i \in 1 .. k - 1
    BY <1>1
  <2>5. \A i \in 1 .. k : Append(s, d[k])[i] = SubSeq(d, 1, k)[i]
    BY <2>1, <2>3, <2>4, <1>3
  <2> QED
    BY <2>1, <2>2, <2>3, <2>5, <1>3, SeqEqual
<1> QED
  BY <1>2, <1>3, <1>4

\* To append a prefix is to append its elements.
LEMMA Extending ==
  ASSUME NEW S, NEW x \in Seq(S), NEW d \in Seq(S), NEW k \in 1 .. Len(d)
  PROVE  Append(x \o SubSeq(d, 1, k - 1), d[k]) = x \o SubSeq(d, 1, k)
<1>1. k - 1 \in 0 .. Len(d) /\ d[k] \in S
  OBVIOUS
<1>2. SubSeq(d, 1, k - 1) \in Seq(S)
  BY <1>1, PrefixFacts, Zenon
<1>3. <<d[k]>> \in Seq(S) /\ x \o SubSeq(d, 1, k - 1) \in Seq(S)
  BY <1>1, <1>2, ConcatProperties
<1>4. SubSeq(d, 1, k) = SubSeq(d, 1, k - 1) \o <<d[k]>>
  <2>1. SubSeq(d, 1, k) = Append(SubSeq(d, 1, k - 1), d[k])
    BY PrefixFacts, Zenon
  <2>2. Append(SubSeq(d, 1, k - 1), d[k]) = SubSeq(d, 1, k - 1) \o <<d[k]>>
    BY <1>1, <1>2, AppendIsConcat, Zenon
  <2> QED
    BY <2>1, <2>2, Zenon
<1>5. Append(x \o SubSeq(d, 1, k - 1), d[k]) = (x \o SubSeq(d, 1, k - 1)) \o <<d[k]>>
  BY <1>1, <1>3, AppendIsConcat, Zenon
<1>6. (x \o SubSeq(d, 1, k - 1)) \o <<d[k]>> = x \o (SubSeq(d, 1, k - 1) \o <<d[k]>>)
  <2>1. PICK p \in Seq(S), q \in Seq(S) : p = SubSeq(d, 1, k - 1) /\ q = <<d[k]>>
    BY <1>2, <1>3, Zenon
  <2>2. (x \o p) \o q = x \o (p \o q)
    BY SMT
  <2> QED
    BY <2>1, <2>2, Zenon
<1> QED
  BY <1>4, <1>5, <1>6, Zenon

\* The shortest and the longest prefix, appended.
LEMMA NothingAndAll ==
  ASSUME NEW S, NEW x \in Seq(S), NEW d \in Seq(S)
  PROVE  x \o SubSeq(d, 1, 0) = x /\ x \o SubSeq(d, 1, Len(d)) = x \o d
<1>1. SubSeq(d, 1, 0) = <<>> /\ SubSeq(d, 1, Len(d)) = d
  BY PrefixFacts, Zenon
<1>2. x \o <<>> = x
  BY ConcatEmptySeq, Zenon
<1> QED
  BY <1>1, <1>2, Zenon

(***************************************************************************)
(* A finite set of integers has a greatest element, so it can be           *)
(* enumerated in ascending order.                                          *)
(***************************************************************************)
LEMMA MaximumExists ==
  \A n \in Nat : \A T : T \subseteq Int /\ T # {} /\ IsFiniteSet(T) /\ Cardinality(T) = n
                          => \E m \in T : \A x \in T : x <= m
<1> DEFINE HasMaximum(T) == \E m \in T : \A x \in T : x <= m
           S == {n \in Nat : \A T : T \subseteq Int /\ T # {} /\ IsFiniteSet(T) /\ Cardinality(T) = n
                                      => HasMaximum(T)}
<1>1. 0 \in S
  BY FS_EmptySet
<1>2. ASSUME NEW n \in Nat, n \in S
      PROVE  n + 1 \in S
  <2> SUFFICES ASSUME NEW T, T \subseteq Int, T # {}, IsFiniteSet(T), Cardinality(T) = n + 1
               PROVE  HasMaximum(T)
    OBVIOUS
  <2>1. PICK e : e \in T /\ e \in Int
    OBVIOUS
  <2>2. IsFiniteSet(T \ {e}) /\ Cardinality(T \ {e}) = n
    BY <2>1, FS_RemoveElement
  <2>3. CASE T \ {e} = {}
    BY <2>1, <2>3
  <2>4. CASE T \ {e} # {}
    <3>1. PICK m \in T \ {e} : \A x \in T \ {e} : x <= m
      BY <1>2, <2>2, <2>4, T \ {e} \subseteq Int
    <3>2. m \in Int /\ e \in Int
      BY <2>1
    <3>3. CASE m <= e
      <4>1. \A x \in T : x <= e
        BY <2>1, <3>1, <3>2, <3>3
      <4> QED
        BY <2>1, <4>1
    <3>4. CASE e < m
      <4>1. \A x \in T : x <= m
        BY <2>1, <3>1, <3>2, <3>4
      <4> QED
        BY <3>1, <4>1
    <3> QED
      BY <3>2, <3>3, <3>4
  <2> QED
    BY <2>3, <2>4
<1>3. \A n \in Nat : n \in S
  <2> HIDE DEF S
  <2> QED
    BY <1>1, <1>2, Induction
<1> QED
  BY <1>3

\* Ascending order of the first n elements.
Ascends(s, n) == \A i, j \in 1 .. n : i < j => s[i] < s[j]

\* By induction over the size: the greatest element comes last.
LEMMA EnumerationExists ==
  \A n \in Nat : \A T : T \subseteq Int /\ IsFiniteSet(T) /\ Cardinality(T) = n
                          => \E s \in [1 .. n -> T] : Ascends(s, n)
<1> DEFINE S == {n \in Nat : \A T : T \subseteq Int /\ IsFiniteSet(T) /\ Cardinality(T) = n
                                      => \E s \in [1 .. n -> T] : Ascends(s, n)}
<1>1. 0 \in S
  <2> SUFFICES ASSUME NEW T, T \subseteq Int, IsFiniteSet(T), Cardinality(T) = 0
               PROVE  \E s \in [1 .. 0 -> T] : Ascends(s, 0)
    OBVIOUS
  <2>1. T = {} /\ 1 .. 0 = {}
    BY FS_EmptySet
  <2> DEFINE s == [k \in 1 .. 0 |-> 0]
  <2>2. s \in [1 .. 0 -> T] /\ Ascends(s, 0)
    BY <2>1 DEF Ascends
  <2> QED
    BY <2>2
<1>2. ASSUME NEW n \in Nat, n \in S
      PROVE  n + 1 \in S
  <2> SUFFICES ASSUME NEW T, T \subseteq Int, IsFiniteSet(T), Cardinality(T) = n + 1
               PROVE  \E s \in [1 .. n + 1 -> T] : Ascends(s, n + 1)
    OBVIOUS
  <2>1. T # {}
    BY FS_EmptySet
  <2>2. PICK m \in T : \A x \in T : x <= m
    BY <2>1, n + 1 \in Nat, MaximumExists
  <2>3. IsFiniteSet(T \ {m}) /\ Cardinality(T \ {m}) = n
    BY <2>2, FS_RemoveElement
  <2>4. PICK s \in [1 .. n -> T \ {m}] : Ascends(s, n)
    BY <1>2, <2>3, T \ {m} \subseteq Int
  <2> DEFINE z == [k \in 1 .. n + 1 |-> IF k = n + 1 THEN m ELSE s[k]]
  <2>5. \A k \in 1 .. n : z[k] = s[k] /\ z[k] \in Int /\ z[k] < m
    <3>1. \A k \in 1 .. n : s[k] \in T /\ s[k] # m /\ s[k] \in Int /\ s[k] <= m /\ m \in Int
      BY <2>2
    <3>2. \A k \in 1 .. n : k \in 1 .. n + 1 /\ k # n + 1
      OBVIOUS
    <3> QED
      BY <3>1, <3>2
  <2>6. z[n + 1] = m
    OBVIOUS
  <2>7. z \in [1 .. n + 1 -> T]
    OBVIOUS
  <2>8. ASSUME NEW i \in 1 .. n + 1, NEW j \in 1 .. n + 1, i < j
        PROVE  z[i] < z[j]
    <3>1. i \in 1 .. n
      BY <2>8
    <3>2. CASE j = n + 1
      BY <2>5, <2>6, <3>1, <3>2
    <3>3. CASE j # n + 1
      <4>1. j \in 1 .. n
        BY <3>3
      <4>2. s[i] < s[j]
        BY <2>4, <2>8, <3>1, <4>1 DEF Ascends
      <4> QED
        BY <2>5, <3>1, <4>1, <4>2
    <3> QED
      BY <3>2, <3>3
  <2> HIDE DEF z
  <2>9. Ascends(z, n + 1)
    BY <2>8 DEF Ascends
  <2> QED
    BY <2>7, <2>9
<1>3. \A n \in Nat : n \in S
  <2> HIDE DEF S
  <2> QED
    BY <1>1, <1>2, Induction
<1> QED
  BY <1>3
=============================================================================
