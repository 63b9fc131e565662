------------------------------ MODULE Counting ------------------------------
(***************************************************************************)
(* Facts about sequences that grow at one end and shrink at the other, and *)
(* about counting and dividing, that the proofs of the components share.   *)
(***************************************************************************)
EXTENDS Integers, Sequences, FiniteSets, FiniteSetsExt, FiniteSetTheorems,
        SequenceTheorems, WellFoundedInduction, TLAPS

(***************************************************************************)
(* Append: one element more, the others where they were.  (add at the end  *)
(* of sendQueue, a frame handed to the driver, a frame in the ring.)       *)
(***************************************************************************)
LEMMA Grown ==
  ASSUME NEW S, NEW s \in Seq(S), NEW e \in S
  PROVE  /\ Append(s, e) \in Seq(S) /\ Append(s, e) # <<>>
         /\ Len(s) \in Nat
         /\ DOMAIN s = 1 .. Len(s)
         /\ Len(Append(s, e)) = Len(s) + 1
         /\ DOMAIN Append(s, e) = 1 .. Len(s) + 1
         /\ Append(s, e)[Len(s) + 1] = e
         /\ \A i \in 1 .. Len(s) : Append(s, e)[i] = s[i]
  BY AppendProperties, LenProperties

(***************************************************************************)
(* Tail: del at the head of sendQueue.                                     *)
(***************************************************************************)
LEMMA Shrunk ==
  ASSUME NEW S, NEW s \in Seq(S), s # <<>>
  PROVE  /\ Len(s) \in Nat \ {0}
         /\ Head(s) \in S /\ Head(s) = s[1]
         /\ Tail(s) \in Seq(S)
         /\ Len(Tail(s)) = Len(s) - 1
         /\ \A i \in 1 .. Len(s) - 1 : Tail(s)[i] = s[i + 1]
  BY HeadTailProperties, EmptySeq, LenProperties

(***************************************************************************)
(* A set of positions of a sequence is finite, and the position behind the *)
(* end makes it one larger.                                                *)
(***************************************************************************)
LEMMA Counted ==
  ASSUME NEW n \in Nat, NEW X \in SUBSET (1 .. n)
  PROVE  /\ IsFiniteSet(X)
         /\ Cardinality(X) \in Nat
         /\ Cardinality(X \cup {n + 1}) = Cardinality(X) + 1
<1>1. IsFiniteSet(1 .. n)
  BY FS_Interval
<1>2. IsFiniteSet(X)
  BY <1>1, FS_Subset
<1>3. n + 1 \notin X
  OBVIOUS
<1> QED BY <1>2, <1>3, FS_AddElement, FS_CardinalityType

(***************************************************************************)
(* Moving a set of positions up by one does not change how many they are.  *)
(***************************************************************************)
LEMMA Shifted ==
  ASSUME NEW n \in Nat, NEW X \in SUBSET (1 .. n)
  PROVE  Cardinality({i + 1 : i \in X}) = Cardinality(X)
<1> DEFINE Y == {i + 1 : i \in X}
           f == [i \in X |-> i + 1]
<1>1. f \in Bijection(X, Y)
  <2>1. f \in [X -> Y]
    OBVIOUS
  <2>2. \A a, b \in X : f[a] = f[b] => a = b
    OBVIOUS
  <2>3. \A y \in Y : \E a \in X : f[a] = y
    OBVIOUS
  <2> QED BY <2>1, <2>2, <2>3 DEF Bijection, Injection, Surjection, IsInjective
<1>2. ExistsBijection(X, Y)
  BY <1>1 DEF ExistsBijection
<1>3. IsFiniteSet(X)
  BY Counted
<1> HIDE DEF Y
<1>4. Cardinality(Y) = Cardinality(X)
  BY <1>2, <1>3, FS_Bijection
<1> QED BY <1>4 DEF Y

(***************************************************************************)
(* Every set of natural numbers but the empty one has a least member.      *)
(***************************************************************************)
LEMMA LeastNumber ==
  ASSUME NEW S \in SUBSET Nat, S # {}
  PROVE  \E m \in S : \A n \in S : m <= n
<1>1. PICK R : /\ IsWellFoundedOn(R, Nat)
               /\ \A i, j \in Nat : i < j => <<i, j>> \in R
  <2>1. \A i, j \in Nat : i < j => <<i, j>> \in OpToRel(<, Nat)
    BY DEF OpToRel
  <2> QED BY <2>1, NatLessThanWellFounded, Zenon
<1>2. IsWellFoundedOn(R, Nat) /\ S \subseteq Nat
  BY <1>1
<1>3. PICK m \in S : \A n \in S : ~ (<<n, m>> \in R)
  BY <1>2, WFMin, Zenon
<1>4. ASSUME NEW n \in S PROVE m <= n
  <2>1. m \in Nat /\ n \in Nat /\ ~ (n < m)
    BY <1>1, <1>3
  <2> QED BY <2>1
<1> QED BY <1>4

(***************************************************************************)
(* The scan of get_free_page ends at a frame of the zone it goes through.  *)
(***************************************************************************)
LEMMA MinIn == ASSUME NEW S \in SUBSET Nat, S # {} PROVE Min(S) \in S
<1>1. \E x \in S : \A y \in S : x <= y
  BY LeastNumber
<1> QED BY <1>1 DEF Min

(***************************************************************************)
(* A set that fits into a singleton counts one at most.                    *)
(***************************************************************************)
LEMMA AtMostOne ==
  ASSUME NEW S, NEW u, S \subseteq {u}
  PROVE  IsFiniteSet(S) /\ Cardinality(S) \in {0, 1}
<1>1. IsFiniteSet({u}) /\ Cardinality({u}) = 1
  BY FS_Singleton
<1>2. IsFiniteSet(S) /\ Cardinality(S) <= Cardinality({u})
  BY <1>1, FS_Subset
<1>3. Cardinality(S) \in Nat
  BY <1>2, FS_CardinalityType
<1> QED BY <1>1, <1>2, <1>3

(***************************************************************************)
(* Page v in tables of e entries: directory slot v \div e and table entry  *)
(* v % e name it, and the slots keep the order of the pages.               *)
(***************************************************************************)
LEMMA Division ==
  ASSUME NEW v \in Nat, NEW e \in Nat, e > 0
  PROVE  /\ v \div e \in Nat /\ v % e \in 0 .. e - 1
         /\ v = (v \div e) * e + (v % e)
         /\ \A d \in Nat : v < d * e <=> v \div e < d
<1>1. v % e \in 0 .. e - 1
  OBVIOUS
<1>2. v \div e \in Nat
  OBVIOUS
<1>3. v = (v \div e) * e + (v % e)
  <2>1. ASSUME NEW x \in Int, NEW y \in Int, y > 0 PROVE x % y = x - y * (x \div y)
    BY <2>1, Z3
  <2>2. v % e = v - e * (v \div e)
    BY <2>1
  <2> QED BY <1>1, <1>2, <2>2
<1>4. ASSUME NEW d \in Nat PROVE v < d * e <=> v \div e < d
  <2>1. ASSUME NEW a \in Nat, NEW b \in Nat, a >= b PROVE a * e >= b * e
    BY <2>1
  <2>2. v \div e >= d => v >= d * e
    BY <1>1, <1>2, <1>3, <2>1
  <2>3. ASSUME v \div e < d PROVE v < d * e
    <3>1. d >= (v \div e) + 1 /\ (v \div e) + 1 \in Nat
      BY <1>2, <2>3
    <3>2. d * e >= ((v \div e) + 1) * e
      BY <2>1, <3>1
    <3>3. ((v \div e) + 1) * e = (v \div e) * e + e
      BY <1>2
    <3> QED BY <1>1, <1>2, <1>3, <3>2, <3>3
  <2> QED BY <1>2, <2>2, <2>3
<1> QED BY <1>1, <1>2, <1>3, <1>4

\* s agrees with t and then with u.
Follows(s, t, u) ==
    /\ Len(s) = Len(t) + Len(u)
    /\ \A i \in 1 .. Len(t) : s[i] = t[i]
    /\ \A i \in 1 .. Len(u) : s[Len(t) + i] = u[i]

(***************************************************************************)
(* Such a sequence is t followed by u.                                     *)
(***************************************************************************)
LEMMA Joined ==
  ASSUME NEW S, NEW s \in Seq(S), NEW t \in Seq(S), NEW u \in Seq(S), Follows(s, t, u)
  PROVE  s = t \o u
<1> USE DEF Follows
<1>1. /\ t \o u \in Seq(S) /\ Len(t \o u) = Len(t) + Len(u)
      /\ \A i \in 1 .. Len(t) + Len(u) :
             (t \o u)[i] = IF i <= Len(t) THEN t[i] ELSE u[i - Len(t)]
  BY ConcatProperties
<1>2. Len(s) \in Nat /\ Len(t) \in Nat /\ Len(u) \in Nat
  BY LenProperties
<1>3. ASSUME NEW i \in 1 .. Len(s) PROVE s[i] = (t \o u)[i]
  <2>1. CASE i <= Len(t)
    <3>1. i \in 1 .. Len(t)
      BY <1>2, <2>1
    <3> QED BY <1>1, <2>1, <3>1
  <2>2. CASE ~(i <= Len(t))
    <3>1. i - Len(t) \in 1 .. Len(u) /\ Len(t) + (i - Len(t)) = i
      BY <1>2, <2>2
    <3>2. s[i] = u[i - Len(t)]
      BY <3>1
    <3> QED BY <1>1, <2>2, <3>2
  <2> QED BY <2>1, <2>2
<1> QED BY <1>1, <1>3, SeqEqual

=============================================================================
