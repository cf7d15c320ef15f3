---------------------------- MODULE LeastProofs ----------------------------
(***************************************************************************)
(* The least of a set of natural numbers, which the system calls that give *)
(* a program its lowest free descriptor choose, and the greatest, the last *)
(* entry of a list that counts: there is a least one in every set that is  *)
(* not empty, and a greatest one in every set that has a bound.            *)
(***************************************************************************)
EXTENDS Naturals, FiniteSetsExt, WellFoundedInduction, TLAPS

Smaller == OpToRel(<, Nat)

\* The well-founded relation of the library is the order of the numbers.
LEMMA SmallerIsLess ==
    ASSUME NEW x \in Nat, NEW y \in Nat
    PROVE  <<x, y>> \in Smaller <=> x < y
BY DEF Smaller, OpToRel

\* A set of natural numbers that is not empty has a least element.
LEMMA LeastNatural ==
    ASSUME NEW S \in SUBSET Nat, S # {}
    PROVE  \E x \in S : \A y \in S : x <= y
<1>1. PICK x \in S : \A y \in S : <<y, x>> \notin Smaller
    BY WFMin, NatLessThanWellFounded, Zenon DEF Smaller
<1>2. \A y \in S : ~ (y < x)
    BY <1>1, SmallerIsLess
<1> QED BY <1>2

\* Min finds it, and so whatever takes the lowest of some descriptors gets one
\* of them.
LEMMA MinIsLeast ==
    ASSUME NEW S \in SUBSET Nat, S # {}
    PROVE  Min(S) \in S /\ \A y \in S : Min(S) <= y
<1>1. \E x \in S : \A y \in S : x <= y
    BY LeastNatural
<1> QED BY <1>1, Zenon DEF Min

\* A set of natural numbers that has a bound has a greatest element: the least
\* of its bounds.
LEMMA GreatestNatural ==
    ASSUME NEW S \in SUBSET Nat, S # {}, NEW b \in Nat, \A x \in S : x <= b
    PROVE  \E x \in S : \A y \in S : x >= y
<1> DEFINE Bounds == {k \in Nat : \A x \in S : x <= k}
<1>1. PICK k \in Bounds : \A m \in Bounds : k <= m
    BY LeastNatural
<1>2. ASSUME k \notin S
      PROVE  FALSE
    <2>1. \A x \in S : x <= k - 1
        BY <1>1, <1>2
    <2>2. k - 1 \in Nat
        <3>1. PICK x \in S : TRUE
            OBVIOUS
        <3> QED BY <2>1, <3>1
    <2>3. k - 1 \in Bounds
        BY <2>1, <2>2
    <2> QED BY <1>1, <2>3
<1> QED BY <1>1, <1>2

\* Max finds it.
LEMMA MaxIsGreatest ==
    ASSUME NEW S \in SUBSET Nat, S # {}, NEW b \in Nat, \A x \in S : x <= b
    PROVE  Max(S) \in S /\ \A y \in S : Max(S) >= y
<1>1. \E x \in S : \A y \in S : x >= y
    BY GreatestNatural
<1> QED BY <1>1, Zenon DEF Max
=============================================================================
