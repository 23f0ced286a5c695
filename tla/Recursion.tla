----------------------------- MODULE Recursion ------------------------------
(***************************************************************************)
(* Induction over the natural numbers and the existence of recursively     *)
(* defined functions, for the proofs about code that loops over its input. *)
(* The statements take sets and functions instead of operators, so that    *)
(* they can be cited by the proofs about the models.                       *)
(***************************************************************************)
EXTENDS Integers, WellFoundedInduction, TLAPS

\* A nonempty set of numbers has a least one.
LEMMA LeastNumber ==
  ASSUME NEW T, T \subseteq Nat, T # {}
  PROVE  \E m \in T : \A k \in T : m <= k
<1> DEFINE R == OpToRel(<, Nat)
<1>1. IsWellFoundedOn(R, Nat)
  BY NatLessThanWellFounded
<1>2. \A x, y \in Nat : <<x, y>> \in R <=> x < y
  BY DEF OpToRel
<1> HIDE DEF R
<1>3. PICK m \in T : \A k \in T : ~(<<k, m>> \in R)
  BY <1>1, WFMin
<1>4. \A k \in T : k \in Nat /\ m \in Nat
  OBVIOUS
<1>5. \A k \in T : ~(k < m)
  BY <1>2, <1>3, <1>4
<1>6. \A k \in T : m <= k
  BY <1>4, <1>5
<1> QED
  BY <1>6

\* Induction up to n: a set that holds 0, and k whenever it holds k - 1.
LEMMA SetInduction ==
  ASSUME NEW n \in Nat, NEW G, 0 \in G, \A k \in 1 .. n : k - 1 \in G => k \in G
  PROVE  0 .. n \subseteq G
<1> DEFINE T == (0 .. n) \ G
<1> SUFFICES ASSUME T # {} PROVE FALSE
  OBVIOUS
<1>0. T \subseteq Nat
  OBVIOUS
<1>1. PICK m \in T : \A k \in T : m <= k
  <2> HIDE DEF T
  <2> QED
    BY <1>0, LeastNumber
<1>2. m \in 1 .. n
  BY <1>1
<1>3. m - 1 \in G
  BY <1>1, <1>2
<1> QED
  BY <1>1, <1>2, <1>3

(* The n iterations of a loop over the states S, the k-th of which is      *)
(* step[k], and the history of such a loop.                                *)
Iterations(S, n) == [1 .. n -> [S -> S]]
History(h, S, n, base, step) ==
  /\ h \in [0 .. n -> S]
  /\ h[0] = base
  /\ \A k \in 1 .. n : h[k] = step[k][h[k - 1]]

\* A loop has a history.
LEMMA RecursionExists ==
  ASSUME NEW S, NEW n \in Nat, NEW base \in S, NEW step \in Iterations(S, n)
  PROVE  \E h : History(h, S, n, base, step)
<1> USE DEF Iterations
<1> DEFINE Upto(m) == \E f \in [0 .. m -> S] :
                  f[0] = base /\ \A k \in 1 .. m : f[k] = step[k][f[k - 1]]
           G == {m \in 0 .. n : Upto(m)}
<1>1. Upto(0)
  <2> DEFINE f == [k \in 0 .. 0 |-> base]
  <2>1. f \in [0 .. 0 -> S] /\ f[0] = base
    OBVIOUS
  <2>2. \A k \in 1 .. 0 : f[k] = step[k][f[k - 1]]
    OBVIOUS
  <2> HIDE DEF f
  <2> QED
    BY <2>1, <2>2
<1>2. ASSUME NEW m \in 1 .. n, Upto(m - 1) PROVE Upto(m)
  <2>1. PICK g \in [0 .. m - 1 -> S] :
           g[0] = base /\ \A k \in 1 .. m - 1 : g[k] = step[k][g[k - 1]]
    BY <1>2
  <2> DEFINE v == step[m][g[m - 1]]
             f == [k \in 0 .. m |-> IF k = m THEN v ELSE g[k]]
  <2>2. v \in S
    OBVIOUS
  <2>3. f \in [0 .. m -> S]
    BY <2>2
  <2>4. f[0] = base
    BY <2>1
  <2>5. \A k \in 1 .. m : f[k] = step[k][f[k - 1]]
    <3> TAKE k \in 1 .. m
    <3>1. k - 1 \in 0 .. m - 1 /\ f[k - 1] = g[k - 1]
      OBVIOUS
    <3>2. CASE k = m
      <4>1. f[m] = v
        OBVIOUS
      <4> QED
        BY <3>1, <3>2, <4>1
    <3>3. CASE k # m
      <4>1. k \in 1 .. m - 1 /\ f[k] = g[k]
        BY <3>3
      <4> QED
        BY <3>1, <4>1, <2>1
    <3> QED
      BY <3>2, <3>3
  <2> HIDE DEF f
  <2> QED
    BY <2>3, <2>4, <2>5
<1>3. 0 .. n \subseteq G
  <2>1. 0 \in G /\ \A k \in 1 .. n : k - 1 \in G => k \in G
    <3> HIDE DEF Upto
    <3> QED
      BY <1>1, <1>2
  <2> HIDE DEF G
  <2> QED
    BY <2>1, SetInduction
<1>4. Upto(n)
  <2> HIDE DEF Upto
  <2> QED
    BY <1>3
<1> QED
  BY <1>4 DEF History
=============================================================================
