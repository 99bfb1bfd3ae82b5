------------------------------ MODULE Induction ------------------------------
(***************************************************************************)
(* Induction over the naturals and functions defined by it, for the proofs *)
(* about the recursive functions of the models: chunkMessage's rounds, the *)
(* tiers of a conversation, the filtered order of extensions.  The library *)
(* states induction for operators, which the provers cannot be given; here *)
(* it is stated for sets, and follows from < being well-founded.           *)
(***************************************************************************)
EXTENDS Naturals, WellFoundedInduction, TLAPS

LOCAL Below == {p \in Nat \X Nat : p[1] < p[2]}

(* There is no endless descent of naturals.                                *)
LEMMA BelowIsWellFounded == IsWellFoundedOn(Below, Nat)
<1>1. Below = OpToRel(<, Nat) BY Zenon DEF Below, OpToRel
<1> QED BY <1>1, NatLessThanWellFounded, Zenon

(* A set with 0 and the successor of each of its naturals has them all. *)
THEOREM NaturalsBySteps ==
  ASSUME NEW S, 0 \in S, \A n \in Nat : n \in S => n + 1 \in S
  PROVE  Nat \subseteq S
<1> SUFFICES ASSUME Nat \ S # {} PROVE FALSE
  OBVIOUS
<1>1. PICK m \in Nat \ S : \A k \in Nat \ S : <<k, m>> \notin Below
  <2> DEFINE T == Nat \ S
  <2>1. T \subseteq Nat /\ T # {}
    OBVIOUS
  <2> HIDE DEF T
  <2>2. \E x \in T : \A y \in T : ~(<<y, x>> \in Below)
    BY BelowIsWellFounded, <2>1, WFMin
  <2> QED BY <2>2 DEF T
<1>2. m # 0 /\ m - 1 \in Nat /\ m - 1 < m
  OBVIOUS
<1>3. <<m - 1, m>> \in Below BY <1>2 DEF Below
<1>4. m - 1 \in S BY <1>1, <1>2, <1>3
<1> QED BY <1>2, <1>4

(* A set of naturals that is not empty has a least element.                *)
THEOREM LeastElement ==
  ASSUME NEW S \in SUBSET Nat, S # {}
  PROVE  \E i \in S : \A j \in S : i <= j
<1>1. PICK i \in S : \A j \in S : ~(<<j, i>> \in Below)
  BY BelowIsWellFounded, WFMin
<1>2. ASSUME NEW j \in S PROVE i <= j
  <2>1. ~(j < i) BY <1>1 DEF Below
  <2> QED BY <2>1
<1> QED BY <1>2

(* The greatest element is the least of its upper bounds.                  *)
THEOREM GreatestElement ==
  ASSUME NEW n \in Nat, NEW S \in SUBSET (0 .. n), S # {}
  PROVE  \E i \in S : \A j \in S : j <= i
<1> DEFINE bounds == {m \in Nat : \A j \in S : j <= m}
<1>1. n \in bounds
  OBVIOUS
<1>2. PICK m \in bounds : \A k \in bounds : m <= k
  <2> HIDE DEF bounds
  <2>1. bounds \in SUBSET Nat /\ bounds # {} BY <1>1 DEF bounds
  <2> QED BY <2>1, LeastElement
<1>3. m \in S
  <2>1. CASE m = 0
    <3>1. PICK j : j \in S
      OBVIOUS
    <3>2. j = 0 BY <2>1, <3>1
    <3> QED BY <2>1, <3>1, <3>2
  <2>2. CASE m # 0 /\ m \notin S
    <3>1. m - 1 \in Nat /\ \A j \in S : j <= m - 1 BY <2>2
    <3>2. m <= m - 1 BY <1>2, <3>1
    <3> QED BY <3>2
  <2> QED BY <2>1, <2>2
<1> QED BY <1>3

(* What is computed in n steps from a: the functions on 0..n.  *)
Run(n, A, a, g) ==
  {f \in [0 .. n -> A] : f[0] = a /\ \A k \in 0 .. n - 1 : f[k + 1] = g[k + 1][f[k]]}

(* Two computations of the same have the same values as far as both go.    *)
LEMMA RunsAgree ==
  ASSUME NEW A, NEW a \in A, NEW g \in [Nat -> [A -> A]],
         NEW m \in Nat, NEW n \in Nat, NEW f \in Run(m, A, a, g), NEW h \in Run(n, A, a, g)
  PROVE  \A k \in Nat : k <= m /\ k <= n => f[k] = h[k]
<1> DEFINE S == {k \in Nat : k <= m /\ k <= n => f[k] = h[k]}
<1>1. 0 \in S BY DEF Run
<1>2. ASSUME NEW k \in Nat, k \in S PROVE k + 1 \in S
  <2> SUFFICES ASSUME k + 1 <= m, k + 1 <= n PROVE f[k + 1] = h[k + 1]
    OBVIOUS
  <2>1. k \in 0 .. m - 1 /\ k \in 0 .. n - 1 /\ f[k] = h[k] BY <1>2
  <2> QED BY <2>1 DEF Run
<1> HIDE DEF S
<1>3. Nat \subseteq S BY <1>1, <1>2, NaturalsBySteps
<1> QED BY <1>3 DEF S

(* Every number of steps can be computed.                                  *)
LEMMA RunsExist ==
  ASSUME NEW A, NEW a \in A, NEW g \in [Nat -> [A -> A]]
  PROVE  \A n \in Nat : Run(n, A, a, g) # {}
<1> DEFINE S == {n \in Nat : Run(n, A, a, g) # {}}
<1>1. 0 \in S
  <2>1. [k \in 0 .. 0 |-> a] \in Run(0, A, a, g) BY DEF Run
  <2> QED BY <2>1
<1>2. ASSUME NEW n \in Nat, n \in S PROVE n + 1 \in S
  <2>1. PICK f : f \in Run(n, A, a, g) BY <1>2
  <2> DEFINE h == [k \in 0 .. n + 1 |-> IF k = n + 1 THEN g[n + 1][f[n]] ELSE f[k]]
  <2>2. f \in [0 .. n -> A] /\ f[0] = a /\ \A k \in 0 .. n - 1 : f[k + 1] = g[k + 1][f[k]]
    BY <2>1 DEF Run
  <2>3. g[n + 1][f[n]] \in A BY <2>2
  <2>4. h \in [0 .. n + 1 -> A] BY <2>2, <2>3
  <2>5. h[0] = a BY <2>2
  <2>6. ASSUME NEW k \in 0 .. (n + 1) - 1 PROVE h[k + 1] = g[k + 1][h[k]]
    <3>1. CASE k = n BY <3>1
    <3>2. CASE k # n
      <4>1. k \in 0 .. n - 1 /\ k + 1 # n + 1 /\ k + 1 \in 0 .. n + 1 /\ k \in 0 .. n + 1 /\ k # n + 1 BY <3>2
      <4> QED BY <2>2, <4>1
    <3> QED BY <3>1, <3>2
  <2>7. h \in Run(n + 1, A, a, g) BY <2>4, <2>5, <2>6 DEF Run
  <2> QED BY <2>7
<1> HIDE DEF S
<1>3. Nat \subseteq S BY <1>1, <1>2, NaturalsBySteps
<1> QED BY <1>3 DEF S

(* A function may be defined by its value at 0 and by how the one at n + 1 *)
(* follows from the one at n.                                              *)
Follows(f, A, a, g) ==
  /\ f \in [Nat -> A] /\ f[0] = a
  /\ \A n \in Nat : f[n + 1] = g[n + 1][f[n]]


(* There is a function with those values.                                  *)
THEOREM Recursion ==
  ASSUME NEW A, NEW a \in A, NEW g \in [Nat -> [A -> A]]
  PROVE  \E f : Follows(f, A, a, g)
<1>0. ASSUME NEW n \in Nat, NEW f \in Run(n, A, a, g), NEW h \in Run(n + 1, A, a, g)
      PROVE  f[n] = h[n]
  <2>1. n + 1 \in Nat /\ n <= n /\ n <= n + 1
    OBVIOUS
  <2>2. \A k \in Nat : k <= n /\ k <= n + 1 => f[k] = h[k]
    BY <2>1, RunsAgree
  <2> QED BY <2>1, <2>2
<1> DEFINE run == [n \in Nat |-> CHOOSE f : f \in Run(n, A, a, g)]
           whole == [n \in Nat |-> run[n][n]]
<1>1. ASSUME NEW n \in Nat PROVE run[n] \in Run(n, A, a, g)
  BY RunsExist
<1>1a. ASSUME NEW n \in Nat PROVE whole[n] = run[n][n] OBVIOUS
<1>w. DOMAIN whole = Nat /\ whole = [n \in Nat |-> whole[n]] OBVIOUS
<1> HIDE DEF run, whole
<1>2. ASSUME NEW n \in Nat PROVE run[n][n] \in A /\ run[n + 1][n + 1] = g[n + 1][run[n][n]]
  <2>1. run[n] \in Run(n, A, a, g) /\ run[n + 1] \in Run(n + 1, A, a, g) BY <1>1
  <2>2. run[n][n] = run[n + 1][n] BY <1>0, <2>1
  <2>3. n \in 0 .. (n + 1) - 1 /\ n \in 0 .. n OBVIOUS
  <2>4. run[n][n] \in A BY <2>1, <2>3 DEF Run
  <2>5. run[n + 1][n + 1] = g[n + 1][run[n + 1][n]] BY <2>1, <2>3 DEF Run
  <2> QED BY <2>2, <2>4, <2>5
<1>3. whole \in [Nat -> A] BY <1>1a, <1>2, <1>w
<1>4. whole[0] = a BY <1>1, <1>1a DEF Run
<1>5. \A n \in Nat : whole[n + 1] = g[n + 1][whole[n]] BY <1>1a, <1>2
<1> QED BY <1>3, <1>4, <1>5 DEF Follows
=============================================================================
