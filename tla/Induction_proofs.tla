-------------------------- MODULE Induction_proofs --------------------------
(***************************************************************************)
(* What the proofs about recursive functions rest on: a set of numbers has *)
(* a least one, so a claim that fails for some number fails for a least    *)
(* one; and a function that is given by its first value and each next one  *)
(* exists.                                                                 *)
(***************************************************************************)
EXTENDS Naturals, WellFoundedInduction, TLAPS

LEMMA LeastNumber ==
  ASSUME NEW T \in SUBSET Nat, T # {}
  PROVE  \E x \in T : \A y \in T : x <= y
  <1> DEFINE R == {ss \in Nat \X Nat : ss[1] < ss[2]}
  <1>1. IsWellFoundedOn(R, Nat)
    BY NatLessThanWellFounded DEF OpToRel
  <1>2. \A x, y \in Nat : y < x => <<y, x>> \in R
    OBVIOUS
  <1> HIDE DEF R
  <1>3. PICK x \in T : \A y \in T : ~(<<y, x>> \in R)
    BY <1>1, WFMin
  <1>4. ASSUME NEW y \in T PROVE x <= y
    <2>1. x \in Nat /\ y \in Nat
      OBVIOUS
    <2>2. ~(y < x)
      BY <1>2, <1>3, <2>1
    <2> QED
      BY <2>1, <2>2
  <1> QED
    BY <1>4

\* A claim that holds of 0 and goes on to the next number holds of all numbers.
LEMMA Induction ==
  ASSUME NEW T, 0 \in T, \A n \in Nat : n \in T => n + 1 \in T
  PROVE  Nat \subseteq T
  <1> SUFFICES ASSUME Nat \ T # {} PROVE FALSE
    OBVIOUS
  <1>1. PICK b \in Nat \ T : \A n \in Nat \ T : b <= n
    BY LeastNumber
  <1>2. b # 0 /\ b - 1 \in Nat /\ ~(b <= b - 1) /\ (b - 1) + 1 = b
    BY <1>1
  <1>3. b - 1 \in T
    BY <1>1, <1>2
  <1> QED
    BY <1>1, <1>2, <1>3

\* First values up to n of the function with value base at 0 that Step leads on.
Leads(f, n, base, Step) == f = [i \in 0 .. n |-> IF i = 0 THEN base ELSE Step[f[i - 1]]]

LEMMA LeadsLess ==
  ASSUME NEW base, NEW Step, NEW m \in Nat, NEW n \in Nat, m <= n,
         NEW f, Leads(f, m, base, Step), NEW g, Leads(g, n, base, Step)
  PROVE  f[m] = g[m]
  <1> DEFINE T == {i \in Nat : i <= m => f[i] = g[i]}
  <1>1. 0 \in T
    BY DEF Leads
  <1>2. ASSUME NEW i \in Nat, i \in T PROVE i + 1 \in T
    <2> SUFFICES ASSUME i + 1 <= m PROVE f[i + 1] = g[i + 1]
      OBVIOUS
    <2>1. i + 1 \in 0 .. m /\ i + 1 \in 0 .. n /\ i + 1 # 0 /\ (i + 1) - 1 = i /\ i <= m
      OBVIOUS
    <2>2. f[i] = g[i]
      BY <1>2, <2>1
    <2>3. f[i + 1] = Step[f[i]]
      BY <2>1 DEF Leads
    <2>4. g[i + 1] = Step[g[i]]
      BY <2>1 DEF Leads
    <2> QED
      BY <2>2, <2>3, <2>4
  <1> HIDE DEF T
  <1>3. Nat \subseteq T
    BY <1>1, <1>2, Induction
  <1> QED
    BY <1>3 DEF T

LEMMA LeadsExists ==
  ASSUME NEW base, NEW Step, NEW n \in Nat
  PROVE  \E f : Leads(f, n, base, Step)
  <1> DEFINE T == {k \in Nat : \E f : Leads(f, k, base, Step)}
  <1>1. 0 \in T
    <2> DEFINE f == [i \in 0 .. 0 |-> base]
    <2>1. f = [i \in 0 .. 0 |-> IF i = 0 THEN base ELSE Step[f[i - 1]]]
      OBVIOUS
    <2>2. Leads(f, 0, base, Step)
      BY <2>1 DEF Leads
    <2> QED
      BY <2>2
  <1>2. ASSUME NEW k \in Nat, k \in T PROVE k + 1 \in T
    <2>1. PICK f : Leads(f, k, base, Step)
      BY <1>2
    <2> DEFINE g == [i \in 0 .. k + 1 |-> IF i <= k THEN f[i] ELSE Step[f[k]]]
    <2>2. ASSUME NEW i \in 0 .. k + 1 PROVE g[i] = IF i = 0 THEN base ELSE Step[g[i - 1]]
      <3>1. CASE i = 0
        BY <2>1, <3>1 DEF Leads
      <3>2. CASE i # 0
        <4>1. i - 1 \in 0 .. k + 1 /\ i - 1 <= k /\ g[i - 1] = f[i - 1]
          BY <3>2
        <4>2. CASE i <= k
          <5>1. f[i] = Step[f[i - 1]]
            BY <2>1, <3>2, <4>2 DEF Leads
          <5> QED
            BY <3>2, <4>1, <4>2, <5>1
        <4>3. CASE ~(i <= k)
          <5>1. i - 1 = k
            BY <4>3
          <5> QED
            BY <3>2, <4>1, <4>3, <5>1
        <4> QED
          BY <4>2, <4>3
      <3> QED
        BY <3>1, <3>2
    <2>3. g = [i \in 0 .. k + 1 |-> IF i = 0 THEN base ELSE Step[g[i - 1]]]
      BY <2>2
    <2> HIDE DEF g
    <2>4. Leads(g, k + 1, base, Step)
      BY <2>3 DEF Leads
    <2> QED
      BY <2>4
  <1> HIDE DEF T
  <1>3. Nat \subseteq T
    BY <1>1, <1>2, Induction
  <1> QED
    BY <1>3 DEF T

\* A recursive function on the numbers exists.
Follows(f, base, Step) == f = [n \in Nat |-> IF n = 0 THEN base ELSE Step[f[n - 1]]]

LEMMA Recursion ==
  ASSUME NEW base, NEW Step
  PROVE  \E f : Follows(f, base, Step)
  <1> DEFINE upTo(n) == CHOOSE f : Leads(f, n, base, Step)
             f == [n \in Nat |-> upTo(n)[n]]
  <1>1. \A n \in Nat : Leads(upTo(n), n, base, Step)
    BY LeadsExists
  <1> HIDE DEF upTo
  <1>2. ASSUME NEW n \in Nat PROVE f[n] = IF n = 0 THEN base ELSE Step[f[n - 1]]
    <2>1. CASE n = 0
      BY <1>1, <2>1 DEF Leads
    <2>2. CASE n # 0
      <3>1. n - 1 \in Nat /\ n - 1 <= n /\ n \in 0 .. n
        BY <2>2
      <3>2. upTo(n)[n] = Step[upTo(n)[n - 1]]
        BY <1>1, <2>2, <3>1 DEF Leads
      <3>3. upTo(n - 1)[n - 1] = upTo(n)[n - 1]
        BY <1>1, <3>1, LeadsLess
      <3> QED
        BY <2>2, <3>1, <3>2, <3>3
    <2> QED
      BY <2>1, <2>2
  <1>3. f = [n \in Nat |-> IF n = 0 THEN base ELSE Step[f[n - 1]]]
    BY <1>2
  <1> HIDE DEF f
  <1>4. Follows(f, base, Step)
    BY <1>3 DEF Follows
  <1> QED
    BY <1>4

=============================================================================
