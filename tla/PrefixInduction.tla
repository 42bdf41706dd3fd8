-------------------------- MODULE PrefixInduction --------------------------
(***************************************************************************)
(* Induction over the natural numbers, in a form without operators as      *)
(* parameters: what holds is given as the set of numbers for which it      *)
(* holds.  And what follows from it for functions defined by recursion on  *)
(* the length of a prefix, which is how the models fold a sequence.        *)
(***************************************************************************)
EXTENDS Integers, WellFoundedInduction, TLAPS

LEMMA LeastNatural ==
  ASSUME NEW T \in SUBSET Nat, T # {}
  PROVE  \E x \in T : \A y \in T : x <= y
<1> DEFINE R == OpToRel(<, Nat)
<1>1. IsWellFoundedOn(R, Nat)
  BY NatLessThanWellFounded, Zenon
<1>2. PICK x \in T : \A y \in T : ~(<<y, x>> \in R)
  BY <1>1, WFMin, Zenon
<1>3. \A y \in T : ~(<<y, x>> \in {ss \in Nat \X Nat : ss[1] < ss[2]})
  BY <1>2 DEF OpToRel
<1>. HIDE DEF R
<1>4. ASSUME NEW y \in T PROVE ~(y < x)
  <2>1. <<y, x>> \in Nat \X Nat
    OBVIOUS
  <2>2. y < x => <<y, x>> \in {ss \in Nat \X Nat : ss[1] < ss[2]}
    BY <2>1
  <2>. QED BY <1>3, <2>2
<1>. QED BY <1>4

(* A set with 0, and with n + 1 wherever it has n, has every number. *)
LEMMA Induct ==
  ASSUME NEW S, 0 \in S, \A n \in Nat : n \in S => n + 1 \in S
  PROVE  Nat \subseteq S
<1> SUFFICES ASSUME Nat \ S # {} PROVE FALSE
  OBVIOUS
<1>1. PICK x \in Nat \ S : \A y \in Nat \ S : x <= y
  BY LeastNatural, Zenon
<1>2. x # 0 /\ x - 1 \in Nat
  BY <1>1
<1>3. x - 1 \in S
  BY <1>1, <1>2
<1>. QED BY <1>1, <1>2, <1>3

(* The same up to a bound. *)
LEMMA InductUpTo ==
  ASSUME NEW N \in Nat, NEW S, 0 \in S, \A n \in 1..N : n - 1 \in S => n \in S
  PROVE  0..N \subseteq S
<1> DEFINE U == S \cup {n \in Nat : n > N}
<1>1. 0 \in U
  OBVIOUS
<1>2. \A n \in Nat : n \in U => n + 1 \in U
  <2> SUFFICES ASSUME NEW n \in Nat, n \in U PROVE n + 1 \in U
    OBVIOUS
  <2>1. CASE n + 1 > N
    BY <2>1
  <2>2. CASE n + 1 <= N
    <3>1. n \in S /\ n + 1 \in 1..N /\ (n + 1) - 1 = n
      BY <2>2
    <3>. QED BY <3>1
  <2>. QED BY <2>1, <2>2
<1>. HIDE DEF U
<1>3. Nat \subseteq U
  BY <1>1, <1>2, Induct
<1>. QED BY <1>3 DEF U

(* step[n] makes the value at n of the one before; f has these values from a on.
   (Named, so that the provers find the instance of the lemma below.) *)
IsStep(N, S, step) == step \in [1..N -> [S -> S]]

Unfolds(f, N, S, a, step) ==
  f \in [0..N -> S] /\ f[0] = a /\ \A n \in 1..N : f[n] = step[n][f[n - 1]]

(* There is such a function. *)
LEMMA DefinedUpTo ==
  ASSUME NEW N, NEW S, NEW a, NEW step, N \in Nat, a \in S, IsStep(N, S, step)
  PROVE  \E f : Unfolds(f, N, S, a, step)
<1>0. step \in [1..N -> [S -> S]]
  BY DEF IsStep
<1> DEFINE Fits(f, n) == f[0] = a /\ \A k \in 1..n : f[k] = step[k][f[k - 1]]
           G == {n \in 0..N : \E f \in [0..n -> S] : Fits(f, n)}
<1>1. 0 \in G
  <2>1. [k \in 0..0 |-> a] \in [0..0 -> S] /\ Fits([k \in 0..0 |-> a], 0)
    OBVIOUS
  <2>. HIDE DEF Fits
  <2>2. 0 \in 0..N
    OBVIOUS
  <2>. QED BY <2>1, <2>2, Zenon
<1>2. ASSUME NEW n \in 1..N, n - 1 \in G PROVE n \in G
  <2>1. PICK f \in [0..(n - 1) -> S] : Fits(f, n - 1)
    BY <1>2
  <2> DEFINE g == [k \in 0..n |-> IF k = n THEN step[n][f[n - 1]] ELSE f[k]]
  <2>2. step[n][f[n - 1]] \in S
    <3>1. f[n - 1] \in S /\ step[n] \in [S -> S]
      BY <1>0, <2>1
    <3>. QED BY <3>1
  <2>3. g \in [0..n -> S]
    BY <2>1, <2>2
  <2>4. Fits(g, n)
    <3>1. g[0] = a
      BY <2>1
    <3>2. ASSUME NEW k \in 1..n PROVE g[k] = step[k][g[k - 1]]
      <4>1. g[k - 1] = f[k - 1]
        OBVIOUS
      <4>2. CASE k = n
        BY <4>1, <4>2
      <4>3. CASE k # n
        BY <2>1, <4>1, <4>3
      <4>. QED BY <4>2, <4>3
    <3>. QED BY <3>1, <3>2
  <2>. HIDE DEF Fits, g
  <2>5. n \in 0..N
    OBVIOUS
  <2>. QED BY <2>3, <2>4, <2>5, Zenon
<1>. HIDE DEF G
<1>3. 0..N \subseteq G
  BY <1>1, <1>2, InductUpTo
<1>4. N \in G
  BY <1>3
<1>. QED BY <1>4 DEF G, Unfolds

(* And there is one for all numbers, that of N up to N. *)
UnfoldsAll(f, S, a, step) ==
  f \in [Nat -> S] /\ f[0] = a /\ \A n \in Nat : f[n + 1] = step[n][f[n]]

LEMMA Defined ==
  ASSUME NEW S, NEW a, NEW step, a \in S, step \in [Nat -> [S -> S]]
  PROVE  \E f : UnfoldsAll(f, S, a, step)
<1> DEFINE upTo(N) == [n \in 1..N |-> step[n - 1]]
           g(N) == CHOOSE f : Unfolds(f, N, S, a, upTo(N))
<1>1. ASSUME NEW N \in Nat PROVE Unfolds(g(N), N, S, a, upTo(N))
  <2>1. IsStep(N, S, upTo(N))
    BY DEF IsStep
  <2>. HIDE DEF upTo
  <2>2. \E f : Unfolds(f, N, S, a, upTo(N))
    BY <2>1, DefinedUpTo, Zenon
  <2>. QED BY <2>2
<1>. HIDE DEF g
<1>2. ASSUME NEW N \in Nat
      PROVE  g(N) \in [0..N -> S] /\ g(N)[0] = a /\ \A n \in 1..N : g(N)[n] = step[n - 1][g(N)[n - 1]]
  BY <1>1 DEF Unfolds
<1>3. ASSUME NEW N \in Nat PROVE g(N + 1)[N] = g(N)[N]
  <2> DEFINE E == {n \in 0..N : g(N + 1)[n] = g(N)[n]}
  <2>1. 0 \in E
    BY <1>2
  <2>2. ASSUME NEW n \in 1..N, n - 1 \in E PROVE n \in E
    <3>1. n \in 1..(N + 1) /\ N + 1 \in Nat
      OBVIOUS
    <3>2. g(N + 1)[n] = step[n - 1][g(N + 1)[n - 1]] /\ g(N)[n] = step[n - 1][g(N)[n - 1]]
      BY <1>2, <3>1
    <3>. QED BY <2>2, <3>2
  <2>. HIDE DEF E
  <2>3. 0..N \subseteq E
    BY <2>1, <2>2, InductUpTo
  <2>. QED BY <2>3 DEF E
<1> DEFINE f == [n \in Nat |-> g(n)[n]]
<1>4. f \in [Nat -> S] /\ f[0] = a
  BY <1>2
<1>5. ASSUME NEW n \in Nat PROVE f[n + 1] = step[n][f[n]]
  <2>1. n + 1 \in Nat /\ n + 1 \in 1..(n + 1) /\ (n + 1) - 1 = n
    OBVIOUS
  <2>2. g(n + 1)[n + 1] = step[n][g(n + 1)[n]]
    BY <1>2, <2>1
  <2>. QED BY <1>3, <2>1, <2>2
<1>. HIDE DEF f
<1>6. UnfoldsAll(f, S, a, step)
  BY <1>4, <1>5 DEF UnfoldsAll
<1>. QED BY <1>6
=============================================================================
