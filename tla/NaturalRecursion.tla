-------------------------- MODULE NaturalRecursion --------------------------
(***************************************************************************)
(* What the proofs need of the natural numbers: a set with 0 and with the  *)
(* successor of each of its elements holds them all, and recursion along   *)
(* them defines a function.  Both are stated about sets and functions, for *)
(* a recursive function of the model to be an instance.                    *)
(***************************************************************************)
EXTENDS Integers, WellFoundedInduction, TLAPS

LEMMA LeastNatural ==
  ASSUME NEW S \in SUBSET Nat, S # {}
  PROVE  \E n \in S : \A m \in S : n <= m
<1>1. PICK n \in S : \A m \in S : ~ (<<m, n>> \in OpToRel(<, Nat))
  BY NatLessThanWellFounded, WFMin
<1>2. \A m \in S : ~(m < n)
  BY <1>1 DEF OpToRel
<1> QED
  BY <1>2

LEMMA SetInduction ==
  ASSUME NEW S, 0 \in S, \A n \in Nat : n \in S => n + 1 \in S
  PROVE  Nat \subseteq S
<1> DEFINE Out == Nat \ S
<1> SUFFICES ASSUME Out # {} PROVE FALSE
  OBVIOUS
<1>1. PICK n \in Out : \A m \in Out : n <= m
  BY LeastNatural
<1>2. n - 1 \in Nat /\ n - 1 \notin Out
  BY <1>1
<1>3. (n - 1) + 1 \in S
  BY <1>2
<1> QED
  BY <1>1, <1>3

\* f is what start and next define on the numbers up to n.
DefinesUpTo(f, n, S, start, next) ==
  /\ f \in [0..n -> S]
  /\ f[0] = start
  /\ \A k \in 1..n : f[k] = next[<<k, f[k - 1]>>]

LEMMA DefinedUpTo ==
  ASSUME NEW S, NEW start \in S, NEW next \in [Nat \X S -> S]
  PROVE  \A n \in Nat : \E f : DefinesUpTo(f, n, S, start, next)
<1> DEFINE Good == {n \in Nat : \E f : DefinesUpTo(f, n, S, start, next)}
<1>1. 0 \in Good
  <2>1. DefinesUpTo([k \in 0..0 |-> start], 0, S, start, next)
    BY DEF DefinesUpTo
  <2> QED
    BY <2>1
<1>2. ASSUME NEW n \in Nat, n \in Good
      PROVE  n + 1 \in Good
  <2>1. PICK f : DefinesUpTo(f, n, S, start, next)
    BY <1>2
  <2> DEFINE g == [k \in 0..(n + 1) |-> IF k = n + 1 THEN next[<<n + 1, f[n]>>]
                                                    ELSE f[k]]
  <2>2. f[n] \in S /\ next[<<n + 1, f[n]>>] \in S
    BY <2>1 DEF DefinesUpTo
  <2>3. g \in [0..(n + 1) -> S] /\ g[0] = start
    BY <2>1, <2>2 DEF DefinesUpTo
  <2>4. ASSUME NEW k \in 1..(n + 1)
        PROVE  g[k] = next[<<k, g[k - 1]>>]
    <3>1. g[k - 1] = f[k - 1]
      OBVIOUS
    <3>2. CASE k = n + 1
      <4>1. g[n + 1] = next[<<n + 1, f[n]>>] /\ k - 1 = n
        BY <3>2
      <4> HIDE DEF g
      <4> QED
        BY <3>1, <3>2, <4>1
    <3>3. CASE k \in 1..n
      BY <2>1, <3>1, <3>3 DEF DefinesUpTo
    <3> QED
      BY <3>2, <3>3
  <2>5. DefinesUpTo(g, n + 1, S, start, next)
    BY <2>3, <2>4 DEF DefinesUpTo
  <2> QED
    BY <2>5
<1>3. Nat \subseteq Good
  <2> HIDE DEF Good
  <2> QED
    BY <1>1, <1>2, SetInduction
<1> QED
  BY <1>3

LEMMA DefinedOnce ==
  ASSUME NEW S, NEW start, NEW next
  PROVE  \A f, g : \A m, n, k \in Nat :
           /\ DefinesUpTo(f, m, S, start, next)
           /\ DefinesUpTo(g, n, S, start, next)
           /\ k <= m /\ k <= n
           => f[k] = g[k]
<1> SUFFICES ASSUME NEW f, NEW g, NEW m \in Nat, NEW n \in Nat,
                    DefinesUpTo(f, m, S, start, next),
                    DefinesUpTo(g, n, S, start, next)
             PROVE  \A k \in Nat : k <= m /\ k <= n => f[k] = g[k]
  OBVIOUS
<1> DEFINE Same == {k \in Nat : k <= m /\ k <= n => f[k] = g[k]}
<1>1. 0 \in Same
  BY DEF DefinesUpTo
<1>2. ASSUME NEW k \in Nat, k \in Same
      PROVE  k + 1 \in Same
  <2> SUFFICES ASSUME k + 1 <= m, k + 1 <= n
               PROVE  f[k + 1] = g[k + 1]
    OBVIOUS
  <2>1. f[k] = g[k]
    BY <1>2
  <2>2. f[k + 1] = next[<<k + 1, f[(k + 1) - 1]>>]
    BY DEF DefinesUpTo
  <2>3. g[k + 1] = next[<<k + 1, g[(k + 1) - 1]>>]
    BY DEF DefinesUpTo
  <2> QED
    BY <2>1, <2>2, <2>3
<1>3. Nat \subseteq Same
  <2> HIDE DEF Same
  <2> QED
    BY <1>1, <1>2, SetInduction
<1> QED
  BY <1>3

\* f is what start and next define on the natural numbers.
Defines(f, S, start, next) ==
  /\ f \in [Nat -> S]
  /\ f[0] = start
  /\ \A n \in Nat \ {0} : f[n] = next[<<n, f[n - 1]>>]

\* Recursion along the natural numbers defines a function.
THEOREM NaturalRecursionDefines ==
  ASSUME NEW S, NEW start \in S, NEW next \in [Nat \X S -> S]
  PROVE  \E f : Defines(f, S, start, next)
<1> DEFINE upTo == [n \in Nat |-> CHOOSE f : DefinesUpTo(f, n, S, start, next)]
           h == [n \in Nat |-> upTo[n][n]]
<1>1. \A n \in Nat : DefinesUpTo(upTo[n], n, S, start, next)
  BY DefinedUpTo, Zenon
<1> HIDE DEF upTo
<1>2. ASSUME NEW n \in Nat
      PROVE  h[n] \in S
  <2>1. upTo[n] \in [0..n -> S] /\ n \in 0..n
    BY <1>1 DEF DefinesUpTo
  <2> QED
    BY <2>1
<1>3. h[0] = start
  <2>1. upTo[0][0] = start
    BY <1>1 DEF DefinesUpTo
  <2> QED
    BY <2>1
<1>4. ASSUME NEW n \in Nat \ {0}
      PROVE  h[n] = next[<<n, h[n - 1]>>]
  <2>1. n - 1 \in Nat /\ n - 1 <= n /\ n \in Nat
    OBVIOUS
  <2>2. /\ DefinesUpTo(upTo[n], n, S, start, next)
        /\ DefinesUpTo(upTo[n - 1], n - 1, S, start, next)
    BY <1>1, <2>1
  <2>3. upTo[n][n - 1] = upTo[n - 1][n - 1]
    <3>1. n - 1 <= n /\ n - 1 <= n - 1
      BY <2>1
    <3> QED
      BY <2>1, <2>2, <3>1, DefinedOnce
  <2>4. upTo[n][n] = next[<<n, upTo[n][n - 1]>>]
    <3>1. n \in 1..n
      OBVIOUS
    <3> QED
      BY <2>2, <3>1 DEF DefinesUpTo
  <2>5. h[n] = upTo[n][n] /\ h[n - 1] = upTo[n - 1][n - 1]
    BY <2>1
  <2> QED
    BY <2>3, <2>4, <2>5
<1>5. h \in [Nat -> S]
  BY <1>2
<1> HIDE DEF h
<1>6. Defines(h, S, start, next)
  BY <1>3, <1>4, <1>5 DEF Defines
<1> QED
  BY <1>6

=============================================================================
