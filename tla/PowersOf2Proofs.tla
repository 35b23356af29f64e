--------------------------- MODULE PowersOf2Proofs ---------------------------
(***************************************************************************)
(* What the shift by a count of retries amounts to: PowerOf2 is defined on *)
(* all numbers, doubles with each, and never falls.                        *)
(*                                                                         *)
(* Induction is over a set of numbers and not over a predicate: the least  *)
(* number outside the set would have to come after one within.             *)
(***************************************************************************)
EXTENDS PowersOf2, WellFoundedInduction, TLAPS

\* A set that has 0, and with each number the next, has all numbers.
LEMMA NatSetInduction ==
  ASSUME NEW S, 0 \in S, \A n \in Nat : n \in S => n + 1 \in S
  PROVE  Nat \subseteq S
<1> DEFINE Before == OpToRel(<, Nat)
           Rest == Nat \ S
<1>1. \A x, y \in Nat : <<y, x>> \in Before <=> y < x
  BY DEF OpToRel
<1>2. IsWellFoundedOn(Before, Nat)
  BY NatLessThanWellFounded, Zenon
<1> HIDE DEF Before
<1>3. SUFFICES ASSUME Rest # {} PROVE FALSE
  OBVIOUS
<1>4. PICK x \in Rest : \A y \in Rest : ~(<<y, x>> \in Before)
  <2> HIDE DEF Rest
  <2>1. Rest \subseteq Nat
    BY DEF Rest
  <2> QED  BY <1>2, <1>3, <2>1, WFMin, Zenon
<1>5. x - 1 \in Nat /\ x - 1 < x
  BY <1>4
<1>6. x - 1 \in S
  BY <1>1, <1>4, <1>5
<1> QED  BY <1>4, <1>5, <1>6

----------------------------------------------------------------------------
(* The definition has a solution: its first n values do for every n, and   *)
(* any two beginnings agree.                                               *)

Doubles(f, n) == f[0] = 1 /\ \A i \in 1..n : f[i] = 2 * f[i - 1]

Beginnings(n) == {f \in [0..n -> Nat] : Doubles(f, n)}

\* The first values can be chosen one after the other.
LEMMA BeginningExists == \A n \in Nat : Beginnings(n) # {}
<1> DEFINE S == {n \in Nat : Beginnings(n) # {}}
<1>1. 0 \in S
  <2>1. [i \in 0..0 |-> 1] \in Beginnings(0)
    BY DEF Beginnings, Doubles
  <2> QED  BY <2>1
<1>2. ASSUME NEW n \in Nat, n \in S PROVE n + 1 \in S
  <2>1. PICK f \in [0..n -> Nat] : Doubles(f, n)
    BY <1>2 DEF Beginnings
  <2> DEFINE g == [i \in 0..(n + 1) |-> IF i = n + 1 THEN 2 * f[n] ELSE f[i]]
  <2>2. g \in [0..(n + 1) -> Nat]
    BY <2>1
  <2>3. g[0] = 1
    BY <2>1 DEF Doubles
  <2>4. ASSUME NEW i \in 1..(n + 1) PROVE g[i] = 2 * g[i - 1]
    BY <2>1 DEF Doubles
  <2>5. g \in Beginnings(n + 1)
    BY <2>2, <2>3, <2>4 DEF Beginnings, Doubles
  <2> QED  BY <2>5
<1> HIDE DEF S
<1>3. Nat \subseteq S
  BY <1>1, <1>2, NatSetInduction
<1> QED  BY <1>3 DEF S

\* Two choices are the same as far as both go.
LEMMA BeginningsAgree ==
  ASSUME NEW n \in Nat, NEW m \in Nat,
         NEW f \in Beginnings(n), NEW g \in Beginnings(m)
  PROVE  \A i \in Nat : i =< n /\ i =< m => f[i] = g[i]
<1> DEFINE S == {i \in Nat : i =< n /\ i =< m => f[i] = g[i]}
<1>1. 0 \in S
  BY DEF Beginnings, Doubles
<1>2. ASSUME NEW i \in Nat, i \in S PROVE i + 1 \in S
  <2> SUFFICES ASSUME i + 1 =< n, i + 1 =< m PROVE f[i + 1] = g[i + 1]
    OBVIOUS
  <2>1. f[i] = g[i]
    BY <1>2
  <2>2. i + 1 \in 1..n /\ i + 1 \in 1..m /\ (i + 1) - 1 = i
    OBVIOUS
  <2> QED  BY <2>1, <2>2 DEF Beginnings, Doubles
<1> HIDE DEF S
<1>3. Nat \subseteq S
  BY <1>1, <1>2, NatSetInduction
<1> QED  BY <1>3 DEF S

\* The recursive definition says what it seems to say.
LEMMA PowerOf2Def ==
  PowerOf2 = [n \in Nat |-> IF n = 0 THEN 1 ELSE 2 * PowerOf2[n - 1]]
<1> DEFINE B(n) == CHOOSE f \in [0..n -> Nat] : f \in Beginnings(n)
           G == [n \in Nat |-> B(n)[n]]
<1>1. ASSUME NEW n \in Nat PROVE B(n) \in Beginnings(n)
  <2>1. \E f \in [0..n -> Nat] : f \in Beginnings(n)
    BY BeginningExists DEF Beginnings
  <2> QED  BY <2>1
<1> HIDE DEF B
<1>2. ASSUME NEW n \in Nat PROVE G[n] = IF n = 0 THEN 1 ELSE 2 * G[n - 1]
  <2>1. CASE n = 0
    BY <1>1, <2>1 DEF Beginnings, Doubles
  <2>2. CASE n # 0
    <3>1. n - 1 \in Nat /\ n \in 1..n
      BY <2>2
    <3>2. B(n)[n] = 2 * B(n)[n - 1]
      BY <1>1, <3>1 DEF Beginnings, Doubles
    <3>3. B(n)[n - 1] = B(n - 1)[n - 1]
      BY <1>1, <3>1, BeginningsAgree
    <3> QED  BY <2>2, <3>1, <3>2, <3>3
  <2> QED  BY <2>1, <2>2
<1>3. G = [n \in Nat |-> IF n = 0 THEN 1 ELSE 2 * G[n - 1]]
  BY <1>2
<1> HIDE DEF G
<1>4. \E f : f = [n \in Nat |-> IF n = 0 THEN 1 ELSE 2 * f[n - 1]]
  BY <1>3
<1> QED  BY <1>4, Zenon DEF PowerOf2

\* Its values, as the shift computes them.
LEMMA PowerOf2Values ==
  /\ PowerOf2[0] = 1
  /\ \A n \in Nat : PowerOf2[n + 1] = 2 * PowerOf2[n]
<1>1. \A n \in Nat : PowerOf2[n] = IF n = 0 THEN 1 ELSE 2 * PowerOf2[n - 1]
  BY PowerOf2Def
<1>2. PowerOf2[0] = 1
  BY <1>1
<1>3. ASSUME NEW n \in Nat PROVE PowerOf2[n + 1] = 2 * PowerOf2[n]
  BY <1>1
<1> QED  BY <1>2, <1>3

\* Each is a number, and none is 0.
LEMMA PowerOf2Type == PowerOf2 \in [Nat -> Nat \ {0}]
<1> DEFINE S == {n \in Nat : PowerOf2[n] \in Nat \ {0}}
<1>1. 0 \in S
  BY PowerOf2Values
<1>2. ASSUME NEW n \in Nat, n \in S PROVE n + 1 \in S
  BY <1>2, PowerOf2Values
<1> HIDE DEF S
<1>3. Nat \subseteq S
  BY <1>1, <1>2, NatSetInduction
<1>4. \A n \in Nat : PowerOf2[n] \in Nat \ {0}
  BY <1>3 DEF S
<1> QED  BY <1>4, PowerOf2Def

\* A longer shift gives no less.
LEMMA PowerOf2Grows ==
  ASSUME NEW n \in Nat, NEW m \in Nat, m =< n
  PROVE  PowerOf2[m] =< PowerOf2[n]
<1> DEFINE S == {i \in Nat : PowerOf2[m] =< PowerOf2[m + i]}
<1>1. 0 \in S
  BY PowerOf2Type
<1>2. ASSUME NEW i \in Nat, i \in S PROVE i + 1 \in S
  <2>1. m + (i + 1) = (m + i) + 1 /\ m + i \in Nat
    OBVIOUS
  <2>2. PowerOf2[m + i] \in Nat /\ PowerOf2[m] \in Nat
    BY <2>1, PowerOf2Type
  <2> QED  BY <1>2, <2>1, <2>2, PowerOf2Values
<1> HIDE DEF S
<1>3. Nat \subseteq S
  BY <1>1, <1>2, NatSetInduction
<1>4. n - m \in Nat /\ m + (n - m) = n
  OBVIOUS
<1> QED  BY <1>3, <1>4 DEF S
==============================================================================
