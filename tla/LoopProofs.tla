------------------------------ MODULE LoopProofs ------------------------------
(* Facts about loops and about numbers.                                     *)
(*                                                                          *)
(* The library's induction theorems cannot be used (they take an operator); *)
(* instead, a loop that went wrong would have a first round that did        *)
(* (LeastNat).                                                              *)
EXTENDS Integers, WellFoundedInduction, TLAPS

------------------------------------------------------------------------------
(* Loops                                                                    *)

(* The library states this with a relation.                                 *)
LEMMA LeastIn ==
  ASSUME NEW R, IsWellFoundedOn(R, Nat), NEW S, S \subseteq Nat, S # {}
  PROVE  \E n \in S : \A m \in S : ~(<<m, n>> \in R)
BY WFMin, Zenon

LEMMA LeastBy ==
  ASSUME NEW R, IsWellFoundedOn(R, Nat), \A m, n \in Nat : <<m, n>> \in R <=> m < n,
         NEW S, S \subseteq Nat, S # {}
  PROVE  \E n \in S : \A m \in S : n =< m
<1>1. \E n \in S : \A m \in S : ~(<<m, n>> \in R)
  BY LeastIn, Zenon
<1>2. PICK n \in S : \A m \in S : ~(<<m, n>> \in R)
  BY <1>1
<1>3. \A m \in S : n =< m
  <2>1. TAKE m \in S
  <2>2. ~(<<m, n>> \in R) /\ m \in Nat /\ n \in Nat
    BY <1>2
  <2>3. QED
    BY <2>2
<1>4. QED
  BY <1>3

(* A set of numbers has a least one.                                        *)
LEMMA LeastNat ==
  ASSUME NEW S, S \subseteq Nat, S # {}
  PROVE  \E n \in S : \A m \in S : n =< m
<1>1. \A m, n \in Nat : <<m, n>> \in OpToRel(<, Nat) <=> m < n
  BY DEF OpToRel
<1>2. QED
  BY <1>1, NatLessThanWellFounded, LeastBy, Zenon

(* What each round of a loop preserves holds to its end.                    *)
LEMMA LoopKeeps ==
  ASSUME NEW n \in Nat, NEW X, NEW f,
         f[0] \in X, \A i \in 1 .. n : f[i - 1] \in X => f[i] \in X
  PROVE  \A i \in 0 .. n : f[i] \in X
<1> DEFINE Wrong == {i \in 0 .. n : f[i] \notin X}
<1>1. SUFFICES ASSUME Wrong # {} PROVE FALSE
  OBVIOUS
<1>2. PICK b \in Wrong : \A m \in Wrong : b =< m
  <2>1. Wrong \subseteq Nat
    OBVIOUS
  <2> HIDE DEF Wrong
  <2>2. QED
    BY <1>1, <2>1, LeastNat
<1>3. b # 0 /\ b \in 1 .. n
  BY <1>2
<1>4. b - 1 \notin Wrong
  BY <1>2, <1>3
<1>5. f[b - 1] \in X
  BY <1>3, <1>4
<1>6. QED
  BY <1>2, <1>3, <1>5

(* A loop of n rounds: the values before the first and after each of them.  *)
Loop(n, X, start, step) ==
  {f \in [0 .. n -> X] : f[0] = start /\ \A i \in 1 .. n : f[i] = step[<<i, f[i - 1]>>]}

(* A loop whose rounds are defined has such values.                         *)
LEMMA LoopExists ==
  ASSUME NEW n \in Nat, NEW X, NEW start \in X, NEW step \in [(1 .. n) \X X -> X]
  PROVE  Loop(n, X, start, step) # {}
<1> DEFINE Runs(f, k) == f[0] = start /\ \A i \in 1 .. k : f[i] = step[<<i, f[i - 1]>>]
           Stuck == {k \in 0 .. n : ~ \E f \in [0 .. k -> X] : Runs(f, k)}
<1>1. SUFFICES ASSUME Stuck # {} PROVE FALSE
  <2>1. n \notin Stuck
    BY <1>1
  <2>2. QED
    BY <2>1 DEF Loop
<1>2. PICK b \in Stuck : \A m \in Stuck : b =< m
  <2>1. Stuck \subseteq Nat
    OBVIOUS
  <2> HIDE DEF Stuck
  <2>2. QED
    BY <1>1, <2>1, LeastNat
<1>3. b # 0
  <2> DEFINE f == [i \in 0 .. 0 |-> start]
  <2>1. f \in [0 .. 0 -> X] /\ Runs(f, 0)
    OBVIOUS
  <2>2. QED
    BY <1>2, <2>1
<1>4. b - 1 \in 0 .. n /\ b - 1 \notin Stuck
  BY <1>2, <1>3
<1>5. PICK f \in [0 .. b - 1 -> X] : Runs(f, b - 1)
  BY <1>4
<1> DEFINE g == [i \in 0 .. b |-> IF i = b THEN step[<<b, f[b - 1]>>] ELSE f[i]]
<1>6. step[<<b, f[b - 1]>>] \in X
  BY <1>2, <1>3, <1>5
<1>7. g \in [0 .. b -> X]
  BY <1>2, <1>5, <1>6
<1>8. Runs(g, b)
  <2>1. g[0] = start
    BY <1>2, <1>3, <1>5
  <2>2. ASSUME NEW i \in 1 .. b PROVE g[i] = step[<<i, g[i - 1]>>]
    <3>1. b \in Nat /\ i - 1 \in 0 .. b - 1
      BY <1>2, <2>2
    <3>2. g[i - 1] = f[i - 1]
      BY <3>1
    <3>3. i # b => g[i] = f[i] /\ i \in 1 .. b - 1
      BY <3>1, <2>2
    <3>4. g[b] = step[<<b, f[b - 1]>>]
      BY <3>1
    <3>5. QED
      BY <3>2, <3>3, <3>4, <1>5
  <2>3. QED
    BY <2>1, <2>2
<1>9. QED
  BY <1>2, <1>7, <1>8

------------------------------------------------------------------------------
(* Arithmetic                                                               *)

LEMMA DivMod ==
  ASSUME NEW a \in Nat, NEW m \in Nat, m > 0
  PROVE  /\ a \div m \in Nat /\ a % m \in 0 .. m - 1
         /\ a = m * (a \div m) + (a % m)
<1>1. a % m = a - m * (a \div m)
  OBVIOUS
<1>2. a \div m \in Nat /\ a % m \in 0 .. m - 1
  OBVIOUS
<1>3. m * (a \div m) \in Int
  BY <1>2
<1>4. QED
  BY <1>1, <1>2, <1>3

LEMMA RemainderIs ==
  ASSUME NEW a \in Nat, NEW m \in Nat, m > 0, NEW q \in Nat, NEW r \in 0 .. m - 1,
         a = q * m + r
  PROVE  a % m = r
OBVIOUS

(* A multiple of the modulus does not count.                                *)
LEMMA ModShift ==
  ASSUME NEW a \in Nat, NEW m \in Nat, m > 0, NEW k \in Nat
  PROVE  (a + k * m) % m = a % m
<1> DEFINE q == a \div m
           r == a % m
<1>1. q \in Nat /\ r \in 0 .. m - 1 /\ a = m * q + r
  BY DivMod
<1> HIDE DEF q, r
<1>2. k * m \in Nat /\ a + k * m \in Nat /\ q + k \in Nat
  BY <1>1
<1>3. a + k * m = (q + k) * m + r
  BY <1>1
<1>4. (a + k * m) % m = r
  BY <1>1, <1>2, <1>3, RemainderIs
<1>5. QED
  BY <1>4 DEF r
==============================================================================
