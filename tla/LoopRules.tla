----------------------------- MODULE LoopRules -----------------------------
(***************************************************************************)
(* Proof rules for the loops of module Loops, the arithmetic they come     *)
(* with, and the sums over finite sets that MapThenSumSet takes.  Body is  *)
(* the body of a loop, Inv what holds after i turns; both have a           *)
(* parameter p for what the loop uses and does not change.  A proof        *)
(* module instantiates this one for each loop it is about.                 *)
(*                                                                         *)
(* The provers take no operator as the parameter of a lemma, so induction  *)
(* is over sets (SetInduction) and the rules are in a module whose         *)
(* constants are operators.                                                *)
(***************************************************************************)
EXTENDS Loops, WellFoundedInduction, TLAPS

CONSTANTS
  Body(_, _, _),   \* Body(p, t, i): the state after turn i if t was before
  Inv(_, _, _)     \* Inv(p, t, i): t is as it should be after i turns

TheFor(p, n, s) == For(n, LAMBDA t, i : Body(p, t, i), s)

-----------------------------------------------------------------------------

\* Induction: a set with 0 in it and with every number the next one.
LEMMA SetInduction ==
  ASSUME NEW S, 0 \in S, \A n \in Nat : n \in S => n + 1 \in S
  PROVE  Nat \subseteq S
<1> DEFINE Rest == Nat \ S
<1>1. SUFFICES ASSUME Rest # {} PROVE FALSE
  OBVIOUS
<1>2. PICK n \in Rest : \A m \in Rest : ~ (<<m, n>> \in OpToRel(<, Nat))
  <2> HIDE DEF Rest
  <2>1. Rest \subseteq Nat
    BY DEF Rest
  <2> QED
    BY <1>1, <2>1, NatLessThanWellFounded, WFMin, Zenon
<1>3. n - 1 \in Nat /\ n - 1 \in Rest
  OBVIOUS
<1>4. <<n - 1, n>> \in OpToRel(<, Nat)
  BY <1>3 DEF OpToRel
<1> QED
  BY <1>2, <1>3, <1>4

-----------------------------------------------------------------------------

\* The equation that defines the recursive function in For.
IsRun(after, p, n, s) ==
  after = [i \in 0 .. n |->
             IF i = 0 THEN s
             ELSE CHOOSE next \in {Body(p, t, i - 1) : t \in {after[i - 1]}} : TRUE]

LEMMA RunExists ==
  ASSUME NEW p, NEW n \in Nat, NEW s
  PROVE  \E after : IsRun(after, p, n, s)
<1> DEFINE S == {m \in Nat : \E after : IsRun(after, p, m, s)}
           Turn(t, i) == CHOOSE next \in {Body(p, u, i) : u \in {t}} : TRUE
<1>1. 0 \in S
  <2>1. IsRun([i \in 0 .. 0 |-> s], p, 0, s)
    BY DEF IsRun
  <2> QED
    BY <2>1
<1>2. ASSUME NEW m \in Nat, m \in S
      PROVE  m + 1 \in S
  <2>1. PICK f : IsRun(f, p, m, s)
    BY <1>2
  <2> DEFINE g == [i \in 0 .. m + 1 |-> IF i <= m THEN f[i] ELSE Turn(f[m], m)]
  <2>2. f = [i \in 0 .. m |-> IF i = 0 THEN s ELSE Turn(f[i - 1], i - 1)]
    BY <2>1 DEF IsRun
  <2>3. g = [i \in 0 .. m + 1 |-> IF i = 0 THEN s ELSE Turn(g[i - 1], i - 1)]
    <3> HIDE DEF Turn
    <3>1. \A i \in 0 .. m + 1 : g[i] = IF i = 0 THEN s ELSE Turn(g[i - 1], i - 1)
      BY <2>2
    <3> QED
      BY <3>1
  <2>4. IsRun(g, p, m + 1, s)
    <3> HIDE DEF g
    <3> QED
      BY <2>3 DEF IsRun
  <2> QED
    BY <2>4
<1> HIDE DEF S
<1>3. n \in S
  BY <1>1, <1>2, SetInduction
<1> QED
  BY <1>3 DEF S

\* What For computes: n turns of Body, one after the other.
LEMMA ForRuns ==
  ASSUME NEW p, NEW n \in Nat, NEW s
  PROVE  \E after : /\ TheFor(p, n, s) = after[n]
                    /\ after[0] = s
                    /\ \A i \in 0 .. n - 1 : after[i + 1] = Body(p, after[i], i)
<1> DEFINE after == CHOOSE f : IsRun(f, p, n, s)
<1>1. IsRun(after, p, n, s)
  BY RunExists
<1>2. TheFor(p, n, s) = after[n]
  BY DEF TheFor, For, IsRun
<1> HIDE DEF after
<1>3. after[0] = s
  BY <1>1 DEF IsRun
<1>4. ASSUME NEW i \in 0 .. n - 1
      PROVE  after[i + 1] = Body(p, after[i], i)
  <2>1. after[i + 1] = CHOOSE next \in {Body(p, t, i) : t \in {after[i]}} : TRUE
    BY <1>1 DEF IsRun
  <2> QED
    BY <2>1
<1> QED
  BY <1>2, <1>3, <1>4

(***************************************************************************)
(* The rule for a loop: what holds before it and is kept by every turn     *)
(* holds after it.                                                         *)
(***************************************************************************)
THEOREM ForRule ==
  ASSUME NEW p, NEW n \in Nat, NEW s,
         Inv(p, s, 0),
         ASSUME NEW t, NEW i \in 0 .. n - 1, Inv(p, t, i)
         PROVE  Inv(p, Body(p, t, i), i + 1)
  PROVE  Inv(p, TheFor(p, n, s), n)
<1>1. PICK after : /\ TheFor(p, n, s) = after[n]
                   /\ after[0] = s
                   /\ \A i \in 0 .. n - 1 : after[i + 1] = Body(p, after[i], i)
  BY ForRuns
<1> DEFINE S == {i \in Nat : i <= n => Inv(p, after[i], i)}
<1>2. 0 \in S
  BY <1>1
<1>3. ASSUME NEW i \in Nat, i \in S
      PROVE  i + 1 \in S
  <2> SUFFICES ASSUME i + 1 <= n
               PROVE  Inv(p, after[i + 1], i + 1)
    OBVIOUS
  <2>1. i \in 0 .. n - 1 /\ Inv(p, after[i], i)
    BY <1>3
  <2>2. Inv(p, Body(p, after[i], i), i + 1)
    BY <2>1
  <2> QED
    BY <1>1, <2>1, <2>2
<1> HIDE DEF S
<1>4. n \in S
  BY <1>2, <1>3, SetInduction
<1> QED
  BY <1>1, <1>4 DEF S

(***************************************************************************)
(* A loop with one turn more: its last turn follows the loop without it.   *)
(***************************************************************************)
LEMMA ForStep ==
  ASSUME NEW p, NEW n \in Nat, NEW s
  PROVE  /\ TheFor(p, 0, s) = s
         /\ TheFor(p, n + 1, s) = Body(p, TheFor(p, n, s), n)
<1>1. PICK short : /\ TheFor(p, n, s) = short[n]
                   /\ short[0] = s
                   /\ \A i \in 0 .. n - 1 : short[i + 1] = Body(p, short[i], i)
  BY ForRuns
<1>2. PICK long : /\ TheFor(p, n + 1, s) = long[n + 1]
                  /\ long[0] = s
                  /\ \A i \in 0 .. (n + 1) - 1 : long[i + 1] = Body(p, long[i], i)
  <2>1. n + 1 \in Nat
    OBVIOUS
  <2> QED
    BY <2>1, ForRuns
<1>3. TheFor(p, 0, s) = s
  <2>1. 0 \in Nat
    OBVIOUS
  <2>2. PICK none : TheFor(p, 0, s) = none[0] /\ none[0] = s
    BY <2>1, ForRuns
  <2> QED
    BY <2>2
<1> DEFINE S == {i \in Nat : i <= n => short[i] = long[i]}
<1>4. 0 \in S
  BY <1>1, <1>2
<1>5. ASSUME NEW i \in Nat, i \in S
      PROVE  i + 1 \in S
  <2> SUFFICES ASSUME i + 1 <= n
               PROVE  short[i + 1] = long[i + 1]
    OBVIOUS
  <2>1. i \in 0 .. n - 1 /\ i \in 0 .. (n + 1) - 1 /\ short[i] = long[i]
    BY <1>5
  <2> QED
    BY <1>1, <1>2, <2>1
<1> HIDE DEF S
<1>6. n \in S
  BY <1>4, <1>5, SetInduction
<1>7. short[n] = long[n]
  BY <1>6 DEF S
<1>8. n \in 0 .. (n + 1) - 1
  OBVIOUS
<1> QED
  BY <1>1, <1>2, <1>3, <1>7, <1>8
-----------------------------------------------------------------------------

(***************************************************************************)
(* Powers of two.  m bounds the exponents; Pow hides the power from the    *)
(* provers, which know nothing of it.                                      *)
(***************************************************************************)
Pow(n) == 2^n

\* Positive, by induction.
LEMMA PowNat ==
  ASSUME NEW m \in Nat, \A i \in 0 .. m : 2^(i + 1) = 2 * 2^i, NEW a \in 0 .. m + 1
  PROVE  2^a \in Nat \ {0}
<1>0. Pow(0) = 1 /\ \A i \in 0 .. m : Pow(i + 1) = 2 * Pow(i)
  BY DEF Pow
<1> DEFINE S == {i \in Nat : i <= m + 1 => Pow(i) \in Nat \ {0}}
<1>1. 0 \in S
  BY <1>0
<1>2. ASSUME NEW i \in Nat, i \in S
      PROVE  i + 1 \in S
  <2> SUFFICES ASSUME i <= m
               PROVE  Pow(i + 1) \in Nat \ {0}
    OBVIOUS
  <2> QED
    BY <1>0, <1>2
<1> HIDE DEF S
<1>3. a \in S
  BY <1>1, <1>2, SetInduction
<1> QED
  BY <1>3 DEF S, Pow

\* 2^(a + b) = 2^a * 2^b, by induction on b.
LEMMA PowSum ==
  ASSUME NEW m \in Nat, \A i \in 0 .. m : 2^(i + 1) = 2 * 2^i,
         NEW a \in Nat, NEW b \in Nat, a + b <= m + 1
  PROVE  2^(a + b) = 2^a * 2^b
<1>0. Pow(0) = 1 /\ \A i \in 0 .. m : Pow(i + 1) = 2 * Pow(i)
  BY DEF Pow
<1>1. \A i \in 0 .. m + 1 : Pow(i) \in Nat
  BY PowNat DEF Pow
<1> DEFINE S == {i \in Nat : a + i <= m + 1 => Pow(a + i) = Pow(a) * Pow(i)}
<1>2. 0 \in S
  BY <1>0, <1>1
<1>3. ASSUME NEW i \in Nat, i \in S
      PROVE  i + 1 \in S
  <2> SUFFICES ASSUME a + (i + 1) <= m + 1
               PROVE  Pow(a + (i + 1)) = Pow(a) * Pow(i + 1)
    OBVIOUS
  <2>1. Pow(a + i) = Pow(a) * Pow(i)
    BY <1>3
  <2>2. Pow(i + 1) = 2 * Pow(i) /\ Pow((a + i) + 1) = 2 * Pow(a + i)
    BY <1>0
  <2>3. Pow(a) \in Nat /\ Pow(i) \in Nat /\ (a + i) + 1 = a + (i + 1)
    BY <1>1
  <2> QED
    BY <2>1, <2>2, <2>3
<1> HIDE DEF S
<1>4. b \in S
  BY <1>2, <1>3, SetInduction
<1> QED
  BY <1>4 DEF S, Pow

\* A larger power is an even multiple of a smaller one.
LEMMA PowLess ==
  ASSUME NEW m \in Nat, \A i \in 0 .. m : 2^(i + 1) = 2 * 2^i,
         NEW a \in Nat, NEW b \in Nat, a < b, b <= m + 1
  PROVE  /\ 2^a < 2^b
         /\ \E q \in Nat : q > 0 /\ 2^b = (2 * q) * 2^a
<1>1. Pow(b) = Pow(a) * Pow(b - a)
  <2>1. a + (b - a) = b
    OBVIOUS
  <2>2. Pow(a + (b - a)) = Pow(a) * Pow(b - a)
    BY PowSum DEF Pow
  <2> QED
    BY <2>1, <2>2
<1>2. Pow((b - a - 1) + 1) = 2 * Pow(b - a - 1)
  BY DEF Pow
<1>3. /\ Pow(a) \in Nat \ {0} /\ Pow(b - a - 1) \in Nat \ {0}
      /\ (b - a - 1) + 1 = b - a
  BY PowNat DEF Pow
<1>4. Pow(b) = (2 * Pow(b - a - 1)) * Pow(a)
  BY <1>1, <1>2, <1>3
<1>5. Pow(a) < Pow(b)
  BY <1>3, <1>4
<1> QED
  BY <1>3, <1>4, <1>5 DEF Pow

\* What quotient and remainder are.
LEMMA DivMod ==
  ASSUME NEW x \in Int, NEW b \in Nat \ {0}
  PROVE  x \div b \in Int /\ x % b \in 0 .. b - 1 /\ x = (x \div b) * b + (x % b)
OBVIOUS

\* Quotient and remainder are what fits.
LEMMA DivUnique ==
  ASSUME NEW x \in Int, NEW q \in Int, NEW b \in Nat \ {0},
         q * b <= x, x < (q + 1) * b
  PROVE  x \div b = q /\ x % b = x - q * b
OBVIOUS

-----------------------------------------------------------------------------

(***************************************************************************)
(* Sums over finite sets, of the values of a function v.  A sum takes one  *)
(* element after the other, Picked first; sum[s] is that over s.           *)
(***************************************************************************)
Picked(s) == CHOOSE x \in s : TRUE
IsSum(sum, v, S) ==
  sum = [s \in SUBSET S |->
           IF s = {} THEN 0 ELSE v[Picked(s)] + sum[s \ {Picked(s)}]]

\* size gives the subsets of S their sizes, as Cardinality does if S is finite.
Sizes(size, S) ==
  \A s \in SUBSET S : /\ size[s] \in Nat /\ size[s] <= size[S]
                      /\ size[s] = 0 <=> s = {}
                      /\ \A x \in s : size[s \ {x}] = size[s] - 1

\* There are sums, by induction on the size of the sets.
LEMMA SumExists ==
  ASSUME NEW S, NEW size, Sizes(size, S), NEW v
  PROVE  \E sum : IsSum(sum, v, S)
<1> DEFINE Small(k) == {s \in SUBSET S : size[s] <= k}
           UpTo(k, f) == \A s \in Small(k) :
                           f[s] = IF s = {} THEN 0 ELSE v[Picked(s)] + f[s \ {Picked(s)}]
           M == {k \in Nat : \E f : UpTo(k, f)}
<1>0. \A s \in SUBSET S : size[s] \in Nat /\ size[s] <= size[S] /\ (size[s] = 0 <=> s = {})
  BY DEF Sizes
<1>1. 0 \in M
  <2>1. UpTo(0, [s \in SUBSET S |-> 0])
    <3> SUFFICES ASSUME NEW s \in Small(0)
                 PROVE  s = {}
      OBVIOUS
    <3>1. size[s] = 0
      BY <1>0
    <3> QED
      BY <1>0, <3>1
  <2> QED
    BY <2>1
<1>2. ASSUME NEW k \in Nat, k \in M
      PROVE  k + 1 \in M
  <2>1. PICK f : UpTo(k, f)
    BY <1>2
  <2> DEFINE g == [s \in SUBSET S |->
                     IF size[s] <= k THEN f[s]
                     ELSE v[Picked(s)] + f[s \ {Picked(s)}]]
  <2>2. ASSUME NEW s \in Small(k + 1), s # {}
        PROVE  g[s] = v[Picked(s)] + g[s \ {Picked(s)}]
    <3> DEFINE r == s \ {Picked(s)}
    <3>1. size[r] <= k /\ r \in SUBSET S /\ s \in SUBSET S /\ size[s] \in Nat
      <4>1. Picked(s) \in s
        BY <2>2 DEF Picked
      <4>2. size[r] = size[s] - 1
        BY <2>2, <4>1 DEF Sizes
      <4> QED
        BY <1>0, <2>2, <4>2
    <3>2. g[r] = f[r]
      BY <3>1
    <3>3. CASE size[s] <= k
      <4>1. f[s] = v[Picked(s)] + f[r]
        BY <2>1, <2>2, <3>1, <3>3
      <4> QED
        BY <3>1, <3>2, <3>3, <4>1
    <3>4. CASE ~ (size[s] <= k)
      BY <3>1, <3>2, <3>4
    <3> QED
      BY <3>3, <3>4
  <2>3. g[{}] = 0
    <3>1. {} \in Small(k)
      BY <1>0, <1>2
    <3> QED
      BY <2>1, <3>1
  <2>4. UpTo(k + 1, g)
    <3> HIDE DEF g
    <3> QED
      BY <2>2, <2>3
  <2> HIDE DEF g, UpTo
  <2> QED
    BY <2>4
<1> HIDE DEF M
<1>3. size[S] \in M
  <2>1. size[S] \in Nat
    BY <1>0
  <2> QED
    BY <1>1, <1>2, <2>1, SetInduction
<1>4. PICK f : UpTo(size[S], f)
  BY <1>3 DEF M
<1> DEFINE sum == [s \in SUBSET S |-> f[s]]
<1>5. \A s \in SUBSET S : sum[s] = IF s = {} THEN 0 ELSE v[Picked(s)] + sum[s \ {Picked(s)}]
  BY <1>0, <1>4
<1>6. sum = [s \in SUBSET S |-> IF s = {} THEN 0 ELSE v[Picked(s)] + sum[s \ {Picked(s)}]]
  BY <1>5
<1> HIDE DEF sum
<1>7. IsSum(sum, v, S)
  BY <1>6 DEF IsSum
<1> QED
  BY <1>7

\* One step of a sum.
LEMMA SumStep ==
  ASSUME NEW S, NEW v, NEW sum, IsSum(sum, v, S)
  PROVE  \A s \in SUBSET S :
           sum[s] = IF s = {} THEN 0 ELSE v[Picked(s)] + sum[s \ {Picked(s)}]
  BY DEF IsSum
=============================================================================
