----------------------------- MODULE WotsProofs -----------------------------
(***************************************************************************)
(* Proofs about Wots for all digests: signatures fit their digest and no   *)
(* other, the checksum keeps all its digits, and no digest's chains are    *)
(* all at least as long as another's.  The last two need a w of 4 or 16    *)
(* and digests short enough for the digits of the checksum.                *)
(***************************************************************************)
EXTENDS Wots, FiniteSetTheorems, TLAPS

\* Induction and sums, from LoopRules; the loop itself plays no part.
NoTurn(p, t, i) == t
NoInv(p, t, i) == TRUE
Rules == INSTANCE LoopRules WITH Body <- NoTurn, Inv <- NoInv

\* Taking the picked element out of a set.
LEMMA PickedOut ==
  ASSUME NEW s, IsFiniteSet(s), s # {}
  PROVE  /\ Rules!Picked(s) \in s
         /\ IsFiniteSet(s \ {Rules!Picked(s)})
         /\ Cardinality(s) \in Nat
         /\ Cardinality(s \ {Rules!Picked(s)}) = Cardinality(s) - 1
<1>1. Rules!Picked(s) \in s
  BY DEF Rules!Picked
<1> QED
  BY <1>1, FS_RemoveElement, FS_CardinalityType

\* There are sums over finite sets.
LEMMA SumExists ==
  ASSUME NEW S, IsFiniteSet(S), NEW v
  PROVE  \E sum : Rules!IsSum(sum, v, S)
<1> DEFINE size == [s \in SUBSET S |-> Cardinality(s)]
<1>1. ASSUME NEW s \in SUBSET S
      PROVE  /\ size[s] \in Nat /\ size[s] <= size[S]
             /\ size[s] = 0 <=> s = {}
             /\ \A x \in s : size[s \ {x}] = size[s] - 1
  <2>1. IsFiniteSet(s) /\ Cardinality(s) \in Nat /\ Cardinality(s) <= Cardinality(S)
    BY FS_Subset, FS_CardinalityType
  <2>2. Cardinality(s) = 0 <=> s = {}
    BY <2>1, FS_EmptySet
  <2>3. \A x \in s : Cardinality(s \ {x}) = Cardinality(s) - 1
    BY <2>1, FS_RemoveElement
  <2> QED
    BY <2>1, <2>2, <2>3
<1> HIDE DEF size
<1> QED
  BY <1>1, Rules!SumExists DEF Rules!Sizes

-----------------------------------------------------------------------------

\* The sum of numbers from 0 to m.
LEMMA SumBound ==
  ASSUME NEW S, IsFiniteSet(S), NEW m \in Nat, NEW v, \A x \in S : v[x] \in 0 .. m,
         NEW sum, Rules!IsSum(sum, v, S)
  PROVE  sum[S] \in Nat /\ sum[S] <= m * Cardinality(S)
<1> DEFINE M == {k \in Nat : \A s \in SUBSET S :
                               Cardinality(s) = k => sum[s] \in Nat /\ sum[s] <= m * k}
<1>0. \A s \in SUBSET S : IsFiniteSet(s) /\ Cardinality(s) \in Nat
  BY FS_Subset, FS_CardinalityType
<1>s. \A s \in SUBSET S :
        sum[s] = IF s = {} THEN 0 ELSE v[Rules!Picked(s)] + sum[s \ {Rules!Picked(s)}]
  BY DEF Rules!IsSum
<1>1. 0 \in M
  <2> SUFFICES ASSUME NEW s \in SUBSET S, Cardinality(s) = 0
               PROVE  sum[s] = 0
    OBVIOUS
  <2>1. s = {}
    BY <1>0, FS_EmptySet
  <2> QED
    BY <1>s, <2>1
<1>2. ASSUME NEW k \in Nat, k \in M
      PROVE  k + 1 \in M
  <2> SUFFICES ASSUME NEW s \in SUBSET S, Cardinality(s) = k + 1
               PROVE  sum[s] \in Nat /\ sum[s] <= m * (k + 1)
    OBVIOUS
  <2> DEFINE r == s \ {Rules!Picked(s)}
  <2>1. s # {} /\ IsFiniteSet(s)
    BY <1>0, FS_EmptySet
  <2>2. Cardinality(r) = k /\ r \in SUBSET S /\ Rules!Picked(s) \in S
    BY <2>1, PickedOut
  <2>3. sum[r] \in Nat /\ sum[r] <= m * k
    BY <1>2, <2>2
  <2>4. sum[s] = v[Rules!Picked(s)] + sum[r]
    BY <1>s, <2>1
  <2>5. v[Rules!Picked(s)] \in 0 .. m
    BY <2>2
  <2> HIDE DEF r
  <2>6. m * (k + 1) = m * k + m
    OBVIOUS
  <2> QED
    BY <2>3, <2>4, <2>5, <2>6
<1> HIDE DEF M
<1>3. Cardinality(S) \in M
  BY <1>0, <1>1, <1>2, Rules!SetInduction
<1> QED
  BY <1>3 DEF M

\* One step of a sum.
LEMMA SumStepIs ==
  ASSUME NEW S, NEW v, NEW sum, Rules!IsSum(sum, v, S), NEW s \in SUBSET S
  PROVE  /\ s = {} => sum[s] = 0
         /\ s # {} => sum[s] = v[Rules!Picked(s)] + sum[s \ {Rules!Picked(s)}]
<1>1. sum[s] = IF s = {} THEN 0
               ELSE v[Rules!Picked(s)] + sum[s \ {Rules!Picked(s)}]
  BY Rules!SumStep
<1> QED
  BY <1>1

\* Sums grow with what is summed.
LEMMA SumLess ==
  ASSUME NEW S, IsFiniteSet(S), NEW u, NEW v,
         \A x \in S : u[x] \in Nat /\ v[x] \in Nat /\ u[x] <= v[x],
         NEW usum, Rules!IsSum(usum, u, S), NEW vsum, Rules!IsSum(vsum, v, S)
  PROVE  /\ usum[S] \in Nat /\ vsum[S] \in Nat /\ usum[S] <= vsum[S]
         /\ (\E x \in S : u[x] < v[x]) => usum[S] < vsum[S]
<1> DEFINE Less(s) == /\ usum[s] \in Nat /\ vsum[s] \in Nat /\ usum[s] <= vsum[s]
                      /\ (\E x \in s : u[x] < v[x]) => usum[s] < vsum[s]
           M == {k \in Nat : \A s \in SUBSET S : Cardinality(s) = k => Less(s)}
<1>0. \A s \in SUBSET S : IsFiniteSet(s) /\ Cardinality(s) \in Nat
  BY FS_Subset, FS_CardinalityType
<1>1. 0 \in M
  <2> SUFFICES ASSUME NEW s \in SUBSET S, Cardinality(s) = 0
               PROVE  Less(s)
    OBVIOUS
  <2>1. s = {}
    BY <1>0, FS_EmptySet
  <2>2. usum[s] = 0 /\ vsum[s] = 0
    BY <2>1, SumStepIs
  <2> QED
    BY <2>1, <2>2
<1>2. ASSUME NEW k \in Nat, k \in M
      PROVE  k + 1 \in M
  <2> SUFFICES ASSUME NEW s \in SUBSET S, Cardinality(s) = k + 1
               PROVE  Less(s)
    OBVIOUS
  <2> DEFINE e == Rules!Picked(s)
             r == s \ {e}
  <2>1. s # {} /\ IsFiniteSet(s)
    BY <1>0, FS_EmptySet
  <2>2. Cardinality(r) = k /\ r \in SUBSET S /\ e \in S /\ e \in s
    BY <2>1, PickedOut
  <2>3. Less(r)
    BY <1>2, <2>2
  <2>4. usum[s] = u[e] + usum[r] /\ vsum[s] = v[e] + vsum[r]
    BY <2>1, SumStepIs
  <2>5. u[e] \in Nat /\ v[e] \in Nat /\ u[e] <= v[e]
    BY <2>2
  <2>6. \A x \in s : x = e \/ x \in r
    OBVIOUS
  <2> HIDE DEF e, r
  <2>7. (\E x \in s : u[x] < v[x]) => u[e] < v[e] \/ (\E x \in r : u[x] < v[x])
    BY <2>6
  <2> QED
    BY <2>3, <2>4, <2>5, <2>7
<1> HIDE DEF M, Less
<1>3. Cardinality(S) \in M
  BY <1>0, <1>1, <1>2, Rules!SetInduction
<1>4. Less(S)
  BY <1>3 DEF M
<1> QED
  BY <1>4 DEF Less

\* The order makes no difference.
Terms(v, S) == \A x \in S : v[x] \in Int

AnyOrder(sum, v, S) ==
  \A s \in SUBSET S : sum[s] \in Int /\ \A x \in s : sum[s] = v[x] + sum[s \ {x}]

LEMMA SumTake ==
  ASSUME NEW S, IsFiniteSet(S), NEW v, Terms(v, S), NEW sum, Rules!IsSum(sum, v, S)
  PROVE  AnyOrder(sum, v, S)
<1> USE DEF Terms, AnyOrder
<1> DEFINE Takes(s) == sum[s] \in Int /\ \A x \in s : sum[s] = v[x] + sum[s \ {x}]
           M == {k \in Nat : \A s \in SUBSET S : Cardinality(s) <= k => Takes(s)}
<1>0. \A s \in SUBSET S : IsFiniteSet(s) /\ Cardinality(s) \in Nat
  BY FS_Subset, FS_CardinalityType
<1>s. \A s \in SUBSET S :
        sum[s] = IF s = {} THEN 0 ELSE v[Rules!Picked(s)] + sum[s \ {Rules!Picked(s)}]
  BY Rules!SumStep
<1>1. ASSUME NEW s \in SUBSET S, Cardinality(s) <= 0
      PROVE  Takes(s)
  <2>1. s = {}
    BY <1>0, <1>1, FS_EmptySet
  <2>2. sum[s] = 0
    BY <1>s, <2>1
  <2> QED
    BY <2>1, <2>2
<1>2. ASSUME NEW k \in Nat, \A s \in SUBSET S : Cardinality(s) <= k => Takes(s),
             NEW s \in SUBSET S, Cardinality(s) = k + 1
      PROVE  Takes(s)
  <2> DEFINE e == Rules!Picked(s)
             r == s \ {e}
  <2>1. s # {} /\ IsFiniteSet(s)
    BY <1>0, <1>2, FS_EmptySet
  <2>2. Cardinality(r) = k /\ r \in SUBSET S /\ e \in S /\ e \in s
    BY <1>2, <2>1, PickedOut
  <2>3. sum[s] = v[e] + sum[r]
    BY <1>s, <2>1
  <2> HIDE DEF e
  <2>4. Takes(r)
    <3>1. Cardinality(r) <= k
      BY <2>2
    <3> HIDE DEF Takes
    <3> QED
      BY <1>2, <2>2, <3>1
  <2>5. v[e] \in Int /\ sum[r] \in Int
    BY <2>2, <2>4
  <2>6. ASSUME NEW x \in s, x # e
        PROVE  sum[s] = v[x] + sum[s \ {x}]
    <3> DEFINE t == s \ {x}
               q == r \ {x}
    <3>1. t \in SUBSET S /\ e \in t /\ t \ {e} = q /\ x \in r /\ x \in S /\ q \in SUBSET S
      BY <2>2, <2>6
    <3>2. Cardinality(t) <= k
      <4>1. Cardinality(t) = Cardinality(s) - 1
        BY <2>1, FS_RemoveElement
      <4> QED
        BY <1>2, <4>1
    <3>3. Cardinality(q) <= k
      <4>1. q \in SUBSET r /\ IsFiniteSet(r)
        BY <1>0, <2>2
      <4> QED
        BY <2>2, <4>1, FS_Subset
    <3>4. Takes(t) /\ Takes(q)
      <4> HIDE DEF Takes, t, q
      <4> QED
        BY <1>2, <3>1, <3>2, <3>3
    <3>5. sum[t] = v[e] + sum[q] /\ sum[q] \in Int
      BY <3>1, <3>4
    <3>6. sum[r] = v[x] + sum[q] /\ v[x] \in Int
      BY <2>4, <3>1
    <3> HIDE DEF t, q, r
    <3>7. sum[s] = v[x] + sum[t]
      BY <2>3, <2>5, <3>5, <3>6
    <3> QED
      BY <3>7 DEF t
  <2>7. sum[s] \in Int /\ \A x \in s : sum[s] = v[x] + sum[s \ {x}]
    <3>1. \A x \in s : x # e => sum[s] = v[x] + sum[s \ {x}]
      BY <2>6
    <3>2. sum[s] = v[e] + sum[s \ {e}]
      BY <2>3
    <3>3. sum[s] \in Int
      BY <2>3, <2>5
    <3> QED
      BY <3>1, <3>2, <3>3
  <2> QED
    BY <2>7
<1>3. 0 \in M
  BY <1>1
<1>4. ASSUME NEW k \in Nat, k \in M
      PROVE  k + 1 \in M
  <2> HIDE DEF Takes
  <2>1. \A s \in SUBSET S : Cardinality(s) <= k => Takes(s)
    BY <1>4
  <2> SUFFICES ASSUME NEW s \in SUBSET S, Cardinality(s) <= k + 1
               PROVE  Takes(s)
    OBVIOUS
  <2>2. Cardinality(s) <= k \/ Cardinality(s) = k + 1
    BY <1>0
  <2> QED
    BY <1>2, <2>1, <2>2
<1> HIDE DEF M
<1>5. ASSUME NEW s \in SUBSET S
      PROVE  Takes(s)
  <2>1. Cardinality(s) \in Nat
    BY <1>0
  <2>2. Cardinality(s) \in M
    BY <1>3, <1>4, <2>1, Rules!SetInduction
  <2> HIDE DEF Takes
  <2> QED
    BY <2>1, <2>2 DEF M
<1> QED
  BY <1>5

-----------------------------------------------------------------------------

(***************************************************************************)
(* What xmss_xmssmt_initialize_params makes of w, for digests of N bytes.  *)
(***************************************************************************)
Shape(par) ==
  \/ par.w = 4   /\ par.log_w = 2 /\ par.len1 = 4 * N /\ par.len2 = 5
  \/ par.w = 16  /\ par.log_w = 4 /\ par.len1 = 2 * N /\ par.len2 = 3
  \/ par.w = 256 /\ par.log_w = 8 /\ par.len1 = N     /\ par.len2 = 2

LEMMA ParamsShape ==
  ASSUME NEW w \in Ws
  PROVE  Shape(Params(w))
<1>1. w \in {4, 16, 256} /\ N \in Nat
  BY WotsAssumption
<1>2. CASE w = 4
  BY <1>1, <1>2 DEF Params, Shape
<1>3. CASE w = 16
  BY <1>1, <1>3 DEF Params, Shape
<1>4. CASE w = 256
  BY <1>1, <1>4 DEF Params, Shape
<1> QED
  BY <1>1, <1>2, <1>3, <1>4

\* Bytes, and digests of them.
Byte == 0 .. 255
IsDigest(d) == d = [i \in 0 .. N - 1 |-> d[i]] /\ \A i \in 0 .. N - 1 : d[i] \in Byte

LEMMA DigestsAre ==
  ASSUME NEW d \in Digests
  PROVE  IsDigest(d)
<1>1. PICK a \in Bytes, b \in Bytes, f \in Fills :
        d = [i \in 0 .. N - 1 |-> IF i = 0 THEN a ELSE IF i = 1 THEN b ELSE f]
  BY DEF Digests
<1>2. a \in Byte /\ b \in Byte /\ f \in Byte
  BY WotsAssumption DEF Byte
<1>3. \A i \in 0 .. N - 1 : d[i] \in Byte
  BY <1>1, <1>2
<1>4. d = [i \in 0 .. N - 1 |-> d[i]]
  BY <1>1
<1> QED
  BY <1>3, <1>4 DEF IsDigest

\* base_w digit by digit: with w = 256 a digit is a byte,
LEMMA Digit256 ==
  ASSUME NEW par, par.w = 256, par.log_w = 8, NEW n \in Nat, NEW input,
         NEW k \in 0 .. n - 1, input[k] \in Byte
  PROVE  base_w(par, n, input)[k] = input[k]
<1>1. (k * 8) \div 8 = k /\ (k * 8) % 8 = 0 /\ 2^(8 - 8 - 0) = 1
  OBVIOUS
<1>2. base_w(par, n, input)[k] = (input[(k * 8) \div 8] \div 2^(8 - 8 - ((k * 8) % 8))) % 256
  BY DEF base_w
<1>3. base_w(par, n, input)[k] = (input[k] \div 1) % 256
  BY <1>1, <1>2
<1> QED
  BY <1>3 DEF Byte

\* with w = 16 two make a byte,
LEMMA Digit16 ==
  ASSUME NEW par, par.w = 16, par.log_w = 4, NEW n \in Nat, NEW input,
         NEW j \in Nat, input[j] \in Byte
  PROVE  /\ 2 * j < n     => base_w(par, n, input)[2 * j] = input[j] \div 16
         /\ 2 * j + 1 < n => base_w(par, n, input)[2 * j + 1] = input[j] % 16
<1>1. ASSUME 2 * j < n
      PROVE  base_w(par, n, input)[2 * j] = input[j] \div 16
  <2>1. ((2 * j) * 4) \div 8 = j /\ ((2 * j) * 4) % 8 = 0 /\ 2^(8 - 4 - 0) = 16
    OBVIOUS
  <2>2. 2 * j \in 0 .. n - 1
    BY <1>1
  <2>3. base_w(par, n, input)[2 * j] = (input[j] \div 16) % 16
    BY <2>1, <2>2 DEF base_w
  <2> QED
    BY <2>3 DEF Byte
<1>2. ASSUME 2 * j + 1 < n
      PROVE  base_w(par, n, input)[2 * j + 1] = input[j] % 16
  <2>1. ((2 * j + 1) * 4) \div 8 = j /\ ((2 * j + 1) * 4) % 8 = 4 /\ 2^(8 - 4 - 4) = 1
    OBVIOUS
  <2>2. 2 * j + 1 \in 0 .. n - 1
    BY <1>2
  <2>3. base_w(par, n, input)[2 * j + 1] = (input[j] \div 1) % 16
    BY <2>1, <2>2 DEF base_w
  <2> QED
    BY <2>3 DEF Byte
<1> QED
  BY <1>1, <1>2

\* and with w = 4 four.
LEMMA Digit4 ==
  ASSUME NEW par, par.w = 4, par.log_w = 2, NEW n \in Nat, NEW input,
         NEW j \in Nat, input[j] \in Byte
  PROVE  /\ 4 * j < n     => base_w(par, n, input)[4 * j] = input[j] \div 64
         /\ 4 * j + 1 < n => base_w(par, n, input)[4 * j + 1] = (input[j] \div 16) % 4
         /\ 4 * j + 2 < n => base_w(par, n, input)[4 * j + 2] = (input[j] \div 4) % 4
         /\ 4 * j + 3 < n => base_w(par, n, input)[4 * j + 3] = input[j] % 4
<1>1. ASSUME 4 * j < n
      PROVE  base_w(par, n, input)[4 * j] = input[j] \div 64
  <2>1. ((4 * j) * 2) \div 8 = j /\ ((4 * j) * 2) % 8 = 0 /\ 2^(8 - 2 - 0) = 64
    OBVIOUS
  <2>2. 4 * j \in 0 .. n - 1
    BY <1>1
  <2>3. base_w(par, n, input)[4 * j] = (input[j] \div 64) % 4
    BY <2>1, <2>2 DEF base_w
  <2> QED
    BY <2>3 DEF Byte
<1>2. ASSUME 4 * j + 1 < n
      PROVE  base_w(par, n, input)[4 * j + 1] = (input[j] \div 16) % 4
  <2>1. ((4 * j + 1) * 2) \div 8 = j /\ ((4 * j + 1) * 2) % 8 = 2 /\ 2^(8 - 2 - 2) = 16
    OBVIOUS
  <2>2. 4 * j + 1 \in 0 .. n - 1
    BY <1>2
  <2> QED
    BY <2>1, <2>2 DEF base_w
<1>3. ASSUME 4 * j + 2 < n
      PROVE  base_w(par, n, input)[4 * j + 2] = (input[j] \div 4) % 4
  <2>1. ((4 * j + 2) * 2) \div 8 = j /\ ((4 * j + 2) * 2) % 8 = 4 /\ 2^(8 - 2 - 4) = 4
    OBVIOUS
  <2>2. 4 * j + 2 \in 0 .. n - 1
    BY <1>3
  <2> QED
    BY <2>1, <2>2 DEF base_w
<1>4. ASSUME 4 * j + 3 < n
      PROVE  base_w(par, n, input)[4 * j + 3] = input[j] % 4
  <2>1. ((4 * j + 3) * 2) \div 8 = j /\ ((4 * j + 3) * 2) % 8 = 6 /\ 2^(8 - 2 - 6) = 1
    OBVIOUS
  <2>2. 4 * j + 3 \in 0 .. n - 1
    BY <1>4
  <2>3. base_w(par, n, input)[4 * j + 3] = (input[j] \div 1) % 4
    BY <2>1, <2>2 DEF base_w
  <2> QED
    BY <2>3 DEF Byte
<1> QED
  BY <1>1, <1>2, <1>3, <1>4

\* The digits of a digest are digits,
LEMMA DigitsAre ==
  ASSUME NEW par, Shape(par), NEW d, IsDigest(d)
  PROVE  /\ DOMAIN base_w(par, par.len1, d) = 0 .. par.len1 - 1
         /\ \A k \in 0 .. par.len1 - 1 : base_w(par, par.len1, d)[k] \in 0 .. par.w - 1
<1>1. N \in Nat /\ \A j \in 0 .. N - 1 : d[j] \in Byte
  BY WotsAssumption DEF IsDigest
<1>2. DOMAIN base_w(par, par.len1, d) = 0 .. par.len1 - 1
  BY DEF base_w
<1>3. ASSUME NEW k \in 0 .. par.len1 - 1
      PROVE  base_w(par, par.len1, d)[k] \in 0 .. par.w - 1
  <2>1. CASE par.w = 256 /\ par.log_w = 8 /\ par.len1 = N
    BY <1>1, <2>1, Digit256 DEF Byte
  <2>2. CASE par.w = 16 /\ par.log_w = 4 /\ par.len1 = 2 * N
    <3> DEFINE j == k \div 2
    <3>1. j \in 0 .. N - 1 /\ j \in Nat /\ (k = 2 * j \/ k = 2 * j + 1)
      BY <1>1, <2>2
    <3>2. d[j] \in Byte
      BY <1>1, <3>1
    <3> HIDE DEF j
    <3>3. /\ 2 * j < 2 * N /\ 2 * j + 1 < 2 * N /\ 2 * N \in Nat
      BY <1>1, <3>1
    <3>4. /\ base_w(par, 2 * N, d)[2 * j] = d[j] \div 16
          /\ base_w(par, 2 * N, d)[2 * j + 1] = d[j] % 16
      BY <2>2, <3>1, <3>2, <3>3, Digit16
    <3> QED
      BY <2>2, <3>1, <3>2, <3>4 DEF Byte
  <2>3. CASE par.w = 4 /\ par.log_w = 2 /\ par.len1 = 4 * N
    <3> DEFINE j == k \div 4
    <3>1. /\ j \in 0 .. N - 1 /\ j \in Nat
          /\ k = 4 * j \/ k = 4 * j + 1 \/ k = 4 * j + 2 \/ k = 4 * j + 3
      BY <1>1, <2>3
    <3>2. d[j] \in Byte
      BY <1>1, <3>1
    <3> HIDE DEF j
    <3>3. /\ 4 * j < 4 * N /\ 4 * j + 1 < 4 * N /\ 4 * j + 2 < 4 * N /\ 4 * j + 3 < 4 * N
          /\ 4 * N \in Nat
      BY <1>1, <3>1
    <3>4. /\ base_w(par, 4 * N, d)[4 * j] = d[j] \div 64
          /\ base_w(par, 4 * N, d)[4 * j + 1] = (d[j] \div 16) % 4
          /\ base_w(par, 4 * N, d)[4 * j + 2] = (d[j] \div 4) % 4
          /\ base_w(par, 4 * N, d)[4 * j + 3] = d[j] % 4
      BY <2>3, <3>1, <3>2, <3>3, Digit4
    <3> QED
      BY <2>3, <3>1, <3>2, <3>4 DEF Byte
  <2> QED
    BY <2>1, <2>2, <2>3 DEF Shape
<1> QED
  BY <1>2, <1>3

\* two make up their byte,
LEMMA TwoDigits ==
  ASSUME NEW x \in Byte
  PROVE  x = 16 * (x \div 16) + (x % 16)
  BY DEF Byte

\* and so do four,
LEMMA FourDigits ==
  ASSUME NEW x \in Byte
  PROVE  x = 64 * (x \div 64) + 16 * ((x \div 16) % 4) + 4 * ((x \div 4) % 4) + (x % 4)
  BY DEF Byte

\* and say which digest it is.
LEMMA DigitsDiffer ==
  ASSUME NEW par, Shape(par), NEW c, IsDigest(c), NEW d, IsDigest(d), c # d
  PROVE  \E k \in 0 .. par.len1 - 1 : base_w(par, par.len1, c)[k] # base_w(par, par.len1, d)[k]
<1>1. N \in Nat /\ \A j \in 0 .. N - 1 : c[j] \in Byte /\ d[j] \in Byte
  BY WotsAssumption DEF IsDigest
<1>2. PICK j \in 0 .. N - 1 : c[j] # d[j]
  BY DEF IsDigest
<1>3. j \in Nat /\ c[j] \in Byte /\ d[j] \in Byte
  BY <1>1
<1>4. CASE par.w = 256 /\ par.log_w = 8 /\ par.len1 = N
  BY <1>1, <1>2, <1>3, <1>4, Digit256
<1>5. CASE par.w = 16 /\ par.log_w = 4 /\ par.len1 = 2 * N
  <2>1. 2 * j \in 0 .. 2 * N - 1 /\ 2 * j + 1 \in 0 .. 2 * N - 1 /\ 2 * N \in Nat
        /\ 2 * j < 2 * N /\ 2 * j + 1 < 2 * N
    BY <1>1
  <2>2. /\ base_w(par, 2 * N, c)[2 * j] = c[j] \div 16
        /\ base_w(par, 2 * N, c)[2 * j + 1] = c[j] % 16
        /\ base_w(par, 2 * N, d)[2 * j] = d[j] \div 16
        /\ base_w(par, 2 * N, d)[2 * j + 1] = d[j] % 16
    BY <1>3, <1>5, <2>1, Digit16
  <2>3. /\ c[j] = 16 * (c[j] \div 16) + (c[j] % 16)
        /\ d[j] = 16 * (d[j] \div 16) + (d[j] % 16)
    BY <1>3, TwoDigits
  <2>4. c[j] \div 16 # d[j] \div 16 \/ c[j] % 16 # d[j] % 16
    <3> DEFINE cq == c[j] \div 16
               cr == c[j] % 16
               dq == d[j] \div 16
               dr == d[j] % 16
    <3>1. c[j] = 16 * cq + cr /\ d[j] = 16 * dq + dr
      BY <2>3
    <3> HIDE DEF cq, cr, dq, dr
    <3>2. cq # dq \/ cr # dr
      BY <1>2, <3>1
    <3> QED
      BY <3>2 DEF cq, cr, dq, dr
  <2> QED
    BY <1>5, <2>1, <2>2, <2>4
<1>6. CASE par.w = 4 /\ par.log_w = 2 /\ par.len1 = 4 * N
  <2>1. /\ 4 * j \in 0 .. 4 * N - 1 /\ 4 * j + 1 \in 0 .. 4 * N - 1
        /\ 4 * j + 2 \in 0 .. 4 * N - 1 /\ 4 * j + 3 \in 0 .. 4 * N - 1 /\ 4 * N \in Nat
        /\ 4 * j < 4 * N /\ 4 * j + 1 < 4 * N /\ 4 * j + 2 < 4 * N /\ 4 * j + 3 < 4 * N
    BY <1>1
  <2>2. /\ base_w(par, 4 * N, c)[4 * j] = c[j] \div 64
        /\ base_w(par, 4 * N, c)[4 * j + 1] = (c[j] \div 16) % 4
        /\ base_w(par, 4 * N, c)[4 * j + 2] = (c[j] \div 4) % 4
        /\ base_w(par, 4 * N, c)[4 * j + 3] = c[j] % 4
    BY <1>3, <1>6, <2>1, Digit4
  <2>3. /\ base_w(par, 4 * N, d)[4 * j] = d[j] \div 64
        /\ base_w(par, 4 * N, d)[4 * j + 1] = (d[j] \div 16) % 4
        /\ base_w(par, 4 * N, d)[4 * j + 2] = (d[j] \div 4) % 4
        /\ base_w(par, 4 * N, d)[4 * j + 3] = d[j] % 4
    BY <1>3, <1>6, <2>1, Digit4
  <2>4. \/ c[j] \div 64 # d[j] \div 64 \/ (c[j] \div 16) % 4 # (d[j] \div 16) % 4
        \/ (c[j] \div 4) % 4 # (d[j] \div 4) % 4 \/ c[j] % 4 # d[j] % 4
    <3>1. c[j] = 64 * (c[j] \div 64) + 16 * ((c[j] \div 16) % 4) + 4 * ((c[j] \div 4) % 4)
                   + (c[j] % 4)
      BY <1>3, FourDigits
    <3>2. d[j] = 64 * (d[j] \div 64) + 16 * ((d[j] \div 16) % 4) + 4 * ((d[j] \div 4) % 4)
                   + (d[j] % 4)
      BY <1>3, FourDigits
    <3> QED
      BY <1>2, <3>1, <3>2
  <2> QED
    BY <1>6, <2>1, <2>2, <2>3, <2>4
<1> QED
  BY <1>4, <1>5, <1>6 DEF Shape

-----------------------------------------------------------------------------

\* What each digit lacks to its maximum.
Lacks(par, msg) == [i \in DOMAIN msg |-> par.w - 1 - msg[i]]

\* The checksum is the sum of that.
LEMMA ChecksumSum ==
  ASSUME NEW par, NEW msg, IsFiniteSet(DOMAIN msg)
  PROVE  \E sum : Checksum(par, msg) = sum[DOMAIN msg] /\ Rules!IsSum(sum, Lacks(par, msg), DOMAIN msg)
<1> DEFINE Is(f) == f = [s \in SUBSET DOMAIN msg |->
                           IF s = {} THEN 0
                           ELSE (par.w - 1 - msg[CHOOSE x \in s : TRUE])
                                  + f[s \ {CHOOSE x \in s : TRUE}]]
           sum == CHOOSE f : Is(f)
<1>1. Checksum(par, msg) = sum[DOMAIN msg]
  BY DEF Checksum, MapThenSumSet, MapThenFoldSet
<1>2. ASSUME NEW f
      PROVE  Is(f) <=> Rules!IsSum(f, Lacks(par, msg), DOMAIN msg)
  <2>1. ASSUME NEW s \in SUBSET DOMAIN msg, s # {}
        PROVE  Lacks(par, msg)[Rules!Picked(s)] = par.w - 1 - msg[CHOOSE x \in s : TRUE]
    <3>1. Rules!Picked(s) \in DOMAIN msg /\ Rules!Picked(s) = CHOOSE x \in s : TRUE
      BY <2>1 DEF Rules!Picked
    <3> QED
      BY <3>1 DEF Lacks
  <2> DEFINE a == [s \in SUBSET DOMAIN msg |->
                     IF s = {} THEN 0
                     ELSE (par.w - 1 - msg[CHOOSE x \in s : TRUE])
                            + f[s \ {CHOOSE x \in s : TRUE}]]
             b == [s \in SUBSET DOMAIN msg |->
                     IF s = {} THEN 0
                     ELSE Lacks(par, msg)[Rules!Picked(s)] + f[s \ {Rules!Picked(s)}]]
  <2>2. a = b
    BY <2>1 DEF Rules!Picked
  <2>3. (Is(f) <=> f = a) /\ (Rules!IsSum(f, Lacks(par, msg), DOMAIN msg) <=> f = b)
    BY DEF Rules!IsSum
  <2> HIDE DEF a, b, Is
  <2> QED
    BY <2>2, <2>3
<1>3. \E f : Rules!IsSum(f, Lacks(par, msg), DOMAIN msg)
  BY SumExists
<1> HIDE DEF Is
<1>4. Is(sum)
  BY <1>2, <1>3
<1> HIDE DEF sum
<1> QED
  BY <1>1, <1>2, <1>4

\* How large it can be.
LEMMA ChecksumBound ==
  ASSUME NEW par, Shape(par), NEW d, IsDigest(d)
  PROVE  LET csum == Checksum(par, base_w(par, par.len1, d))
         IN  csum \in Nat /\ csum <= (par.w - 1) * par.len1
<1> DEFINE msg == base_w(par, par.len1, d)
           S   == 0 .. par.len1 - 1
<1>1. DOMAIN msg = S /\ \A k \in S : msg[k] \in 0 .. par.w - 1
  BY DigitsAre
<1>2. par.len1 \in Nat /\ par.w \in Nat /\ par.w - 1 \in Nat
  BY WotsAssumption DEF Shape
<1>3. IsFiniteSet(S) /\ Cardinality(S) = par.len1
  <2>1. 0 \in Int /\ par.len1 - 1 \in Int
    BY <1>2
  <2>2. IsFiniteSet(0 .. par.len1 - 1)
        /\ Cardinality(0 .. par.len1 - 1)
             = IF 0 > par.len1 - 1 THEN 0 ELSE (par.len1 - 1) - 0 + 1
    BY <2>1, FS_Interval
  <2> QED
    BY <1>2, <2>2
<1> HIDE DEF msg
<1>4. PICK sum : Checksum(par, msg) = sum[S] /\ Rules!IsSum(sum, Lacks(par, msg), S)
  BY <1>1, <1>3, ChecksumSum
<1>5. \A x \in S : Lacks(par, msg)[x] \in 0 .. par.w - 1
  <2> SUFFICES ASSUME NEW x \in S
               PROVE  Lacks(par, msg)[x] \in 0 .. par.w - 1
    OBVIOUS
  <2>1. Lacks(par, msg)[x] = par.w - 1 - msg[x] /\ msg[x] \in 0 .. par.w - 1
    BY <1>1 DEF Lacks
  <2> QED
    BY <1>2, <2>1
<1> HIDE DEF S
<1>6. sum[S] \in Nat /\ sum[S] <= (par.w - 1) * Cardinality(S)
  BY <1>2, <1>3, <1>4, <1>5, SumBound
<1> QED
  BY <1>3, <1>4, <1>6 DEF msg

\* The two bytes that a checksum takes, shifted to their left end,
LEMMA CheckBytes ==
  ASSUME NEW par, Shape(par), NEW msg, Checksum(par, msg) \in Nat,
         NEW m, m = IF par.w = 4 THEN 64 ELSE IF par.w = 16 THEN 16 ELSE 256
  PROVE  \E bytes :
           /\ wots_checksum(par, msg) = base_w(par, par.len2, bytes)
           /\ bytes[0] = ((Checksum(par, msg) * m) \div 256) % 256 /\ bytes[0] \in Byte
           /\ bytes[1] = (Checksum(par, msg) * m) % 256 /\ bytes[1] \in Byte
<1> DEFINE csum  == Checksum(par, msg)
           bytes == [i \in 0 .. 1 |-> ((csum * m) \div 256^(1 - i)) % 256]
<1>1. /\ (par.len2 * par.log_w + 7) \div 8 = 2
      /\ 2^(8 - ((par.len2 * par.log_w) % 8)) = m
  <2>1. (5 * 2 + 7) \div 8 = 2 /\ 2^(8 - ((5 * 2) % 8)) = 64
    OBVIOUS
  <2>2. (3 * 4 + 7) \div 8 = 2 /\ 2^(8 - ((3 * 4) % 8)) = 16
    OBVIOUS
  <2>3. (2 * 8 + 7) \div 8 = 2 /\ 2^(8 - ((2 * 8) % 8)) = 256
    OBVIOUS
  <2>4. CASE par.w = 4 /\ par.log_w = 2 /\ par.len2 = 5
    BY <2>1, <2>4
  <2>5. CASE par.w = 16 /\ par.log_w = 4 /\ par.len2 = 3
    BY <2>2, <2>5
  <2>6. CASE par.w = 256 /\ par.log_w = 8 /\ par.len2 = 2
    BY <2>3, <2>6
  <2> QED
    BY <2>4, <2>5, <2>6 DEF Shape
<1>2. wots_checksum(par, msg) = base_w(par, par.len2, bytes)
  <2> DEFINE packed(size, shift) ==
               [i \in 0 .. size - 1 |-> ((csum * shift) \div 256^(size - 1 - i)) % 256]
  <2>1. wots_checksum(par, msg)
          = base_w(par, par.len2, packed((par.len2 * par.log_w + 7) \div 8,
                                         2^(8 - ((par.len2 * par.log_w) % 8))))
    BY DEF wots_checksum
  <2>2. packed(2, m) = bytes
    <3>1. 2 - 1 = 1
      OBVIOUS
    <3> QED
      BY <3>1
  <2> HIDE DEF packed, bytes
  <2> QED
    BY <1>1, <2>1, <2>2
<1>3. m \in Nat /\ csum * m \in Nat
  OBVIOUS
<1>4. bytes[0] = ((csum * m) \div 256) % 256 /\ bytes[1] = (csum * m) % 256
  <2>1. bytes[0] = ((csum * m) \div 256^(1 - 0)) % 256
        /\ bytes[1] = ((csum * m) \div 256^(1 - 1)) % 256
    OBVIOUS
  <2>2. 256^(1 - 0) = 256 /\ 256^(1 - 1) = 1
    OBVIOUS
  <2> HIDE DEF bytes
  <2> QED
    BY <1>3, <2>1, <2>2
<1>5. bytes[0] \in Byte /\ bytes[1] \in Byte
  BY <1>3, <1>4 DEF Byte
<1> HIDE DEF bytes
<1> QED
  BY <1>2, <1>4, <1>5

\* their digits are digits,
LEMMA CheckAre ==
  ASSUME NEW par, Shape(par), NEW msg, Checksum(par, msg) \in Nat
  PROVE  /\ DOMAIN wots_checksum(par, msg) = 0 .. par.len2 - 1
         /\ \A k \in 0 .. par.len2 - 1 : wots_checksum(par, msg)[k] \in 0 .. par.w - 1
<1> DEFINE check == wots_checksum(par, msg)
<1>1. PICK bytes : /\ check = base_w(par, par.len2, bytes)
                   /\ bytes[0] \in Byte /\ bytes[1] \in Byte
  BY CheckBytes
<1> HIDE DEF check
<1>2. DOMAIN check = 0 .. par.len2 - 1
  BY <1>1 DEF base_w
<1>3. CASE par.w = 256 /\ par.log_w = 8 /\ par.len2 = 2
  <2>1. \A k \in 0 .. 1 : bytes[k] \in Byte
    BY <1>1
  <2>2. \A k \in 0 .. 1 : check[k] = bytes[k]
    BY <1>1, <1>3, <2>1, Digit256
  <2> QED
    BY <1>2, <1>3, <2>1, <2>2 DEF Byte, check
<1>4. CASE par.w = 16 /\ par.log_w = 4 /\ par.len2 = 3
  <2>1. check[0] = bytes[0] \div 16 /\ check[1] = bytes[0] % 16 /\ check[2] = bytes[1] \div 16
    <3>1. check[2 * 0] = bytes[0] \div 16 /\ check[2 * 0 + 1] = bytes[0] % 16
      BY <1>1, <1>4, Digit16
    <3>2. check[2 * 1] = bytes[1] \div 16
      BY <1>1, <1>4, Digit16
    <3> QED
      BY <3>1, <3>2
  <2>2. check[0] \in 0 .. 15 /\ check[1] \in 0 .. 15 /\ check[2] \in 0 .. 15
    BY <1>1, <2>1 DEF Byte
  <2>3. \A k \in 0 .. 2 : k = 0 \/ k = 1 \/ k = 2
    OBVIOUS
  <2> QED
    BY <1>2, <1>4, <2>2, <2>3 DEF check
<1>5. CASE par.w = 4 /\ par.log_w = 2 /\ par.len2 = 5
  <2>1. /\ check[0] = bytes[0] \div 64 /\ check[1] = (bytes[0] \div 16) % 4
        /\ check[2] = (bytes[0] \div 4) % 4 /\ check[3] = bytes[0] % 4
        /\ check[4] = bytes[1] \div 64
    <3>1. /\ check[4 * 0] = bytes[0] \div 64 /\ check[4 * 0 + 1] = (bytes[0] \div 16) % 4
          /\ check[4 * 0 + 2] = (bytes[0] \div 4) % 4 /\ check[4 * 0 + 3] = bytes[0] % 4
      BY <1>1, <1>5, Digit4
    <3>2. check[4 * 1] = bytes[1] \div 64
      BY <1>1, <1>5, Digit4
    <3> QED
      BY <3>1, <3>2
  <2>2. /\ check[0] \in 0 .. 3 /\ check[1] \in 0 .. 3 /\ check[2] \in 0 .. 3
        /\ check[3] \in 0 .. 3 /\ check[4] \in 0 .. 3
    BY <1>1, <2>1 DEF Byte
  <2>3. \A k \in 0 .. 4 : k = 0 \/ k = 1 \/ k = 2 \/ k = 3 \/ k = 4
    OBVIOUS
  <2> QED
    BY <1>2, <1>5, <2>2, <2>3 DEF check
<1> QED
  BY <1>3, <1>4, <1>5 DEF Shape

\* The two bytes of a checksum that has ten bits, and their parts.
LEMMA TenBits ==
  ASSUME NEW c \in Nat, c < 1024
  PROVE  ((c * 64) \div 256) % 256 = c \div 4 /\ (c * 64) % 256 = (c % 4) * 64
<1> DEFINE q == c \div 4
           r == c % 4
<1>1. q \in 0 .. 255 /\ r \in 0 .. 3 /\ c = 4 * q + r
  OBVIOUS
<1> HIDE DEF q, r
<1>2. c * 64 = 256 * q + 64 * r
  BY <1>1
<1>3. (256 * q + 64 * r) \div 256 = q /\ (256 * q + 64 * r) % 256 = 64 * r
  BY <1>1
<1>4. q % 256 = q
  BY <1>1
<1> QED
  BY <1>1, <1>2, <1>3, <1>4 DEF q, r

\* and they are the checksum's if there are enough of them.
LEMMA CheckIs ==
  ASSUME NEW par, Shape(par), NEW msg, NEW csum \in Nat, csum = Checksum(par, msg)
  PROVE  LET check == wots_checksum(par, msg) IN
         /\ par.w = 16 /\ csum < 4096 =>
              csum = 256 * check[0] + 16 * check[1] + check[2]
         /\ par.w = 4 /\ csum < 1024 =>
              csum = 256 * check[0] + 64 * check[1] + 16 * check[2] + 4 * check[3] + check[4]
<1> DEFINE check == wots_checksum(par, msg)
<1>1. ASSUME par.w = 16, csum < 4096
      PROVE  csum = 256 * check[0] + 16 * check[1] + check[2]
  <2>1. par.log_w = 4 /\ par.len2 = 3
    BY <1>1 DEF Shape
  <2>2. PICK bytes : /\ check = base_w(par, par.len2, bytes)
                     /\ bytes[0] = ((csum * 16) \div 256) % 256 /\ bytes[0] \in Byte
                     /\ bytes[1] = (csum * 16) % 256 /\ bytes[1] \in Byte
    <3>1. 16 = IF par.w = 4 THEN 64 ELSE IF par.w = 16 THEN 16 ELSE 256
      BY <1>1
    <3> QED
      BY <3>1, CheckBytes
  <2> HIDE DEF check
  <2>3. check[0] = bytes[0] \div 16 /\ check[1] = bytes[0] % 16 /\ check[2] = bytes[1] \div 16
    <3>1. check[2 * 0] = bytes[0] \div 16 /\ check[2 * 0 + 1] = bytes[0] % 16
      BY <1>1, <2>1, <2>2, Digit16
    <3>2. check[2 * 1] = bytes[1] \div 16
      BY <1>1, <2>1, <2>2, Digit16
    <3> QED
      BY <3>1, <3>2
  <2>4. bytes[0] = csum \div 16 /\ bytes[1] = (csum % 16) * 16
    BY <1>1, <2>2
  <2> QED
    BY <1>1, <2>3, <2>4
<1>2. ASSUME par.w = 4, csum < 1024
      PROVE  csum = 256 * check[0] + 64 * check[1] + 16 * check[2] + 4 * check[3] + check[4]
  <2>1. par.log_w = 2 /\ par.len2 = 5
    BY <1>2 DEF Shape
  <2>2. PICK bytes : /\ check = base_w(par, par.len2, bytes)
                     /\ bytes[0] = ((csum * 64) \div 256) % 256 /\ bytes[0] \in Byte
                     /\ bytes[1] = (csum * 64) % 256 /\ bytes[1] \in Byte
    <3>1. 64 = IF par.w = 4 THEN 64 ELSE IF par.w = 16 THEN 16 ELSE 256
      BY <1>2
    <3> QED
      BY <3>1, CheckBytes
  <2> HIDE DEF check
  <2>3. /\ check[0] = bytes[0] \div 64 /\ check[1] = (bytes[0] \div 16) % 4
        /\ check[2] = (bytes[0] \div 4) % 4 /\ check[3] = bytes[0] % 4
        /\ check[4] = bytes[1] \div 64
    <3>1. /\ check[4 * 0] = bytes[0] \div 64 /\ check[4 * 0 + 1] = (bytes[0] \div 16) % 4
          /\ check[4 * 0 + 2] = (bytes[0] \div 4) % 4 /\ check[4 * 0 + 3] = bytes[0] % 4
      BY <1>2, <2>1, <2>2, Digit4
    <3>2. check[4 * 1] = bytes[1] \div 64
      BY <1>2, <2>1, <2>2, Digit4
    <3> QED
      BY <3>1, <3>2
  <2>4. bytes[0] = csum \div 4 /\ bytes[1] = (csum % 4) * 64
    BY <1>2, <2>2, TenBits
  <2>5. bytes[0] = 64 * check[0] + 16 * check[1] + 4 * check[2] + check[3] /\ check[4] = csum % 4
    BY <2>2, <2>3, <2>4, FourDigits
  <2>6. check[0] \in Int /\ check[1] \in Int /\ check[2] \in Int /\ check[3] \in Int
    <3>1. \A x \in Byte : x \div 64 \in Int /\ (x \div 16) % 4 \in Int
                         /\ (x \div 4) % 4 \in Int /\ x % 4 \in Int
      BY DEF Byte
    <3>2. bytes[0] \in Byte
      BY <2>2
    <3> QED
      BY <2>3, <3>1, <3>2
  <2>7. csum = 4 * bytes[0] + check[4]
    BY <2>4, <2>5
  <2> QED
    BY <2>5, <2>6, <2>7
<1> QED
  BY <1>1, <1>2

\* The values of the digits of a checksum, in base w.
Weighed(par, check) == [i \in DOMAIN check |-> check[i] * par.w^(par.len2 - 1 - i)]
Value(par, check) == MapThenSumSet(LAMBDA i : check[i] * par.w^(par.len2 - 1 - i), DOMAIN check)

\* The number they make is their sum,
LEMMA ValueSum ==
  ASSUME NEW par, NEW check, IsFiniteSet(DOMAIN check)
  PROVE  \E sum : /\ Value(par, check) = sum[DOMAIN check]
                  /\ Rules!IsSum(sum, Weighed(par, check), DOMAIN check)
<1> DEFINE Is(f) == f = [s \in SUBSET DOMAIN check |->
                           IF s = {} THEN 0
                           ELSE (check[CHOOSE x \in s : TRUE]
                                   * par.w^(par.len2 - 1 - (CHOOSE x \in s : TRUE)))
                                  + f[s \ {CHOOSE x \in s : TRUE}]]
           sum == CHOOSE f : Is(f)
<1>1. Value(par, check) = sum[DOMAIN check]
  BY DEF Value, MapThenSumSet, MapThenFoldSet
<1>2. ASSUME NEW f
      PROVE  Is(f) <=> Rules!IsSum(f, Weighed(par, check), DOMAIN check)
  <2>1. ASSUME NEW s \in SUBSET DOMAIN check, s # {}
        PROVE  Weighed(par, check)[Rules!Picked(s)]
                 = check[CHOOSE x \in s : TRUE]
                     * par.w^(par.len2 - 1 - (CHOOSE x \in s : TRUE))
    <3>1. Rules!Picked(s) \in DOMAIN check /\ Rules!Picked(s) = CHOOSE x \in s : TRUE
      BY <2>1 DEF Rules!Picked
    <3> QED
      BY <3>1 DEF Weighed
  <2> DEFINE a == [s \in SUBSET DOMAIN check |->
                     IF s = {} THEN 0
                     ELSE (check[CHOOSE x \in s : TRUE]
                             * par.w^(par.len2 - 1 - (CHOOSE x \in s : TRUE)))
                            + f[s \ {CHOOSE x \in s : TRUE}]]
             b == [s \in SUBSET DOMAIN check |->
                     IF s = {} THEN 0
                     ELSE Weighed(par, check)[Rules!Picked(s)] + f[s \ {Rules!Picked(s)}]]
  <2>2. a = b
    BY <2>1 DEF Rules!Picked
  <2>3. (Is(f) <=> f = a) /\ (Rules!IsSum(f, Weighed(par, check), DOMAIN check) <=> f = b)
    BY DEF Rules!IsSum
  <2> HIDE DEF a, b, Is
  <2> QED
    BY <2>2, <2>3
<1>3. \E f : Rules!IsSum(f, Weighed(par, check), DOMAIN check)
  BY SumExists
<1> HIDE DEF Is
<1>4. Is(sum)
  BY <1>2, <1>3
<1> HIDE DEF sum
<1> QED
  BY <1>1, <1>2, <1>4

\* Taken apart in any order.
LEMMA ValueTakes ==
  ASSUME NEW par, NEW check, IsFiniteSet(DOMAIN check),
         Terms(Weighed(par, check), DOMAIN check)
  PROVE  \E sum : /\ Value(par, check) = sum[DOMAIN check] /\ sum[{}] = 0
                  /\ AnyOrder(sum, Weighed(par, check), DOMAIN check)
<1>1. PICK sum : /\ Value(par, check) = sum[DOMAIN check]
                 /\ Rules!IsSum(sum, Weighed(par, check), DOMAIN check)
  BY ValueSum
<1>2. AnyOrder(sum, Weighed(par, check), DOMAIN check)
  BY <1>1, SumTake
<1>3. sum[{}] = 0
  BY <1>1, Rules!SumStep
<1> QED
  BY <1>1, <1>2, <1>3

\* of three terms with w = 16,
LEMMA Value16 ==
  ASSUME NEW par, par.w = 16, par.len2 = 3, NEW check, DOMAIN check = 0 .. 2,
         \A k \in 0 .. 2 : check[k] \in Int
  PROVE  Value(par, check) = 256 * check[0] + 16 * check[1] + check[2]
<1> DEFINE S == 0 .. 2
           v == Weighed(par, check)
<1>1. IsFiniteSet(S)
  <2>1. 0 \in Int /\ 2 \in Int
    OBVIOUS
  <2> QED
    BY <2>1, FS_Interval
<1>2. v[0] = 256 * check[0] /\ v[1] = 16 * check[1] /\ v[2] = check[2]
  <2>1. 16^(3 - 1 - 0) = 256 /\ 16^(3 - 1 - 1) = 16 /\ 16^(3 - 1 - 2) = 1
    OBVIOUS
  <2>2. v[0] = check[0] * 16^(3 - 1 - 0) /\ v[1] = check[1] * 16^(3 - 1 - 1)
        /\ v[2] = check[2] * 16^(3 - 1 - 2)
    BY DEF Weighed
  <2> HIDE DEF v
  <2> QED
    BY <2>1, <2>2
<1>3. check[0] \in Int /\ check[1] \in Int /\ check[2] \in Int
  OBVIOUS
<1> HIDE DEF v
<1>4. \A x \in S : v[x] \in Int
  <2>1. \A x \in S : x = 0 \/ x = 1 \/ x = 2
    OBVIOUS
  <2> QED
    BY <1>2, <1>3, <2>1
<1>5. PICK sum : /\ Value(par, check) = sum[S] /\ sum[{}] = 0
                 /\ AnyOrder(sum, v, S)
  <2>1. Terms(v, DOMAIN check) /\ DOMAIN check = S
    BY <1>4 DEF Terms
  <2> HIDE DEF S
  <2> QED
    BY <1>1, <2>1, ValueTakes DEF v
<1>6. \A s \in SUBSET S : \A x \in s : sum[s] = v[x] + sum[s \ {x}]
  BY <1>5 DEF AnyOrder
<1>7. sum[S] = v[0] + sum[{1, 2}]
  <2>1. S \ {0} = {1, 2} /\ 0 \in S
    OBVIOUS
  <2> QED
    BY <1>6, <2>1
<1>8. sum[{1, 2}] = v[1] + sum[{2}] /\ sum[{2}] = v[2] + sum[{}]
  <2>1. {1, 2} \in SUBSET S /\ {1, 2} \ {1} = {2} /\ {2} \in SUBSET S /\ {2} \ {2} = {}
    OBVIOUS
  <2> QED
    BY <1>6, <2>1
<1>9. sum[{}] = 0
  BY <1>5
<1> QED
  BY <1>2, <1>3, <1>5, <1>7, <1>8, <1>9

\* and of five with w = 4.
LEMMA Value4 ==
  ASSUME NEW par, par.w = 4, par.len2 = 5, NEW check, DOMAIN check = 0 .. 4,
         \A k \in 0 .. 4 : check[k] \in Int
  PROVE  Value(par, check)
           = 256 * check[0] + 64 * check[1] + 16 * check[2] + 4 * check[3] + check[4]
<1> DEFINE S == 0 .. 4
           v == Weighed(par, check)
<1>1. IsFiniteSet(S)
  <2>1. 0 \in Int /\ 4 \in Int
    OBVIOUS
  <2> QED
    BY <2>1, FS_Interval
<1>2. /\ v[0] = 256 * check[0] /\ v[1] = 64 * check[1] /\ v[2] = 16 * check[2]
      /\ v[3] = 4 * check[3] /\ v[4] = check[4]
  <2>1. /\ 4^(5 - 1 - 0) = 256 /\ 4^(5 - 1 - 1) = 64 /\ 4^(5 - 1 - 2) = 16
        /\ 4^(5 - 1 - 3) = 4 /\ 4^(5 - 1 - 4) = 1
    OBVIOUS
  <2>2. /\ v[0] = check[0] * 4^(5 - 1 - 0) /\ v[1] = check[1] * 4^(5 - 1 - 1)
        /\ v[2] = check[2] * 4^(5 - 1 - 2) /\ v[3] = check[3] * 4^(5 - 1 - 3)
        /\ v[4] = check[4] * 4^(5 - 1 - 4)
    BY DEF Weighed
  <2> HIDE DEF v
  <2> QED
    BY <2>1, <2>2
<1>3. /\ check[0] \in Int /\ check[1] \in Int /\ check[2] \in Int
      /\ check[3] \in Int /\ check[4] \in Int
  OBVIOUS
<1> HIDE DEF v
<1>4. \A x \in S : v[x] \in Int
  <2>1. \A x \in S : x = 0 \/ x = 1 \/ x = 2 \/ x = 3 \/ x = 4
    OBVIOUS
  <2> QED
    BY <1>2, <1>3, <2>1
<1>5. PICK sum : /\ Value(par, check) = sum[S] /\ sum[{}] = 0
                 /\ AnyOrder(sum, v, S)
  <2>1. Terms(v, DOMAIN check) /\ DOMAIN check = S
    BY <1>4 DEF Terms
  <2> HIDE DEF S
  <2> QED
    BY <1>1, <2>1, ValueTakes DEF v
<1>6. \A s \in SUBSET S : \A x \in s : sum[s] = v[x] + sum[s \ {x}]
  BY <1>5 DEF AnyOrder
<1>7. sum[S] = v[0] + sum[{1, 2, 3, 4}]
  <2>1. S \ {0} = {1, 2, 3, 4} /\ 0 \in S
    OBVIOUS
  <2> QED
    BY <1>6, <2>1
<1>8. sum[{1, 2, 3, 4}] = v[1] + sum[{2, 3, 4}]
  <2>1. {1, 2, 3, 4} \in SUBSET S /\ {1, 2, 3, 4} \ {1} = {2, 3, 4}
    OBVIOUS
  <2> QED
    BY <1>6, <2>1
<1>9. sum[{2, 3, 4}] = v[2] + sum[{3, 4}]
  <2>1. {2, 3, 4} \in SUBSET S /\ {2, 3, 4} \ {2} = {3, 4}
    OBVIOUS
  <2> QED
    BY <1>6, <2>1
<1>10. sum[{3, 4}] = v[3] + sum[{4}] /\ sum[{4}] = v[4] + sum[{}]
  <2>1. {3, 4} \in SUBSET S /\ {3, 4} \ {3} = {4} /\ {4} \in SUBSET S /\ {4} \ {4} = {}
    OBVIOUS
  <2> QED
    BY <1>6, <2>1
<1>11. sum[{}] = 0
  BY <1>5
<1> QED
  BY <1>2, <1>3, <1>5, <1>7, <1>8, <1>9, <1>10, <1>11

\* The checksum's digits suffice for digests of up to 85 bytes, with a w of
\* 4 or 16; the programs' digests have 24, 32 or 64.
FitsDigits == N <= 85 /\ 256 \notin Ws

LEMMA DigitsKept ==
  ASSUME NEW par, Shape(par), par.w # 256, N <= 85, NEW d, IsDigest(d)
  PROVE  LET digits == base_w(par, par.len1, d)
         IN  Value(par, wots_checksum(par, digits)) = Checksum(par, digits)
<1> DEFINE digits == base_w(par, par.len1, d)
           csum   == Checksum(par, digits)
           check  == wots_checksum(par, digits)
<1>1. csum \in Nat /\ csum <= (par.w - 1) * par.len1
  BY ChecksumBound
<1> HIDE DEF digits
<1>2. DOMAIN check = 0 .. par.len2 - 1 /\ \A k \in 0 .. par.len2 - 1 : check[k] \in 0 .. par.w - 1
  BY <1>1, CheckAre
<1>3. N \in Nat
  BY WotsAssumption
<1>4. CASE par.w = 16 /\ par.len1 = 2 * N /\ par.len2 = 3
  <2>1. csum < 4096
    BY <1>1, <1>3, <1>4
  <2>2. csum = 256 * check[0] + 16 * check[1] + check[2]
    BY <1>1, <1>4, <2>1, CheckIs
  <2> HIDE DEF csum, check
  <2>3. DOMAIN check = 0 .. 2 /\ \A k \in 0 .. 2 : check[k] \in Int
    BY <1>2, <1>4
  <2> QED
    BY <1>4, <2>2, <2>3, Value16 DEF csum, check, digits
<1>5. CASE par.w = 4 /\ par.len1 = 4 * N /\ par.len2 = 5
  <2>1. csum < 1024
    BY <1>1, <1>3, <1>5
  <2>2. csum = 256 * check[0] + 64 * check[1] + 16 * check[2] + 4 * check[3] + check[4]
    BY <1>1, <1>5, <2>1, CheckIs
  <2> HIDE DEF csum, check
  <2>3. DOMAIN check = 0 .. 4 /\ \A k \in 0 .. 4 : check[k] \in Int
    BY <1>2, <1>5
  <2> QED
    BY <1>5, <2>2, <2>3, Value4 DEF csum, check, digits
<1> QED
  BY <1>4, <1>5 DEF Shape

-----------------------------------------------------------------------------

\* What a signature is, in every state.
WotsInv ==
  /\ \E w \in Ws : params = Params(w)
  /\ Signed => digest \in Digests /\ sig = wots_sign(params, digest)

\* The inductive invariant: a signature is that of its digest.
THEOREM WotsInvHolds == Spec => []WotsInv
<1>1. Init => WotsInv
  BY DEF Init, WotsInv, Signed
<1>2. WotsInv /\ [Next]_vars => WotsInv'
  <2> SUFFICES ASSUME WotsInv, [Next]_vars
               PROVE  WotsInv'
    OBVIOUS
  <2> USE DEF WotsInv, Signed
  <2>1. CASE Sign
    BY <2>1 DEF Sign
  <2>2. CASE UNCHANGED vars
    BY <2>2 DEF vars
  <2> QED
    BY <2>1, <2>2 DEF Next
<1> QED
  BY <1>1, <1>2, PTL DEF Spec

(***************************************************************************)
(* No digit of a checksum is lost, for all digests of up to 85 bytes and a *)
(* w of 4 or 16.                                                           *)
(***************************************************************************)
THEOREM ChecksumKeptHolds == FitsDigits /\ Spec => []ChecksumKept
<1>1. FitsDigits /\ WotsInv => ChecksumKept
  <2> SUFFICES ASSUME FitsDigits, WotsInv, Signed
               PROVE  LET digits == base_w(params, params.len1, digest)
                      IN  Value(params, wots_checksum(params, digits)) = Checksum(params, digits)
    BY DEF ChecksumKept, Value, Checksum
  <2>1. PICK w \in Ws : params = Params(w)
    BY DEF WotsInv
  <2>2. Shape(params) /\ params.w # 256
    <3>1. Shape(params)
      BY <2>1, ParamsShape
    <3>2. params.w = w
      BY <2>1 DEF Params
    <3> QED
      BY <3>1, <3>2 DEF FitsDigits
  <2>3. IsDigest(digest)
    BY DigestsAre DEF WotsInv
  <2> QED
    BY <2>2, <2>3, DigitsKept DEF FitsDigits
<1>2. CASE FitsDigits
  <2>1. WotsInv => ChecksumKept
    BY <1>1, <1>2
  <2> QED
    BY <2>1, WotsInvHolds, PTL
<1>3. CASE ~ FitsDigits
  BY <1>3
<1> QED
  BY <1>2, <1>3

-----------------------------------------------------------------------------

\* The lengths of chains: the digits of the digest, then those of the checksum.
LEMMA LengthsAre ==
  ASSUME NEW par, Shape(par), NEW d, IsDigest(d)
  PROVE  LET digits  == base_w(par, par.len1, d)
             check   == wots_checksum(par, digits)
             lengths == chain_lengths(par, d)
         IN  /\ \A i \in Chains(par) : lengths[i] \in 0 .. par.w - 1
             /\ \A k \in 0 .. par.len1 - 1 : k \in Chains(par) /\ lengths[k] = digits[k]
             /\ \A k \in 0 .. par.len2 - 1 :
                  par.len1 + k \in Chains(par) /\ lengths[par.len1 + k] = check[k]
<1> DEFINE digits  == base_w(par, par.len1, d)
           check   == wots_checksum(par, digits)
           lengths == chain_lengths(par, d)
<1>1. \A k \in 0 .. par.len1 - 1 : digits[k] \in 0 .. par.w - 1
  BY DigitsAre
<1>2. \A k \in 0 .. par.len2 - 1 : check[k] \in 0 .. par.w - 1
  <2>1. Checksum(par, digits) \in Nat
    BY ChecksumBound
  <2> HIDE DEF digits
  <2> QED
    BY <2>1, CheckAre
<1>3. par.len1 \in Nat /\ par.len2 \in Nat /\ par.w \in Nat
  BY WotsAssumption DEF Shape
<1>4. lengths = [i \in Chains(par) |-> IF i < par.len1 THEN digits[i] ELSE check[i - par.len1]]
  BY DEF chain_lengths
<1> HIDE DEF digits, check, lengths
<1>5. ASSUME NEW k \in 0 .. par.len1 - 1
      PROVE  k \in Chains(par) /\ lengths[k] = digits[k]
  BY <1>3, <1>4 DEF Chains
<1>6. ASSUME NEW k \in 0 .. par.len2 - 1
      PROVE  par.len1 + k \in Chains(par) /\ lengths[par.len1 + k] = check[k]
  <2>1. par.len1 + k \in Chains(par)
    BY <1>3 DEF Chains
  <2>2. ~ (par.len1 + k < par.len1) /\ (par.len1 + k) - par.len1 = k
    BY <1>3
  <2> QED
    BY <1>4, <2>1, <2>2
<1>7. ASSUME NEW i \in Chains(par)
      PROVE  lengths[i] \in 0 .. par.w - 1
  <2>1. CASE i < par.len1
    <3>1. i \in 0 .. par.len1 - 1
      BY <1>3, <2>1 DEF Chains
    <3> QED
      BY <1>1, <1>5, <3>1
  <2>2. CASE ~ (i < par.len1)
    <3>1. i - par.len1 \in 0 .. par.len2 - 1 /\ par.len1 + (i - par.len1) = i
      BY <1>3, <2>2 DEF Chains
    <3> QED
      BY <1>2, <1>6, <3>1
  <2> QED
    BY <2>1, <2>2
<1> QED
  BY <1>5, <1>6, <1>7 DEF digits, check, lengths

\* The lesser of two numbers.
LEMMA MinOfTwo ==
  ASSUME NEW a \in Int, NEW b \in Int
  PROVE  Min({a, b}) = IF a <= b THEN a ELSE b
<1> DEFINE c == IF a <= b THEN a ELSE b
<1>1. c \in {a, b} /\ \A y \in {a, b} : c <= y
  OBVIOUS
<1>2. \A x \in {a, b} : (\A y \in {a, b} : x <= y) => x = c
  OBVIOUS
<1> QED
  BY <1>1, <1>2 DEF Min

\* A chain from its start is as long as asked for,
LEMMA ChainFromStart ==
  ASSUME NEW par, par.w \in Nat, NEW a \in 0 .. par.w - 1
  PROVE  gen_chain(par, 0, 0, a) = a
<1>1. Min({0 + a, par.w}) = a
  <2>1. 0 + a \in Int /\ par.w \in Int /\ 0 + a <= par.w /\ 0 + a = a
    OBVIOUS
  <2> QED
    BY <2>1, MinOfTwo
<1>2. gen_chain(par, 0, 0, a) = IF a <= 0 THEN 0 ELSE IF 0 = 0 THEN a ELSE Junk
  BY <1>1 DEF gen_chain
<1> QED
  BY <1>2

\* and one that is to be completed ends only if it started where it was left.
LEMMA ChainToEnd ==
  ASSUME NEW par, par.w \in Nat, NEW x \in 0 .. par.w - 1, NEW a \in 0 .. par.w - 1
  PROVE  gen_chain(par, x, a, par.w - 1 - a) = par.w - 1 <=> x = a
<1>1. Min({a + (par.w - 1 - a), par.w}) = par.w - 1
  <2>1. /\ a + (par.w - 1 - a) \in Int /\ par.w \in Int
        /\ a + (par.w - 1 - a) = par.w - 1 /\ par.w - 1 <= par.w
    OBVIOUS
  <2> QED
    BY <2>1, MinOfTwo
<1>2. gen_chain(par, x, a, par.w - 1 - a)
        = IF par.w - 1 <= a THEN x ELSE IF x = a THEN par.w - 1 ELSE Junk
  BY <1>1 DEF gen_chain
<1> QED
  BY <1>2 DEF Junk

\* The signature of a digest is its chain lengths.
LEMMA SignIs ==
  ASSUME NEW par, Shape(par), NEW d, IsDigest(d)
  PROVE  \A i \in Chains(par) : wots_sign(par, d)[i] = chain_lengths(par, d)[i]
<1> SUFFICES ASSUME NEW i \in Chains(par)
             PROVE  wots_sign(par, d)[i] = chain_lengths(par, d)[i]
  OBVIOUS
<1>1. wots_sign(par, d)[i] = gen_chain(par, 0, 0, chain_lengths(par, d)[i])
  BY DEF wots_sign
<1>2. par.w \in Nat /\ chain_lengths(par, d)[i] \in 0 .. par.w - 1
  BY LengthsAre DEF Shape
<1> QED
  BY <1>1, <1>2, ChainFromStart

(***************************************************************************)
(* From a signature the verifier reaches the public key with the digest    *)
(* that was signed and with no other, for every w and all digests.         *)
(***************************************************************************)
THEOREM FitsItsDigestOnlyHolds == Spec => []FitsItsDigestOnly
<1>1. WotsInv => FitsItsDigestOnly
  <2> SUFFICES ASSUME WotsInv, Signed, NEW d \in Digests
               PROVE  wots_pk_from_sig(params, sig, d) = wots_pkgen(params) <=> d = digest
    BY DEF FitsItsDigestOnly
  <2> DEFINE lengths == chain_lengths(params, d)
             C       == Chains(params)
             end     == params.w - 1
             ends(i) == gen_chain(params, sig[i], lengths[i], params.w - 1 - lengths[i])
  <2>1. Shape(params)
    BY ParamsShape DEF WotsInv
  <2>2. IsDigest(digest) /\ IsDigest(d)
    BY DigestsAre DEF WotsInv
  <2>3. params.w \in Nat /\ params.w - 1 \in 0 .. params.w - 1
    BY <2>1 DEF Shape
  <2>4. \A i \in C : lengths[i] \in 0 .. params.w - 1
    BY <2>1, <2>2, LengthsAre
  <2>5. \A i \in C : sig[i] = chain_lengths(params, digest)[i] /\ sig[i] \in 0 .. params.w - 1
    BY <2>1, <2>2, LengthsAre, SignIs DEF WotsInv
  <2>6. wots_pk_from_sig(params, sig, d) = [i \in C |-> ends(i)]
    BY DEF wots_pk_from_sig, FromSig
  <2>7. wots_pkgen(params) = [i \in C |-> end]
    BY <2>3, ChainFromStart DEF wots_pkgen
  <2>8. \A i \in C : ends(i) = end <=> sig[i] = lengths[i]
    <3> HIDE DEF lengths, C
    <3> QED
      BY <2>3, <2>4, <2>5, ChainToEnd
  <2>9. wots_pk_from_sig(params, sig, d) = wots_pkgen(params) <=> \A i \in C : sig[i] = lengths[i]
    <3> HIDE DEF ends, end, C, lengths
    <3>1. ASSUME [i \in C |-> ends(i)] = [i \in C |-> end], NEW i \in C
          PROVE  ends(i) = end
      <4>1. [j \in C |-> ends(j)][i] = [j \in C |-> end][i]
        BY <3>1
      <4> QED
        BY <4>1
    <3>2. ASSUME \A i \in C : ends(i) = end
          PROVE  [i \in C |-> ends(i)] = [i \in C |-> end]
      BY <3>2
    <3> QED
      BY <2>6, <2>7, <2>8, <3>1, <3>2
  <2>10. CASE d # digest
    <3>1. PICK k \in 0 .. params.len1 - 1 :
            base_w(params, params.len1, digest)[k] # base_w(params, params.len1, d)[k]
      BY <2>1, <2>2, <2>10, DigitsDiffer
    <3>2. k \in C /\ lengths[k] = base_w(params, params.len1, d)[k]
      BY <2>1, <2>2, LengthsAre
    <3>3. sig[k] = base_w(params, params.len1, digest)[k]
      BY <2>1, <2>2, <2>5, <3>2, LengthsAre
    <3> HIDE DEF lengths, C
    <3> QED
      BY <2>9, <2>10, <3>1, <3>2, <3>3
  <2>11. CASE d = digest
    BY <2>5, <2>9, <2>11
  <2> QED
    BY <2>10, <2>11
<1> QED
  BY <1>1, WotsInvHolds, PTL

\* Larger check digits make a larger checksum, if none of it is lost.
LEMMA CheckOrders ==
  ASSUME NEW par, Shape(par), par.w # 256, N <= 85,
         NEW c, IsDigest(c), NEW d, IsDigest(d)
  PROVE  LET one     == base_w(par, par.len1, c)
             another == base_w(par, par.len1, d)
         IN  (\A k \in 0 .. par.len2 - 1 :
                wots_checksum(par, another)[k] <= wots_checksum(par, one)[k])
             => Checksum(par, another) <= Checksum(par, one)
<1> DEFINE one     == base_w(par, par.len1, c)
           another == base_w(par, par.len1, d)
           p       == wots_checksum(par, one)
           q       == wots_checksum(par, another)
           psum    == Checksum(par, one)
           qsum    == Checksum(par, another)
<1>1. /\ psum \in Nat /\ psum <= (par.w - 1) * par.len1
      /\ qsum \in Nat /\ qsum <= (par.w - 1) * par.len1
  BY ChecksumBound
<1> HIDE DEF one, another
<1> SUFFICES ASSUME \A k \in 0 .. par.len2 - 1 : q[k] <= p[k]
             PROVE  qsum <= psum
  BY DEF one, another
<1>2. \A k \in 0 .. par.len2 - 1 : p[k] \in 0 .. par.w - 1 /\ q[k] \in 0 .. par.w - 1
  BY <1>1, CheckAre
<1>3. N \in Nat
  BY WotsAssumption
<1>4. CASE par.w = 16 /\ par.len1 = 2 * N /\ par.len2 = 3
  <2>1. psum < 4096 /\ qsum < 4096
    BY <1>1, <1>3, <1>4
  <2>2. /\ psum = 256 * p[0] + 16 * p[1] + p[2]
        /\ qsum = 256 * q[0] + 16 * q[1] + q[2]
    BY <1>1, <1>4, <2>1, CheckIs
  <2> HIDE DEF psum, qsum, p, q
  <2>3. \A k \in 0 .. 2 : p[k] \in Int /\ q[k] \in Int /\ q[k] <= p[k]
    BY <1>2, <1>4
  <2>4. 0 \in 0 .. 2 /\ 1 \in 0 .. 2 /\ 2 \in 0 .. 2
    OBVIOUS
  <2> QED
    BY <2>2, <2>3, <2>4
<1>5. CASE par.w = 4 /\ par.len1 = 4 * N /\ par.len2 = 5
  <2>1. psum < 1024 /\ qsum < 1024
    BY <1>1, <1>3, <1>5
  <2>2. /\ psum = 256 * p[0] + 64 * p[1] + 16 * p[2] + 4 * p[3] + p[4]
        /\ qsum = 256 * q[0] + 64 * q[1] + 16 * q[2] + 4 * q[3] + q[4]
    BY <1>1, <1>5, <2>1, CheckIs
  <2> HIDE DEF psum, qsum, p, q
  <2>3. \A k \in 0 .. 4 : p[k] \in Int /\ q[k] \in Int /\ q[k] <= p[k]
    BY <1>2, <1>5
  <2>4. 0 \in 0 .. 4 /\ 1 \in 0 .. 4 /\ 2 \in 0 .. 4 /\ 3 \in 0 .. 4 /\ 4 \in 0 .. 4
    OBVIOUS
  <2> QED
    BY <2>2, <2>3, <2>4
<1> QED
  BY <1>4, <1>5 DEF Shape

\* Digits that are larger, not all of them the same, lack less.
LEMMA DigitsOrder ==
  ASSUME NEW par, Shape(par), NEW c, IsDigest(c), NEW d, IsDigest(d), c # d,
         \A k \in 0 .. par.len1 - 1 :
           base_w(par, par.len1, d)[k] <= base_w(par, par.len1, c)[k]
  PROVE  Checksum(par, base_w(par, par.len1, c)) < Checksum(par, base_w(par, par.len1, d))
<1> DEFINE one     == base_w(par, par.len1, c)
           another == base_w(par, par.len1, d)
           S       == 0 .. par.len1 - 1
           u       == Lacks(par, one)
           v       == Lacks(par, another)
<1>1. /\ DOMAIN one = S /\ \A k \in S : one[k] \in 0 .. par.w - 1
      /\ DOMAIN another = S /\ \A k \in S : another[k] \in 0 .. par.w - 1
  BY DigitsAre
<1>2. par.len1 \in Nat /\ par.w \in Nat
  BY WotsAssumption DEF Shape
<1>3. IsFiniteSet(S)
  <2>1. 0 \in Int /\ par.len1 - 1 \in Int
    BY <1>2
  <2> QED
    BY <2>1, FS_Interval
<1>4. PICK k \in S : one[k] # another[k]
  BY DigitsDiffer
<1>5. \A x \in S : another[x] <= one[x]
  OBVIOUS
<1> HIDE DEF one, another, S
<1>6. PICK usum : Checksum(par, one) = usum[S] /\ Rules!IsSum(usum, u, S)
  BY <1>1, <1>3, ChecksumSum
<1>7. PICK vsum : Checksum(par, another) = vsum[S] /\ Rules!IsSum(vsum, v, S)
  BY <1>1, <1>3, ChecksumSum
<1>8. \A x \in S : u[x] = par.w - 1 - one[x] /\ v[x] = par.w - 1 - another[x]
  BY <1>1 DEF Lacks
<1> HIDE DEF u, v
<1>9. \A x \in S : u[x] \in Nat /\ v[x] \in Nat /\ u[x] <= v[x]
  BY <1>1, <1>2, <1>5, <1>8
<1>10. u[k] < v[k]
  <2>1. /\ one[k] \in 0 .. par.w - 1 /\ another[k] \in 0 .. par.w - 1
        /\ another[k] <= one[k] /\ one[k] # another[k]
    BY <1>1, <1>4, <1>5
  <2>2. another[k] < one[k]
    BY <1>2, <2>1
  <2>3. u[k] = par.w - 1 - one[k] /\ v[k] = par.w - 1 - another[k]
    BY <1>8
  <2> QED
    BY <1>2, <2>1, <2>2, <2>3
<1>11. usum[S] < vsum[S]
  BY <1>3, <1>6, <1>7, <1>9, <1>10, SumLess
<1> QED
  BY <1>6, <1>7, <1>11 DEF one, another

(***************************************************************************)
(* In some chain the signature of a digest is behind that of any other,    *)
(* for all digests of up to 85 bytes and a w of 4 or 16.                   *)
(***************************************************************************)
THEOREM DigestsIncomparableHolds == FitsDigits /\ Spec => []DigestsIncomparable
<1>1. ASSUME FitsDigits, WotsInv, Signed, NEW d \in Digests \ {digest}
      PROVE  \E i \in Chains(params) : sig[i] < chain_lengths(params, d)[i]
  <2> DEFINE lengths == chain_lengths(params, d)
             C       == Chains(params)
             mine    == base_w(params, params.len1, digest)
             other   == base_w(params, params.len1, d)
  <2>1. PICK w \in Ws : params = Params(w)
    BY <1>1 DEF WotsInv
  <2>2. Shape(params) /\ params.w # 256 /\ N <= 85
    <3>1. Shape(params)
      BY <2>1, ParamsShape
    <3>2. params.w = w
      BY <2>1 DEF Params
    <3> QED
      BY <1>1, <3>1, <3>2 DEF FitsDigits
  <2>3. IsDigest(digest) /\ IsDigest(d) /\ digest # d
    BY <1>1, DigestsAre DEF WotsInv
  <2>4. /\ \A i \in C : lengths[i] \in 0 .. params.w - 1
        /\ \A k \in 0 .. params.len1 - 1 : k \in C /\ lengths[k] = other[k]
        /\ \A k \in 0 .. params.len2 - 1 :
             params.len1 + k \in C /\ lengths[params.len1 + k] = wots_checksum(params, other)[k]
    BY <2>2, <2>3, LengthsAre
  <2>5. \A i \in C : sig[i] = chain_lengths(params, digest)[i]
    BY <1>1, <2>2, <2>3, SignIs DEF WotsInv
  <2>6. /\ \A i \in C : chain_lengths(params, digest)[i] \in 0 .. params.w - 1
        /\ \A k \in 0 .. params.len1 - 1 : chain_lengths(params, digest)[k] = mine[k]
        /\ \A k \in 0 .. params.len2 - 1 :
             chain_lengths(params, digest)[params.len1 + k] = wots_checksum(params, mine)[k]
    BY <2>2, <2>3, LengthsAre
  <2>7. Checksum(params, mine) \in Nat /\ Checksum(params, other) \in Nat
    BY <2>2, <2>3, ChecksumBound
  <2>8. params.w \in Nat
    BY <2>2 DEF Shape
  <2> SUFFICES ASSUME \A i \in C : ~ (sig[i] < lengths[i])
               PROVE  FALSE
    OBVIOUS
  <2> HIDE DEF lengths, C
  <2>9. \A i \in C : lengths[i] <= sig[i]
    BY <2>4, <2>5, <2>6, <2>8
  <2>10. \A k \in 0 .. params.len1 - 1 : other[k] <= mine[k]
    <3> HIDE DEF mine, other
    <3> QED
      BY <2>4, <2>5, <2>6, <2>9
  <2>11. Checksum(params, mine) < Checksum(params, other)
    BY <2>2, <2>3, <2>10, DigitsOrder
  <2>12. \A k \in 0 .. params.len2 - 1 :
           wots_checksum(params, other)[k] <= wots_checksum(params, mine)[k]
    <3> HIDE DEF mine, other
    <3> QED
      BY <2>4, <2>5, <2>6, <2>9
  <2>13. Checksum(params, other) <= Checksum(params, mine)
    BY <2>2, <2>3, <2>12, CheckOrders
  <2> HIDE DEF mine, other
  <2> QED
    BY <2>7, <2>11, <2>13
<1>2. CASE FitsDigits
  <2>1. WotsInv => DigestsIncomparable
    BY <1>1, <1>2 DEF DigestsIncomparable
  <2> QED
    BY <2>1, WotsInvHolds, PTL
<1>3. CASE ~ FitsDigits
  BY <1>3
<1> QED
  BY <1>2, <1>3
=============================================================================
