--------------------------- MODULE SignToolProofs ---------------------------
(***************************************************************************)
(* Proofs about the index of a key: as KeyIndex keeps it in memory, for    *)
(* every number of one-time keys and every width of the index field, and   *)
(* as SignTool keeps it in the key file, for every set of runs and every   *)
(* size of key and signature.                                              *)
(***************************************************************************)
EXTENDS KeyIndex, SignTool, TLAPS

-----------------------------------------------------------------------------
(* The index in memory: KeyIndex.                                          *)

(***************************************************************************)
(* The inductive invariant behind one-time use.  While the seeds are       *)
(* there, the index is the boundary between the keys that made exactly one *)
(* signature and those that made none; without them no count changes.      *)
(***************************************************************************)
Boundary == live => uses = [i \in LeafIndex |-> IF i < idx THEN 1 ELSE 0]

IndexInv == KeyTypeOK /\ Boundary /\ OneTimeUse

\* idx + 1 stays in the field; below its last value nothing is cut off.
LEMMA IncrementInField ==
  ASSUME NEW i \in IndexField
  PROVE  /\ Increment(i) \in IndexField
         /\ i + 1 < IndexSpace => Increment(i) = i + 1
  BY ParamsAssumption, LeavesAssumption DEF Increment, IndexField

LEMMA IndexInvInit == KeyInit => IndexInv
  BY ParamsAssumption, LeavesAssumption
  DEF KeyInit, IndexInv, KeyTypeOK, Boundary, OneTimeUse, IndexField, LeafIndex,
      LastIndex, Outcome, NoKey

LEMMA IndexInvNext == IndexInv /\ [KeyNext]_keyVars => IndexInv'
<1> SUFFICES ASSUME IndexInv, [KeyNext]_keyVars
             PROVE  IndexInv'
  OBVIOUS
<1> USE DEF IndexInv
<1>1. CASE Sign
  <2>1. idx \in LeafIndex /\ idx + 1 \in LeafIndex /\ idx' = idx + 1 /\ live' = live
    BY <1>1, IncrementInField, ParamsAssumption, LeavesAssumption
    DEF Sign, KeyTypeOK, LastIndex, IndexField, LeafIndex
  <2>2. CASE live
    <3>1. uses' = [uses EXCEPT ![idx] = @ + 1]
      BY <1>1, <2>2 DEF Sign, Emit
    <3>2. uses' = [i \in LeafIndex |-> IF i < idx + 1 THEN 1 ELSE 0]
      <4>1. uses \in [LeafIndex -> Nat]
            /\ uses = [i \in LeafIndex |-> IF i < idx THEN 1 ELSE 0]
        BY <2>2 DEF KeyTypeOK, Boundary
      <4>2. ASSUME NEW i \in LeafIndex
            PROVE  uses'[i] = IF i < idx + 1 THEN 1 ELSE 0
        <5>1. i \in Nat /\ idx \in Nat
          BY <2>1, ParamsAssumption, LeavesAssumption DEF LeafIndex
        <5> QED
          BY <2>1, <3>1, <4>1, <5>1
      <4>3. uses' = [i \in LeafIndex |-> uses'[i]]
        BY <3>1, <4>1
      <4> QED
        BY <4>2, <4>3
    <3>3. uses' \in [LeafIndex -> Nat] /\ \A i \in LeafIndex : uses'[i] <= 1
      BY <3>2
    <3>4. out' \in Outcome
      BY <1>1, <2>1, <2>2, ParamsAssumption, LeavesAssumption DEF Sign, Emit, Outcome, LeafIndex
    <3>5. idx' \in IndexField /\ idx' <= LastIndex
      BY <2>1, ParamsAssumption, LeavesAssumption DEF IndexField, LeafIndex, LastIndex
    <3> QED
      BY <2>1, <3>2, <3>3, <3>4, <3>5 DEF KeyTypeOK, Boundary, OneTimeUse
  <2>3. CASE ~ live
    <3>1. uses' = uses /\ out' \in Outcome
      BY <1>1, <2>3, ParamsAssumption, LeavesAssumption DEF Sign, Emit, Outcome, NoKey
    <3>2. idx' \in IndexField
      BY <2>1, ParamsAssumption, LeavesAssumption DEF IndexField, LeafIndex
    <3> QED
      BY <2>1, <2>3, <3>1, <3>2 DEF KeyTypeOK, Boundary, OneTimeUse
  <2> QED
    BY <2>2, <2>3
<1>2. CASE SignLast
  <2>1. idx' \in IndexField /\ out' \in Outcome /\ uses' = uses /\ live' = FALSE
    BY <1>2, IncrementInField, ParamsAssumption, LeavesAssumption
    DEF SignLast, KeyTypeOK, Outcome, NoKey
  <2> QED
    BY <2>1 DEF KeyTypeOK, Boundary, OneTimeUse
<1>3. CASE Refuse
  <2>1. idx' \in IndexField /\ out' \in Outcome /\ uses' = uses /\ live' = FALSE
    BY <1>3, ParamsAssumption, LeavesAssumption DEF Refuse, IndexField, Outcome, NoKey
  <2> QED
    BY <2>1 DEF KeyTypeOK, Boundary, OneTimeUse
<1>4. CASE UNCHANGED keyVars
  BY <1>4 DEF keyVars, KeyTypeOK, Boundary, OneTimeUse
<1> QED
  BY <1>1, <1>2, <1>3, <1>4 DEF KeyNext

LEMMA IndexInvInvariant == KeySpec => []IndexInv
  BY IndexInvInit, IndexInvNext, PTL DEF KeySpec

(***************************************************************************)
(* The index stays in its field, that of a live key below the number of    *)
(* one-time keys, and counts and results stay in their types.              *)
(***************************************************************************)
THEOREM TypeCorrect == KeySpec => []KeyTypeOK
  BY IndexInvInvariant, PTL DEF IndexInv

(***************************************************************************)
(* No one-time key makes two genuine signatures: for every height and      *)
(* every index width, the full field that wraps included.                  *)
(***************************************************************************)
THEOREM OneTimeUseHolds == KeySpec => []OneTimeUse
  BY IndexInvInvariant, PTL DEF IndexInv

-----------------------------------------------------------------------------

\* With a spare index value, a wiped key shows in the index field.
LEMMA WipedIsSpentNext ==
  ASSUME SpareIndex, IndexInv, WipedIsSpent, [KeyNext]_keyVars
  PROVE  WipedIsSpent'
<1> USE ParamsAssumption, LeavesAssumption DEF IndexInv, KeyTypeOK, IndexField, LastIndex, SpareIndex,
        WipedIsSpent, Finished, Beyond, LeafIndex
<1>1. CASE Sign
  BY <1>1 DEF Sign, Boundary
<1>2. CASE SignLast
  <2>1. idx' = Leaves
    BY <1>2, IncrementInField DEF SignLast
  <2> QED
    BY <2>1
<1>3. CASE Refuse
  BY <1>3 DEF Refuse
<1>4. CASE UNCHANGED keyVars
  BY <1>4 DEF keyVars
<1> QED
  BY <1>1, <1>2, <1>3, <1>4 DEF KeyNext

(***************************************************************************)
(* If the field has a spare value (or the height is 64, where the last     *)
(* index serves as one) a wiped key is always recognised as spent.         *)
(***************************************************************************)
THEOREM WipedIsSpentHolds == SpareIndex /\ KeySpec => []WipedIsSpent
<1>1. KeyInit => WipedIsSpent
  BY DEF KeyInit, WipedIsSpent
<1>2. SpareIndex /\ IndexInv /\ WipedIsSpent /\ [KeyNext]_keyVars => WipedIsSpent'
  BY WipedIsSpentNext
<1>3. CASE SpareIndex
  <2>1. IndexInv /\ WipedIsSpent /\ [KeyNext]_keyVars => WipedIsSpent'
    BY <1>2, <1>3
  <2> QED
    BY <1>1, <2>1, IndexInvInvariant, PTL DEF KeySpec
<1>4. CASE ~ SpareIndex
  BY <1>4
<1> QED
  BY <1>3, <1>4

-----------------------------------------------------------------------------

\* A refusal has always wiped the key.
RefusalWiped == out.ret = "spent" => ~ live

LEMMA RefusalWipedNext ==
  ASSUME RefusalWiped, [KeyNext]_keyVars
  PROVE  RefusalWiped'
<1> USE DEF RefusalWiped
<1>1. CASE Sign
  BY <1>1 DEF Sign, Emit
<1>2. CASE SignLast
  BY <1>2 DEF SignLast
<1>3. CASE Refuse
  BY <1>3 DEF Refuse
<1>4. CASE UNCHANGED keyVars
  BY <1>4 DEF keyVars
<1> QED
  BY <1>1, <1>2, <1>3, <1>4 DEF KeyNext

(***************************************************************************)
(* A refusal is final, given a spare index value: the key it found or left *)
(* behind is wiped, hence Finished, and only Refuse is enabled from there. *)
(***************************************************************************)
THEOREM RefusalIsFinalHolds == SpareIndex /\ KeySpec => RefusalIsFinal
<1>1. KeyInit => RefusalWiped
  BY DEF KeyInit, RefusalWiped
<1>2. RefusalWiped /\ [KeyNext]_keyVars => RefusalWiped'
  BY RefusalWipedNext
<1>3. ASSUME KeyTypeOK, WipedIsSpent, RefusalWiped, [KeyNext]_keyVars
      PROVE  [out.ret = "spent" => out'.ret = "spent"]_keyVars
  <2>1. CASE out.ret = "spent"
    <3>1. Finished
      BY <1>3, <2>1 DEF WipedIsSpent, RefusalWiped
    <3>2. ~ (idx < LastIndex) /\ ~ (idx = LastIndex /\ ~ FullHeightIs64)
      BY <1>3, <3>1, ParamsAssumption, LeavesAssumption DEF Finished, Beyond, KeyTypeOK, IndexField, LastIndex
    <3>3. CASE Refuse
      BY <3>3 DEF Refuse
    <3>4. CASE UNCHANGED keyVars
      BY <3>4
    <3> QED
      BY <1>3, <3>2, <3>3, <3>4 DEF KeyNext, Sign, SignLast
  <2> QED
    BY <2>1
<1> QED
  BY <1>1, <1>2, <1>3, IndexInvInvariant, WipedIsSpentHolds, PTL
  DEF IndexInv, KeySpec, RefusalIsFinal

\* What the refinement rests on: both invariants together.
RefinementInv == IndexInv /\ WipedIsSpent

LEMMA PromiseInit == KeyInit => Promise!Init
  BY ParamsAssumption, LeavesAssumption DEF KeyInit, Promise!Init, NoKey, Promise!NoKey

LEMMA PromiseNext ==
  ASSUME RefinementInv, [KeyNext]_keyVars
  PROVE  [Promise!Next]_(Promise!vars)
<1> USE DEF RefinementInv, IndexInv
<1> DEFINE next == IF live THEN idx ELSE Leaves
<1>1. CASE Sign
  <2>1. live /\ live' = live
    BY <1>1, ParamsAssumption, LeavesAssumption
    DEF Sign, WipedIsSpent, Finished, Beyond, KeyTypeOK, IndexField, LastIndex
  <2>2. idx' = idx + 1 /\ idx < Leaves - 1
    BY <1>1, IncrementInField, ParamsAssumption, LeavesAssumption
    DEF Sign, KeyTypeOK, IndexField, LastIndex
  <2>3. out' = [ret |-> "ok", key |-> idx]
    BY <1>1, <2>1 DEF Sign, Emit
  <2> QED
    BY <2>1, <2>2, <2>3 DEF Promise!Next, Promise!Sign
<1>2. CASE SignLast
  <2>1. live
    BY <1>2, ParamsAssumption, LeavesAssumption
    DEF SignLast, WipedIsSpent, Finished, Beyond, KeyTypeOK, IndexField, LastIndex
  <2>2. idx = Leaves - 1 /\ live' = FALSE /\ out' = [ret |-> "ok", key |-> Leaves]
    BY <1>2 DEF SignLast, LastIndex, NoKey
  <2> QED
    BY <2>1, <2>2 DEF Promise!Next, Promise!SignLast, Promise!NoKey
<1>3. CASE Refuse
  <2>1. live' = FALSE /\ out' = [ret |-> "spent", key |-> Leaves]
    BY <1>3 DEF Refuse, NoKey
  <2>2. CASE live
    <3>1. idx = Leaves - 1
      BY <1>3, <2>2, ParamsAssumption, LeavesAssumption
      DEF Refuse, Finished, Beyond, KeyTypeOK, LeafIndex, IndexField, LastIndex
    <3> QED
      BY <2>1, <2>2, <3>1 DEF Promise!Next, Promise!SignLast, Promise!NoKey
  <2>3. CASE ~ live
    BY <2>1, <2>3 DEF Promise!Next, Promise!Refuse, Promise!NoKey
  <2> QED
    BY <2>2, <2>3
<1>4. CASE UNCHANGED keyVars
  BY <1>4 DEF keyVars, Promise!vars
<1> QED
  BY <1>1, <1>2, <1>3, <1>4 DEF KeyNext

(***************************************************************************)
(* The index bookkeeping implements Signer whenever the field has a spare  *)
(* value: every call is a step of the promise or changes nothing of it.    *)
(***************************************************************************)
THEOREM Implements == SpareIndex /\ KeySpec => ImplementsSigner
<1>1. RefinementInv /\ [KeyNext]_keyVars => [Promise!Next]_(Promise!vars)
  BY PromiseNext
<1> QED
  BY <1>1, PromiseInit, IndexInvInvariant, WipedIsSpentHolds, PTL
  DEF RefinementInv, KeySpec, ImplementsSigner, Promise!Spec

-----------------------------------------------------------------------------
(* The index in the key file: SignTool.                                    *)

(***************************************************************************)
(* When the file is safe: runs do not overlap, and the block of the key    *)
(* file with the index in it is passed on before any block of a signature. *)
(***************************************************************************)
IndexFirst == SkBlocks > 1 \/ SigBlocks = 1
Careful == ~ MayOverlap /\ IndexFirst

Signing == {"signed", "keyBuffered", "sigBuffered", "keyClosed"}

(***************************************************************************)
(* How much of the key is used up: a live key has its index left to use,   *)
(* a wiped one nothing, whatever its index bytes say.  What no run may use *)
(* twice is told by the position and not by the index, which wraps.        *)
(***************************************************************************)
Pos(v) == IF v.live THEN v.idx ELSE Leaves

OnFile == Pos(file[1])
Held(r) == Pos(mem[r][1])

OneAtATime == \A r, q \in Runs : Active(r) /\ Active(q) => r = q

\* A run that has signed holds the position after the key it used.
Ahead(r) == Held(r) = IF sig[r].key = NoKey THEN Leaves ELSE sig[r].key + 1

\* The file has the key that a run has used, or the position it leaves behind.
NotInFile(r) == sig[r].key = NoKey \/ OnFile = sig[r].key
InFile(r) == OnFile = Held(r)

\* How far the file is when run r is at a given stage.
FileAt(r) ==
  /\ pc[r] = "loaded" => InFile(r)
  /\ pc[r] \in Signing => Ahead(r)
  /\ pc[r] = "signed" => NotInFile(r)
  /\ pc[r] \in {"keyBuffered", "sigBuffered"} =>
       IF SkBlocks > 1 THEN InFile(r) ELSE NotInFile(r)
  /\ pc[r] = "keyClosed" => InFile(r)

\* When a run has put out something, and how that relates to the file.
OutAt(r) ==
  /\ r \in released =>
       \/ pc[r] \in {"keyClosed", "done", "killed"}
       \/ pc[r] = "sigBuffered" /\ SkBlocks > 1
  /\ r \in released /\ sig[r].key # NoKey => OnFile > sig[r].key

\* The key in use is beyond all those that are out.
FreshKey(r) ==
  pc[r] \in Signing /\ sig[r].key # NoKey =>
    \A q \in released \ {r} : sig[q].key # NoKey => sig[q].key < sig[r].key

SafeInv ==
  /\ TypeOK
  /\ OneAtATime
  /\ \A r \in Runs : FileAt(r) /\ OutAt(r) /\ FreshKey(r)
  /\ NoKeyReuse

-----------------------------------------------------------------------------

LEMMA FirstBlock == 1 \in Blocks
  BY SignToolAssumption, LeavesAssumption DEF Blocks

\* What a block that is not torn has in it.
LEMMA VersionFields ==
  ASSUME NEW v \in Version
  PROVE  /\ v.idx \in IndexField
         /\ v.live \in BOOLEAN
         /\ v.live => v.idx \in 0 .. LastIndex
         /\ v = [idx |-> v.idx, live |-> v.live]
<1>1. CASE v \in [idx : 0 .. LastIndex, live : {TRUE}]
  <2>1. v.idx \in 0 .. LastIndex /\ v.live = TRUE
    BY <1>1
  <2>2. v.idx \in IndexField
    BY <2>1, ParamsAssumption, LeavesAssumption DEF IndexField, LastIndex
  <2>3. v = [idx |-> v.idx, live |-> v.live]
    BY <1>1
  <2> QED
    BY <2>1, <2>2, <2>3
<1>2. CASE v \in [idx : IndexField, live : {FALSE}]
  <2>1. v.idx \in IndexField /\ v.live = FALSE
    BY <1>2
  <2>2. v = [idx |-> v.idx, live |-> v.live]
    BY <1>2
  <2> QED
    BY <2>1, <2>2
<1> QED
  BY <1>1, <1>2 DEF Version

\* In the first block of a key is an index; a position is at most Leaves.
LEMMA FirstOfKey ==
  ASSUME NEW key \in SecretKey
  PROVE  /\ key[1] \in Version
         /\ key[1].idx \in IndexField
         /\ Pos(key[1]) \in 0 .. Leaves
<1>1. key[1] \in Version
  BY FirstBlock DEF SecretKey
<1>2. CASE key[1].live
  BY <1>1, <1>2, VersionFields, LeavesAssumption DEF LastIndex, Pos
<1>3. CASE ~ key[1].live
  BY <1>1, <1>3, VersionFields, LeavesAssumption DEF Pos
<1> QED
  BY <1>2, <1>3, <1>1

LEMMA Positions ==
  ASSUME TypeOK
  PROVE  OnFile \in 0 .. Leaves /\ \A r \in Runs : Held(r) \in 0 .. Leaves
  BY FirstOfKey DEF TypeOK, OnFile, Held

LEMMA TornFitsNoIndex == Torn \notin Version
<1>1. Torn.idx = -1
  BY DEF Torn, Wiped
<1> QED
  BY <1>1, VersionFields, ParamsAssumption DEF IndexField

\* A key all of whose blocks are alike.
LEMMA EverywhereIsKey ==
  ASSUME NEW v \in Version
  PROVE  Everywhere(v) \in SecretKey /\ Everywhere(v)[1] = v
<1>1. v # Torn
  BY TornFitsNoIndex
<1> QED
  BY <1>1, FirstBlock DEF Everywhere, SecretKey

LEMMA TypeInit == Init => TypeOK
<1>1. Live(0) \in Version /\ NoKey \in 0 .. Leaves
  BY LeavesAssumption DEF Version, Live, LastIndex, NoKey
<1>2. Everywhere(Live(0)) \in SecretKey
  BY <1>1, EverywhereIsKey
<1> QED
  BY <1>1, <1>2 DEF Init, TypeOK, Stage

\* Below the last index nothing is cut off, and the state goes on to idx + 1.
LEMMA NextVersionIsKey ==
  ASSUME TypeOK, NEW r \in Runs, Index(r) < LastIndex
  PROVE  /\ NextVersion(r) \in SecretKey
         /\ NextVersion(r)[1] = [mem[r][1] EXCEPT !.idx = Index(r) + 1]
         /\ Pos(NextVersion(r)[1]) = IF mem[r][1].live THEN Index(r) + 1 ELSE Leaves
<1> DEFINE first == mem[r][1]
           next  == [first EXCEPT !.idx = Increment(@)]
<1>1. first \in Version /\ first.idx \in IndexField /\ first.idx < LastIndex
  BY FirstOfKey DEF TypeOK, Index
<1>2. Increment(first.idx) = first.idx + 1
  BY <1>1, IncrementInField, ParamsAssumption, LeavesAssumption DEF IndexField, LastIndex
<1>3. next \in Version /\ next = [first EXCEPT !.idx = first.idx + 1]
      /\ next.live = first.live /\ next.idx = first.idx + 1
  <2>1. first = [idx |-> first.idx, live |-> first.live]
    BY <1>1, VersionFields
  <2>2. next = [idx |-> first.idx + 1, live |-> first.live]
        /\ [first EXCEPT !.idx = first.idx + 1] = [idx |-> first.idx + 1, live |-> first.live]
    BY <1>2, <2>1
  <2>3. first.live \in BOOLEAN /\ first.idx + 1 \in 0 .. LastIndex
        /\ first.idx + 1 \in IndexField
    BY <1>1, VersionFields, ParamsAssumption, LeavesAssumption DEF IndexField, LastIndex
  <2>4. [idx |-> first.idx + 1, live |-> first.live] \in Version
    <3>1. CASE first.live
      BY <2>3, <3>1 DEF Version
    <3>2. CASE ~ first.live
      BY <2>3, <3>2 DEF Version
    <3> QED
      BY <3>1, <3>2
  <2> QED
    BY <2>2, <2>4
<1>4. next # Torn
  BY <1>3, TornFitsNoIndex
<1>5. NextVersion(r) \in [Blocks -> Version \union {Torn}] /\ NextVersion(r)[1] = next
  BY <1>3, FirstBlock DEF NextVersion
<1> QED
  BY <1>3, <1>4, <1>5 DEF SecretKey, Index, Pos

\* From the last index on the key is wiped, over all of its blocks.
LEMMA SpentIsKey ==
  ASSUME TypeOK, NEW r \in Runs
  PROVE  /\ Spent(r) \in SecretKey
         /\ Pos(Spent(r)[1]) = Leaves
         /\ \A b \in Blocks : Spent(r)[b] = Spent(r)[1]
         /\ Spent(r)[1].idx = IF Beyond(Index(r)) THEN IndexSpace - 1
                              ELSE Increment(Index(r))
<1> DEFINE i == IF Beyond(Index(r)) THEN IndexSpace - 1 ELSE Increment(Index(r))
<1>1. Index(r) \in IndexField
  BY FirstOfKey DEF TypeOK, Index
<1>2. i \in IndexField
  BY <1>1, IncrementInField, ParamsAssumption, LeavesAssumption DEF IndexField
<1>3. Spent(r) = Everywhere(Wiped(i))
  BY DEF Spent
<1>4. Wiped(i) \in Version /\ Wiped(i).idx = i /\ ~ Wiped(i).live
  BY <1>2 DEF Wiped, Version
<1> QED
  BY <1>3, <1>4, EverywhereIsKey, FirstBlock DEF Pos, Everywhere

(***************************************************************************)
(* What signing does to a run: some key k, or none, has made its signature *)
(* and the secret key in memory is at the position after it.               *)
(***************************************************************************)
LEMMA SignInMemoryStep ==
  ASSUME TypeOK, NEW r \in Runs, SignInMemory(r)
  PROVE  \E k \in 0 .. Leaves, v \in BOOLEAN, new \in SecretKey :
           /\ sig' = [sig EXCEPT ![r] = [key |-> k, verifies |-> v]]
           /\ mem' = [mem EXCEPT ![r] = new]
           /\ Pos(new[1]) = IF k = NoKey THEN Leaves ELSE k + 1
           /\ k # NoKey => k = Held(r)
<1>1. mem[r][1] \in Version /\ Held(r) = Pos(mem[r][1])
  BY FirstOfKey DEF TypeOK, Held
<1>2. CASE Index(r) < LastIndex
  <2> DEFINE k == IF mem[r][1].live THEN Index(r) ELSE NoKey
             v == mem[r] = Everywhere(Live(Index(r)))
  <2>1. v \in BOOLEAN
    OBVIOUS
  <2>2. /\ sig' = [sig EXCEPT ![r] = [key |-> k, verifies |-> v]]
        /\ mem' = [mem EXCEPT ![r] = NextVersion(r)]
    <3>1. ~ (Index(r) >= LastIndex)
      <4>1. Index(r) \in Int
        BY <1>1, VersionFields, ParamsAssumption DEF Index, IndexField
      <4> QED
        BY <1>2, <4>1, LeavesAssumption DEF LastIndex
    <3> QED
      BY <1>2, <3>1 DEF SignInMemory
  <2>3. k \in 0 .. Leaves /\ (k # NoKey => k = Held(r))
        /\ (k = NoKey <=> ~ mem[r][1].live)
    <3>1. CASE mem[r][1].live
      <4>1. Index(r) \in 0 .. LastIndex /\ Index(r) = Held(r)
        BY <1>1, <3>1, VersionFields DEF Index, Pos
      <4> QED
        BY <3>1, <4>1, LeavesAssumption DEF LastIndex, NoKey
    <3>2. CASE ~ mem[r][1].live
      BY <3>2, LeavesAssumption DEF NoKey
    <3> QED
      BY <3>1, <3>2
  <2>4. Pos(NextVersion(r)[1]) = IF k = NoKey THEN Leaves ELSE k + 1
    BY <1>2, <2>3, NextVersionIsKey
  <2> HIDE DEF k, v
  <2> QED
    BY <1>2, <2>1, <2>2, <2>3, <2>4, NextVersionIsKey
<1>3. CASE ~ (Index(r) < LastIndex)
  <2>1. /\ sig' = [sig EXCEPT ![r] = [key |-> NoKey, verifies |-> FALSE]]
        /\ mem' = [mem EXCEPT ![r] = Spent(r)]
    BY <1>3 DEF SignInMemory
  <2>2. NoKey \in 0 .. Leaves
    BY LeavesAssumption DEF NoKey
  <2> QED
    BY <2>1, <2>2, SpentIsKey
<1> QED
  BY <1>2, <1>3

LEMMA TypeNext == TypeOK /\ [Next]_vars => TypeOK'
<1> SUFFICES ASSUME TypeOK, [Next]_vars
             PROVE  TypeOK'
  OBVIOUS
<1>0. file \in SecretKey /\ \A r \in Runs : mem[r] \in SecretKey
  BY DEF TypeOK
<1> USE DEF TypeOK
<1>1. ASSUME NEW r \in Runs, Read(r)
      PROVE  TypeOK'
  BY <1>1 DEF Read, Stage
<1>2. ASSUME NEW r \in Runs, SignInMemory(r)
      PROVE  TypeOK'
  <2>1. PICK k \in 0 .. Leaves, v \in BOOLEAN, new \in SecretKey :
          /\ sig' = [sig EXCEPT ![r] = [key |-> k, verifies |-> v]]
          /\ mem' = [mem EXCEPT ![r] = new]
    BY <1>2, SignInMemoryStep
  <2>2. sig' \in [Runs -> [key : 0 .. Leaves, verifies : BOOLEAN]]
    BY <2>1
  <2>3. mem' \in [Runs -> SecretKey]
    BY <2>1
  <2> QED
    BY <1>2, <2>2, <2>3 DEF SignInMemory, Stage
<1>3. ASSUME NEW r \in Runs, FwriteKey(r)
      PROVE  TypeOK'
  <2>1. file' \in SecretKey
    BY <1>0, <1>3, FirstBlock DEF FwriteKey, SecretKey
  <2> QED
    BY <1>3, <2>1 DEF FwriteKey, Stage
<1>4. ASSUME NEW r \in Runs, FwriteSig(r)
      PROVE  TypeOK'
  BY <1>4 DEF FwriteSig, Stage
<1>5. ASSUME NEW r \in Runs, FcloseKey(r)
      PROVE  TypeOK'
  <2>1. SkBlocks \in Blocks
    BY SignToolAssumption DEF Blocks
  <2>2. file' \in SecretKey
    BY <1>0, <1>5, <2>1, FirstBlock DEF FcloseKey, SecretKey
  <2> QED
    BY <1>5, <2>2 DEF FcloseKey, Stage
<1>6. ASSUME NEW r \in Runs, Exit(r)
      PROVE  TypeOK'
  BY <1>6 DEF Exit, Stage
<1>7. ASSUME NEW r \in Runs, Kill(r)
      PROVE  TypeOK'
  BY <1>7 DEF Kill, Stage
<1>8. CASE UNCHANGED vars
  BY <1>8 DEF vars
<1> QED
  BY <1>1, <1>2, <1>3, <1>4, <1>5, <1>6, <1>7, <1>8 DEF Next

(***************************************************************************)
(* SignTool: keys, stages and signatures stay in their types.  Whichever   *)
(* runs are killed or overlap, the first block of the file is never torn:  *)
(* there is an index of the field in it, and with the seeds of a live key  *)
(* the index of a one-time key.                                            *)
(***************************************************************************)
THEOREM TypeHolds == Spec => []TypeOK
  BY TypeInit, TypeNext, PTL DEF Spec

-----------------------------------------------------------------------------

LEMMA SafeInvInit == Init => SafeInv
  BY TypeInit
  DEF Init, SafeInv, OneAtATime, Active, FileAt, OutAt, FreshKey, NoKeyReuse,
      Signing

\* Writing the key takes the position of the file forward, never back.
LEMMA MemoryIsAhead ==
  ASSUME SafeInv, NEW r \in Runs, pc[r] \in Signing
  PROVE  Held(r) >= OnFile
<1>1. /\ OnFile \in 0 .. Leaves
      /\ Held(r) \in 0 .. Leaves
      /\ sig[r].key \in 0 .. Leaves
      /\ Leaves \in Nat
  BY Positions, LeavesAssumption DEF SafeInv, TypeOK
<1>2. Ahead(r) /\ (InFile(r) \/ NotInFile(r))
  BY DEF SafeInv, FileAt, Signing
<1> QED
  BY <1>1, <1>2 DEF Ahead, InFile, NotInFile, NoKey

(***************************************************************************)
(* A step that leaves all signatures alone, takes the position of the file *)
(* not back, and lets no run put out anything, disturbs no run but r.      *)
(***************************************************************************)
LEMMA OthersUndisturbed ==
  ASSUME SafeInv, TypeOK', NEW r \in Runs,
         Active(r),
         UNCHANGED released,
         NEW q \in Runs, q # r,
         pc'[q] = pc[q], mem'[q] = mem[q], sig'[q] = sig[q],
         OnFile' >= OnFile
  PROVE  (FileAt(q) /\ OutAt(q) /\ FreshKey(q))'
<1>1. ~ Active(q)
  BY DEF SafeInv, OneAtATime
<1>2. pc[q] \in {"idle", "done", "killed"} /\ OutAt(q)
  BY <1>1 DEF Active, SafeInv
<1>3. /\ OnFile \in Int /\ OnFile' \in Int /\ sig[q].key \in Int
  <2>1. OnFile \in 0 .. Leaves /\ sig[q].key \in 0 .. Leaves
    BY Positions DEF SafeInv, TypeOK
  <2>2. OnFile' \in 0 .. Leaves
    BY FirstOfKey DEF TypeOK, OnFile
  <2> QED
    BY <2>1, <2>2, LeavesAssumption
<1> QED
  BY <1>2, <1>3 DEF FileAt, OutAt, FreshKey, Signing

\* The next stage of the run that is active leaves it the only one.
LEMMA StillOneAtATime ==
  ASSUME TypeOK, OneAtATime, NEW r \in Runs, Active(r), NEW stage,
         pc' = [pc EXCEPT ![r] = stage]
  PROVE  OneAtATime'
<1>1. \A q \in Runs : q # r => ~ Active(q)
  BY DEF OneAtATime
<1>2. \A q \in Runs : q # r => pc'[q] = pc[q]
  BY DEF TypeOK
<1> QED
  BY <1>1, <1>2 DEF OneAtATime, Active

\* What a run puts out is made with a key that no other output was made with.
LEMMA OutIsFresh ==
  ASSUME SafeInv, NEW r \in Runs, pc[r] \in Signing,
         released' \subseteq released \union {r},
         UNCHANGED sig
  PROVE  NoKeyReuse'
<1>1. /\ released \subseteq Runs
      /\ \A q \in Runs : sig[q].key \in 0 .. Leaves
      /\ Leaves \in Nat
  BY SignToolAssumption, LeavesAssumption DEF SafeInv, TypeOK
<1>2. \A q \in released \ {r} :
        \/ sig[q].key = NoKey \/ sig[r].key = NoKey
        \/ sig[q].key # sig[r].key
  BY <1>1 DEF SafeInv, FreshKey, NoKey
<1> QED
  BY <1>1, <1>2 DEF SafeInv, NoKeyReuse, NoKey

LEMMA SafeInvNext == Careful /\ SafeInv /\ [Next]_vars => SafeInv'
<1> SUFFICES ASSUME Careful, SafeInv, [Next]_vars
             PROVE  SafeInv'
  OBVIOUS
<1>1. TypeOK'
  BY TypeNext DEF SafeInv
<1>2. /\ OnFile \in 0 .. Leaves /\ OnFile' \in 0 .. Leaves
      /\ \A r \in Runs : /\ Held(r) \in 0 .. Leaves
                        /\ sig[r].key \in 0 .. Leaves
      /\ Leaves \in Nat /\ SkBlocks \in Nat \ {0}
      /\ pc \in [Runs -> Stage] /\ released \subseteq Runs
  <2>1. OnFile' \in 0 .. Leaves
    BY <1>1, FirstOfKey DEF TypeOK, OnFile
  <2> QED
    BY <2>1, Positions, SignToolAssumption, LeavesAssumption DEF SafeInv, TypeOK
<1>3. ASSUME NEW r \in Runs, Read(r)
      PROVE  SafeInv'
  <2>1. pc' = [pc EXCEPT ![r] = "loaded"] /\ mem' = [mem EXCEPT ![r] = file]
        /\ pc[r] = "idle" /\ UNCHANGED <<file, sig, released>>
    BY <1>3 DEF Read
  <2>2. \A q \in Runs : ~ Active(q)
    BY <1>3 DEF Read, Careful
  <2>3. OneAtATime'
    BY <1>2, <2>1, <2>2 DEF OneAtATime, Active
  <2>4. ASSUME NEW q \in Runs
        PROVE  (FileAt(q) /\ OutAt(q) /\ FreshKey(q))'
    <3>1. CASE q = r
      <4>1. r \notin released
        BY <2>1 DEF SafeInv, OutAt
      <4>2. mem'[r] = file
        BY <2>1 DEF SafeInv, TypeOK
      <4> QED
        BY <1>2, <2>1, <3>1, <4>1, <4>2
        DEF FileAt, OutAt, FreshKey, InFile, Signing, OnFile, Held
    <3>2. CASE q # r
      <4>1. pc'[q] = pc[q] /\ OutAt(q)
        BY <1>2, <2>1, <3>2 DEF SafeInv
      <4>2. pc[q] \in {"idle", "done", "killed"}
        BY <2>2 DEF Active
      <4> QED
        BY <2>1, <4>1, <4>2 DEF FileAt, OutAt, FreshKey, Signing, OnFile
    <3> QED
      BY <3>1, <3>2
  <2>5. NoKeyReuse'
    BY <2>1 DEF SafeInv, NoKeyReuse, NoKey
  <2> QED
    BY <1>1, <2>3, <2>4, <2>5 DEF SafeInv
<1>4. ASSUME NEW r \in Runs, SignInMemory(r)
      PROVE  SafeInv'
  <2>1. pc' = [pc EXCEPT ![r] = "signed"] /\ pc[r] = "loaded"
        /\ UNCHANGED <<file, released>>
    BY <1>4 DEF SignInMemory
  <2>2. PICK k \in 0 .. Leaves, v \in BOOLEAN, new \in SecretKey :
          /\ sig' = [sig EXCEPT ![r] = [key |-> k, verifies |-> v]]
          /\ mem' = [mem EXCEPT ![r] = new]
          /\ Pos(new[1]) = IF k = NoKey THEN Leaves ELSE k + 1
          /\ k # NoKey => k = Held(r)
    BY <1>4, SignInMemoryStep DEF SafeInv
  <2>3. Active(r) /\ OnFile = Held(r) /\ OnFile' = OnFile /\ r \notin released
    BY <2>1 DEF Active, SafeInv, FileAt, OutAt, InFile, OnFile
  <2>4. /\ sig'[r].key = k /\ mem'[r] = new
        /\ \A q \in Runs : q # r => /\ sig'[q] = sig[q] /\ mem'[q] = mem[q]
                                   /\ pc'[q] = pc[q]
    BY <2>1, <2>2 DEF SafeInv, TypeOK
  <2>8. Held(r)' = IF k = NoKey THEN Leaves ELSE k + 1
    BY <2>2, <2>4 DEF Held
  <2>5. (FileAt(r) /\ OutAt(r) /\ FreshKey(r))'
    <3>1. (FileAt(r) /\ OutAt(r))'
      BY <1>2, <2>1, <2>2, <2>3, <2>4, <2>8
      DEF FileAt, OutAt, Ahead, InFile, NotInFile, Signing, NoKey
    <3>2. ASSUME NEW q \in released, q # r, sig[q].key # NoKey, k # NoKey
          PROVE  sig[q].key < k
      <4>1. q \in Runs /\ OutAt(q)
        BY <1>2 DEF SafeInv
      <4> QED
        BY <1>2, <2>2, <2>3, <3>2, <4>1 DEF OutAt
    <3>3. FreshKey(r)'
      BY <1>2, <2>1, <2>4, <3>2 DEF FreshKey, NoKey
    <3> QED
      BY <3>1, <3>3
  <2>6. ASSUME NEW q \in Runs, q # r
        PROVE  (FileAt(q) /\ OutAt(q) /\ FreshKey(q))'
    <3>1. OnFile' >= OnFile /\ UNCHANGED released
      BY <1>2, <2>1, <2>3
    <3> QED
      BY <1>1, <2>3, <2>4, <2>6, <3>1, OthersUndisturbed
  <2>7. NoKeyReuse'
    BY <1>2, <2>1, <2>3, <2>4 DEF SafeInv, NoKeyReuse, NoKey
  <2> QED
    BY <1>1, <2>1, <2>3, <2>5, <2>6, <2>7, StillOneAtATime DEF SafeInv
<1>5. ASSUME NEW r \in Runs, FwriteKey(r)
      PROVE  SafeInv'
  <2>1. pc' = [pc EXCEPT ![r] = "keyBuffered"] /\ pc[r] = "signed"
        /\ UNCHANGED <<mem, sig, released>>
        /\ OnFile' = (IF SkBlocks > 1 THEN Held(r) ELSE OnFile)
        /\ \A q \in Runs : Held(q)' = Held(q)
    BY <1>2, <1>5, FirstBlock DEF FwriteKey, OnFile, Held
  <2>2. Active(r) /\ r \notin released /\ OnFile' >= OnFile
    <3>1. Held(r) >= OnFile
      BY <2>1, MemoryIsAhead DEF Signing
    <3> QED
      BY <1>2, <2>1, <3>1 DEF Active, SafeInv, OutAt
  <2>3. pc'[r] = "keyBuffered" /\ \A q \in Runs : q # r => pc'[q] = pc[q]
    BY <1>2, <2>1
  <2>4. (FileAt(r) /\ OutAt(r) /\ FreshKey(r))'
    BY <2>1, <2>2, <2>3
    DEF SafeInv, FileAt, OutAt, FreshKey, Ahead, InFile, NotInFile, Signing
  <2>5. ASSUME NEW q \in Runs, q # r
        PROVE  (FileAt(q) /\ OutAt(q) /\ FreshKey(q))'
    BY <1>1, <2>1, <2>2, <2>3, <2>5, OthersUndisturbed
  <2>6. NoKeyReuse'
    BY <2>1 DEF SafeInv, NoKeyReuse, NoKey
  <2> QED
    BY <1>1, <2>1, <2>2, <2>4, <2>5, <2>6, StillOneAtATime DEF SafeInv
<1>6. ASSUME NEW r \in Runs, FwriteSig(r)
      PROVE  SafeInv'
  <2>1. pc' = [pc EXCEPT ![r] = "sigBuffered"] /\ pc[r] = "keyBuffered"
        /\ UNCHANGED <<file, mem, sig>>
        /\ released' = (IF SigBlocks > 1 THEN released \union {r} ELSE released)
        /\ OnFile' = OnFile /\ \A q \in Runs : Held(q)' = Held(q)
    BY <1>6 DEF FwriteSig, OnFile, Held
  <2>2. Active(r) /\ r \notin released
    BY <2>1 DEF Active, SafeInv, OutAt
  <2>3. pc'[r] = "sigBuffered" /\ \A q \in Runs : q # r => pc'[q] = pc[q]
    BY <1>2, <2>1
  <2>4. r \in released' => SkBlocks > 1 /\ OnFile = Held(r)
    <3>1. SigBlocks \in Nat
      BY SignToolAssumption, LeavesAssumption
    <3> QED
      BY <2>1, <2>2, <3>1
      DEF Careful, IndexFirst, SafeInv, FileAt, InFile
  <2>5. (FileAt(r) /\ OutAt(r) /\ FreshKey(r))'
    <3>1. (FileAt(r) /\ FreshKey(r))'
      BY <2>1, <2>2, <2>3
      DEF SafeInv, FileAt, FreshKey, Ahead, InFile, NotInFile, Signing
    <3>2. Ahead(r)
      BY <2>1 DEF SafeInv, FileAt, Signing
    <3>3. OutAt(r)'
      BY <1>2, <2>1, <2>3, <2>4, <3>2 DEF OutAt, Ahead
    <3> QED
      BY <3>1, <3>3
  <2>6. ASSUME NEW q \in Runs, q # r
        PROVE  (FileAt(q) /\ OutAt(q) /\ FreshKey(q))'
    <3>1. ~ Active(q) /\ OutAt(q)
      BY <2>2, <2>6 DEF SafeInv, OneAtATime
    <3> QED
      BY <2>1, <2>3, <2>6, <3>1
      DEF Active, FileAt, OutAt, FreshKey, Signing
  <2>7. NoKeyReuse'
    BY <2>1, <2>2, OutIsFresh DEF Signing
  <2> QED
    BY <1>1, <2>1, <2>2, <2>5, <2>6, <2>7, StillOneAtATime DEF SafeInv
<1>7. ASSUME NEW r \in Runs, FcloseKey(r)
      PROVE  SafeInv'
  <2>1. pc' = [pc EXCEPT ![r] = "keyClosed"] /\ pc[r] = "sigBuffered"
        /\ UNCHANGED <<mem, sig, released>>
        /\ \A q \in Runs : Held(q)' = Held(q)
    BY <1>7 DEF FcloseKey, Held
  <2>2. OnFile' = Held(r)
    <3>1. file' = [file EXCEPT ![SkBlocks] = mem[r][SkBlocks]]
          /\ file \in [Blocks -> Version \union {Torn}]
      BY <1>7 DEF FcloseKey, SafeInv, TypeOK, SecretKey
    <3>2. CASE SkBlocks > 1
      <4>1. OnFile = Held(r)
        BY <2>1, <3>2 DEF SafeInv, FileAt, InFile
      <4> QED
        BY <3>1, <3>2, <4>1 DEF OnFile
    <3>3. CASE SkBlocks = 1
      BY <3>1, <3>3, FirstBlock DEF OnFile, Held
    <3> QED
      BY <1>2, <3>2, <3>3
  <2>3. Active(r) /\ OnFile' >= OnFile /\ Ahead(r) /\ OutAt(r) /\ FreshKey(r)
    BY <2>1, <2>2, MemoryIsAhead DEF Active, Signing, SafeInv, FileAt
  <2>4. pc'[r] = "keyClosed" /\ \A q \in Runs : q # r => pc'[q] = pc[q]
    BY <1>2, <2>1
  <2>5. (FileAt(r) /\ OutAt(r) /\ FreshKey(r))'
    BY <1>2, <2>1, <2>2, <2>3, <2>4
    DEF FileAt, OutAt, FreshKey, Ahead, InFile, Signing
  <2>6. ASSUME NEW q \in Runs, q # r
        PROVE  (FileAt(q) /\ OutAt(q) /\ FreshKey(q))'
    BY <1>1, <2>1, <2>3, <2>4, <2>6, OthersUndisturbed
  <2>7. NoKeyReuse'
    BY <2>1 DEF SafeInv, NoKeyReuse, NoKey
  <2> QED
    BY <1>1, <2>1, <2>3, <2>5, <2>6, <2>7, StillOneAtATime DEF SafeInv
<1>8. ASSUME NEW r \in Runs, Exit(r)
      PROVE  SafeInv'
  <2>1. pc' = [pc EXCEPT ![r] = "done"] /\ pc[r] = "keyClosed"
        /\ UNCHANGED <<file, mem, sig>> /\ released' = released \union {r}
        /\ OnFile' = OnFile /\ \A q \in Runs : Held(q)' = Held(q)
    BY <1>8 DEF Exit, OnFile, Held
  <2>2. Active(r) /\ Ahead(r) /\ InFile(r)
    BY <2>1 DEF Active, SafeInv, FileAt, Signing
  <2>3. pc'[r] = "done" /\ \A q \in Runs : q # r => pc'[q] = pc[q]
    BY <1>2, <2>1
  <2>4. (FileAt(r) /\ OutAt(r) /\ FreshKey(r))'
    BY <1>2, <2>1, <2>2, <2>3
    DEF FileAt, OutAt, FreshKey, Ahead, InFile, Signing
  <2>5. ASSUME NEW q \in Runs, q # r
        PROVE  (FileAt(q) /\ OutAt(q) /\ FreshKey(q))'
    <3>1. ~ Active(q) /\ OutAt(q)
      BY <2>2, <2>5 DEF SafeInv, OneAtATime
    <3> QED
      BY <2>1, <2>3, <2>5, <3>1
      DEF Active, FileAt, OutAt, FreshKey, Signing
  <2>6. NoKeyReuse'
    BY <2>1, OutIsFresh DEF Signing
  <2> QED
    BY <1>1, <2>1, <2>2, <2>4, <2>5, <2>6, StillOneAtATime DEF SafeInv
<1>9. ASSUME NEW r \in Runs, Kill(r)
      PROVE  SafeInv'
  <2>1. pc' = [pc EXCEPT ![r] = "killed"] /\ Active(r)
        /\ UNCHANGED <<file, mem, sig, released>> /\ OnFile' = OnFile
    BY <1>9 DEF Kill, OnFile
  <2>2. pc'[r] = "killed" /\ \A q \in Runs : q # r => pc'[q] = pc[q]
    BY <1>2, <2>1
  <2>3. (FileAt(r) /\ OutAt(r) /\ FreshKey(r))'
    BY <2>1, <2>2 DEF SafeInv, FileAt, OutAt, FreshKey, Signing
  <2>4. ASSUME NEW q \in Runs, q # r
        PROVE  (FileAt(q) /\ OutAt(q) /\ FreshKey(q))'
    <3>1. OnFile' >= OnFile
      BY <1>2, <2>1
    <3> QED
      BY <1>1, <2>1, <2>2, <2>4, <3>1, OthersUndisturbed
  <2>5. NoKeyReuse'
    BY <2>1 DEF SafeInv, NoKeyReuse, NoKey
  <2> QED
    BY <1>1, <2>1, <2>3, <2>4, <2>5, StillOneAtATime DEF SafeInv
<1>10. CASE UNCHANGED vars
  BY <1>1, <1>10
  DEF vars, SafeInv, OneAtATime, Active, FileAt, OutAt, FreshKey, Ahead,
      InFile, NotInFile, NoKeyReuse, OnFile, Held
<1> QED
  BY <1>3, <1>4, <1>5, <1>6, <1>7, <1>8, <1>9, <1>10 DEF Next

LEMMA SafeInvariant == Careful /\ Spec => []SafeInv
<1>1. CASE Careful
  <2>1. SafeInv /\ [Next]_vars => SafeInv'
    BY <1>1, SafeInvNext
  <2> QED
    BY <2>1, SafeInvInit, PTL DEF Spec
<1>2. CASE ~ Careful
  BY <1>2
<1> QED
  BY <1>1, <1>2

(***************************************************************************)
(* If runs do not overlap and the index is passed on first, no two runs    *)
(* put out anything made with the same one-time key, killed or not.        *)
(***************************************************************************)
THEOREM NoKeyReuseHolds == Careful /\ Spec => []NoKeyReuse
<1>1. SafeInv => NoKeyReuse
  BY DEF SafeInv
<1> QED
  BY <1>1, SafeInvariant, PTL

(***************************************************************************)
(* Under the same condition, and whether the index field is full or not,   *)
(* an index beyond the one used is in the key file, or the key there has   *)
(* been wiped, before the first byte of a signature leaves a run.          *)
(***************************************************************************)
THEOREM SavedBeforeReleasedHolds == Careful /\ Spec => []SavedBeforeReleased
<1>1. SafeInv => SavedBeforeReleased
  BY DEF SafeInv, TypeOK, OutAt, OnFile, Pos, SavedBeforeReleased
<1> QED
  BY <1>1, SafeInvariant, PTL

-----------------------------------------------------------------------------

\* The run that is active holds no index below the one in the file.
ForwardInv ==
  /\ TypeOK
  /\ OneAtATime
  /\ \A r \in Runs : Active(r) => mem[r][1].idx >= file[1].idx

\* With a value to spare, signing never takes the index back.
LEMMA SignGoesForward ==
  ASSUME SpareIndex, TypeOK, NEW r \in Runs, SignInMemory(r)
  PROVE  mem'[r][1].idx >= mem[r][1].idx
<1>1. mem[r][1] \in Version /\ Index(r) = mem[r][1].idx /\ Index(r) \in IndexField
  BY FirstOfKey DEF TypeOK, Index
<1>2. CASE Index(r) < LastIndex
  <2>1. mem'[r] = NextVersion(r)
    <3>1. ~ (Index(r) >= LastIndex)
      BY <1>1, <1>2, LeavesAssumption DEF IndexField, LastIndex
    <3> QED
      BY <3>1 DEF SignInMemory, TypeOK
  <2>2. mem'[r][1].idx = Index(r) + 1
    BY <1>1, <1>2, <2>1, NextVersionIsKey DEF Version
  <2> QED
    BY <1>1, <2>2, ParamsAssumption DEF IndexField
<1>3. CASE ~ (Index(r) < LastIndex)
  <2>1. mem'[r] = Spent(r)
    BY <1>3 DEF SignInMemory, TypeOK
  <2>2. CASE Beyond(Index(r))
    <3>1. mem'[r][1].idx = IndexSpace - 1
      BY <2>1, <2>2, SpentIsKey
    <3> QED
      BY <1>1, <3>1, ParamsAssumption DEF IndexField
  <2>3. CASE ~ Beyond(Index(r))
    <3>1. Index(r) = LastIndex /\ ~ FullHeightIs64
      BY <1>1, <1>3, <2>3, ParamsAssumption, LeavesAssumption
      DEF Beyond, IndexField, LastIndex
    <3>2. Index(r) + 1 < IndexSpace
      BY <3>1, ParamsAssumption, LeavesAssumption DEF SpareIndex, LastIndex
    <3>3. mem'[r][1].idx = Index(r) + 1
      BY <1>1, <2>1, <2>3, <3>2, SpentIsKey, IncrementInField
    <3> QED
      BY <1>1, <3>3, ParamsAssumption DEF IndexField
  <2> QED
    BY <2>2, <2>3
<1> QED
  BY <1>2, <1>3

\* What a step does to the file, and that it keeps the invariant.
LEMMA ForwardNext ==
  ASSUME SpareIndex, ~ MayOverlap, ForwardInv, [Next]_vars
  PROVE  ForwardInv' /\ file'[1].idx >= file[1].idx
<1>1. TypeOK /\ TypeOK' /\ OneAtATime
  BY TypeNext DEF ForwardInv
<1>2. /\ pc \in [Runs -> Stage] /\ SkBlocks \in Nat \ {0} /\ file \in [Blocks -> Version \union {Torn}]
      /\ mem \in [Runs -> SecretKey]
      /\ file[1].idx \in Int /\ file'[1].idx \in Int
      /\ \A r \in Runs : mem[r][1].idx \in Int /\ mem'[r][1].idx \in Int
  <2>1. /\ file[1].idx \in IndexField /\ file'[1].idx \in IndexField
        /\ \A r \in Runs : mem[r][1].idx \in IndexField /\ mem'[r][1].idx \in IndexField
    BY <1>1, FirstOfKey DEF TypeOK
  <2> QED
    BY <1>1, <2>1, ParamsAssumption, SignToolAssumption DEF TypeOK, IndexField, SecretKey
\* A step of the active run r that leaves the other runs where they are.
<1>3. ASSUME NEW r \in Runs, Active(r), NEW stage, pc' = [pc EXCEPT ![r] = stage],
             mem'[r][1].idx >= file'[1].idx, file'[1].idx >= file[1].idx
      PROVE  ForwardInv' /\ file'[1].idx >= file[1].idx
  <2>1. OneAtATime'
    BY <1>1, <1>3, StillOneAtATime
  <2>2. \A q \in Runs : Active(q)' => q = r
    BY <1>1, <1>2, <1>3 DEF OneAtATime, Active
  <2> QED
    BY <1>1, <1>3, <2>1, <2>2 DEF ForwardInv
<1>4. ASSUME NEW r \in Runs, Read(r)
      PROVE  ForwardInv' /\ file'[1].idx >= file[1].idx
  <2>1. /\ mem'[r] = file /\ file' = file /\ \A q \in Runs : ~ Active(q)
        /\ \A q \in Runs : q # r => pc'[q] = pc[q]
    BY <1>2, <1>4 DEF Read
  <2>2. OneAtATime' /\ \A q \in Runs : Active(q)' => q = r
    BY <2>1 DEF OneAtATime, Active
  <2> QED
    BY <1>1, <1>2, <2>1, <2>2 DEF ForwardInv
<1>5. ASSUME NEW r \in Runs, SignInMemory(r)
      PROVE  ForwardInv' /\ file'[1].idx >= file[1].idx
  <2>1. Active(r) /\ file' = file /\ pc' = [pc EXCEPT ![r] = "signed"]
    BY <1>5 DEF SignInMemory, Active
  <2>2. mem'[r][1].idx >= mem[r][1].idx /\ mem[r][1].idx >= file[1].idx
    BY <1>1, <1>5, <2>1, SignGoesForward DEF ForwardInv
  <2>3. mem'[r][1].idx >= file'[1].idx /\ file'[1].idx >= file[1].idx
    BY <1>2, <2>1, <2>2
  <2> QED
    BY <1>3, <2>1, <2>3
<1>6. ASSUME NEW r \in Runs, FwriteKey(r)
      PROVE  ForwardInv' /\ file'[1].idx >= file[1].idx
  <2>1. /\ Active(r) /\ mem' = mem /\ pc' = [pc EXCEPT ![r] = "keyBuffered"]
        /\ file'[1] = IF SkBlocks > 1 THEN mem[r][1] ELSE file[1]
    BY <1>2, <1>6, FirstBlock DEF FwriteKey, Active
  <2>2. mem[r][1].idx >= file[1].idx
    BY <2>1 DEF ForwardInv
  <2>3. mem'[r][1].idx >= file'[1].idx /\ file'[1].idx >= file[1].idx
    BY <1>2, <2>1, <2>2
  <2> QED
    BY <1>3, <2>1, <2>3
<1>7. ASSUME NEW r \in Runs, FcloseKey(r)
      PROVE  ForwardInv' /\ file'[1].idx >= file[1].idx
  <2>1. /\ Active(r) /\ mem' = mem /\ pc' = [pc EXCEPT ![r] = "keyClosed"]
        /\ file' = [file EXCEPT ![SkBlocks] = mem[r][SkBlocks]]
    BY <1>7 DEF FcloseKey, Active
  <2>2. file'[1] = IF SkBlocks = 1 THEN mem[r][1] ELSE file[1]
    BY <1>2, <2>1, FirstBlock
  <2>3. mem[r][1].idx >= file[1].idx
    BY <2>1 DEF ForwardInv
  <2>4. mem'[r][1].idx >= file'[1].idx /\ file'[1].idx >= file[1].idx
    BY <1>2, <2>1, <2>2, <2>3
  <2> QED
    BY <1>3, <2>1, <2>4
<1>8. ASSUME NEW r \in Runs, FwriteSig(r) \/ Exit(r) \/ Kill(r)
      PROVE  ForwardInv' /\ file'[1].idx >= file[1].idx
  <2>1. PICK stage \in Stage : pc' = [pc EXCEPT ![r] = stage]
    BY <1>8 DEF FwriteSig, Exit, Kill, Stage
  <2>2. Active(r) /\ mem' = mem /\ file' = file
    BY <1>8 DEF FwriteSig, Exit, Kill, Active
  <2>3. mem[r][1].idx >= file[1].idx
    BY <2>2 DEF ForwardInv
  <2>4. mem'[r][1].idx >= file'[1].idx /\ file'[1].idx >= file[1].idx
    BY <1>2, <2>1, <2>2, <2>3
  <2> QED
    BY <1>3, <2>1, <2>2, <2>4
<1>9. CASE UNCHANGED vars
  BY <1>1, <1>2, <1>9 DEF vars, ForwardInv, OneAtATime, Active
<1> QED
  BY <1>4, <1>5, <1>6, <1>7, <1>8, <1>9 DEF Next

(***************************************************************************)
(* If runs do not overlap and the field has a value to spare (or the       *)
(* height is 64), the index in the key file never goes back: what replaces *)
(* it has been read from the file and only been counted on since.          *)
(***************************************************************************)
THEOREM IndexNeverGoesBackHolds ==
  SpareIndex /\ ~ MayOverlap /\ Spec => IndexNeverGoesBack
<1>1. Init => ForwardInv
  BY TypeInit DEF Init, ForwardInv, OneAtATime, Active
<1>2. CASE SpareIndex /\ ~ MayOverlap
  <2>1. ForwardInv /\ [Next]_vars => ForwardInv'
    BY <1>2, ForwardNext
  <2>2. ForwardInv /\ [Next]_vars => [file'[1].idx >= file[1].idx]_file
    BY <1>2, ForwardNext
  <2> QED
    BY <1>1, <2>1, <2>2, PTL DEF Spec, IndexNeverGoesBack
<1>3. CASE ~ (SpareIndex /\ ~ MayOverlap)
  BY <1>3
<1> QED
  BY <1>2, <1>3

-----------------------------------------------------------------------------

NoneKilled == \A r \in Runs : pc[r] # "killed"

\* All blocks of a key belong to one index.
Whole(key) == \A b \in Blocks : key[b] = key[1]

(***************************************************************************)
(* What a run has before it, if none was killed: the whole key of one      *)
(* index, in memory and, until it writes and once it has written, in the   *)
(* file; in between the file lacks the last block of what is in memory.    *)
(***************************************************************************)
WholeAt(r) ==
  /\ pc[r] \in {"loaded"} \union Signing => Whole(mem[r])
  /\ pc[r] \in {"loaded", "signed"} => Whole(file)
  /\ pc[r] \in {"keyBuffered", "sigBuffered"} =>
       \A b \in Blocks : b < SkBlocks => file[b] = mem[r][b]
  /\ pc[r] = "keyClosed" => file = mem[r]
  /\ pc[r] \in Signing \union {"done"} => sig[r].key = NoKey \/ sig[r].verifies
  /\ r \in released => pc[r] \in Signing \union {"done"}

WholeInv ==
  /\ TypeOK
  /\ OneAtATime
  /\ NoneKilled => /\ \A r \in Runs : WholeAt(r)
                   /\ (\A r \in Runs : ~ Active(r)) => Whole(file)

\* At first.
LEMMA WholeInvInit == Init => WholeInv
  BY TypeInit, FirstBlock
  DEF Init, WholeInv, OneAtATime, Active, WholeAt, Whole, Signing, Everywhere

\* A step of the active run leaves what the others have behind them.
LEMMA OthersWhole ==
  ASSUME TypeOK, OneAtATime, NEW r \in Runs, Active(r),
         NEW q \in Runs, q # r, WholeAt(q),
         pc'[q] = pc[q], sig'[q] = sig[q], released' \subseteq released \union {r}
  PROVE  WholeAt(q)'
<1>1. ~ Active(q)
  BY DEF OneAtATime
<1>2. pc[q] \in {"idle", "done", "killed"}
  BY <1>1 DEF Active
<1> QED
  BY <1>2 DEF WholeAt, Signing

\* A step of the active run r to a stage.
LEMMA WholeStep ==
  ASSUME WholeInv, TypeOK', NEW r \in Runs, Active(r),
         NEW stage \in Stage \ {"idle"}, pc' = [pc EXCEPT ![r] = stage],
         \A q \in Runs \ {r} : sig'[q] = sig[q],
         released' \subseteq released \union {r},
         NoneKilled /\ stage # "killed" => WholeAt(r)',
         NoneKilled /\ stage = "done" => Whole(file')
  PROVE  WholeInv'
<1>1. TypeOK /\ OneAtATime
  BY DEF WholeInv
<1>2. OneAtATime'
  BY <1>1, StillOneAtATime
<1>3. pc'[r] = stage /\ \A q \in Runs : q # r => pc'[q] = pc[q]
  BY <1>1 DEF TypeOK
<1>4. ASSUME NoneKilled'
      PROVE  NoneKilled /\ stage # "killed"
  BY <1>3, <1>4 DEF NoneKilled, Active
<1>5. ASSUME NoneKilled', NEW q \in Runs
      PROVE  WholeAt(q)'
  <2>1. CASE q = r
    BY <1>4, <1>5, <2>1
  <2>2. CASE q # r
    <3>1. WholeAt(q)
      BY <1>4, <1>5 DEF WholeInv
    <3> QED
      BY <1>1, <1>3, <2>2, <3>1, OthersWhole
  <2> QED
    BY <2>1, <2>2
<1>6. ASSUME NoneKilled', \A q \in Runs : ~ Active(q)'
      PROVE  Whole(file')
  <2>1. stage = "done"
    BY <1>3, <1>4, <1>6 DEF Active
  <2> QED
    BY <1>4, <1>6, <2>1
<1> QED
  BY <1>2, <1>5, <1>6 DEF WholeInv

\* A run that starts finds the whole key, and one that ends has left it.
LEMMA WholeInvNext == ~ MayOverlap /\ WholeInv /\ [Next]_vars => WholeInv'
<1> SUFFICES ASSUME ~ MayOverlap, WholeInv, [Next]_vars
             PROVE  WholeInv'
  OBVIOUS
<1>1. TypeOK' /\ TypeOK /\ OneAtATime
  BY TypeNext DEF WholeInv
<1>2. /\ file \in [Blocks -> Version \union {Torn}]
      /\ mem \in [Runs -> SecretKey]
      /\ \A r \in Runs : mem[r] \in [Blocks -> Version \union {Torn}]
      /\ sig \in [Runs -> [key : 0 .. Leaves, verifies : BOOLEAN]]
      /\ Leaves \in Nat /\ SkBlocks \in Nat \ {0} /\ SkBlocks \in Blocks
      /\ pc \in [Runs -> Stage] /\ released \subseteq Runs
  BY <1>1, SignToolAssumption, LeavesAssumption DEF TypeOK, Blocks, SecretKey
<1>3. ASSUME NEW r \in Runs, Read(r)
      PROVE  WholeInv'
  <2>1. /\ pc[r] = "idle" /\ \A q \in Runs : ~ Active(q)
        /\ UNCHANGED <<file, sig, released>>
        /\ pc'[r] = "loaded" /\ mem'[r] = file
        /\ \A q \in Runs : q # r => pc'[q] = pc[q]
    BY <1>2, <1>3 DEF Read
  <2>2. OneAtATime' /\ Active(r)' /\ (NoneKilled' => NoneKilled)
    BY <2>1 DEF OneAtATime, Active, NoneKilled
  <2>3. ASSUME NoneKilled', NEW q \in Runs
        PROVE  WholeAt(q)'
    <3>1. WholeAt(q) /\ Whole(file)
      BY <2>1, <2>2, <2>3 DEF WholeInv
    <3>2. CASE q = r
      BY <2>1, <3>1, <3>2 DEF WholeAt, Whole, Signing
    <3>3. CASE q # r
      <4>1. pc[q] \in {"idle", "done", "killed"}
        BY <2>1 DEF Active
      <4> QED
        BY <2>1, <3>1, <3>3, <4>1 DEF WholeAt, Signing
    <3> QED
      BY <3>2, <3>3
  <2> QED
    BY <1>1, <2>2, <2>3 DEF WholeInv
<1>4. ASSUME NEW r \in Runs, SignInMemory(r)
      PROVE  WholeInv'
  <2>1. /\ pc[r] = "loaded" /\ Active(r) /\ UNCHANGED <<file, released>>
        /\ pc' = [pc EXCEPT ![r] = "signed"] /\ pc'[r] = "signed"
        /\ \A q \in Runs \ {r} : sig'[q] = sig[q]
    BY <1>2, <1>4 DEF SignInMemory, Active
  <2>2. ASSUME NoneKilled
        PROVE  WholeAt(r)'
    <3>1. Whole(mem[r]) /\ Whole(file) /\ r \notin released
      BY <2>1, <2>2 DEF WholeInv, WholeAt, Signing
    <3>2. CASE Index(r) < LastIndex
      <4>1. /\ sig'[r] = [key |-> IF mem[r][1].live THEN Index(r) ELSE NoKey,
                          verifies |-> mem[r] = Everywhere(Live(Index(r)))]
            /\ mem'[r] = NextVersion(r)
        <5>1. ~ (Index(r) >= LastIndex)
          BY <1>1, <3>2, FirstOfKey, ParamsAssumption, LeavesAssumption
          DEF TypeOK, Index, IndexField, LastIndex
        <5> QED
          BY <1>2, <1>4, <5>1 DEF SignInMemory
      <4>2. mem[r][1].live => sig'[r].verifies
        <5>1. mem[r][1].live => mem[r][1] = Live(Index(r))
          BY <1>1, FirstOfKey, VersionFields DEF TypeOK, Index, Live
        <5>2. mem[r] = [b \in Blocks |-> mem[r][1]]
          BY <1>2, <3>1 DEF Whole
        <5>3. ASSUME mem[r][1].live
              PROVE  mem[r] = Everywhere(Live(Index(r)))
          BY <5>1, <5>2, <5>3 DEF Everywhere
        <5>4. sig'[r].verifies = (mem[r] = Everywhere(Live(Index(r))))
          BY <4>1
        <5> QED
          BY <5>3, <5>4
      <4>3. sig'[r].key = NoKey \/ sig'[r].verifies
        BY <4>1, <4>2
      <4>4. Whole(NextVersion(r))
        BY <3>1, FirstBlock DEF Whole, NextVersion
      <4> QED
        BY <2>1, <3>1, <4>1, <4>3, <4>4 DEF WholeAt, Whole, Signing
    <3>3. CASE ~ (Index(r) < LastIndex)
      <4>1. sig'[r].key = NoKey /\ mem'[r] = Spent(r)
        BY <1>2, <1>4, <3>3 DEF SignInMemory
      <4>2. Whole(Spent(r))
        BY <1>1, SpentIsKey DEF Whole
      <4> QED
        BY <2>1, <3>1, <4>1, <4>2 DEF WholeAt, Whole, Signing, NoKey
    <3> QED
      BY <3>2, <3>3
  <2> QED
    BY <1>1, <2>1, <2>2, WholeStep DEF Stage
<1>5. ASSUME NEW r \in Runs, FwriteKey(r)
      PROVE  WholeInv'
  <2>1. /\ pc[r] = "signed" /\ Active(r) /\ UNCHANGED <<mem, sig, released>>
        /\ pc' = [pc EXCEPT ![r] = "keyBuffered"] /\ pc'[r] = "keyBuffered"
        /\ file' = [b \in Blocks |-> IF b < SkBlocks THEN mem[r][b] ELSE file[b]]
    BY <1>2, <1>5 DEF FwriteKey, Active
  <2>2. ASSUME NoneKilled
        PROVE  WholeAt(r)'
    <3>1. WholeAt(r)
      BY <2>2 DEF WholeInv
    <3> QED
      BY <2>1, <3>1 DEF WholeAt, Whole, Signing, NoKey
  <2> QED
    BY <1>1, <2>1, <2>2, WholeStep DEF Stage
<1>6. ASSUME NEW r \in Runs, FwriteSig(r)
      PROVE  WholeInv'
  <2>1. /\ pc[r] = "keyBuffered" /\ Active(r) /\ UNCHANGED <<file, mem, sig>>
        /\ pc' = [pc EXCEPT ![r] = "sigBuffered"] /\ pc'[r] = "sigBuffered"
        /\ released' \subseteq released \union {r}
    BY <1>2, <1>6 DEF FwriteSig, Active
  <2>2. ASSUME NoneKilled
        PROVE  WholeAt(r)'
    <3>1. WholeAt(r)
      BY <2>2 DEF WholeInv
    <3> QED
      BY <2>1, <3>1 DEF WholeAt, Whole, Signing, NoKey
  <2> QED
    BY <1>1, <2>1, <2>2, WholeStep DEF Stage
<1>7. ASSUME NEW r \in Runs, FcloseKey(r)
      PROVE  WholeInv'
  <2>1. /\ pc[r] = "sigBuffered" /\ Active(r) /\ UNCHANGED <<mem, sig, released>>
        /\ pc' = [pc EXCEPT ![r] = "keyClosed"] /\ pc'[r] = "keyClosed"
        /\ file' = [file EXCEPT ![SkBlocks] = mem[r][SkBlocks]]
    BY <1>2, <1>7 DEF FcloseKey, Active
  <2>2. ASSUME NoneKilled
        PROVE  WholeAt(r)'
    <3>1. WholeAt(r)
      BY <2>2 DEF WholeInv
    <3>2. \A b \in Blocks : b < SkBlocks => file[b] = mem[r][b]
      BY <2>1, <3>1 DEF WholeAt
    <3>3. \A b \in Blocks : b < SkBlocks \/ b = SkBlocks
      BY <1>2 DEF Blocks
    <3>4. file' = mem[r]
      <4>1. \A b \in Blocks : file'[b] = mem[r][b]
        BY <1>2, <2>1, <3>2, <3>3
      <4>2. /\ mem[r] \in [Blocks -> Version \union {Torn}]
            /\ file' \in [Blocks -> Version \union {Torn}]
        BY <1>1, <1>2 DEF TypeOK, SecretKey
      <4> QED
        BY <4>1, <4>2
    <3> QED
      BY <2>1, <3>1, <3>4 DEF WholeAt, Whole, Signing, NoKey
  <2> QED
    BY <1>1, <2>1, <2>2, WholeStep DEF Stage
<1>8. ASSUME NEW r \in Runs, Exit(r)
      PROVE  WholeInv'
  <2>1. /\ pc[r] = "keyClosed" /\ Active(r) /\ UNCHANGED <<file, mem, sig>>
        /\ pc' = [pc EXCEPT ![r] = "done"] /\ pc'[r] = "done"
        /\ released' \subseteq released \union {r}
    BY <1>2, <1>8 DEF Exit, Active
  <2>2. ASSUME NoneKilled
        PROVE  WholeAt(r)' /\ Whole(file')
    <3>1. WholeAt(r)
      BY <2>2 DEF WholeInv
    <3> QED
      BY <2>1, <3>1 DEF WholeAt, Whole, Signing, NoKey
  <2> QED
    BY <1>1, <2>1, <2>2, WholeStep DEF Stage
<1>9. ASSUME NEW r \in Runs, Kill(r)
      PROVE  WholeInv'
  <2>1. /\ Active(r) /\ UNCHANGED <<file, mem, sig, released>>
        /\ pc' = [pc EXCEPT ![r] = "killed"]
    BY <1>9 DEF Kill
  <2> QED
    BY <1>1, <2>1, WholeStep DEF Stage
<1>10. CASE UNCHANGED vars
  BY <1>1, <1>10
  DEF vars, WholeInv, OneAtATime, Active, NoneKilled, WholeAt, Whole, Signing, NoKey
<1> QED
  BY <1>3, <1>4, <1>5, <1>6, <1>7, <1>8, <1>9, <1>10 DEF Next

(***************************************************************************)
(* If runs do not overlap, then as long as none was killed what they put   *)
(* out verifies, unless it was made from the wiped key: for any number of  *)
(* blocks that the key takes in the file.                                  *)
(***************************************************************************)
THEOREM ReleasedVerifiesHolds == ~ MayOverlap /\ Spec => []ReleasedVerifies
<1>1. WholeInv => ReleasedVerifies
  BY DEF WholeInv, TypeOK, WholeAt, NoneKilled, ReleasedVerifies
<1>2. CASE ~ MayOverlap
  <2>1. WholeInv /\ [Next]_vars => WholeInv'
    BY <1>2, WholeInvNext
  <2> QED
    BY <1>1, <2>1, WholeInvInit, PTL DEF Spec
<1>3. CASE MayOverlap
  BY <1>3
<1> QED
  BY <1>2, <1>3
=============================================================================
