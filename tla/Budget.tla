------------------------------- MODULE Budget -------------------------------
(***************************************************************************)
(* What a call of xmssmt_core_sign may spend in xmss_core_fast.c, without  *)
(* the trees.  A call has so many updates; the layers take their turns     *)
(* from the lowest.  The tree in use takes any number, then NEXT_i takes   *)
(* one for one more leaf, if there is one left.  A layer whose tree ends   *)
(* swaps NEXT_i in instead, which costs one update too, whether there is   *)
(* one or not: below zero the unsigned number is as good as endless.       *)
(***************************************************************************)
EXTENDS Integers

CONSTANTS
  Width,     \* leaves of a tree: 1 << tree_height
  Layers     \* params->d

VARIABLES
  updates,   \* updates of a call, (tree_height - bds_k) >> 1, always the same
  pos,       \* per layer the leaf of the tree in use that signs next
  ready      \* per layer but the top one the leaves NEXT_i has

vars == <<updates, pos, ready>>

Layer == 0 .. Layers - 1
Lower == 0 .. Layers - 2

\* The tree of layer i makes its last signature.
Ended(i) == \A k \in 0 .. i : pos[k] = Width - 1

\* There is a tree to the right of the one in use on layer i.
HasNext(i) == \E k \in i + 1 .. Layers - 1 : pos[k] < Width - 1

Init ==
  /\ updates \in Nat
  /\ pos = [i \in Layer |-> 0]
  /\ ready = [i \in Lower |-> 0]

Endless == -1

\* One update less, and what the tree in use may leave of u updates.
OneLess(u) == IF u = Endless THEN Endless ELSE u - 1
Remainders(u) == IF u = Endless THEN {Endless} ELSE 0 .. u

\* NEXT_i after one more leaf.
Fed(i) == IF ready[i] < Width THEN ready[i] + 1 ELSE ready[i]

\* Layer i has u updates before its turn and v after it, NEXT_i has n leaves.
Turn(i, u, v, n) ==
  IF Ended(i) THEN v = OneLess(u) /\ n = 0
  ELSE IF i = 0 THEN v \in Remainders(u) /\ n = IF HasNext(0) THEN Fed(0) ELSE ready[0]
  ELSE \E w \in Remainders(u) :
         IF HasNext(i) /\ w # 0 THEN v = OneLess(w) /\ n = Fed(i)
                                ELSE v = w /\ n = ready[i]

\* A call before the last index; left[i] is what layer i finds.
Call ==
  /\ ~ Ended(Layers - 1)
  /\ pos' = [i \in Layer |->
               IF i > 0 /\ ~ Ended(i - 1) THEN pos[i]
               ELSE IF pos[i] = Width - 1 THEN 0 ELSE pos[i] + 1]
  /\ ready' \in [Lower -> 0 .. Width]
  /\ \E left \in [Layer -> Endless .. updates] :
       /\ left[0] = updates
       /\ \A i \in Lower : Turn(i, left[i], left[i + 1], ready'[i])
  /\ UNCHANGED updates

Spec == Init /\ [][Call]_vars

-----------------------------------------------------------------------------

TypeOK ==
  /\ updates \in Nat
  /\ pos \in [Layer -> 0 .. Width - 1]
  /\ ready \in [Lower -> 0 .. Width]

(***************************************************************************)
(* Where the updates give out: layers 1 .. updates take one each, whether  *)
(* their NEXT tree still needs it or not, so the layer above gets one only *)
(* when everything below it was swapped and the number has wrapped.  One   *)
(* or two updates are what tree heights 2 to 5 have.                       *)
(***************************************************************************)
Starving == updates + 1
GivesOut == updates \in {1, 2} /\ Starving <= Layers - 2

\* NEXT of that layer gets its leaves no faster than the tree in use is used.
NoFasterThanUsed ==
  GivesOut /\ HasNext(Starving) => ready[Starving] <= pos[Starving]

\* So it never is complete when its turn comes: what is swapped in and
\* signed then is no tree.
SwappedInUnfinished ==
  GivesOut /\ Ended(Starving) /\ HasNext(Starving) => ready[Starving] < Width
=============================================================================
