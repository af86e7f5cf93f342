-------------------------------- MODULE BDS --------------------------------
(***************************************************************************)
(* The tree traversal of xmss_core_fast.c (Buchmann, Dahmen, Szydlo): the  *)
(* state kept per tree and the functions that change it.  A state is a     *)
(* record like bds_state; arrays are functions from 0.  The functions of   *)
(* the C code become operators from a state to a state.                    *)
(***************************************************************************)
EXTENDS Merkle, FiniteSetsExt

CONSTANT UINT_SPACE   \* 2^32, what an unsigned int can hold

ASSUME UnsignedAssumption == UINT_SPACE \in Nat \ {0}

\* Number of treehash instances.
Instances(params) == params.tree_height - params.bds_k

\* Number of nodes kept in state->retain.
Retained(params) == 2^params.bds_k - params.bds_k - 1

(***************************************************************************)
(* Unsigned arithmetic.  The runs give UINT_SPACE the value 2^16, a bound: *)
(* TLC's own integers are 32 bits wide.  Only the wrap below zero is ever  *)
(* reached, and every count involved is far below either value.            *)
(***************************************************************************)
Unsigned(x) == x % UINT_SPACE

\* A number returned as char and assigned to an unsigned int: the low eight
\* bits, sign extended (char is signed where this code is built for x86).
ThroughChar(x) ==
  LET low == x % 256 IN IF low < 128 THEN low ELSE Unsigned(low - 256)

\* a[i] = v; an index outside the array shows as a wrong DOMAIN.
Put(a, i, v) ==
  IF i \in DOMAIN a THEN [a EXCEPT ![i] = v]
  ELSE [j \in DOMAIN a \union {i} |-> IF j = i THEN v ELSE a[j]]

\* Memory that nobody has written: Junk nodes, and garbage g for numbers.
Uninitialised(params, g) ==
  LET th == params.tree_height IN
  [stack       |-> [i \in 0 .. th |-> Junk],
   stackoffset |-> g,
   stacklevels |-> [i \in 0 .. th |-> g],
   auth        |-> [i \in 0 .. th - 1 |-> Junk],
   keep        |-> [i \in 0 .. (th \div 2) - 1 |-> Junk],
   treehash    |-> [i \in 0 .. Instances(params) - 1 |->
                      [h |-> g, next_idx |-> g, stackusage |-> g,
                       completed |-> g, node |-> Junk]],
   retain      |-> [i \in 0 .. Retained(params) - 1 |-> Junk],
   next_leaf   |-> g]

\* memset over the arrays of a state; the numbers are in local variables.
Wiped(s) ==
  [s EXCEPT !.stack = [i \in DOMAIN @ |-> ZeroNode],
            !.stacklevels = [i \in DOMAIN @ |-> 0],
            !.auth = [i \in DOMAIN @ |-> ZeroNode],
            !.keep = [i \in DOMAIN @ |-> ZeroNode],
            !.treehash = [i \in DOMAIN @ |-> [@[i] EXCEPT !.node = ZeroNode]],
            !.retain = [i \in DOMAIN @ |-> ZeroNode]]

\* The same, numbers included: what the next call reads after a refusal.
Erased(s) ==
  [Wiped(s) EXCEPT
     !.stackoffset = 0,
     !.treehash = [i \in DOMAIN @ |->
                     [h |-> 0, next_idx |-> 0, stackusage |-> 0,
                      completed |-> 0, node |-> ZeroNode]],
     !.next_leaf = 0]

\* An instance written to sk and read back: 4 bytes for next_idx, one byte
\* for every other number.
StoredInstance(inst) ==
  [inst EXCEPT !.h = @ % 256, !.next_idx = Unsigned(@),
               !.stackusage = @ % 256, !.completed = @ % 256]

\* A state written to sk and read back: 4 bytes for a number.
Serialized(s) ==
  [s EXCEPT !.stackoffset = Unsigned(@),
            !.next_leaf = Unsigned(@),
            !.treehash = [i \in DOMAIN @ |-> StoredInstance(@[i])]]

-----------------------------------------------------------------------------

\* The two topmost nodes of the stack have the same height.
TopPair(s) ==
  /\ s.stackoffset > 1
  /\ s.stacklevels[s.stackoffset - 1] = s.stacklevels[s.stackoffset - 2]

\* Where retain keeps the node pos (odd, at least 3) of height h.
RetainSlot(params, h, pos) ==
  2^(params.tree_height - 1 - h) + h - params.tree_height + Shr(pos - 3, 1)

\* A right node about to be hashed is kept if the traversal will need it:
\* node 1 of its height for the first path, node 3 for the second, or in
\* the top bds_k heights every later one.
Save(params, s, h, pos, node) ==
  IF pos = 1
  THEN [s EXCEPT !.auth = Put(@, h, node)]
  ELSE IF h < Instances(params) /\ pos = 3
  THEN [s EXCEPT !.treehash[h].node = node]
  ELSE IF h >= Instances(params)
  THEN [s EXCEPT !.retain = Put(@, RetainSlot(params, h, pos), node)]
  ELSE s

\* Hash the two topmost nodes together, after leaf idx was pushed.
Merge(params, s, seed, addr, idx) ==
  LET top  == s.stackoffset - 1
      h    == s.stacklevels[top]
      kept == Save(params, s, h, Shr(idx, h), s.stack[top])
  IN  [kept EXCEPT
         !.stack = Put(@, top - 1, thash_h(s.stack[top - 1], s.stack[top],
                                           seed, addr, h, Shr(idx, h + 1))),
         !.stacklevels = Put(@, top - 1, h + 1),
         !.stackoffset = top]

(***************************************************************************)
(* Push leaf idx and merge: the body of treehash_init's loop and of        *)
(* bds_state_update.  At leaf 3 both copy the slot above the top of the    *)
(* stack, whatever it holds, to the first instance.                        *)
(***************************************************************************)
AddLeaf(params, s, seed, addr, idx) ==
  LET pushed == [s EXCEPT
        !.stack = Put(@, s.stackoffset, gen_leaf_wots(seed, addr, idx)),
        !.stacklevels = Put(@, s.stackoffset, 0),
        !.stackoffset = @ + 1]
      copied == IF Instances(params) > 0 /\ idx = 3
                THEN [pushed EXCEPT !.treehash[0].node = Junk]
                ELSE pushed
  IN  While(params.tree_height, TopPair,
            LAMBDA t : Merge(params, t, seed, addr, idx), copied)

\* Build a whole tree for its first path; the state's own stack is not used.
treehash_init(params, s, seed, addr) ==
  LET ready == [s EXCEPT
        !.stackoffset = 0,
        !.treehash = [i \in DOMAIN @ |->
                        [@[i] EXCEPT !.h = i, !.completed = 1,
                                     !.stackusage = 0]]]
      built == ForLeaves(params.tree_height,
                 LAMBDA t, i : AddLeaf(params, t, seed, addr, i), ready)
  IN  [state |-> [built EXCEPT !.stack = s.stack,
                               !.stacklevels = s.stacklevels,
                               !.stackoffset = s.stackoffset],
       root  |-> built.stack[0]]

\* One more leaf of a tree that is not in use yet (NEXT_i); nothing if it
\* has them all.
bds_state_update(params, s, seed, addr) ==
  IF s.next_leaf = 2^params.tree_height
  THEN s
  ELSE [AddLeaf(params, s, seed, addr, s.next_leaf) EXCEPT !.next_leaf = @ + 1]

-----------------------------------------------------------------------------

\* The least height among the nodes an instance has on the shared stack.
treehash_minheight_on_stack(params, s, t) ==
  Min({params.tree_height} \union
      {s.stacklevels[s.stackoffset - i - 1] : i \in 0 .. t.stackusage - 1})

\* Give instance lv one more leaf.
treehash_update(params, s, lv, seed, addr) ==
  LET idx == s.treehash[lv].next_idx
      More(w) == /\ w.state.treehash[lv].stackusage > 0
                 /\ w.state.stacklevels[w.state.stackoffset - 1] = w.height
      Hash(w) ==
        [node   |-> thash_h(w.state.stack[w.state.stackoffset - 1], w.node,
                            seed, addr, w.height, Shr(idx, w.height + 1)),
         height |-> w.height + 1,
         state  |-> [w.state EXCEPT !.treehash[lv].stackusage = @ - 1,
                                    !.stackoffset = @ - 1]]
      done == While(params.tree_height, More, Hash,
                    [node |-> gen_leaf_wots(seed, addr, idx), height |-> 0,
                     state |-> s])
      t == done.state
  IN  IF done.height = t.treehash[lv].h
      THEN [t EXCEPT !.treehash[lv].node = done.node,
                     !.treehash[lv].completed = 1]
      ELSE [t EXCEPT !.stack = Put(@, t.stackoffset, done.node),
                     !.stacklevels = Put(@, t.stackoffset, done.height),
                     !.stackoffset = @ + 1,
                     !.treehash[lv].stackusage = @ + 1,
                     !.treehash[lv].next_idx = @ + 1]

\* How far down an instance is: its lowest tail node, tree_height if done.
LowNode(params, s, i) ==
  IF s.treehash[i].completed # 0 THEN params.tree_height
  ELSE IF s.treehash[i].stackusage = 0 THEN i
  ELSE treehash_minheight_on_stack(params, s, s.treehash[i])

\* The instance that needs an update most: the first of the lowest ones, or
\* the number of instances if none is open.
NeediestInstance(params, s) ==
  LET low == [i \in DOMAIN s.treehash |-> LowNode(params, s, i)]
      open == {i \in DOMAIN low : low[i] < params.tree_height}
  IN  IF open = {} THEN Instances(params)
      ELSE Min({i \in open : \A j \in open : low[i] <= low[j]})

(***************************************************************************)
(* Spend up to n updates, each on the instance that needs it most; stop    *)
(* early if none does.  The instances never take more than 2^tree_height   *)
(* leaves together, which bounds the loop when n has wrapped.              *)
(***************************************************************************)
bds_treehash_update(params, s, n, seed, addr) ==
  LET Open(w) == NeediestInstance(params, w.state) < Instances(params)
      Spend(w) ==
        [state |-> treehash_update(params, w.state,
                     NeediestInstance(params, w.state), seed, addr),
         used  |-> w.used + 1]
      done == While(Min({n, 2^params.tree_height}), Open, Spend,
                    [state |-> s, used |-> 0])
  IN  [state |-> done.state, updates |-> ThroughChar(n - done.used)]

-----------------------------------------------------------------------------

\* The height of the lowest left node on the path of a leaf.
Tau(params, leaf) ==
  Min({params.tree_height} \union
      {i \in 0 .. params.tree_height - 1 : Bit(leaf, i) = 0})

(***************************************************************************)
(* The path of the next leaf: a new left node at height tau, below it the  *)
(* right nodes that the instances have delivered or retain has kept.       *)
(***************************************************************************)
NextPath(params, s, leaf, tau, seed, addr) ==
  LET th == params.tree_height
      At(h) ==
        IF h = tau
        THEN thash_h(s.auth[tau - 1], s.keep[(tau - 1) \div 2],
                     seed, addr, tau - 1, Shr(leaf, tau))
        ELSE IF h > tau THEN s.auth[h]
        ELSE IF h < Instances(params) THEN s.treehash[h].node
        ELSE s.retain[2^(th - 1 - h) + h - th + Shr(Shr(leaf, h) - 1, 1)]
  IN  [h \in DOMAIN s.auth \union {tau} |-> At(h)]

\* Mutant: the instance at height tau is restarted too.
RestartedAtTau(params, treehash, leaf, tau) ==
  LET start == [i \in DOMAIN treehash |-> leaf + 1 + 3 * 2^i]
  IN  [i \in DOMAIN treehash |->
        IF i <= tau /\ start[i] < 2^params.tree_height
        THEN [treehash[i] EXCEPT !.h = i, !.next_idx = start[i],
                                 !.completed = 0, !.stackusage = 0]
        ELSE treehash[i]]

\* The instances below tau start on the right node after next, if any.
Restarted(params, treehash, leaf, tau) ==
  LET start == [i \in DOMAIN treehash |-> leaf + 1 + 3 * 2^i]
  IN  [i \in DOMAIN treehash |->
        IF i < tau /\ start[i] < 2^params.tree_height
        THEN [treehash[i] EXCEPT !.h = i, !.next_idx = start[i],
                                 !.completed = 0, !.stackusage = 0]
        ELSE treehash[i]]

\* Turn the authentication path of a leaf into that of the next leaf.
bds_round(params, s, leaf, seed, addr) ==
  LET tau  == Tau(params, leaf)
      kept == IF Bit(leaf, tau + 1) = 0 /\ tau < params.tree_height - 1
              THEN Put(s.keep, tau \div 2, s.auth[tau])
              ELSE s.keep
  IN  IF tau = 0
      THEN [s EXCEPT !.keep = kept,
                     !.auth = Put(@, 0, gen_leaf_wots(seed, addr, leaf))]
      ELSE [s EXCEPT !.keep = kept,
                     !.auth = NextPath(params, s, leaf, tau, seed, addr),
                     !.treehash = Restarted(params, @, leaf, tau)]

-----------------------------------------------------------------------------

\* No array of the state was written outside its bounds, and the stack
\* offset is at most the number of slots.
StateInBounds(params, s) ==
  LET th == params.tree_height IN
  /\ DOMAIN s.stack = 0 .. th
  /\ DOMAIN s.stacklevels = 0 .. th
  /\ s.stackoffset \in 0 .. th + 1
  /\ DOMAIN s.auth = 0 .. th - 1
  /\ DOMAIN s.keep = 0 .. (th \div 2) - 1
  /\ DOMAIN s.retain = 0 .. Retained(params) - 1
=============================================================================
