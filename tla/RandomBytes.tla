---------------------------- MODULE RandomBytes ----------------------------
(***************************************************************************)
(* randombytes.c: seeds are read from /dev/urandom.  open and read are     *)
(* external; either can fail any number of times, and a read can deliver   *)
(* less than it was asked for.  The function has no way to fail itself: it *)
(* sleeps and tries again.                                                 *)
(***************************************************************************)
EXTENDS Integers

CONSTANT Chunk     \* the most that is asked of one read; 1048576 in the code

ASSUME RandomBytesAssumption == Chunk \in Nat \ {0}

VARIABLES
  fd,         \* the file descriptor; -1: not open
  x,          \* how far the pointer into the buffer has moved
  xlen,       \* how much is left to read
  at,         \* where the function is
  wanted,     \* history: the length it was called with
  filled      \* history: the positions of the buffer that were written to

randomVars == <<fd, x, xlen, at, wanted, filled>>

RandomInit ==
  /\ fd = -1
  /\ x = 0 /\ xlen = 0 /\ at = "idle"
  /\ wanted = 0 /\ filled = {}

Call(len) ==
  /\ at = "idle"
  /\ x' = 0 /\ xlen' = len
  /\ wanted' = len /\ filled' = {}
  /\ at' = IF fd = -1 THEN "open" ELSE "read"
  /\ UNCHANGED fd

Opened ==
  /\ at = "open"
  /\ fd' = 3
  /\ at' = "read"
  /\ UNCHANGED <<x, xlen, wanted, filled>>

OpenFailed ==
  /\ at = "open"
  /\ at' = "sleepOpen"
  /\ UNCHANGED <<fd, x, xlen, wanted, filled>>

Request == IF xlen < Chunk THEN xlen ELSE Chunk

\* Mutant: what comes next overwrites what was read.
DeliveredInPlace ==
  /\ at = "read" /\ xlen > 0
  /\ \E i \in 1 .. Request :
       /\ filled' = filled \union x .. x + i - 1
       /\ xlen' = xlen - i
  /\ UNCHANGED <<fd, x, at, wanted>>

\* A read that delivers i bytes.
Delivered ==
  /\ at = "read" /\ xlen > 0
  /\ \E i \in 1 .. Request :
       /\ filled' = filled \union x .. x + i - 1
       /\ x' = x + i
       /\ xlen' = xlen - i
  /\ UNCHANGED <<fd, at, wanted>>

ReadFailed ==
  /\ at = "read" /\ xlen > 0
  /\ at' = "sleepRead"
  /\ UNCHANGED <<fd, x, xlen, wanted, filled>>

\* Mutant: the loop waits for fd without another open.
AwakeWaiting ==
  /\ at \in {"sleepOpen", "sleepRead"}
  /\ at' = IF at = "sleepOpen" /\ fd = -1 THEN "sleepOpen" ELSE "read"
  /\ UNCHANGED <<fd, x, xlen, wanted, filled>>

\* sleep(1) is over.
Awake ==
  /\ at \in {"sleepOpen", "sleepRead"}
  /\ at' = IF at = "sleepOpen" THEN "open" ELSE "read"
  /\ UNCHANGED <<fd, x, xlen, wanted, filled>>

Return ==
  /\ at = "read" /\ xlen = 0
  /\ at' = "idle"
  /\ UNCHANGED <<fd, x, xlen, wanted, filled>>

RandomStep ==
  Opened \/ OpenFailed \/ Delivered \/ ReadFailed \/ Awake \/ Return

\* With a caller that asks for any number of bytes, any number of times.
RandomNext == RandomStep \/ \E len \in Nat : Call(len)

RandomSpec == RandomInit /\ [][RandomNext]_randomVars

-----------------------------------------------------------------------------

RandomTypeOK ==
  /\ fd \in {-1, 3}
  /\ x \in Nat /\ xlen \in Nat /\ wanted \in Nat
  /\ filled \subseteq Nat
  /\ at \in {"idle", "open", "sleepOpen", "read", "sleepRead"}

(***************************************************************************)
(* When it returns, every byte asked for has been written and no other,    *)
(* however often reads failed and however short they were: a seed with old *)
(* memory in it would be a weak key that no test notices.                  *)
(***************************************************************************)
Filled == at = "idle" => filled = 0 .. wanted - 1
=============================================================================
