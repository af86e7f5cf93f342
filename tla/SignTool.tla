------------------------------ MODULE SignTool ------------------------------
(***************************************************************************)
(* ui/sign.c: a program that is run once per message and keeps the key     *)
(* pair in a file.  A run reads the secret key, signs in memory, and puts  *)
(* the changed key into the stdio buffer of the key file and the signature *)
(* into that of stdout.  What counts is when the bytes leave the buffers:  *)
(* a run can be killed at any time, and another may use the file meanwhile.*)
(*                                                                         *)
(* stdio (external) is modelled as the C library does it: fwrite passes on *)
(* every block it fills and keeps the rest; fclose and exit pass it on.    *)
(***************************************************************************)
EXTENDS OneTimeKeys, Integers, FiniteSets

CONSTANTS
  Runs,         \* the runs of the program
  SkBlocks,     \* stdio blocks the secret key takes: 1 for XMSS, or for any
                \* parameters with xmss_core.c; more for XMSSMT and the BDS state
  SigBlocks,    \* stdio blocks of signature and message
  MayOverlap,   \* TRUE: a run may start while another has the file open
  MayCrash      \* TRUE: a run may be killed at any step

ASSUME SignToolAssumption ==
  /\ SkBlocks \in Nat \ {0}
  /\ SigBlocks \in Nat \ {0}
  /\ MayOverlap \in BOOLEAN
  /\ MayCrash \in BOOLEAN

VARIABLES
  file,         \* the key file: for each block of the secret key, the index
                \* it belongs to; index bytes and seeds are in the first block
  pc,           \* how far each run is
  mem,          \* each run's sk, block by block like file
  sig,          \* each run's sm: the one-time key in it, whether it verifies
  released      \* the runs that have put out at least part of sm

vars == <<file, pc, mem, sig, released>>

Blocks == 1 .. SkBlocks
Everywhere(v) == [b \in Blocks |-> v]

\* What a block belongs to: an index of the key, or one with the key wiped.
Live(i)  == [idx |-> i, live |-> TRUE]
Wiped(i) == [idx |-> i, live |-> FALSE]
Torn     == Wiped(-1)               \* a block whose state fits no index
Version  == [idx : 0 .. LastIndex, live : {TRUE}] \union [idx : IndexField, live : {FALSE}]
SecretKey == {key \in [Blocks -> Version \union {Torn}] : key[1] # Torn}

Stage == {"idle", "loaded", "signed", "keyBuffered", "sigBuffered",
          "keyClosed", "done", "killed"}

(***************************************************************************)
(* File, runs and signatures stay in their types; in the first block,      *)
(* whatever was killed, is an index, and with the seeds of a live key the  *)
(* index of a one-time key.                                                *)
(***************************************************************************)
TypeOK ==
  /\ file \in SecretKey
  /\ pc \in [Runs -> Stage]
  /\ mem \in [Runs -> SecretKey]
  /\ sig \in [Runs -> [key : 0 .. Leaves, verifies : BOOLEAN]]
  /\ released \subseteq Runs

Active(r) == pc[r] \notin {"idle", "done", "killed"}

Init ==
  /\ file = Everywhere(Live(0))
  /\ pc = [r \in Runs |-> "idle"]
  /\ mem = [r \in Runs |-> file]
  /\ sig = [r \in Runs |-> [key |-> NoKey, verifies |-> FALSE]]
  /\ released = {}

-----------------------------------------------------------------------------

\* fopen, fseek and fread of the secret key.
Read(r) ==
  /\ pc[r] = "idle"
  /\ MayOverlap \/ \A q \in Runs : ~ Active(q)
  /\ mem' = [mem EXCEPT ![r] = file]
  /\ pc' = [pc EXCEPT ![r] = "loaded"]
  /\ UNCHANGED <<file, sig, released>>

Index(r) == mem[r][1].idx

\* The key with the next index; a state that was torn stays so.
NextVersion(r) ==
  [b \in Blocks |-> IF mem[r][b] = mem[r][1]
                    THEN [mem[r][1] EXCEPT !.idx = Increment(@)] ELSE Torn]

\* Mutant: the wipe is left to the call after the last.
SpentUnwiped(r) ==
  IF Beyond(Index(r)) THEN Everywhere(Wiped(IndexSpace - 1))
  ELSE NextVersion(r)

\* Mutant: the index bytes of a refused key are zeroed with the rest.
SpentCleared(r) ==
  IF Beyond(Index(r)) THEN Everywhere(Wiped(0))
  ELSE Everywhere(Wiped(Increment(Index(r))))

(***************************************************************************)
(* The key after a call from the last index on: wiped, with 0xFF in the    *)
(* index bytes, over which the call at the last index, if it is not        *)
(* refused, has written idx + 1, which is 0 if the field is full.          *)
(***************************************************************************)
Spent(r) ==
  IF Beyond(Index(r)) THEN Everywhere(Wiped(IndexSpace - 1))
  ELSE Everywhere(Wiped(Increment(Index(r))))

(***************************************************************************)
(* XMSS_SIGN, whose return code is ignored.  The signature verifies if the *)
(* whole state fits the index.  Nobody's is the one made with a wiped key, *)
(* as the call at the last index does, and so is what a refusal leaves.    *)
(***************************************************************************)
SignInMemory(r) ==
  /\ pc[r] = "loaded"
  /\ \/ /\ Index(r) < LastIndex
        /\ sig' = [sig EXCEPT ![r] =
                     [key      |-> IF mem[r][1].live THEN Index(r) ELSE NoKey,
                      verifies |-> mem[r] = Everywhere(Live(Index(r)))]]
        /\ mem' = [mem EXCEPT ![r] = NextVersion(r)]
     \/ /\ Index(r) >= LastIndex
        /\ sig' = [sig EXCEPT ![r] = [key |-> NoKey, verifies |-> FALSE]]
        /\ mem' = [mem EXCEPT ![r] = Spent(r)]
  /\ pc' = [pc EXCEPT ![r] = "signed"]
  /\ UNCHANGED <<file, released>>

\* Mutant: no block reaches the file before the close.
FwriteKeyLazy(r) ==
  /\ pc[r] = "signed"
  /\ pc' = [pc EXCEPT ![r] = "keyBuffered"]
  /\ UNCHANGED <<file, mem, sig, released>>

\* fseek back and fwrite of the key: all blocks but the last reach the file.
FwriteKey(r) ==
  /\ pc[r] = "signed"
  /\ file' = [b \in Blocks |-> IF b < SkBlocks THEN mem[r][b] ELSE file[b]]
  /\ pc' = [pc EXCEPT ![r] = "keyBuffered"]
  /\ UNCHANGED <<mem, sig, released>>

\* fwrite of sm to stdout: again all blocks but the last.
FwriteSig(r) ==
  /\ pc[r] = "keyBuffered"
  /\ released' = IF SigBlocks > 1 THEN released \union {r} ELSE released
  /\ pc' = [pc EXCEPT ![r] = "sigBuffered"]
  /\ UNCHANGED <<file, mem, sig>>

\* Mutant: a close that loses the buffer.
FcloseKeyLossy(r) ==
  /\ pc[r] = "sigBuffered"
  /\ pc' = [pc EXCEPT ![r] = "keyClosed"]
  /\ UNCHANGED <<file, mem, sig, released>>

\* fclose of the key file passes on the last block.
FcloseKey(r) ==
  /\ pc[r] = "sigBuffered"
  /\ file' = [file EXCEPT ![SkBlocks] = mem[r][SkBlocks]]
  /\ pc' = [pc EXCEPT ![r] = "keyClosed"]
  /\ UNCHANGED <<mem, sig, released>>

\* return from main: exit passes on what stdout still holds.
Exit(r) ==
  /\ pc[r] = "keyClosed"
  /\ released' = released \union {r}
  /\ pc' = [pc EXCEPT ![r] = "done"]
  /\ UNCHANGED <<file, mem, sig>>

\* The process is killed; what is in its buffers is lost.
Kill(r) ==
  /\ MayCrash
  /\ Active(r)
  /\ pc' = [pc EXCEPT ![r] = "killed"]
  /\ UNCHANGED <<file, mem, sig, released>>

Next ==
  \E r \in Runs :
    \/ Read(r) \/ SignInMemory(r) \/ FwriteKey(r) \/ FwriteSig(r)
    \/ FcloseKey(r) \/ Exit(r) \/ Kill(r)

Spec == Init /\ [][Next]_vars

-----------------------------------------------------------------------------

(***************************************************************************)
(* No two runs put out anything made with the same one-time key.           *)
(***************************************************************************)
NoKeyReuse ==
  \A r, q \in released : r # q => sig[r].key # sig[q].key \/ sig[r].key = NoKey

(***************************************************************************)
(* Before any byte of a signature leaves a run, an index beyond the one it *)
(* used is in the key file, or the key there has been wiped.               *)
(***************************************************************************)
SavedBeforeReleased ==
  \A r \in released : sig[r].key # NoKey =>
    (file[1].live => file[1].idx > sig[r].key)

\* As long as no run was killed, what the runs put out verifies, the last
\* index apart: each finds the whole state that the one before has left.
ReleasedVerifies ==
  (\A r \in Runs : pc[r] # "killed") =>
    \A r \in released : sig[r].key # NoKey => sig[r].verifies

(***************************************************************************)
(* The index in the key file never goes back, provided that the field has  *)
(* a value to spare: in a full one the last write of idx + 1 takes it to 0.*)
(***************************************************************************)
IndexNeverGoesBack == [][file'[1].idx >= file[1].idx]_file
=============================================================================
