------------------------------- MODULE Loops -------------------------------
(***************************************************************************)
(* Bit arithmetic and the loops of the C code as operators on the state a  *)
(* loop carries from turn to turn.                                         *)
(***************************************************************************)
EXTENDS Integers, Sequences

Shr(x, n) == x \div 2^n       \* x >> n
Low(x, n) == x % 2^n          \* x & ((1 << n) - 1)
Bit(x, n) == Shr(x, n) % 2    \* (x >> n) & 1

\* What the proofs need to know of powers of two: each is twice the one before.
PowersOfTwo(m) == \A i \in 0 .. m : 2^(i + 1) = 2 * 2^i

\* for (i = 0; i < n; i++) s = Body(s, i).  Binding the state of the turn
\* before as t makes TLC compute it once and before the turn itself.
For(n, Body(_, _), s) ==
  LET after[i \in 0 .. n] ==
        IF i = 0 THEN s
        ELSE CHOOSE next \in {Body(t, i - 1) : t \in {after[i - 1]}} : TRUE
  IN  after[n]

\* The same loop over the 2^h leaves of a tree, as two nested loops: TLC
\* evaluates a turn inside the next, so the nesting has to be kept low.
ForLeaves(h, Body(_, _), s) ==
  LET low == h \div 2 IN
  For(2^(h - low),
      LAMBDA t, i : For(2^low, LAMBDA u, j : Body(u, i * 2^low + j), t), s)

\* while (Cond(s)) s = Body(s), for loops that take at most n turns.
While(n, Cond(_), Body(_), s) ==
  For(n, LAMBDA t, i : IF Cond(t) THEN Body(t) ELSE t, s)
=============================================================================
