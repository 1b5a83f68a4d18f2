------------------------------ MODULE Modular ------------------------------
(***************************************************************************)
(* Numbers for the kernels: the integers modulo a prime stand for the      *)
(* doubles.  Sums and products are those of the program, quotients and     *)
(* roots of unity exist, and rounding does not.                            *)
(***************************************************************************)
EXTENDS Integers, Sequences

CONSTANT Q     \* a prime

Num == 0 .. Q - 1
Inverse1 == [a \in Num |-> IF a = 0 THEN 0 ELSE CHOOSE b \in Num : (a * b) % Q = 1]
Over(a, b) == (a * Inverse1[b]) % Q

Power(a, k) == LET pow[i \in 0 .. k] == IF i = 0 THEN 1 ELSE (a * pow[i - 1]) % Q IN pow[k]

\* step(x, k) for k = from .. to, one after the other.
Iterate(from, to, step(_, _), x) ==
    LET after[k \in from - 1 .. to] == IF k < from THEN x ELSE step(after[k - 1], k)
    IN  IF to < from THEN x ELSE after[to]

\* The sequence itself; TLC then has its elements once and for all.
Settled(s) == s \o <<>>

SumOver(from, to, term(_)) == Iterate(from, to, LAMBDA s, k : (s + term(k)) % Q, 0)
=============================================================================
