----------------------------- MODULE LuKernels -----------------------------
(***************************************************************************)
(* The kernels of the two LU programs on blocks of a matrix, and the array *)
(* the blocks lie in: element <<i, j>> of a block is at base + i +         *)
(* j * stride.                                                             *)
(***************************************************************************)
EXTENDS Modular

Block(m, base, stride, dimi, dimj) ==
    [e \in (0 .. dimi - 1) \X (0 .. dimj - 1) |-> m[base + e[1] + e[2] * stride]]
Stored(m, base, stride, dimi, dimj, block) ==
    [w \in DOMAIN m |->
        LET i == (w - base) % stride
            j == (w - base) \div stride
        IN  IF w >= base /\ i < dimi /\ j < dimj THEN block[<<i, j>>] ELSE m[w]]

\* A row of U is divided by the diagonal of L: U has ones on its diagonal.
lu0(a, n) == Iterate(0, n - 1, LAMBDA b, k :
    [e \in DOMAIN b |->
        LET u == Over(b[<<k, e[2]>>], b[<<k, k>>])
        IN  IF e[2] <= k \/ e[1] < k THEN b[e]
            ELSE IF e[1] = k THEN u ELSE (b[e] - u * b[<<e[1], k>>]) % Q], a)

bdiv(a, diag, dimk) == Iterate(0, dimk - 1, LAMBDA b, k :
    [e \in DOMAIN b |-> IF e[2] <= k THEN b[e]
                        ELSE (b[e] - diag[<<k, e[2]>>] * b[<<e[1], k>>]) % Q], a)

bmodd(a, c, dimi) == Iterate(0, dimi - 1, LAMBDA b, k :
    [e \in DOMAIN b |->
        LET u == Over(b[<<k, e[2]>>], a[<<k, k>>])
        IN  IF e[1] < k THEN b[e]
            ELSE IF e[1] = k THEN u ELSE (b[e] - u * a[<<e[1], k>>]) % Q], c)

bmod(a, b, c, dimk) == Iterate(0, dimk - 1, LAMBDA d, k :
    [e \in DOMAIN d |-> (d[e] - b[<<k, e[2]>>] * a[<<e[1], k>>]) % Q], c)
=============================================================================
