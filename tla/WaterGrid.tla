------------------------------ MODULE WaterGrid ------------------------------
(***************************************************************************)
(* The grid of boxes of water_spatial: how main() deals it out to the      *)
(* processes (water.C), and which boxes INTERF and POTENG visit around a   *)
(* box (interf.C, poteng.C), with the periodic boundary.                   *)
(***************************************************************************)
EXTENDS Integers, FiniteSets

Dims == 1 .. 3                                   \* XDIR, YDIR, ZDIR
BoxesOf(bps) == [Dims -> 0 .. bps - 1]

\* Where the k-th pass of three nested loops, the first one outermost, stands.
Rounds(size) == size[1] * size[2] * size[3]
Nested(k, size) ==
    [dir \in Dims |-> CASE dir = 1 -> k \div (size[2] * size[3])
                        [] dir = 2 -> (k \div size[3]) % size[2]
                        [] dir = 3 -> k % size[3]]

\* The factors xprocs * yprocs * zprocs = n: the greatest j below the cube
\* root, then the greatest k below the square root, that go into n.
Decomposition(n) ==
    LET fits == {f \in (1 .. n) \X (1 .. n) :
                    /\ f[1] * f[1] * f[1] <= n /\ f[2] * f[2] <= n \div f[1]
                    /\ n % (f[1] * f[2]) = 0}
        best == CHOOSE f \in fits :
                    \A g \in fits : f[1] > g[1] \/ (f[1] = g[1] /\ f[2] >= g[2])
    IN  <<best[1], best[2], n \div (best[1] * best[2])>>

\* The first box of the i-th of `procs' processes along one side: the
\* first x_left processes have one box more.
FirstBox(i, procs, bps) ==
    LET left == bps % procs
    IN  i * (bps \div procs) + (IF i < left THEN i ELSE left)

\* start_end of process p, of procs[1] * procs[2] * procs[3]: its first box,
\* and how many boxes it has on each side.
Starts(p, procs, bps) ==
    [dir \in Dims |-> FirstBox(Nested(p, procs)[dir], procs[dir], bps)]
Extents(p, procs, bps) ==
    [dir \in Dims |-> FirstBox(Nested(p, procs)[dir] + 1, procs[dir], bps)
                      - Starts(p, procs, bps)[dir]]

\* my_boxes, in the order MDMAIN links them.
Dealt(p, procs, bps) ==
    [k \in 1 .. Rounds(Extents(p, procs, bps)) |->
        [dir \in Dims |-> Starts(p, procs, bps)[dir] + Nested(k - 1, Extents(p, procs, bps))[dir]]]
BoxList(p, n, bps) == Dealt(p, Decomposition(n), bps)

-----------------------------------------------------------------------------
\* The loops over XBOX, YBOX, ZBOX: a step of -1, 0 or 1 in each direction.
Offsets == [Dims -> {-1, 0, 1}]
\* "Make box number valid"
Valid(i, bps) == IF i = -1 THEN i + bps ELSE IF i >= bps THEN i - bps ELSE i
Wrapped(b, step, bps) == [dir \in Dims |-> Valid(b[dir] + step[dir], bps)]
Skipped(b, step, bps) ==
    \/ bps = 2 /\ \E dir \in Dims : b[dir] + step[dir] \in {-1, 2}
    \/ Wrapped(b, step, bps) = b /\ \E dir \in Dims : step[dir] # 0
Visits(b, c, bps) ==
    Cardinality({step \in Offsets : ~Skipped(b, step, bps) /\ Wrapped(b, step, bps) = c})

\* What the loops are for: boxes that touch, also across the boundary.
Close(i, j, bps) == (i - j) % bps \in {0, 1, bps - 1}
Touch(b, c, bps) == \A dir \in Dims : Close(b[dir], c[dir], bps)
=============================================================================
