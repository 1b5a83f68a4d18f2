----------------------------- MODULE OceanPlan -----------------------------
(***************************************************************************)
(* What the two ocean programs have in common: the physics, the clock, and *)
(* the way a process' program is put together.  Whether a level of the     *)
(* multigrid solver has converged depends on real numbers: the outcomes    *)
(* are given by Verdicts, a sequence for each call of multig, and          *)
(* err_multi is the set of the errors it is the maximum of.                *)
(***************************************************************************)
EXTENDS Modular, Sequences

CONSTANTS
    im,                   \* the number of rows and columns, with the border
    nprocs,               \* a power of two
    Verdicts,             \* sequences of "stay", "coarser" and "converged"
    dtau, day,            \* the time step and the length of a day
    res, h, h1, h3, lf, f0, beta, gpr,
    wind,                 \* the curl of the wind stress, by column
    fresh(_)              \* what malloc leaves in the memory of a cell

Procs  == 0 .. nprocs - 1
MASTER == 0
\* The processes lie in yprocs rows, not fewer than the columns.
xprocs == CHOOSE x \in 1 .. nprocs :
    /\ nprocs % x = 0 /\ x <= nprocs \div x
    /\ \A z \in x + 1 .. nprocs : nprocs % z = 0 => z > nprocs \div z
yprocs == nprocs \div xprocs

\* Distances and coefficients of main, as numbers modulo Q.
ressqr    == (res * res) % Q
eig2      == Over((-h * f0 * f0) % Q, (h1 * h3 * gpr) % Q)
factlap   == Over(1, ressqr)
factjacob == Over(Q - 1, (12 * ressqr) % Q)
hh1       == Over(h1, h)
hh3       == Over(h3, h)
ysca1     == Over(((im - 1) * res) % Q, 2)
f(column) == (f0 + beta * (column * res - ysca1)) % Q
curl(column) == IF column = 0 THEN 0 ELSE wind[column]

\* The grids; those in pairs hold a value for each of the two layers.
Layers == ({"psi", "psim", "temparray", "work1", "work4", "work5", "work7"} \X (0 .. 1))
    \cup {<<z>> : z \in {"work2", "work3", "work6", "ga", "gb", "oldga", "oldgb", "tauz", "psium", "psilm", "psib"}}
Both(m, step(_, _)) == step(step(m, 0), 1)

\* The stencils of laplacalc and jacobcalc.
Around(g, c) == g[<<c[1] + 1, c[2]>>] + g[<<c[1] - 1, c[2]>>] + g[<<c[1], c[2] + 1>>] + g[<<c[1], c[2] - 1>>]
Arakawa(x, y, i, j) ==
    (y[<<i, j - 1>>] + y[<<i + 1, j - 1>>] - y[<<i, j + 1>>] - y[<<i + 1, j + 1>>]) * (x[<<i + 1, j>>] - x[<<i, j>>])
    + (y[<<i - 1, j - 1>>] + y[<<i, j - 1>>] - y[<<i - 1, j + 1>>] - y[<<i, j + 1>>]) * (x[<<i, j>>] - x[<<i - 1, j>>])
    + (y[<<i + 1, j>>] + y[<<i + 1, j + 1>>] - y[<<i - 1, j>>] - y[<<i - 1, j + 1>>]) * (x[<<i, j + 1>>] - x[<<i, j>>])
    + (y[<<i + 1, j - 1>>] + y[<<i + 1, j>>] - y[<<i - 1, j - 1>>] - y[<<i - 1, j>>]) * (x[<<i, j>>] - x[<<i, j - 1>>])
    + (y[<<i + 1, j>>] - y[<<i, j + 1>>]) * (x[<<i + 1, j + 1>>] - x[<<i, j>>])
    + (y[<<i, j - 1>>] - y[<<i - 1, j>>]) * (x[<<i, j>>] - x[<<i - 1, j - 1>>])
    + (y[<<i, j + 1>>] - y[<<i - 1, j>>]) * (x[<<i - 1, j + 1>>] - x[<<i, j>>])
    + (y[<<i + 1, j>>] - y[<<i, j - 1>>]) * (x[<<i, j>>] - x[<<i + 1, j - 1>>])

\* The errors of one sweep: err_multi must come from every process' sweep.
Sweep(m, p) == {<<m.iter[p], s>> : s \in Procs}
reset(m, p) == [m EXCEPT !.iter[p] = @ + 1, !.err_multi = IF p = MASTER THEN {} ELSE @]
report(m, p) == [m EXCEPT !.err_multi = @ \cup {<<m.iter[p], p>>}]
read(m, p) == [m EXCEPT !.misled = IF m.err_multi = Sweep(m, p) THEN @ ELSE @ \cup {p}]

\* A program is a sequence of intervals, with a barrier between one and the
\* next, and an interval the sequence of what a process does in it.
Joined(first, second) ==
    LET n == Len(first)
    IN  SubSeq(first, 1, n - 1) \o <<first[n] \o Head(second)>> \o Tail(second)
Each(first, last, program(_)) ==
    LET upto[i \in first - 1 .. last] == IF i < first THEN <<<<>>>> ELSE Joined(upto[i - 1], program(i)) IN upto[last]

Phase(name) == << << <<name, 0>> >>, << >> >>

\* The clock of a process: dhour counts from the end of the first day, and a
\* day that ends after the second is the last one.
clock == LET after[n \in 0 .. 3 * day] ==
                 IF n = 0 THEN [dhour |-> 0, ends |-> FALSE, last |-> FALSE]
                 ELSE LET before == IF after[n - 1].ends THEN 0 ELSE after[n - 1].dhour
                          dhour  == IF n * dtau > day THEN before + dtau ELSE before
                          ends   == n * dtau > day /\ dhour >= day
                      IN  [dhour |-> dhour, ends |-> ends, last |-> ends /\ (n * dtau) \div day >= 2]
         IN  after
Steps == CHOOSE n \in DOMAIN clock : clock[n].last /\ \A l \in 0 .. n - 1 : ~clock[l].last
=============================================================================
