------------------------------ MODULE OceanNcp ------------------------------
(***************************************************************************)
(* ocean_ncp: the ocean of OceanCp on arrays that all processes share.  A  *)
(* process writes its block of a grid, and the border of the ocean next to *)
(* it; it reads the cells around, which others may be writing.             *)
(***************************************************************************)
EXTENDS OceanPlan

\* The finest level is numlev - 1; the coarsest one that is used is 1.
numlev == (CHOOSE b \in 0 .. im : 2 ^ b = im - 2) + 1
finest == numlev - 1
imx(k) == (im - 2) \div 2 ^ (finest - k) + 2

\* The first and the number of the rows (or columns) that process row j has.
Start1(n, procs, j) ==
    LET portion == n \div procs
        extra   == n % procs
    IN  IF j < extra THEN j * (portion + 1) + 1 ELSE extra * (portion + 1) + (j - extra) * portion + 1
Count1(n, procs, j) == n \div procs + (IF j < n % procs THEN 1 ELSE 0)
Inner(k, procs, j) == Start1(imx(k) - 2, procs, j) .. Start1(imx(k) - 2, procs, j) + Count1(imx(k) - 2, procs, j) - 1
\* The same with the border, as pist .. pien.
Outer(k, procs, j) ==
    LET first == Start1(imx(k) - 2, procs, j)
        last  == first + Count1(imx(k) - 2, procs, j) - 1
    IN  (IF first = 1 THEN 0 ELSE first) .. (IF last = imx(k) - 2 THEN imx(k) - 1 ELSE last)

\* What main sets up: each process' block of each level, bare and bordered.
Shape == [top   |-> finest,
          block |-> [k \in 0 .. finest |-> [p \in Procs |-> Inner(k, yprocs, p \div xprocs) \X Inner(k, xprocs, p % xprocs)]],
          zone  |-> [k \in 0 .. finest |-> [p \in Procs |-> Outer(k, yprocs, p \div xprocs) \X Outer(k, xprocs, p % xprocs)]]]
Top(m) == m.gp.top
Mine(m, p, c)   == c \in m.gp.zone[Top(m)][p]
Border(i)       == i \in {0, im - 1}
Inside(m, c)    == ~Border(c[1]) /\ ~Border(c[2])
Corner(m, c)    == Border(c[1]) /\ Border(c[2])
Set(m, p, z, e(_)) == [m EXCEPT !.grid[z] = [c \in DOMAIN @ |-> IF Mine(m, p, c) THEN e(c) % Q ELSE @[c]]]
Zeroed(m, p, layers) == [m EXCEPT !.grid = [z \in DOMAIN @ |->
    IF z \in layers THEN [c \in DOMAIN @[z] |-> IF Mine(m, p, c) THEN 0 ELSE @[z][c]] ELSE @[z]]]

\* The stencils; laplacalc leaves the corners alone.
laplacian(m, p, g, z) ==
    LET new(c) == IF Inside(m, c) THEN factlap * (Around(g, c) - 4 * g[c]) ELSE IF Corner(m, c) THEN m.grid[z][c] ELSE 0
    IN  Set(m, p, z, new)
laplacalc(m, p, x, z) == laplacian(m, p, m.grid[x], z)
jacobian(m, p, x, y, z) ==
    LET new(c) == IF Inside(m, c) THEN factjacob * (Arakawa(x, y, c[1], c[2]) % Q) ELSE 0 IN Set(m, p, z, new)
jacobcalc(m, p, x, y, z) == jacobian(m, p, m.grid[x], m.grid[y], z)

lev_res(m, k)   == (res * 2 ^ (Top(m) - k)) % Q
side(m, k)      == (im - 2) \div 2 ^ (Top(m) - k)
int_coeff(m, k) == Over(1, side(m, k) + 1)
factor(m, k)    == (4 - eig2 * ((lev_res(m, k) * lev_res(m, k)) % Q)) % Q
Red   == 0
Black == 1
relax(m, p, k, color) ==
    [m EXCEPT !.q[k] = [c \in DOMAIN @ |->
        IF c \in m.gp.block[k][p] /\ (c[1] + c[2]) % 2 = color
        THEN Over((Around(@, c) - m.rhs[k][c]) % Q, factor(m, k)) ELSE @[c]]]
mix(w, far, near) == (w * far + (1 - w) * near) % Q
rescal(m, p, k) ==
    LET q == m.q[k]
        residual(c) == (2 * (m.rhs[k][c] - Around(q, c) + factor(m, k) * q[c])) % Q
        inner(i, j, di, dj) == IF i = 1 \/ j = 1 THEN 0 ELSE residual(<<2 * i - di, 2 * j - dj>>)
        part(place) == Over((place * int_coeff(m, k - 1)) % Q, 2)
        value(i, j) == mix(part(i), mix(part(j), inner(i, j, 2, 2), inner(i, j, 2, 0)),
                                    mix(part(j), inner(i, j, 0, 2), residual(<<2 * i, 2 * j>>)))
    IN  [m EXCEPT !.rhs[k - 1] = [c \in DOMAIN @ |-> IF c \in m.gp.block[k - 1][p] THEN value(c[1], c[2]) ELSE @[c]]]
\* The processes of a coarse cell write the four finer ones below it.
intadd(m, p, k) ==
    LET q == m.q[k]
        off(i)  == IF i % 2 = 0 THEN 1 ELSE -1
        up(i)   == (i + 1) \div 2
        part(i) == (int_coeff(m, k + 1) * (IF i % 2 = 0 THEN up(i) ELSE side(m, k) - (up(i) - 1))) % Q
        row(i, c) == mix(part(c[2]), q[<<i, up(c[2]) + off(c[2])>>], q[<<i, up(c[2])>>])
        value(c)  == mix(part(c[1]), row(up(c[1]) + off(c[1]), c), row(up(c[1]), c))
    IN  [m EXCEPT !.q[k + 1] = [c \in DOMAIN @ |->
            IF <<up(c[1]), up(c[2])>> \in m.gp.block[k][p] THEN (@[c] + value(c)) % Q ELSE @[c]]]
putz(m, p, k) == [m EXCEPT !.q[k] = [c \in DOMAIN @ |-> IF c \in m.gp.zone[k][p] THEN 0 ELSE @[c]]]

Start == [gp   |-> Shape,
          grid |-> [z \in Layers |-> [c \in (0 .. im - 1) \X (0 .. im - 1) |-> IF z \in {<<"oldga">>, <<"oldgb">>} THEN 0 ELSE fresh(c)]],
          q    |-> [k \in 0 .. finest |-> [c \in (0 .. imx(k) - 1) \X (0 .. imx(k) - 1) |-> fresh(c)]],
          rhs  |-> [k \in 0 .. finest |-> [c \in (0 .. imx(k) - 1) \X (0 .. imx(k) - 1) |-> fresh(c)]],
          f    |-> [column \in 0 .. im - 1 |-> fresh(<<0, column>>)],
          psiai |-> fresh(<<0, 0>>), psibi |-> 0,
          err_multi |-> {}, iter |-> [p \in Procs |-> 0], misled |-> {},
          stale |-> FALSE]      \* history: a corner was copied before it was set

Keep(m, p, z) == LET q(c) == m.q[Top(m)][c] IN Set(m, p, z, q)
Posed(m, p, z, guess(_)) ==
    [m EXCEPT !.rhs[Top(m)] = [c \in DOMAIN @ |-> IF Mine(m, p, c) THEN (m.grid[z][c] * ressqr) % Q ELSE @[c]],
              !.q[Top(m)]   = [c \in DOMAIN @ |-> IF ~Mine(m, p, c) THEN @[c]
                                                  ELSE IF Inside(m, c) THEN guess(c) % Q ELSE m.grid[z][c]]]
priv(m, p, z) ==
    LET weight(c) == Over(1, IF Corner(m, c) THEN 4 ELSE IF Inside(m, c) THEN 1 ELSE 2)
        g == m.grid[z]
    IN  SumOver(0, im - 1, LAMBDA i : SumOver(0, im - 1, LAMBDA j :
            IF Mine(m, p, <<i, j>>) THEN weight(<<i, j>>) * g[<<i, j>>] ELSE 0))

\* slave, up to the time steps.  The last process takes the wind of its
\* corner from the grid, where process xprocs - 1 puts it.
init_psib(m, p) ==
    LET one(c) == IF Inside(m, c) THEN 0 ELSE 1
        n == IF p = MASTER THEN [m EXCEPT !.f = [column \in DOMAIN @ |-> f(column)]] ELSE m
    IN  Set(Zeroed(n, p, {<<"psium">>, <<"psilm">>}), p, <<"psib">>, one)
pose_psib(m, p) ==
    LET g == m.grid[<<"psib">>]
        value(c) == Over((Around(g, c) - ressqr * g[c]) % Q, (4 - ressqr * eig2) % Q)
    IN  Posed(m, p, <<"psib">>, value)
sum_psib(m, p)  == [m EXCEPT !.psibi = (@ + priv(m, p, <<"psib">>)) % Q]
clear_psi(m, p) == Zeroed(m, p, {"psi", "psim"} \X (0 .. 1))
wind_stress(m, p) ==
    LET elsewhere == Mine(m, p, <<im - 1, im - 1>>) /\ ~Mine(m, p, <<0, im - 1>>)
        corner    == m.grid[<<"tauz">>][<<0, im - 1>>]
        wound(c)  == IF c = <<im - 1, im - 1>> /\ elsewhere THEN corner ELSE curl(c[2])
    IN  [Set(m, p, <<"tauz">>, wound) EXCEPT !.stale = @ \/ (elsewhere /\ corner # curl(im - 1))]
init_psi(m, p) == wind_stress(clear_psi(sum_psib(m, p), p), p)

\* slave2, one operator for each of its phases.
difference(m, p) ==
    LET e(c) == m.grid[<<"psi", 0>>][c] - m.grid[<<"psi", 1>>][c] IN Set(m, p, <<"work2">>, e)
blend(m, p) ==
    LET e(c) == hh3 * m.grid[<<"psi", 0>>][c] + hh1 * m.grid[<<"psi", 1>>][c] IN Set(m, p, <<"work3">>, e)
save_psi(m, p, i) == LET old(c) == m.grid[<<"psi", i>>][c] IN Set(m, p, <<"temparray", i>>, old)
vorticity(m, p, i) == laplacalc(Zeroed(m, p, {<<"work1", i>>}), p, <<"psi", i>>, <<"work1", i>>)
clear_g(m, p) == Zeroed(m, p, {<<"ga">>, <<"gb">>})
phase1(m, p) ==
    LET lap(x, i)  == vorticity(x, p, i)
        save(x, i) == save_psi(x, p, i)
    IN  Both(blend(difference(Both(clear_g(m, p), lap), p), p), save)
back_psi(m, p, i) == LET old(c) == m.grid[<<"psim", i>>][c] IN Set(m, p, <<"psi", i>>, old)
friction(m, p, i) == laplacalc(Zeroed(m, p, {<<"work7", i>>}), p, <<"psim", i>>, <<"work7", i>>)
\* On the left and right border f is that of the row.
spin(m, p, i) ==
    LET place(c) == IF Border(c[2]) /\ ~Corner(m, c) THEN c[1] ELSE c[2]
        spun(c)  == m.grid[<<"work1", i>>][c] + m.f[place(c)]
    IN  Set(m, p, <<"work1", i>>, spun)
phase2(m, p) ==
    LET back(x, i) == back_psi(x, p, i)
        lap(x, i)  == friction(x, p, i)
        turn(x, i) == spin(x, p, i)
    IN  Both(Both(Both(m, back), lap), turn)
phase3(m, p) ==
    LET jac(x, i)  == jacobcalc(x, p, <<"work1", i>>, <<"temparray", i>>, <<"work5", i>>)
        save(x, i) == LET old(c) == m.grid[<<"temparray", i>>][c] IN Set(x, p, <<"psim", i>>, old)
        lap(x, i)  == laplacalc(x, p, <<"work7", i>>, <<"work4", i>>)
    IN  Both(Both(Both(m, jac), save), lap)
phase4(m, p) ==
    LET lap(x, i) == laplacalc(x, p, <<"work4", i>>, <<"work7", i>>)
    IN  Both(jacobcalc(m, p, <<"work2">>, <<"work3">>, <<"work6">>), lap)
\* On the upper border the second layer's friction is taken from the first.
phase5(m, p) ==
    LET w(z, c) == m.grid[z][c]
        other(c) == IF c[1] = 0 /\ ~Corner(m, c) THEN <<"work7", 0>> ELSE <<"work7", 1>>
        a(c) == w(<<"work5", 0>>, c) - w(<<"work5", 1>>, c) + eig2 * w(<<"work6">>, c) + Over(w(<<"tauz">>, c), h1)
                + lf * w(<<"work7", 0>>, c) - lf * w(other(c), c)
        b(c) == hh1 * w(<<"work5", 0>>, c) + hh3 * w(<<"work5", 1>>, c) + Over(w(<<"tauz">>, c), h)
                + ((lf * hh1) % Q) * w(<<"work7", 0>>, c) + ((lf * hh3) % Q) * w(<<"work7", 1>>, c)
    IN  Set(Set(m, p, <<"ga">>, a), p, <<"gb">>, b)
phase6(m, p) == LET guess(c) == m.grid[<<"oldga">>][c] IN Posed(m, p, <<"ga">>, guess)
solved6(m, p) == [Keep(Keep(m, p, <<"ga">>), p, <<"oldga">>) EXCEPT !.psiai = IF p = MASTER THEN 0 ELSE @]
phase7(m, p) == [m EXCEPT !.psiai = (@ + priv(m, p, <<"ga">>)) % Q]
augment(m, p) ==
    LET f4 == Over(-m.psiai % Q, m.psibi)
        augmented(c) == m.grid[<<"ga">>][c] + f4 * m.grid[<<"psib">>][c]
    IN  Set(m, p, <<"ga">>, augmented)
phase8(m, p) == LET guess(c) == m.grid[<<"oldgb">>][c] IN Posed(m, p, <<"gb">>, guess)
solved8(m, p) == Keep(Keep(m, p, <<"gb">>), p, <<"oldgb">>)
phase9(m, p) ==
    LET lower(c) == m.grid[<<"gb">>][c] - hh1 * m.grid[<<"ga">>][c]
        upper(c) == m.grid[<<"gb">>][c] + hh3 * m.grid[<<"ga">>][c]
    IN  Set(Set(m, p, <<"work2">>, lower), p, <<"work3">>, upper)
phase10(m, p) ==
    LET first(c)  == m.grid[<<"psi", 0>>][c] + ((2 * dtau) % Q) * m.grid[<<"work3">>][c]
        second(c) == m.grid[<<"psi", 1>>][c] + ((2 * dtau) % Q) * m.grid[<<"work2">>][c]
    IN  Set(Set(m, p, <<"psi", 0>>, first), p, <<"psi", 1>>, second)
integrate(m, p) ==
    LET upper(c) == m.grid[<<"psium">>][c] + m.grid[<<"psim", 0>>][c]
        lower(c) == m.grid[<<"psilm">>][c] + m.grid[<<"psim", 1>>][c]
    IN  Set(Set(m, p, <<"psium">>, upper), p, <<"psilm">>, lower)

\* One iteration of multig on level k, and what it goes on to do.
Goes(k, verdict) ==
    CASE verdict = "coarser" /\ k > 1          -> << << <<"rescal", k>>, <<"putz", k - 1>> >> >>
      [] verdict = "converged" /\ k # finest -> << << <<"intadd", k>> >> >>
      [] OTHER -> << << >> >>
Iteration(k, verdict) ==
    Joined(<< << <<"reset", k>> >>, << <<"red", k>> >>, << <<"black", k>>, <<"report", k>> >>, << <<"read", k>> >>, << >> >>,
           Goes(k, verdict))
multig(call) ==
    LET step(k, v) == CASE v = "coarser" /\ k > 1 -> k - 1 [] v = "converged" /\ k # finest -> k + 1 [] OTHER -> k
        script == Verdicts[call]
        level[i \in 1 .. Len(script)] == IF i = 1 THEN finest ELSE step(level[i - 1], script[i - 1])
    IN  Each(1, Len(script), LAMBDA i : Iteration(level[i], script[i]))
slave2(n) ==
    LET solving(pose, call, solved) == Joined(<< << <<pose, 0>> >> >>, Joined(multig(call), Phase(solved)))
    IN  Joined(Each(1, 5, LAMBDA i : Phase(<<"phase1", "phase2", "phase3", "phase4", "phase5">>[i])),
        Joined(solving("phase6", 2 * n, "solved6"), Joined(Phase("phase7"), Joined(Phase("augment"),
        Joined(solving("phase8", 2 * n + 1, "solved8"), Joined(Phase("phase9"), Phase("phase10")))))))
slave ==
    Joined(<< << <<"init_psib", 0>> >>, << <<"pose_psib", 0>> >>, << >> >>,
    Joined(multig(1),
    Joined(<< << <<"solved1", 0>> >>, << <<"init_psi", 0>> >>, << >> >>,
           Each(1, Steps, LAMBDA n : Joined(slave2(n), IF clock[n].ends THEN << << <<"integrate", 0>> >> >> ELSE << << >> >>)))))

Statement(m, p, name, k) ==
    CASE name = "init_psib" -> init_psib(m, p)      [] name = "pose_psib" -> pose_psib(m, p)
      [] name = "init_psi"  -> init_psi(m, p)
      [] name = "phase1"    -> phase1(m, p)         [] name = "phase2"    -> phase2(m, p)
      [] name = "phase3"    -> phase3(m, p)         [] name = "phase4"    -> phase4(m, p)
      [] name = "phase5"    -> phase5(m, p)         [] name = "phase6"    -> phase6(m, p)
      [] name = "phase7"    -> phase7(m, p)         [] name = "augment"   -> augment(m, p)
      [] name = "phase8"    -> phase8(m, p)         [] name = "phase9"    -> phase9(m, p)
      [] name = "phase10"   -> phase10(m, p)        [] name = "integrate" -> integrate(m, p)
      [] name = "solved1"   -> Keep(m, p, <<"psib">>)
      [] name = "solved6"   -> solved6(m, p)        [] name = "solved8"   -> solved8(m, p)
      [] name = "reset"     -> reset(m, p)          [] name = "report"    -> report(m, p)
      [] name = "read"      -> read(m, p)           [] name = "putz"      -> putz(m, p, k)
      [] name = "red"       -> relax(m, p, k, Red)  [] name = "black"     -> relax(m, p, k, Black)
      [] name = "rescal"    -> rescal(m, p, k)      [] name = "intadd"    -> intadd(m, p, k)
Do(interval, p, m) == Iterate(1, Len(interval), LAMBDA x, i : Statement(x, p, interval[i][1], interval[i][2]), m)

Ocean(m) == [z \in {<<"psi", 0>>, <<"psi", 1>>, <<"psim", 0>>, <<"psim", 1>>, <<"psium">>, <<"psilm">>, <<"psib">>,
                    <<"ga">>, <<"gb">>} |-> m.grid[z]]
=============================================================================
