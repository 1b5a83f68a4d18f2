------------------------------ MODULE OceanCp ------------------------------
(***************************************************************************)
(* ocean_cp: every process keeps its block of each grid in an array of its *)
(* own, with a margin around it.  The margin holds the border of the ocean *)
(* where there is one, and copies of the neighbours' cells elsewhere.      *)
(***************************************************************************)
EXTENDS OceanPlan

\* The levels of the multigrid solver: the finest is numlev - 1.
Fits(side) == side \div yprocs > 1 /\ side \div xprocs > 1
numlev  == LET upto[b \in 0 .. im] == IF b = 0 THEN 0
               ELSE upto[b - 1] + (IF 2 ^ b <= im - 2 /\ Fits(2 ^ b) THEN 1 ELSE 0)
           IN  upto[CHOOSE b \in 0 .. im : 2 ^ b = im - 2]
finest  == numlev - 1
imx(k)  == (im - 2) \div 2 ^ (finest - k) + 2
Rows(k) == (imx(k) - 2) \div yprocs
Cols(k) == (imx(k) - 2) \div xprocs
minlevel   == IF \A k \in 0 .. finest : Rows(k) >= 2 /\ Cols(k) >= 2 THEN 0
              ELSE 1 + CHOOSE k \in 0 .. finest :
                  /\ Rows(k) < 2 \/ Cols(k) < 2
                  /\ \A l \in k + 1 .. finest : Rows(l) >= 2 /\ Cols(l) >= 2

Local(k) == (0 .. Rows(k) + 1) \X (0 .. Cols(k) + 1)

\* subblock: the neighbour of p dr rows down and dc columns to the right.
rownum(p) == p \div xprocs
colnum(p) == p % xprocs
neighbors(p, dr, dc) ==
    IF rownum(p) + dr \in 0 .. yprocs - 1 /\ colnum(p) + dc \in 0 .. xprocs - 1
    THEN p + dr * xprocs + dc ELSE -1

\* The cells of a margin lie on one or two sides; the cell of a neighbour
\* that is the same cell of the ocean lies on its other side.
Side(i, last) == IF i = 0 THEN -1 ELSE IF i = last + 1 THEN 1 ELSE 0
Wrap(i, last) == IF i = 0 THEN last ELSE IF i = last + 1 THEN 1 ELSE i
\* The process that owns cell c of the margin of p, and where it has it; at
\* the border of the ocean, a corner is the border cell of a neighbour.
From(k, p, c) ==
    LET there == <<Wrap(c[1], Rows(k)), Wrap(c[2], Cols(k))>>
        across == neighbors(p, Side(c[1], Rows(k)), Side(c[2], Cols(k)))
        vert  == neighbors(p, Side(c[1], Rows(k)), 0)
        horiz == neighbors(p, 0, Side(c[2], Cols(k)))
    IN  IF across # -1 THEN <<across, there>>
        ELSE IF vert = -1 /\ horiz # -1 THEN <<horiz, <<c[1], there[2]>>>>
        ELSE IF vert # -1 /\ horiz = -1 THEN <<vert, <<there[1], c[2]>>>>
        ELSE <<p, c>>

\* The cells a process computes: its block and the border next to it.
Owned(p) ==
    ((IF neighbors(p, -1, 0) = -1 THEN 0 ELSE 1) .. (Rows(finest) + IF neighbors(p, 1, 0) = -1 THEN 1 ELSE 0))
    \X ((IF neighbors(p, 0, -1) = -1 THEN 0 ELSE 1) .. (Cols(finest) + IF neighbors(p, 0, 1) = -1 THEN 1 ELSE 0))

\* What main and subblock set up and nobody changes.
Shape == [top  |-> finest,
          rows |-> [k \in 0 .. finest |-> Rows(k)],
          cols |-> [k \in 0 .. finest |-> Cols(k)],
          owned    |-> [p \in Procs |-> Owned(p)],
          interior |-> [k \in 0 .. finest |-> (1 .. Rows(k)) \X (1 .. Cols(k))],
          from     |-> [k \in 0 .. finest |-> [p \in Procs |-> [c \in Local(k) |-> From(k, p, c)]]]]
Top(m) == m.gp.top
Inside(m, k, c) == c \in m.gp.interior[k]
Corner(m, k, c) == c[1] \in {0, m.gp.rows[k] + 1} /\ c[2] \in {0, m.gp.cols[k] + 1}
Margin(m, k, c) == ~Inside(m, k, c)
Margins(m, k)   == {c \in Local(k) : Margin(m, k, c)}
Edge(m, k, c)   == Margin(m, k, c) /\ ~Corner(m, k, c)
Edges(m, k)     == {c \in Local(k) : Edge(m, k, c)}

\* x with these cells of the margin of p copied from their owners.
Copied(m, x, k, p, cells) ==
    [x EXCEPT ![p] = [c \in DOMAIN @ |-> LET s == m.gp.from[k][p][c] IN IF c \in cells THEN x[s[1]][s[2]] ELSE @[c]]]
CopiedLayer(m, z, p, cells) == [m EXCEPT !.grid[z] = Copied(m, @, Top(m), p, cells)]

Value(m, p, z) == m.grid[z][p]
Set(m, p, z, e(_)) ==
    [m EXCEPT !.grid[z][p] = [c \in DOMAIN @ |-> IF c \in m.gp.owned[p] THEN e(c) % Q ELSE @[c]]]
Zeroed(m, p, layers) == [m EXCEPT !.grid = [z \in DOMAIN @ |->
    IF z \in layers THEN [@[z] EXCEPT ![p] = [c \in DOMAIN @ |-> IF c \in m.gp.owned[p] THEN 0 ELSE @[c]]] ELSE @[z]]]

\* The stencils.  Both copy margins into the grids they read.
\* The margin that has no neighbour is set to zero, except for the corners.
laplacian(m, p, g, z) ==
    LET new(c) == IF Inside(m, Top(m), c) THEN factlap * (Around(g, c) - 4 * g[c])
                  ELSE IF Corner(m, Top(m), c) THEN Value(m, p, z)[c] ELSE 0
    IN  Set(m, p, z, new)
laplacalc(m, p, x, z) ==
    LET result(n) == laplacian(n, p, n.grid[x][p], z)
    IN  result(CopiedLayer(m, x, p, Edges(m, Top(m))))

jacobian(m, p, x, y, z) ==
    LET new(c) == IF Inside(m, Top(m), c) THEN factjacob * (Arakawa(x, y, c[1], c[2]) % Q) ELSE 0
    IN  Set(m, p, z, new)
jacobcalc(m, p, x, y, z) ==
    LET all       == Margins(m, Top(m))
        result(n) == jacobian(n, p, n.grid[x][p], n.grid[y][p], z)
    IN  result(CopiedLayer(CopiedLayer(m, x, p, all), y, p, all))
jacobcalc2(m, p, x, y, z, psiindex) == jacobcalc(m, p, <<x, psiindex>>, <<y, psiindex>>, <<z, psiindex>>)

\* The solver.  The color of a cell is the parity of its row and column.
Red   == 0
Black == 1
Of(c, color) == (c[1] + c[2]) % 2 = color
copy(m, p, k, color) ==
    LET taken == {c \in Edges(m, k) : Of(m.gp.from[k][p][c][2], color)}
    IN  [m EXCEPT !.q[k] = Copied(m, @, k, p, taken)]
copy_borders(m, p, k) == [m EXCEPT !.q[k] = Copied(m, @, k, p, Margins(m, k))]
copy_rhs_borders(m, p, k) ==
    LET corner == IF neighbors(p, -1, -1) # -1 THEN {<<0, 0>>} ELSE {}
        above  == {0} \X {j \in 2 .. m.gp.cols[k] : j % 2 = 0}
        left   == {i \in 2 .. m.gp.rows[k] : i % 2 = 0} \X {0}
        taken  == corner \cup above \cup left
    IN  [m EXCEPT !.rhs[k] = Copied(m, @, k, p, taken)]

lev_res(m, k)   == (res * 2 ^ (Top(m) - k)) % Q
side(m, k)      == (im - 2) \div 2 ^ (Top(m) - k)
int_coeff(m, k) == Over(1, side(m, k) + 1)
factor(m, k)    == (4 - eig2 * ((lev_res(m, k) * lev_res(m, k)) % Q)) % Q
relax(m, p, k, color) ==
    [m EXCEPT !.q[k][p] = [c \in DOMAIN @ |->
        IF Inside(m, k, c) /\ Of(c, color)
        THEN Over((@[<<c[1], c[2] + 1>>] + @[<<c[1], c[2] - 1>>] + @[<<c[1] - 1, c[2]>>] + @[<<c[1] + 1, c[2]>>]
                   - m.rhs[k][p][c]) % Q, factor(m, k))
        ELSE @[c]]]

\* Half-injection of the residual to the coarser grid.  A cell one further
\* out than the margin is read from the neighbour.
rescal(m, p, k) ==
    LET fine(i, j) == IF j = -1 THEN m.q[k][neighbors(p, 0, -1)][<<i, m.gp.cols[k] - 1>>]
                      ELSE IF i = -1 THEN m.q[k][neighbors(p, -1, 0)][<<m.gp.rows[k] - 1, j>>]
                      ELSE m.q[k][p][<<i, j>>]
        residual(i, j) == (2 * (m.rhs[k][p][<<i, j>>] - (fine(i, j + 1) + fine(i, j - 1) + fine(i - 1, j) + fine(i + 1, j))
                                + factor(m, k) * fine(i, j))) % Q
        border(c)      == (c[1] = 1 /\ neighbors(p, -1, 0) = -1) \/ (c[2] = 1 /\ neighbors(p, 0, -1) = -1)
        inner(c, i, j) == IF border(c) THEN 0 ELSE residual(i, j)
        part(place)    == Over((place * int_coeff(m, k - 1)) % Q, 2)
        mix(w, far, near) == (w * far + (1 - w) * near) % Q
        value(c) ==
            LET wi == part(c[1] + rownum(p) * m.gp.rows[k - 1])
                wj == part(c[2] + colnum(p) * m.gp.cols[k - 1])
                i == 2 * c[1]
                j == 2 * c[2]
            IN  mix(wi, mix(wj, inner(c, i - 2, j - 2), inner(c, i - 2, j)), mix(wj, inner(c, i, j - 2), residual(i, j)))
    IN  [m EXCEPT !.rhs[k - 1][p] = [c \in DOMAIN @ |-> IF Inside(m, k - 1, c) THEN value(c) ELSE @[c]]]

\* Interpolation to the next finer grid, added to what is there.
intadd(m, p, k) ==
    LET off(i, even)  == IF even THEN i + 1 ELSE i - 1
        part(place, even) == (int_coeff(m, k + 1) * (IF even THEN place ELSE side(m, k) - (place - 1))) % Q
        coarse(i, j)  == m.q[k][p][<<i, j>>]
        mix(w, far, near) == (w * far + (1 - w) * near) % Q
        value(c) ==
            LET ic == (c[1] + 1) \div 2
                jc == (c[2] + 1) \div 2
                ei == c[1] % 2 = 0
                ej == c[2] % 2 = 0
                wi == part(ic + rownum(p) * m.gp.rows[k], ei)
                wj == part(jc + colnum(p) * m.gp.cols[k], ej)
                row(i) == mix(wj, coarse(i, off(jc, ej)), coarse(i, jc))
            IN  mix(wi, row(off(ic, ei)), row(ic))
    IN  [m EXCEPT !.q[k + 1][p] = [c \in DOMAIN @ |-> IF Inside(m, k + 1, c) THEN (@[c] + value(c)) % Q ELSE @[c]]]

putz(m, p, k) == [m EXCEPT !.q[k][p] = [c \in DOMAIN @ |-> IF c[1] >= 1 /\ c[2] >= 1 THEN 0 ELSE @[c]]]

\* main, with the borders of the coarser grids zero: nobody ever sets them.
Start == [gp   |-> Shape,
          grid |-> [z \in Layers |-> [p \in Procs |-> [c \in Local(finest) |-> fresh(c)]]],
          q    |-> [k \in 0 .. finest |-> [p \in Procs |-> [c \in Local(k) |-> IF k = finest THEN fresh(c) ELSE 0]]],
          rhs  |-> [k \in 0 .. finest |-> [p \in Procs |-> [c \in Local(k) |-> fresh(c)]]],
          psiai |-> fresh(<<0, 0>>), psibi |-> 0,
          err_multi |-> {}, iter |-> [p \in Procs |-> 0], misled |-> {}]

\* A solution is the initial guess of the next time step.
Keep(m, p, z) == LET q(c) == m.q[Top(m)][p][c] IN Set(m, p, z, q)
\* rhs and the border of q are set from z, the inside of q is the guess.
Posed(m, p, z, guess(_)) ==
    LET own == Owned(p)
    IN  [m EXCEPT !.rhs[Top(m)][p] = [c \in DOMAIN @ |-> IF c \in own THEN (Value(m, p, z)[c] * ressqr) % Q ELSE @[c]],
                  !.q[Top(m)][p]   = [c \in DOMAIN @ |-> IF Inside(m, Top(m), c) THEN guess(c) % Q
                                                         ELSE IF c \in own THEN Value(m, p, z)[c] ELSE @[c]]]
\* The sum over the cells of p, where a border counts half and a corner a quarter.
priv(m, p, z) ==
    LET g == m.grid[z][p]
        weight(c) == Over(1, IF Corner(m, Top(m), c) THEN 4 ELSE IF Margin(m, Top(m), c) THEN 2 ELSE 1)
        own == Owned(p)
    IN  SumOver(0, m.gp.rows[Top(m)] + 1, LAMBDA i : SumOver(0, m.gp.cols[Top(m)] + 1, LAMBDA j :
            IF <<i, j>> \in own THEN weight(<<i, j>>) * g[<<i, j>>] ELSE 0))

\* slave, up to the time steps.
clear_old(m, p) ==
    [m EXCEPT !.grid[<<"oldga">>][p] = [c \in DOMAIN @ |-> 0], !.grid[<<"oldgb">>][p] = [c \in DOMAIN @ |-> 0]]
init_psib(m, p) ==
    LET one(c) == IF Margin(m, Top(m), c) THEN 1 ELSE 0
    IN  Set(Zeroed(clear_old(m, p), p, {<<"psium">>, <<"psilm">>}), p, <<"psib">>, one)
pose_psib(m, p) == LET left(c) == m.q[Top(m)][p][c] IN Posed(m, p, <<"psib">>, left)
guess_psib(m, p) ==
    LET value(g, c) == Over((Around(g, c) - ressqr * g[c]) % Q, (4 - ressqr * eig2) % Q)
        result(n)  == [n EXCEPT !.q[Top(n)][p] = [c \in DOMAIN @ |->
                          IF Inside(n, Top(n), c) THEN value(Value(n, p, <<"psib">>), c) ELSE @[c]]]
    IN  result(CopiedLayer(m, <<"psib">>, p, Edges(m, Top(m))))
sum_psib(m, p)    == [m EXCEPT !.psibi = (@ + priv(m, p, <<"psib">>)) % Q]
clear_psi(m, p)   == Zeroed(m, p, {"psi", "psim"} \X (0 .. 1))
wind_stress(m, p) == LET wound(c) == curl(c[2] + colnum(p) * m.gp.cols[Top(m)]) IN Set(m, p, <<"tauz">>, wound)
init_psi(m, p)    == wind_stress(clear_psi(sum_psib(m, p), p), p)

\* slave2, one operator for each of its phases; the sixth and the eighth are
\* cut in two by the solver.
difference(m, p) ==
    LET e(c) == Value(m, p, <<"psi", 0>>)[c] - Value(m, p, <<"psi", 1>>)[c] IN Set(m, p, <<"work2">>, e)
\* The upper layer is that of work3, where the comment and ocean_ncp say psi.
blend(m, p) ==
    LET e(c) == hh3 * Value(m, p, <<"work3">>)[c] + hh1 * Value(m, p, <<"psi", 1>>)[c] IN Set(m, p, <<"work3">>, e)
save_psi(m, p, i) == LET old(c) == Value(m, p, <<"psi", i>>)[c] IN Set(m, p, <<"temparray", i>>, old)
vorticity(m, p, i) == laplacalc(Zeroed(m, p, {<<"work1", i>>}), p, <<"psi", i>>, <<"work1", i>>)
clear_g(m, p) == Zeroed(m, p, {<<"ga">>, <<"gb">>})
phase1(m, p) ==
    LET lap(x, i)  == vorticity(x, p, i)
        save(x, i) == save_psi(x, p, i)
    IN  Both(blend(difference(Both(clear_g(m, p), lap), p), p), save)
back_psi(m, p, i) == LET old(c) == Value(m, p, <<"psim", i>>)[c] IN Set(m, p, <<"psi", i>>, old)
friction(m, p, i) == laplacalc(Zeroed(m, p, {<<"work7", i>>}), p, <<"psim", i>>, <<"work7", i>>)
spin(m, p, i) ==
    LET place(c) == IF Edge(m, Top(m), c) /\ c[2] \in {0, m.gp.cols[Top(m)] + 1}
                    THEN c[1] + rownum(p) * m.gp.rows[Top(m)] ELSE c[2] + colnum(p) * m.gp.cols[Top(m)]
        spun(c)  == Value(m, p, <<"work1", i>>)[c] + f(place(c))
    IN  Set(m, p, <<"work1", i>>, spun)
phase2(m, p) ==
    LET back(x, i) == back_psi(x, p, i)
        lap(x, i)  == friction(x, p, i)
        turn(x, i) == spin(x, p, i)
    IN  Both(Both(Both(m, back), lap), turn)
phase3(m, p) ==
    LET jac(x, i)  == jacobcalc2(x, p, "work1", "temparray", "work5", i)
        save(x, i) == LET old(c) == Value(m, p, <<"temparray", i>>)[c] IN Set(x, p, <<"psim", i>>, old)
        lap(x, i)  == laplacalc(x, p, <<"work7", i>>, <<"work4", i>>)
    IN  Both(Both(Both(m, jac), save), lap)
phase4(m, p) ==
    LET lap(x, i) == laplacalc(x, p, <<"work4", i>>, <<"work7", i>>)
    IN  Both(jacobcalc(m, p, <<"work2">>, <<"work3">>, <<"work6">>), lap)
phase5(m, p) ==
    LET w(z, c) == Value(m, p, z)[c]
        a(c) == w(<<"work5", 0>>, c) - w(<<"work5", 1>>, c) + eig2 * w(<<"work6">>, c) + Over(w(<<"tauz">>, c), h1)
                + lf * w(<<"work7", 0>>, c) - lf * w(<<"work7", 1>>, c)
        b(c) == hh1 * w(<<"work5", 0>>, c) + hh3 * w(<<"work5", 1>>, c) + Over(w(<<"tauz">>, c), h)
                + ((lf * hh1) % Q) * w(<<"work7", 0>>, c) + ((lf * hh3) % Q) * w(<<"work7", 1>>, c)
    IN  Set(Set(m, p, <<"ga">>, a), p, <<"gb">>, b)
phase6(m, p) == LET guess(c) == Value(m, p, <<"oldga">>)[c] IN Posed(m, p, <<"ga">>, guess)
solved6(m, p) == [Keep(Keep(m, p, <<"ga">>), p, <<"oldga">>) EXCEPT !.psiai = IF p = MASTER THEN 0 ELSE @]
phase7(m, p) == [m EXCEPT !.psiai = (@ + priv(m, p, <<"ga">>)) % Q]
phase8(m, p) ==
    LET f4 == Over(-m.psiai % Q, m.psibi)
        augmented(c) == Value(m, p, <<"ga">>)[c] + f4 * Value(m, p, <<"psib">>)[c]
        guess(c)     == Value(m, p, <<"oldgb">>)[c]
    IN  Posed(Set(m, p, <<"ga">>, augmented), p, <<"gb">>, guess)
solved8(m, p) == Keep(Keep(m, p, <<"gb">>), p, <<"oldgb">>)
phase9(m, p) ==
    LET lower(c) == Value(m, p, <<"gb">>)[c] - hh1 * Value(m, p, <<"ga">>)[c]
        upper(c) == Value(m, p, <<"gb">>)[c] + hh3 * Value(m, p, <<"ga">>)[c]
    IN  Set(Set(m, p, <<"work2">>, lower), p, <<"work3">>, upper)
phase10(m, p) ==
    LET timst == (2 * dtau) % Q
        first(c)  == Value(m, p, <<"psi", 0>>)[c] + timst * Value(m, p, <<"work3">>)[c]
        second(c) == Value(m, p, <<"psi", 1>>)[c] + timst * Value(m, p, <<"work2">>)[c]
    IN  Set(Set(m, p, <<"psi", 0>>, first), p, <<"psi", 1>>, second)
\* At the end of a day: add to the mean values.
integrate(m, p) ==
    LET upper(c) == Value(m, p, <<"psium">>)[c] + Value(m, p, <<"psim", 0>>)[c]
        lower(c) == Value(m, p, <<"psilm">>)[c] + Value(m, p, <<"psim", 1>>)[c]
    IN  Set(Set(m, p, <<"psium">>, upper), p, <<"psilm">>, lower)

\* One iteration of multig on level k, and what it goes on to do.
Goes(k, verdict) ==
    CASE verdict = "coarser" /\ k > minlevel ->
            << << <<"copy_borders", k>>, <<"copy_rhs_borders", k>> >>, << <<"rescal", k>>, <<"putz", k - 1>> >> >>
      [] verdict = "converged" /\ k # finest -> << << <<"copy_borders", k>>, <<"intadd", k>> >> >>
      [] OTHER -> << << >> >>
HastyIteration(k, verdict) ==                                             \* mutant
    Joined(<< << <<"reset", k>> >>,
              << <<"copy_black", k>>, <<"red", k>> >>,
              << <<"copy_red", k>>, <<"black", k>>, <<"report", k>> >>,
              << <<"read", k>> >> >>, Goes(k, verdict))
Iteration(k, verdict) ==
    Joined(<< << <<"reset", k>> >>,
              << <<"copy_black", k>>, <<"red", k>> >>,
              << <<"copy_red", k>>, <<"black", k>>, <<"report", k>> >>,
              << <<"read", k>> >>,
              << >> >>, Goes(k, verdict))
multig(call) ==
    LET step(k, v) == CASE v = "coarser" /\ k > minlevel -> k - 1 [] v = "converged" /\ k # finest -> k + 1 [] OTHER -> k
        script == Verdicts[call]
        level[i \in 1 .. Len(script)] == IF i = 1 THEN finest ELSE step(level[i - 1], script[i - 1])
    IN  Each(1, Len(script), LAMBDA i : Iteration(level[i], script[i]))

slave2(n) ==
    LET solving(pose, call, solved) ==
            Joined(<< << <<pose, finest>> >> >>, Joined(multig(call), Phase(solved)))
    IN  Joined(Each(1, 5, LAMBDA i : Phase(<<"phase1", "phase2", "phase3", "phase4", "phase5">>[i])),
        Joined(solving("phase6", 2 * n, "solved6"), Joined(Phase("phase7"),
        Joined(solving("phase8", 2 * n + 1, "solved8"), Joined(Phase("phase9"), Phase("phase10"))))))

slave ==
    Joined(<< << >>, << <<"init_psib", finest>> >>, << <<"pose_psib", finest>> >>, << <<"guess_psib", finest>> >> >>,
    Joined(multig(1),
    Joined(<< << <<"solved1", finest>> >>, << <<"init_psi", finest>> >>, << >> >>,
           Each(1, Steps, LAMBDA n : Joined(slave2(n), IF clock[n].ends THEN << << <<"integrate", finest>> >> >> ELSE << << >> >>)))))

Statement(m, p, name, k) ==
    CASE name = "init_psib"  -> init_psib(m, p)     [] name = "pose_psib" -> pose_psib(m, p)
      [] name = "guess_psib" -> guess_psib(m, p)    [] name = "init_psi"  -> init_psi(m, p)
      [] name = "phase1"     -> phase1(m, p)        [] name = "phase2"    -> phase2(m, p)
      [] name = "phase3"     -> phase3(m, p)        [] name = "phase4"    -> phase4(m, p)
      [] name = "phase5"     -> phase5(m, p)        [] name = "phase6"    -> phase6(m, p)
      [] name = "phase7"     -> phase7(m, p)        [] name = "phase8"    -> phase8(m, p)
      [] name = "phase9"     -> phase9(m, p)        [] name = "phase10"   -> phase10(m, p)
      [] name = "solved1"    -> Keep(m, p, <<"psib">>)
      [] name = "solved6"    -> solved6(m, p)       [] name = "solved8"   -> solved8(m, p)
      [] name = "integrate"  -> integrate(m, p)
      [] name = "reset"      -> reset(m, p)         [] name = "report"    -> report(m, p)
      [] name = "read"       -> read(m, p)          [] name = "putz"      -> putz(m, p, k)
      [] name = "red"        -> relax(m, p, k, Red) [] name = "black"     -> relax(m, p, k, Black)
      [] name = "copy_red"   -> copy(m, p, k, Red)  [] name = "copy_black" -> copy(m, p, k, Black)
      [] name = "rescal"     -> rescal(m, p, k)     [] name = "intadd"    -> intadd(m, p, k)
      [] name = "copy_borders"     -> copy_borders(m, p, k)
      [] name = "copy_rhs_borders" -> copy_rhs_borders(m, p, k)
Do(interval, p, m) == Iterate(1, Len(interval), LAMBDA x, i : Statement(x, p, interval[i][1], interval[i][2]), m)

\* The ocean as one grid, put together from the cells that the processes own.
Whole(m, z) ==
    LET block(i, n) == IF i = 0 THEN 0 ELSE IF i = im - 1 THEN (im - 2) \div n - 1 ELSE (i - 1) \div n
    IN  [g \in (0 .. im - 1) \X (0 .. im - 1) |->
            LET i == block(g[1], Rows(finest))
                j == block(g[2], Cols(finest))
            IN  m.grid[z][i * xprocs + j][<<g[1] - i * Rows(finest), g[2] - j * Cols(finest)>>]]
Ocean(m) == [z \in {<<"psi", 0>>, <<"psi", 1>>, <<"psim", 0>>, <<"psim", 1>>, <<"psium">>, <<"psilm">>, <<"psib">>,
                    <<"ga">>, <<"gb">>} |-> Whole(m, z)]
=============================================================================
