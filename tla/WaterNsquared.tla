--------------------------- MODULE WaterNsquared ---------------------------
(***************************************************************************)
(* water_nsquared: molecular dynamics of NMOL molecules of water, all of   *)
(* which act on each other.  A process meets the pairs of its own          *)
(* molecules in an array of its own, and then adds what it has to the      *)
(* shared molecules, each under its lock.  A double is a number modulo Q,  *)
(* of which the upper half is negative.  Square roots, exponentials and    *)
(* arc cosines are some functions of such numbers: what is stated here     *)
(* holds for any.                                                          *)
(***************************************************************************)
EXTENDS Modular, Sequences

CONSTANTS NMOL, NumProcs, NORDER, NSTEP, NPRINT,
          BOXL, CUTOFF,
          draw,            \* the random numbers: draw[i][dir][atom]
          k,               \* the physical constants of CNSTNT
          fresh            \* what fresh memory holds

Procs == 0 .. NumProcs - 1
Mols  == 0 .. NMOL - 1
Dirs  == 0 .. 2
Atoms == 0 .. 2
H1 == 0
O  == 1
H2 == 2
DISP == 0
VEL  == 1
ACC  == 2
FORCES == 7

signed(x)    == IF x > Q \div 2 THEN x - Q ELSE x
magnitude(x) == IF signed(x) < 0 THEN 0 - signed(x) ELSE signed(x)
root(x)      == LET y == x % Q IN (y * y * y + 4 * y + 1) % Q
exp(x)       == LET y == x % Q IN (7 * y * y * y + 2 * y * y + 5) % Q
acos(x)      == (3 * x * x + 1) % Q

\* CNSTNT and SYSCNS.
C2   == Over(k.CM, 2)
C1   == (1 - k.CM) % Q
ROHI == Over(1, k.ROH)
REF1 == (0 - Over(k.QQ, Power(CUTOFF, 3))) % Q
CUT2 == CUTOFF * CUTOFF
FHM  == Over(k.TSTEP * k.TSTEP, (2 * k.HMAS) % Q)
FOM  == Over(k.TSTEP * k.TSTEP, (2 * k.OMAS) % Q)
Mass(atom) == IF atom = O THEN k.OMAS ELSE k.HMAS
\* The coefficients of the Taylor series, a row of N = NORDER + 1 for each
\* function, filled along its antidiagonals.
TLC ==
    LET N == NORDER + 1
        fill[N1 \in 1 .. N] ==
            LET old  == IF N1 = 1 THEN [i \in 1 .. N * N |-> 0] ELSE fill[N1 - 1]
                diag[K1 \in 1 .. N1] ==
                    IF K1 = 1 THEN [old EXCEPT ![N1] = 1]
                    ELSE LET NN == N1 - (K1 - 1)
                         IN  [diag[K1 - 1] EXCEPT ![(K1 - 1) * N + NN] =
                                 Over((diag[K1 - 1][(K1 - 2) * N + NN + 1] * NN) % Q, K1 - 1)]
            IN  diag[N1]
    IN  fill[N]
PCC == <<Over(1, 6), Over(5, 6), 1, Over(1, 3)>>

\* StartMol: the last process has the rest.
StartMol(p) == IF p = NumProcs THEN NMOL ELSE p * (NMOL \div NumProcs)
Own(p)      == StartMol(p) .. StartMol(p + 1) - 1
Each(VAR, p, new(_)) == [i \in Mols |-> IF i \in Own(p) THEN new(VAR[i]) ELSE VAR[i]]
Over3(term(_)) == SumOver(0, 2, term)

-----------------------------------------------------------------------------
(* One molecule.                                                           *)
VM(v) == [dir \in Dirs |-> LET x == v.F[DISP][dir] IN (C1 * x[O] + C2 * (x[H1] + x[H2])) % Q]

\* The lengths of its two arms and the angle between them, less those at rest.
Bend(v) ==
    LET arm(a) == [dir \in Dirs |-> (v.F[DISP][dir][O] - v.F[DISP][dir][a]) % Q]
        VR1 == arm(H1)
        VR2 == arm(H2)
        R1  == root(Over3(LAMBDA d : VR1[d] * VR1[d]))
        R2  == root(Over3(LAMBDA d : VR2[d] * VR2[d]))
        COS == Over(Over3(LAMBDA d : VR1[d] * VR2[d]), (R1 * R2) % Q)
    IN  [VR1 |-> VR1, VR2 |-> VR2, R1 |-> R1, R2 |-> R2, COS |-> COS,
         d |-> <<(R1 - k.ROH) % Q, (R2 - k.ROH) % Q, ((acos(COS) - k.ANGLE) * k.ROH) % Q>>]

\* Polynomials in DR1, DR2 and DT: n times the force constant fc times their
\* powers, and ROHI to the power of the degree of fc less two.
Term(n, fc, a, b, c) == [n |-> n, fc |-> fc, e |-> <<a, b, c>>]
Degree(fc) == IF fc \in {"11", "12", "13", "33"} THEN 2 ELSE IF fc \in {"111", "333", "112", "113", "123", "133"} THEN 3 ELSE 4
Value(poly, d) ==
    SumOver(1, Len(poly), LAMBDA i :
        LET t == poly[i]
        IN  ((((t.n * k.FC[t.fc] * Power(ROHI, Degree(t.fc) - 2)) % Q) * Power(d[1], t.e[1])) % Q)
            * ((Power(d[2], t.e[2]) * Power(d[3], t.e[3])) % Q))
F1 == <<Term(1, "11", 1, 0, 0), Term(1, "12", 0, 1, 0), Term(1, "13", 0, 0, 1),
        Term(3, "111", 2, 0, 0), Term(2, "112", 1, 1, 0), Term(1, "112", 0, 2, 0), Term(2, "113", 1, 0, 1),
        Term(1, "123", 0, 1, 1), Term(1, "133", 0, 0, 2),
        Term(4, "1111", 3, 0, 0), Term(3, "1112", 2, 1, 0), Term(1, "1112", 0, 3, 0), Term(2, "1122", 1, 2, 0),
        Term(3, "1113", 2, 0, 1), Term(2, "1123", 1, 1, 1), Term(1, "1123", 0, 2, 1), Term(2, "1133", 1, 0, 2),
        Term(1, "1233", 0, 1, 2), Term(1, "1333", 0, 0, 3)>>
F2 == <<Term(1, "33", 0, 0, 1), Term(1, "13", 1, 0, 0), Term(1, "13", 0, 1, 0),
        Term(3, "333", 0, 0, 2), Term(1, "113", 2, 0, 0), Term(1, "113", 0, 2, 0), Term(1, "123", 1, 1, 0),
        Term(2, "133", 1, 0, 1), Term(2, "133", 0, 1, 1),
        Term(4, "3333", 0, 0, 3), Term(1, "1113", 3, 0, 0), Term(1, "1113", 0, 3, 0), Term(1, "1123", 2, 1, 0),
        Term(1, "1123", 1, 2, 0), Term(2, "1133", 2, 0, 1), Term(2, "1133", 0, 2, 1), Term(2, "1233", 1, 1, 1),
        Term(3, "1333", 1, 0, 2), Term(3, "1333", 0, 1, 2)>>
F3(d) == Value(F1, <<d[2], d[1], d[3]>>)
Bent == <<Term(Over(1, 2), "11", 2, 0, 0), Term(Over(1, 2), "11", 0, 2, 0), Term(Over(1, 2), "33", 0, 0, 2),
          Term(1, "12", 1, 1, 0), Term(1, "13", 1, 0, 1), Term(1, "13", 0, 1, 1),
          Term(1, "111", 3, 0, 0), Term(1, "111", 0, 3, 0), Term(1, "333", 0, 0, 3), Term(1, "112", 2, 1, 0), Term(1, "112", 1, 2, 0),
          Term(1, "113", 2, 0, 1), Term(1, "113", 0, 2, 1), Term(1, "123", 1, 1, 1), Term(1, "133", 1, 0, 2), Term(1, "133", 0, 1, 2),
          Term(1, "1111", 4, 0, 0), Term(1, "1111", 0, 4, 0), Term(1, "3333", 0, 0, 4), Term(1, "1112", 3, 1, 0), Term(1, "1112", 1, 3, 0),
          Term(1, "1122", 2, 2, 0), Term(1, "1113", 3, 0, 1), Term(1, "1113", 0, 3, 1), Term(1, "1123", 2, 1, 1), Term(1, "1123", 1, 2, 1),
          Term(1, "1133", 2, 0, 2), Term(1, "1133", 0, 2, 2), Term(1, "1233", 1, 1, 2), Term(1, "1333", 1, 0, 3), Term(1, "1333", 0, 1, 3)>>

\* INTRAF for a molecule: its center, and the forces its bonds make.
Flexed(v, b, f1, f2, f3) ==
    LET SIN == root(1 - b.COS * b.COS)
        R1S == Over(k.ROH, (b.R1 * SIN) % Q)
        R2S == Over(k.ROH, (b.R2 * SIN) % Q)
        force(dir) ==
            LET DR11 == Over(b.VR1[dir], b.R1)
                DR23 == Over(b.VR2[dir], b.R2)
                T1 == (f1 * DR11 + f2 * (((DR11 * b.COS - DR23) * R1S) % Q)) % Q
                T2 == (f3 * DR23 + f2 * (((DR23 * b.COS - DR11) * R2S) % Q)) % Q
            IN  [atom \in Atoms |-> IF atom = H1 THEN T1 ELSE IF atom = H2 THEN T2 ELSE (0 - (T1 + T2)) % Q]
    IN  [v EXCEPT !.VM = VM(v), !.F[FORCES] = [dir \in Dirs |-> force(dir)]]
Virial(v) == Over3(LAMBDA dir : Over3(LAMBDA atom : v.F[DISP][dir][atom] * v.F[FORCES][dir][atom]))

\* PREDIC: the Taylor series of each function, in ascending order.
Predicted(v) ==
    Iterate(0, NORDER - 1, LAMBDA u, func :
        [u EXCEPT !.F[func] = [dir \in Dirs |-> [atom \in Atoms |->
            (@[dir][atom] + SumOver(func, NORDER - 1, LAMBDA L :
                TLC[2 + func * (NORDER + 1) + (L - func)] * u.F[L + 1][dir][atom])) % Q]]], v)
\* CORREC, and BNDRY, which puts a molecule back by its oxygen.
Corrected(v) ==
    [v EXCEPT !.F = [func \in DOMAIN @ |-> IF func > NORDER THEN @[func] ELSE
        [dir \in Dirs |-> [atom \in Atoms |->
            (@[func][dir][atom] + PCC[func + 1] * (v.F[FORCES][dir][atom] - v.F[ACC][dir][atom])) % Q]]]]
Wrapped(v) ==
    [v EXCEPT !.F[DISP] = [dir \in Dirs |->
        LET x == @[dir][O]
            move == IF signed(x) > BOXL THEN 0 - BOXL ELSE IF signed(x) < 0 THEN BOXL ELSE 0
        IN  [atom \in Atoms |-> (@[dir][atom] + move) % Q]]]
Scaled(v, dest) ==
    [v EXCEPT !.F[dest] = [dir \in Dirs |-> [atom \in Atoms |->
        (@[dir][atom] * (IF atom = O THEN FOM ELSE FHM)) % Q]]]
Kinetic(v, dir) == Over3(LAMBDA atom : (v.F[VEL][dir][atom] * v.F[VEL][dir][atom]) % Q * Mass(atom))

-----------------------------------------------------------------------------
(* Two molecules.                                                          *)

\* CSHIFT: the 14 distances between centers (-1) and atoms, to the nearest
\* image.  They are counted from 1.
Ends == << <<-1, -1>>, <<-1, H1>>, <<-1, H2>>, <<H1, -1>>, <<H2, -1>>, <<H1, H1>>, <<H1, H2>>, <<H2, H1>>, <<H2, H2>>,
           <<O, O>>, <<O, H1>>, <<O, H2>>, <<H1, O>>, <<H2, O>> >>
CSHIFT(v, w, dir) ==
    LET place(u, at) == IF at = -1 THEN u.VM[dir] ELSE u.F[DISP][dir][at]
        near(x) == IF 2 * magnitude(x) <= BOXL THEN x ELSE IF signed(x) < 0 THEN (x + BOXL) % Q ELSE (x - BOXL) % Q
    IN  Settled([K \in 1 .. 14 |-> near((place(v, Ends[K][1]) - place(w, Ends[K][2])) % Q)])
Apart(v, w) == <<CSHIFT(v, w, 0), CSHIFT(v, w, 1), CSHIFT(v, w, 2)>>
Squares(X) == LET square(x) == signed(x) * signed(x)
              IN  Settled([K \in 1 .. 14 |-> square(X[1][K]) + square(X[2][K]) + square(X[3][K])])
Far(RS) == {K \in 1 .. 9 : RS[K] > CUT2}

\* What acts along the 14 distances: charges within the cutoff, and more if
\* all of the first nine are within it.
Charge(K) == IF K = 1 THEN 4 ELSE IF K < 6 THEN -2 ELSE IF K < 10 THEN 1 ELSE 0
Dies(K)   == IF K < 6 THEN <<>> ELSE IF K < 10 THEN << <<1, "A2", "B2">> >> ELSE IF K = 10 THEN << <<1, "A1", "B1">> >>
             ELSE << <<1, "A3", "B3">>, <<-1, "A4", "B4">> >>
Dying(K, term(_)) == SumOver(1, Len(Dies(K)), LAMBDA i : term(Dies(K)[i]))
Pull(RS, RL, far) ==
    LET charged(K) == K < 10 /\ (RS[K] < CUT2 \/ (K > 5 /\ RS[K] = CUT2))
        dying(x, K) == x[1] * Over((k[x[2]] * k[x[3]] * exp(0 - k[x[3]] * RL[K])) % Q, RL[K])
    IN  Settled([K \in 1 .. 14 |->
            ((IF charged(K) THEN Charge(K) * (Over(k.QQ, (RS[K] * RL[K]) % Q) + REF1) ELSE 0)
             + (IF far = {} THEN Dying(K, LAMBDA x : dying(x, K)) ELSE 0)) % Q])

\* UPDATE_FORCES: what each atom of the two has of it: the distances at its
\* end, and of those at the center of its molecule a share.
AtMol  == <<{4, 6, 7, 13}, {10, 11, 12}, {5, 8, 9, 14}>>
AtComp == <<{2, 6, 8, 11}, {10, 13, 14}, {3, 7, 9, 12}>>
Shares(sign, GG, at, center) ==
    [dir \in Dirs |-> [atom \in Atoms |->
        SumOver(1, 14, LAMBDA K : sign * (IF K \in at[atom + 1] THEN 1 ELSE IF K \notin center THEN 0 ELSE IF atom = O THEN C1 ELSE C2)
                                  * GG[dir + 1][K])]]
UPDATE_FORCES(X, FF) == [dir \in 1 .. 3 |-> [K \in 1 .. 14 |-> (FF[K] * X[dir][K]) % Q]]
Pulled(GG, RS, FF) ==
    [mol |-> Shares(1, GG, AtMol, 1 .. 3), comp |-> Shares(-1, GG, AtComp, {1, 4, 5}),
     vir |-> SumOver(1, 14, LAMBDA K : FF[K] * (RS[K] % Q))]
Untouched == [dir \in Dirs |-> [atom \in Atoms |-> 0]]
Met(X, RS) ==
    IF Far(RS) = 1 .. 9 THEN [mol |-> Untouched, comp |-> Untouched, vir |-> 0]
    ELSE LET FF == Pull(RS, Settled([K \in 1 .. 14 |-> root(RS[K])]), Far(RS)) IN Pulled(UPDATE_FORCES(X, FF), RS, FF)
Pair(v, w) == LET X == Apart(v, w) IN Met(X, Squares(X))

\* POTENG for a pair; distances beyond the cutoff count as the cutoff.
Energy(RS, far) ==
    LET RSq(K) == IF K \in far THEN CUT2 ELSE RS[K]
        RL(K)  == IF K \in far THEN CUTOFF ELSE root(RS[K])
        dying(x, K) == x[1] * k[x[2]] * exp(0 - k[x[3]] * RL(K))
    IN  IF far = 1 .. 9 THEN [POTR |-> 0, PTRF |-> 0]
        ELSE [POTR |-> SumOver(1, 14, LAMBDA K : (IF K < 10 THEN Charge(K) * Over(k.QQ, RL(K)) ELSE 0)
                                                 + (IF far = {} THEN Dying(K, LAMBDA x : dying(x, K)) ELSE 0)),
              PTRF |-> SumOver(1, 9, LAMBDA K : 0 - REF1 * Over((Charge(K) * RSq(K)) % Q, 2))]
PairEnergy(v, w) == LET RS == Squares(Apart(v, w)) IN Energy(RS, Far(RS))

-----------------------------------------------------------------------------
(* Who meets whom: molecule mol and the CompLast - mol ones after it. *)
CompLast(n, mol) ==
    LET half == n \div 2
        twice == n % 2 = 0 /\ (IF half <= mol THEN mol % 2 = 0 ELSE (mol + half) % 2 = 1)
    IN  IF twice THEN mol + half - 1 ELSE mol + half
Partners(mol) == 1 .. CompLast(NMOL, mol) - mol
PairsOf(p)    == {x \in Own(p) \X (1 .. NMOL - 1) : x[2] \in Partners(x[1])}
Added(a, b)   == [dir \in Dirs |-> [atom \in Atoms |-> (a[dir][atom] + b[dir][atom]) % Q]]

\* What a process finds for each molecule, as the first or the second.
Private(p, met) ==
    [i \in Mols |-> Iterate(1, NMOL - 1, LAMBDA f, n :
        LET before == (i - n) % NMOL
            first  == IF <<i, n>> \in DOMAIN met THEN Added(f, met[<<i, n>>].mol) ELSE f
        IN  IF <<before, n>> \in DOMAIN met THEN Added(first, met[<<before, n>>].comp) ELSE first, Untouched)]
SumMet(p, met, field) ==
    SumOver(StartMol(p), StartMol(p + 1) - 1, LAMBDA i : SumOver(1, NMOL - 1, LAMBDA n :
        IF <<i, n>> \in DOMAIN met THEN met[<<i, n>>][field] ELSE 0))

\* The molecules it then adds to, by the last one that its last molecule met.
TouchedBefore(p) ==                                                       \* mutant
    LET last == CompLast(NMOL, StartMol(p + 1) - 1)
        count == IF last < NMOL THEN last - StartMol(p) + 1
                 ELSE NMOL - StartMol(p) + (IF last % NMOL < StartMol(p) THEN last % NMOL ELSE StartMol(p))
    IN  [i \in 1 .. count |-> (StartMol(p) + i - 1) % NMOL]
Touched(p) ==
    LET last == CompLast(NMOL, StartMol(p + 1) - 1)
        wrap == (last % NMOL) + 1
        count == IF last < NMOL THEN last - StartMol(p) + 1
                 ELSE NMOL - StartMol(p) + (IF wrap < StartMol(p) THEN wrap ELSE StartMol(p))
    IN  [i \in 1 .. count |-> (StartMol(p) + i - 1) % NMOL]

-----------------------------------------------------------------------------
(* MDMAIN: the steps every process takes.                                  *)
BARRIER == [do |-> "BARRIER"]
INTERF(dest) ==
    <<[do |-> "pairs"], [do |-> "vir"]>> \o [i \in 1 .. NMOL |-> [do |-> "merge", nth |-> i, dest |-> dest]]
    \o <<BARRIER, [do |-> "scale", dest |-> dest]>>
TimeStep(i) ==
    <<[do |-> "top"], BARRIER, [do |-> "predict"], [do |-> "vir"], BARRIER>> \o INTERF(FORCES)
    \o <<[do |-> "correct"]>> \o [dir \in 1 .. 3 |-> [do |-> "kinetic", dir |-> dir - 1]] \o <<BARRIER, [do |-> "totals"]>>
    \o (IF i % NPRINT # 0 THEN <<>>
        ELSE <<[do |-> "bend"], BARRIER, [do |-> "energy"], [do |-> "potential"], BARRIER, [do |-> "XTT", step |-> i]>>)
    \o <<BARRIER>>
Code == Iterate(1, NSTEP, LAMBDA s, i : s \o TimeStep(i),
                <<[do |-> "intraf"], [do |-> "vir"], BARRIER>> \o INTERF(ACC) \o <<BARRIER>>)

\* INITIA as it is built by default: places on a lattice, and velocities
\* without a common momentum.
side == CHOOSE s \in 1 .. NMOL : s * s * s = NMOL    \* it stops if there is none
Place(mol, dir) ==
    LET XS == Over(BOXL, side)
        at == <<mol \div (side * side), (mol \div side) % side, mol % side>>
    IN  (Over(XS, 2) + at[dir + 1] * XS) % Q
Placed(mol) == [dir \in Dirs |-> [atom \in Atoms |->
    (Place(mol, dir) + (IF atom = O \/ dir = 2 THEN 0 ELSE IF dir = 0 THEN k.WCOS ELSE IF atom = H1 THEN k.WSIN ELSE 0 - k.WSIN)) % Q]]
OverMols(term(_)) == SumOver(0, NMOL - 1, term)
Average(dir) == Over(OverMols(LAMBDA i : Over3(LAMBDA atom : draw[i][dir][atom])), (3 * NMOL) % Q)
Norm(dir, avg) ==
    root(Over(k.FAC, OverMols(LAMBDA i : Over3(LAMBDA atom :
        Over(((draw[i][dir][atom] - avg) * (draw[i][dir][atom] - avg)) % Q, Mass(atom))))))
Drawn(mol, avg, norm) ==
    [dir \in Dirs |-> [atom \in Atoms |-> Over(((draw[mol][dir][atom] - avg[dir + 1]) * norm[dir + 1]) % Q, Mass(atom))]]
Filled(avg, norm) ==
    [i \in Mols |-> [VM |-> [dir \in Dirs |-> fresh],
        F |-> [func \in 0 .. FORCES |-> IF func = DISP THEN Placed(i) ELSE IF func = VEL THEN Drawn(i, avg, norm)
                                        ELSE IF func < FORCES THEN Untouched ELSE [dir \in Dirs |-> [atom \in Atoms |-> fresh]]]]]
Balanced(avg) == Filled(avg, <<Norm(0, avg[1]), Norm(1, avg[2]), Norm(2, avg[3])>>)
INITIA == Balanced(<<Average(0), Average(1), Average(2)>>)

Start == [VAR |-> INITIA, PFORCES |-> [p \in Procs |-> [i \in Mols |-> Untouched]],
          VIR |-> fresh, SUM |-> [dir \in Dirs |-> fresh], POTA |-> fresh, POTR |-> fresh, POTRF |-> fresh,
          own |-> [p \in Procs |-> [LVIR |-> 0, LPOTA |-> 0, LPOTR |-> 0, LPTRF |-> 0, TKIN |-> 0, TVIR |-> 0, XTT |-> {}]]]

-----------------------------------------------------------------------------
(* The steps.                                                              *)
OwnSum(VAR, p, term(_)) == SumOver(StartMol(p), StartMol(p + 1) - 1, LAMBDA i : term(VAR[i]))
Flex(v) == LET b == Bend(v) IN Flexed(v, b, Value(F1, b.d), Value(F2, b.d), F3(b.d))
INTRAF(m, p, VAR) == [m EXCEPT !.VAR = VAR, !.own[p].LVIR = OwnSum(VAR, p, Virial)]
PREDIC(m, p) == Each(m.VAR, p, Predicted)
MetBy(m, p)  == [x \in PairsOf(p) |-> Pair(m.VAR[x[1]], m.VAR[(x[1] + x[2]) % NMOL])]
Interacted(m, p, met) == [m EXCEPT !.PFORCES[p] = Private(p, met), !.own[p].LVIR = SumMet(p, met, "vir")]
Merged(m, p, i, dest) == [m EXCEPT !.VAR[i].F[dest] = Added(@, m.PFORCES[p][i])]
KINETI(m, p, dir) == [m EXCEPT !.SUM[dir] = (@ + OwnSum(m.VAR, p, LAMBDA v : Kinetic(v, dir))) % Q]
SumSUM(m) == Over3(LAMBDA dir : m.SUM[dir])
EnergyBy(m, p) == [x \in PairsOf(p) |-> PairEnergy(m.VAR[x[1]], m.VAR[(x[1] + x[2]) % NMOL])]
POTENG(m, p, met) == [m EXCEPT !.own[p].LPOTR = SumMet(p, met, "POTR"), !.own[p].LPTRF = SumMet(p, met, "PTRF")]
\* What is printed: AVGT, XVIR, TEN and XTT, but for their units.
Printed(m, i, own) == {<<own.TKIN, own.TVIR, SumSUM(m), (m.POTA + m.POTR + m.POTRF + SumSUM(m)) % Q, i>>}

Do(s, p, m) ==
    CASE s.do = "intraf"  -> INTRAF(m, p, Each(m.VAR, p, Flex))
      [] s.do = "vir"     -> [m EXCEPT !.VIR = (@ + m.own[p].LVIR) % Q]
      [] s.do = "pairs"   -> Interacted(m, p, MetBy(m, p))
      [] s.do = "merge"   -> IF s.nth > Len(Touched(p)) THEN m ELSE Merged(m, p, Touched(p)[s.nth], s.dest)
      [] s.do = "scale"   -> [m EXCEPT !.VAR = Each(@, p, LAMBDA v : Scaled(v, s.dest))]
      [] s.do = "top"     -> IF p # 0 THEN m ELSE [m EXCEPT !.VIR = 0, !.POTA = 0, !.POTR = 0, !.POTRF = 0,
                                                            !.SUM = [dir \in Dirs |-> 0]]
      [] s.do = "predict" -> INTRAF(m, p, Each(PREDIC(m, p), p, Flex))
      [] s.do = "correct" -> [m EXCEPT !.VAR = Each(@, p, LAMBDA v : Wrapped(Corrected(v)))]
      [] s.do = "kinetic" -> KINETI(m, p, s.dir)
      [] s.do = "totals"  -> [m EXCEPT !.own[p].TKIN = (@ + SumSUM(m)) % Q, !.own[p].TVIR = (@ - m.VIR) % Q]
      [] s.do = "bend"    -> [m EXCEPT !.VAR = Each(@, p, LAMBDA v : [v EXCEPT !.VM = VM(v)]),
                                       !.own[p].LPOTA = OwnSum(m.VAR, p, LAMBDA v : Value(Bent, Bend(v).d))]
      [] s.do = "energy"  -> POTENG(m, p, EnergyBy(m, p))
      [] s.do = "potential" -> [m EXCEPT !.POTA = (@ + m.own[p].LPOTA) % Q, !.POTR = (@ + m.own[p].LPOTR) % Q,
                                         !.POTRF = (@ + m.own[p].LPTRF) % Q]
      [] s.do = "XTT"     -> [m EXCEPT !.own[p].XTT = Printed(m, s.step, m.own[p])]

-----------------------------------------------------------------------------
(* The same by the laws of motion: each molecule is pulled by every other  *)
(* one, the forces of bonds are the slope of their energy, a step is the   *)
(* binomial formula.  One process does it all, at the pace of process 0.   *)
Slope(poly, n) == [i \in 1 .. Len(poly) |-> [poly[i] EXCEPT !.n = @ * poly[i].e[n], !.e[n] = IF @ = 0 THEN 0 ELSE @ - 1]]
FlexByEnergy(v) == LET b == Bend(v) IN Flexed(v, b, Value(Slope(Bent, 1), b.d), Value(Slope(Bent, 3), b.d), Value(Slope(Bent, 2), b.d))
Choose(n, r) == LET f[i \in 0 .. r] == IF i = 0 THEN 1 ELSE (f[i - 1] * (n - i + 1)) \div i IN f[r]
Shifted(v) ==
    [v EXCEPT !.F = [func \in DOMAIN @ |-> IF func > NORDER THEN @[func] ELSE
        [dir \in Dirs |-> [atom \in Atoms |-> SumOver(func, NORDER, LAMBDA n : Choose(n, func) * v.F[n][dir][atom])]]]]
OverPairs(term(_)) == Over(OverMols(LAMBDA i : OverMols(LAMBDA j : IF i = j THEN 0 ELSE term(<<i, j>>))), 2)
AllPairs(VAR) == [x \in {y \in Mols \X Mols : y[1] # y[2]} |-> Pair(VAR[x[1]], VAR[x[2]])]
PulledByAll(VAR, pulls, dest) ==
    [i \in Mols |-> Scaled([VAR[i] EXCEPT !.F[dest] =
        Iterate(0, NMOL - 1, LAMBDA f, j : IF j = i THEN f ELSE Added(f, pulls[<<i, j>>].mol), @)], dest)]
AllSUM(VAR) == Over3(LAMBDA dir : OverMols(LAMBDA i : Kinetic(VAR[i], dir)))
AllPOT(VAR) == OverMols(LAMBDA j : Value(Bent, Bend(VAR[j]).d)) +
    OverPairs(LAMBDA x : LET e == PairEnergy(VAR[x[1]], VAR[x[2]]) IN e.POTR + e.PTRF)
LawStart == [VAR |-> INITIA, pulls |-> {}, VIR |-> 0, TKIN |-> 0, TVIR |-> 0, XTT |-> {}]
Law(s, l) ==
    CASE s.do = "intraf"  -> [l EXCEPT !.VAR = [i \in Mols |-> FlexByEnergy(@[i])]]
      [] s.do = "predict" -> [l EXCEPT !.VAR = [i \in Mols |-> FlexByEnergy(Shifted(@[i]))]]
      [] s.do = "pairs"   -> [l EXCEPT !.pulls = AllPairs(l.VAR), !.VIR = OverMols(LAMBDA i : Virial(l.VAR[i]))]
      [] s.do = "scale"   -> [l EXCEPT !.VAR = PulledByAll(@, l.pulls, s.dest)]
      [] s.do = "correct" -> [l EXCEPT !.VAR = [i \in Mols |-> Wrapped(Corrected(@[i]))]]
      [] s.do = "totals"  -> [l EXCEPT !.TKIN = (@ + AllSUM(l.VAR)) % Q,
                                       !.TVIR = (@ - (l.VIR + OverPairs(LAMBDA x : l.pulls[x].vir))) % Q]
      [] s.do = "bend"    -> [l EXCEPT !.VAR = [i \in Mols |-> [l.VAR[i] EXCEPT !.VM = VM(l.VAR[i])]]]
      [] s.do = "XTT"     -> [l EXCEPT !.XTT = {<<l.TKIN, l.TVIR, AllSUM(l.VAR), (AllPOT(l.VAR) + AllSUM(l.VAR)) % Q, s.step>>}]
      [] OTHER -> l
Momentum(VAR, func, dir) == OverMols(LAMBDA i : Over3(LAMBDA atom : VAR[i].F[func][dir][atom] * Mass(atom)))
Lawful(m, l) ==
    /\ m.VAR = l.VAR
    /\ \A p \in Procs : m.own[p].XTT = l.XTT /\ m.own[p].TKIN = l.TKIN /\ m.own[p].TVIR = l.TVIR
    /\ \A func \in VEL .. NORDER, dir \in Dirs : Momentum(m.VAR, func, dir) = 0
=============================================================================
