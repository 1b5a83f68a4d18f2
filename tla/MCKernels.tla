----------------------------- MODULE MCKernels -----------------------------
(***************************************************************************)
(* The kernels on small instances, each with processes of its own.         *)
(***************************************************************************)
EXTENDS Integers, Sequences

VARIABLES prog, pos, mem

\* A matrix of five rows, so that blocks of two leave an edge of one.
MCMatrix == << <<31, 4, 7, 1, 9>>, <<5, 27, 3, 8, 2>>, <<6, 11, 45, 4, 3>>, <<12, 2, 5, 38, 7>>, <<1, 9, 14, 6, 29>> >>
MCInput == [c \in (0 .. 3) \X (0 .. 3) |-> (3 + 5 * c[1] + 7 * c[2] + c[1] * c[2] * c[2]) % 17]

Cb  == INSTANCE LuCb WITH Q <- 101, n <- 5, block_size <- 2, P <- 4, matrix <- MCMatrix
Ncb == INSTANCE LuNcb WITH Q <- 101, n <- 5, block_size <- 2, P <- 4, matrix <- MCMatrix
Fft == INSTANCE FftSixStep WITH Q <- 17, M <- 4, P <- 2, num_cache_lines <- 2, w <- 3, input <- MCInput


MCFresh(c) == (5 + 31 * c[1] + 17 * c[2] * c[2]) % 101
MCNothing(c) == 0
MCWind == [c \in 0 .. 9 |-> (7 + 13 * c * c) % 101]
MCVerdicts == << <<"stay", "coarser", "converged", "converged">>, <<"converged">>,
                 <<"stay", "coarser", "stay", "converged", "converged">>, <<"stay", "converged">>, <<"converged">> >>
\* Four processes, and one that has the ocean for itself.
Ocean4 == INSTANCE OceanCp WITH Q <- 101, im <- 10, nprocs <- 4, Verdicts <- MCVerdicts, dtau <- 1, day <- 1,
    res <- 3, h <- 17, h1 <- 5, h3 <- 12, lf <- 7, f0 <- 2, beta <- 11, gpr <- 6, wind <- MCWind, fresh <- MCFresh
Ocean1 == INSTANCE OceanCp WITH Q <- 101, im <- 10, nprocs <- 1, Verdicts <- MCVerdicts, dtau <- 1, day <- 1,
    res <- 3, h <- 17, h1 <- 5, h3 <- 12, lf <- 7, f0 <- 2, beta <- 11, gpr <- 6, wind <- MCWind, fresh <- MCNothing
MCSlave4 == Ocean4!slave
MCSlave1 == Ocean1!slave
OceanDo(i, p, m) == [all |-> Ocean4!Do(MCSlave4[i], p, m.all),
                     one |-> IF p = 0 THEN Ocean1!Do(MCSlave1[i], 0, m.one) ELSE m.one]

NcpVerdicts == << <<"stay", "coarser", "coarser", "converged", "converged", "converged">>, <<"converged">>,
                  <<"stay", "coarser", "converged", "converged">>, <<"converged">>, <<"stay", "converged">> >>
Plain4 == INSTANCE OceanNcp WITH Q <- 101, im <- 10, nprocs <- 4, Verdicts <- NcpVerdicts, dtau <- 1, day <- 1,
    res <- 3, h <- 17, h1 <- 5, h3 <- 12, lf <- 7, f0 <- 2, beta <- 11, gpr <- 6, wind <- MCWind, fresh <- MCFresh
Plain1 == INSTANCE OceanNcp WITH Q <- 101, im <- 10, nprocs <- 1, Verdicts <- NcpVerdicts, dtau <- 1, day <- 1,
    res <- 3, h <- 17, h1 <- 5, h3 <- 12, lf <- 7, f0 <- 2, beta <- 11, gpr <- 6, wind <- MCWind, fresh <- MCNothing
MCPlain4 == Plain4!slave
MCPlain1 == Plain1!slave
PlainDo(i, p, m) == [all |-> Plain4!Do(MCPlain4[i], p, m.all),
                     one |-> IF p = 0 THEN Plain1!Do(MCPlain1[i], 0, m.one) ELSE m.one]

\* Nsq molecules on a lattice, for two processes.
MCForces == [fc \in {"11", "12", "13", "33", "111", "333", "112", "113", "123", "133", "1111", "3333", "1112", "1122", "1113",
                     "1123", "1133", "1233", "1333"} |-> 11]
MCWater == [CM |-> 40, ROH |-> 9, ANGLE |-> 14, WCOS |-> 2, WSIN |-> 3, QQ |-> 7, HMAS |-> 3, OMAS |-> 48, TSTEP |-> 2, FAC |-> 15,
            A1 |-> 21, B1 |-> 3, A2 |-> 5, B2 |-> 8, A3 |-> 13, B3 |-> 19, A4 |-> 6, B4 |-> 10, FC |-> MCForces]
MCDraw == [i \in 0 .. 7 |-> [dir \in 0 .. 2 |-> [atom \in 0 .. 2 |-> (17 * i * i + (7 * dir + 3 * atom) * i + 5 * dir + 2 * atom + 3) % 20]]]
Nsq == INSTANCE WaterNsquared WITH Q <- 103, NMOL <- 8, NumProcs <- 2, NORDER <- 3, NSTEP <- 2, NPRINT <- 2, BOXL <- 20, CUTOFF <- 9,
    draw <- MCDraw, k <- MCWater, fresh <- 77
\* Every two of n molecules meet once, for other n as well.
ASSUME MeetOnce ==
    \A n \in 1 .. 9 : \A i, j \in 0 .. n - 1 : i < j =>
        (j <= Nsq!CompLast(n, i)) # (i + n <= Nsq!CompLast(n, j))

Intervals(n) == [i \in 1 .. 2 * n - 1 |-> IF i % 2 = 0 THEN Cb!BARRIER ELSE [do |-> "interval", of |-> (i + 1) \div 2]]

MCPrograms == {"lu_cb", "lu_ncb", "fft", "ocean_cp", "ocean_ncp", "water"}
MCP     == [lu_cb |-> 4, lu_ncb |-> 4, fft |-> 2, ocean_cp |-> 4, ocean_ncp |-> 4, water |-> 2]
MCCode  == [lu_cb |-> Cb!Code, lu_ncb |-> Ncb!Code, fft |-> Fft!Code,
            ocean_cp |-> Intervals(Len(MCSlave4)), ocean_ncp |-> Intervals(Len(MCPlain4)),
            water |-> Nsq!Code]
MCStart == [lu_cb |-> Cb!InitA, lu_ncb |-> Ncb!InitA, fft |-> Fft!Start,
            ocean_cp |-> [all |-> Ocean4!Start, one |-> Ocean1!Start],
            ocean_ncp |-> [all |-> Plain4!Start, one |-> Plain1!Start],
            water |-> [all |-> Nsq!Start, law |-> Nsq!LawStart]]
MCDo(g, s, p, m) == CASE g = "lu_cb" -> Cb!Do(s, p, m) [] g = "lu_ncb" -> Ncb!Do(s, p, m) [] g = "fft" -> Fft!Do(s, p, m)
                      [] g = "ocean_cp" -> OceanDo(s.of, p, m) [] g = "ocean_ncp" -> PlainDo(s.of, p, m)
                      [] g = "water" -> [all |-> Nsq!Do(s, p, m.all), law |-> IF p = 0 THEN Nsq!Law(s, m.law) ELSE m.law]

INSTANCE Phases WITH Programs <- MCPrograms, P <- MCP, Code <- MCCode, Start <- MCStart, Do <- MCDo

\* When a factorisation ends, L * U is the matrix, in the layout of the program
\* and with its owners of the blocks (lu_cb lu.C:587-698, lu_ncb lu.C:487-585);
\* after the first of two transforms the array is the discrete Fourier
\* transform of the input, after the second the input again (fft.C:611-694).
LuFftExact ==
    IF Finished THEN CASE prog = "lu_cb" -> Cb!Exact(mem) [] prog = "lu_ncb" -> Ncb!Exact(mem) [] prog = "fft" -> mem.x = MCInput [] OTHER -> TRUE
    ELSE prog = "fft" /\ (\A p \in Procs : pos[p] = 13) => mem.x = Fft!DFT

\* Four processes end with the ocean that one has computed, whatever their
\* memory held before, and each has read an error that is the maximum of all
\* processes' of this sweep (ocean_cp multi.C:57-120, slave2.C); in ocean_ncp,
\* unless its last process has copied the wind of a corner before it was set
\* (ocean_ncp slave1.C:454).
OceanExact ==
    CASE prog = "ocean_cp" /\ Finished -> mem.all.misled = {} /\ Ocean4!Ocean(mem.all) = Ocean1!Ocean(mem.one)
      [] prog = "ocean_ncp" /\ Finished -> mem.all.misled = {} /\ (mem.all.stale \/ Plain4!Ocean(mem.all) = Plain1!Ocean(mem.one))
      [] OTHER -> TRUE

\* The molecules move, and the sums that each process reads after a barrier
\* are, as if one process applied the laws of motion: each pair met once, with
\* the opposite forces for its two molecules whichever comes first, no update
\* lost and no sum cleared early; momentum stays zero (water_nsquared
\* interf.C:36-204, mdmain.C:32-169).
WaterExact ==
    IF prog = "water" /\ Finished THEN Nsq!Lawful(mem.all, mem.law) ELSE TRUE
=============================================================================
