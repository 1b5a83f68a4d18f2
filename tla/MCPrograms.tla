----------------------------- MODULE MCPrograms -----------------------------
(***************************************************************************)
(* Three programs on small instances, one of which runs: a state machine   *)
(* of its own each, whose variables are 0 while another one runs.          *)
(*                                                                         *)
(* radix sorts five keys of two binary digits.  barnes has four bodies in  *)
(* one quarter of the plane, two to a leaf, so that leaves are subdivided  *)
(* by whoever comes first, and one body of no mass.  fmm takes two steps,  *)
(* for which two processes share five particles whose boxes are of several *)
(* sizes, so that all lists are used, and three processes four particles   *)
(* that come into one quarter in the second, so that each process may find *)
(* the others' boxes in its way.  The three interleave while they merge    *)
(* their trees in the second step; else the first that can go does.        *)
(***************************************************************************)
EXTENDS Integers, Sequences

VARIABLES prog,
    barnes_subp, barnes_level, barnes_parent, barnes_bodyp, barnes_sum, barnes_cost,
    barnes_done, barnes_lock, barnes_mynumcell, barnes_mynumleaf, barnes_mycelltab,
    barnes_myleaftab, barnes_mybodytab, barnes_hint, barnes_pos, barnes_bcost, barnes_box,
    barnes_pc, barnes_at, barnes_halted, barnes_nstep, barnes_zone, barnes_walk,
    barnes_extent, barnes_gextent, barnes_early, fmm_Grid, fmm_box, fmm_heap, fmm_mine,
    fmm_childless, fmm_parents, fmm_todo, fmm_pc, fmm_step, fmm_at, fmm_src, fmm_pcost,
    fmm_added, fmm_late, fmm_hasty, fmm_missed, fmm_torn, radix_input, radix_pc, radix_loopnum, radix_shift, radix_wait,
    radix_flag, radix_key, radix_rank_me, radix_densities, radix_ranks, radix_rank_ff,
    radix_final, radix_spurious

barnesVars == <<
    barnes_subp, barnes_level, barnes_parent, barnes_bodyp, barnes_sum, barnes_cost,
    barnes_done, barnes_lock, barnes_mynumcell, barnes_mynumleaf, barnes_mycelltab,
    barnes_myleaftab, barnes_mybodytab, barnes_hint, barnes_pos, barnes_bcost, barnes_box,
    barnes_pc, barnes_at, barnes_halted, barnes_nstep, barnes_zone, barnes_walk,
    barnes_extent, barnes_gextent, barnes_early>>
fmmVars == <<
    fmm_Grid, fmm_box, fmm_heap, fmm_mine, fmm_childless, fmm_parents, fmm_todo, fmm_pc,
    fmm_step, fmm_at, fmm_src, fmm_pcost, fmm_added, fmm_late, fmm_hasty, fmm_missed, fmm_torn>>
radixVars == <<
    radix_input, radix_pc, radix_loopnum, radix_shift, radix_wait, radix_flag, radix_key,
    radix_rank_me, radix_densities, radix_ranks, radix_rank_ff, radix_final, radix_spurious>>
vars == <<prog, barnesVars, fmmVars, radixVars>>

barnesIdle ==
    /\ barnes_subp = 0 /\ barnes_level = 0 /\ barnes_parent = 0 /\ barnes_bodyp = 0
    /\ barnes_sum = 0 /\ barnes_cost = 0 /\ barnes_done = 0 /\ barnes_lock = 0
    /\ barnes_mynumcell = 0 /\ barnes_mynumleaf = 0 /\ barnes_mycelltab = 0 /\ barnes_myleaftab = 0
    /\ barnes_mybodytab = 0 /\ barnes_hint = 0 /\ barnes_pos = 0 /\ barnes_bcost = 0
    /\ barnes_box = 0 /\ barnes_pc = 0 /\ barnes_at = 0 /\ barnes_halted = 0
    /\ barnes_nstep = 0 /\ barnes_zone = 0 /\ barnes_walk = 0 /\ barnes_extent = 0
    /\ barnes_gextent = 0 /\ barnes_early = 0
fmmIdle ==
    /\ fmm_Grid = 0 /\ fmm_box = 0 /\ fmm_heap = 0 /\ fmm_mine = 0
    /\ fmm_childless = 0 /\ fmm_parents = 0 /\ fmm_todo = 0 /\ fmm_pc = 0
    /\ fmm_step = 0 /\ fmm_at = 0 /\ fmm_src = 0 /\ fmm_pcost = 0
    /\ fmm_added = 0 /\ fmm_late = 0 /\ fmm_hasty = 0 /\ fmm_missed = 0 /\ fmm_torn = 0
radixIdle ==
    /\ radix_input = 0 /\ radix_pc = 0 /\ radix_loopnum = 0 /\ radix_shift = 0
    /\ radix_wait = 0 /\ radix_flag = 0 /\ radix_key = 0 /\ radix_rank_me = 0
    /\ radix_densities = 0 /\ radix_ranks = 0 /\ radix_rank_ff = 0 /\ radix_final = 0
    /\ radix_spurious = 0

BarnesStart == << <<0, 0>>, <<1, 1>>, <<2, 2>>, <<3, 1>>, <<8, 8>> >>
BarnesMove  == << <<1, 0>>, <<0, 0>>, <<3, 2>>, <<0, 3>>, <<0, 0>> >>
Orders == 0 .. 1
Quarter == 0 .. 3
BarnesChild == [d \in Orders |-> [i \in Quarter |-> IF d = 0 THEN i ELSE 3 - i]]
BarnesDirection == [d \in Orders |-> [i \in Quarter |-> IF i \in {0, 3} THEN 1 - d ELSE d]]
Barnes == INSTANCE BarnesStep WITH
    NPROC <- 3, NBody <- 5, NDIM <- 2, MaxLevel <- 3, MAX_BODIES_PER_LEAF <- 2, MAXLOCK <- 2,
    maxmycell <- 4, maxmyleaf <- 8, Mass <- <<1, 1, 1, 1, 0>>, NSteps <- 2, ChildSequence <- BarnesChild,
    DirectionSequence <- BarnesDirection, Start <- BarnesStart, Move <- BarnesMove, Interactions <- <<2, 2, 2, 2, 1>>,
    subp <- barnes_subp, level <- barnes_level, parent <- barnes_parent,
    bodyp <- barnes_bodyp, sum <- barnes_sum, cost <- barnes_cost, done <- barnes_done,
    lock <- barnes_lock, mynumcell <- barnes_mynumcell, mynumleaf <- barnes_mynumleaf,
    mycelltab <- barnes_mycelltab, myleaftab <- barnes_myleaftab,
    mybodytab <- barnes_mybodytab, hint <- barnes_hint, pos <- barnes_pos,
    bcost <- barnes_bcost, box <- barnes_box, pc <- barnes_pc, at <- barnes_at,
    halted <- barnes_halted, nstep <- barnes_nstep, zone <- barnes_zone,
    walk <- barnes_walk, extent <- barnes_extent, gextent <- barnes_gextent,
    early <- barnes_early

FmmPlace == [t \in 0 .. 1 |->
    IF t = 0 THEN << <<3, 2, 0>>, <<1, 1, 0>>, <<3, 1, 1>>, <<3, 3, 1>>, <<3, 2, 2>> >>
    ELSE << <<1, 2, 1>>, <<2, 0, 2>>, <<2, 0, 3>>, <<2, 1, 0>>, <<1, 0, 3>> >>]
FmmWeight == [u |-> 1, v |-> 2, w |-> 1, x |-> 1, self |-> 1]
Fmm == INSTANCE FmmStep WITH
    Number_Of_Processors <- 2, Total_Particles <- 5, Time_Steps <- 2, MAX_PARTICLES_PER_BOX <- 1,
    MaxLevel <- 3, MaxHeap <- 20, Place <- FmmPlace, Weight <- FmmWeight,
    Grid <- fmm_Grid, box <- fmm_box, heap <- fmm_heap, mine <- fmm_mine,
    childless <- fmm_childless, parents <- fmm_parents, todo <- fmm_todo, pc <- fmm_pc,
    step <- fmm_step, at <- fmm_at, src <- fmm_src, pcost <- fmm_pcost, added <- fmm_added,
    late <- fmm_late, hasty <- fmm_hasty, missed <- fmm_missed, torn <- fmm_torn

FmmPlace3 == [t \in 0 .. 1 |->
    IF t = 0 THEN << <<0, 0>>, <<0, 1>>, <<1, 0>>, <<2, 0>> >>
    ELSE << <<1, 1>>, <<0, 0>>, <<1, 0>>, <<1, 2>> >>]
Fmm3 == INSTANCE FmmStep WITH
    Number_Of_Processors <- 3, Total_Particles <- 4, Time_Steps <- 2, MAX_PARTICLES_PER_BOX <- 1,
    MaxLevel <- 2, MaxHeap <- 10, Place <- FmmPlace3, Weight <- FmmWeight,
    Grid <- fmm_Grid, box <- fmm_box, heap <- fmm_heap, mine <- fmm_mine,
    childless <- fmm_childless, parents <- fmm_parents, todo <- fmm_todo, pc <- fmm_pc,
    step <- fmm_step, at <- fmm_at, src <- fmm_src, pcost <- fmm_pcost, added <- fmm_added,
    late <- fmm_late, hasty <- fmm_hasty, missed <- fmm_missed, torn <- fmm_torn
Merging3(p) == fmm_step[p] = 1 /\ fmm_pc[p] \in {"plant", "merge"}
InTurn3(p)  == Merging3(p) \/ \A q \in 0 .. p - 1 : ~ENABLED Fmm3!StepOf(q)

\* Equal keys, keys already in place and keys that cross processes.
KeysOf(s) == [i \in 0 .. 4 |-> s[i + 1]]
RadixInputs == {KeysOf(<<3, 1, 2, 1, 0>>), KeysOf(<<2, 2, 0, 3, 2>>)}
Radix == INSTANCE RadixSort WITH
    P <- 4, NumKeys <- 5, Radix <- 2, MaxKey <- 3, Inputs <- RadixInputs, MaxSpurious <- 1,
    input <- radix_input, pc <- radix_pc, loopnum <- radix_loopnum, shift <- radix_shift,
    wait <- radix_wait, flag <- radix_flag, key <- radix_key, rank_me <- radix_rank_me,
    densities <- radix_densities, ranks <- radix_ranks, rank_ff <- radix_rank_ff,
    final <- radix_final, spurious <- radix_spurious

ASSUME Assumptions ==
    /\ Barnes!TreeAssumption /\ Barnes!StepAssumption /\ Fmm!GridAssumption /\ Fmm!WeightAssumption
    /\ Fmm3!GridAssumption
    /\ Radix!RadixAssumption

Init == \/ prog = "barnes" /\ Barnes!Init /\ fmmIdle /\ radixIdle
        \/ prog = "fmm" /\ Fmm!Init /\ barnesIdle /\ radixIdle
        \/ prog = "fmm3" /\ Fmm3!Init /\ barnesIdle /\ radixIdle
        \/ prog = "radix" /\ Radix!Init /\ barnesIdle /\ fmmIdle

Fmm3Next == \/ \E p \in Fmm3!Procs : InTurn3(p) /\ Fmm3!StepOf(p)
            \/ \E b \in Fmm3!Barriers : Fmm3!Barrier(b)
            \/ Fmm3!Ended /\ UNCHANGED vars
Next == \/ prog = "barnes" /\ Barnes!Next /\ UNCHANGED <<prog, fmmVars, radixVars>>
        \/ prog = "fmm" /\ Fmm!Next /\ UNCHANGED <<prog, barnesVars, radixVars>>
        \/ prog = "fmm3" /\ Fmm3Next /\ UNCHANGED <<prog, barnesVars, radixVars>>
        \/ prog = "radix" /\ Radix!Next /\ UNCHANGED <<prog, barnesVars, fmmVars>>

\* Somebody who can go does: it need not be everybody, as nobody can go on for
\* ever alone.
Spec == Init /\ [][Next]_vars
FairSpec == Spec /\ WF_vars(Next)

\* radix: before each permutation every process knows its first place for each
\* digit, and at the end the keys are sorted (radix.C:514-613, 806-829).
SortExact == prog = "radix" => Radix!SortExact

\* barnes: the tree holds each body where its coordinates lead, whoever
\* inserted and subdivided what (load.C:180-250, 410-462).
TreeComplete == prog = "barnes" => Barnes!TreeComplete
\* barnes: the root sums up every body once (load.C:360-405).
SumsComplete == prog = "barnes" => Barnes!SumsComplete
\* barnes: no body is moved twice or left out, unless forces came too early
\* (code.C:672-690).
OnceUnlessEarly == prog = "barnes" => Barnes!OnceUnlessEarly

\* fmm: each particle has acted once on each other, but for expansions that
\* were cleared after children had added theirs, or read before they were
\* cleared, and boxes the W lists leave out (interactions.C:92-152).
FieldOnce == (prog = "fmm" => Fmm!FieldOnce) /\ (prog = "fmm3" => Fmm3!FieldOnce)

\* No process of any of them waits for ever: the program ends; but three
\* processes of fmm need not, when a box of the tree is in nobody's list.
Termination == \/ <>CASE prog = "barnes" -> Barnes!Ended [] prog = "fmm" -> Fmm!Ended
                    [] prog = "fmm3" -> Fmm3!Ended [] prog = "radix" -> Radix!Terminated
               \/ <>[](prog = "fmm3" /\ Fmm3!Unlisted)
=============================================================================
