---------------------------- MODULE WaterSpatial ----------------------------
(***************************************************************************)
(* water_spatial: the time steps of MDMAIN (mdmain.C) on NumProcs          *)
(* processes, each with its boxes of the grid, and the lists of molecules  *)
(* in the boxes.                                                           *)
(*                                                                         *)
(* Between two barriers where no list changes, what a process does with    *)
(* its molecules is one action.  But the second half of INTERF, CORREC,    *)
(* BNDRY and KINETI all lie between the barrier inside INTERF and the one  *)
(* after KINETI: one process may already move molecules into boxes whose   *)
(* owner still walks them.  There every read of a list pointer is a step.  *)
(* A position is abstracted to the box it lies in once BNDRY has wrapped   *)
(* it, and what is done to a molecule to how often it was done.  Of the    *)
(* three walks of KINETI, one for each direction, there is one.  NSAVE is  *)
(* 0, as in the input decks (water.C:342).                                 *)
(***************************************************************************)
EXTENDS WaterGrid, Sequences, Functions

CONSTANTS
    NumProcs, BOX_PER_SIDE,
    NMOL,           \* number of molecules
    NSTEP, NPRINT,  \* time steps, and when the energy is printed
    Lattice,        \* INITIA: the box of each molecule
    Reach           \* where PREDIC and CORREC may put a molecule of a box

Procs == 0 .. NumProcs - 1
Mols  == 1 .. NMOL
Boxes == BoxesOf(BOX_PER_SIDE)
NULL  == 0

ASSUME WaterAssumption ==
    /\ BOX_PER_SIDE \in Nat \ {0} /\ NumProcs \in 1 .. BOX_PER_SIDE * BOX_PER_SIDE * BOX_PER_SIDE
    /\ NMOL \in Nat \ {0} /\ NSTEP \in Nat \ {0} /\ NPRINT \in Nat \ {0}
    /\ Lattice \in [Mols -> Boxes]
    /\ Reach \in [Boxes -> SUBSET Boxes] /\ \A b \in Boxes : Reach[b] # {}

MyBoxes == [p \in Procs |-> BoxList(p, NumProcs, BOX_PER_SIDE)]
Own(p)  == Range(MyBoxes[p])
Owner   == [b \in Boxes |-> CHOOSE p \in Procs : b \in Own(p)]
Visited == [b \in Boxes |-> [c \in Boxes |-> Visits(b, c, BOX_PER_SIDE)]]

VARIABLES
    list, next, boxlock,  \* BOX[..].list and .boxlock, next_mol
    pos,                  \* the box in which BNDRY finds a molecule's oxygen
    met,                  \* its forces: how often each other one is in the sum
    scaled, corrected, counted,   \* how often INTERF's second half, CORREC and
                                  \* KINETI handled it in this step, up to Often
    VIR, SUM, POT,        \* the shared sums: how often each process is in them
    pc, step,             \* where each process is in MDMAIN
    at,                   \* and in the list it walks
    crossed,              \* history: molecules given to another process' box
    overtaken             \* history: has one arrived before BNDRY was done there?

lists == <<list, next, boxlock>>
done  == <<scaled, corrected, counted>>
sums  == <<VIR, SUM, POT>>
vars  == <<lists, pos, met, done, sums, pc, step, at, crossed, overtaken>>

Often == 2                \* bound: counts stop here
UpTo(n) == IF n < Often THEN n ELSE Often
Once(n) == UpTo(n + 1)

Walks == {"scale", "correct", "bndry", "kineti"}
Barriers == {"b_intra", "b_interf", "b_init", "b_top", "b_kineti", "b_poteng",
             "b_energy", "b_end"}

Nowhere == [box |-> 1, where |-> "head", curr |-> NULL, last |-> NULL, nxt |-> NULL,
            temp |-> NULL, to |-> Lattice[1]]

TypeOK ==
    /\ list \in [Boxes -> Mols \cup {NULL}] /\ next \in [Mols -> Mols \cup {NULL}]
    /\ boxlock \in [Boxes -> BOOLEAN]
    /\ pos \in [Mols -> Boxes]
    /\ met \in [Mols -> [Mols -> 0 .. Often]]
    /\ {scaled, corrected, counted} \subseteq [Mols -> 0 .. Often]
    /\ VIR \in [Procs -> 0 .. 2] /\ {SUM, POT} \subseteq [Procs -> 0 .. 1]
    /\ pc \in [Procs -> {"intraf", "interf", "top", "predic", "sum", "totals", "poteng",
                         "poteng2", "energy", "done"} \cup Walks \cup Barriers]
    /\ step \in [Procs -> 0 .. NSTEP]
    /\ at \in [Procs -> [box : Nat \ {0}, where : {"head", "mol", "unlink", "insert", "link"},
                         curr : Mols \cup {NULL}, last : Mols \cup {NULL},
                         nxt : Mols \cup {NULL}, temp : Mols \cup {NULL}, to : Boxes]]
    /\ crossed \subseteq Mols /\ overtaken \in BOOLEAN

\* INITIA appends the molecules to the lists of their boxes; sums start at 0.
After(S, m) == IF \E n \in S : n > m THEN CHOOSE n \in S : n > m /\ \A k \in S : k > m => n <= k
               ELSE NULL
Init ==
    /\ list = [b \in Boxes |-> After({m \in Mols : Lattice[m] = b}, 0)]
    /\ next = [m \in Mols |-> After({n \in Mols : Lattice[n] = Lattice[m]}, m)]
    /\ boxlock = [b \in Boxes |-> FALSE]
    /\ pos = Lattice
    /\ met = [m \in Mols |-> [n \in Mols |-> 0]]
    /\ scaled = [m \in Mols |-> 0] /\ corrected = scaled /\ counted = scaled
    /\ VIR = [p \in Procs |-> 0] /\ SUM = VIR /\ POT = VIR
    /\ pc = [p \in Procs |-> "intraf"] /\ step = [p \in Procs |-> 0]
    /\ at = [p \in Procs |-> Nowhere]
    /\ crossed = {} /\ overtaken = FALSE

Goto(p, label) == pc' = [pc EXCEPT ![p] = label]
Printing(i) == i % NPRINT = 0

-----------------------------------------------------------------------------
(* The lists while nobody changes them.                                    *)
\* A walk comes to m if no set without m holds the head and, with each
\* molecule, the next one.
Walked(b, S)  == list[b] \in S /\ \A m \in S \ {NULL} : next[m] \in S
Reaches(b, m) == \A S \in SUBSET ((Mols \cup {NULL}) \ {m}) : ~Walked(b, S)
Ends(b)    == Reaches(b, NULL)               \* else the walk goes round for ever
Members(b) == {m \in Mols : Reaches(b, m)}
Mine(p)    == UNION {Members(b) : b \in Own(p)}

\* PREDIC (but for the initial forces) and INTRAF: the forces start anew.
\* PREDIC changes displacements, too, which nothing compares with a box before
\* BNDRY: what it adds is part of the move made in Correct.
Intraf(p) ==
    /\ pc[p] \in {"intraf", "predic"}
    /\ \A b \in Own(p) : Ends(b)
    /\ met' = [m \in Mols |-> IF m \in Mine(p) THEN [n \in Mols |-> 0] ELSE met[m]]
    /\ VIR' = [VIR EXCEPT ![p] = @ + 1]
    /\ Goto(p, "b_intra")
    /\ UNCHANGED <<lists, pos, done, SUM, POT, step, at, crossed, overtaken>>

\* INTERF up to its barrier: with the molecules of the boxes around, once
\* for each visit (up to Often visits).
Meetings(p, m, n) ==
    {x \in Own(p) \X Boxes \X (1 .. Often) :
        m \in Members(x[1]) /\ n \in Members(x[2]) /\ m # n /\ x[3] <= Visited[x[1]][x[2]]}
Interf(p) ==
    /\ pc[p] = "interf"
    /\ \A b \in Boxes : Ends(b)
    /\ met' = [m \in Mols |-> [n \in Mols |-> UpTo(met[m][n] + Cardinality(Meetings(p, m, n)))]]
    /\ VIR' = [VIR EXCEPT ![p] = @ + 1]
    /\ Goto(p, "b_interf")
    /\ UNCHANGED <<lists, pos, done, SUM, POT, step, at, crossed, overtaken>>

-----------------------------------------------------------------------------
(* Walks over the own boxes while other processes may be in BNDRY.         *)
Here(p)  == MyBoxes[p][at[p].box]
In(p, walk, where) == pc[p] = walk /\ at[p].where = where /\ at[p].box <= Len(MyBoxes[p])

\* curr_ptr = BOX[..].list
ReadList(p) ==
    LET a == at[p] IN
    /\ \E walk \in Walks : In(p, walk, "head")
    /\ at' = [at EXCEPT ![p] =
                IF list[Here(p)] = NULL THEN [a EXCEPT !.box = a.box + 1]
                ELSE [a EXCEPT !.curr = list[Here(p)], !.last = NULL, !.where = "mol"]]
    /\ UNCHANGED <<lists, pos, met, done, sums, pc, step, crossed, overtaken>>

\* On to the molecule n, or to the next box.
Onto(a, n) == IF n = NULL THEN [Nowhere EXCEPT !.box = a.box + 1]
              ELSE [a EXCEPT !.curr = n, !.where = "mol", !.nxt = NULL, !.temp = NULL,
                             !.to = Lattice[1]]
Step(p) == at' = [at EXCEPT ![p] = Onto(at[p], next[at[p].curr])]

Scale(p) ==
    /\ In(p, "scale", "mol")
    /\ scaled' = [scaled EXCEPT ![at[p].curr] = Once(@)]
    /\ Step(p)
    /\ UNCHANGED <<lists, pos, met, corrected, counted, sums, pc, step, crossed, overtaken>>

\* CORREC changes the displacement, and with PREDIC's change perhaps the box.
\* (A molecule that CORREC misses, as overtaken lists allow, stays where it is.)
Correct(p) ==
    LET m == at[p].curr IN
    /\ In(p, "correct", "mol")
    /\ corrected' = [corrected EXCEPT ![m] = Once(@)]
    /\ \E b \in Reach[pos[m]] : pos' = [pos EXCEPT ![m] = b]
    /\ Step(p)
    /\ UNCHANGED <<lists, met, scaled, counted, sums, pc, step, crossed, overtaken>>

Count(p) ==
    /\ In(p, "kineti", "mol")
    /\ counted' = [counted EXCEPT ![at[p].curr] = Once(@)]
    /\ Step(p)
    /\ UNCHANGED <<lists, pos, met, scaled, corrected, sums, pc, step, crossed, overtaken>>

AfterWalk(p) ==
    CASE pc[p] = "scale"   -> IF step[p] = 0 THEN "b_init" ELSE "correct"
      [] pc[p] = "correct" -> "bndry"
      [] pc[p] = "bndry"   -> "kineti"
      [] pc[p] = "kineti"  -> "sum"
EndWalk(p) ==
    /\ pc[p] \in Walks /\ at[p].box > Len(MyBoxes[p])
    /\ Goto(p, AfterWalk(p))
    /\ at' = [at EXCEPT ![p] = Nowhere]
    /\ UNCHANGED <<lists, pos, met, done, sums, step, crossed, overtaken>>

-----------------------------------------------------------------------------
(* BNDRY: a molecule that has left its box is unlinked and put in front of *)
(* the list of the box it is in now.                                       *)
InspectStays(p) ==        \* mutant: goes on only after a molecule that moves
    LET a == at[p]
        m == a.curr IN
    /\ In(p, "bndry", "mol")
    /\ at' = [at EXCEPT ![p] =
                IF pos[m] # Here(p)
                THEN [a EXCEPT !.nxt = next[m], !.to = pos[m], !.where = "unlink"]
                ELSE [a EXCEPT !.last = m]]
    /\ UNCHANGED <<lists, pos, met, done, sums, pc, step, crossed, overtaken>>
Inspect(p) ==
    LET a == at[p]
        m == a.curr IN
    /\ In(p, "bndry", "mol")
    /\ at' = [at EXCEPT ![p] =
                IF pos[m] # Here(p)
                THEN [a EXCEPT !.nxt = next[m], !.to = pos[m], !.where = "unlink"]
                ELSE Onto([a EXCEPT !.last = m], next[m])]
    /\ UNCHANGED <<lists, pos, met, done, sums, pc, step, crossed, overtaken>>

UnlinkHead(p) ==          \* mutant: always takes the molecule for the first
    /\ In(p, "bndry", "unlink") /\ ~boxlock[Here(p)]
    /\ list' = [list EXCEPT ![Here(p)] = next[at[p].curr]]
    /\ at' = [at EXCEPT ![p].where = "insert"]
    /\ UNCHANGED <<next, boxlock, pos, met, done, sums, pc, step, crossed, overtaken>>
Unlink(p) ==
    LET a == at[p] IN
    /\ In(p, "bndry", "unlink") /\ ~boxlock[Here(p)]
    /\ IF a.last # NULL
       THEN next' = [next EXCEPT ![a.last] = next[a.curr]] /\ UNCHANGED list
       ELSE list' = [list EXCEPT ![Here(p)] = next[a.curr]] /\ UNCHANGED next
    /\ at' = [at EXCEPT ![p].where = "insert"]
    /\ UNCHANGED <<boxlock, pos, met, done, sums, pc, step, crossed, overtaken>>

\* Has q still to walk its box b in this step?
Ahead(q, b) ==
    \/ pc[q] \in {"scale", "correct"}
    \/ pc[q] = "bndry" /\ \E n \in at[q].box .. Len(MyBoxes[q]) : MyBoxes[q][n] = b

\* The lock is held from here to the end of Link.
Insert(p) ==
    LET a == at[p] IN
    /\ In(p, "bndry", "insert") /\ ~boxlock[a.to]
    /\ boxlock' = [boxlock EXCEPT ![a.to] = TRUE]
    /\ list' = [list EXCEPT ![a.to] = a.curr]
    /\ at' = [at EXCEPT ![p] = [a EXCEPT !.temp = list[a.to], !.where = "link"]]
    /\ crossed' = IF Owner[a.to] # p THEN crossed \cup {a.curr} ELSE crossed
    /\ overtaken' = (overtaken \/ (Owner[a.to] # p /\ Ahead(Owner[a.to], a.to)))
    /\ UNCHANGED <<next, pos, met, done, sums, pc, step>>

Link(p) ==
    LET a == at[p] IN
    /\ In(p, "bndry", "link")
    /\ next' = [next EXCEPT ![a.curr] = a.temp]
    /\ boxlock' = [boxlock EXCEPT ![a.to] = FALSE]
    /\ at' = [at EXCEPT ![p] = Onto(a, a.nxt)]
    /\ UNCHANGED <<list, pos, met, done, sums, pc, step, crossed, overtaken>>

-----------------------------------------------------------------------------
(* The shared sums of a step.                                              *)
None == [p \in Procs |-> 0]

TopKeepsVir(p) ==         \* mutant: VIR is not set to 0
    /\ pc[p] = "top"
    /\ IF p = 0 THEN SUM' = None /\ POT' = None ELSE UNCHANGED <<SUM, POT>>
    /\ Goto(p, "b_top")
    /\ UNCHANGED <<VIR, lists, pos, met, done, step, at, crossed, overtaken>>
Top(p) ==
    /\ pc[p] = "top"
    /\ IF p = 0 THEN VIR' = None /\ SUM' = None /\ POT' = None ELSE UNCHANGED sums
    /\ Goto(p, "b_top")
    /\ UNCHANGED <<lists, pos, met, done, step, at, crossed, overtaken>>

Kineti(p) ==
    /\ pc[p] = "sum"
    /\ SUM' = [SUM EXCEPT ![p] = @ + 1]
    /\ Goto(p, "b_kineti")
    /\ UNCHANGED <<lists, pos, met, done, VIR, POT, step, at, crossed, overtaken>>

\* TKIN and TVIR take in the sums, after the barrier.
Totals(p) ==
    /\ pc[p] = "totals"
    /\ Goto(p, IF Printing(step[p]) THEN "poteng" ELSE "b_end")
    /\ UNCHANGED <<lists, pos, met, done, sums, step, at, crossed, overtaken>>

PotengIntra(p) ==
    /\ pc[p] = "poteng"
    /\ \A b \in Own(p) : Ends(b)
    /\ Goto(p, "b_poteng")
    /\ UNCHANGED <<lists, pos, met, done, sums, step, at, crossed, overtaken>>

PotengPairs(p) ==
    /\ pc[p] = "poteng2"
    /\ \A b \in Boxes : Ends(b)
    /\ POT' = [POT EXCEPT ![p] = @ + 1]
    /\ Goto(p, "b_energy")
    /\ UNCHANGED <<lists, pos, met, done, VIR, SUM, step, at, crossed, overtaken>>

Poteng(p) == PotengIntra(p) \/ PotengPairs(p)

Energy(p) ==
    /\ pc[p] = "energy"
    /\ Goto(p, "b_end")
    /\ UNCHANGED <<lists, pos, met, done, sums, step, at, crossed, overtaken>>

-----------------------------------------------------------------------------
(* The barriers.                                                           *)
AllAt(label) == \A p \in Procs : pc[p] = label
Open(label, to) ==
    /\ AllAt(label)
    /\ pc' = [p \in Procs |-> to]
    /\ UNCHANGED <<lists, pos, met, sums, step, at, overtaken>>

Pass ==
    \/ Open("b_intra", "interf") /\ UNCHANGED <<done, crossed>>
    \/ Open("b_top", "predic") /\ UNCHANGED <<done, crossed>>
    \/ /\ Open("b_interf", "scale")
       /\ scaled' = [m \in Mols |-> 0] /\ corrected' = scaled' /\ counted' = scaled'
       /\ crossed' = {}
    \/ Open("b_kineti", "totals") /\ UNCHANGED <<done, crossed>>
    \/ Open("b_poteng", "poteng2") /\ UNCHANGED <<done, crossed>>
    \/ Open("b_energy", "energy") /\ UNCHANGED <<done, crossed>>

\* The end of a step, or of what comes before the first.
NextStep ==
    /\ AllAt("b_init") \/ AllAt("b_end")
    /\ IF step[0] < NSTEP
       THEN /\ step' = [p \in Procs |-> step[p] + 1]
            /\ pc' = [p \in Procs |-> "top"]
       ELSE pc' = [p \in Procs |-> "done"] /\ UNCHANGED step
    /\ UNCHANGED <<lists, pos, met, done, sums, at, crossed, overtaken>>

ProcStep(p) ==
    \/ Intraf(p) \/ Interf(p) \/ ReadList(p) \/ Scale(p) \/ Correct(p) \/ Count(p)
    \/ EndWalk(p) \/ Inspect(p) \/ Unlink(p) \/ Insert(p) \/ Link(p)
    \/ Top(p) \/ Kineti(p) \/ Totals(p) \/ Poteng(p) \/ Energy(p)

Finished == AllAt("done")

\* A process that walks a list with a loop in it walks for ever.
Endless == \E b \in Boxes : ~Ends(b)

Next == Pass \/ NextStep \/ (\E p \in Procs : ProcStep(p))
        \/ ((Finished \/ Endless) /\ UNCHANGED vars)

Spec == Init /\ [][Next]_vars

(* Every process runs, and barriers that all have reached open.  A lock is *)
(* held for one step of its holder, and taken finitely often.              *)
FairSpec ==
    Spec /\ WF_vars(Pass \/ NextStep) /\ \A p \in Procs : WF_vars(ProcStep(p))

-----------------------------------------------------------------------------
\* Each molecule is in one list, that of its box, and once.
InItsBox ==
    /\ \A b \in Boxes : Ends(b) /\ Members(b) = {m \in Mols : pos[m] = b}

(* BNDRY's promise, "put it in correct box" (bndry.C:71), at the barrier   *)
(* after it.                                                               *)
PutInCorrectBox == AllAt("b_kineti") => InItsBox

(* The lists go wrong, and molecules are scaled or corrected twice or not  *)
(* at all, in one way only: a molecule arrives in a box of another process *)
(* before that one has finished BNDRY there.  KINETI counts each molecule  *)
(* once if none changes hands in the step.                                 *)
OnceUnlessOvertaken ==
    AllAt("b_kineti") /\ ~overtaken =>
        /\ InItsBox
        /\ \A m \in Mols : scaled[m] = 1 /\ corrected[m] = 1
        /\ crossed = {} => \A m \in Mols : counted[m] = 1

(* While the lists are in order every molecule gets the force of every     *)
(* other one in its own and the touching boxes once, across the periodic   *)
(* boundary too and for two or more boxes per side (interf.C:65-115).      *)
(* Types hold, and the sums a process reads after a barrier are those of   *)
(* this step and hold the part of every process once, although process 0   *)
(* sets them to 0 without waiting (mdmain.C:96-105).                       *)
TotalsComplete ==
    /\ TypeOK
    /\ AllAt("b_interf") /\ ~overtaken =>
        \A m, n \in Mols : m # n =>
            met[m][n] = IF Touch(pos[m], pos[n], BOX_PER_SIDE) THEN 1 ELSE 0
    /\ \A p \in Procs :
        /\ pc[p] = "totals" => \A q \in Procs : VIR[q] = 2 /\ SUM[q] = 1
        /\ pc[p] = "energy" => \A q \in Procs : SUM[q] = 1 /\ POT[q] = 1

(* All steps are made, unless a list was broken.                           *)
Termination == <>(Finished \/ overtaken)
=============================================================================
