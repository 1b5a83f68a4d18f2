----------------------------- MODULE BarnesStep -----------------------------
(***************************************************************************)
(* barnes: the time steps (SlaveStart, stepsystem in code.C) around the    *)
(* tree of BarnesTree.  The tree's costs divide the bodies into zones, one *)
(* for each process (find_my_bodies); a process then computes forces on    *)
(* its bodies, which gives them new costs, and moves them.  No barrier     *)
(* lies between: while one process still looks for its bodies another may  *)
(* already change the costs it adds up.                                    *)
(*                                                                         *)
(* What forces there are, and so how far a body moves and how many         *)
(* interactions it has, is given by constants.                             *)
(***************************************************************************)
EXTENDS BarnesTree

CONSTANTS
    NSteps,                 \* while tnow < tstop + 0.1 dtime
    ChildSequence, DirectionSequence,   \* the orders of find_my_bodies
    Start,                  \* testdata: where each body is at first
    Move, Interactions      \* of each body in a step

Directions == DOMAIN ChildSequence
Far == 1000                 \* stands for 1E99

StepAssumption ==
    /\ NSteps \in Nat \ {0}
    /\ \A d \in Directions :
         /\ ChildSequence[d] \in Bijection(Subs, Subs)
         /\ DirectionSequence[d] \in [Subs -> Directions]
    /\ Start \in [Bodies -> [Dims -> Int]] /\ Move \in [Bodies -> [Dims -> Int]]
    /\ Interactions \in [Bodies -> Nat]

VARIABLES
    nstep, zone,            \* nstep; workMin and workMax
    walk,                   \* find_my_bodies: leaves to visit, and where it is
    extent, gextent,        \* min and max of a process, and of all
    early                   \* history: forces computed while others still divided

stepVars == <<nstep, zone, walk, extent, gextent, early>>
vars == <<treeVars, stepVars>>

Barriers == {"begun", "loaded", "summed", "moved"}
After == [b \in Barriers |-> CASE b = "begun" -> "maketree" [] b = "loaded" -> "leaves"
                               [] b = "summed" -> "zones"   [] b = "moved" -> "box"]
Empty == [min |-> [k \in Dims |-> Far], max |-> [k \in Dims |-> -Far]]
Lower(a, b) == IF a < b THEN a ELSE b
Upper(a, b) == IF a > b THEN a ELSE b
Join2(e, f) == [min |-> [k \in Dims |-> Lower(e.min[k], f.min[k])],
                max |-> [k \in Dims |-> Upper(e.max[k], f.max[k])]]
Point(x) == [min |-> x, max |-> x]
BoxOf(e) == [min |-> e.min,
             side |-> FoldFunction(Upper, 0, [k \in Dims |-> e.max[k] - e.min[k]])]

\* find_my_initial_bodies: the first ones get one more when they do not divide.
InitialBodies(p) ==
    LET n     == NBody \div NPROC
        extra == NBody % NPROC
        mine  == IF p < extra THEN n + 1 ELSE n
        first == IF p < extra THEN mine * p ELSE (mine + 1) * extra + (p - extra) * mine
    IN  [i \in 1 .. mine |-> first + i]

\* startrun, testdata, setbound and tab_init, up to the barrier of
\* find_my_initial_bodies.
Init ==
    /\ subp = [c \in Cells |-> [k \in Subs |-> NULL]]
    /\ level = [n \in Nodes |-> 0] /\ parent = [n \in Nodes |-> NULL]
    /\ bodyp = [n \in Leaves |-> <<>>]
    /\ sum = [n \in Nodes |-> EmptyBag] /\ cost = [n \in Nodes |-> 0]
    /\ done = [n \in Nodes |-> FALSE]
    /\ lock = [i \in 0 .. MAXLOCK - 1 |-> Nobody]
    /\ mynumcell = [p \in Procs |-> 0] /\ mynumleaf = mynumcell
    /\ mycelltab = [p \in Procs |-> <<>>] /\ myleaftab = mycelltab
    /\ mybodytab = [p \in Procs |-> InitialBodies(p)]
    /\ hint = [p \in Procs |-> [cell |-> G_root, x |-> [k \in Dims |-> 0]]]
    /\ pos = Start /\ bcost = [b \in Bodies |-> 1]
    /\ box = BoxOf(FoldFunction(LAMBDA x, e : Join2(e, Point(x)), Empty, Start))
    /\ pc = [p \in Procs |-> "begin"]
    /\ at = [p \in Procs |-> [i |-> 0, cell |-> G_root, kid |-> 0, l |-> 0, new |-> G_root]]
    /\ halted = FALSE
    /\ nstep = [p \in Procs |-> 0] /\ zone = [p \in Procs |-> [min |-> 0, max |-> 0]]
    /\ walk = [p \in Procs |-> [todo |-> <<>>, i |-> 1, work |-> 0]]
    /\ extent = [p \in Procs |-> Empty] /\ gextent = Empty
    /\ early = FALSE

-----------------------------------------------------------------------------
\* init_root by process 0, which keeps its count of leaves; the others start
\* both tables again.
Begin(p) ==
    /\ pc[p] = "begin"
    /\ IF p = 0
       THEN /\ level' = [level EXCEPT ![G_root] = IMAX \div 2]
            /\ done' = [done EXCEPT ![G_root] = FALSE]
            /\ subp' = [subp EXCEPT ![G_root] = [k \in Subs |-> NULL]]
            /\ mynumcell' = [mynumcell EXCEPT ![0] = 1]
            /\ UNCHANGED mynumleaf
       ELSE /\ mynumcell' = [mynumcell EXCEPT ![p] = 0]
            /\ mynumleaf' = [mynumleaf EXCEPT ![p] = 0]
            /\ UNCHANGED <<level, done, subp>>
    /\ Goto(p, "begun")
    /\ UNCHANGED <<parent, bodyp, sum, cost, mycelltab, myleaftab, world, lock, hint, at,
                   halted, stepVars>>

\* BARRIER: all go on when the last one has come.
Barrier(b) ==
    /\ \A p \in Procs : pc[p] = b
    /\ pc' = [p \in Procs |-> After[b]]
    /\ at' = IF b = "loaded" THEN [p \in Procs |-> [at[p] EXCEPT !.i = Len(myleaftab[p])]]
             ELSE at
    /\ UNCHANGED <<shape, moments, tabs, world, lock, hint, halted, stepVars>>

\* Leaves find_my_bodies comes to from node n, each with the cost before it.
\* The costs of cells and leaves do not change meanwhile, those of bodies may.
LeavesFor(z) ==
    LET visit[n \in Nodes, w \in Nat, d \in Directions] ==
          IF IsLeaf(n) THEN <<[leaf |-> n, work |-> w]>>
          ELSE LET upto[i \in 0 .. NSUB] ==
                     IF i = 0 THEN [out |-> <<>>, work |-> w]
                     ELSE LET s == upto[i - 1]
                              q == subp[n][ChildSequence[d][i - 1]]
                          IN  IF q = NULL \/ s.work >= z.max THEN s
                              ELSE [out  |-> IF s.work + cost[q] < z.min THEN s.out
                                             ELSE s.out \o visit[q, s.work,
                                                                 DirectionSequence[d][i - 1]],
                                    work |-> s.work + cost[q]]
               IN  upto[NSUB].out
    IN  visit[G_root, 0, 0]

MinOfShares(p) == (cost[G_root] \div NPROC) * p    \* mutant: the share is rounded first
workMin(p) == (cost[G_root] * p) \div NPROC
workMax(p) == (cost[G_root] * (p + 1)) \div NPROC + (IF p = NPROC - 1 THEN 1 ELSE 0)

\* Housekeep, workMin and workMax, and the way through the tree.
Zones(p) ==
    /\ pc[p] = "zones"
    /\ LET z == [min |-> workMin(p), max |-> workMax(p)]
           todo == LeavesFor(z)
       IN  /\ zone' = [zone EXCEPT ![p] = z]
           /\ walk' = [walk EXCEPT ![p] = [todo |-> todo, i |-> 1,
                         work |-> IF todo = <<>> THEN 0 ELSE Head(todo).work]]
    /\ mybodytab' = [mybodytab EXCEPT ![p] = <<>>]
    /\ extent' = [extent EXCEPT ![p] = Empty]
    /\ Goto(p, "walk")
    /\ UNCHANGED <<shape, moments, tabs, pos, bcost, box, lock, hint, at, halted,
                   nstep, gextent, early>>

NextLeaf(w) == LET todo == Tail(w.todo)
               IN  [todo |-> todo, i |-> 1, work |-> IF todo = <<>> THEN 0 ELSE Head(todo).work]

\* The table has room for them as long as no body is counted twice too often.
maxmybody == (NBody + NPROC * maxmyleaf * MAX_BODIES_PER_LEAF) \div NPROC

\* One body of the leaf: mine if it begins in my zone.
WalkBody(p) ==
    /\ pc[p] = "walk" /\ walk[p].todo # <<>>
    /\ LET w    == walk[p]
           bs   == bodyp[Head(w.todo).leaf]
           b    == bs[w.i]
           work == w.work + bcost[b]
           mine == w.work >= zone[p].min
       IN  IF mine /\ Len(mybodytab[p]) + 2 > maxmybody
           THEN halted' = TRUE /\ UNCHANGED <<mybodytab, walk>>
           ELSE /\ mybodytab' = [mybodytab EXCEPT ![p] = IF mine THEN Append(@, b) ELSE @]
                /\ walk' = [walk EXCEPT ![p] = IF work >= zone[p].max \/ w.i = Len(bs) THEN NextLeaf(w)
                                               ELSE [w EXCEPT !.i = @ + 1, !.work = work]]
                /\ UNCHANGED halted
    /\ UNCHANGED <<shape, moments, tabs, pos, bcost, box, lock, hint, pc, at,
                   nstep, zone, extent, gextent, early>>

EndWalk(p) ==
    /\ pc[p] = "walk" /\ walk[p].todo = <<>>
    /\ Goto(p, "zero") /\ at' = [at EXCEPT ![p].i = 1]
    /\ UNCHANGED <<shape, moments, tabs, world, lock, hint, halted, stepVars>>

\* ComputeForces: the cost of a body is taken to 0, then to what hackgrav counts.
ZeroCost(p) ==
    /\ pc[p] = "zero"
    /\ IF at[p].i > Len(mybodytab[p])
       THEN /\ Goto(p, "advance") /\ at' = [at EXCEPT ![p].i = 1]
            /\ UNCHANGED <<bcost, early>>
       ELSE /\ bcost' = [bcost EXCEPT ![mybodytab[p][at[p].i]] = 0]
            /\ early' = (early \/ \E q \in Procs : pc[q] \in {"zones", "walk"})
            /\ Goto(p, "gravity") /\ UNCHANGED at
    /\ UNCHANGED <<shape, moments, tabs, mybodytab, pos, box, lock, hint, halted,
                   nstep, zone, walk, extent, gextent>>

hackgrav(p) ==
    /\ pc[p] = "gravity"
    /\ LET b == mybodytab[p][at[p].i] IN bcost' = [bcost EXCEPT ![b] = Interactions[b]]
    /\ at' = [at EXCEPT ![p].i = @ + 1]
    /\ Goto(p, "zero")
    /\ UNCHANGED <<shape, moments, tabs, mybodytab, pos, box, lock, hint, halted, stepVars>>

\* The bodies move, and stretch the extent.
Advance(p) ==
    /\ pc[p] = "advance"
    /\ IF at[p].i > Len(mybodytab[p]) THEN Goto(p, "bounds") /\ UNCHANGED <<pos, at, extent>>
       ELSE LET b == mybodytab[p][at[p].i]
                x == [k \in Dims |-> pos[b][k] + Move[b][k]]
            IN  /\ pos' = [pos EXCEPT ![b] = x]
                /\ extent' = [extent EXCEPT ![p] = Join2(@, Point(x))]
                /\ at' = [at EXCEPT ![p].i = @ + 1]
                /\ UNCHANGED pc
    /\ UNCHANGED <<shape, moments, tabs, mybodytab, bcost, box, lock, hint, halted,
                   nstep, zone, walk, gextent, early>>

\* Under CountLock.
Bounds(p) ==
    /\ pc[p] = "bounds"
    /\ gextent' = Join2(gextent, extent[p])
    /\ Goto(p, "moved")
    /\ UNCHANGED <<shape, moments, tabs, world, lock, hint, at, halted,
                   nstep, zone, walk, extent, early>>

\* Process 0 sets the box of the next step, nstep and tnow go on.
EndStep(p) ==
    /\ pc[p] = "box"
    /\ IF p = 0 THEN box' = BoxOf(gextent) /\ gextent' = Empty
       ELSE UNCHANGED <<box, gextent>>
    /\ nstep' = [nstep EXCEPT ![p] = @ + 1]
    /\ Goto(p, IF nstep[p] + 1 < NSteps THEN "begin" ELSE "end")
    /\ UNCHANGED <<shape, moments, tabs, mybodytab, pos, bcost, lock, hint, at, halted,
                   zone, walk, extent, early>>

StepOf(p) ==
    \/ TreeStep(p) /\ UNCHANGED stepVars
    \/ Begin(p) \/ Zones(p) \/ WalkBody(p) \/ EndWalk(p) \/ ZeroCost(p) \/ hackgrav(p)
    \/ Advance(p) \/ Bounds(p) \/ EndStep(p)

Ended == halted \/ \A p \in Procs : pc[p] = "end"
Stop  == Ended /\ UNCHANGED vars
Next  == \/ ~halted /\ \/ \E p \in Procs : StepOf(p)
                       \/ \E b \in Barriers : Barrier(b)
         \/ Stop

Spec == Init /\ [][Next]_vars
FairSpec == /\ Spec
            /\ \A p \in Procs : WF_vars(~halted /\ StepOf(p))
            /\ \A b \in Barriers : WF_vars(~halted /\ Barrier(b))

-----------------------------------------------------------------------------
Loading == {"maketree", "next", "empty?", "leaf?", "lock empty", "lock leaf", "fill",
            "join", "publish", "down", "return", "loaded"}
AllAt(label) == \A p \in Procs : pc[p] = label
InTables == LET loaded(p) == SelectSeq(mybodytab[p], LAMBDA b : Mass[b] # 0)
            IN  FoldFunction(LAMBDA s, B : B (+) BagOf(s), EmptyBag,
                             [p \in Procs |-> loaded(p)])

\* The node a body comes to that goes down from the root.
LeafOf(b) == LET from[n \in Nodes \cup {NULL}] ==
                     IF n = NULL \/ IsLeaf(n) THEN n ELSE from[subp[n][subindex(xp(b), level[n])]]
             IN  from[G_root]

\* From the cell a process remembers, the way up that loadtree takes for any
\* body (load.C:180-203) ends in a cell below which the body's coordinates
\* agree with those remembered: it never runs out of parents, though the cell
\* was read from a leaf that others may be moving.
Up(c, l) == LET up[n \in Cells \cup {NULL}] ==
                    IF n = NULL \/ level[n] >= l THEN n ELSE up[parent[n]]
            IN  up[c]
HintLeadsUp ==
    \A p \in Procs : pc[p] \in Loading \ {"maketree"} =>
        /\ hint[p].cell # NULL
        /\ \A b \in Range(mybodytab[p]) :
            LET differs == {i \in 0 .. MaxLevel - 1 :
                              \E k \in Dims : Bit(xp(b)[k], 2^i) # Bit(hint[p].x[k], 2^i)}
            IN  \A i \in differs : LET c == Up(hint[p].cell, 2^i)
                                   IN  c # NULL /\ (2^i > level[hint[p].cell] => level[c] = 2^i)

\* However the insertions and subdivisions of the processes interleave, the
\* tree holds each body of their tables as often as these do, in the leaf the
\* body's own coordinates lead to, and no leaf too many (load.C:205-250,
\* 410-462); these coordinates lie in the box, though other processes moved the
\* bodies in the step before (code.C:702-752); and no process lost its way.
TreeComplete ==
    /\ HintLeadsUp
    /\ AllAt("loaded") =>
        /\ \A b \in BagToSet(InTables) : \A k \in Dims : xp(b)[k] \in 0 .. IMAX - 1
        /\ \A b \in BagToSet(InTables) : LET le == LeafOf(b) IN
             /\ IsLeaf(le) /\ Len(bodyp[le]) <= MAX_BODIES_PER_LEAF
             /\ CopiesIn(b, BagOf(bodyp[le])) = CopiesIn(b, InTables)
             /\ level[parent[le]] = 2 * level[le]
        /\ {le \in UNION {Range(myleaftab[p]) : p \in Procs} : bodyp[le] # <<>>}
             = {LeafOf(b) : b \in BagToSet(InTables)}

\* When all processes have left hackcofm, the root's mass and position are
\* taken over each loaded body once, and so is its cost, by which the zones are
\* drawn: nobody added a child before it was done, or left one out
\* (load.C:360-405).
SumsComplete ==
    AllAt("summed") =>
        /\ sum[G_root] = InTables
        /\ cost[G_root] = FoldFunction(+, 0, [b \in BagToSet(InTables) |->
                                                bcost[b] * CopiesIn(b, InTables)])

\* Each body is moved once in a step, by one process, unless a process computed
\* forces while another still looked for its bodies (code.C:672-690).
EachBodyOnce    == AllAt("moved") => InTables = SetToBag({b \in Bodies : Mass[b] # 0})
OnceUnlessEarly == ~early => EachBodyOnce

\* No process waits for ever, for a lock, a child or a barrier: the program ends.
Termination == <>Ended
=============================================================================
