------------------------------- MODULE FmmStep -------------------------------
(***************************************************************************)
(* fmm: a time step (fmm.C, construct_grid.C, cost_zones.C,                *)
(* partition_grid.C, interactions.C).  On the merged tree of FmmGrid the   *)
(* processes make the colleagues of each box, sum the costs, divide the    *)
(* boxes anew by cost zones, and let the expansions go up the tree, across *)
(* by the interaction lists and down again.  Box by box a process waits    *)
(* for another by a word of the box: construct_synch, interaction_synch.   *)
(*                                                                         *)
(* An expansion is how often it has taken each particle in; `added' is     *)
(* what the step adds to a particle's field (the field itself is never     *)
(* cleared).  What the X lists add (x_expansion) is left out.              *)
(***************************************************************************)
EXTENDS FmmGrid

CONSTANTS Weight       \* what an entry of a list costs: fields u, v, w, x, self
WeightAssumption == Weight \in [{"u", "v", "w", "x", "self"} -> Nat]

VARIABLES
    at, src,           \* boxes of the iteration done, and sources of the box
    pcost,             \* cost of each particle
    added,             \* added[q][r]: how often r's charge acted on q in this step
    late,              \* history: boxes cleared with children's expansions in them
    hasty              \* history: boxes that took an expansion yet to be cleared

haste == <<late, hasty>>
workVars == <<at, src, pcost, added, haste>>
vars == <<gridVars, workVars>>

Init == /\ GridInit
        /\ at = [p \in Procs |-> 1] /\ src = [p \in Procs |-> 0]
        /\ pcost = [q \in Particles |-> 1]
        /\ added = [q \in Particles |-> Nothing] /\ late = {} /\ hasty = {}

-----------------------------------------------------------------------------
(* box.C: a box is a square around its centre, given by its path.          *)
Length(path) == 2^(MaxLevel + 1 - Len(path))
Axes == {1, 2}
\* Children 1 and 2 are to the left, 2 and 3 below.
Centre == [path \in Paths |-> [axis \in Axes |->
              LET down == {axis, axis + 1}
                  sum[l \in 0 .. Len(path)] ==
                      IF l = 0 THEN 0 ELSE sum[l - 1] + (IF path[l] \in down THEN -1 ELSE 1) * 2^(MaxLevel - l)
              IN  sum[Len(path)]]]
Separation(a, c) == [axis \in Axes |-> LET d == Centre[a][axis] - Centre[c][axis] IN IF d < 0 THEN -d ELSE d]
Touching == {<<a, c>> \in Paths \X Paths :
               LET exact == (Length(a) + Length(c)) \div 2
                   d == Separation(a, c)
               IN  (\E i \in Axes : d[i] = exact) /\ (\A i \in Axes : d[i] <= exact)}
Separated == {<<a, c>> \in Paths \X Paths :
                \E i \in Axes : Separation(a, c)[i] >= 2 * Max({Length(a), Length(c)})}

AdjacentBoxes(b, c) == <<box[b].path, box[c].path>> \in Touching
WellSeparatedBoxes(b, c) == <<box[b].path, box[c].path>> \in Separated
\* b lies within c, and is another.
AncestorBox(b, c) == LET d == Separation(box[b].path, box[c].path) IN
                     /\ Length(box[b].path) # Length(box[c].path)
                     /\ \A i \in Axes : d[i] <= Length(box[c].path) \div 2

Children(b) == Range(box[b].children) \ {NULL}
Childless(b) == box[b].type = "childless"
Cousins(b) == IF box[b].parent = NULL THEN {}
              ELSE UNION {Children(c) : c \in box[box[b].parent].colleagues}

SetVList(b) == {c \in Cousins(b) : WellSeparatedBoxes(b, c)}

RECURSIVE SetUListHelper(_, _)
SetUListHelper(b, pb) ==
    {c \in Children(pb) : AdjacentBoxes(b, c) /\ Childless(c)}
    \cup UNION {SetUListHelper(b, c) : c \in {d \in Children(pb) :
                    IF AdjacentBoxes(b, d) THEN ~Childless(d) ELSE AncestorBox(b, d)}}
SetUList(b) == SetUListHelper(b, Grid)

\* As many slots of the four are looked at as the box has children.
RECURSIVE InsertNonAdjChildren(_, _)
InsertNonAdjChildren(b, pb) ==
    LET some == {box[pb].children[k] : k \in 0 .. box[pb].num_children - 1} \ {NULL}
        near == {c \in some : AdjacentBoxes(b, c)}
    IN  (some \ near) \cup UNION {InsertNonAdjChildren(b, c) : c \in {d \in near : ~Childless(d)}}
SetWList(b) == UNION {InsertNonAdjChildren(b, c) : c \in {d \in box[b].colleagues : ~Childless(d)}}
InOrder(S) == LET number(b) == Cardinality({c \in S : c[1] < b[1] \/ (c[1] = b[1] /\ c[2] < b[2])})
              IN  [i \in 1 .. Cardinality(S) |-> CHOOSE b \in S : number(b) = i - 1]

-----------------------------------------------------------------------------
\* PartitionIterate from the top or from the bottom.
Parents(p, levels) == FlattenSeq([i \in DOMAIN levels |-> parents[p][levels[i]]])
TopOrder(p) == Parents(p, [i \in 1 .. MaxLevel + 1 |-> i - 1]) \o childless[p]
BottomOrder(p) == childless[p] \o Parents(p, [i \in 1 .. MaxLevel + 1 |-> MaxLevel + 1 - i])
Order(p) == IF pc[p] \in {"colleagues", "downward"} THEN TopOrder(p) ELSE BottomOrder(p)
More(p) == at[p] <= Len(Order(p))
At(p)   == Order(p)[at[p]]
Working(p, label) == pc[p] = label /\ More(p)
NextBox(p) == at' = [at EXCEPT ![p] = @ + 1]

\* The end of an iteration, and where it leads, which need not be a barrier.
After == [colleagues |-> "linked", lists |-> "costs", costs |-> "costed", upward |-> "interactions",
          interactions |-> "interacted", downward |-> "positions"]
IterationEnds(p) ==
    /\ pc[p] \in DOMAIN After /\ ~More(p)
    /\ at' = [at EXCEPT ![p] = 1]
    /\ Goto(p, After[pc[p]])
    /\ UNCHANGED <<slips, Grid, box, heap, mine, lists, todo, step, src, pcost, added, haste>>

Crossing == [size |-> "plant", merged |-> "cleanup", linked |-> "lists", costed |-> "zones",
             zoned |-> "upward", interacted |-> "downward"]
Barriers == DOMAIN Crossing
AllAt(label) == \A p \in Procs : pc[p] = label
Barrier(label) ==
    /\ AllAt(label)
    /\ pc' = [p \in Procs |-> Crossing[label]]
    /\ UNCHANGED <<slips, Grid, box, heap, mine, lists, todo, step, workVars>>

BuildGrid(p) ==
    /\ GridStep(p)
    /\ added' = IF pc[p] = "plant" THEN [q \in Particles |-> IF q \in mine[p] THEN Nothing ELSE added[q]]
                ELSE added
    /\ \E keep \in {IF pc[p] = "plant" THEN {b \in Boxes : b[1] # p} ELSE Boxes} :
         late' = late \cap keep /\ hasty' = hasty \cap keep
    /\ UNCHANGED <<at, src, pcost>>

Linked(b) == box[b].construct_synch = 1
\* SetSiblings and SetColleagues, after the parent's owner has done the parent.
SetColleagues(p) ==
    /\ Working(p, "colleagues")
    /\ LET b  == At(p)
           pb == box[b].parent
           siblings == IF pb = NULL THEN {} ELSE Children(pb) \ {b}
       IN  /\ pb = NULL \/ Linked(b)
           /\ box' = [c \in Boxes |->
                [box[c] EXCEPT !.colleagues =
                                 IF c = b THEN siblings \cup {d \in Cousins(b) : AdjacentBoxes(b, d)} ELSE @,
                               !.construct_synch = IF c = b THEN 0 ELSE IF c \in Children(b) THEN 1 ELSE @]]
    /\ NextBox(p)
    /\ UNCHANGED <<slips, Grid, heap, mine, lists, todo, pc, step, src, pcost, added, haste>>

\* After the barrier: nothing of the tree changes until the next step.
ConstructInteractionLists(p) ==
    /\ Working(p, "lists")
    /\ LET b == At(p) IN
       box' = [box EXCEPT ![b].v_list = With(SetVList(b), InOrder),
                          ![b].u_list = IF Childless(b) THEN SetUList(b) ELSE {},
                          ![b].w_list = IF Childless(b) THEN With(SetWList(b), InOrder) ELSE <<>>]
    /\ NextBox(p)
    /\ UNCHANGED <<slips, Grid, heap, mine, lists, todo, pc, step, src, pcost, added, haste>>

-----------------------------------------------------------------------------
\* The cost most particles of the box had, or the mean of several such.
Winner(b) ==
    LET qs == box[b].particles
        having(c) == Cardinality({q \in qs : pcost[q] = c})
        costs == {pcost[q] : q \in qs}
        best == {c \in costs : \A d \in costs : having(d) <= having(c)}
    IN  MapThenSumSet(LAMBDA c : c, best) \div Cardinality(best)
ComputeCostOfBox(b) ==
    IF Childless(b) THEN Max({1, Winner(b) * Cardinality(box[b].particles)})
    ELSE Len(box[b].v_list) * Weight.v + 1

Summed(b) == Childless(b) \/ box[b].interaction_synch = box[b].num_children
ComputeSubTreeCosts(p) ==
    /\ Working(p, "costs")
    /\ LET b == At(p)
           pb == box[b].parent
           c == ComputeCostOfBox(b)
           own == [box EXCEPT ![b].interaction_synch = 0, ![b].cost = c, ![b].subtree_cost = @ + c]
       IN  /\ Summed(b)
           /\ box' = IF pb = NULL THEN own
                     ELSE [own EXCEPT ![pb].subtree_cost = @ + own[b].subtree_cost,
                                      ![pb].interaction_synch = @ + 1]
    /\ NextBox(p)
    /\ UNCHANGED <<slips, Grid, heap, mine, lists, todo, pc, step, src, pcost, added, haste>>

Share == box[Grid].subtree_cost \div Number_Of_Processors
Min_Work(p) == Share * p
Max_Work(p) == IF p = Number_Of_Processors - 1 THEN box[Grid].subtree_cost ELSE Min_Work(p) + Share

Child_Sequence == [right |-> <<0, 1, 2, 3>>, left |-> <<2, 3, 0, 1>>,
                   up |-> <<0, 3, 2, 1>>, down |-> <<2, 1, 0, 3>>]
Direction_Sequence == [right |-> <<"up", "right", "right", "down">>, left |-> <<"down", "left", "left", "up">>,
                       up |-> <<"right", "up", "up", "left">>, down |-> <<"left", "down", "down", "right">>]

\* The boxes of process p's zone under b, in the order of their insertion; work
\* is the cost of all before b.  A parent comes after its third child.
RECURSIVE CostZonesHelper(_, _, _, _)
CostZonesHelper(p, b, work, dir) ==
    LET child(i) == box[b].children[Child_Sequence[dir][i]]
        costOf(i) == IF child(i) = NULL THEN 0 ELSE box[child(i)].subtree_cost
        before(i) == work + MapThenSumSet(costOf, 1 .. i - 1) + (IF i = 4 THEN box[b].cost ELSE 0)
        under(i) == IF /\ before(i) < Max_Work(p)
                       /\ child(i) # NULL
                       /\ before(i) + costOf(i) >= Min_Work(p)
                    THEN CostZonesHelper(p, child(i), before(i), Direction_Sequence[dir][i])
                    ELSE <<>>
        w == before(3) + costOf(3)
        itself == IF w >= Min_Work(p) /\ w < Max_Work(p) THEN <<b>> ELSE <<>>
    IN  IF Childless(b) THEN (IF work >= Min_Work(p) THEN <<b>> ELSE <<>>)
        ELSE under(1) \o under(2) \o under(3) \o itself \o under(4)

CostZones(p) ==
    /\ pc[p] = "zones"
    /\ SetPartition(p, FoldLeft(LAMBDA part, b : InsertBoxInPartition(p, b, part),
                                [childless |-> <<>>, parents |-> NoParents],
                                CostZonesHelper(p, Grid, 0, "right")))
    /\ Goto(p, "zoned")
    /\ UNCHANGED <<slips, Grid, box, heap, mine, todo, step, workVars>>

-----------------------------------------------------------------------------
Plus(a, b) == [q \in Particles |-> a[q] + b[q]]
Once(qs)   == [q \in Particles |-> IF q \in qs THEN 1 ELSE 0]

Cleared(b) == [box EXCEPT ![b].mp_expansion = Nothing, ![b].local_expansion = Nothing]
\* A child has added its expansion, and may be about to say so.
ChildrenFirst(b) ==
    \/ box[b].interaction_synch > 0
    \/ \E p \in Procs : pc[p] = "signal" /\ box[BottomOrder(p)[at[p]]].parent = b
\* InitExp; a childless box makes its own expansion (ComputeMPExp) and is ready.
InitExp(p) ==
    /\ Working(p, "upward")
    /\ LET b == At(p) IN
       /\ box' = IF Childless(b) THEN [Cleared(b) EXCEPT ![b].mp_expansion = Once(box[b].particles),
                                                         ![b].interaction_synch = 1]
                 ELSE Cleared(b)
       /\ late' = IF ChildrenFirst(b) THEN late \cup {b} ELSE late
    /\ Goto(p, "shift")
    /\ UNCHANGED <<slips, Grid, heap, mine, lists, todo, step, at, src, pcost, added, hasty>>

Complete(b) == box[b].interaction_synch = IF Childless(b) THEN 1 ELSE box[b].num_children
\* UpwardPass waits for the children, and adds to the parent under its lock.
ShiftMPExp(p) ==
    /\ pc[p] = "shift"
    /\ LET b == BottomOrder(p)[at[p]]
           pb == box[b].parent
       IN  /\ Complete(b)
           /\ IF pb = NULL THEN NextBox(p) /\ Goto(p, "upward") /\ UNCHANGED box
              ELSE /\ box' = [box EXCEPT ![pb].mp_expansion = Plus(@, box[b].mp_expansion)]
                   /\ Goto(p, "signal")
                   /\ UNCHANGED at
    /\ UNCHANGED <<slips, Grid, heap, mine, lists, todo, step, src, pcost, added, haste>>

SignalParent(p) ==
    /\ pc[p] = "signal"
    /\ box' = [box EXCEPT ![box[BottomOrder(p)[at[p]]].parent].interaction_synch = @ + 1]
    /\ NextBox(p) /\ Goto(p, "upward")
    /\ UNCHANGED <<slips, Grid, heap, mine, lists, todo, step, src, pcost, added, haste>>

-----------------------------------------------------------------------------
\* The boxes whose expansions b takes: those of its W list for its particles, then
\* those of its V list for its own expansion.
Sources(b)  == box[b].w_list \o box[b].v_list
Act(b, charges(_)) == [q \in Particles |-> IF q \in box[b].particles THEN Plus(added[q], charges(q)) ELSE added[q]]
Proceed(p, b) == IF src[p] = Len(Sources(b)) THEN src' = [src EXCEPT ![p] = 0] /\ NextBox(p)
                 ELSE src' = [src EXCEPT ![p] = @ + 1] /\ UNCHANGED at

\* What ComputeInteractions adds up as the cost of b.
InteractionCost(b) ==
    LET n(c) == Cardinality(box[c].particles)
        all == Weight.v * Len(box[b].v_list)
    IN  IF ~Childless(b) THEN all
        ELSE all + Weight.self * n(b) * n(b) + MapThenSumSet(LAMBDA c : Weight.u * n(b) * n(c), box[b].u_list)
                 + (Weight.w + Weight.x) * n(b) * Len(box[b].w_list)

\* Particle by particle: of one box, and of a box and those of its U list.
ComputeSelfInteraction(b, q) == Once(box[b].particles \ {q})
UListInteraction(b)          == Once(UNION {box[c].particles : c \in box[b].u_list})
NearInteractions(p) ==
    /\ Working(p, "interactions") /\ src[p] = 0
    /\ LET b == At(p) IN
           /\ added' = IF Childless(b)
                       THEN Act(b, LAMBDA q : Plus(ComputeSelfInteraction(b, q), UListInteraction(b)))
                       ELSE added
           /\ box' = [box EXCEPT ![b].cost = InteractionCost(b)]
           /\ Proceed(p, b)
    /\ UNCHANGED <<slips, Grid, heap, mine, lists, todo, pc, step, pcost, haste>>

AtOnce(b) == TRUE          \* mutant: a source may be used at any time
Ready(b)  == Complete(b)
\* An expansion acts on the particles, or enters the expansion of the box.
WListInteraction(b, s) == Act(b, LAMBDA q : box[s].mp_expansion)
VListInteraction(b, s) == [box EXCEPT ![b].local_expansion = Plus(@, box[s].mp_expansion)]
\* Its owner has not come to the box yet.
Uncleared(b) == \E p \in Procs : /\ pc[p] \in {"upward", "shift", "signal"}
                                 /\ \E i \in at[p] + (IF pc[p] = "upward" THEN 0 ELSE 1) .. Len(BottomOrder(p)) :
                                      BottomOrder(p)[i] = b
\* Both wait until the source is complete, and not until it has been cleared.
FarInteractions(p) ==
    /\ Working(p, "interactions") /\ src[p] > 0
    /\ LET b == At(p)
           s == Sources(b)[src[p]]
       IN  /\ Ready(s)
           /\ IF src[p] <= Len(box[b].w_list)
              THEN added' = WListInteraction(b, s) /\ UNCHANGED box
              ELSE box' = VListInteraction(b, s) /\ UNCHANGED added
           /\ hasty' = IF Complete(s) /\ Uncleared(s) THEN hasty \cup {b} ELSE hasty
           /\ Proceed(p, b)
    /\ UNCHANGED <<slips, Grid, heap, mine, lists, todo, pc, step, pcost, late>>

Passed(b) == box[b].interaction_synch = 0
ShiftLocalExp(pb, b)  == Plus(box[b].local_expansion, box[pb].local_expansion)
EvaluateLocalExp(b, all) == Act(b, LAMBDA q : all)
\* After the parent's; a childless box then acts on its particles.
DownwardPass(p) ==
    /\ Working(p, "downward")
    /\ LET b  == At(p)
           pb == box[b].parent
           all == IF pb = NULL THEN box[b].local_expansion ELSE ShiftLocalExp(pb, b)
       IN  /\ pb # NULL => Passed(pb)
           /\ box' = [box EXCEPT ![b].local_expansion = all, ![b].interaction_synch = 0]
           /\ added' = IF Childless(b) THEN EvaluateLocalExp(b, all) ELSE added
    /\ NextBox(p)
    /\ UNCHANGED <<slips, Grid, heap, mine, lists, todo, pc, step, src, pcost, haste>>

\* ComputeParticlePositions and DestroyGrid: the particles of its boxes are the
\* process's own from now on.  Process 0 forgets the tree.
EndStep(p) ==
    /\ pc[p] = "positions"
    /\ LET leaf(q) == CHOOSE b \in Range(childless[p]) : q \in box[b].particles
           held == UNION {box[b].particles : b \in Range(childless[p])}
       IN  /\ mine' = [mine EXCEPT ![p] = held]
           /\ pcost' = [q \in Particles |-> IF q \in held
                            THEN box[leaf(q)].cost \div Cardinality(box[leaf(q)].particles)
                            ELSE pcost[q]]
    /\ Grid' = IF p = 0 THEN NULL ELSE Grid
    /\ step' = [step EXCEPT ![p] = @ + 1]
    /\ Goto(p, IF step[p] + 1 < Time_Steps THEN "size" ELSE "end")
    /\ UNCHANGED <<slips, box, heap, lists, todo, at, src, added, haste>>

-----------------------------------------------------------------------------
StepOf(p) ==
    \/ BuildGrid(p) \/ SetColleagues(p) \/ ConstructInteractionLists(p)
    \/ ComputeSubTreeCosts(p) \/ CostZones(p)
    \/ InitExp(p) \/ ShiftMPExp(p) \/ SignalParent(p)
    \/ NearInteractions(p) \/ FarInteractions(p) \/ DownwardPass(p)
    \/ IterationEnds(p) \/ EndStep(p)

Ended == AllAt("end")
Next == \/ \E p \in Procs : StepOf(p)
        \/ \E label \in Barriers : Barrier(label)
        \/ Ended /\ UNCHANGED vars
Spec == Init /\ [][Next]_vars
FairSpec == /\ Spec
            /\ \A p \in Procs : WF_vars(StepOf(p))
            /\ \A label \in Barriers : WF_vars(Barrier(label))

-----------------------------------------------------------------------------
\* The boxes one comes to from the root.
RECURSIVE Under(_)
Under(b) == {b} \cup UNION {Under(c) : c \in Children(b)}
Tree == IF Grid = NULL THEN {} ELSE Under(Grid)

Built == {"cleanup", "colleagues", "linked", "lists", "costs", "costed", "zones", "zoned", "upward", "shift",
          "signal", "interactions", "interacted", "downward", "positions"}

\* However the processes merge their trees, each particle ends up in one
\* childless box of the tree, on the particle's own way down, none of them empty
\* or too full, and each box knows its children's number (construct_grid.C:540-800);
\* unless a box was read as a leaf, divided by another process and then taken out
\* as a leaf (construct_grid.C:774 compares the box only, not its type).
ParticlesOnce ==
    torn = {} /\ (\A p \in Procs : pc[p] \in Built \ {"positions"}) =>
        \A tree \in {Tree} :
          /\ \A q \in Particles :
               \E b \in tree : /\ {c \in tree : q \in box[c].particles} = {b}
                              /\ Childless(b)
                              /\ IsPrefix(box[b].path, Place[step[0]][q])
          /\ \A b \in tree : /\ box[b].num_children = Cardinality(Children(b))
                            /\ IF Childless(b) THEN Cardinality(box[b].particles) \in 1 .. MAX_PARTICLES_PER_BOX
                               ELSE Children(b) # {}

\* All the lists of a process, the childless boxes first.
Lists(p) == <<childless[p]>> \o [i \in 1 .. MaxLevel + 1 |-> parents[p][i - 1]]

\* Every box of the tree is in one list of one process, that of its kind and
\* level: after the merge (construct_grid.C:803-850) and after the zones
\* (cost_zones.C:84-118).  A box is in none if its owner, when it listed what it had
\* put into the tree, found a third process' box in its place
\* (construct_grid.C:814), and the box came back.  When the lists are made, the
\* colleagues of a box are the boxes of its level that touch it, whoever made its
\* parent's (construct_grid.C:880-915).
PartitionExact ==
    /\ torn = {} /\ (\A p \in Procs : pc[p] \in Built \ {"cleanup", "zones", "positions"}) =>
        \A tree \in {Tree} : \A all \in {FlattenSeq([i \in 1 .. Number_Of_Processors |-> FlattenSeq(Lists(i - 1))])} :
            /\ Len(all) = Cardinality(Range(all)) /\ Range(all) = tree \ missed
            /\ \A p \in Procs : \A i \in 1 .. MaxLevel + 2 : \A b \in Range(Lists(p)[i]) :
                 IF Childless(b) THEN i = 1 ELSE i = Len(box[b].path) + 2
    /\ torn = {} /\ AllAt("linked") =>
        \A b \in Tree \ missed : box[b].colleagues =
            {c \in Tree : Len(box[c].path) = Len(box[b].path) /\ AdjacentBoxes(b, c)}

\* Two particles act on each other directly, or by expansions of boxes that lie
\* apart: the largest of one level, or those at the side of a childless box that
\* touch nothing of it but their parent's.  What r adds to its box's expansion is
\* lost where a box on the way up has been cleared late.
LeafOf(q) == CHOOSE b \in Tree : q \in box[b].particles
RECURSIVE Above(_)
Above(b) == {b} \cup (IF box[b].parent = NULL THEN {} ELSE Above(box[b].parent))
Near(b, c) == b = c \/ AdjacentBoxes(b, c)
Level(b) == Len(box[b].path)
Carriers(b, c) == {e \in Above(c) : \E d \in Above(b) :
                     /\ Level(d) = Level(e)
                     /\ WellSeparatedBoxes(d, e)
                     /\ ~WellSeparatedBoxes(box[d].parent, box[e].parent)}
\* A box is skipped whose place is beyond the number of its parent's children.
Skipped(e) == child_num(e) >= box[box[e].parent].num_children
Beside(b, c) == {e \in Above(c) : /\ Level(e) > Level(b)
                                  /\ ~AdjacentBoxes(b, e) /\ AdjacentBoxes(b, box[e].parent)
                                  /\ \A d \in Above(e) : Level(d) > Level(b) => ~Skipped(d)}
Lost(c, e) == (Above(c) \ Above(box[e].parent)) \cap late # {}

\* When the local expansions have come down, each particle has acted once on
\* each other that lists U, V or W bring it to, and on no other twice
\* (interactions.C:92-152).  Three things are excepted: what a box's owner has cleared
\* when children had already added theirs (:94); what a box has taken from another
\* that was not cleared yet although all its children had added theirs, with the
\* expansion of the last step still in it (:366); and boxes in places that the
\* search for the W list does not visit (construct_grid.C:1110).
FieldOnce ==
    torn = {} /\ AllAt("positions") =>
        \A q, r \in Particles : LET b == LeafOf(q)  c == LeafOf(r) IN
            q # r => /\ Above(b) \cap hasty = {} => added[q][r] <= 1
                     /\ Near(b, c) => added[q][r] >= 1
                     /\ \A e \in Carriers(b, c) \cup Beside(b, c) : ~Lost(c, e) => added[q][r] >= 1

\* No process tries for ever to put a box into the tree, or waits for ever for
\* another's word: the program ends, unless a box of the tree has been left out of
\* the lists, for whose word its neighbours in the tree wait for ever
\* (construct_grid.C:814, 891-895).
Unlisted == \E b \in missed : b \in Tree
Termination == <>Ended \/ <>[]Unlisted
=============================================================================
