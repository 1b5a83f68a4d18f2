------------------------------- MODULE FmmGrid -------------------------------
(***************************************************************************)
(* fmm: the quadtree of a time step (construct_grid.C, box.C).  Each       *)
(* process plants a tree of its own over its particles and merges it into  *)
(* the tree of all (Grid), box by box: a box is put into an empty slot of  *)
(* its parent, or a childless box there is taken out, its particles added, *)
(* and the result put back.  Slot and type of a box are read with no lock  *)
(* held, only the change itself is made under one and tried again when the *)
(* slot is not what it was; each of these is a step.                       *)
(*                                                                         *)
(* A box's place is the path of child numbers from the root, and so is a   *)
(* particle's; particles of a box are a set.  What a process calls is a    *)
(* stack of tasks.                                                         *)
(***************************************************************************)
EXTENDS Integers, Sequences, SequencesExt

CONSTANTS
    Number_Of_Processors, Total_Particles,
    Time_Steps,
    MAX_PARTICLES_PER_BOX,
    MaxLevel,      \* bound: no box lies deeper
    MaxHeap,       \* bound: boxes of a process (Max_B_Heap is never reached)
    Place          \* the path of each particle in each time step

Procs     == 0 .. Number_Of_Processors - 1
Particles == 1 .. Total_Particles
Quarters  == 0 .. 3                     \* NUM_OFFSPRING
Boxes     == Procs \X (0 .. MaxHeap - 1)
Paths     == UNION {[1 .. l -> Quarters] : l \in 0 .. MaxLevel}
NULL      == <<Number_Of_Processors, 0>>

GridAssumption ==
    /\ {Number_Of_Processors, Total_Particles, Time_Steps} \subseteq Nat \ {0}
    /\ {MAX_PARTICLES_PER_BOX, MaxLevel, MaxHeap} \subseteq Nat \ {0}
    /\ Place \in [0 .. Time_Steps - 1 -> [Particles -> [1 .. MaxLevel -> Quarters]]]

VARIABLES
    Grid,                  \* root of the tree of all
    box,                   \* the boxes of all heaps
    heap,                  \* Index_B_Heap
    mine,                  \* Particles of each process
    childless, parents,    \* its partition: Childless_Partition, Parent_Partition
    todo,                  \* its stack of calls
    pc, step,              \* phase and Time_Step of each process
    missed, torn           \* history: boxes nobody listed, and parents taken for leaves

lists == <<childless, parents>>
slips == <<missed, torn>>
gridVars == <<Grid, box, heap, mine, lists, todo, pc, step, slips>>

Goto(p, label) == pc' = [pc EXCEPT ![p] = label]

NoBoxes == [k \in Quarters |-> NULL]
Nothing == [q \in Particles |-> 0]      \* how often a sum has taken each particle

\* What ZeroBox clears; the lists are cleared with the rest, as their makers do
\* before anyone may use them.
Zero == [type |-> "childless", path |-> <<>>, particles |-> {}, parent |-> NULL,
         children |-> NoBoxes, shadow |-> NoBoxes, num_children |-> 0,
         construct_synch |-> 0, interaction_synch |-> 0, cost |-> 0, subtree_cost |-> 0,
         colleagues |-> {}, u_list |-> {}, v_list |-> <<>>, w_list |-> <<>>]
\* The expansions stay: those of the box that was there in the last step, and in
\* the first whatever malloc has found (any sum that takes it in shows it).
Expansions(mp, local) == [mp_expansion |-> mp, local_expansion |-> local]
Unset == [q \in Particles |-> 7]
ZeroBox(b) == Zero @@ Expansions(box[b].mp_expansion, box[b].local_expansion)
NoParents == [l \in 0 .. MaxLevel |-> <<>>]

GridInit ==
    /\ Grid = NULL
    /\ box = [b \in Boxes |-> Zero @@ Expansions(Unset, Unset)] /\ heap = [p \in Procs |-> 0]
    /\ mine = [p \in Procs |-> IF p = 0 THEN Particles ELSE {}]
    /\ childless = [p \in Procs |-> <<>>] /\ parents = [p \in Procs |-> NoParents]
    /\ todo = [p \in Procs |-> <<>>]
    /\ pc = [p \in Procs |-> "size"] /\ step = [p \in Procs |-> 0]
    /\ missed = {} /\ torn = {}

-----------------------------------------------------------------------------
(* Trees nobody else can reach: s is the boxes with the heap of process p. *)
Add(s, b, qs) == [s EXCEPT !.box[b].particles = @ \cup qs]

\* InitBox, for CreateLeaf: the parent does not know it yet.
NewBox(p, s, path, parent) ==
    [box  |-> [s.box EXCEPT ![<<p, s.heap>>] = [@ EXCEPT !.path = path, !.parent = parent]],
     heap |-> s.heap + 1]
\* An order of paths, to number new boxes by.
Code == [path \in Paths |-> LET code[l \in 0 .. Len(path)] ==
                                    IF l = 0 THEN 0 ELSE 5 * code[l - 1] + path[l] + 1
                            IN  code[Len(path)]]
Where(p, q) == Place[step[p]][q]

\* FindHome: the last box on the particle's way down from b.
RECURSIVE FindHome(_, _, _, _)
FindHome(p, s, q, b) ==
    LET c == s.box[b].children[Where(p, q)[Len(s.box[b].path) + 1]]
    IN  IF s.box[b].type = "childless" \/ c = NULL THEN b ELSE FindHome(p, s, q, c)

\* Where particles qs stop on their way down from b, with those they find there.
Held(s, e) == IF s.box[e].type = "childless" THEN s.box[e].particles ELSE {}
Stops(p, s, qs, b) ==
    LET home == [q \in qs |-> FindHome(p, s, q, b)]
        met == UNION {Held(s, e) : e \in Range(home)}
    IN  home @@ [q \in met |-> CHOOSE e \in Range(home) : q \in Held(s, e)]
Load(p, stop, path) == {q \in DOMAIN stop : IsPrefix(path, Where(p, q))}
Divided(p, s, stop, path) ==
    \/ \E e \in Range(stop) : s.box[e].path = path /\ s.box[e].type = "parent"
    \/ Cardinality(Load(p, stop, path)) > MAX_PARTICLES_PER_BOX

\* The paths of the boxes CreateChild makes: a childless box with too many is
\* subdivided, again and again, and a parent has a child where particles are.
NewPaths(p, s, stop) ==
    UNION {{SubSeq(Where(p, q), 1, l) : l \in
              {k \in Len(s.box[stop[q]].path) + 1 .. MaxLevel :
                 Divided(p, s, stop, SubSeq(Where(p, q), 1, k - 1))}} : q \in DOMAIN stop}

\* F(x), where x is evaluated once.
With(x, F(_)) == CHOOSE y \in {F(v) : v \in {x}} : TRUE

\* The boxes when those of the paths new have been made, numbered in some order,
\* and the particles been moved into them.
Grown(p, s, stop, new) ==
    LET Id(path) == <<p, s.heap + Cardinality({other \in new : Code[other] < Code[path]})>>
        made(path) == {k \in Quarters : Append(path, k) \in new}
        kids(path, cs) == [k \in Quarters |-> IF k \in made(path) THEN Id(Append(path, k)) ELSE cs[k]]
        owner(path) == IF path \in new THEN Id(path) ELSE CHOOSE e \in Range(stop) : s.box[e].path = path
        filled(path, r) ==
            [r EXCEPT !.type = IF Divided(p, s, stop, path) THEN "parent" ELSE "childless",
                      !.particles = IF r.type = "parent" THEN @
                                    ELSE IF Divided(p, s, stop, path) THEN {} ELSE Load(p, stop, path),
                      !.children = kids(path, @), !.shadow = kids(path, @),
                      !.num_children = @ + Cardinality(made(path))]
        empty(path) == [s.box[Id(path)] EXCEPT !.path = path, !.parent = owner(Front(path))]
    IN  [box |-> [e \in Range(stop) |-> filled(s.box[e].path, s.box[e])]
                 @@ [c \in {Id(path) : path \in new} |->
                       With(CHOOSE path \in new : Id(path) = c, LAMBDA path : filled(path, empty(path)))]
                 @@ s.box,
         heap |-> s.heap + Cardinality(new)]

\* FindHome, CreateChild and SubdivideBox for all particles of qs.
InsertParticlesInTree(p, s, qs, b) ==
    With(s, LAMBDA t : With(Stops(p, t, qs, b), LAMBDA stop :
        With(NewPaths(p, t, stop), LAMBDA new : Grown(p, t, stop, new))))

\* InsertParticlesInLeaf: it does not ask whether b is one.  Only those that do
\* not fit go down from it.
InsertParticlesInLeaf(p, s, qs, b) ==
    LET room == MAX_PARTICLES_PER_BOX - Cardinality(s.box[b].particles)
        fit  == IF Cardinality(qs) <= room THEN qs ELSE CHOOSE f \in SUBSET qs : Cardinality(f) = room
    IN  InsertParticlesInTree(p, Add(s, b, fit), qs \ fit, b)

Now(p) == [box |-> box, heap |-> heap[p]]
Update(p, s) == \E t \in {s} : box' = t.box /\ heap' = [heap EXCEPT ![p] = t.heap]

-----------------------------------------------------------------------------
Top(p)   == Head(todo[p])
Rest(p)  == Tail(todo[p])
Calls(p) == pc[p] = "merge" /\ todo[p] # <<>>
Do(p, tasks) == todo' = [todo EXCEPT ![p] = tasks]

Help(l, g, gp)      == [op |-> "help", local |-> l, global |-> g, gparent |-> gp]
Visit(l, gp)        == [op |-> "visit", local |-> l, gparent |-> gp]
InsertBox(l, gp)    == [op |-> "insert", local |-> l, gparent |-> gp]
RemoveBox(l, g, gp) == [op |-> "remove", local |-> l, global |-> g, gparent |-> gp]
Merge(qs, gp, k)    == [op |-> "merge", particles |-> qs, gparent |-> gp, k |-> k]
Extend(c, qs, gp)   == [op |-> "extend", child |-> c, particles |-> qs, gparent |-> gp]
List(b)             == [op |-> "list", box |-> b]
ListKids(b, k)      == [op |-> "list kids", box |-> b, k |-> k]

child_num(b) == Last(box[b].path)
Slot(gp, b)  == IF gp = NULL THEN Grid ELSE box[gp].children[child_num(b)]

\* FreeBoxes, InitPartition, ConstructLocalGrid; MergeLocalGrid begins.
ConstructLocalGrid(p) ==
    /\ pc[p] = "plant"
    /\ LET clear == [box |-> [b \in Boxes |-> IF b[1] = p THEN ZeroBox(b) ELSE box[b]], heap |-> 0]
           root  == <<p, 0>>
       IN  IF mine[p] = {} THEN Update(p, clear) /\ UNCHANGED todo
           ELSE /\ Update(p, InsertParticlesInTree(p, NewBox(p, clear, <<>>, NULL), mine[p], root))
                /\ Do(p, <<Help(root, Grid, NULL)>>)
    /\ childless' = [childless EXCEPT ![p] = <<>>]
    /\ parents' = [parents EXCEPT ![p] = NoParents]
    /\ Goto(p, "merge")
    /\ UNCHANGED <<Grid, mine, step, slips>>

\* The calls for the children of a local box, and SplitParticles: what MergeLocalParticles
\* does with the particles of each quarter.
InTurn(tasks, made) == FoldLeft(LAMBDA s, k : IF k \in made THEN Append(s, tasks[k]) ELSE s, <<>>, <<0, 1, 2, 3>>)
MergeKids(l, g) == InTurn([k \in Quarters |-> Visit(box[l].children[k], g)],
                          {k \in Quarters : box[l].children[k] # NULL})
SplitParticles(p, qs, gp) ==
    LET dist == [k \in Quarters |-> {q \in qs : Where(p, q)[Len(box[gp].path) + 1] = k}]
    IN  InTurn([k \in Quarters |-> Merge(dist[k], gp, k)], {k \in Quarters : dist[k] # {}})

\* MLGHelper looks at both boxes.
MLGHelper(p) ==
    /\ Calls(p) /\ Top(p).op = "help"
    /\ LET l == Top(p).local
           g == Top(p).global
       IN  Do(p, (IF g = NULL THEN <<InsertBox(l, Top(p).gparent)>>
                  ELSE IF box[g].type = "childless" THEN <<RemoveBox(l, g, Top(p).gparent)>>
                  ELSE IF box[l].type = "parent" THEN MergeKids(l, g)
                  ELSE SplitParticles(p, box[l].particles, g)) \o Rest(p))
    /\ UNCHANGED <<Grid, box, heap, mine, lists, pc, step, slips>>

\* The slot of a local box is read: at first, and again after a failure.
ReadSlot(p) ==
    /\ Calls(p) /\ Top(p).op = "visit"
    /\ Do(p, <<Help(Top(p).local, Slot(Top(p).gparent, Top(p).local), Top(p).gparent)>> \o Rest(p))
    /\ UNCHANGED <<Grid, box, heap, mine, lists, pc, step, slips>>

IsEmpty(gp, b) == Slot(gp, b) = NULL
\* InsertBoxInGrid under the lock of the parent, or the single lock for the root.
InsertBoxInGrid(p) ==
    /\ Calls(p) /\ Top(p).op = "insert"
    /\ LET b  == Top(p).local
           gp == Top(p).gparent
       IN  IF ~IsEmpty(gp, b)
           THEN Do(p, <<Visit(b, gp)>> \o Rest(p)) /\ UNCHANGED <<Grid, box>>
           ELSE /\ Do(p, <<List(b)>> \o Rest(p))
                /\ IF gp = NULL THEN Grid' = b /\ UNCHANGED box
                   ELSE /\ box' = [box EXCEPT ![gp].children[child_num(b)] = b,
                                              ![gp].num_children = @ + 1, ![b].parent = gp]
                        /\ UNCHANGED Grid
    /\ UNCHANGED <<heap, mine, lists, pc, step, slips>>

\* Nobody asks whether the box is still the leaf it was: others may have taken it
\* out, divided it and put it back meanwhile.
StillThere(gp, b) == Slot(gp, b) = b
TakenOut(gp, b) ==
    /\ torn' = IF StillThere(gp, b) /\ box[b].type = "parent" THEN torn \cup {b} ELSE torn
    /\ UNCHANGED missed
\* RemoveBoxFromGrid by process p, of a box other than the root.
Detach(p, gp, b) == [Now(p) EXCEPT !.box[gp].children[child_num(b)] = NULL,
                                   !.box[gp].num_children = @ - 1, !.box[b].parent = NULL]

\* MLGHelper takes a childless box out and adds its particles to its own.
RemoveBoxFromGrid(p) ==
    /\ Calls(p) /\ Top(p).op = "remove"
    /\ LET l  == Top(p).local
           g  == Top(p).global
           gp == Top(p).gparent
           s  == IF gp = NULL THEN Now(p) ELSE Detach(p, gp, g)
           qs == box[g].particles
       IN  IF ~StillThere(gp, g)
           THEN Do(p, <<Visit(l, gp)>> \o Rest(p)) /\ UNCHANGED <<Grid, box, heap>>
           ELSE /\ Grid' = IF gp = NULL THEN NULL ELSE Grid
                /\ Update(p, IF box[l].type = "parent" THEN InsertParticlesInTree(p, s, qs, l)
                             ELSE InsertParticlesInLeaf(p, s, qs, l))
                /\ Do(p, <<InsertBox(l, gp)>> \o Rest(p))
    /\ TakenOut(Top(p).gparent, Top(p).global)
    /\ UNCHANGED <<mine, lists, pc, step>>

\* MergeLocalParticles: the particles for one quarter of a box of the tree.
MergeLocalParticles(p) ==
    /\ Calls(p) /\ Top(p).op = "merge"
    /\ LET gp   == Top(p).gparent
           k    == Top(p).k
           qs   == Top(p).particles
           c    == box[gp].children[k]
           leaf == <<p, heap[p]>>
       IN  IF c = NULL
           THEN /\ Update(p, Add(NewBox(p, Now(p), Append(box[gp].path, k), gp), leaf, qs))
                /\ Do(p, <<InsertBox(leaf, gp)>> \o Rest(p))
           ELSE /\ Do(p, (IF box[c].type = "parent" THEN SplitParticles(p, qs, c)
                          ELSE <<Extend(c, qs, gp)>>) \o Rest(p))
                /\ UNCHANGED <<box, heap>>
    /\ UNCHANGED <<Grid, mine, lists, pc, step, slips>>

\* It takes the childless box out itself, adds to it, and puts the same box back;
\* if it is gone, a leaf of its own goes the way of MLGHelper.
ExtendLeaf(p) ==
    /\ Calls(p) /\ Top(p).op = "extend"
    /\ LET c  == Top(p).child
           gp == Top(p).gparent
           qs == Top(p).particles
           leaf == <<p, heap[p]>>
       IN  IF StillThere(gp, c)
           THEN /\ Update(p, InsertParticlesInLeaf(p, Detach(p, gp, c), qs, c))
                /\ Do(p, <<InsertBox(c, gp)>> \o Rest(p))
           ELSE /\ Update(p, Add(NewBox(p, Now(p), box[c].path, gp), leaf, qs))
                /\ Do(p, <<Visit(leaf, gp)>> \o Rest(p))
    /\ TakenOut(Top(p).gparent, Top(p).child)
    /\ UNCHANGED <<Grid, mine, lists, pc, step>>

\* InsertBoxInPartition, at the front of the list of its kind.
InsertBoxInPartition(p, b, part) ==
    IF box[b].type = "childless" THEN [part EXCEPT !.childless = <<b>> \o @]
    ELSE [part EXCEPT !.parents[Len(box[b].path)] = <<b>> \o @]
PartitionOf(p) == [childless |-> childless[p], parents |-> parents[p]]
SetPartition(p, part) == /\ childless' = [childless EXCEPT ![p] = part.childless]
                         /\ parents' = [parents EXCEPT ![p] = part.parents]

\* InsertSubtreeInPartition, after the lock is given back: boxes of the own heap.
ListBox(p) ==
    /\ Calls(p) /\ Top(p).op = "list"
    /\ LET b == Top(p).box IN
       /\ IF b[1] = p THEN SetPartition(p, InsertBoxInPartition(p, b, PartitionOf(p)))
          ELSE UNCHANGED lists
       /\ Do(p, (IF box[b].type = "parent" THEN <<ListKids(b, 0)>> ELSE <<>>) \o Rest(p))
    /\ UNCHANGED <<Grid, box, heap, mine, pc, step, slips>>

\* A child somebody has just taken out is found by its shadow, but not if another
\* one is in its place.
Shown(b, k) == IF box[b].children[k] # NULL THEN box[b].children[k] ELSE box[b].shadow[k]
ListKid(p) ==
    /\ Calls(p) /\ Top(p).op = "list kids"
    /\ LET b == Top(p).box
           k == Top(p).k
       IN  Do(p, (IF Shown(b, k) = NULL THEN <<>> ELSE <<List(Shown(b, k))>>)
                 \o (IF k = 3 THEN <<>> ELSE <<ListKids(b, k + 1)>>) \o Rest(p))
          /\ missed' = IF box[b].shadow[k] \in {NULL, Shown(b, k)} \/ box[b].shadow[k][1] # p THEN missed
                       ELSE missed \cup {box[b].shadow[k]}
    /\ UNCHANGED <<Grid, box, heap, mine, lists, pc, step, torn>>

Merged(p) == /\ pc[p] = "merge" /\ todo[p] = <<>>
             /\ Goto(p, "merged")
             /\ UNCHANGED <<Grid, box, heap, mine, lists, todo, step, slips>>

\* CleanupGrid: boxes that others have taken out or divided.
InGrid(b) == box[b].parent # NULL \/ b = Grid
CleanupGrid(p) ==
    /\ pc[p] = "cleanup"
    /\ LET keep == SelectSeq(childless[p], LAMBDA b : InGrid(b) /\ box[b].type = "childless")
           turned == SelectSeq(childless[p], LAMBDA b : InGrid(b) /\ box[b].type = "parent")
       IN  SetPartition(p, FoldSeq(LAMBDA b, part : InsertBoxInPartition(p, b, part),
                                   [childless |-> keep, parents |-> parents[p]], turned))
    /\ Goto(p, "colleagues")
    /\ UNCHANGED <<Grid, box, heap, mine, todo, step, slips>>

GridStep(p) ==
    \/ ConstructLocalGrid(p) \/ MLGHelper(p) \/ ReadSlot(p)
    \/ InsertBoxInGrid(p) \/ RemoveBoxFromGrid(p) \/ MergeLocalParticles(p) \/ ExtendLeaf(p)
    \/ ListBox(p) \/ ListKid(p) \/ Merged(p) \/ CleanupGrid(p)
=============================================================================
