----------------------------- MODULE BarnesTree -----------------------------
(***************************************************************************)
(* barnes: the processes build one tree of cells and leaves over the       *)
(* bodies (maketree, loadtree, SubdivideLeaf in load.C), then compute      *)
(* masses and costs from the leaves up (hackcofm), a process waiting on    *)
(* the Done flags of the cells of others.                                  *)
(*                                                                         *)
(* Slots of a cell (Subp) are read without its lock while others, holding  *)
(* it, change them: each such read is a step, and so is what is done under *)
(* the lock.  Mass, cost and position of a node are one sum over a bag of  *)
(* bodies; what is kept is that bag, and the cost.  The fields of a body   *)
(* that nothing reads (Parent, Level, ChildNum) are left out.              *)
(***************************************************************************)
EXTENDS Integers, Sequences, FiniteSets, BagsExt, SequencesExt

CONSTANTS
    NPROC, NBody,
    NDIM,                   \* dimensions of space
    MaxLevel,               \* MAXLEVEL: bits of an integer coordinate
    MAX_BODIES_PER_LEAF,
    MAXLOCK,                \* locks, shared by the cells
    maxmycell, maxmyleaf,   \* cells and leaves of each process
    Mass                    \* of each body

Procs  == 0 .. NPROC - 1
Bodies == 1 .. NBody
Dims   == 1 .. NDIM
NSUB   == 2^NDIM
Subs   == 0 .. NSUB - 1
IMAX   == 2^MaxLevel
Cells  == {"cell"} \X Procs \X (0 .. maxmycell - 1)
Leaves == {"leaf"} \X Procs \X (0 .. maxmyleaf - 1)
Nodes  == Cells \cup Leaves
NULL   == <<"null", 0, 0>>
Nobody == NPROC             \* holds a lock nobody holds
G_root == <<"cell", 0, 0>>

TreeAssumption ==
    /\ {NPROC, NBody, NDIM, MaxLevel, MAX_BODIES_PER_LEAF, MAXLOCK} \subseteq Nat \ {0}
    /\ {maxmycell, maxmyleaf} \subseteq Nat \ {0}
    /\ Mass \in [Bodies -> Nat]

VARIABLES
    subp, level, parent,    \* Subp, Level, Parent
    bodyp,                  \* Bodyp and num_bodies of a leaf
    sum, cost, done,        \* the bodies in Mass and Pos of a node, Cost, Done
    lock,                   \* CellLock->CL: who holds it
    mynumcell, mynumleaf, mycelltab, myleaftab,
    mybodytab,              \* the bodies of each process
    hint,                   \* Current_Root and Root_Coords
    pos, bcost,             \* Pos (through the box, see xp) and Cost of a body
    box,                    \* rmin and rsize: corner and side of the root
    pc, at,                 \* where each process is, and in which slot
    halted                  \* error() has ended the program

shape   == <<subp, level, parent, bodyp>>
moments == <<sum, cost, done>>
tabs    == <<mynumcell, mynumleaf, mycelltab, myleaftab>>
world   == <<mybodytab, pos, bcost, box>>
treeVars == <<shape, moments, tabs, world, lock, hint, pc, at, halted>>

Goto(p, label) == pc' = [pc EXCEPT ![p] = label]
IsLeaf(n) == n[1] = "leaf"
Bit(x, l) == (x \div l) % 2
BagOf(s) == FoldSeq(LAMBDA b, B : B (+) SetToBag({b}), EmptyBag, s)

\* intcoord: the box is wider than its side by a fifty-thousandth, a
\* hundred-thousandth on either side.
xp(b) == [k \in Dims |-> (IMAX * (100000 * (pos[b][k] - box.min[k]) + box.side))
                            \div (100002 * box.side)]

\* subindex: neighbours in this order differ in one coordinate.
subindex(x, l) ==
    LET yes[k \in 0 .. NDIM] == IF k = 0 THEN 0 ELSE (yes[k-1] + Bit(x[k], l)) % 2
    IN  FoldFunction(+, 0, [k \in Dims |-> yes[k] * (NSUB \div 2^k)])

Slot(p)   == subp[at[p].cell][at[p].kid]
LockOf(c) == (c[2] * maxmycell + c[3]) % MAXLOCK       \* seqnum % MAXLOCK

-----------------------------------------------------------------------------
(* Cells and leaves are taken from the end of the process' own table.      *)

NewLeaf(p) == <<"leaf", p, mynumleaf[p]>>
NewCell(p) == <<"cell", p, mynumcell[p]>>
\* InitCell, InitLeaf: a node under cell c.
InitNode(c) == [level |-> level[c] \div 2, parent |-> c]

Error == /\ halted' = TRUE
         /\ UNCHANGED <<shape, moments, tabs, world, lock, hint, pc, at>>

-----------------------------------------------------------------------------
(* loadtree *)

BeginMaketree(p) ==
    /\ pc[p] = "maketree"
    /\ mycelltab' = [mycelltab EXCEPT ![p] = IF p = 0 THEN <<G_root>> ELSE <<>>]
    /\ myleaftab' = [myleaftab EXCEPT ![p] = <<>>]
    /\ hint' = [hint EXCEPT ![p].cell = G_root]
    /\ at' = [at EXCEPT ![p].i = 1]
    /\ Goto(p, "next")
    /\ UNCHANGED <<shape, moments, mynumcell, mynumleaf, world, lock, halted>>

Skipped(p) == at[p].i <= Len(mybodytab[p]) /\ Mass[mybodytab[p][at[p].i]] = 0
Body(p) == mybodytab[p][at[p].i]

\* A body of no mass is left out; any other goes down from the root.
NextBody(p) ==
    /\ pc[p] = "next"
    /\ IF at[p].i > Len(mybodytab[p])
       THEN Goto(p, "loaded") /\ UNCHANGED at
       ELSE IF Skipped(p) THEN at' = [at EXCEPT ![p].i = @ + 1] /\ UNCHANGED pc
       ELSE /\ at' = [at EXCEPT ![p].cell = G_root, ![p].l = level[G_root] \div 2,
                                ![p].kid = subindex(xp(Body(p)), level[G_root])]
            /\ Goto(p, "empty?")
    /\ UNCHANGED <<shape, moments, tabs, world, lock, hint, halted>>

TestEmpty(p) ==
    /\ pc[p] = "empty?"
    /\ IF at[p].l = 0 THEN Error      \* not enough levels in tree
       ELSE /\ Goto(p, IF Slot(p) = NULL THEN "lock empty" ELSE "leaf?")
            /\ UNCHANGED <<shape, moments, tabs, world, lock, hint, at, halted>>

TestLeaf(p) ==
    /\ pc[p] = "leaf?"
    /\ Goto(p, IF IsLeaf(Slot(p)) THEN "lock leaf" ELSE "down")
    /\ UNCHANGED <<shape, moments, tabs, world, lock, hint, at, halted>>

NotHeld(p) == FALSE                   \* mutant: nobody waits for the lock
Held(p) == lock[LockOf(at[p].cell)] # Nobody
ALOCK(p) ==
    /\ pc[p] \in {"lock empty", "lock leaf"}
    /\ ~Held(p)
    /\ lock' = [lock EXCEPT ![LockOf(at[p].cell)] = p]
    /\ Goto(p, IF pc[p] = "lock empty" THEN "fill" ELSE "join")
    /\ UNCHANGED <<shape, moments, tabs, world, hint, at, halted>>

AULOCK(p) == lock' = [lock EXCEPT ![LockOf(at[p].cell)] = Nobody]

\* Only an empty slot gets a new leaf; if it is not empty any more, go on.
Fill(p) ==
    /\ pc[p] = "fill"
    /\ IF Slot(p) # NULL
       THEN /\ AULOCK(p) /\ Goto(p, "leaf?")
            /\ UNCHANGED <<shape, moments, tabs, world, hint, at, halted>>
       ELSE IF mynumleaf[p] = maxmyleaf THEN Error
       ELSE LET le == NewLeaf(p) IN
            /\ bodyp' = [bodyp EXCEPT ![le] = <<Body(p)>>]
            /\ level' = [level EXCEPT ![le] = InitNode(at[p].cell).level]
            /\ parent' = [parent EXCEPT ![le] = InitNode(at[p].cell).parent]
            /\ sum' = [sum EXCEPT ![le] = EmptyBag]
            /\ done' = [done EXCEPT ![le] = FALSE]
            /\ mynumleaf' = [mynumleaf EXCEPT ![p] = @ + 1]
            /\ myleaftab' = [myleaftab EXCEPT ![p] = Append(@, le)]
            /\ subp' = [subp EXCEPT ![at[p].cell][at[p].kid] = le]
            /\ AULOCK(p) /\ Goto(p, "return")
            /\ UNCHANGED <<cost, mynumcell, mycelltab, world, hint, at, halted>>

\* SubdivideLeaf: the bodies of a full leaf under the slots of a new cell; the
\* leaf itself is emptied and used again, in the slot of its first body.
KidsOf(bs, l) == {subindex(xp(bs[i]), l) : i \in DOMAIN bs}
InKid(bs, l, k) == SelectSeq(bs, LAMBDA b : subindex(xp(b), l) = k)
NewKids(bs, l) ==        \* those other than the first body's, in the order met
    LET ks == [i \in DOMAIN bs |-> subindex(xp(bs[i]), l)]
        first == SelectSeq([i \in DOMAIN bs |-> i],
                           LAMBDA i : \A j \in 1 .. i - 1 : ks[j] # ks[i])
    IN  Tail([n \in DOMAIN first |-> ks[first[n]]])
Split(p, le, l, c, fresh) ==
    LET bs   == bodyp[le]
        k1   == subindex(xp(bs[1]), l)
        more == NewKids(bs, l)
        new  == {fresh[n] : n \in DOMAIN fresh}
        KidLeaf(k) == IF k = k1 THEN le ELSE fresh[CHOOSE n \in DOMAIN more : more[n] = k]
    IN  /\ subp' = [subp EXCEPT ![c] = [k \in Subs |->
                       IF k \in KidsOf(bs, l) THEN KidLeaf(k) ELSE NULL]]
        /\ bodyp' = [n \in Leaves |->
                       IF \E k \in KidsOf(bs, l) : n = KidLeaf(k)
                       THEN InKid(bs, l, CHOOSE k \in KidsOf(bs, l) : n = KidLeaf(k))
                       ELSE bodyp[n]]
        /\ level' = [n \in Nodes |-> IF n = c THEN InitNode(at[p].cell).level
                                     ELSE IF n = le \/ n \in new THEN l \div 2 ELSE level[n]]
        /\ parent' = [n \in Nodes |-> IF n = c THEN InitNode(at[p].cell).parent
                                      ELSE IF n = le \/ n \in new THEN c ELSE parent[n]]
        /\ sum' = [n \in Nodes |-> IF n = c \/ n \in new THEN EmptyBag ELSE sum[n]]
        /\ done' = [n \in Nodes |-> IF n = c \/ n \in new THEN FALSE ELSE done[n]]

\* At a leaf: join it, or first put a cell in its place when it is full.
Join(p) ==
    /\ pc[p] = "join"
    /\ LET le == Slot(p) IN
       IF ~IsLeaf(le)
       THEN /\ AULOCK(p) /\ Goto(p, "down")
            /\ UNCHANGED <<shape, moments, tabs, world, hint, at, halted>>
       ELSE IF Len(bodyp[le]) < MAX_BODIES_PER_LEAF
       THEN /\ bodyp' = [bodyp EXCEPT ![le] = Append(@, Body(p))]
            /\ AULOCK(p) /\ Goto(p, "return")
            /\ UNCHANGED <<subp, level, parent, moments, tabs, world, hint, at, halted>>
       ELSE LET more  == NewKids(bodyp[le], at[p].l)
                fresh == [n \in DOMAIN more |-> <<"leaf", p, mynumleaf[p] + n - 1>>]
            IN  IF mynumcell[p] = maxmycell \/ mynumleaf[p] + Len(more) > maxmyleaf THEN Error
                ELSE /\ Split(p, le, at[p].l, NewCell(p), fresh)
                     /\ mynumcell' = [mynumcell EXCEPT ![p] = @ + 1]
                     /\ mycelltab' = [mycelltab EXCEPT ![p] = Append(@, NewCell(p))]
                     /\ mynumleaf' = [mynumleaf EXCEPT ![p] = @ + Len(more)]
                     /\ myleaftab' = [myleaftab EXCEPT ![p] = @ \o fresh]
                     /\ at' = [at EXCEPT ![p].new = NewCell(p)]
                     /\ Goto(p, "publish")
                     /\ UNCHANGED <<cost, world, lock, hint, halted>>

\* *qptr = SubdivideLeaf(..), and the lock is given back.
Publish(p) ==
    /\ pc[p] = "publish"
    /\ subp' = [subp EXCEPT ![at[p].cell][at[p].kid] = at[p].new]
    /\ AULOCK(p) /\ Goto(p, "down")
    /\ UNCHANGED <<level, parent, bodyp, moments, tabs, world, hint, at, halted>>

Down(p) ==
    /\ pc[p] = "down"
    /\ at' = [at EXCEPT ![p].cell = Slot(p), ![p].l = at[p].l \div 2,
                        ![p].kid = subindex(xp(Body(p)), at[p].l)]
    /\ Goto(p, "empty?")
    /\ UNCHANGED <<shape, moments, tabs, world, lock, hint, halted>>

\* The node in the slot and its parent are read with no lock held.
Return(p) ==
    /\ pc[p] = "return"
    /\ hint' = [hint EXCEPT ![p] = [cell |-> parent[Slot(p)], x |-> xp(Body(p))]]
    /\ at' = [at EXCEPT ![p].i = @ + 1]
    /\ Goto(p, "next")
    /\ UNCHANGED <<shape, moments, tabs, world, lock, halted>>

-----------------------------------------------------------------------------
(* hackcofm *)

\* The leaves of a process, the last first, on nobody but itself.
LeafCofm(p) ==
    /\ pc[p] = "leaves"
    /\ IF at[p].i = 0 THEN Goto(p, "cells") /\ at' = [at EXCEPT ![p].i = Len(mycelltab[p]),
                                                                ![p].kid = 0, ![p].l = 0]
                           /\ UNCHANGED moments
       ELSE LET le == myleaftab[p][at[p].i] IN
            /\ sum' = [sum EXCEPT ![le] = BagOf(bodyp[le])]
            /\ cost' = [cost EXCEPT ![le] = FoldSeq(LAMBDA b, c : c + bcost[b], 0, bodyp[le])]
            /\ done' = [done EXCEPT ![le] = TRUE]
            /\ at' = [at EXCEPT ![p].i = @ - 1]
            /\ UNCHANGED pc
    /\ UNCHANGED <<shape, tabs, world, lock, hint, halted>>

\* The cells, the last first; a child is awaited and its flag taken back.
Cell(p)  == mycelltab[p][at[p].i]
Child(p) == subp[Cell(p)][at[p].kid]
ReadyAtOnce(n) == TRUE                \* mutant: a child is not awaited
Ready(n) == done[n]

BeginCell(p) ==
    /\ pc[p] = "cells"
    /\ IF at[p].i = 0 THEN Goto(p, "summed") /\ UNCHANGED moments
       ELSE /\ sum' = [sum EXCEPT ![Cell(p)] = EmptyBag]
            /\ cost' = [cost EXCEPT ![Cell(p)] = 0]
            /\ Goto(p, "child") /\ UNCHANGED done
    /\ UNCHANGED <<shape, tabs, world, lock, hint, at, halted>>

AddChild(p) ==
    /\ pc[p] = "child" /\ at[p].kid < NSUB
    /\ IF Child(p) = NULL THEN UNCHANGED moments
       ELSE /\ Ready(Child(p))
            /\ sum' = [sum EXCEPT ![Cell(p)] = @ (+) sum[Child(p)]]
            /\ cost' = [cost EXCEPT ![Cell(p)] = @ + cost[Child(p)]]
            /\ done' = [done EXCEPT ![Child(p)] = FALSE]
    /\ at' = [at EXCEPT ![p].kid = @ + 1]
    /\ UNCHANGED <<shape, tabs, world, lock, hint, pc, halted>>

Spin(p) == /\ pc[p] = "child" /\ at[p].kid < NSUB
           /\ Child(p) # NULL /\ ~Ready(Child(p))
           /\ UNCHANGED treeVars

EndCell(p) ==
    /\ pc[p] = "child" /\ at[p].kid = NSUB
    /\ done' = [done EXCEPT ![Cell(p)] = TRUE]
    /\ at' = [at EXCEPT ![p].kid = 0, ![p].i = @ - 1]
    /\ Goto(p, "cells")
    /\ UNCHANGED <<shape, sum, cost, tabs, world, lock, hint, halted>>

TreeStep(p) ==
    \/ BeginMaketree(p) \/ NextBody(p) \/ TestEmpty(p) \/ TestLeaf(p) \/ ALOCK(p)
    \/ Fill(p) \/ Join(p) \/ Publish(p) \/ Down(p) \/ Return(p)
    \/ LeafCofm(p) \/ BeginCell(p) \/ AddChild(p) \/ Spin(p) \/ EndCell(p)
=============================================================================
