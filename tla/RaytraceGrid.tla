---------------------------- MODULE RaytraceGrid ----------------------------
(***************************************************************************)
(* The hierarchy of uniform grids of raytrace: how it is built (cr.C,      *)
(* husetup.C) and how a ray walks through it (hutv.C, rayinfo in           *)
(* memory.C).                                                              *)
(***************************************************************************)
EXTENDS RaytraceGeometry

CONSTANTS
    hu_gridsize, hu_numbuckets, hu_max_prims_cell, hu_max_subdiv_level

MAX_SUBDIV_LEVEL == 3
MAX_RAYINFO == MAX_SUBDIV_LEVEL + 1
eps_t == 1                 \* less than the time between two crossings

Cells == hu_gridsize * hu_gridsize * hu_gridsize
Cell3D(id, n)    == <<id % n, (id \div n) % n, id \div (n * n)>>
IndxInc(n)       == <<1, n, n * n>>

-----------------------------------------------------------------------------
(* prims_in_box2: the elements whose boxes touch the box, in order.  Given *)
(* no elements it returns a pointer it has never set (`npepa == NULL' is   *)
(* no assignment), which may or may not be NULL.                           *)
InBox(list, b) ==
    SelectSeq(list, LAMBDA pe : \A k \in Axes : b.dnear[k] <= pe.bv.dfar[k] /\ b.dfar[k] >= pe.bv.dnear[k])
prims_in_box2(list, b, garbage) ==
    [list |-> InBox(list, b), null |-> list = <<>> /\ garbage]

(* subdiv_bintree halves the largest side of a block of cells, the first   *)
(* half rounded down, and bintree_lookup goes down to a cell.  A node is   *)
(* [p, n, pe], the cell is counted from the corner of the node.            *)
LongestSide(n) == IF n[1] >= n[2] /\ n[1] >= n[3] THEN 1 ELSE IF n[2] >= n[3] THEN 2 ELSE 3
HalfOf(btn, cellsize, first, garbage) ==
    LET k  == LongestSide(btn.n)
        n1 == btn.n[k] \div 2
        n  == [btn.n EXCEPT ![k] = IF first THEN n1 ELSE @ - n1]
        p  == [btn.p EXCEPT ![k] = IF first THEN @ ELSE @ + n1 * cellsize]
        b  == [dnear |-> p, dfar |-> [a \in Axes |-> p[a] + n[a] * cellsize]]
    IN  [p |-> p, n |-> n, pe |-> prims_in_box2(btn.pe.list, b, garbage)]
RECURSIVE bintree_lookup(_, _, _, _)
bintree_lookup(btn, ijk, cellsize, garbage) ==
    IF btn.n = <<1, 1, 1>> THEN btn.pe
    ELSE LET k     == LongestSide(btn.n)
             idiv  == btn.n[k] \div 2
             first == ijk[k] + 1 <= idiv
         IN  bintree_lookup(HalfOf(btn, cellsize, first, garbage),
                            IF first THEN ijk ELSE [ijk EXCEPT ![k] = @ - idiv], cellsize, garbage)

(* create_grid: the grid of a voxel of grid g.  A cell without a list is   *)
(* empty; the others are voxels in the hash table, and those with too many *)
(* elements get a grid of their own.                                       *)
Voxel(id, list) == [id |-> id, celltype |-> "GSM_VOXEL", cell |-> list]
CornerOf(v, g)  == Plus(g.min, Times(g.cellsize, Cell3D(v.id, g.n)))

insert_in_hashtable(table, v) == [table EXCEPT ![v.id % hu_numbuckets] = <<v>> \o @]
RECURSIVE create_grid(_, _, _)
create_grid(v, g, garbage) ==
    LET level  == g.subdiv_level + 1
        n      == hu_gridsize
        size   == g.cellsize \div n
        root   == [p |-> CornerOf(v, g), n |-> <<n, n, n>>,
                   pe |-> [list |-> v.cell, null |-> v.cell = <<>>]]
        ng     == [n |-> n, min |-> root.p, cellsize |-> size, subdiv_level |-> level]
        prims(id) == bintree_lookup(root, Cell3D(id, n), size, garbage)
        lists  == [id \in 0 .. Cells - 1 |-> prims(id)]
        voxel(id) ==
            IF Len(lists[id].list) > hu_max_prims_cell /\ level < hu_max_subdiv_level
            THEN [id |-> id, celltype |-> "GSM_GRID",
                  cell |-> create_grid(Voxel(id, lists[id].list), ng, garbage)]
            ELSE Voxel(id, lists[id].list)
        step(grid, id) ==
            IF lists[id].null THEN [grid EXCEPT !.emptycells = @ \cup {id}]
            ELSE [grid EXCEPT !.hashtable = insert_in_hashtable(@, voxel(id))]
    IN  FoldLeft(step,
            [n |-> n, min |-> root.p, cellsize |-> size, subdiv_level |-> level, num_buckets |-> hu_numbuckets,
             emptycells |-> {}, hashtable |-> [b \in 0 .. hu_numbuckets - 1 |-> <<>>]],
            [i \in 1 .. Cells |-> i - 1])

(* BuildHierarchy_Uniform: a grid of a single cell, the unit cube, that    *)
(* holds the grid of all elements.                                         *)
MakeElementArray(objects) == FoldLeft(LAMBDA list, o : list \o o.elems, <<>>, objects)
World == [n |-> 1, min |-> <<0, 0, 0>>, cellsize |-> Unit, subdiv_level |-> -1]
BuildHierarchy_Uniform(objects, garbage) ==
    LET v == Voxel(0, MakeElementArray(objects))
    IN  [n |-> 1, min |-> World.min, cellsize |-> Unit, subdiv_level |-> -1, num_buckets |-> 1,
         emptycells |-> {},
         hashtable |-> [b \in {0} |-> <<[id |-> 0, celltype |-> "GSM_GRID", cell |-> create_grid(v, World, garbage)]>>]]

-----------------------------------------------------------------------------
(* A ray on its way: the stack of its places in the grids, [grid, index3D, *)
(* index1D, t_in, t_out, entry_plane, exit_plane, d, delta], the innermost *)
(* first.  d are the times at which it leaves the cell along each axis.    *)
(* Along an axis it does not move on it never does: HUGE, and HUGE plus or *)
(* divided by anything else.                                               *)
RECURSIVE next_voxel(_, _), next_nonempty_voxel(_, _), EnterLeaf(_, _),
          HitFrom(_, _), ShadowFrom(_, _, _, _, _)

Later(t, dt)   == IF dt = HUGE THEN HUGE ELSE t + dt
Part(dt, n)    == IF dt = HUGE THEN HUGE ELSE dt \div n
Forward(r, k)  == IF r.D[k] >= 0 THEN 1 ELSE -1

\* The axis along which the ray leaves first.
Soonest(d) ==
    LET small == IF d[1] <= d[2] THEN 1 ELSE 2
    IN  IF d[small] <= d[3] THEN small ELSE 3

\* Where a ray passes the six planes of a cell: the times along each axis,
\* the last entry and the first exit.
PlaneTime(r, k, at) == Quot((at - r.P[k]) * r.q, r.D[k])
Slab(r, k, min, size) ==
    IF r.D[k] = 0
    THEN IF r.P[k] >= min[k] /\ r.P[k] <= min[k] + size THEN <<-HUGE, HUGE>> ELSE <<HUGE, HUGE>>
    ELSE IF r.D[k] > 0 THEN <<PlaneTime(r, k, min[k]), PlaneTime(r, k, min[k] + size)>>
    ELSE <<PlaneTime(r, k, min[k] + size), PlaneTime(r, k, min[k])>>
FirstAxis(S) == CHOOSE k \in S : \A j \in S : k <= j
Crossing(r, min, size) ==
    LET slabs == Triple([k \in Axes |-> Slab(r, k, min, size)])
        i_in  == FirstAxis({k \in Axes : \A j \in Axes : slabs[j][1] <= slabs[k][1]})
        i_out == FirstAxis({k \in Axes : \A j \in Axes : slabs[j][2] >= slabs[k][2]})
    IN  [t_in |-> slabs[i_in][1], entry_plane |-> i_in, t_out |-> slabs[i_out][2], exit_plane |-> i_out,
         d |-> <<slabs[1][2], slabs[2][2], slabs[3][2]>>]

\* The walk: [ri, v, status], v the voxel it is in.
Walking(ri, v) == [ri |-> ri, v |-> v, status |-> "IN_WORLD"]
Exited == [ri |-> <<>>, v |-> Voxel(0, <<>>), status |-> "EXITED_WORLD"]
Fatal  == [ri |-> <<>>, v |-> Voxel(0, <<>>), status |-> "ERROR"]

(* lookup_hashtable: an error exit when the chain ends.                    *)
lookup_hashtable(ri) ==
    LET g     == ri[1].grid
        chain == SelectSeq(g.hashtable[ri[1].index1D % g.num_buckets], LAMBDA v : v.id = ri[1].index1D)
    IN  IF chain = <<>> THEN Fatal ELSE Walking(ri, chain[1])
lookup_emptycells(ri) == ri[1].index1D \in ri[1].grid.emptycells

(* push_down_grid: into the grid of the voxel the ray is in.  From outside *)
(* the voxel it enters through the plane it has crossed, and the times of  *)
(* the other axes are those of the voxel modulo the smaller cells; from    *)
(* inside they are found anew.                                             *)
Where(r, ti, new_g) ==
    LET cell(k) == (((r.q * (r.P[k] - new_g.min[k])) + ti * r.D[k])) \div (r.q * new_g.cellsize)
    IN  Triple([k \in Axes |-> IF cell(k) < 0 THEN 0 ELSE IF cell(k) >= new_g.n THEN new_g.n - 1 ELSE cell(k)])
EnterThrough(old, delta) ==
    LET rest(k) == (old.d[k] - old.t_in) % delta[k]
        d == Triple([k \in Axes |->
                IF k = old.entry_plane \/ delta[k] = HUGE \/ rest(k) <= eps_t THEN Later(old.t_in, delta[k])
                ELSE old.t_in + rest(k)])
    IN  [t_in |-> old.t_in, entry_plane |-> old.entry_plane, d |-> d,
         t_out |-> d[Soonest(d)], exit_plane |-> Soonest(d)]
push_down_grid(r, ri, new_g) ==
    LET old     == ri[1]
        outside == old.t_in >= 0
        delta   == Triple([k \in Axes |-> Part(old.delta[k], new_g.n)])
        index   == Where(r, IF outside THEN old.t_in + eps_t ELSE 0, new_g)
        min     == Plus(new_g.min, Times(new_g.cellsize, index))
        times   == IF outside THEN EnterThrough(old, delta) ELSE Crossing(r, min, new_g.cellsize)
    IN  [grid |-> new_g, index3D |-> index, index1D |-> Dot(index, IndxInc(new_g.n)), delta |-> delta,
         t_in |-> times.t_in, entry_plane |-> times.entry_plane, d |-> times.d,
         t_out |-> times.t_out, exit_plane |-> times.exit_plane]
OriginNotInVoxel(old, new) == old.t_in < 0 /\ (new.t_in > new.t_out \/ new.t_out < 0)

(* step_grid: into the next cell, unless that is outside the grid.         *)
step_grid(r, i) ==
    LET k == i.exit_plane
        d == [i.d EXCEPT ![k] = @ + i.delta[k]]
    IN  [i EXCEPT !.t_in = i.t_out, !.entry_plane = k,
                  !.index3D[k] = @ + Forward(r, k),
                  !.index1D = @ + Forward(r, k) * IndxInc(i.grid.n)[k],
                  !.d = d, !.t_out = d[Soonest(d)], !.exit_plane = Soonest(d)]
OffGrid(i) == \E k \in Axes : i.index3D[k] \notin 0 .. i.grid.n - 1

\* next_voxel: off the grid, on from the voxel around it.
next_voxel(r, ri) ==
    LET i == step_grid(r, ri[1])
    IN  IF ~OffGrid(i) THEN <<i>> \o Tail(ri)
        ELSE IF i.grid.subdiv_level # 0 THEN next_voxel(r, Tail(ri))
        ELSE <<>>
next_nonempty_voxel(r, ri) ==
    LET next == next_voxel(r, ri)
    IN  IF next = <<>> THEN Exited
        ELSE IF lookup_emptycells(next) THEN next_nonempty_voxel(r, next)
        ELSE lookup_hashtable(next)

\* next_nonempty_leaf; EnterLeaf is its loop, from the voxel it is in.
EnterLeaf(r, w) ==
    IF w.status # "IN_WORLD" \/ w.v.celltype # "GSM_GRID" THEN w
    ELSE LET new == push_down_grid(r, w.ri, w.v.cell)
             ri  == <<new>> \o w.ri
         IN  IF Len(ri) > MAX_RAYINFO + 1 \/ OriginNotInVoxel(w.ri[1], new) THEN Fatal
             ELSE IF lookup_emptycells(ri) THEN EnterLeaf(r, next_nonempty_voxel(r, ri))
             ELSE EnterLeaf(r, lookup_hashtable(ri))
next_nonempty_leaf(r, ri) == EnterLeaf(r, next_nonempty_voxel(r, ri))

(* init_ray: into the world.                                               *)
InWorld(r, g, times) ==
    [grid |-> g, index3D |-> <<0, 0, 0>>, index1D |-> 0,
     delta |-> Triple([k \in Axes |-> IF r.D[k] = 0 THEN HUGE ELSE (g.cellsize * r.q) \div Size(r.D[k])]),
     t_in |-> times.t_in, entry_plane |-> times.entry_plane, d |-> times.d,
     t_out |-> times.t_out, exit_plane |-> times.exit_plane]
init_ray(r, g) ==
    LET times == Crossing(r, g.min, g.cellsize)
    IN  IF times.t_in >= times.t_out \/ times.t_out < 0 THEN Exited
        ELSE EnterLeaf(r, lookup_hashtable(<<InWorld(r, g, times)>>))

-----------------------------------------------------------------------------
(* TT_HUG.  A hit counts in the cell that the ray is in.                   *)
HitAnywhere(r, w) ==       \* mutant: the hit may lie behind the cell
    FoldLeft(LAMBDA best, pe : Nearer(best, PeIntersect(r, pe)), NoHit, w.v.cell)
IntersectHuniformPrimlist(r, w) ==
    FoldLeft(LAMBDA best, pe :
        LET hits == PeIntersect(r, pe)
        IN  IF hits # <<>> /\ hits[1].t < w.ri[1].t_out THEN Nearer(best, hits) ELSE best,
        NoHit, w.v.cell)

\* TraverseHierarchyUniform, from where the walk stands.
HitFrom(r, w) ==
    CASE w.status = "EXITED_WORLD" -> NoHit
      [] w.status = "ERROR" -> [NoHit EXCEPT !.t = -1]
      [] OTHER -> LET hit == IntersectHuniformPrimlist(r, w)
                  IN  IF hit # NoHit THEN hit ELSE HitFrom(r, next_nonempty_leaf(r, w.ri))
TraverseHierarchyUniform(r, g) == HitFrom(r, init_ray(r, g))

\* HuniformShadowIntersect: an element counts in every cell it touches.
NoLight == -1        \* the walk fails
ShadowFrom(r, w, lightlength, pe, trans) ==
    CASE trans = 0 \/ w.status = "EXITED_WORLD" -> trans
      [] w.status = "ERROR" -> NoLight
      [] OTHER ->
           ShadowFrom(r, next_nonempty_leaf(r, w.ri), lightlength, pe,
               FoldLeft(LAMBDA tr, pe2 :
                   LET hits == PeIntersect(r, pe2)
                   IN  IF tr > 0 /\ hits # <<>> /\ hits[1].pelem # pe /\ hits[1].t < lightlength
                       THEN Through(tr, pe2.parent.surf) ELSE tr,
                   trans, w.v.cell))
HuniformShadowIntersect(r, g, lightlength, pe) == ShadowFrom(r, init_ray(r, g), lightlength, pe, Full)
=============================================================================
