----------------------------- MODULE MCRaytrace -----------------------------
(***************************************************************************)
(* A small scene: a mirror floor, a tetrahedron, two spheres of glass and  *)
(* a window of two triangles with vertex normals, half mirror and half     *)
(* glass.  And what the pools take from the scene: that the hierarchy of   *)
(* grids changes nothing.                                                  *)
(***************************************************************************)
EXTENDS RaytraceWorkPool, RaytraceTrace

Surface(kspec, ktran) == [kspec |-> kspec, ktran |-> ktran, kn2 |-> <<1, 1>>]

MCGeoFile == <<
    [prim |-> "poly", surf |-> Surface(2, 0), normals |-> <<>>,
     verts |-> << <<0, 1, 0>>, <<6, 1, 0>>, <<6, 1, 6>>, <<0, 1, 6>> >>,
     elems |-> << <<1, 2, 3, 4>> >>],
    [prim |-> "tri", surf |-> Surface(0, 0), normals |-> <<>>,
     verts |-> << <<1, 2, 1>>, <<1, 4, 1>>, <<3, 2, 1>>, <<1, 2, 3>> >>,
     elems |-> << <<1, 2, 3>>, <<1, 3, 4>>, <<1, 4, 2>>, <<2, 3, 4>> >>],
    [prim |-> "sph", surf |-> Surface(0, 4), normals |-> <<>>, verts |-> <<>>,
     elems |-> <<[center |-> <<4, 4, 4>>, rad |-> 1], [center |-> <<5, 2, 3>>, rad |-> 1]>>],
    [prim |-> "tri", surf |-> Surface(2, 2), normals |-> [n \in 1 .. 4 |-> <<0, 0, -1>>],
     verts |-> << <<3, 1, 2>>, <<5, 1, 2>>, <<3, 4, 2>>, <<5, 4, 2>> >>,
     elems |-> << <<1, 2, 3>>, <<2, 4, 3>> >>] >>

MCModel == << <<1, 0, 0>>, <<0, 1, 0>>, <<0, 0, 1>>, <<0, 0, 0>> >>
MCLights == <<[pos |-> <<5, 5, 0>>, shadow |-> FALSE], [pos |-> <<0, 5, 0>>, shadow |-> TRUE]>>

MCView   == [eye |-> <<2, 5, -4>>, coi |-> <<2, 5, 3>>, projection |-> "PT_PERSP", shad |-> TRUE]
MCScreen == [scrHalfWidth |-> 2, scrHalfHeight |-> -3, scrDist |-> 4, vWscale |-> 1, vHscale |-> 1]

\* From outside, from inside and from the corners, in many directions.
MCTestRays == {Ray(p, d) :
    p \in {<<-20, 10, 14>>, <<60, 82, -26>>, <<144, 100, 40>>, <<5, 7, 9>>, <<41, 43, 45>>, <<51, 18, 80>>,
           <<0, 0, 0>>, <<72, 72, 72>>},
    d \in {v \in (-1 .. 2) \X (-2 .. 2) \X (-2 .. 1) : v # <<0, 0, 0>>}}

-----------------------------------------------------------------------------
SceneOf(how, objs, grid) == [TraversalType |-> how, objects |-> objs, hierarchy |-> grid, lights |-> TransformLights]
MCColors(objs, grid, pixel) == PixelColors(SceneOf("TT_HUG", objs, grid), pixel)

(* The walk through the grids finds what a ray meets first, and what lies  *)
(* between it and a light, as the walk over the list of all objects does.  *)
(* There are three exceptions: a hit at the very end of the unit cube does *)
(* not lie before the end of any cell; a ray that crosses two planes of    *)
(* the grids at once may be led through cells it does not touch; and an    *)
(* element that lets part of the light through takes it again in every     *)
(* cell it lies in, and with every element of its object, where the list   *)
(* takes it once per object (husetup.C:215, isect.C:107): what reaches a   *)
(* point of a light is then less, but not nothing unless it should be.     *)
(* But for that the picture is the one that TT_LIST would give.            *)
CrossingTimes(r, k) ==
    LET cell == Unit \div hu_gridsize ^ (hu_max_subdiv_level + 1)
    IN  IF r.D[k] = 0 THEN {} ELSE {PlaneTime(r, k, cell * m) : m \in 0 .. Unit \div cell}
CrossesOneByOne(r) ==
    \A j, k \in Axes : j < k => \A t \in CrossingTimes(r, j) \cap CrossingTimes(r, k) : t < 0
\* The cells a ray goes through, and what of the scene it passes: an element
\* that lets some of the light through is met once if it lies in one of the
\* cells and is the only one of its object.
RECURSIVE LeavesFrom(_, _)
LeavesFrom(r, w) ==
    IF w.status # "IN_WORLD" THEN <<>> ELSE <<w.v.cell>> \o LeavesFrom(r, next_nonempty_leaf(r, w.ri))
Passed(r, o, length) == {e \in Range(o.elems) : \E hit \in Range(PeIntersect(r, e)) : hit.t < length}
MetOnce(r, length) ==
    \A o \in Range(objects) : o.surf.ktran \in 1 .. Clear - 1 =>
        /\ Cardinality(Passed(r, o, length)) <= 1
        /\ \A e \in Passed(r, o, length) :
             Len(SelectSeq(LeavesFrom(r, init_ray(r, hierarchy)), LAMBDA cell : e \in Range(cell))) = 1
WorldEnd(r) == Crossing(r, World.min, World.cellsize).t_out

Dimmer(grids, list) == grids <= list /\ (grids > 0) = (list > 0)
SameButDimmer(colors, list) ==
    /\ DOMAIN colors = DOMAIN list
    /\ \A n \in DOMAIN list :
        /\ [colors[n] EXCEPT !.lit = <<>>] = [list[n] EXCEPT !.lit = <<>>]
        /\ \A light \in DOMAIN list[n].lit : Dimmer(colors[n].lit[light], list[n].lit[light])

HierarchyExact ==
    /\ hierarchy # <<>> =>
         \A r \in MCTestRays :
            LET hit == Intersect(r, objects)
            IN  CrossesOneByOne(r) =>
                  /\ TraverseHierarchyUniform(r, hierarchy) = IF hit.t >= WorldEnd(r) THEN NoHit ELSE hit
                  /\ \A length \in {hit.t, Least(hit.t + 1, HUGE), HUGE} :
                       \A grids \in {HuniformShadowIntersect(r, hierarchy, length, NoHit.pelem)},
                          list \in {ShadowIntersect(r, objects, length, NoHit.pelem)} :
                         IF MetOnce(r, length) THEN grids = list ELSE Dimmer(grids, list)
    /\ picture # <<>> /\ MainAlone /\ calls = 0 =>
         \A pixel \in Pixels : SameButDimmer(picture[pixel], PixelColors(SceneOf("TT_LIST", ReadGeoFile, <<>>), pixel))
=============================================================================
