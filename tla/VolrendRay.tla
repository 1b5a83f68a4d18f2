----------------------------- MODULE VolrendRay -----------------------------
(***************************************************************************)
(* Trace_Ray of volrend (raytrace.C): a ray through the volume, led by the *)
(* octree from box to box, sampled inside the boxes that hold something.   *)
(*                                                                         *)
(* A ray is where it enters the picture (ray[0], in 250ths of a voxel) and *)
(* the view.  Along it, one sample is Tick ticks from the next; a place is *)
(* counted in parts of a voxel of which there are Voxel.                   *)
(***************************************************************************)
EXTENDS VolrendVolume, FiniteSetsExt

Tick(s)  == 250 * s.ticks
Voxel(s) == 25 * Tick(s)
SMALL(s) == Voxel(s) \div 100000

ray0(s, pixel) ==
    [i \in Axes |-> s.origin[i] + 10 * (pixel[1] * s.invjacobian[1][i] + pixel[2] * s.invjacobian[2][i])]
Moving(s) == {i \in Axes : s.invjacobian[3][i] # 0}
Ray(s, pixel) == [s |-> s, from |-> ray0(s, pixel), dir |-> s.invjacobian[3], moving |-> Moving(s)]

\* The place at a tick, and the tick at which an axis is at a plane.
PlaceAt(r, tick) == [i \in Axes |-> 25 * r.s.ticks * r.from[i] + r.dir[i] * tick]
TickAt(r, i, plane) ==
    LET distance == 250 * plane - r.from[i]
        steps    == (25 * r.s.ticks) \div Abs(r.dir[i])
    IN  IF r.dir[i] > 0 THEN distance * steps ELSE -(distance * steps)

-----------------------------------------------------------------------------
(* The segment: from the first to the last sample inside the volume.  Both *)
(* ends are rounded by casts, so that a little below zero is zero.         *)
Misses(r) ==
    \E i \in Axes \ r.moving : r.from[i] < 0 \/ r.from[i] > 250 * (opc_len[i] - 1)
EntersAt(r) == Max({0} \cup {Lower(TickAt(r, i, 0), TickAt(r, i, opc_len[i] - 1)) : i \in r.moving})
LeavesAt(r) == Min({image_zlen * Tick(r.s)}
                   \cup {Higher(TickAt(r, i, 0), TickAt(r, i, opc_len[i] - 1)) : i \in r.moving})
Truncated(a, b) == IF a < 0 THEN -((-a) \div b) ELSE a \div b
Segment(r) ==
    IF Misses(r) THEN {} ELSE Up(EntersAt(r), Tick(r.s)) .. Truncated(LeavesAt(r), Tick(r.s))

-----------------------------------------------------------------------------
(* The walk.  VXEL: the voxel a place belongs to, on the side the ray goes. *)
VXEL(r, place) ==
    [i \in Axes |-> Truncated(place[i] + (IF r.dir[i] > 0 THEN SMALL(r.s) ELSE -SMALL(r.s)), Voxel(r.s))]
Ancestor(v, level) == [i \in Axes |-> v[i] \div 2^level]
PYR(octree, level, v) == Ancestor(v, level) \in octree[level + 1]

\* The plane that ends a box on an axis: ROUNDDOWN and STEPDOWN.
FarPlane(r, i, place, level) ==
    LET voxel == place \div Voxel(r.s)
        down  == IF place % Voxel(r.s) = 0 THEN voxel - 1 ELSE voxel
    IN  pyr_voxlen[level][i] *
            (IF r.dir[i] > 0 THEN (voxel \div 2^level) + 1 ELSE down \div 2^level)
BoxEnd(r, place, level) == Min({TickAt(r, i, FarPlane(r, i, place[i], level)) : i \in r.moving})

\* Up to the level at which this box and the next have the same parent.
starting_level == Lower(pyr_highest_level, pyr_levels - 1)
Popped(level, v, next) ==
    Min({l \in level .. starting_level : l = starting_level \/ Ancestor(v, l + 1) = Ancestor(next, l + 1)})

\* The samples of a box, its ends included, without those the mask excludes.
FirstVoxel(r, sample) == [i \in Axes |-> PlaceAt(r, sample * Tick(r.s))[i] \div Voxel(r.s)]
Span(r, octree, from, to, last) ==
    SelectSeq([n \in 1 .. Higher(0, Lower(to \div Tick(r.s), last) - Up(from, Tick(r.s)) + 1) |->
                  Up(from, Tick(r.s)) + n - 1],
              LAMBDA sample : PYR(octree, 0, FirstVoxel(r, sample)))

RECURSIVE SamplesFrom(_, _, _, _, _)
SamplesFromBox(r, octree, from, last, level, v, end) ==
    (IF PYR(octree, level, v) THEN Span(r, octree, from, end, last) ELSE <<>>)
    \o (IF end >= last * Tick(r.s) THEN <<>>
        ELSE SamplesFrom(r, octree, end, last, Popped(level, v, VXEL(r, PlaceAt(r, end)))))
SamplesFrom(r, octree, from, last, level) ==
    LET v == VXEL(r, PlaceAt(r, from))
    IN  IF PYR(octree, level, v) /\ level > pyr_lowest_level
        THEN SamplesFrom(r, octree, from, last, level - 1)
        ELSE SamplesFromBox(r, octree, from, last, level, v, BoxEnd(r, PlaceAt(r, from), level))
Samples(r, octree) ==
    IF Segment(r) = {} THEN <<>>
    ELSE SamplesFrom(r, octree, Min(Segment(r)) * Tick(r.s), Max(Segment(r)), starting_level)

-----------------------------------------------------------------------------
(* A sample: the eight voxels round a place that is kept inside the map,   *)
(* weighted in eighths per axis.  Opacities in 255ths.                     *)
in_max(s, i) == (opc_len[i] - 1) * Voxel(s) - SMALL(s) - Voxel(s) \div 255
SamplePlace(r, sample) ==
    [i \in Axes |-> Lower(PlaceAt(r, sample * Tick(r.s))[i], in_max(r.s, i))]
Alpha(r, place, i) == ((place[i] % Voxel(r.s)) * 8) \div Voxel(r.s)
Weight(r, place, e) ==
    LET W(i) == IF e[i] = 1 THEN Alpha(r, place, i) ELSE 8 - Alpha(r, place, i)
    IN  W(1) * W(2) * W(3)
Neighbour(r, place, e) == [i \in Axes |-> e[i] + place[i] \div Voxel(r.s)]
Corners8 == {0, 1} \X {0, 1} \X {0, 1}
Sampled(r, shd, place) ==
    LET w(e) == Weight(r, place, e) * Opacity(Neighbour(r, place, e))
    IN  [opacity |-> MapThenSumSet(w, Corners8) \div 512,
         color   |-> MapThenSumSet(LAMBDA e : w(e) * shd[Normal(Neighbour(r, place, e))], Corners8) \div (512 * 255)]

\* Compositing from front to back, until little can be added.
depth_cueing(sample) == 100 - (60 * sample) \div image_zlen
opacity_cutoff == 242                                      \* 0.95
Over(ray, at, cue) ==
    [color   |-> ray.color + (((at.color * cue) \div 100) * (255 - ray.opacity)) \div 255,
     opacity |-> ray.opacity + (at.opacity * (255 - ray.opacity)) \div 255]
Composite(r, shd, samples) ==
    FoldLeft(LAMBDA ray, sample :
                IF ray.opacity > opacity_cutoff THEN ray
                ELSE Over(ray, Sampled(r, shd, SamplePlace(r, sample)), depth_cueing(sample)),
             [color |-> 0, opacity |-> 0], samples)
Trace_Ray(s, octree, shd, pixel) ==
    Composite(Ray(s, pixel), shd, Samples(Ray(s, pixel), octree))

-----------------------------------------------------------------------------
(* What a ray should sample: every place of its segment with an opacity    *)
(* round it, whatever the octree says.  A place on the face between two    *)
(* boxes of the lowest level that both hold something belongs to either,   *)
(* and is composited twice.                                                *)
NotTransparent(v) == \E w \in EightFrom(v, opc_len) : Opacity(w) # 0
BoxLevel == Lower(pyr_lowest_level, starting_level)
BoxHolds(v) ==
    \E w \in Within(opc_len) : Ancestor(w, BoxLevel) = Ancestor(v, BoxLevel) /\ NotTransparent(w)
VoxelBehind(r, place) ==
    [i \in Axes |-> IF r.dir[i] > 0 /\ place[i] % Voxel(r.s) = 0 THEN Higher(0, place[i] \div Voxel(r.s) - 1)
                    ELSE place[i] \div Voxel(r.s)]
OnFace(r, sample) ==
    LET place  == PlaceAt(r, sample * Tick(r.s))
        behind == VoxelBehind(r, place)
        ahead  == VXEL(r, place)
    IN  /\ Min(Segment(r)) < sample /\ sample < Max(Segment(r))
        /\ Ancestor(behind, BoxLevel) # Ancestor(ahead, BoxLevel) /\ BoxHolds(behind) /\ BoxHolds(ahead)
AllSamples(r) ==
    FlattenSeq([n \in 1 .. image_zlen + 1 |->
        IF n - 1 \notin Segment(r) \/ ~NotTransparent(FirstVoxel(r, n - 1)) THEN <<>>
        ELSE IF OnFace(r, n - 1) THEN <<n - 1, n - 1>> ELSE <<n - 1>>])
Image == (0 .. frust_len - 1) \X (0 .. frust_len - 1)
SamplesExact(s, octree) ==
    \A pixel \in Image : Samples(Ray(s, pixel), octree) = AllSamples(Ray(s, pixel))
=============================================================================
