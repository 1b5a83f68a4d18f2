---------------------------- MODULE VolrendVolume ---------------------------
(***************************************************************************)
(* What volrend makes of a volume before and while rays cross it: normals  *)
(* (normal.C), opacities (opacity.C), the octree that says where something *)
(* is to be seen (octree.C), the view (view.C, render.C), the shading      *)
(* table and a ray (raytrace.C).  As built (SERIAL_PREPROC) one process    *)
(* prepares; the table is shaded by all nodes, in VolrendAdaptive.         *)
(*                                                                         *)
(* A position along a ray is exact: the sines and cosines are those of the *)
(* 3:4:5 triangle, and a ray is cut into ticks so small that it crosses    *)
(* every plane of the octree at one of them.  Colours are in integers.     *)
(***************************************************************************)
EXTENDS Integers, Sequences, FiniteSets, SequencesExt

CONSTANTS
    map_len, map,                \* the densities, by <<x, y, z>>
    view,                        \* angle: [x |-> <<cos, sin>>, y |-> <<cos, sin>> in fifths]
    NORM_LSHIFT,                 \* steps of a normal's component
    pyr_highest_level, pyr_lowest_level

Axes  == 1 .. 3
INSET == 1
opc_len == [i \in Axes |-> map_len[i] - 2 * INSET]          \* norm_len as well
Within(len) == (0 .. len[1] - 1) \X (0 .. len[2] - 1) \X (0 .. len[3] - 1)

ASSUME VolumeAssumption ==
    /\ \A i \in Axes : map_len[i] \in Nat /\ opc_len[i] > 1
    /\ map \in [Within(map_len) -> 0 .. 255]
    /\ NORM_LSHIFT \in Nat /\ NORM_LSHIFT > 1
    /\ pyr_lowest_level \in Nat /\ pyr_highest_level \in Nat

\* The integer part of a square root, by its hundreds and the rest.
Root[n \in Nat] ==
    LET Reaches(r) == r = 0 \/ r <= n \div r
        hundreds   == CHOOSE h \in 0 .. 463 : Reaches(100 * h) /\ ~Reaches(100 * (h + 1))
    IN  CHOOSE r \in 100 * hundreds .. 100 * hundreds + 99 : Reaches(r) /\ ~Reaches(r + 1)
Sum3(f) == f[1] + f[2] + f[3]
Dot(a, b) == a[1] * b[1] + a[2] * b[2] + a[3] * b[3]
Abs(n) == IF n < 0 THEN -n ELSE n
Lower(a, b) == IF a < b THEN a ELSE b
Higher(a, b) == IF a > b THEN a ELSE b
Up(a, b) == (a + b - 1) \div b

-----------------------------------------------------------------------------
(* Normal_Compute and Opacity_Compute: the gradient at the voxel that lies *)
(* INSET further in the map.                                               *)
Inset(v) == <<v[1] + INSET, v[2] + INSET, v[3] + INSET>>
Beside(v, i, n) == [v EXCEPT ![i] = @ + n]
Gradient(v) == [i \in Axes |-> map[Beside(v, i, 1)] - map[Beside(v, i, -1)]]

LOOKUP_PREC  == 2 * NORM_LSHIFT + 1
LOOKUP_HSIZE == (NORM_LSHIFT * LOOKUP_PREC + NORM_LSHIFT) * 2
TADDR(z, y, x) == LOOKUP_HSIZE + (z * LOOKUP_PREC + y) * 2 + x
NoGradient == TADDR(NORM_LSHIFT, 2, 1)

\* NORM_LSHIFT * -g / magnitude, cut off towards zero; square is the
\* magnitude's.
NormalPart(g, square) ==
    LET n == CHOOSE k \in 0 .. NORM_LSHIFT :
                 /\ k * k * square <= (NORM_LSHIFT * g) * (NORM_LSHIFT * g)
                 /\ (k + 1) * (k + 1) * square > (NORM_LSHIFT * g) * (NORM_LSHIFT * g)
    IN  IF g > 0 THEN -n ELSE n
NormalOf(g) ==
    IF Dot(g, g) > 0
    THEN TADDR(NormalPart(g[3], Dot(g, g)), NormalPart(g[2], Dot(g, g)), IF g[1] < 0 THEN 1 ELSE 0)
    ELSE NoGradient
Normal(v) == NormalOf(Gradient(Inset(v)))

density_epsilon   == 96
magnitude_epsilon == 1
density_opacity(density)     == Higher(0, Lower(density - 95, 40))     \* in 40ths
magnitude_opacity(magnitude) == Lower(magnitude, 70)                   \* in 70ths
OpacityOf(density, square) ==
    IF density > density_epsilon /\ square > magnitude_epsilon
    THEN (2 * 255 * density_opacity(density) * magnitude_opacity(Root[square] \div 2) + 2800) \div 5600
    ELSE 0
Opacity(v) == OpacityOf(map[Inset(v)], Dot(Gradient(Inset(v)), Gradient(Inset(v))))

-----------------------------------------------------------------------------
(* Compute_Octree.  A level of the pyramid is the set of its bits that are *)
(* one.  Or_Neighbors_In_Base works in place, each bit from those behind   *)
(* it, which it has not yet changed.                                       *)
pyr_levels == 1 + CHOOSE n \in 0 .. 9 : /\ \A i \in Axes : opc_len[i] <= 2^n
                                        /\ n = 0 \/ \E i \in Axes : opc_len[i] > 2^(n - 1)
Levels == 0 .. pyr_levels - 1
pyr_len[level \in Levels] ==
    IF level = 0 THEN opc_len ELSE [i \in Axes |-> Up(pyr_len[level - 1][i], 2)]
pyr_voxlen[level \in Levels] ==
    IF level = 0 THEN <<1, 1, 1>>
    ELSE [i \in Axes |-> IF pyr_len[level - 1][i] > 1 THEN 2 * pyr_voxlen[level - 1][i] ELSE pyr_voxlen[level - 1][i]]

\* The voxel and those one further on, as far as there are any.
EightFrom(v, len) ==
    {<<x, y, z>> : x \in v[1] .. Lower(v[1] + 1, len[1] - 1), y \in v[2] .. Lower(v[2] + 1, len[2] - 1),
                   z \in v[3] .. Lower(v[3] + 1, len[3] - 1)}

Compute_Base == {v \in Within(opc_len) : Opacity(v) # 0}
Or_Neighbors_In_Base(base) ==
    {v \in Within(opc_len) : \E w \in EightFrom(v, opc_len) : w \in base}
Compute_Pyramid_Level(level, below) ==
    {v \in Within(pyr_len[level]) :
        \E w \in EightFrom([i \in Axes |-> 2 * v[i]], pyr_len[level - 1]) : w \in below}

RECURSIVE PyramidFrom(_, _)
PyramidFrom(level, below) ==
    IF level = pyr_levels THEN <<below>>
    ELSE <<below>> \o PyramidFrom(level + 1, Compute_Pyramid_Level(level, below))
Compute_Octree == PyramidFrom(1, Or_Neighbors_In_Base(Compute_Base))

-----------------------------------------------------------------------------
(* Compute_Pre_View and Select_View: the image is a square as large as the *)
(* diagonal of the volume, which is turned round its centre.  Lengths are  *)
(* in tenths, the entries of a rotation in 25ths, places in 250ths.        *)
SquaredDiagonal == Sum3([i \in Axes |-> (opc_len[i] - 1) * (opc_len[i] - 1)])
image_zlen == CHOOSE n \in 0 .. 4096 : /\ (2 * n - 1) * (2 * n - 1) <= 4 * SquaredDiagonal
                                       /\ 4 * SquaredDiagonal < (2 * n + 1) * (2 * n + 1)
frust_len == image_zlen + 1
HalfDiagonal == Root[25 * SquaredDiagonal]

\* About the X axis by the 30 degrees of Select_View, about Y, then about X.
Times(v, b) == LET Column(j) == v[1] * b[1][j] + v[2] * b[2][j] + v[3] * b[3][j]
               IN  <<Column(1), Column(2), Column(3)>>
Multiply(a, b) == <<Times(a[1], b), Times(a[2], b), Times(a[3], b)>>
RotationX(c, s) == << <<1, 0, 0>>, <<0, c, s>>, <<0, -s, c>> >>
Tilt == << <<5, 0, 0>>, <<0, 4, 3>>, <<0, -3, 4>> >>
RotationY(c, s) == << <<c, 0, -s>>, <<0, 5, 0>>, <<s, 0, c>> >>
Rotation(v) == Multiply(Multiply(Tilt, RotationY(v.y[1], -v.y[2])), RotationX(v.x[1], -v.x[2]))

\* The ticks of a step along Z, of which each entry of invinvjacobian[Z], that
\* is 25 / invjacobian[Z], is a whole number.
Ticks(invjacobian) ==
    LET Z == invjacobian[3]
        Even(n) == \A i \in Axes : Z[i] # 0 => n % Abs(Z[i]) = 0
    IN  CHOOSE n \in 1 .. 3600 : Even(n) /\ \A k \in 1 .. n - 1 : ~Even(k)
\* Transform_Point of the origin; invjacobian, from the unit vectors.
Viewed(rotation) ==
    [invjacobian |-> rotation,
     origin |-> LET At(i) == 125 * (opc_len[i] - 1)
                             - HalfDiagonal * (rotation[1][i] + rotation[2][i] + rotation[3][i])
                IN  <<At(1), At(2), At(3)>>,
     ticks |-> Ticks(rotation)]
Select_View(v) == Viewed(Rotation(v))

-----------------------------------------------------------------------------
(* Render and Pre_Shade.  Vectors of unit length are in thousandths.       *)
Unit(v) == LET length == Root[Dot(v, v)]
           IN  <<(1000 * v[1]) \div length, (1000 * v[2]) \div length, (1000 * v[3]) \div length>>
Plus(v, w) == <<v[1] + w[1], v[2] + w[2], v[3] + w[3]>>
Transform_Point(s, v) == Plus(Times(v, s.invjacobian), <<10 * s.origin[1], 10 * s.origin[2], 10 * s.origin[3]>>)
light == <<38, 53, -76>>                                   \* in hundredths
Lights(s) ==
    LET obslight == Unit(Transform_Point(s, light))
        obseye   == Unit(Transform_Point(s, <<0, 0, -100>>))
    IN  [light |-> obslight, highlight |-> Unit(Plus(obslight, obseye))]

\* 30 of ambient, 100 of diffuse and 130 of specular light, to the tenth.
TenthPower(n) ==
    LET second == (n * n) \div 1000
        fourth == (second * second) \div 1000
        eighth == (fourth * fourth) \div 1000
    IN  (eighth * second) \div 1000
ShadeOf(diffuse, specular) == Lower(255, 30 + (100 * diffuse + 130 * TenthPower(specular) + 500) \div 1000)
ColorOf(lights, normal) ==
    ShadeOf(Higher(0, Dot(normal, lights.light) \div 1000), Higher(0, Dot(normal, lights.highlight) \div 1000))

\* What is left for the X component of a normal, and its length.
Rest(z, y) == NORM_LSHIFT * NORM_LSHIFT - z * z - y * y
TowardsX(z, y) == Root[(1000000 * Higher(0, Rest(z, y))) \div (NORM_LSHIFT * NORM_LSHIFT)]
Thousandths(n) == (1000 * n) \div NORM_LSHIFT

Slice(node, nodes) ==
    LET partition == Up(LOOKUP_PREC, nodes)
        zstart    == partition * node - NORM_LSHIFT
    IN  zstart .. Lower(zstart + partition, NORM_LSHIFT + 1) - 1
Steps == -NORM_LSHIFT .. NORM_LSHIFT
Addresses == {TADDR(z, y, x) : z \in Steps, y \in Steps, x \in {0, 1}}

ZOf(address) == ((address - LOOKUP_HSIZE) \div 2 + NORM_LSHIFT) \div LOOKUP_PREC
YOf(address) == (address - LOOKUP_HSIZE) \div 2 - ZOf(address) * LOOKUP_PREC

\* The entries of a slice, where the direction is not much too long.
Shade(lights, z, y, x) ==
    ColorOf(lights, <<IF x = 1 THEN TowardsX(z, y) ELSE -TowardsX(z, y), Thousandths(y), Thousandths(z)>>)
Pre_Shade(shd, lights, slice) ==
    [a \in Addresses |->
        IF a = NoGradient THEN 30
        ELSE IF ZOf(a) \in slice /\ Rest(ZOf(a), YOf(a)) > -2 THEN Shade(lights, ZOf(a), YOf(a), a % 2)
        ELSE shd[a]]
=============================================================================
