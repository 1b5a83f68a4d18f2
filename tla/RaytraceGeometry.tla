-------------------------- MODULE RaytraceGeometry --------------------------
(***************************************************************************)
(* The scene of raytrace: reading, transforming and normalising the model  *)
(* (geo.C, tri.C, poly.C, sph.C, matrix.C), where a ray meets it, and the  *)
(* walk over the list of all objects (isect.C).                            *)
(*                                                                         *)
(* Reals are fixed point: Unit stands for 1.0 of the normalised scene, the *)
(* coordinates of the model file are whole numbers, RAYEPS lies below the  *)
(* resolution.  A direction is a vector of whole numbers up to Steps       *)
(* instead of a unit vector; t counts in ticks, fractions of it that make  *)
(* the times at which a ray crosses planes along the axes exact.  Of the   *)
(* normal of a polygon only the direction is kept.                         *)
(***************************************************************************)
EXTENDS Integers, SequencesExt

CONSTANTS
    Unit,
    Model,       \* View.model, a matrix of row vectors
    GeoFile      \* the objects of the model file

Axes == 1 .. 3
Steps == 12
HUGE == 900000000          \* HUGE_REAL

Triple(f)   == <<f[1], f[2], f[3]>>
Plus(a, b)  == <<a[1] + b[1], a[2] + b[2], a[3] + b[3]>>
Minus(a, b) == <<a[1] - b[1], a[2] - b[2], a[3] - b[3]>>
Times(c, a) == <<c * a[1], c * a[2], c * a[3]>>
Dot(a, b)   == a[1] * b[1] + a[2] * b[2] + a[3] * b[3]
Cross(a, b) == <<a[2] * b[3] - a[3] * b[2], a[3] * b[1] - a[1] * b[3],
                 a[1] * b[2] - a[2] * b[1]>>
Size(x)     == IF x < 0 THEN -x ELSE x
Quot(a, b)  == IF b < 0 THEN (-a) \div (-b) ELSE a \div b

\* The square root, rounded down.
Root(x) ==
    LET between[lo \in Nat, hi \in Nat] ==
            IF hi - lo <= 1 THEN lo
            ELSE LET mid == (lo + hi) \div 2
                 IN  IF mid * mid <= x THEN between[mid, hi] ELSE between[lo, mid]
    IN  between[0, 46341]

\* VecNorm: the shortest whole vector of the same direction, or a rounded one.
Gcd[a \in Nat, b \in Nat] == IF b = 0 THEN a ELSE Gcd[b, a % b]
Divisor(v) == Gcd[Gcd[Size(v[1]), Size(v[2])], Size(v[3])]
Over(v, n) == IF n = 0 THEN v ELSE <<Quot(v[1], n), Quot(v[2], n), Quot(v[3], n)>>
Shortest(v) == Over(v, Divisor(v))
Longest(v) == LET larger == IF Size(v[1]) >= Size(v[2]) THEN Size(v[1]) ELSE Size(v[2])
              IN  IF larger >= Size(v[3]) THEN larger ELSE Size(v[3])
Rounded(v, n) == IF n <= Steps THEN v
                 ELSE Over(Plus(Times(2 * Steps, v), <<n, n, n>>), 2 * n)
VecNorm(v) == Shortest(Rounded(Shortest(v), Longest(Shortest(v))))

-----------------------------------------------------------------------------
(* matrix.C.  Rows 1 .. 3 and, for what is added to a point, row 4.        *)
VecMatMult(v, w, M) == Triple([k \in Axes |-> v[1] * M[1][k] + v[2] * M[2][k] + v[3] * M[3][k] + w * M[4][k]])
MatrixMult(A, B) ==
    [r \in 1 .. 4 |-> VecMatMult(A[r], IF r = 4 THEN 1 ELSE 0, B)]
Scale(c)     == << <<c, 0, 0>>, <<0, c, 0>>, <<0, 0, c>>, <<0, 0, 0>> >>
Translate(c) == << <<1, 0, 0>>, <<0, 1, 0>>, <<0, 0, 1>>, <<c, c, c>> >>

\* modelInvT, up to a factor: the cofactors of the upper three rows.
MatrixInverseT(M) == <<Cross(M[2], M[3]), Cross(M[3], M[1]), Cross(M[1], M[2]), <<0, 0, 0>> >>

-----------------------------------------------------------------------------
(* Bounding boxes.                                                         *)
Lowest(S)  == CHOOSE x \in S : \A y \in S : x <= y
Highest(S) == CHOOSE x \in S : \A y \in S : x >= y
BoundBox(points) ==
    [dnear |-> Triple([k \in Axes |-> Lowest({p[k] : p \in points})]),
     dfar  |-> Triple([k \in Axes |-> Highest({p[k] : p \in points})])]
SphElementBoundBox(e) ==
    BoundBox({Minus(e.center, <<e.rad, e.rad, e.rad>>), Plus(e.center, <<e.rad, e.rad, e.rad>>)})
TriElementBoundBox(e)  == BoundBox({e.verts[1], e.verts[2], e.verts[3]})
PolyElementBoundBox(e) == BoundBox(Range(e.verts))
ElementBoundBox(e) ==
    CASE e.prim = "tri"  -> TriElementBoundBox(e)
      [] e.prim = "poly" -> PolyElementBoundBox(e)
      [] e.prim = "sph"  -> SphElementBoundBox(e)
ObjectBoundBox(o) ==
    BoundBox(UNION {{ElementBoundBox(e).dnear, ElementBoundBox(e).dfar} : e \in Range(o.elems)})

NormalizeBoundBox(b, M) == [dnear |-> VecMatMult(b.dnear, 1, M), dfar |-> VecMatMult(b.dfar, 1, M)]

\* The axis along which a plane is projected.
MainAxis(norm) ==
    IF Size(norm[1]) >= Size(norm[2]) /\ Size(norm[1]) >= Size(norm[3]) THEN 1
    ELSE IF Size(norm[2]) >= Size(norm[1]) /\ Size(norm[2]) >= Size(norm[3]) THEN 2 ELSE 3

-----------------------------------------------------------------------------
(* TriRead, PolyRead and SphRead.  An object is [prim, surf, verts,        *)
(* normals, elems], its elements are lists of indices into verts, or       *)
(* spheres; normals are those of the vertices, or none.                    *)
PolyReadNorm(vs) ==
    LET at(k) == vs[1 + (k % Len(vs))]
    IN  VecNorm(FoldLeft(LAMBDA sum, k :
            Plus(sum, Cross(Minus(at(k + 1), at(k)), Minus(at(k + 2), at(k + 1)))),
            <<0, 0, 0>>, [k \in 1 .. Len(vs) |-> k - 1]))
Indexed(list, e) == [n \in DOMAIN e |-> list[e[n]]]
PolyRead(o, e) == [prim |-> "poly", verts |-> Indexed(o.verts, e), norm |-> PolyReadNorm(Indexed(o.verts, e))]
TriRead(o, e)  == [prim |-> "tri", verts |-> Indexed(o.verts, e),
                   vnorm |-> IF o.normals = <<>> THEN <<>> ELSE Indexed(o.normals, e)]
SphRead(e)     == [prim |-> "sph", center |-> e.center, rad |-> e.rad]
ReadElement(o, e) ==
    CASE o.prim = "tri"  -> TriRead(o, e)
      [] o.prim = "poly" -> PolyRead(o, e)
      [] o.prim = "sph"  -> SphRead(e)
ReadObject(o) == [prim |-> o.prim, surf |-> o.surf,
                  elems |-> [n \in DOMAIN o.elems |-> ReadElement(o, o.elems[n])]]

(* TriTransform, PolyTransform, SphTransform.  The normal of a triangle is *)
(* not of unit length, and it points the way the vertex normals do.        *)
Mapped(vs, w, M) == [n \in DOMAIN vs |-> VecMatMult(vs[n], w, M)]
TransformTri(e, M) ==
    LET vs   == Mapped(e.verts, 1, M)
        ns   == Mapped(e.vnorm, 0, MatrixInverseT(M))
        norm == Cross(Minus(vs[2], vs[1]), Minus(vs[3], vs[1]))
        ccw  == ns # <<>> /\ Dot(norm, ns[1]) < 0
    IN  [prim |-> "tri", verts |-> vs, vnorm |-> ns, norm |-> IF ccw THEN Times(-1, norm) ELSE norm,
         vorder |-> IF ccw THEN "COUNTER_CLOCKWISE" ELSE "CLOCKWISE", indx |-> MainAxis(norm)]
TransformPoly(e, M) ==
    LET norm == VecNorm(VecMatMult(e.norm, 0, MatrixInverseT(M)))
    IN  [prim |-> "poly", verts |-> Mapped(e.verts, 1, M), norm |-> norm, indx |-> MainAxis(norm)]

\* Spheres stay spheres: model matrices are rigid but for a factor.
SphereMapped(e, M) ==
    LET center  == VecMatMult(e.center, 1, M)
        surface == VecMatMult(Plus(e.center, <<e.rad, 0, 0>>), 1, M)
        rad2    == Dot(Minus(surface, center), Minus(surface, center))
    IN  [prim |-> "sph", center |-> center, rad |-> Root(rad2)]
TransformElement(e, M) ==
    CASE e.prim = "tri"  -> TransformTri(e, M)
      [] e.prim = "poly" -> TransformPoly(e, M)
      [] e.prim = "sph"  -> SphereMapped(e, M)
TransformObject(o, M) == [o EXCEPT !.elems = [n \in DOMAIN @ |-> TransformElement(@[n], M)]]

(* NormalizeGeo: one factor and one distance for all three axes, so that   *)
(* the model just fits into the unit cube.                                 *)
NormMat(objects) ==
    LET boxes == {ObjectBoundBox(o) : o \in Range(objects)}
        least == Lowest(UNION {Range(b.dnear) : b \in boxes})
        most  == Highest(UNION {Range(b.dfar) : b \in boxes})
        scale == Unit \div (most - least)
    IN  MatrixMult(Scale(scale), Translate((-least) * scale))

\* Vertices and the plane's distance, not its normal.
SphDataNormalize(e, parent, M) ==
    LET s == [SphereMapped(e, Scale(M[1][1])) EXCEPT !.center = VecMatMult(e.center, 1, M)]
    IN  [prim |-> "sph", parent |-> parent, center |-> s.center, rad |-> s.rad,
         bv |-> NormalizeBoundBox(SphElementBoundBox(e), M)]
TriDataNormalize(e, parent, M) ==
    LET vs == Mapped(e.verts, 1, M)
    IN  [prim |-> "tri", parent |-> parent, verts |-> vs, vnorm |-> e.vnorm, norm |-> e.norm, vorder |-> e.vorder,
         indx |-> e.indx, d |-> -Dot(e.norm, vs[1]), bv |-> NormalizeBoundBox(TriElementBoundBox(e), M)]
PolyDataNormalize(e, parent, M) ==
    LET vs == Mapped(e.verts, 1, M)
    IN  [prim |-> "poly", parent |-> parent, verts |-> vs, norm |-> e.norm, indx |-> e.indx,
         d |-> -Dot(e.norm, vs[1]), bv |-> NormalizeBoundBox(PolyElementBoundBox(e), M)]
NormalizeElement(e, parent, M) ==
    CASE e.prim = "tri"  -> TriDataNormalize(e, parent, M)
      [] e.prim = "poly" -> PolyDataNormalize(e, parent, M)
      [] e.prim = "sph"  -> SphDataNormalize(e, parent, M)
NormalizeGeo(objects) ==
    [o \in DOMAIN objects |->
        [objects[o] EXCEPT !.elems =
            [n \in DOMAIN @ |-> NormalizeElement(@[n], [id |-> o, surf |-> objects[o].surf], NormMat(objects))]]]

\* ReadGeoFile.
ReadGeoFile == NormalizeGeo([o \in DOMAIN GeoFile |-> TransformObject(ReadObject(GeoFile[o]), Model)])

-----------------------------------------------------------------------------
(* A ray [P, D, q] moves by D in q ticks, an even number that every        *)
(* component of D divides: the times of two crossings are the same or at   *)
(* least two ticks apart.                                                  *)
Lcm(a, b)  == (a * b) \div Gcd[a, b]
Ticks(d)   == 2 * FoldLeft(LAMBDA l, x : IF x = 0 THEN l ELSE Lcm(l, Size(x)), 1, d)
Ray(p, d)  == LET n == VecNorm(d) IN [P |-> p, D |-> n, q |-> Ticks(n)]
RayPoint(r, t) == Triple([k \in Axes |-> (r.q * r.P[k] + t * r.D[k]) \div r.q])

\* Hits [t, pelem, b], the nearest first; b are the weights of the vertices
\* of a triangle.
NoHit == [t |-> HUGE, pelem |-> <<>>, b |-> <<>>]

\* A ray meets the plane of an element after num / den directions; the point
\* there, times den.
Plane(r, e) ==
    LET num == e.d + Dot(e.norm, r.P)
        den == Dot(e.norm, r.D)
    IN  IF den < 0 THEN [num |-> num, den |-> -den] ELSE [num |-> -num, den |-> den]
Ahead(plane)          == plane.den # 0 /\ plane.num > 0
PlaneT(r, plane)      == (plane.num * r.q) \div plane.den
PlanePoint(r, plane)  == Plus(Times(plane.den, r.P), Times(plane.num, r.D))

INSIDE(x, a) == (a <= 0 /\ x >= a /\ x <= 0) \/ (a >= 0 /\ x >= 0 /\ x <= a)
TurnedVerts(e) == IF e.vorder = "COUNTER_CLOCKWISE" THEN <<e.verts[1], e.verts[3], e.verts[2]>> ELSE e.verts
\* The weight of a vertex at the point q / den: the area opposite to it, with
\* axes u and v.
WeightAt(q, den, from, upto, u, v) ==
    (upto[u] - from[u]) * (q[v] - den * from[v]) - (upto[v] - from[v]) * (q[u] - den * from[u])
TriWeights(vs, q, den, indx) ==
    LET u == 1 + (indx % 3)
        v == 1 + ((indx + 1) % 3)
    IN  <<WeightAt(q, den, vs[2], vs[3], u, v), WeightAt(q, den, vs[3], vs[1], u, v),
          WeightAt(q, den, vs[1], vs[2], u, v)>>
TriAt(r, e, plane, b) ==
    IF \A k \in 1 .. 3 : INSIDE(b[k], e.norm[e.indx] * Unit * Unit * plane.den)
    THEN <<[t |-> PlaneT(r, plane), pelem |-> e, b |-> b]>>
    ELSE <<>>
TriInPlane(r, e, plane) ==
    IF ~Ahead(plane) THEN <<>>
    ELSE TriAt(r, e, plane, TriWeights(TurnedVerts(e), PlanePoint(r, plane), plane.den, e.indx))
TriPeIntersect(r, e) == TriInPlane(r, e, Plane(r, e))

\* An odd number of edges to the right of the point.
EdgeToTheRight(a, b, q, den, u, v) ==
    LET dx == b[u] - a[u]
        dy == b[v] - a[v]
        x  == den * a[u] - q[u]
        y  == den * a[v] - q[v]
    IN  /\ (y < 0) # (y + den * dy < 0)
        /\ IF dy > 0 THEN x * dy > y * dx ELSE x * dy < y * dx
OddToTheRight(vs, q, den, u, v) ==
    Cardinality({k \in DOMAIN vs : EdgeToTheRight(vs[k], vs[1 + (k % Len(vs))], q, den, u, v)}) % 2 = 1
PolyInPlane(r, e, plane) ==
    IF /\ Ahead(plane)
       /\ OddToTheRight(e.verts, PlanePoint(r, plane), plane.den,
                        IF e.indx = 1 THEN 2 ELSE 1, IF e.indx = 3 THEN 2 ELSE 3)
    THEN <<[t |-> PlaneT(r, plane), pelem |-> e, b |-> <<>>]>>
    ELSE <<>>
PolyPeIntersect(r, e) == PolyInPlane(r, e, Plane(r, e))

RootUp(x) == IF Root(x) * Root(x) = x THEN Root(x) ELSE Root(x) + 1
SphPeIntersect(r, e) ==
    LET V    == Minus(e.center, r.P)
        dd   == Dot(r.D, r.D)
        b    == Dot(V, r.D)
        vsq  == Dot(V, V) - e.rad * e.rad
        disc == b * b - dd * vsq
        t1   == (r.q * (b - RootUp(disc))) \div dd
        t2   == (r.q * (b + Root(disc))) \div dd
        hit(t) == [t |-> t, pelem |-> e, b |-> <<>>]
    IN  IF (vsq > 0 /\ b <= 0) \/ disc < 0 \/ t2 <= 0 THEN <<>>
        ELSE IF t1 > 0 THEN <<hit(t1), hit(t2)>> ELSE <<hit(t2)>>

PeIntersect(r, e) ==
    CASE e.prim = "tri"  -> TriPeIntersect(r, e)
      [] e.prim = "poly" -> PolyPeIntersect(r, e)
      [] e.prim = "sph"  -> SphPeIntersect(r, e)

\* The normal at a point, v over the root of sq: of unit length, except that
\* of a triangle without vertex normals, which is as long as its area is big.
UnitNormal(v) == [v |-> VecNorm(v), sq |-> Dot(VecNorm(v), VecNorm(v))]
SphNormal(hit, point) == UnitNormal(Minus(point, hit.pelem.center))
PolyNormal(hit)       == UnitNormal(hit.pelem.norm)
TriNormal(hit) ==
    LET e  == hit.pelem
        ns == IF e.vorder = "CLOCKWISE" THEN e.vnorm ELSE <<e.vnorm[1], e.vnorm[3], e.vnorm[2]>>
    IN  IF e.vnorm = <<>> THEN [v |-> e.norm, sq |-> 1]
        ELSE UnitNormal(FoldLeft(LAMBDA sum, k : Plus(sum, Times(Size(hit.b[k]), ns[k])), <<0, 0, 0>>, <<1, 2, 3>>))
Normal(hit, point) ==
    CASE hit.pelem.prim = "tri"  -> TriNormal(hit)
      [] hit.pelem.prim = "poly" -> PolyNormal(hit)
      [] hit.pelem.prim = "sph"  -> SphNormal(hit, point)

-----------------------------------------------------------------------------
(* TT_LIST.  Intersect: the nearest hit of all objects, of several the     *)
(* first.                                                                  *)
Nearer(best, hits) == IF hits # <<>> /\ hits[1].t < best.t THEN hits[1] ELSE best
ObjectIntersect(r, o) ==
    FoldLeft(LAMBDA best, e : Nearer(best, PeIntersect(r, e)), NoHit, o.elems)
Intersect(r, objects) ==
    FoldLeft(LAMBDA best, o : Nearer(best, <<ObjectIntersect(r, o)>>), NoHit, objects)

\* What is left of the light behind a surface.  ktran is in quarters, and
\* Full, which stands for 1.0, can be halved twelve times.
Clear == 4
Full  == 4096
Through(trans, surf) == (trans * surf.ktran) \div Clear
ShadowIntersect(r, objects, lightlength, pe) ==
    FoldLeft(LAMBDA trans, o :
        LET hit == ObjectIntersect(r, o)
        IN  IF trans > 0 /\ hit.t < lightlength /\ hit.pelem # pe THEN Through(trans, o.surf) ELSE trans,
        Full, objects)
=============================================================================
