--------------------------- MODULE RadiosityScene ---------------------------
(***************************************************************************)
(* The geometry of radiosity.  Models become triangular patches of a BSP   *)
(* tree; a patch that straddles the plane of a node is split, and patches  *)
(* that face each other are linked (modelman.C, patchman.C).  Triangles    *)
(* that meet share edges and vertices, however often each is divided       *)
(* (smallobj.C, subdivide_element of elemman.C), so that display.C can     *)
(* average over a vertex.  How much of one element another sees is sampled *)
(* by rays that walk the tree (visible.C).                                 *)
(*                                                                         *)
(* Patches are inserted one at a time, a model's after the other's, in     *)
(* steps of a fragment (create_bsp_task calls define_patch).  Elements are *)
(* divided and visibilities computed when all patches are there.  The      *)
(* cache is that of one process: no other reads or writes it.              *)
(*                                                                         *)
(* Coordinates are integers, parameters of rays are fractions, F_COPLANAR  *)
(* and F_ZERO are zero, and a normal is reduced by its common divisor      *)
(* where the program makes it a unit vector: a bound on scenes, in which   *)
(* every point and every area has to come out whole.                       *)
(***************************************************************************)
EXTENDS Integers, Sequences, FiniteSets, SequencesExt

CONSTANTS
    Scenes,                 \* each a sequence of models
    MaxDivisions,           \* bounds: how many elements of each scene may be divided
    MaxSights               \* and how many visibilities computed

Axes == 1 .. 3
Plus(u, v) == [i \in Axes |-> u[i] + v[i]]
Minus(u, v) == [i \in Axes |-> u[i] - v[i]]
Times(a, u) == [i \in Axes |-> a * u[i]]
Abs(a) == IF a < 0 THEN -a ELSE a
Sign(a) == IF a > 0 THEN 1 ELSE IF a < 0 THEN -1 ELSE 0
Whole(a, b) == CHOOSE q \in {a \div b} : q * b = a
inner_product(u, v) == u[1] * v[1] + u[2] * v[2] + u[3] * v[3]
cross_product(u, v) ==
    <<u[2] * v[3] - u[3] * v[2], u[3] * v[1] - u[1] * v[3], u[1] * v[2] - u[2] * v[1]>>

\* The length of a vector, where its reduced form has length one.
vector_length(u) == CHOOSE d \in 1 .. Abs(u[1]) + Abs(u[2]) + Abs(u[3]) :
    /\ \A i \in Axes : Abs(u[i]) % d = 0
    /\ \A b \in d + 1 .. Abs(u[1]) + Abs(u[2]) + Abs(u[3]) : \E i \in Axes : Abs(u[i]) % b # 0
normalize_vector(u) == [i \in Axes |-> Sign(u[i]) * (Abs(u[i]) \div vector_length(u))]
Normal(t) == cross_product(Minus(t[2], t[1]), Minus(t[3], t[1]))
plane_normal(t) == normalize_vector(Normal(t))
\* Areas in units that let them be divided.
AreaOf(t) == 5040 * vector_length(Normal(t))
comp_plane_equ(t) == [n |-> plane_normal(t), c |-> -inner_product(plane_normal(t), t[1])]

plane_equ(plane, point) == plane.c + inner_product(plane.n, point)
POSITIVE_SIDE(plane, t) == \A i \in 1 .. 3 : plane_equ(plane, t[i]) >= 0
NEGATIVE_SIDE(plane, t) == \A i \in 1 .. 3 : plane_equ(plane, t[i]) <= 0

-----------------------------------------------------------------------------
\* A world w holds the vertices, edges, patches and elements, the root of the
\* BSP tree, the pairs that create_ff_refine_task is called for, in order of
\* creation, and the fragments that are still to be inserted.  A pointer is an
\* index, 0 is NULL, and the index of a patch is its sequence number.  recut
\* is history: the patches with an edge that was to be cut at a point and had
\* been cut at another, and their fragments.
Nothing == [vertex |-> <<>>, edge |-> <<>>, patch |-> <<>>, element |-> <<>>, bsp_root |-> 0,
            linked |-> <<>>, pending |-> <<>>, recut |-> {}]

Corners(w, x) == [i \in 1 .. 3 |-> w.vertex[x.ev[i]]]
create_elemvertex(w, point) == [w EXCEPT !.vertex = Append(@, point)]
create_edge(w, v1, v2) == [w EXCEPT !.edge = Append(@, [pa |-> v1, pb |-> v2, ea |-> 0, eb |-> 0])]
EDGE_REVERSE(w, e, b) == w.edge[e].pa = b

\* Mutant: whatever has been cut before.
subdivide_edgeAgain(w, e, a, b) ==
    LET E   == w.edge[e]
        sum == Plus(Times(a, w.vertex[E.pa]), Times(b, w.vertex[E.pb]))
        cut == create_elemvertex(w, [i \in Axes |-> Whole(sum[i], a + b)])
        m   == Len(cut.vertex)
        two == create_edge(create_edge(cut, E.pa, m), m, E.pb)
        n   == Len(two.edge)
    IN  [two EXCEPT !.edge[e].ea = n - 1, !.edge[e].eb = n]

\* The edge is cut at (a * pa + b * pb) / (a + b), unless it has been cut.
subdivide_edge(w, e, a, b) ==
    LET E   == w.edge[e]
        sum == Plus(Times(a, w.vertex[E.pa]), Times(b, w.vertex[E.pb]))
        mid == [i \in Axes |-> Whole(sum[i], a + b)]
        cut == create_elemvertex(w, mid)
        m   == Len(cut.vertex)
        two == create_edge(create_edge(cut, E.pa, m), m, E.pb)
        n   == Len(two.edge)
    IN  IF E.ea = 0 THEN [two EXCEPT !.edge[e].ea = n - 1, !.edge[e].eb = n] ELSE w

Middle(w, e) == w.edge[w.edge[e].ea].pb
\* Of an edge of a triangle whose next corner is b: the half before the middle, and after it.
First(w, e, b) == IF EDGE_REVERSE(w, e, b) THEN w.edge[e].eb ELSE w.edge[e].ea
Second(w, e, b) == IF EDGE_REVERSE(w, e, b) THEN w.edge[e].ea ELSE w.edge[e].eb

RECURSIVE foreach_leaf_edge(_, _, _)
foreach_leaf_edge(w, e, reverse) ==
    LET E == w.edge[e]
        a == foreach_leaf_edge(w, E.ea, reverse)
        b == foreach_leaf_edge(w, E.eb, reverse)
    IN  IF E.ea = 0 THEN << e >> ELSE IF reverse THEN b \o a ELSE a \o b

-----------------------------------------------------------------------------
get_element(w, ev, e, patch, parent, area) ==
    [w EXCEPT !.element = Append(@, [ev |-> ev, e |-> e, patch |-> patch, parent |-> parent, area |-> area, leaf |-> TRUE])]

attach_element(w, id) ==
    LET p   == w.patch[id]
        new == get_element(w, p.ev, p.e, id, 0, p.area)
    IN  [new EXCEPT !.patch[id].el_root = Len(new.element)]

RECURSIVE _foreach_patch(_, _)
_foreach_patch(w, node) ==
    IF node = 0 THEN <<>>
    ELSE _foreach_patch(w, w.patch[node].bsp_negative) \o <<node>> \o _foreach_patch(w, w.patch[node].bsp_positive)

\* Mutant: one looks at the other.
FacingOneWay(w, a, b) == ~NEGATIVE_SIDE(w.patch[a].plane_equ, Corners(w, w.patch[b]))
Facing(w, a, b) ==
    /\ ~NEGATIVE_SIDE(w.patch[a].plane_equ, Corners(w, w.patch[b]))
    /\ ~NEGATIVE_SIDE(w.patch[b].plane_equ, Corners(w, w.patch[a]))

refine_newpatch(w, new) ==
    LET earlier == SelectSeq(_foreach_patch(w, w.bsp_root), LAMBDA a : a < new /\ Facing(w, a, new))
    IN  [w EXCEPT !.linked = @ \o [i \in DOMAIN earlier |-> <<earlier[i], new>>]]

get_patch(w, ev, e, area, model, plane) ==
    [w EXCEPT !.patch = Append(@, [ev |-> ev, e |-> e, area |-> area, model |-> model, plane_equ |-> plane,
                                   bsp_positive |-> 0, bsp_negative |-> 0, bsp_parent |-> 0, el_root |-> 0])]

\* A fragment of patch id for define_patch to insert below parent; the last
\* fragment reuses the patch.
Piece(id, reuse, ev, e, area, parent) ==
    [id |-> id, reuse |-> reuse, ev |-> ev, e |-> e, area |-> area, parent |-> parent]
\* A triangle as seen from its k-th corner.
From(s, k) == [i \in 1 .. 3 |-> s[((k + i - 2) % 3) + 1]]
Distance(w, id, node) == [i \in 1 .. 3 |-> Abs(plane_equ(w.patch[node].plane_equ, w.vertex[w.patch[id].ev[i]]))]

\* Edge e has been cut, and not at (a * pa + b * pb) / (a + b).
Elsewhere(w, e, a, b) ==
    LET E == w.edge[e]
    IN  E.ea # 0 /\ Plus(Times(a, w.vertex[E.pa]), Times(b, w.vertex[E.pb])) # Times(a + b, w.vertex[Middle(w, e)])

\* Of patch id, a triangle whose next corner is b: edge e is cut a from the
\* corner before, c from b.
Cut(w, id, e, b, a, c) ==
    LET x   == IF EDGE_REVERSE(w, e, b) THEN <<a, c>> ELSE <<c, a>>
        cut == subdivide_edge(w, e, x[1], x[2])
    IN  IF Elsewhere(w, e, x[1], x[2]) THEN [cut EXCEPT !.recut = @ \cup {id}] ELSE cut

\* Corner k is on one side of the plane of the node, the others on the other.
Fragments3(w, id, k, node, h) ==
    LET area == w.patch[id].area
        v    == From(w.patch[id].ev, k)
        e    == From(w.patch[id].e, k)
        a    == Middle(w, e[1])
        b    == Middle(w, e[3])
        e_ab == Len(w.edge) + 1
        e_3a == Len(w.edge) + 2
        all  == (h[1] + h[2]) * (h[1] + h[3])
    IN  [create_edge(create_edge(w, a, b), v[3], a) EXCEPT !.pending = <<
            Piece(id, FALSE, <<v[1], a, b>>, <<First(w, e[1], v[2]), e_ab, Second(w, e[3], v[1])>>,
                  Whole(h[1] * h[1] * area, all), node),
            Piece(id, FALSE, <<a, v[2], v[3]>>, <<Second(w, e[1], v[2]), e[2], e_3a>>,
                  Whole(h[2] * area, h[1] + h[2]), node),
            Piece(id, TRUE, <<a, v[3], b>>, <<e_3a, First(w, e[3], v[1]), e_ab>>,
                  Whole(h[1] * h[3] * area, all), node) >> \o @]

split_into_3(w, id, k, node) ==
    LET v == From(w.patch[id].ev, k)
        e == From(w.patch[id].e, k)
        h == From(Distance(w, id, node), k)
    IN  Fragments3(Cut(Cut(w, id, e[1], v[2], h[1], h[2]), id, e[3], v[1], h[3], h[1]), id, k, node, h)

\* Corner k is on the plane, the others on different sides of it.
Fragments2(w, id, k, node, h) ==
    LET area == w.patch[id].area
        v    == From(w.patch[id].ev, k)
        e    == From(w.patch[id].e, k)
        a    == Middle(w, e[2])
        e_a1 == Len(w.edge) + 1
    IN  [create_edge(w, a, v[1]) EXCEPT !.pending = <<
            Piece(id, FALSE, <<v[1], v[2], a>>, <<e[1], First(w, e[2], v[3]), e_a1>>,
                  Whole(h[2] * area, h[2] + h[3]), node),
            Piece(id, TRUE, <<v[1], a, v[3]>>, <<e_a1, Second(w, e[2], v[3]), e[3]>>,
                  Whole(h[3] * area, h[2] + h[3]), node) >> \o @]

split_into_2(w, id, k, node) ==
    LET h == From(Distance(w, id, node), k)
    IN  Fragments2(Cut(w, id, From(w.patch[id].e, k)[2], From(w.patch[id].ev, k)[3], h[2], h[3]), id, k, node, h)

split_patch(w, id, node) ==
    LET c == [i \in 1 .. 3 |-> Sign(plane_equ(w.patch[node].plane_equ, w.vertex[w.patch[id].ev[i]]))]
    IN  CASE c[1] = c[2] -> split_into_3(w, id, 3, node)
          [] c[1] = c[3] -> split_into_3(w, id, 2, node)
          [] c[2] = c[3] -> split_into_3(w, id, 1, node)
          [] OTHER -> split_into_2(w, id, CHOOSE k \in 1 .. 3 : c[k] = 0, node)

\* Down the tree from node, to a leaf or to a plane that splits the patch.
RECURSIVE Descend(_, _, _)
Descend(w, id, node) ==
    LET t == Corners(w, w.patch[id])
        n == w.patch[node]
    IN  IF POSITIVE_SIDE(n.plane_equ, t)
        THEN IF n.bsp_positive # 0 THEN Descend(w, id, n.bsp_positive)
             ELSE refine_newpatch(attach_element([w EXCEPT !.patch[node].bsp_positive = id,
                                                           !.patch[id].bsp_parent = node], id), id)
        ELSE IF NEGATIVE_SIDE(n.plane_equ, t)
        THEN IF n.bsp_negative # 0 THEN Descend(w, id, n.bsp_negative)
             ELSE refine_newpatch(attach_element([w EXCEPT !.patch[node].bsp_negative = id,
                                                           !.patch[id].bsp_parent = node], id), id)
        ELSE split_patch(w, id, node)

define_patch(w) ==
    LET f    == Head(w.pending)
        p    == w.patch[f.id]
        u    == [w EXCEPT !.pending = Tail(@)]
        new  == IF f.reuse THEN [u EXCEPT !.patch[f.id].ev = f.ev, !.patch[f.id].e = f.e, !.patch[f.id].area = f.area]
                ELSE [get_patch(u, f.ev, f.e, f.area, p.model, p.plane_equ) EXCEPT
                        !.recut = IF f.id \in @ THEN @ \cup {Len(u.patch) + 1} ELSE @]
        id   == IF f.reuse THEN f.id ELSE Len(new.patch)
        from == IF f.parent # 0 THEN f.parent ELSE w.bsp_root
    IN  IF from = 0 THEN attach_element([new EXCEPT !.bsp_root = id], id) ELSE Descend(new, id, from)

\* A triangle, or a rectangle that its second and third corners cut in two.
process_model(w, model, k) ==
    LET t    == model.p
        plane == comp_plane_equ(t)
        n    == Len(w.vertex)
        m    == Len(w.edge)
        v    == create_elemvertex(create_elemvertex(create_elemvertex(w, t[1]), t[2]), t[3])
        e    == create_edge(create_edge(create_edge(v, n + 1, n + 2), n + 2, n + 3), n + 3, n + 1)
        ev   == <<n + 1, n + 2, n + 3>>
        es   == <<m + 1, m + 2, m + 3>>
        p    == get_patch(e, ev, es, AreaOf(t), k, plane)
        id   == Len(p.patch)
        v4   == create_elemvertex(p, Minus(Plus(t[2], t[3]), t[1]))
        e4   == create_edge(create_edge(v4, n + 4, n + 3), n + 2, n + 4)
        q    == get_patch(e4, <<n + 4, n + 3, n + 2>>, <<m + 4, m + 2, m + 5>>, AreaOf(t), k, plane)
        At(x, i) == Piece(i, TRUE, x.patch[i].ev, x.patch[i].e, AreaOf(t), 0)
    IN  IF model.type = "triangle" THEN [p EXCEPT !.pending = <<At(p, id)>>]
        ELSE [q EXCEPT !.pending = <<At(q, id), At(q, id + 1)>>]

-----------------------------------------------------------------------------
\* Four children, each a quarter: edges new + 1 to new + 3 join the middles.
Quarters(w, x, new) ==
    LET el  == w.element[x]
        v   == el.ev
        m12 == Middle(w, el.e[1])
        m23 == Middle(w, el.e[2])
        m31 == Middle(w, el.e[3])
        edges == create_edge(create_edge(create_edge(w, m12, m23), m23, m31), m31, m12)
        Child(u, ev, e) == get_element(u, ev, e, el.patch, x, Whole(el.area, 4))
        center == Child(edges, <<m23, m31, m12>>, <<new + 2, new + 3, new + 1>>)
        top    == Child(center, <<v[1], m12, m31>>, <<First(w, el.e[1], v[2]), new + 3, Second(w, el.e[3], v[1])>>)
        left   == Child(top, <<m12, v[2], m23>>, <<Second(w, el.e[1], v[2]), First(w, el.e[2], v[3]), new + 1>>)
        right  == Child(left, <<m31, m23, v[3]>>, <<new + 2, Second(w, el.e[2], v[3]), First(w, el.e[3], v[1])>>)
    IN  [right EXCEPT !.element[x].leaf = FALSE]

Halved(w, e) == subdivide_edge(w, e, 1, 1)
Halves(w, e) == Halved(Halved(Halved(w, e[1]), e[2]), e[3])
Joined(w, x) == Quarters(w, x, Len(w.edge))
subdivide_element(w, x) == IF w.element[x].leaf THEN Joined(Halves(w, w.element[x].e), x) ELSE w

\* The vertices that radiosity_averaging adds the light of a leaf to.
add_radiosity_to_vertex(w, e, reverse) == IF reverse THEN w.edge[e].pb ELSE w.edge[e].pa
Side(w, x, i) ==
    LET el      == w.element[x]
        reverse == EDGE_REVERSE(w, el.e[i], el.ev[(i % 3) + 1])
        leaves  == foreach_leaf_edge(w, el.e[i], reverse)
    IN  [j \in DOMAIN leaves |-> add_radiosity_to_vertex(w, leaves[j], reverse)]
radiosity_averaging(w, x) == Side(w, x, 1) \o Side(w, x, 2) \o Side(w, x, 3)

-----------------------------------------------------------------------------
\* Points of rays in twelfths of a side (TTICK), parameters t as fractions.
TTICK == 12
rand_ray1 == << <<1, 1>>, <<1, 10>>, <<10, 1>>, <<2, 2>>, <<2, 8>>, <<8, 2>>, <<2, 5>>, <<5, 5>>, <<5, 2>>, <<4, 4>> >>
rand_ray2 == << <<1, 1>>, <<1, 10>>, <<10, 1>>, <<8, 2>>, <<2, 2>>, <<2, 8>>, <<5, 5>>, <<5, 2>>, <<2, 5>>, <<4, 4>> >>
Rays == DOMAIN rand_ray1        \* N_VISIBILITY_TEST_RAYS

Spot(t, r) == Plus(Times(TTICK, t[1]), Plus(Times(r[1], Minus(t[2], t[1])), Times(r[2], Minus(t[3], t[1]))))
get_test_ray(w, e1, e2, i) ==
    LET from == Spot(Corners(w, w.element[e1]), rand_ray1[i])
        to   == Spot(Corners(w, w.element[e2]), rand_ray2[i])
    IN  [src |-> w.element[e1].patch, dst |-> w.element[e2].patch, p |-> from, v |-> Minus(to, from)]

Fraction(a, b) == IF b < 0 THEN [n |-> -a, d |-> -b] ELSE [n |-> a, d |-> b]
\* t < u - VIS_RANGE_MARGIN, a hundredth.
Before(t, u) == 100 * (t.n * u.d - u.n * t.d) < -(t.d * u.d)

r_dot_n(w, node, ray) == inner_product(w.patch[node].plane_equ.n, ray.v)
dist(w, node, ray) == TTICK * w.patch[node].plane_equ.c + inner_product(w.patch[node].plane_equ.n, ray.p)

\* Where the ray meets the plane of node within the range from a margin
\* before lo to a margin after hi; t stays what it was if it never does.
intersection_type(w, node, ray, t, lo, hi) ==
    LET r == r_dot_n(w, node, ray)
        h == dist(w, node, ray)
        u == Fraction(-h, r)
    IN  IF r = 0 THEN [t |-> t, advice |-> IF h > 0 THEN "positive" ELSE IF h < 0 THEN "negative" ELSE "on"]
        ELSE [t |-> u, advice |-> IF Before(u, lo) THEN IF r > 0 THEN "positive" ELSE "negative"
                                  ELSE IF Before(hi, u) THEN IF r > 0 THEN "negative" ELSE "positive"
                                  ELSE IF r > 0 THEN "negative first" ELSE "positive first"]
Outside(a) == a.advice \in {"positive", "negative"}

\* Whether an odd number of sides lie to the right of the point at t, in the
\* projection along the largest component of the normal.
Crosses(x, y, i, j) ==
    /\ (y[i] >= 0) # (y[j] >= 0)
    /\ \/ x[i] >= 0 /\ x[j] >= 0
       \/ /\ x[i] >= 0 \/ x[j] >= 0
          /\ (x[i] * y[j] - y[i] * x[j]) * Sign(y[j] - y[i]) > 0
Odd(x, y) == Cardinality({s \in {<<1, 2>>, <<2, 3>>, <<1, 3>>} : Crosses(x, y, s[1], s[2])}) % 2 = 1
Projection(n) ==
    IF n[1] > n[2] THEN IF n[1] > n[3] THEN <<2, 3>> ELSE <<1, 2>>
    ELSE IF n[2] > n[3] THEN <<1, 3>> ELSE <<1, 2>>
v_intersect(w, node, ray, t) ==
    LET ax == Projection([i \in Axes |-> Abs(w.patch[node].plane_equ.n[i])])
        At(i, k) == t.d * (TTICK * w.vertex[w.patch[node].ev[i]][k] - ray.p[k]) - t.n * ray.v[k]
    IN  Odd([i \in 1 .. 3 |-> At(i, ax[1])], [i \in 1 .. 3 |-> At(i, ax[2])])

\* A walk ends at a patch, or Inside a plane; Missed goes on.
Missed == 0
Inside == -1

test_intersection(w, cache, node, ray, t) ==
    IF node = ray.dst THEN node
    ELSE IF \E i \in DOMAIN cache : cache[i] = node THEN Missed        \* patch_tested
    ELSE IF v_intersect(w, node, ray, t) THEN node ELSE Missed

RECURSIVE traverse_subtree(_, _, _, _, _, _)
traverse_subtree(w, cache, node, ray, lo, hi) ==
    LET a    == intersection_type(w, node, ray, lo, lo, hi)
        pos  == w.patch[node].bsp_positive
        neg  == w.patch[node].bsp_negative
        near == traverse_subtree(w, cache, IF a.advice = "positive first" THEN pos ELSE neg, ray, lo, a.t)
        far  == traverse_subtree(w, cache, IF a.advice = "positive first" THEN neg ELSE pos, ray, a.t, hi)
        here == test_intersection(w, cache, node, ray, a.t)
    IN  IF node = 0 THEN Missed
        ELSE CASE a.advice = "positive" -> traverse_subtree(w, cache, pos, ray, lo, hi)
               [] a.advice = "negative" -> traverse_subtree(w, cache, neg, ray, lo, hi)
               [] a.advice = "on" -> Inside
               [] OTHER -> IF near # Missed THEN near ELSE IF here # Missed THEN here ELSE far

\* From node up to the root: each ancestor, and the subtree that the walk has
\* not come from.
RECURSIVE Climb(_, _, _, _, _, _)
Climb(w, cache, node, ray, t, lo) ==
    LET parent == w.patch[node].bsp_parent
        a      == intersection_type(w, parent, ray, t, lo, Fraction(1, 1))
        here   == IF Outside(a) THEN Missed ELSE test_intersection(w, cache, parent, ray, a.t)
        lo2    == IF Outside(a) THEN lo ELSE a.t
        pos    == w.patch[parent].bsp_positive
        other  == IF pos = node
                  THEN IF a.advice = "positive" THEN 0 ELSE w.patch[parent].bsp_negative
                  ELSE IF a.advice = "negative" THEN 0 ELSE pos
        there  == traverse_subtree(w, cache, other, ray, lo2, Fraction(1, 1))
    IN  IF parent = 0 THEN Missed
        ELSE IF here # Missed THEN here
        ELSE IF there # Missed THEN there
        ELSE Climb(w, cache, parent, ray, a.t, lo2)

PATCH_CACHE_SIZE == 2
NoCache == [i \in 1 .. PATCH_CACHE_SIZE |-> 0]
update_patch_cache(cache, patch) == <<patch>> \o SubSeq(cache, 1, PATCH_CACHE_SIZE - 1)
\* Mutant: the destination may block the ray to it.
check_patch_cacheAll(w, cache, ray) ==
    {i \in DOMAIN cache :
        /\ cache[i] \notin {0, ray.src}
        /\ LET a == intersection_type(w, cache[i], ray, Fraction(0, 1), Fraction(0, 1), Fraction(1, 1))
           IN  a.advice = "on" \/ (~Outside(a) /\ v_intersect(w, cache[i], ray, a.t))}
check_patch_cache(w, cache, ray) ==
    {i \in DOMAIN cache :
        /\ cache[i] \notin {0, ray.src, ray.dst}
        /\ LET a == intersection_type(w, cache[i], ray, Fraction(0, 1), Fraction(0, 1), Fraction(1, 1))
           IN  a.advice = "on" \/ (~Outside(a) /\ v_intersect(w, cache[i], ray, a.t))}
Swap(cache, i) == IF i = 1 THEN cache ELSE [cache EXCEPT ![i - 1] = cache[i], ![i] = cache[i - 1]]

\* One ray: what the cache is afterwards, and whether the destination was hit.
Blocked(cache, cached) == [cache |-> Swap(cache, CHOOSE i \in cached : \A j \in cached : i <= j), hit |-> FALSE]
Ended(cache, ray, end) ==
    [cache |-> IF end \in {ray.dst, Missed, Inside} THEN cache ELSE update_patch_cache(cache, end), hit |-> end = ray.dst]
Walk(w, cache, ray, above) == IF above # Missed THEN above ELSE Climb(w, cache, ray.src, ray, Fraction(0, 1), Fraction(0, 1))
traverse_bsp(w, cache, ray, cached) ==
    IF cached # {} THEN Blocked(cache, cached)
    ELSE Ended(cache, ray, Walk(w, cache, ray, traverse_subtree(w, cache, w.patch[ray.src].bsp_positive, ray,
                                                                Fraction(0, 1), Fraction(1, 1))))

Rejected(w, ray) == r_dot_n(w, ray.src, ray) <= 0 \/ r_dot_n(w, ray.dst, ray) >= 0

\* The cache, and the rays that hit, after a call.  (A tenth of them is said to
\* hit if all were rejected: a number nothing here depends on.)
Tried(w, s, i, ray) ==
    IF Rejected(w, ray) THEN s
    ELSE LET end == traverse_bsp(w, s.cache, ray, check_patch_cache(w, s.cache, ray))
         IN  [cache |-> end.cache, hits |-> IF end.hit THEN s.hits \cup {i} ELSE s.hits]
visibility(w, cache, e1, e2) ==
    FoldLeft(LAMBDA s, i : Tried(w, s, i, get_test_ray(w, e1, e2, i)), [cache |-> cache, hits |-> {}], [i \in Rays |-> i])

-----------------------------------------------------------------------------
VARIABLES scene, world, models, divisions, patch_cache, sight, sights
vars == <<scene, world, models, divisions, patch_cache, sight, sights>>

NoSight == [e1 |-> 0, e2 |-> 0, hits |-> {}]

Init ==
    /\ scene \in DOMAIN Scenes /\ world = Nothing /\ models = 0 /\ divisions = 0
    /\ patch_cache = NoCache /\ sight = NoSight /\ sights = 0

init_modeling_tasks ==
    /\ world.pending = <<>> /\ models < Len(Scenes[scene])
    /\ models' = models + 1
    /\ world' = process_model(world, Scenes[scene][models + 1], models + 1)
    /\ UNCHANGED <<scene, divisions, patch_cache, sight, sights>>

BspTask ==
    /\ world.pending # <<>> /\ world' = define_patch(world)
    /\ UNCHANGED <<scene, models, divisions, patch_cache, sight, sights>>

Built == models = Len(Scenes[scene]) /\ world.pending = <<>>

\* bf_refine_element finds an interaction too coarse.  Points and areas come
\* out whole, a bound like MaxDivisions.
Refine ==
    /\ Built /\ divisions < MaxDivisions[scene]
    /\ \E x \in DOMAIN world.element :
         /\ world.element[x].leaf /\ world.element[x].area % 4 = 0
         /\ \A i \in 1 .. 3 : LET e == world.edge[world.element[x].e[i]]
                             IN  e.ea = 0 => \A k \in Axes : (world.vertex[e.pa][k] + world.vertex[e.pb][k]) % 2 = 0
         /\ \E l \in DOMAIN world.linked : world.element[x].patch \in {world.linked[l][1], world.linked[l][2]}
         /\ world' = subdivide_element(world, x)
    /\ divisions' = divisions + 1
    /\ UNCHANGED <<scene, models, patch_cache, sight, sights>>

Linked(x, y) == \E l \in DOMAIN world.linked :
    {world.linked[l][1], world.linked[l][2]} = {world.element[x].patch, world.element[y].patch}

ComputeVisibility ==
    /\ Built /\ sights < MaxSights[scene] /\ sights' = sights + 1
    /\ \E e1, e2 \in DOMAIN world.element :
         /\ Linked(e1, e2)
         /\ LET v == visibility(world, patch_cache, e1, e2)
            IN  patch_cache' = v.cache /\ sight' = [e1 |-> e1, e2 |-> e2, hits |-> v.hits]
    /\ UNCHANGED <<scene, world, models, divisions>>

Next == init_modeling_tasks \/ BspTask \/ Refine \/ ComputeVisibility
Spec == Init /\ [][Next]_vars

-----------------------------------------------------------------------------
\* Properties.
InTree == {p \in DOMAIN world.patch : world.patch[p].el_root # 0}
Below(node) == ToSet(_foreach_patch(world, node))
Total(S, area(_)) == FoldSet(LAMBDA x, sum : sum + area(x), 0, S)
Sees(a, b) == \E v \in ToSet(world.patch[b].ev) : plane_equ(world.patch[a].plane_equ, world.vertex[v]) > 0
OfModel(k) == {p \in DOMAIN world.patch : world.patch[p].model = k}

\* Every patch lies on its side of every node above it; two patches are linked
\* exactly once if they face each other, and not otherwise, though the last
\* fragment of a patch has an older number than the others; the fragments of a
\* model have its area, and each the area of its triangle, unless an edge of
\* the patch it is a fragment of had been cut for another plane
\* (patchman.C:139-229, 286-439, 475-510).
PatchesExact ==
    /\ \A p \in InTree :
         LET n == world.patch[p]
         IN  /\ \A q \in Below(n.bsp_positive) : POSITIVE_SIDE(n.plane_equ, Corners(world, world.patch[q]))
             /\ \A q \in Below(n.bsp_negative) : NEGATIVE_SIDE(n.plane_equ, Corners(world, world.patch[q]))
    /\ \A a, b \in InTree :
         Cardinality({l \in DOMAIN world.linked : world.linked[l] = <<a, b>>}) = IF a < b /\ Sees(a, b) /\ Sees(b, a) THEN 1 ELSE 0
    /\ \A p \in InTree \ world.recut : world.patch[p].area = AreaOf(Corners(world, world.patch[p]))
    /\ Built => \A k \in 1 .. models :
         LET m == Scenes[scene][k]
         IN  Total(OfModel(k), LAMBDA p : world.patch[p].area) = AreaOf(m.p) * IF m.type = "rectangle" THEN 2 ELSE 1

Leaves(k) == {x \in DOMAIN world.element : world.element[x].leaf /\ world.patch[world.element[x].patch].model = k}
Between(p, a, b) ==
    LET u == Minus(p, a) v == Minus(b, a)
    IN  cross_product(u, v) = <<0, 0, 0>> /\ inner_product(u, v) \in 0 .. inner_product(v, v)

\* Each leaf gives its light once to every vertex on its border, those that
\* its neighbours were divided in included, however the plane of a node has
\* cut them apart before (display.C:28-118, smallobj.C:440-532, elemman.C:541-648).
VerticesShared ==
    Built => \A k \in 1 .. models : \A x \in Leaves(k) :
        LET t    == Corners(world, world.element[x])
            seen == radiosity_averaging(world, x)
            all  == UNION {ToSet(world.element[y].ev) : y \in Leaves(k)}
            on   == {v \in all : \E i \in 1 .. 3 : Between(world.vertex[v], t[i], t[(i % 3) + 1])}
        IN  ToSet(seen) = on /\ Len(seen) = Cardinality(on)

\* The ray from ray.p along ray.v and the triangle of patch q.
Volume(a, b, c) == inner_product(a, cross_product(b, c))
Turn(ray, q) ==
    LET c == [i \in 1 .. 3 |-> Minus(Times(TTICK, Corners(world, world.patch[q])[i]), ray.p)]
    IN  {Sign(Volume(ray.v, c[1], c[2])), Sign(Volume(ray.v, c[2], c[3])), Sign(Volume(ray.v, c[3], c[1]))}
Where(ray, q) == Fraction(-dist(world, q, ray), r_dot_n(world, q, ray))
Crossed(ray, q) == r_dot_n(world, q, ray) # 0 /\ ~Before(Where(ray, q), Fraction(0, 1)) /\ ~Before(Fraction(1, 1), Where(ray, q))
Through(ray, q) ==
    /\ Turn(ray, q) \in {{1}, {-1}} /\ Crossed(ray, q)
    /\ Where(ray, q).n > 0 /\ Where(ray, q).n < Where(ray, q).d
Clear(ray, q) ==
    \/ {1, -1} \subseteq Turn(ray, q)
    \/ r_dot_n(world, q, ray) # 0 /\ ~Crossed(ray, q)
\* No patch is touched at its border or an end of the ray, and the ray is in no plane.
Sharp(ray) == \A q \in InTree \ {ray.src, ray.dst} :
    /\ r_dot_n(world, q, ray) # 0 \/ dist(world, q, ray) # 0
    /\ Through(ray, q) \/ Clear(ray, q)

RECURSIVE Ancestors(_)
Ancestors(p) == IF world.patch[p].bsp_parent = 0 THEN <<>> ELSE <<world.patch[p].bsp_parent>> \o Ancestors(world.patch[p].bsp_parent)
\* A node is crossed before another that is nearer to the source in the tree.
Overtaken(ray) ==
    LET a == Ancestors(ray.src)
    IN  \E i, j \in DOMAIN a : i < j /\ Crossed(ray, a[i]) /\ Crossed(ray, a[j]) /\ Before(Where(ray, a[j]), Where(ray, a[i]))

Told(i) == i \in sight.hits
Right(i) ==
    LET ray == get_test_ray(world, sight.e1, sight.e2, i)
    IN  Rejected(world, ray) \/ ~Sharp(ray) \/ (Told(i) <=> \A q \in InTree \ {ray.src, ray.dst} : Clear(ray, q))

\* A ray reaches the destination if and only if no patch is in its way, whatever
\* the cache holds and whichever subtrees the walk leaves out, unless it
\* crosses an ancestor of the source after one that is higher in the tree
\* (visible.C:305-430, 509-612, 639-703).
SightExact == sights > 0 => \A i \in Rays :
    Right(i) \/ Overtaken(get_test_ray(world, sight.e1, sight.e2, i))

\* "For each ancestor node of the source node, visit it (immediate parent first).
\* Test if the node intercepts the ray" (visible.C:313-315).
AncestorsTested == sights > 0 => \A i \in Rays : Right(i)
=============================================================================
