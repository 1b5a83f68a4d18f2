---------------------------- MODULE RaytraceTrace ----------------------------
(***************************************************************************)
(* What raytrace does for one pixel: the ray through it (trace.C and the   *)
(* view of env.C), the surface it meets (shade.C), the rays that go on     *)
(* from there and their stack (raystack.C).                                *)
(*                                                                         *)
(* A colour is kept as the list of its contributions: the surface and the  *)
(* element or the background, the weight of the ray and what reaches the   *)
(* point of each light.  Weights and coefficients are in quarters.         *)
(***************************************************************************)
EXTENDS RaytraceGrid

CONSTANTS
    View,            \* [eye, coi, projection, shad] of the environment file
    Screen,          \* Display: [scrHalfWidth, scrHalfHeight, scrDist, vWscale, vHscale]
    Lights,          \* [pos, shadow]
    maxlevel, minweight

NumSubRays == 1

\* NormalizeEnv: eye, centre of interest and lights go with the model.
ModelNorm == NormMat([o \in DOMAIN GeoFile |-> TransformObject(ReadObject(GeoFile[o]), Model)])
NormalizeEnv(view) ==
    [view EXCEPT !.eye = VecMatMult(@, 1, ModelNorm), !.coi = VecMatMult(@, 1, ModelNorm)]
TransformLights == [i \in DOMAIN Lights |-> [Lights[i] EXCEPT !.pos = VecMatMult(@, 1, ModelNorm)]]

\* ViewRotate, whose rows are unit vectors: Length times as long.  Its
\* inverse is its transpose.
ViewLength(w) == Root(w[1] * w[1] + w[3] * w[3]) * Root(Dot(w, w))
ViewRotate(w) ==
    LET rx == Root(w[1] * w[1] + w[3] * w[3])
        r  == Root(Dot(w, w))
    IN  IF rx = 0
        THEN LET s == IF w[2] > 0 THEN 1 ELSE -1 IN << <<1, 0, 0>>, <<0, 0, s>>, <<0, -s, 0>> >>
        ELSE << <<w[3] * r, -(w[1] * w[2]), w[1] * rx>>, <<0, rx * rx, w[2] * rx>>,
                <<-(w[1] * r), -(w[2] * w[3]), w[3] * rx>> >>
TransformViewRay(v, M) == <<Dot(v, M[1]), Dot(v, M[2]), Dot(v, M[3])>>

(* ConvertPrimRayJobToRayMsg: the ray through a pixel.                     *)
ConvertPrimRayJobToRayMsg(view, x, y) ==
    LET w      == VecNorm(Minus(view.coi, view.eye))
        M      == ViewRotate(w)
        length == IF ViewLength(w) = 0 THEN 1 ELSE ViewLength(w)
        across == (x * Screen.vWscale) - Screen.scrHalfWidth
        up     == Screen.scrHalfHeight - (y * Screen.vHscale)
        origin == TransformViewRay(<<across, up, 0>>, M)
    IN  IF view.projection = "PT_PERSP"
        THEN Ray(view.eye, TransformViewRay(<<across, up, Screen.scrDist>>, M))
        ELSE Ray(Plus(view.eye, <<origin[1] \div length, origin[2] \div length, origin[3] \div length>>),
                 TransformViewRay(<<0, 0, 1>>, M))

-----------------------------------------------------------------------------
(* A scene is [TraversalType, objects, hierarchy, lights].                 *)
RECURSIVE RayTree(_, _, _)

NearestHit(scene, r) ==
    IF scene.TraversalType = "TT_LIST" THEN Intersect(r, scene.objects)
    ELSE TraverseHierarchyUniform(r, scene.hierarchy)
ShadowTest(scene, r, lightlength, pe) ==
    IF scene.TraversalType = "TT_LIST" THEN ShadowIntersect(r, scene.objects, lightlength, pe)
    ELSE HuniformShadowIntersect(r, scene.hierarchy, lightlength, pe)

\* The reflected and the refracted ray; I meets N.v from the front.
SpecularDirection(N, I) == VecNorm(Plus(Times(N.sq, I), Times(2 * Size(Dot(I, N.v)), N.v)))
Refracted(N, I, kn2) ==
    LET cos == Size(Dot(I, N.v))
    IN  ((kn2[1] - kn2[2]) * Dot(I, I) * N.sq) \div kn2[2]
           + (2 * cos * cos) - ((cos * cos * Dot(N.v, N.v)) \div N.sq)
TransmissionDirection(N, I, kn2) ==
    VecNorm(Plus(Times(N.sq, I), Times(Size(Dot(I, N.v)) - Root(Refracted(N, I, kn2)), N.v)))

\* What reaches a point of a light; one behind the surface is not asked.
NotFacing == -2
Lit(scene, light, iP, N, pe) ==
    LET Lvec == Minus(light.pos, iP)
        ray  == Ray(iP, Lvec)
    IN  IF Dot(N.v, Lvec) <= 0 THEN NotFacing
        ELSE IF View.shad /\ ~light.shadow THEN ShadowTest(scene, ray, (Longest(Lvec) * ray.q) \div Longest(ray.D), pe)
        ELSE Full

\* A ray message is [ray, level, weight].
Secondary(msg, iP, D, k) == [ray |-> Ray(iP, D), level |-> msg.level + 1, weight |-> (k * msg.weight) \div Clear]
Shade(scene, msg, hit, iP, N) ==
    LET surf  == hit.pelem.parent.surf
        I     == msg.ray.D
        spec  == Secondary(msg, iP, SpecularDirection(N, I), surf.kspec)
        trans == Secondary(msg, iP, TransmissionDirection(N, I, surf.kn2), surf.ktran)
    IN  [color |-> [object |-> hit.pelem.parent.id, weight |-> msg.weight,
                    lit |-> [i \in DOMAIN scene.lights |-> Lit(scene, scene.lights[i], iP, N, hit.pelem)]],
         push |-> IF msg.level + 1 >= maxlevel THEN <<>>
                  ELSE (IF spec.weight > minweight THEN <<spec>> ELSE <<>>)
                       \o (IF trans.weight > minweight /\ Refracted(N, I, surf.kn2) > 0 THEN <<trans>> ELSE <<>>)]

\* The ray tree of a pixel.  The stack has its top last.
Power2[n \in Nat] == IF n = 0 THEN 1 ELSE 2 * Power2[n - 1]
StackSize == (Power2[maxlevel] - 1) + NumSubRays
Background(weight) == [object |-> 0, weight |-> weight, lit |-> <<>>]
ErrorExit == <<[object |-> -1, weight |-> 0, lit |-> <<>>]>>
Facing(N, D) == IF Dot(D, N.v) > 0 THEN [N EXCEPT !.v = Times(-1, @)] ELSE N
ShadeAt(scene, msg, hit, iP) == Shade(scene, msg, hit, iP, Facing(Normal(hit, iP), msg.ray.D))
Grow(scene, rest, colors, shade) == RayTree(scene, rest \o shade.push, Append(colors, shade.color))
Visit(scene, rest, colors, msg, hit) ==
    IF hit.t < 0 THEN ErrorExit
    ELSE IF hit = NoHit THEN RayTree(scene, rest, Append(colors, Background(msg.weight)))
    ELSE Grow(scene, rest, colors, ShadeAt(scene, msg, hit, RayPoint(msg.ray, hit.t)))
RayTree(scene, stack, colors) ==
    IF stack = <<>> THEN colors
    ELSE IF Len(stack) > StackSize THEN ErrorExit
    ELSE Visit(scene, Front(stack), colors, Last(stack), NearestHit(scene, Last(stack).ray))
PixelColors(scene, pixel) ==
    RayTree(scene, <<[ray |-> ConvertPrimRayJobToRayMsg(NormalizeEnv(View), pixel[1], pixel[2]),
                      level |-> 0, weight |-> 4 * Clear]>>, <<>>)
=============================================================================
