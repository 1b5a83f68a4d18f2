--------------------------- MODULE VolrendAdaptive --------------------------
(***************************************************************************)
(* Adaptive sampling in volrend: Ray_Trace_Adaptively with the recursive   *)
(* Ray_Trace_Adaptive_Box, a barrier, and Interpolate_Recursively          *)
(* (adaptive.C), one frame over a cleared image and mask.                  *)
(*                                                                         *)
(* Nodes trace the corners of boxes, marking each pixel in a mask that is  *)
(* read and written without a lock; neighbouring boxes share corners.      *)
(* Which node gets a block is left open: VolrendQueue shows that each is   *)
(* traced, and that two nodes may trace the same one.  Every access to     *)
(* MASK_IMAGE that another node can come between is a step.                *)
(***************************************************************************)
EXTENDS VolrendRay

CONSTANTS
    num_nodes,
    image_lenX, image_lenY,
    image_sectionX,              \* Init_Decomposition
    block_len,                   \* block_xlen = block_ylen
    highest_sampling_boxlen,
    volume_color_difference,
    window,                      \* bound: the part of the picture that is traced
    Views,                       \* views whose rays are compared
    Retaken,                     \* bound: the blocks two nodes may take
    Rereads                      \* does the compiled spin loop read the mask?

Nodes  == 0 .. num_nodes - 1
image_sectionY == num_nodes \div image_sectionX
Pixels == (0 .. image_lenX - 1) \X (0 .. image_lenY - 1)

PowersOfTwo == {1, 2, 4, 8}

\* The points of two nested loops: for y in y1, y1+by .. y2, for x likewise.
Loops(x1, x2, y1, y2, by) ==
    LET nx == IF x1 > x2 THEN 0 ELSE ((x2 - x1) \div by) + 1
        ny == IF y1 > y2 THEN 0 ELSE ((y2 - y1) \div by) + 1
    IN  [n \in 1 .. nx * ny |-> <<x1 + ((n - 1) % nx) * by, y1 + ((n - 1) \div nx) * by>>]

\* A box, its corners, its half-way points and its four sub-boxes, as far
\* as they lie in the image.
Box(x, y, len) == [x |-> x, y |-> y, len |-> len]
BoxesAt(points, len) == [n \in DOMAIN points |-> Box(points[n][1], points[n][2], len)]
Grid(b, by) == Loops(b.x, Lower(b.x + b.len, image_lenX - 1),
                     b.y, Lower(b.y + b.len, image_lenY - 1), by)
Corners(b)  == Grid(b, b.len)
Points(b)   == Grid(b, b.len \div 2)
SubBoxes(b) ==
    BoxesAt(Loops(b.x, Lower(b.x + b.len, image_lenX) - 1,
                  b.y, Lower(b.y + b.len, image_lenY) - 1, b.len \div 2), b.len \div 2)

\* Is the box to be divided, with these colours at its corners?
Subdivide(b, seen) ==
    /\ b.len > 1                             \* lowest_volume_boxlen
    /\ \E m, n \in DOMAIN seen : seen[m] - seen[n] >= volume_color_difference

\* The boxes of a block: from its corner, clipped at xstop and ystop.
BoxesIn(xindex, yindex, xstop, ystop) ==
    BoxesAt(Loops(xindex, Lower(xindex + block_len, xstop) - 1,
                  yindex, Lower(yindex + block_len, ystop) - 1, highest_sampling_boxlen),
            highest_sampling_boxlen)

\* The boxes of block `work' of section q.  A section starts at a multiple
\* of the box length.
num_xqueue   == Up(image_lenX, image_sectionX)
num_yqueue   == Up(image_lenY, image_sectionY)
lnum_xblocks == Up(num_xqueue, block_len)
lnum_yblocks == Up(num_yqueue, block_len)
Works == Nodes \X (0 .. (lnum_xblocks * lnum_yblocks) - 1)

ASSUME AdaptiveAssumption ==
    /\ num_nodes \in Nat \ {0} /\ image_lenX \in Nat \ {0} /\ image_lenY \in Nat \ {0}
    /\ image_sectionX \in 1 .. num_nodes /\ image_sectionX * image_sectionY = num_nodes
    /\ highest_sampling_boxlen \in PowersOfTwo \ {1}
    /\ block_len % highest_sampling_boxlen = 0
    /\ volume_color_difference \in Nat
    /\ window \in Nat \X Nat /\ view \in Views
    /\ Retaken \subseteq Works /\ Rereads \in BOOLEAN

AlignUp(a) == Up(a, highest_sampling_boxlen) * highest_sampling_boxlen
BoxesOfUnaligned(q, work) ==       \* mutant: sections start anywhere
    LET xstart == (q % image_sectionX) * num_xqueue
        ystart == (q \div image_sectionX) * num_yqueue
        xstop  == Lower(xstart + num_xqueue, image_lenX)
        ystop  == Lower(ystart + num_yqueue, image_lenY)
    IN  BoxesIn(xstart + (work % lnum_xblocks) * block_len,
                ystart + (work \div lnum_xblocks) * block_len, xstop, ystop)
BoxesOf(q, work) ==
    LET xstart == AlignUp((q % image_sectionX) * num_xqueue)
        ystart == AlignUp((q \div image_sectionX) * num_yqueue)
        xstop  == Lower(xstart + num_xqueue, image_lenX)
        ystop  == Lower(ystart + num_yqueue, image_lenY)
    IN  BoxesIn(xstart + (work % lnum_xblocks) * block_len,
                ystart + (work \div lnum_xblocks) * block_len, xstop, ystop)

\* Interpolate_Recursively: every num_nodes-th block of the whole image.
num_xblocks == Up(image_lenX, block_len)
num_yblocks == Up(image_lenY, block_len)
InterpolationOf(p) ==
    FlattenSeq([n \in 1 .. Up(num_xblocks * num_yblocks, num_nodes) |->
        LET i == p + (n - 1) * num_nodes
        IN  BoxesIn((i % num_xblocks) * block_len, (i \div num_xblocks) * block_len,
                    image_lenX, image_lenY)])

-----------------------------------------------------------------------------
VARIABLES
    octree,          \* what the volume was made into
    sight, lights,   \* what root made of the view and the light
    Counter, shd,    \* nodes still shading, and the table they shade
    pc,          \* where each node is
    todo,        \* the blocks a node may still take
    boxes,       \* the boxes it has to do, the recursion included
    place,       \* index of the pixel it is at in its first box
    colors,      \* the colours it has seen in this box
    mask, image, \* MASK_IMAGE, IMAGE
    found,       \* what Trace_Ray finds at each pixel with the table as it is
    rays,        \* history: the rays composited into a pixel
    ideal        \* history: the rays and the image of one careful node

volume  == <<octree, sight, lights, ideal>>
shading == <<Counter, shd>>
own     == <<pc, todo, boxes, place, colors>>
picture == <<mask, image, rays>>
moves   == <<shading, own, picture>>
vars    == <<volume, moves, found>>

Masks == {"NULL_PIXEL", "START_RAY", "RAY_TRACED", "INTERPOLATED"}

TypeOK ==
    /\ Counter \in 0 .. num_nodes /\ shd \in [Addresses -> 0 .. 255]
    /\ pc \in [Nodes -> {"start", "shade", "count", "spin",
                         "take", "look", "mark", "trace", "store", "marktraced", "wait", "barrier",
                         "box", "test", "fill", "markfilled", "hung", "done"}]
    /\ todo \in [Nodes -> SUBSET Works]
    /\ boxes \in [Nodes -> Seq([x : Nat, y : Nat, len : PowersOfTwo])]
    /\ place \in [Nodes -> Nat]
    /\ colors \in [Nodes -> Seq(0 .. 255)]
    /\ mask \in [Pixels -> Masks]
    /\ image \in [Pixels -> 0 .. 255] /\ rays \in [Pixels -> Nat]

-----------------------------------------------------------------------------
(* What one careful node would make of the frame: with the whole table     *)
(* shaded, every ray from all its samples.  A box of the recursion is      *)
(* traced if it is a top box or its parent's colours differ enough.        *)
Full(l) == Pre_Shade([a \in Addresses |-> 0], l, Steps)
InWindow(pixel) == <<pixel[1] + window[1], pixel[2] + window[2]>>
IdealRays(s, table) ==
    [pixel \in Pixels |-> Composite(Ray(s, InWindow(pixel)), table, AllSamples(Ray(s, InWindow(pixel))))]

Lengths   == {len \in PowersOfTwo : len <= highest_sampling_boxlen}
TopBoxes  == {Box(q[1], q[2], highest_sampling_boxlen) :
                 q \in {r \in Pixels : r[1] % highest_sampling_boxlen = 0 /\ r[2] % highest_sampling_boxlen = 0}}
Divided(ray, b) == Subdivide(b, [n \in DOMAIN Corners(b) |-> ray[Corners(b)[n]].color])
TracedBoxes(ray) ==
    FoldLeft(LAMBDA traced, level :
                traced \cup UNION {Range(SubBoxes(b)) : b \in {c \in traced : Divided(ray, c)}},
             TopBoxes, [level \in 1 .. Cardinality(Lengths) |-> level])
TracedPixels(ray) == UNION {Range(Corners(b)) : b \in TracedBoxes(ray)}

\* Any other pixel is the mean of its neighbours on the finest grid that
\* leaves it out.
Spacing(n) == CHOOSE len \in Lengths : n % len = 0
                                       /\ \A l \in Lengths : n % l = 0 => l <= len
Neighbours(pixel) ==
    LET grid == 2 * Lower(Spacing(pixel[1]), Spacing(pixel[2]))
        x  == pixel[1] - (pixel[1] % grid)
        y  == pixel[2] - (pixel[2] % grid)
        x2 == IF pixel[1] = x \/ x + grid >= image_lenX THEN x ELSE x + grid
        y2 == IF pixel[2] = y \/ y + grid >= image_lenY THEN y ELSE y + grid
    IN  << <<x, y>>, <<x2, y>>, <<x, y2>>, <<x2, y2>> >>
ImageOf(ray, traced) ==
    LET Pixel[pixel \in Pixels] ==
            IF pixel \in traced THEN ray[pixel].color
            ELSE LET around == Neighbours(pixel)
                 IN  (Pixel[around[1]] + Pixel[around[2]] + Pixel[around[3]] + Pixel[around[4]]) \div 4
    IN  Pixel
\* Frame and Render_Loop: the main process has prepared the volume, image
\* and mask are cleared, and root has selected the view.
Init ==
    /\ octree = Compute_Octree
    /\ sight = Select_View(view)
    /\ lights = Lights(sight)
    /\ ideal = <<>>
    /\ Counter = num_nodes
    /\ shd = [a \in Addresses |-> 0]
    /\ found = <<>>
    /\ pc = [p \in Nodes |-> "start"]
    /\ todo = [p \in Nodes |-> Works]
    /\ boxes = [p \in Nodes |-> <<>>]
    /\ place = [p \in Nodes |-> 1]
    /\ colors = [p \in Nodes |-> <<>>]
    /\ mask = [pixel \in Pixels |-> "NULL_PIXEL"]
    /\ image = [pixel \in Pixels |-> 0]
    /\ rays = [pixel \in Pixels |-> 0]

At(p, label)   == pc[p] = label
Goto(p, label) == pc' = [pc EXCEPT ![p] = label]
TheBox(p)      == Head(boxes[p])

\* Go on at the first pixel of a sequence of boxes, or at `next'.
Begin(p, sequence, first, next) ==
    /\ boxes' = [boxes EXCEPT ![p] = sequence]
    /\ place' = [place EXCEPT ![p] = 1]
    /\ colors' = [colors EXCEPT ![p] = <<>>]
    /\ Goto(p, IF sequence = <<>> THEN next ELSE first)

-----------------------------------------------------------------------------
(* Led by the octree, no ray leaves a place out that shows something, and  *)
(* none is sampled at a place that shows nothing, in any view.             *)
RaysExact(pyramid) == \A v \in Views : SamplesExact(Select_View(v), pyramid)

(* Ray_Trace: the barrier before shading; nothing happens before it but    *)
(* that the history variable is set.                                       *)
TimeBarrier ==
    /\ \A p \in Nodes : At(p, "start")
    /\ LET table == Full(lights)
           ray   == IdealRays(sight, table)
           traced == TracedPixels(ray)
           best   == ImageOf(ray, traced)
       IN  /\ table \in [Addresses -> 0 .. 255]
           /\ ray \in [Pixels -> [color : 0 .. 255, opacity : 0 .. 255]]
           /\ traced \subseteq Pixels
           /\ best \in [Pixels -> 0 .. 255]
           /\ ideal' = [rays |-> ray, image |-> best, exact |-> RaysExact(octree)]
    /\ pc' = [p \in Nodes |-> "shade"]
    /\ UNCHANGED <<octree, sight, lights, shading, todo, boxes, place, colors, picture, found>>

(* Ray_Trace, then: each node shades its slice of the table, and spins until all *)
(* have counted down.                                                      *)
PreShade(p) ==
    /\ At(p, "shade")
    /\ shd' = Pre_Shade(shd, lights, Slice(p, num_nodes))
    /\ Goto(p, "count")
    /\ UNCHANGED <<volume, Counter, todo, boxes, place, colors, picture>>

CountDown(p) ==
    /\ At(p, "count")
    /\ Counter' = Counter - 1
    /\ Goto(p, "spin")
    /\ UNCHANGED <<volume, shd, todo, boxes, place, colors, picture>>

SpinDone(p) ==
    /\ At(p, "spin") /\ Counter = 0
    /\ Goto(p, "take")
    /\ UNCHANGED <<volume, shading, todo, boxes, place, colors, picture>>

-----------------------------------------------------------------------------
(* Ray_Trace_Adaptively: a block of some queue.  A node leaves when every  *)
(* block has been taken by some node.                                      *)
TakeBlock(p, work) ==
    /\ At(p, "take") /\ work \in todo[p]
    /\ work \in Retaken \/ \A r \in Nodes : work \in todo[r]
    /\ todo' = [todo EXCEPT ![p] = @ \ {work}]
    /\ Begin(p, BoxesOf(work[1], work[2]), "look", "take")
    /\ UNCHANGED picture

Leave(p) ==
    /\ At(p, "take")
    /\ \A work \in Works : \E r \in Nodes : work \notin todo[r]
    /\ Goto(p, "barrier")
    /\ UNCHANGED <<todo, boxes, place, colors, picture>>

-----------------------------------------------------------------------------
(* Ray_Trace_Adaptive_Box, first loop: trace the corners not yet marked.   *)
Corner(p) == Corners(TheBox(p))[place[p]]

\* To the next corner, and from the last one to the second loop.
NextCorner(p) ==
    LET last == place[p] = Len(Corners(TheBox(p)))
    IN  /\ place' = [place EXCEPT ![p] = IF last THEN 1 ELSE @ + 1]
        /\ Goto(p, IF last THEN "wait" ELSE "look")

LookAt(p) ==
    /\ At(p, "look")
    /\ IF mask[Corner(p)] = "NULL_PIXEL"
       THEN Goto(p, "mark") /\ UNCHANGED place
       ELSE NextCorner(p)
    /\ UNCHANGED <<todo, boxes, colors, picture>>

MarkStart(p) ==
    /\ At(p, "mark")
    /\ mask' = [mask EXCEPT ![Corner(p)] = "START_RAY"]
    /\ Goto(p, "trace")
    /\ UNCHANGED <<todo, boxes, place, colors, image, rays>>

\* Trace_Ray composites the ray over the pixel, which it reads and writes
\* with nothing to keep another node away; a ray that met nothing writes
\* nothing.
Onto(ray, old) == ray.color + (old * (255 - ray.opacity) + 127) \div 255

TraceRay(p) ==
    /\ At(p, "trace")
    /\ LET ray == found[Corner(p)]
       IN  IF ray.opacity = 0 THEN Goto(p, "marktraced") /\ UNCHANGED colors
           ELSE /\ colors' = [colors EXCEPT ![p] = <<Onto(ray, image[Corner(p)])>>]
                /\ Goto(p, "store")
    /\ rays' = [rays EXCEPT ![Corner(p)] = @ + 1]
    /\ UNCHANGED <<todo, boxes, place, mask, image>>

StoreRay(p) ==
    /\ At(p, "store")
    /\ image' = [image EXCEPT ![Corner(p)] = colors[p][1]]
    /\ colors' = [colors EXCEPT ![p] = <<>>]
    /\ Goto(p, "marktraced")
    /\ UNCHANGED <<todo, boxes, place, mask, rays>>

MarkForgotten(p) ==              \* mutant: the mask stays at START_RAY
    /\ At(p, "marktraced")
    /\ NextCorner(p)
    /\ UNCHANGED <<todo, boxes, colors, picture>>
MarkTraced(p) ==
    /\ At(p, "marktraced")
    /\ mask' = [mask EXCEPT ![Corner(p)] = "RAY_TRACED"]
    /\ NextCorner(p)
    /\ UNCHANGED <<todo, boxes, colors, image, rays>>

(* Second loop: wait for corners other nodes trace, and read the colours.  *)
(* At the last corner: sub-boxes where the colours differ.                 *)
ReadCorner(p) ==
    LET seen == Append(colors[p], image[Corner(p)])
        b    == TheBox(p)
    IN  IF place[p] < Len(Corners(b))
        THEN /\ colors' = [colors EXCEPT ![p] = seen]
             /\ place' = [place EXCEPT ![p] = @ + 1]
             /\ UNCHANGED <<pc, boxes>>
        ELSE Begin(p, (IF Subdivide(b, seen) THEN SubBoxes(b) ELSE <<>>) \o Tail(boxes[p]),
                   "look", "take")

\* MPIXEL is not volatile: the compiler may move the load out of the loop.
WaitCorner(p) ==
    /\ At(p, "wait")
    /\ IF mask[Corner(p)] # "START_RAY"
       THEN ReadCorner(p)
       ELSE /\ ~Rereads
            /\ Goto(p, "hung")
            /\ UNCHANGED <<boxes, place, colors>>
    /\ UNCHANGED <<todo, picture>>

-----------------------------------------------------------------------------
(* The barriers between tracing and interpolation.                         *)
Barrier ==
    /\ \A p \in Nodes : At(p, "barrier")
    /\ boxes' = [p \in Nodes |-> InterpolationOf(p)]
    /\ place' = [p \in Nodes |-> 1]
    /\ colors' = [p \in Nodes |-> <<>>]
    /\ pc' = [p \in Nodes |-> IF InterpolationOf(p) = <<>> THEN "done" ELSE "box"]
    /\ UNCHANGED <<volume, shading, todo, picture>>

(* Interpolate_Recursive_Box: the colours of the four corners (of the near *)
(* one, where the far one lies outside), then every half-way point.        *)
FarX(b) == IF b.x + b.len < image_lenX THEN b.x + b.len ELSE b.x
FarY(b) == IF b.y + b.len < image_lenY THEN b.y + b.len ELSE b.y

ReadBox(p) ==
    LET b == TheBox(p)
    IN  /\ At(p, "box")
        /\ colors' = [colors EXCEPT ![p] =
                <<image[<<b.x, b.y>>], image[<<FarX(b), b.y>>],
                  image[<<b.x, FarY(b)>>], image[<<FarX(b), FarY(b)>>]>>]
        /\ Goto(p, "test")
        /\ UNCHANGED <<todo, boxes, place, picture>>

Point(p) == Points(TheBox(p))[place[p]]

\* To the next point, and from the last one to the sub-boxes.
NextPoint(p) ==
    LET b == TheBox(p)
    IN  IF place[p] < Len(Points(b))
        THEN /\ place' = [place EXCEPT ![p] = @ + 1]
             /\ Goto(p, "test")
             /\ UNCHANGED <<boxes, colors>>
        ELSE Begin(p, (IF b.len \div 2 > 1 THEN SubBoxes(b) ELSE <<>>) \o Tail(boxes[p]),
                   "box", "done")

TestPoint(p) ==
    /\ At(p, "test")
    /\ IF mask[Point(p)] = "NULL_PIXEL"
       THEN Goto(p, "fill") /\ UNCHANGED <<boxes, place, colors>>
       ELSE NextPoint(p)
    /\ UNCHANGED <<todo, picture>>

\* Bilinear weights of the four corners at a point of the box.
Fill(p) ==
    LET b == TheBox(p)
        j == Point(p)[1] - b.x
        i == Point(p)[2] - b.y
        c == colors[p]
    IN  /\ At(p, "fill")
        /\ image' = [image EXCEPT ![Point(p)] =
             (c[1] * (b.len - j) * (b.len - i) + c[2] * j * (b.len - i)
              + c[3] * (b.len - j) * i + c[4] * j * i) \div (b.len * b.len)]
        /\ Goto(p, "markfilled")
        /\ UNCHANGED <<todo, boxes, place, colors, mask, rays>>

MarkFilled(p) ==
    /\ At(p, "markfilled")
    /\ mask' = [mask EXCEPT ![Point(p)] = "INTERPOLATED"]
    /\ NextPoint(p)
    /\ UNCHANGED <<todo, image, rays>>

Finished == \A p \in Nodes : At(p, "done")

PixelStep(p) ==
    \/ \E work \in Works : TakeBlock(p, work)
    \/ Leave(p)
    \/ LookAt(p) \/ MarkStart(p) \/ TraceRay(p) \/ StoreRay(p) \/ MarkTraced(p)
    \/ WaitCorner(p)
    \/ ReadBox(p) \/ TestPoint(p) \/ Fill(p) \/ MarkFilled(p)
NodeStep(p) ==
    \/ PreShade(p) \/ CountDown(p) \/ SpinDone(p)
    \/ PixelStep(p) /\ UNCHANGED <<volume, shading>>

RaysOf(table) == [pixel \in Pixels |-> Trace_Ray(sight, octree, table, InWindow(pixel))]
Shaded ==
    /\ shd' # shd
    /\ found' = RaysOf(shd')
    /\ found' \in [Pixels -> [color : 0 .. 255, opacity : 0 .. 255]]

Next ==
    \/ TimeBarrier
    \/ (\E p \in Nodes : NodeStep(p)) /\ (Shaded \/ UNCHANGED <<shd, found>>)
    \/ Barrier /\ UNCHANGED found
    \/ Finished /\ UNCHANGED vars

Spec == Init /\ [][Next]_vars

(* Every node runs, and a barrier all have reached opens.                  *)
FairSpec == Spec /\ WF_moves(Barrier) /\ \A p \in Nodes : WF_moves(NodeStep(p))

-----------------------------------------------------------------------------
(* A pixel marked as traced holds its own ray, composited once over the    *)
(* background for each node that took it for untraced, or for fewer of     *)
(* them where two wrote at once: what a node may conclude from the mask.   *)
(* If no pixel got two rays, every marked pixel has its final colour, and  *)
(* the image does not depend on who shaded, traced or interpolated what.   *)
Layers(pixel) ==
    LET Layer[k \in 0 .. num_nodes] == IF k = 0 THEN 0 ELSE Onto(ideal.rays[pixel], Layer[k - 1])
    IN  {Layer[k] : k \in 1 .. rays[pixel]}
OneRayEach == \A pixel \in Pixels : rays[pixel] <= 1
Started == \A p \in Nodes : ~At(p, "start")
MaskTellsColor ==
    \A pixel \in Pixels :
        /\ mask[pixel] = "RAY_TRACED" => image[pixel] \in Layers(pixel)
        /\ mask[pixel] \in {"RAY_TRACED", "INTERPOLATED"} /\ OneRayEach
              => image[pixel] = ideal.image[pixel]
SameImage == /\ TypeOK
             /\ MaskTellsColor
             /\ Finished /\ OneRayEach => image = ideal.image
             /\ Started => ideal.exact

(* Once they have started, all nodes finish the frame.                *)
Termination == Started ~> Finished

-----------------------------------------------------------------------------
(* For TLC: two small clouds in an otherwise thin volume, seen from twenty *)
(* sides.                                                                  *)
LastBlock == {<<1, 0>>}

Size == <<12, 8, 8>>
Away(v, c) == LET d == [i \in Axes |-> v[i] - c[i]] IN Dot(d, d)
Clouds ==
    [v \in Within(Size) |->
        IF Away(v, <<2, 2, 2>>) < 3 THEN 255 - 30 * Away(v, <<2, 2, 2>>)
        ELSE IF Away(v, <<8, 4, 4>>) < 9 THEN 130 - 4 * Away(v, <<8, 4, 4>>)
        ELSE 20]

AllViews == {[x |-> x, y |-> y] : x \in {<<0, 1>>, <<1, 0>>, <<0, -1>>, <<-1, 0>>},
                                  y \in {<<4, -3>>, <<5, 0>>, <<3, 4>>, <<-4, 3>>, <<0, 5>>}}
FirstView == [x |-> <<0, 1>>, y |-> <<4, -3>>]
Window == <<8, 5>>
=============================================================================
