---------------------------- MODULE VolrendQueue ----------------------------
(***************************************************************************)
(* The frame loop of volrend without adaptive sampling: Render_Loop        *)
(* (main.C), Ray_Trace and Ray_Trace_Non_Adaptively (adaptive.C).          *)
(*                                                                         *)
(* The image is cut into one section per node and a section into blocks.   *)
(* Queue[q] is the next block of section q; a node traces its own section  *)
(* and then steals from the others.  Queue[num_nodes] counts the sections  *)
(* whose owner has not yet run out of blocks, Counter the nodes that have  *)
(* not finished shading.  Trace_Ray composites its colour over the pixel   *)
(* (raytrace.C), so that what is kept of a pixel is how many rays of this  *)
(* frame it holds.  The barriers open for all nodes at once (Barrier).     *)
(***************************************************************************)
EXTENDS Integers, FiniteSets

CONSTANTS
    num_nodes,
    ROTATE_STEPS,            \* frames
    image_lenX, image_lenY,  \* the image
    block_len                \* block_xlen = block_ylen

ASSUME VolrendAssumption ==
    /\ num_nodes \in Nat \ {0} /\ ROTATE_STEPS \in Nat \ {0}
    /\ image_lenX \in Nat \ {0} /\ image_lenY \in Nat \ {0}
    /\ block_len \in Nat \ {0}

Nodes  == 0 .. num_nodes - 1
ROOT   == 0
image_length == image_lenX * image_lenY
Pixels == 0 .. image_length - 1

RoundUp(a, b) == (a + b - 1) \div b                 \* ROUNDUP of a quotient
Least(a, b) == IF a < b THEN a ELSE b               \* MIN

\* Init_Decomposition: the greatest factor below the square root (excluded).
image_sectionX ==
    CHOOSE f \in 1 .. num_nodes :
        LET Factor(i) == i = 1 \/ ((i + 1) * (i + 1) <= num_nodes /\ num_nodes % i = 0)
        IN  Factor(f) /\ \A i \in 1 .. num_nodes : Factor(i) => i <= f
image_sectionY == num_nodes \div image_sectionX

\* A section in pixels and in blocks.
num_xqueue   == RoundUp(image_lenX, image_sectionX)
num_yqueue   == RoundUp(image_lenY, image_sectionY)
lnum_xblocks == RoundUp(num_xqueue, block_len)
lnum_yblocks == RoundUp(num_yqueue, block_len)
lnum_blocks  == lnum_xblocks * lnum_yblocks
BlockNumbers == 0 .. lnum_blocks - 1

\* The pixels of block `work' of section q.
Block(q, work) ==
    LET xstart == (q % image_sectionX) * num_xqueue
        ystart == (q \div image_sectionX) * num_yqueue
        xstop  == Least(xstart + num_xqueue, image_lenX)
        ystop  == Least(ystart + num_yqueue, image_lenY)
        xindex == xstart + (work % lnum_xblocks) * block_len
        yindex == ystart + (work \div lnum_xblocks) * block_len
    IN  {pixel \in Pixels :
            /\ pixel % image_lenX \in xindex .. Least(xindex + block_len, xstop) - 1
            /\ pixel \div image_lenX \in yindex .. Least(yindex + block_len, ystop) - 1}

\* The pixels a node clears; the last node takes the rest.
image_partition == RoundUp(image_length, num_nodes)
PartitionEqual(p) ==              \* mutant: the rest is left out
    {pixel \in Pixels : /\ pixel >= (image_length \div num_nodes) * p
                        /\ pixel < (image_length \div num_nodes) * (p + 1)}
Partition(p) ==
    {pixel \in Pixels : /\ pixel >= image_partition * p
                        /\ p = num_nodes - 1 \/ pixel < image_partition * (p + 1)}

-----------------------------------------------------------------------------
VARIABLES
    pc,          \* where each node is
    step,        \* the frame it works on
    Counter,     \* Global->Counter
    Queue,       \* Global->Queue; the last entry counts sections
    local_node,  \* the section a node takes blocks from
    work,        \* the block it took
    rays,        \* rays composited into each pixel since it was cleared
    retired      \* history: nodes that took their section off the count

vars == <<pc, step, Counter, Queue, local_node, work, rays, retired>>

Labels == {"slave1", "clear", "slave2", "setup", "time1", "count", "spin", "reset",
           "loop", "take", "increment", "trace", "retire", "advance", "skip",
           "time2", "time3", "store", "done"}

TypeOK ==
    /\ pc \in [Nodes -> Labels]
    /\ step \in [Nodes -> 0 .. ROTATE_STEPS]
    /\ Counter \in 0 .. num_nodes
    /\ Queue \in [0 .. num_nodes -> Nat] /\ Queue[num_nodes] <= num_nodes
    /\ local_node \in [Nodes -> Nodes]
    /\ work \in [Nodes -> Nat]
    /\ rays \in [Pixels -> Nat]
    /\ retired \in SUBSET Nodes

\* Frame, up to CREATE(Render_Loop, num_nodes).
Init ==
    /\ pc = [p \in Nodes |-> "slave1"]
    /\ step = [p \in Nodes |-> 0]
    /\ Counter = 0
    /\ Queue = [q \in 0 .. num_nodes |-> 0]
    /\ local_node = [p \in Nodes |-> p]
    /\ work = [p \in Nodes |-> 0]
    /\ rays = [pixel \in Pixels |-> 0]
    /\ retired = {}

Goto(p, label) == pc' = [pc EXCEPT ![p] = label]
At(p, label) == pc[p] = label

\* A BARRIER of all nodes: from its label to the next one.
Pass(label, next) ==
    /\ \A p \in Nodes : At(p, label)
    /\ pc' = [p \in Nodes |-> next]
    /\ UNCHANGED <<step, Counter, Queue, local_node, work, rays, retired>>

Barriers ==
    \/ Pass("slave1", "clear") \/ Pass("slave2", "setup")
    \/ Pass("time1", "count") \/ Pass("time2", "time3")

\* The last barrier: ROOT writes the image, the others start the next frame.
EndOfFrame ==
    /\ \A p \in Nodes : At(p, "time3")
    /\ step' = [p \in Nodes |-> step[p] + 1]
    /\ pc' = [p \in Nodes |-> IF p = ROOT THEN "store"
                              ELSE IF step[p] + 1 < ROTATE_STEPS THEN "slave1" ELSE "done"]
    /\ UNCHANGED <<Counter, Queue, local_node, work, rays, retired>>

Store ==
    /\ At(ROOT, "store")
    /\ Goto(ROOT, IF step[ROOT] < ROTATE_STEPS THEN "slave1" ELSE "done")
    /\ UNCHANGED <<step, Counter, Queue, local_node, work, rays, retired>>

-----------------------------------------------------------------------------
(* Render_Loop: clear the own part of the image, set the counters.         *)
Clear(p) ==
    /\ At(p, "clear")
    /\ rays' = [i \in Pixels |-> IF i \in Partition(p) THEN 0 ELSE rays[i]]
    /\ Goto(p, "slave2")
    /\ UNCHANGED <<step, Counter, Queue, local_node, work, retired>>

SetupLocal(p) ==                 \* mutant: the count of sections is not renewed
    /\ At(p, "setup")
    /\ Counter' = num_nodes
    /\ Queue' = [Queue EXCEPT ![p] = 0]
    /\ Goto(p, "time1")
    /\ retired' = {}
    /\ UNCHANGED <<step, local_node, work, rays>>
Setup(p) ==
    /\ At(p, "setup")
    /\ Counter' = num_nodes
    /\ Queue' = [Queue EXCEPT ![num_nodes] = num_nodes, ![p] = 0]
    /\ Goto(p, "time1")
    /\ retired' = {}
    /\ UNCHANGED <<step, local_node, work, rays>>

-----------------------------------------------------------------------------
(* Ray_Trace: shade, then wait for the others on Counter.                  *)
CountDown(p) ==
    /\ At(p, "count")
    /\ Counter' = Counter - 1
    /\ Goto(p, "spin")
    /\ UNCHANGED <<step, Queue, local_node, work, rays, retired>>

SpinDone(p) ==
    /\ At(p, "spin") /\ Counter = 0
    /\ Goto(p, "reset")
    /\ UNCHANGED <<step, Counter, Queue, local_node, work, rays, retired>>

(* Ray_Trace_Non_Adaptively resets the own queue, without the lock, when   *)
(* faster nodes may be taking blocks from it already.                      *)
Reset(p) ==
    /\ At(p, "reset")
    /\ local_node' = [local_node EXCEPT ![p] = p]
    /\ Queue' = [Queue EXCEPT ![p] = 0]
    /\ Goto(p, "loop")
    /\ UNCHANGED <<step, Counter, work, rays, retired>>

LoopEarly(p) ==                  \* mutant: stops at the last section
    /\ At(p, "loop")
    /\ Goto(p, IF Queue[num_nodes] > 1 THEN "take" ELSE "time2")
    /\ UNCHANGED <<step, Counter, Queue, local_node, work, rays, retired>>
Loop(p) ==
    /\ At(p, "loop")
    /\ Goto(p, IF Queue[num_nodes] > 0 THEN "take" ELSE "time2")
    /\ UNCHANGED <<step, Counter, Queue, local_node, work, rays, retired>>

(* Queue[local_node]++ under QLock, a read and a write.                    *)
Locked(q) == \E r \in Nodes : At(r, "increment") /\ local_node[r] = q

Take(p) ==
    /\ At(p, "take") /\ ~Locked(local_node[p])
    /\ work' = [work EXCEPT ![p] = Queue[local_node[p]]]
    /\ Goto(p, "increment")
    /\ UNCHANGED <<step, Counter, Queue, local_node, rays, retired>>

IncrementTwice(p) ==             \* mutant: skips a block
    /\ At(p, "increment")
    /\ Queue' = [Queue EXCEPT ![local_node[p]] = work[p] + 2]
    /\ Goto(p, IF work[p] < lnum_blocks THEN "trace"
               ELSE IF p = local_node[p] THEN "retire" ELSE "advance")
    /\ UNCHANGED <<step, Counter, local_node, work, rays, retired>>
Increment(p) ==
    /\ At(p, "increment")
    /\ Queue' = [Queue EXCEPT ![local_node[p]] = work[p] + 1]
    /\ Goto(p, IF work[p] < lnum_blocks THEN "trace"
               ELSE IF p = local_node[p] THEN "retire" ELSE "advance")
    /\ UNCHANGED <<step, Counter, local_node, work, rays, retired>>

Trace(p) ==
    /\ At(p, "trace")
    /\ rays' = [i \in Pixels |-> IF i \in Block(local_node[p], work[p])
                                 THEN rays[i] + 1 ELSE rays[i]]
    /\ Goto(p, "take")
    /\ UNCHANGED <<step, Counter, Queue, local_node, work, retired>>

(* The owner ran out of blocks: Queue[num_nodes]-- under its lock.         *)
Retire(p) ==
    /\ At(p, "retire")
    /\ Queue' = [Queue EXCEPT ![num_nodes] = @ - 1]
    /\ Goto(p, "advance")
    /\ retired' = retired \cup {p}
    /\ UNCHANGED <<step, Counter, local_node, work, rays>>

(* The next section, and past those that look used up.                     *)
NextNode(q) == (q + 1) % num_nodes
Advance(p) ==
    /\ At(p, "advance")
    /\ local_node' = [local_node EXCEPT ![p] = NextNode(@)]
    /\ Goto(p, "skip")
    /\ UNCHANGED <<step, Counter, Queue, work, rays, retired>>

SkipForever(p) ==                \* mutant: does not look at the count
    /\ At(p, "skip")
    /\ IF Queue[local_node[p]] >= lnum_blocks
       THEN /\ local_node' = [local_node EXCEPT ![p] = NextNode(@)]
            /\ UNCHANGED pc
       ELSE Goto(p, "loop") /\ UNCHANGED local_node
    /\ UNCHANGED <<step, Counter, Queue, work, rays, retired>>
Skip(p) ==
    /\ At(p, "skip")
    /\ IF Queue[local_node[p]] >= lnum_blocks /\ Queue[num_nodes] > 0
       THEN /\ local_node' = [local_node EXCEPT ![p] = NextNode(@)]
            /\ UNCHANGED pc
       ELSE Goto(p, "loop") /\ UNCHANGED local_node
    /\ UNCHANGED <<step, Counter, Queue, work, rays, retired>>

Finished == \A p \in Nodes : At(p, "done")

NodeStep(p) ==
    \/ Clear(p) \/ Setup(p) \/ CountDown(p) \/ SpinDone(p) \/ Reset(p) \/ Loop(p)
    \/ Take(p) \/ Increment(p) \/ Trace(p) \/ Retire(p) \/ Advance(p) \/ Skip(p)

Next ==
    \/ Barriers \/ EndOfFrame \/ Store
    \/ \E p \in Nodes : NodeStep(p)
    \/ Finished /\ UNCHANGED vars

Spec == Init /\ [][Next]_vars

(* Every node runs and a barrier all have reached opens.  The lock need    *)
(* not be fair: the others take finitely many blocks.                      *)
FairSpec ==
    /\ Spec
    /\ WF_vars(Barriers \/ EndOfFrame \/ Store)
    /\ \A p \in Nodes : WF_vars(NodeStep(p))

-----------------------------------------------------------------------------
\* From the second SlaveBarrier to the end of the frame.
InFrame(p) == pc[p] \notin {"slave1", "clear", "slave2", "setup", "store", "done"}
Started(q) == InFrame(q) /\ pc[q] \notin {"time1", "count", "spin", "reset"}

(* When ROOT writes the image every pixel has got a ray of this frame:     *)
(* sections, blocks and stealing leave none out.                           *)
FrameComplete == At(ROOT, "store") => \A pixel \in Pixels : rays[pixel] >= 1

(* Trace_Ray composites over what the pixel holds.  A pixel gets a second  *)
(* ray only by the unlocked reset of its own section, late, after others   *)
(* have taken blocks from it; it never gets a third one.                   *)
OneRayUnlessReset ==
    \A q \in Nodes : \A b \in BlockNumbers : \A pixel \in Block(q, b) :
        /\ rays[pixel] <= 2
        /\ (\A p \in Nodes : InFrame(p)) /\ ~Started(q) => rays[pixel] <= 1

(* Queue[num_nodes] counts the sections whose owner still takes blocks:    *)
(* no owner that comes round to its own section is counted off twice.      *)
SectionsLeft ==
    (\A p \in Nodes : InFrame(p)) =>
        Queue[num_nodes] = Cardinality(Nodes \ retired)

(* When a node stops looking, every block has been traced or is held by    *)
(* another node; the barrier then waits for that one.                      *)
Held(q, b) == \E p \in Nodes : /\ pc[p] \in {"increment", "trace"}
                               /\ local_node[p] = q /\ work[p] = b
Traced(q, b) == \A pixel \in Block(q, b) : rays[pixel] >= 1
BlocksTaken ==
    (\E p \in Nodes : At(p, "time2")) =>
        \A q \in Nodes : \A b \in BlockNumbers : Held(q, b) \/ Traced(q, b)

(* Every frame is rendered and all nodes return.                           *)
Termination == <>Finished
=============================================================================
