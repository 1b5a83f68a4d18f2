# SPLASH-2x in TLA+

TLA+ models, TLC runs and machine-checked proofs for the SPLASH-2x benchmark
programs of this repository: fourteen shared-memory parallel programs in C,
written against the PARMACS macros and built with pthreads.

The programs have no common source except the macros. What they share is a style:
`main` sets up global memory, `CREATE`s P copies of a worker, the workers
communicate through locks, barriers, pause flags, hand-made queues and unlocked
reads of shared words, and `WAIT_FOR_END` joins them. The communication is what is
hard, and every access of it is a step of the models. What the workers compute is
modelled too where a property is about it, over numbers that are exact: residues
modulo a prime, fixed point, or counts of what has been added.

Contents: [inventory](#1-inventory) · [plan](#2-plan) · [modules](#3-the-modules)
· [runs](#4-the-runs) · [disagreements found](#5-where-code-and-text-disagree)
· [proofs](#6-the-proofs) · [limits](#7-what-is-only-model-checked-and-what-is-not-modelled)

Paths below are relative to the repository root.

## 1. Inventory

### 1.1 The macros (`m4/parmacs.pthreads.c.m4`)

*State*: a `BARRIER` is a mutex, a condition variable, a counter and a cycle bit; a
pause (`PAUSEDEC`) is a mutex, a condition variable and a flag; a thread table
records what `CREATE` made. *Operations*: `BARRIER`, `LOCK`/`UNLOCK`,
`SETPAUSE`/`WAITPAUSE`/`CLEARPAUSE`, `CREATE`, `WAIT_FOR_END`. *Interaction*: every
other part calls them. *Hard*: threads still leaving one round of a barrier while
others enter the next; wake-ups without a broadcast. *Correct when*: nobody's k-th
call of a barrier returns before everybody has made it, everybody does return, and
the caller of `WAIT_FOR_END` goes on only after all workers are done. The other
macro files (`serial`, two `null` sets) are not used by the Makefiles.

### 1.2 The programs

| program | shared state | operations and interaction | hard behaviour | correct when |
|---|---|---|---|---|
| **radiosity** `taskman.C`, `rad_main.C` | task queues per process, `pbar_count`, `task_counter`, `converged` | `enqueue_task`, `dequeue_task` with stealing, `process_tasks` with a *polling* barrier, phases fed by the first caller | tasks create tasks; an unlocked test of `n_tasks`; processes enter and leave the barrier count | no task is left when a phase ends, all agree on the phase, phases end |
| **radiosity** `modelman.C`, `patchman.C`, `smallobj.C` | patches in a BSP tree, edges and vertices that patches share | a patch is split where a node's plane cuts it, linked with those that face it | an edge is cut from both sides; areas are divided | fragments add up to their model; neighbours share the vertices between them |
| **radiosity** `visible.C`, `elemman.C` | elements, interaction lists, a cache of blocking patches | rays walk the tree; refinement; visibility tasks over parts of a list | the walk starts in the middle of the tree; lists change while tasks hold parts of them | a ray arrives iff nothing is in its way; every interaction is handled once |
| **radix** `radix.C` | key arrays, a prefix tree with a pause flag per node | histogram, up-sweep, down-sweep, permutation, per digit | one flag per node serves two sweeps and all digits | each pass is a stable sort; the result is a sorted permutation |
| **cholesky** `tree.C`, `amal.C`, `assign.C`, `parts.C`, `block2.C` | elimination tree, supernodes, domains, blocks | symbolic analysis by the main thread | arrays that serve three trees in turn; sizes that divide with rounding | every entry elimination fills has a place, every place one owner |
| **cholesky** `fo.C`, `mf.C`, `bfac.C`, `numLL.C`, `bksolve.C` | message queues, blocks with counters of outstanding updates | `SendBlock`, `HandleTaskFO`, `BlockDoneFO`, domain updates, solution | messages in any order; lists freed by the last of a column; one process decides the end | each block gets each update once, is finished after them, the run ends after all are, the system is solved |
| **volrend** `main.C`, `adaptive.C` | `Queue`, `Counter`, image, mask | frame loop, block queues with stealing, adaptive sampling, interpolation | unlocked resets and tests; pixels marked without a lock; spinning on another node's pixel | every pixel of a frame is traced; the image does not depend on the interleaving; the waits end |
| **volrend** `normal.C`, `opacity.C`, `octree.C`, `view.C`, `raytrace.C` | the volume, its octree, the shading table | prepared before frames; a ray samples boxes the octree shows to hold something | a ray skips boxes by rounding of its place | a ray samples what it would without the octree |
| **raytrace** `workpool.C`, `memory.C` | work pools, a global heap with its own allocator | `PutJob`, `GetJob(s)`, `GlobalMalloc`, `GlobalFree` | allocation and freeing from all processes; unlocked hints | each pixel once; arena and free list stay consistent |
| **raytrace** `geo.C`, `tri.C`, `poly.C`, `sph.C`, `cr.C`, `hutv.C`, `trace.C`, `shade.C` | the scene and its hierarchy of grids, the rays of a pixel | built before the workers start, then read; a walk from cell to cell | a walk that leaves a cell by the wrong side; hits of cells still ahead | the walk finds what the list of all objects shows |
| **barnes** `load.C`, `code.C` | the oct-tree, a lock per cell, `Done` flags | `loadtree`, `SubdivideLeaf`, `hackcofm`, cost zones, force step | unlocked tests repeated under the lock; spinning on children; costs read while their owner changes them | every body is in exactly one leaf; masses are those of the bodies; every body is in one zone |
| **fmm** `construct_grid.C`, `box.C` | a tree of boxes built by merging one tree per process | `MergeLocalGrid`, `InsertBoxInGrid`, `RemoveBoxFromGrid`, U/V/W/X lists | optimistic insertion that may fail | every particle in one leaf, every pair of leaves in one list |
| **fmm** `interactions.C`, `cost_zones.C`, `partition_grid.C` | expansions, `interaction_synch`, partitions | upward pass, interactions, downward pass | a parent's owner clears what children add to; waits between processes | every contribution arrives once |
| **ocean_cp**, **ocean_ncp** | grids, the shared error | multigrid with red and black sweeps, ghost columns | sixteen phases per step, a shared reduction that is reset | the result is that of one process |
| **fft** | three matrices | transposes and row transforms | barriers | the transform, whatever the order |
| **lu_cb**, **lu_ncb** | blocks with owners | factor, divide, update, per column | barriers | the factors, whatever the order |
| **water_nsquared** | forces, one lock per molecule, global sums | predict, forces, correct | reductions reset by one process; private forces merged under locks | each pair once; the sums of one process |
| **water_spatial** `mdmain.C`, `bndry.C`, `interf.C` | lists of molecules per box, shared sums | time steps between barriers; `BNDRY` moves molecules between boxes | a list is walked unlocked while others insert; sums reset by one process | every molecule is in the list of its box, is handled once per step and meets each neighbour once; sums are complete |
| **parsec_hooks**, scripts | – | timing, building | – | – |

`PROJECT.json` lists every part with its status, and 40 hazards, each at its line
with the properties that would catch it.

## 2. Plan

The order is by how much of the program's correctness rests on communication that
no barrier protects.

1. **Core**, done: the macros, and the six programs with hand-made
   synchronisation: radiosity's task manager, radix, cholesky's fan-out, volrend,
   raytrace, water_spatial.
2. **Trees and lists**, done: barnes (`BarnesTree`, `BarnesStep`) and fmm (`FmmGrid`,
   `FmmStep`).
3. **Phased kernels**, done: lu, fft, ocean and water_nsquared on one barrier machine,
   `Phases`; and what the other programs compute: the analysis and the numbers of
   cholesky, the rays of volrend and raytrace.
4. **Proofs**, done: the task manager, the barrier and its refinement, volrend's queues
   and frames, water_spatial's grid, lists and sums, raytrace's work pools,
   water_nsquared's pairs.
5. **Radiosity's scene**, done: the BSP tree, shared edges, visibility (`RadiosityScene`).
6. **Left**: radiosity's visibility tasks and interaction lists (hazard at
   `taskman.C:296`); proofs about `BarnesTree` (each body in one leaf) and the pause flags of radix.

A dozen runs is the size this project is kept to. A violation whose cause is settled
is described in section 5 without a run, and small instances of related modules
share an MC module and a run.

## 3. The modules

Conventions. One action is one section between `LOCK` and `UNLOCK`, one unlocked
access to a word another process writes, or a stretch of code on data nobody else
touches. A `BARRIER` of all processes opens in one step once all are in it: that is
the abstract specification `Barrier`, which the macro is proved to implement.
Definitions have the names of the source; `PROJECT.json` maps each to its lines.
Definitions called *mutant* in a comment are wrong on purpose: each property is
checked to fail when one of them replaces the real one. An `MC...` module gives
the constants of the modules above it the values of section 4; **MCPrograms** and
**MCKernels** hold several programs, of which a behaviour chooses one to run.

### 3.1 Synchronisation

**Barrier**, **ParmacsBarrier** - the promise and the macro. The macro's steps:
lock, count, wait on the condition variable (release and block), be woken by the
broadcast or for nothing, lock again, test the cycle, unlock; with `CREATE` and
`WAIT_FOR_END` around it. `BarrierSpec` is the refinement.

### 3.2 Queues and flags

**RadiosityTasks** - `taskman.C` and the worker `radiosity()`. State: the task
list of each queue, each process' place in the program and its search cursor, the
task it holds, `pbar_count`, `task_counter`, `converged`. A task is its level, the
number of generations of subtasks it may still create. `dequeue_task` is a loop of
`Visit` steps (the unlocked test of `n_tasks`) and a `Take` under the lock, that may
find the queue empty again and then *gives up*, as the code does. `SpinPoll`, `Leave`
and `Arrive` are the polling barrier. `TestQueue` is the unlocked `taskq_too_long`, `CreateTask` the
enqueueing it decides on. The three calls of `BARRIER` in the worker use
one barrier object, so that `BarrierOpens` opens it whichever call each process is
in; that all are in the same call is a property, not an assumption.

**RadixSort** - `slave_sort`. Each process' histogram, the two key arrays, the
prefix tree (densities, ranks, flag per node) and the condition variable of each
flag. `Node`, `Base`, `TheirNode` are the arithmetic of `base`, `offset` and `level`.
`WAITPAUSE` tests its flag once; a spurious wake-up passes it. `SortExact` is stated
for `Undisturbed` executions, those without a spurious wake-up (section 5 says what
such a wake-up does).

**CholeskyAnalysis**, **CholeskyNumbers**, **CholeskyFanOut** - the whole of cholesky.
The main thread's analysis is one operator after the other: elimination tree
and column counts, supernodes and their amalgamation by a cost model, domains,
the cutting of the rest into blocks, the rows of each block. Then the processes
factor their domains and exchange blocks over the queues of `mf.C`; last, the main
thread solves. A handler of a message acts on its process' own data and is one
action; what it sends goes to an outbox and from there one `Send` at a time to the
queues. Numbers are residues modulo 251, with a value for the 0.1 of the diagonal
that makes every pivot a square; how the kernels cut their loops into panels that fit
a cache only orders sums and is left out, and so are the upper halves of diagonal
blocks. `applied`, a ghost, is the set of updates a block has had. While they were
written, the analysis was compared with the compiled program on 840 random
matrices and the numbers on 240.

**VolrendQueue** - the frame loop and the block queues. The post-increment of
`Queue[local_node]` under `QLock` is two steps (`Take`, `Increment`), because
the reset at the start of a section is made *without* the lock and may fall between
them. What a pixel holds is the number of rays composited over it in this frame.

**RaytraceHeap** - the arena of `memory.C` as pure operators: nodes by address,
the free list, first fit with splitting, the cases of combining a freed node with its
neighbours, the error checks. Sizes are in units of eight bytes (`ALIGN`).
Contents of headers that no longer start a node are left out.

**RaytraceWorkPool** - work pools over that heap. What the scene is, is a parameter
(`ReadObjects`, `HierarchyOf`, `ColorsOf`), to which MCRaytrace gives the modules of 3.4. `main`
reads the model and builds the hierarchy; what a pixel shows is then settled (`picture`), and
`main` takes and returns memory, so that the arena is cut up; processes then allocate an entry per bundle, and after the barrier
take, free and trace. `GlobalMalloc` gives its lock back before it marks the node in
use, so that the mark is part of the step that follows. A second call of `main`
renders again.

### 3.3 Trees and lists

**BarnesTree** - `loadtree`, `SubdivideLeaf`, `hackcofm`. A slot of a cell is read
without its lock while others, holding it, change it: each such read is a step. A
node's mass, cost and position are one bag of bodies. **BarnesStep** - the steps around it:
the cost zones are found while others, faster, already change costs and positions,
which no barrier prevents; `early` is history and says that this has happened.

**FmmGrid** - one tree per process, merged box by box into the tree of all. Slot and
type of a box are read with no lock; an insertion or removal is made under one, and
tried again when the slot has changed. A process' place in the recursion is a stack
of tasks. **FmmStep** - colleagues, lists, costs, cost zones and the three passes, with
their waits on `construct_synch` and `interaction_synch`. Geometry is exact: a box is
a path of child numbers. An expansion is how often it has taken each particle in,
so that `added` says how often each charge has acted on each particle. It keeps what the last
step has left in it (at first: anything) until its box's owner clears it. Four variables are history:
`late`, boxes whose owner cleared them after a child had added its own; `hasty`, boxes that took an
expansion before it was cleared; `torn`, boxes taken out as leaves that had become parents;
`missed`, boxes their process did not list because another's was in their place.

**WaterGrid** - the grid of boxes as pure operators: the factors of the number of
processes, the boxes of each, and the boxes that `INTERF` and `POTENG` visit around one,
with the special cases of one or two boxes per side.

**WaterSpatial** - the time steps of `MDMAIN`. Between barriers where no list changes, a
process' part of a phase is one action (`Intraf`, `Interf`, `Top`, `Poteng`). The second
half of `INTERF`, `CORREC`, `BNDRY` and `KINETI` lie between one pair of barriers; there each
reading of a list's head and each molecule is a step, `BNDRY`'s two locked sections are
`Unlink` and `Insert`/`Link`, and `Insert` shows the list's head already set while the
molecule's `next_mol` still leads into the old box. What is computed is
abstracted to how often it was done: `met`, `scaled`, `corrected`, `counted`, and the
shares in the sums. A position is the box in which `BNDRY` finds a molecule: what `PREDIC` and
`CORREC` add to its place before is one move, made in `Correct` (`Reach` says where to); `overtaken` is history: a molecule has arrived in another process' box
before that one has passed it in `BNDRY`.

### 3.4 Pictures

**VolrendVolume**, **VolrendRay**, **VolrendAdaptive** - one frame of adaptive sampling.
The first makes normals, opacities, the octree, the view, the lights and the shading
table from a volume, as the configured build does (`SERIAL_PREPROC`); the second takes a ray
from octree box to octree box and samples inside; the third has all nodes shade the
table (`PreShade`, the count-down and its spin) and trace boxes recursively, with a mask
whose every access that another node can come between is a step (`TraceRay` and
`StoreRay` read and write a pixel), and the interpolation after a barrier. Which node
gets a block is left open (that is VolrendQueue's part); `LastBlock` says which blocks two nodes
may trace. Places are exact: turns are by 3:4:5 triangles and quarters, a ray is cut
into ticks that meet every plane; colours are integers, weights eighths. `ideal`, a history, is
the image one node alone makes of the fully shaded table.

**RaytraceGeometry**, **RaytraceGrid**, **RaytraceTrace** - the scene: reading, transforming
and normalising spheres, triangles and polygons and where a ray meets them; the hierarchy
of grids and the walk of a ray through it; the rays of a pixel with shadow,
reflected and refracted rays and their stack. Reals are fixed point, directions vectors of whole
numbers up to 12 steps, the time of a ray counts in ticks in which it crosses planes exactly. A
colour is the list of its contributions. Antialiasing, textures and the arithmetic of
colours are left out.

**RadiosityScene** - the geometry of radiosity. Models become triangular patches of a BSP
tree: `define_patch` takes a fragment down the tree, splits it where a node's plane cuts it (`split_into_2`,
`split_into_3`, which cut the edges that neighbours share) and at a leaf links it with the patches
it faces. After that, elements are divided (`Refine`) and visibilities computed
(`ComputeVisibility`: ten rays through the tree, from the source up through its ancestors, with the cache of
patches that have blocked a ray before). Coordinates are integers and the
parameters of rays fractions; scenes are such that each point and area comes out whole. Building
is one process' work here: what different processes do at once in it is the task manager's part.

### 3.5 Phased kernels

**Phases** - P copies of a straight sequence of steps, some of them calls of `BARRIER`.
One step is all a process does in one interval between barriers, so that within an interval every *order*
of the processes is tried, not every interleaving. That is enough to see a conflict: two
processes that touch the same word in one interval, one of them writing, leave
something that depends on the order (each word holds a number its formula made, and
`fresh` memory a different one in the reference), and results are compared with those of
one process alone. **Modular** is the arithmetic: a prime field instead of the doubles, in which
quotients, and roots of unity for fft, exist and nothing rounds. **LuKernels**, **LuCb**,
**LuNcb**; **FftSixStep**; **OceanPlan**, **OceanCp**, **OceanNcp**; **WaterNsquared** are the
programs. What of them depends on the size of real numbers is given: which sweep of the
multigrid converges (`Verdicts`), and what the square roots and exponentials of
water are. In ocean, each phase of `slave2` is an operator on the grids; both
programs take the stencils of `jacobcalc` and `laplacalc`, the clock and the order of the phases from OceanPlan.

## 4. The runs

| run | instance | distinct states, depth | what it shows |
|---|---|---|---|
| radiosity_tasks | 2 processes, 3 queues, 4 tasks of 2 generations, 2 iterations | 225,000 | the polling barrier's count is exact; queued work is always covered; nothing is left when it opens; same `BARRIER` call; every phase ends |
| parmacs_barrier | 4 threads, 3 rounds, 2 spurious wake-ups | 15,000 | the macro implements Barrier; joins; all rounds pass |
| programs | radix: 4 processes, 5 keys, radix 2, 2 digits, 1 spurious wake-up; barnes: 3 processes, 5 bodies of which one has no mass, 2 steps; fmm: 2 processes, 5 particles, and 3 processes, 4 particles, 2 steps each | 140,000 | radix: exact ranks, stable passes, spent flags, sorted result; barnes: tree and sums complete, bodies divided once unless costs changed early; fmm: particles in one leaf each, partitions and colleagues exact, each charge acts once, all with the exceptions of section 5; termination, with one |
| radiosity | 4 scenes: four triangles a ray crosses in another order than the tree has them; a box between floor and ceiling; a screen that cuts floor and ceiling, once through a corner; an edge cut by planes on both sides | 1,500 | fragments keep to their side, to the area of their model and to one link per pair; divided elements share vertices; a ray arrives iff nothing is in its way |
| cholesky_fan_out | 6 matrices of 7 to 10 columns, on 2x2, 1x3, 1x2 and 1 processes; one of 6 columns whose layout is a misfit | 13,000; 86 | the layout has room for all fill; each update once, in the order the data needs; freeing in time; end after completion; exact solution; termination |
| volrend_queue | 2 nodes, 3x3 image, blocks of 2x2, 3 frames | 5,900; 139 | complete frames, exact section count, at most one extra ray; termination |
| volrend_adaptive | 2 nodes, volume 12x8x8, 20 views, 2x5 pixels, boxes of 4, one block traced by both | 8,300; 116 | a ray led by the octree samples what shows something; same image as one node; the waits end |
| raytrace_work_pool | 3 processes, 5x1 image, 2 blocks, heap of 84 units, 2 calls of `main`, a scene of 12 elements with mirrors and glass | 61,000; 46 | heap consistent in every interleaving, no error exit; the grids show what the list shows; each pixel once; termination |
| water_spatial | 2 processes, 2x2x2 boxes of which 3 are used, 2 molecules, 2 time steps | 265,000; 187 | lists and corrections are right unless a molecule arrives before the owner's `BNDRY`; forces and sums complete; termination |
| kernels | lu_cb, lu_ncb: 5 rows, blocks of 2, 4 processes; fft: 16 points, 2 processes; ocean_cp, ocean_ncp: 10x10, 4 processes, 2 days; water_nsquared: 8 molecules, 2 processes, 2 steps | 4,900; 415 | the result of one process, whatever the order |
| water_lost_molecule, radiosity_sight | 2 processes, 1 time step; the scenes of radiosity | | the disagreements of section 5 |

**Why these bounds.** Two processes meet in every pair of steps; a third one
matters where somebody may act between two others, and is there in the runs of
raytrace, barnes, radix and cholesky. What is proved (section 6) is proved for
any number. The queues outnumber the processes in
radiosity_tasks because an unowned queue is the one a search may miss. Three frames
are the least with a frame that is neither first nor last; three barrier rounds
reuse both values of the cycle bit. Four processes are the least with two levels in
radix' tree and a process whose down-sweep skips a level. Two time steps of
water_spatial, barnes and fmm are the least in which sums, trees or lists of an earlier one count; fmm's
first step gives each process its particles, in the second their trees meet in the same boxes. With
two processes of fmm all interleavings are followed; with three, those of the second merge,
where a third one matters, and else the first process that can go does. Four particles are the least
with which a box is taken out, divided and put back while another process looks at it. Five keys, five rows
and five pixels leave a remainder. Cholesky's matrices were chosen among random ones
for what they exercise: a domain on each process, amalgamation, blocks of several partitions,
an update that comes in two messages; the seventh is the smallest found for which the scan for
partitions runs into a domain, followed to there (`Misfit`). Of radiosity's scenes each has a case the others lack (a walk that misses a patch, a
cache that is used, a split through a corner, an edge cut twice), and is small because TLC tries all pairs of elements. Ten rows of ocean are the least with three levels of grids on
2x2 processes. A bound that is not the program's is named
`Max...`, `ModelCalls` or `LastBlock`, and only stops *new* work, never a reaction.

**Fairness.** Every thread that can run does (weak fairness per process on all its
steps), and a barrier that all have reached opens. Locks need no fairness of their
own: each process takes them finitely often between two waits. Wake-ups without a
broadcast get none, `main` may stop reading its model at any time: `Termination` of raytrace and of
volrend_adaptive speaks of what follows once the set-up is done. Spin loops are
real steps; they end because of what other processes do. In radiosity, `SpinExit`
needs the count to be *seen* full: a full count drops again only while somebody still
holds a task, there are finitely many tasks, so that in the end it stays full and
weak fairness is enough. The kernels have no waits but barriers and no liveness property; a
process that stops short shows as a deadlock. Radix, barnes and fmm assume less: that some process goes on, whichever.

## 5. Where code and text disagree

Two have a run that TLC ends with a counterexample.

**water_lost_molecule**: "If O atom moves out of current
box, put it in correct box" (`water_spatial/src/bndry.C:71`). `BNDRY` reads the head of a list without the lock
(line 42) and takes it out as the head (line 87), also when another process has put
a molecule in front since: that one is then in no list.

**radiosity_sight**: "For each ancestor node of the source node, visit it ... Test if the node
intercepts the ray" (`radiosity/src/visible.C:313-315`). `traverse_bsp` narrows the range of the ray to what lies
behind each ancestor it has crossed (line 352), but ancestors are not ordered along the ray: one that is higher in the tree
and crossed earlier is out of the range and hides no light. `SightExact` is what holds: no ray is told wrong
but those that cross ancestors in another order.

Seen while modelling; those marked * were counterexamples of runs, since removed.

*Macros, radiosity, radix*
- `WAITPAUSE` (`parmacs.pthreads.c.m4:135`) tests its flag with `if`, where `BARRIER` has a
  `while`. After one wake-up without a broadcast radix' keys need not be in place: `SortExact`
  without `Undisturbed` fails.
- `-p3` passes the option check (`radix.C:146`), but in the down-sweep process 1 waits for a flag
  nobody sets (`radix.C:570`).* `get_max_digits` (`radix.C:711`) never ends for radix 1.
- A process of radiosity takes a task *before* it leaves the count of the polling barrier
  (`taskman.C:126-132`). Meanwhile the count can fill, and others go on to `BARRIER`, where
  they no longer "poll the task queues and resume processing" (`taskman.C:105-106`).
  Nothing is lost: `BARRIER` waits for the one that works, which arrives again.
- `subdivide_edge` does nothing to an edge that has been cut (`smallobj.C:462`), and an edge that lies on a node's plane belongs
  to fragments on both sides of it, which different planes may want to cut at different points. The fragments that come second then
  get the first ones' point and areas of their own plane: `PatchesExact` excepts the areas of the fragments of a patch
  with such an edge (`recut`, a history), and of no others.

*cholesky*
- The end message of the owner of the last diagonal block can reach a process before another
  sender's last block does: "Termination error" (`fo.C:151`) although the factor is complete.*
- For a reducible matrix the last diagonal block does not depend on the other components; the
  run ends with "Bad remaining" (`fo.C:509`).*
- The scan for partitions (`block2.C:85-88`) can run on into the columns of a domain that
  follow, and the block then has more columns than rows: for the columns [0,3,4], [1,4], [2,5],
  [3], [4,5], [5] with P=2, B=4, C=32 (`Overrun` of MCCholesky) the program stops with "Negative
  pivot", as it did for twelve random matrices. `LayoutExact` excepts just that, by name
  (`RanIntoDomain`), and the run has the case.*
- `TriBSolve` permutes by the wrong array (`bksolve.C`), which the test
  it serves does not see.

*volrend*
- Two nodes can trace one block (the unlocked reset, `adaptive.C:344`), and with
  adaptive sampling off `Trace_Ray` composites the second ray over the first
  (`raytrace.C:469`): a translucent pixel then depends on the schedule.
  `OneRayUnlessReset` gives the exact condition.
- A mask a node spins on (`adaptive.C:295`) is not volatile (`my_types.H:30` says to
  make it so on SGIs); a build that reads it once may hang.
- A sample exactly on the face between two non-empty boxes is composited twice; the light is
  transformed as a point, translation included, although `render.C` speaks of vectors; `newfactor` and
  `maxcu` of `Init_Decomposition` (`main.C:484-519`) are read unset for some numbers of nodes.

*raytrace*
- Hits exactly on the far side of the world never count (`geo.C:238`), and a ray that crosses planes along
  two axes at once is led through cells it does not touch: `HierarchyExact` names both exceptions.*
- `HUG` multiplies the transparency of a surface into a shadow ray once for each cell it meets the
  element in (`husetup.C:215`), the list once for each object (`isect.C:107`), so that light behind the window of the
  run's scene is weaker in the picture than the list would have it. This is the third exception: where it can
  happen `HierarchyExact` claims only that less light is left, and none exactly when the list leaves none.*
- `TriRead` frees the list of normals when there are none and `TriTransform` still writes
  to it; `vorder` is then unset (`tri.C:457`). `TriDataNormalize` leaves `norm` unscaled, so that
  triangles of scenes smaller than one are lost. `cr.C:374` compares `npepa` with NULL where it means to set it.
- `GlobalRealloc` (`memory.C:572`) writes a header over one it still needs when a block
  grows by less than a header; it has no caller.

*barnes, fmm*
- Bodies are divided into zones while a faster process changes their costs: the barrier that would prevent it is
  a comment (`code.C:686`), and a body can be in two zones or none. `OnceUnlessEarly` gives the condition.
- A process of fmm lists its boxes after it gave back the lock. If one of them has been taken out by a second
  process and a third has put another in its place meanwhile, it is not listed, also if it comes back
  (`construct_grid.C:814`); nobody makes its colleagues then, and its children's owners wait for ever (`:890`).
- `RemoveBoxFromGrid` compares only the box (`construct_grid.C:787`). One that was read as a leaf, taken out,
  divided and put back by another process is then taken out as if it still were a leaf, and the particles below it are lost.
  With three processes both happen in the run, against `construct_grid.C:535-538` ("every box
  in the global tree will also reside in one and only one of the processors' partitions").
- `InsertNonAdjChildren` looks at the first `num_children` of four slots (`construct_grid.C:1110`) and so leaves
  out boxes of the W list; `UpwardPass` clears what a child may have added (`interactions.C:94`), and what it clears may have been used
  before, with the last step's charges in it, by a process that waited for the children only (`:366`); `ShiftLocalExp` adds
  `x_expansion` once for each child, not at all in childless boxes, and passes on
  only the last term of each sum (`temp` instead of `result_exp[i]`, `interactions.C:619`);
  a particle's field is never set back (`particle.C:303`).

*ocean, water, fft*
- In ocean_ncp one process reads a corner another may not have written (`slave1.C:454`), and in the first row
  `slave2.C:542` takes the difference of `work7[0]` with itself, where all others take that with `work7[1]`. `psiai` is summed under `psibilock` (`slave2.C:730`).
- In water_spatial a molecule that arrives late can also be scaled, corrected or counted twice, or
  close a list to a ring, in which walks never end. An atom exactly at `BOXL` gets an index past
  the last box in `BNDRY` (`bndry.C:72`), which `INITIA` corrects (`initia.C:280`).
- In water_nsquared the initial accelerations leave out the forces within molecules
  (`mdmain.C:40-45`), and `comp_last` is unset for more processes than molecules.
- fft leaves its result in `trans`, not in `x`, unless `-t` or `-o` is given.

## 6. The proofs

All are for every value of the constants. The assumptions are the named `ASSUME`s
of each module, which say no more than the programs' own checks and array sizes, and TLC
evaluates them on each run.

**RadiosityTasks_proofs** (`NAssumption`, `BoundAssumption`). Theorems `TypeCorrect`,
`Accounting`, `Coverage`, `NothingLost`, `SameBarrier`. `NoTaskLost` is not inductive: a
state could satisfy it with a task queued that nobody will look at. `IndInv` adds
- the counts: `pbar_count` is the number of processes inside (or a full left-over that the
  first arrival resets), `task_counter` the number of callers in this phase;
- *in step*: all processes are within one phase of each other, on the same side of a
  barrier call, with the same verdict of `converged`;
- *covered*: for a non-empty queue some process is outside the barrier, and either
  works, or will visit that queue, or stands at a queue it has just seen.

The last rests on the lemma `SearchIsComplete`: the search back 1, forward 2, back 3, ...
of `dequeue_task` visits every queue. Each step preserves it because the unlocked
test that fails means another process has taken the task and works.

**ParmacsBarrier_proofs** (`ParmacsAssumption`). `TypeCorrect`, `CounterCorrect`,
`JoinCorrect` and the refinement `ImplementsBarrier`, for any number of threads, calls
and spurious wake-ups. `IndInv` has `CountsWaiters` (the counter is the number of
threads that wait in the *current* cycle), the mutex discipline, and `Rounds`, which
relates each thread's calls and returns to the number of openings. The last arrival
then knows that all others are counted, hence have made this call, so that flipping
the bit releases exactly those whose peers are all there. A step maps to a step of
`Barrier` or leaves calls and returns unchanged.

**VolrendQueue_proofs** (`VolrendAssumption`). `TypeCorrect`, `SectionCountCorrect`,
`BlocksTakenCorrect`. `IInv` cuts a frame into stretches between barriers, all nodes being
in the same one (`StretchInv`), and adds: `Counter` counts the nodes still shading, so that
nobody resets its queue before all have passed the setup; the last entry of `Queue` is
the number of sections not retired; a retired owner that comes round again does not
take from its own section unless none is left (`RetiredInv`), which is why no section
is counted off twice; a retired section's queue stays used up (`UsedInv`); every block
below a queue's position is held or traced (`TakenInv`), *also* after an unlocked reset,
which sets the position back and so asks for less. A node stops when the count is
zero, hence all are retired, hence all blocks below the end are held or traced.
`FrameCompleteCorrect` and `OneRayCorrect` say of
pixels what these say of blocks. First arithmetic: sections are cut with
rounding up and the last may be smaller or empty, blocks likewise; still the sections partition
the image and the blocks a section, each pixel lying in exactly one block (division is stated
by its quotient and remainder, with lemmas on products). Then an invariant of the
frame, `FrameInv`, on top of `IInv`: the rays a pixel holds and the nodes that hold its block
(`Holders`) are together at most one if the block has been handed out since the last
reset of its queue (`Handed`), and one more if the section's owner has started, whose reset lets the block
be handed out again (`RayInv`); and no queue is ahead of a node about to advance it (`HeldInv`). So every pixel has a ray when `ROOT` writes, a second one only in
the case `OneRayUnlessReset` names, and never a third.

**RaytraceWorkPool_proofs** (`WorkPoolAssumption`). `PictureIsExact`: each pixel holds nothing or
what its ray tree brings, once, and all hold it when every process has returned; for every image, cut, number of processes and
scene, and whatever the memory does. `PictureExact` is not inductive, because it says nothing of
what is still to come. First arithmetic: `PiecesDivide`, blocks divide the image and bundles a block, remainders included, so
that a pixel lies in one bundle. Then `IInv`: that bundle is in exactly one of the `Places`
(to be put by its process, at a height of a pool, in somebody's hands before or at that pixel) until the pixel has been traced, and in none
after (`Once`); all processes are on the same side of the barrier (`StageInv`), so that nothing is put while some
already look; a hint says EMPTY only of empty pools (`PoolInv`); and the pools a process has passed on its round are
empty and stay so (`RoundInv`), so that one who returns leaves nothing anywhere. Pools are counted from the bottom, which no `Push` or `Pop` shifts.

**WaterNsquared_proofs** (at least one molecule and one process). `EachPairMetOnce`: the loops of `INTERF`, which go
half way round the circle of molecules and one step less from some when their number is even, meet each pair
from one of its sides and by one process. `NoForceLeftOut`: the stretch of the circle that a process adds its
private forces to, computed by another formula (`comp_last`), holds each molecule it met, once.

**WaterGrid_proofs** (no assumption: the statements are about the operators). `EachBoxDealtOnce`:
`main` gives each process' part in each direction one box more up to the remainder; the parts are
consecutive, cover the side and do not overlap, also when there are fewer boxes than
processes on a side. `EachTouchingBoxVisitedOnce`: the three loops of `INTERF` go from one box before
to one box after, wrap around, and drop a box for sides of one and two; they
visit each box that touches once, for every number of boxes.

**WaterSpatial_proofs** (`WaterAssumption`). `Inductive`, `OnceCorrect` (`OnceUnlessOvertaken`),
`TotalsCorrect` (`TotalsComplete`), for every number of processes, boxes, molecules and
steps, wherever `CORREC` moves the molecules. The difficulty is that the order of the molecules of
a list is nowhere in the state, only the pointers are, and "what can be
reached from the head" is a recursive notion. `IInv` gets around it: *there are* a box
`h[m]` and a rank `r[m]` for each molecule, no two alike, such that the head of each list is
the molecule of that box with the highest rank, and `next_mol` leads to the highest rank of the
box below one's own. Taking a molecule out keeps the ranks of the others; putting one in front gives it a
rank above all. Two kinds of molecules are apart: `Loose`, taken out and not yet put in, and
those whose `Link` is still to come, for which the pointer leads elsewhere. A walker's place in
its list splits the box's molecules by rank into those it has scaled, corrected or counted and those ahead.
That a list is changed by nobody but the walker follows from `overtaken` and `crossed`: an
arrival in a box whose owner has not passed `BNDRY` there sets the first, which ends what is
claimed. `EachBoxDealtOnce` makes walks of different processes disjoint, and
`EachTouchingBoxVisitedOnce` gives that every pair of molecules meets exactly once. For the sums, all
processes are in the same stage between barriers (`StageInv`), and process 0 clears a sum at a stage
in which nobody adds to it or reads it. TLC checked `IInv` itself, on an instance where ranks and boxes
can be enumerated, before it was proved.

Layout: one lemma per action, one step per conjunct it disturbs; a last theorem
joins them by `PTL`.

## 7. What is only model-checked, and what is not modelled

- Liveness (all `Termination`s, `AllRoundsPass`): fairness and `ENABLED` are out of the
  prover's reach.
- What recursive definitions compute, for every input: induction over data is out of reach.
  That is the sorts and ranks of radix (`SortExact`), the walk through raytrace's heap
  (`HeapConsistent`; `PictureIsExact` holds of any heap), elimination and numbers of cholesky (`LayoutExact`, and the
  other three, whose lists come from the analysis), trees and sums of barnes, the results of the kernels.
- Modules that use `RECURSIVE` operators, which the prover does not take: fmm, the
  scenes of raytrace (`HierarchyExact`) and of radiosity (`PatchesExact`, `VerticesShared`, `SightExact`), the rays of volrend (`SameImage`).

Not modelled: everything `PROJECT.json` marks so, with its reason there. In the parts
that are modelled: clocks and statistics, options and input files, drawing; rounding of
floating-point numbers; memory placement; `get_task`'s free
lists, the interaction lists and visibility tasks of radiosity; what the X lists of fmm add; the random places of water (`RANDOM`, not built by default); memory weaker than sequential
consistency. The programs' unlocked accesses are to single aligned words and are taken as atomic.
