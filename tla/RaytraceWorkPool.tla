-------------------------- MODULE RaytraceWorkPool --------------------------
(***************************************************************************)
(* The program raytrace: the work pools (workpool.C, StartRayTrace in      *)
(* main.C, the loop of RayTrace in trace.C) and the global memory          *)
(* (RaytraceHeap).  What main makes of the scene is a parameter, which     *)
(* RaytraceTrace and the modules below it describe.                        *)
(*                                                                         *)
(* main reads the model and builds the hierarchy, which takes and returns  *)
(* memory.  Then each process cuts its blocks of the image into bundles    *)
(* and stacks an entry for each in its own pool; after a barrier it takes  *)
(* entries, from its own pool first and then from the others', returns     *)
(* their memory and traces their pixels.  A critical section is a step,    *)
(* and so is what a process does between two of them.                      *)
(***************************************************************************)
EXTENDS RaytraceHeap

CONSTANTS
    ReadObjects,             \* ReadGeoFile: the objects of the model
    HierarchyOf(_, _),       \* BuildHierarchy_Uniform: objects, garbage
    ColorsOf(_, _, _),       \* objects, hierarchy, pixel: what its ray tree brings
    ErrorColors,             \* and what a ray tree brings that takes an error exit
    nprocs,
    xres, yres,              \* Display: the image
    blockx, blocky,          \* blocks across and down
    bundlex, bundley,        \* pixels in a bundle
    ModelSizes, ModelCalls   \* bound: what main asks for, and how often

ASSUME WorkPoolAssumption ==
    /\ nprocs \in Nat \ {0}
    /\ blockx \in 1 .. xres /\ blocky \in 1 .. yres
    /\ xres \in Nat /\ yres \in Nat
    /\ bundlex \in Nat \ {0} /\ bundley \in Nat \ {0}
    /\ ModelSizes \subseteq Nat \ {0} /\ ModelCalls \in Nat

Procs  == 0 .. nprocs - 1
Pixels == (0 .. xres - 1) \X (0 .. yres - 1)
WPJOB  == 5                        \* sizeof(WPJOB)

RoundUp(a, b) == (a + b - 1) \div b
Least(a, b)   == IF a < b THEN a ELSE b

\* A rectangle cut into pieces of xsize by ysize, the last ones smaller.
PiecesFloor(r, xsize, ysize) ==    \* mutant: the remainder is left out
    LET nx == r.xdim \div xsize
    IN  [n \in 1 .. nx * (r.ydim \div ysize) |->
           [xpix |-> r.xpix + ((n - 1) % nx) * xsize, ypix |-> r.ypix + ((n - 1) \div nx) * ysize,
            xdim |-> xsize, ydim |-> ysize]]
Pieces(r, xsize, ysize) ==
    LET nx == RoundUp(r.xdim, xsize)
    IN  [n \in 1 .. nx * RoundUp(r.ydim, ysize) |->
           LET x == ((n - 1) % nx) * xsize
               y == ((n - 1) \div nx) * ysize
           IN  [xpix |-> r.xpix + x, ypix |-> r.ypix + y,
                xdim |-> Least(xsize, r.xdim - x), ydim |-> Least(ysize, r.ydim - y)]]

\* InitWorkPool: the blocks go round the processes, PutJob makes bundles.
Blocks == Pieces([xpix |-> 0, ypix |-> 0, xdim |-> xres, ydim |-> yres],
                 xres \div blockx, yres \div blocky)
Bundles(n) == Pieces(Blocks[n], bundlex, bundley)

-----------------------------------------------------------------------------
VARIABLES
    objects,   \* gm->modelroot
    hierarchy, \* gm->world_level_grid
    picture,   \* what the ray tree of each pixel brings
    heap,      \* the global memory
    model,     \* what main holds of it
    calls,     \* of main to the memory
    pc,        \* where each process is; "main" until it is created
    todo,      \* the block and the bundle it puts into its pool next
    workpool,  \* the stacks, each entry with the node it lies in
    wpstat,    \* hints: may the pool hold entries?
    i,         \* the pool a process looks at
    node,      \* the node it has allocated and not put, or taken and not freed
    job,       \* the bundle it traces, with the next pixel
    frame,     \* gm->framebuf: what has been added at each pixel
    stopped    \* has an error exit been taken?

scene == <<objects, hierarchy, picture>>
vars  == <<scene, heap, model, calls, pc, todo, workpool, wpstat, i, node, job, frame, stopped>>

Rectangles == [xpix : Nat, ypix : Nat, xdim : Nat, ydim : Nat]
Jobs       == [xpix : Nat, ypix : Nat, xdim : Nat, ydim : Nat, xcurr : Nat, ycurr : Nat]
NoJob      == [xpix |-> 0, ypix |-> 0, xdim |-> 0, ydim |-> 0, xcurr |-> 0, ycurr |-> 0]

TypeOK ==
    /\ DOMAIN heap.arena \subseteq 0 .. HeapSize - nodesize
    /\ \A a \in DOMAIN heap.arena :
         heap.arena[a] \in [size : 0 .. HeapSize, free : BOOLEAN,
                            next : DOMAIN heap.arena \cup {NULL}]
    /\ heap.freelist \in DOMAIN heap.arena \cup {NULL}
    /\ model \subseteq DOMAIN heap.arena /\ calls \in 0 .. ModelCalls
    /\ pc \in [Procs -> {"main", "init", "alloc", "put", "barrier",
                         "look", "get", "free", "trace", "done"}]
    /\ todo \in [Procs -> [block : Nat, bundle : Nat]]
    /\ workpool \in [Procs -> Seq([node : Nat, rect : Rectangles])]
    /\ wpstat \in [Procs -> {"WPS_EMPTY", "WPS_VALID"}]
    /\ i \in [Procs -> Procs]
    /\ node \in [Procs -> 0 .. HeapSize \cup {NULL}]
    /\ job \in [Procs -> Jobs]
    /\ DOMAIN frame = Pixels
    /\ stopped \in BOOLEAN

Init ==
    /\ objects = <<>> /\ hierarchy = <<>> /\ picture = <<>>
    /\ heap = GlobalHeapInit
    /\ model = {} /\ calls = 0
    /\ pc = [p \in Procs |-> "main"]
    /\ todo = [p \in Procs |-> [block |-> 0, bundle |-> 0]]
    /\ workpool = [p \in Procs |-> <<>>]
    /\ wpstat = [p \in Procs |-> "WPS_EMPTY"]
    /\ i = [p \in Procs |-> p]
    /\ node = [p \in Procs |-> NULL]
    /\ job = [p \in Procs |-> NoJob]
    /\ frame = [pixel \in Pixels |-> <<>>]
    /\ stopped = FALSE

At(p, label)   == ~stopped /\ pc[p] = label
Goto(p, label) == pc' = [pc EXCEPT ![p] = label]

Exit == stopped' = TRUE /\ UNCHANGED <<scene, heap, model, calls, pc, todo, workpool, wpstat,
                                       i, node, job, frame>>
-----------------------------------------------------------------------------
(* main, alone: ReadGeoFile, BuildHierarchy_Uniform, the frame buffer.     *)
MainAlone   == \A p \in Procs : At(p, "main")
MemoryAside == UNCHANGED <<heap, model, calls, pc, todo, workpool, wpstat, i, node, job, frame, stopped>>

ReadModel ==
    /\ MainAlone /\ objects = <<>> /\ picture = <<>>
    /\ objects' = ReadObjects
    /\ UNCHANGED <<hierarchy, picture>> /\ MemoryAside

\* The pointer prims_in_box2 never sets may be NULL or not.
BuildHierarchy ==
    /\ MainAlone /\ objects # <<>> /\ hierarchy = <<>>
    /\ \E garbage \in BOOLEAN : hierarchy' = HierarchyOf(objects, garbage)
    /\ UNCHANGED <<objects, picture>> /\ MemoryAside

\* Nobody writes the model or the hierarchy any more, so that what a pixel
\* shows is settled; picture takes their place.
Settle ==
    /\ MainAlone /\ hierarchy # <<>>
    /\ picture' = [pixel \in Pixels |-> ColorsOf(objects, hierarchy, pixel)]
    /\ objects' = <<>> /\ hierarchy' = <<>> /\ MemoryAside

\* The memory these take and return, in any order: it has no bearing on what
\* the scene holds.
Alone == MainAlone /\ picture # <<>> /\ calls < ModelCalls /\ calls' = calls + 1

ModelMalloc(size) ==
    /\ Alone /\ FirstFit(heap, size) # NULL
    /\ heap' = MarkInUse(Allocate(heap, size), FirstFit(heap, size))
    /\ model' = model \cup {FirstFit(heap, size)}
    /\ UNCHANGED <<scene, pc, todo, workpool, wpstat, i, node, job, frame, stopped>>

ModelFree(a) ==
    /\ Alone
    /\ heap' = Release(heap, a)
    /\ model' = model \ {a}
    /\ UNCHANGED <<scene, pc, todo, workpool, wpstat, i, node, job, frame, stopped>>

Create ==
    /\ MainAlone /\ picture # <<>>
    /\ pc' = [p \in Procs |-> "init"]
    /\ UNCHANGED <<scene, heap, model, calls, todo, workpool, wpstat, i, node, job, frame, stopped>>

-----------------------------------------------------------------------------
(* InitWorkPool and PutJob: the bundles of every nprocs-th block.          *)
FirstJob(p) == [block |-> p + 1, bundle |-> 1]
NextJob(at) == IF at.bundle < Len(Bundles(at.block)) THEN [at EXCEPT !.bundle = @ + 1]
               ELSE [block |-> at.block + nprocs, bundle |-> 1]
AfterPut(at) == IF at.block \in DOMAIN Blocks THEN "alloc" ELSE "barrier"

InitWorkPool(p) ==
    /\ At(p, "init")
    /\ wpstat' = [wpstat EXCEPT ![p] = "WPS_VALID"]
    /\ workpool' = [workpool EXCEPT ![p] = <<>>]
    /\ todo' = [todo EXCEPT ![p] = FirstJob(p)]
    /\ Goto(p, AfterPut(FirstJob(p)))
    /\ UNCHANGED <<scene, heap, model, calls, i, node, job, frame, stopped>>

GlobalMalloc(p) ==
    /\ At(p, "alloc")
    /\ IF FirstFit(heap, WPJOB) = NULL \/ MallocError(heap, WPJOB)
       THEN Exit
       ELSE /\ heap' = Allocate(heap, WPJOB)
            /\ node' = [node EXCEPT ![p] = FirstFit(heap, WPJOB)]
            /\ Goto(p, "put")
            /\ UNCHANGED <<scene, model, calls, todo, workpool, wpstat, i, job, frame, stopped>>

\* The end of GlobalMalloc, and the entry on top of the own stack: no lock.
PutJob(p) ==
    LET at == todo[p]
    IN  /\ At(p, "put")
        /\ heap' = MarkInUse(heap, node[p])
        /\ workpool' = [workpool EXCEPT ![p] =
                          <<[node |-> node[p], rect |-> Bundles(at.block)[at.bundle]]>> \o @]
        /\ todo' = [todo EXCEPT ![p] = NextJob(at)]
        /\ node' = [node EXCEPT ![p] = NULL]
        /\ Goto(p, AfterPut(NextJob(at)))
        /\ UNCHANGED <<scene, model, calls, wpstat, i, job, frame, stopped>>

Barrier ==
    /\ \A p \in Procs : At(p, "barrier")
    /\ pc' = [p \in Procs |-> "look"]
    /\ UNCHANGED <<scene, heap, model, calls, todo, workpool, wpstat, i, node, job, frame, stopped>>

-----------------------------------------------------------------------------
(* GetJobs: the own pool, then one round over the others.  The hint is     *)
(* read without the lock.                                                  *)
NextPoolForever(p) ==              \* mutant: goes round until there is a job
    /\ i' = [i EXCEPT ![p] = (@ + 1) % nprocs]
    /\ Goto(p, "look")
NextPool(p) ==
    /\ i' = [i EXCEPT ![p] = (@ + 1) % nprocs]
    /\ Goto(p, IF i'[p] = p THEN "done" ELSE "look")

Look(p) ==
    /\ At(p, "look")
    /\ IF wpstat[i[p]] = "WPS_VALID" THEN Goto(p, "get") /\ UNCHANGED i ELSE NextPool(p)
    /\ UNCHANGED <<scene, heap, model, calls, todo, workpool, wpstat, node, job, frame, stopped>>

\* GetJob under the lock of the pool; the entry is copied after it.
GetJob(p) ==
    LET pool == workpool[i[p]]
    IN  /\ At(p, "get")
        /\ IF pool = <<>>
           THEN /\ wpstat' = [wpstat EXCEPT ![i[p]] = "WPS_EMPTY"]
                /\ NextPool(p)
                /\ UNCHANGED <<workpool, node, job>>
           ELSE LET r == Head(pool).rect IN
                /\ workpool' = [workpool EXCEPT ![i[p]] = Tail(@)]
                /\ node' = [node EXCEPT ![p] = Head(pool).node]
                /\ job' = [job EXCEPT ![p] = [xpix |-> r.xpix, ypix |-> r.ypix,
                             xdim |-> r.xdim, ydim |-> r.ydim, xcurr |-> r.xpix, ycurr |-> r.ypix]]
                /\ Goto(p, "free")
                /\ UNCHANGED <<wpstat, i>>
        /\ UNCHANGED <<scene, heap, model, calls, todo, frame, stopped>>

GlobalFree(p) ==
    /\ At(p, "free")
    /\ IF FreeError(heap, node[p])
       THEN Exit
       ELSE /\ heap' = Release(heap, node[p])
            /\ node' = [node EXCEPT ![p] = NULL]
            /\ Goto(p, "trace")
            /\ UNCHANGED <<scene, model, calls, todo, workpool, wpstat, i, job, frame, stopped>>

\* GetRayJobFromBundle and the ray tree of the pixel; then the own pool again.
RayTrace(p) ==
    LET j == job[p]
        colors == picture[<<j.xcurr, j.ycurr>>]
    IN
    /\ At(p, "trace")
    /\ IF j.ypix + j.ydim = j.ycurr
       THEN /\ i' = [i EXCEPT ![p] = p]
            /\ job' = [job EXCEPT ![p] = NoJob]
            /\ Goto(p, "look")
            /\ UNCHANGED <<frame, stopped>>
       ELSE /\ stopped' = (colors = ErrorColors)
            /\ frame' = [frame EXCEPT ![<<j.xcurr, j.ycurr>>] = Append(@, colors)]
            /\ job' = [job EXCEPT ![p] = IF j.xcurr + 1 = j.xpix + j.xdim
                          THEN [j EXCEPT !.xcurr = j.xpix, !.ycurr = @ + 1]
                          ELSE [j EXCEPT !.xcurr = @ + 1]]
            /\ UNCHANGED <<i, pc>>
    /\ UNCHANGED <<scene, heap, model, calls, todo, workpool, wpstat, node>>

ProcStep(p) ==
    \/ InitWorkPool(p) \/ GlobalMalloc(p) \/ PutJob(p)
    \/ Look(p) \/ GetJob(p) \/ GlobalFree(p) \/ RayTrace(p)

Finished == \A p \in Procs : At(p, "done")

Next ==
    \/ ReadModel \/ BuildHierarchy \/ Settle
    \/ \E size \in ModelSizes : ModelMalloc(size)
    \/ \E a \in model : ModelFree(a)
    \/ Create
    \/ Barrier
    \/ \E p \in Procs : ProcStep(p)
    \/ (Finished \/ stopped) /\ UNCHANGED vars

Spec == Init /\ [][Next]_vars

(* main gets round to CREATE, every process runs, and the barrier opens.   *)
FairSpec ==
    /\ Spec
    /\ WF_vars(Create) /\ WF_vars(Barrier) /\ \A p \in Procs : WF_vars(ProcStep(p))

-----------------------------------------------------------------------------
(* GlobalMalloc marks the node in use after it has given the lock back, so *)
(* that for a moment the node is off the list and still looks free.        *)
Unmarked == {node[p] : p \in {q \in Procs : pc[q] = "put"}}

\* Who holds a node: main, an entry of a pool, or a process.
Holders(a) ==
    {<<"main", 0>> : m \in model \cap {a}}
    \cup {<<"pool", p>> : p \in {q \in Procs : \E e \in Range(workpool[q]) : e.node = a}}
    \cup {<<"proc", p>> : p \in {q \in Procs : node[q] = a}}

(* No call takes an error exit: neither an invalid checksum, a node in the *)
(* wrong state, nor memory that ran out by being cut to pieces.            *)
NoErrorExit == ~stopped

(* The memory stays in order through every interleaving of the calls: each *)
(* node is on the free list or has one holder, and nothing is lost.        *)
HeapConsistent ==
    /\ TypeOK /\ NoErrorExit
    /\ Tiled(heap) /\ Ordered(heap) /\ Combined(heap)
    /\ \A a \in DOMAIN heap.arena :
         /\ heap.arena[a].free <=> a \in Listed(heap) \cup Unmarked
         /\ IF a \in Listed(heap) THEN Holders(a) = {}
            ELSE \E h \in {"main", "pool", "proc"} \X Procs : Holders(a) = {h}

(* Every pixel gets the colours of its ray tree, and gets them once,       *)
(* whoever takes its bundle; when all processes have returned no pixel is  *)
(* left out.                                                               *)
PictureExact ==
    /\ \A pixel \in Pixels : frame[pixel] = <<>> \/ frame[pixel] = <<picture[pixel]>>
    /\ Finished => \A pixel \in Pixels : frame[pixel] = <<picture[pixel]>>

(* With the scene set up, all processes run out of jobs and return.        *)
Termination == picture # <<>> ~> Finished
=============================================================================
