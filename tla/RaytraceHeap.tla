---------------------------- MODULE RaytraceHeap ----------------------------
(***************************************************************************)
(* The global memory of raytrace (memory.C): the arena, a row of nodes     *)
(* with a header each, and the list of the free ones.  Everything here is  *)
(* what one call does to the memory; RaytraceWorkPool says who calls what  *)
(* when.                                                                   *)
(*                                                                         *)
(* Addresses and sizes are in units of 8 bytes, what ROUND_UP rounds to.   *)
(* A header inside a larger node is data: it leaves the arena, so that a   *)
(* walk that comes upon it finds an invalid checksum.                      *)
(***************************************************************************)
EXTENDS Integers, SequencesExt

CONSTANT HeapSize

ASSUME HeapAssumption == HeapSize \in Nat /\ HeapSize > 4

nodesize  == 4                     \* sizeof(NODE): next, size, free, cksm
THRESHOLD == nodesize + 2          \* and 16 bytes
NULL      == -1

\* NODE_ADD(curr, curr->size + nodesize)
Behind(arena, a) == a + nodesize + arena[a].size

GlobalHeapInit ==
    [arena |-> [a \in {0} |-> [size |-> HeapSize - nodesize, free |-> TRUE, next |-> NULL]],
     freelist |-> 0]

\* The addresses a walk through the arena meets, and where it ends: at the
\* end of memory, or where no node is.
Walk(arena, from) ==
    LET walk[a \in Nat] == IF a \in DOMAIN arena THEN {a} \cup walk[Behind(arena, a)] ELSE {a}
    IN  walk[from]

FreeList(heap) ==
    LET list[a \in Nat \cup {NULL}] ==
            IF a \in DOMAIN heap.arena THEN <<a>> \o list[heap.arena[a].next] ELSE <<>>
    IN  list[heap.freelist]

-----------------------------------------------------------------------------
(* GlobalMalloc under memlock: first fit.  The rest of a node that is much *)
(* larger goes back to the list in its place.                              *)
Fits(heap, size) == SelectSeq(FreeList(heap), LAMBDA a : heap.arena[a].size >= size)
FirstFit(heap, size) == IF Fits(heap, size) = <<>> THEN NULL ELSE Head(Fits(heap, size))

\* "Node in free list not marked as free": the nodes passed over.
MallocError(heap, size) ==
    \E a \in Range(FreeList(heap)) :
        /\ ~heap.arena[a].free /\ heap.arena[a].size < size
        /\ FirstFit(heap, size) = NULL \/ a < FirstFit(heap, size)

\* gm->freelist or prev->next, whichever names curr, becomes next.
Relink(heap, curr, next) ==
    IF heap.freelist = curr THEN [heap EXCEPT !.freelist = next]
    ELSE LET prev == CHOOSE a \in Range(FreeList(heap)) : heap.arena[a].next = curr
         IN  [heap EXCEPT !.arena[prev].next = next]

Allocate(heap, size) ==
    LET curr == FirstFit(heap, size)
        node == heap.arena[curr]
        rest == curr + nodesize + size
    IN  IF node.size - size > THRESHOLD
        THEN LET split == [a \in DOMAIN heap.arena \cup {rest} |->
                     CASE a = rest -> [size |-> node.size - nodesize - size,
                                       free |-> TRUE, next |-> node.next]
                       [] a = curr -> [node EXCEPT !.size = size]
                       [] OTHER    -> heap.arena[a]]
             IN  Relink([heap EXCEPT !.arena = split], curr, rest)
        ELSE Relink(heap, curr, node.next)

\* The last lines of GlobalMalloc, after UNLOCK.
MarkInUse(heap, curr) ==
    [heap EXCEPT !.arena[curr].next = NULL, !.arena[curr].free = FALSE]

-----------------------------------------------------------------------------
(* GlobalFree under memlock: from the head of the free list through the    *)
(* arena to the node, on to the next free node, and the combination of the *)
(* three.                                                                  *)
Before(heap, pn) ==
    IF heap.freelist = NULL THEN {} ELSE {a \in Walk(heap.arena, heap.freelist) : a < pn}
After(heap, pn) == Walk(heap.arena, Behind(heap.arena, pn)) \ {HeapSize}

\* The error exits: the node is free, a header on the way is not one, or
\* the walk does not come to the node.
FreeError(heap, pn) ==
    \/ pn \notin DOMAIN heap.arena
    \/ heap.arena[pn].free
    \/ Before(heap, pn) \ DOMAIN heap.arena # {}
    \/ Before(heap, pn) # {} /\ pn \notin Walk(heap.arena, heap.freelist)
    \/ \E a \in After(heap, pn) \ DOMAIN heap.arena :
         \A b \in After(heap, pn) \cap DOMAIN heap.arena : ~heap.arena[b].free

Without(arena, addresses) == [a \in DOMAIN arena \ addresses |-> arena[a]]

Combine(heap, pn, prev, pcom, next, ncom) ==
    LET node   == IF pcom THEN prev ELSE pn
        gone   == (IF pcom THEN {pn} ELSE {}) \cup (IF ncom THEN {next} ELSE {})
        size   == heap.arena[pn].size
                  + (IF pcom THEN heap.arena[prev].size + nodesize ELSE 0)
                  + (IF ncom THEN heap.arena[next].size + nodesize ELSE 0)
        merged == [Without(heap.arena, gone) EXCEPT ![node] =
                     [size |-> size, free |-> TRUE,
                      next |-> IF ncom THEN heap.arena[next].next ELSE next]]
    IN  IF prev = NULL THEN [arena |-> merged, freelist |-> pn]
        ELSE IF pcom THEN [heap EXCEPT !.arena = merged]
        ELSE [heap EXCEPT !.arena = [merged EXCEPT ![prev].next = pn]]

ReleaseNoCombine(heap, pn) ==      \* mutant: looks at the free list only
    LET prevs == {a \in Before(heap, pn) : heap.arena[a].free}
        nexts == {a \in After(heap, pn) : heap.arena[a].free}
        prev  == IF prevs = {} THEN NULL ELSE CHOOSE a \in prevs : \A b \in prevs : b <= a
        next  == IF nexts = {} THEN NULL ELSE CHOOSE a \in nexts : \A b \in nexts : a <= b
    IN  Combine(heap, pn, prev, FALSE, next, next = Behind(heap.arena, pn))
Release(heap, pn) ==
    LET prevs == {a \in Before(heap, pn) : heap.arena[a].free}
        nexts == {a \in After(heap, pn) : heap.arena[a].free}
        prev  == IF prevs = {} THEN NULL ELSE CHOOSE a \in prevs : \A b \in prevs : b <= a
        next  == IF nexts = {} THEN NULL ELSE CHOOSE a \in nexts : \A b \in nexts : a <= b
    IN  Combine(heap, pn, prev, prev # NULL /\ Behind(heap.arena, prev) = pn,
                next, next = Behind(heap.arena, pn))

-----------------------------------------------------------------------------
(* A memory in order: the nodes tile it, the free list holds free nodes in *)
(* the order of their addresses, and no two of them are neighbours.        *)
Listed(heap) == Range(FreeList(heap))
Tiled(heap) == Walk(heap.arena, 0) = DOMAIN heap.arena \cup {HeapSize}
Ordered(heap) ==
    /\ heap.freelist \in DOMAIN heap.arena \cup {NULL}
    /\ \A a \in DOMAIN heap.arena :
         heap.arena[a].next = NULL
         \/ (heap.arena[a].next \in DOMAIN heap.arena /\ heap.arena[a].next > a)
    /\ \A a \in Listed(heap) : heap.arena[a].free
Combined(heap) == \A a, b \in Listed(heap) : Behind(heap.arena, a) # b
=============================================================================
