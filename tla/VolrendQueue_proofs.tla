------------------------- MODULE VolrendQueue_proofs -------------------------
(***************************************************************************)
(* What holds of the block queues of volrend for every number of nodes,    *)
(* frames and blocks: the queues themselves, and then the picture.         *)
(***************************************************************************)
EXTENDS VolrendQueue, TLAPS, FiniteSetTheorems, WellFoundedInduction

(* The stretches between two barriers.  All nodes are in the same one.     *)
Between  == {"slave1", "store", "done"}
Clearing == {"clear", "slave2"}
Setting  == {"setup", "time1"}
Working  == {"count", "spin", "reset", "loop", "take", "increment", "trace",
             "retire", "advance", "skip", "time2"}
Ending   == {"time3"}

AllIn(stretch) == \A p \in Nodes : pc[p] \in stretch
StretchInv ==
    \/ AllIn(Between) \/ AllIn(Clearing) \/ AllIn(Setting) \/ AllIn(Working) \/ AllIn(Ending)
InWork == AllIn(Working) \/ AllIn(Ending)

\* Only the last barrier of the last frame reaches ROTATE_STEPS.
StepInv ==
    \A p \in Nodes : pc[p] \notin {"store", "done"} => step[p] < ROTATE_STEPS

\* What Setup has written when it is over.
SettingInv ==
    \A p \in Nodes : At(p, "time1") =>
        /\ retired = {}
        /\ Queue[num_nodes] = num_nodes
        /\ Counter = num_nodes
        /\ Queue[p] = 0

\* Counter counts the nodes that still shade.
Shading  == {p \in Nodes : At(p, "count")}
CountInv == InWork => Counter = Cardinality(Shading)

\* The last entry of Queue counts the sections not retired.
SectionsInv == InWork => Queue[num_nodes] = Cardinality(Nodes \ retired)

\* An owner that has retired comes back to its own section only when no
\* section is left, and then takes no block of it.
RetiredInv ==
    InWork => \A p \in retired :
        /\ pc[p] \in {"loop", "take", "increment", "trace", "advance", "skip",
                      "time2", "time3"}
        /\ local_node[p] = p /\ pc[p] \in {"loop", "take", "increment", "trace"}
             => pc[p] = "loop" /\ Queue[num_nodes] = 0

\* Two nodes do not hold the lock of one queue.
LockInv ==
    \A p, r \in Nodes :
        At(p, "increment") /\ At(r, "increment") /\ local_node[p] = local_node[r] => p = r

\* The queue of a retired section stays used up.
UsedInv ==
    InWork => \A q \in Nodes : q \in retired \/ At(q, "retire") =>
        /\ Queue[q] >= lnum_blocks
        /\ \A p \in Nodes : At(p, "increment") /\ local_node[p] = q => work[p] >= lnum_blocks

\* Every block that was handed out is in somebody's hands or traced.
Kept(q, b) == Held(q, b) \/ Traced(q, b)
TakenInv ==
    InWork => \A q \in Nodes : \A b \in BlockNumbers :
        /\ b < Queue[q] => Kept(q, b)
        /\ \A p \in Nodes : At(p, "increment") /\ local_node[p] = q /\ b < work[p] => Kept(q, b)

\* A node leaves the loop when every section is retired.
LeftInv ==
    InWork => \A p \in Nodes : pc[p] \in {"time2", "time3"} => retired = Nodes

IInv ==
    /\ TypeOK /\ StretchInv /\ StepInv /\ SettingInv /\ CountInv /\ SectionsInv /\ RetiredInv
    /\ LockInv /\ UsedInv /\ TakenInv /\ LeftInv

-----------------------------------------------------------------------------
(* The geometry: how many sections and blocks there are.                   *)
LEMMA SectionCount == image_sectionX \in 1 .. num_nodes
<1> DEFINE Factor(i) == i = 1 \/ ((i + 1) * (i + 1) <= num_nodes /\ num_nodes % i = 0)
           F == {i \in 1 .. num_nodes : Factor(i)}
           R == OpToRel(<, Nat)
           T == {num_nodes - i : i \in F}
<1>0. num_nodes \in Nat \ {0}
  BY VolrendAssumption
<1>1. IsWellFoundedOn(R, Nat)
  BY NatLessThanWellFounded
<1>2. T \subseteq Nat
  BY <1>0
<1>3. T # {}
  <2>1. 1 \in F
    BY <1>0
  <2> QED BY <2>1
<1>4. PICK y \in T : \A x \in T : <<x, y>> \notin R
  <2> HIDE DEF T, R
  <2> QED BY <1>1, <1>2, <1>3, WFMin, Zenon
<1>5. \A x \in T : ~ (x < y)
  BY <1>4, <1>2 DEF OpToRel
<1>6. PICK f \in F : y = num_nodes - f
  OBVIOUS
<1>7. f \in 1 .. num_nodes /\ Factor(f)
  OBVIOUS
<1>8. \A i \in 1 .. num_nodes : Factor(i) => i <= f
  <2> SUFFICES ASSUME NEW i \in 1 .. num_nodes, Factor(i)
               PROVE  i <= f
    OBVIOUS
  <2>1. num_nodes - i \in T
    OBVIOUS
  <2> HIDE DEF Factor
  <2>2. ~ (num_nodes - i < num_nodes - f)
    BY <1>5, <1>6, <2>1
  <2> QED BY <2>2, <1>0, <1>7
<1> HIDE DEF Factor
<1>9. image_sectionX = CHOOSE g \in 1 .. num_nodes :
                          Factor(g) /\ \A i \in 1 .. num_nodes : Factor(i) => i <= g
  BY DEF image_sectionX, Factor
<1> QED BY <1>7, <1>8, <1>9

LEMMA BlockCount == lnum_blocks \in Int
<1>1. image_sectionX \in Nat /\ image_sectionX > 0 /\ image_sectionX <= num_nodes
  BY SectionCount, VolrendAssumption
<1>2. image_sectionY \in Nat /\ image_sectionY > 0
  BY <1>1, VolrendAssumption DEF image_sectionY
<1>3. num_xqueue \in Int /\ num_yqueue \in Int
  BY <1>1, <1>2, VolrendAssumption DEF num_xqueue, num_yqueue, RoundUp
<1>4. lnum_xblocks \in Int /\ lnum_yblocks \in Int
  BY <1>3, VolrendAssumption DEF lnum_xblocks, lnum_yblocks, RoundUp
<1> QED BY <1>4 DEF lnum_blocks

LEMMA NodeFacts ==
    /\ ROOT \in Nodes /\ num_nodes \in Nat \ {0} /\ num_nodes \notin Nodes
    /\ Nodes \subseteq 0 .. num_nodes
    /\ IsFiniteSet(Nodes) /\ Cardinality(Nodes) = num_nodes
    /\ \A q \in Nodes : NextNode(q) \in Nodes
<1>1. num_nodes \in Nat \ {0}
  BY VolrendAssumption
<1>2. IsFiniteSet(Nodes) /\ Cardinality(Nodes) = num_nodes
  <2>1. 0 \in Int /\ num_nodes - 1 \in Int /\ ~ (0 > num_nodes - 1)
    BY <1>1
  <2>2. IsFiniteSet(0 .. num_nodes - 1) /\ Cardinality(0 .. num_nodes - 1) = (num_nodes - 1) - 0 + 1
    BY <2>1, FS_Interval
  <2> QED BY <1>1, <2>2 DEF Nodes
<1> QED BY <1>1, <1>2 DEF Nodes, ROOT, NextNode

-----------------------------------------------------------------------------
(* Init => IInv.                                                           *)
LEMMA Initial == Init => IInv
<1> SUFFICES ASSUME Init PROVE IInv
  OBVIOUS
<1>1. TypeOK
  BY NodeFacts, VolrendAssumption DEF Init, TypeOK, Labels
<1>2. AllIn(Between) /\ ~ InWork
  BY NodeFacts DEF Init, AllIn, Between, InWork, Working, Ending
<1>3. StretchInv /\ StepInv /\ SettingInv /\ LockInv
  BY <1>2, VolrendAssumption DEF Init, StretchInv, StepInv, SettingInv, LockInv, At
<1> QED BY <1>1, <1>2, <1>3 DEF IInv, CountInv, SectionsInv, RetiredInv, UsedInv, TakenInv, LeftInv

-----------------------------------------------------------------------------
(* What every step of a node within the working stretch keeps.             *)
LEMMA WorkStep ==
    ASSUME IInv, NEW p \in Nodes, NEW l \in Working, pc[p] \in Working,
           Goto(p, l), UNCHANGED step
    PROVE  /\ InWork /\ InWork'
           /\ pc' \in [Nodes -> Labels]
           /\ StretchInv' /\ StepInv' /\ SettingInv'
           /\ pc[p] # "count" /\ l # "count" /\ UNCHANGED Counter => CountInv'
<1>1. AllIn(Working)
  BY NodeFacts DEF IInv, StretchInv, AllIn, Between, Clearing, Setting, Working, Ending
<1>2. pc' \in [Nodes -> Labels]
  BY DEF IInv, TypeOK, Goto, Labels, Working
<1>3. AllIn(Working)'
  BY <1>1, <1>2 DEF IInv, TypeOK, AllIn, Goto
<1>4. StretchInv'
  BY <1>3 DEF StretchInv
<1>5. StepInv'
  BY <1>1 DEF IInv, TypeOK, StepInv, AllIn, Working, Goto
<1>6. SettingInv'
  BY <1>3 DEF SettingInv, AllIn, Working, At
<1>7. ASSUME pc[p] # "count", l # "count", UNCHANGED Counter
      PROVE  CountInv'
  <2>1. Shading' = Shading
    BY <1>7 DEF IInv, TypeOK, Shading, At, Goto
  <2> QED BY <1>1, <1>7, <2>1 DEF IInv, CountInv, InWork
<1> QED BY <1>1, <1>2, <1>3, <1>4, <1>5, <1>6, <1>7 DEF InWork

-----------------------------------------------------------------------------
(* One lemma for each action of a node.                                    *)
LEMMA OutsideWork ==
    ASSUME TypeOK', StretchInv', StepInv', SettingInv', LockInv', ~ InWork'
    PROVE  IInv'
BY DEF IInv, CountInv, SectionsInv, RetiredInv, UsedInv, TakenInv, LeftInv

LEMMA ClearKeeps == ASSUME IInv, NEW p \in Nodes, Clear(p) PROVE IInv'
<1>1. TypeOK'
  BY DEF IInv, TypeOK, Clear, Goto, Labels
<1>2. AllIn(Clearing)
  BY NodeFacts DEF IInv, StretchInv, AllIn, Between, Clearing, Setting, Working, Ending, Clear, At
<1>3. AllIn(Clearing)'
  BY <1>2 DEF IInv, TypeOK, AllIn, Clear, Goto, Clearing
<1>4. StretchInv' /\ ~ InWork'
  BY <1>3, NodeFacts DEF StretchInv, InWork, AllIn, Clearing, Working, Ending
<1>5. StepInv' /\ SettingInv' /\ LockInv'
  BY <1>2, <1>3 DEF IInv, TypeOK, StepInv, SettingInv, LockInv, AllIn, Clearing, Clear, Goto, At
<1> QED BY <1>1, <1>4, <1>5, OutsideWork

LEMMA SetupKeeps == ASSUME IInv, NEW p \in Nodes, Setup(p) PROVE IInv'
<1>1. TypeOK'
  <2>1. Queue' \in [0 .. num_nodes -> Nat] /\ Queue'[num_nodes] = num_nodes
    <3> DEFINE renewed == [Queue EXCEPT ![num_nodes] = num_nodes]
    <3>1. Queue' = [renewed EXCEPT ![p] = 0]
      BY DEF Setup
    <3>2. renewed \in [0 .. num_nodes -> Nat] /\ renewed[num_nodes] = num_nodes
      BY NodeFacts DEF IInv, TypeOK
    <3> HIDE DEF renewed
    <3> QED BY <3>1, <3>2, NodeFacts
  <2>2. pc' \in [Nodes -> Labels]
    BY DEF IInv, TypeOK, Setup, Goto, Labels
  <2>3. Counter' \in 0 .. num_nodes /\ retired' \in SUBSET Nodes
    BY NodeFacts DEF Setup
  <2>4. UNCHANGED <<step, local_node, work, rays>> /\ num_nodes <= num_nodes
    BY NodeFacts DEF Setup
  <2> QED BY <2>1, <2>2, <2>3, <2>4 DEF IInv, TypeOK
<1>2. AllIn(Setting)
  BY NodeFacts DEF IInv, StretchInv, AllIn, Between, Clearing, Setting, Working, Ending, Setup, At
<1>3. AllIn(Setting)'
  BY <1>2 DEF IInv, TypeOK, AllIn, Setup, Goto, Setting
<1>4. StretchInv' /\ ~ InWork'
  BY <1>3, NodeFacts DEF StretchInv, InWork, AllIn, Setting, Working, Ending
<1>5. StepInv' /\ LockInv'
  BY <1>2, <1>3 DEF IInv, TypeOK, StepInv, LockInv, AllIn, Setting, Setup, Goto, At
<1>6. SettingInv'
  BY NodeFacts DEF IInv, TypeOK, SettingInv, Setup, Goto, At
<1> QED BY <1>1, <1>4, <1>5, <1>6, OutsideWork

LEMMA CountDownKeeps == ASSUME IInv, NEW p \in Nodes, CountDown(p) PROVE IInv'
<1>1. /\ pc[p] \in Working /\ Goto(p, "spin") /\ "spin" \in Working
      /\ UNCHANGED <<step, Queue, local_node, work, rays, retired>>
  BY DEF CountDown, At, Working
<1>2. InWork /\ InWork' /\ pc' \in [Nodes -> Labels] /\ StretchInv' /\ StepInv' /\ SettingInv'
  BY <1>1, WorkStep
<1>3. Shading' = Shading \ {p} /\ p \in Shading /\ Shading \subseteq Nodes
  BY DEF IInv, TypeOK, CountDown, Shading, At, Goto
<1>4. /\ IsFiniteSet(Shading) /\ Cardinality(Shading) \in Nat
      /\ Cardinality(Shading') = Cardinality(Shading) - 1 /\ Cardinality(Shading') \in Nat
  BY <1>3, NodeFacts, FS_Subset, FS_RemoveElement, FS_CardinalityType
<1>5. CountInv' /\ Counter' \in 0 .. num_nodes
  <2>1. Counter = Cardinality(Shading)
    BY <1>2 DEF IInv, CountInv
  <2>2. Counter \in 0 .. num_nodes /\ Counter' = Counter - 1
    BY DEF IInv, TypeOK, CountDown
  <2>3. Counter' = Cardinality(Shading')
    BY <2>1, <2>2, <1>4
  <2> QED BY <2>2, <2>3, <1>4, NodeFacts DEF CountInv
<1>8. TypeOK'
  BY <1>1, <1>2, <1>5 DEF IInv, TypeOK
<1>6. SectionsInv' /\ LockInv' /\ LeftInv' /\ RetiredInv' /\ UsedInv'
  BY <1>1, <1>2 DEF IInv, TypeOK, CountDown, Goto, At, SectionsInv, LockInv, LeftInv, RetiredInv, UsedInv
<1>7. TakenInv'
  BY <1>1, <1>2 DEF IInv, TypeOK, CountDown, Goto, At, TakenInv, Kept, Held, Traced
<1> QED BY <1>2, <1>5, <1>6, <1>7, <1>8 DEF IInv

LEMMA SpinDoneKeeps == ASSUME IInv, NEW p \in Nodes, SpinDone(p) PROVE IInv'
<1>1. /\ pc[p] \in Working /\ Goto(p, "reset") /\ "reset" \in Working
      /\ UNCHANGED <<step, Counter, Queue, local_node, work, rays, retired>>
  BY DEF SpinDone, At, Working
<1>2. InWork /\ InWork' /\ pc' \in [Nodes -> Labels] /\ StretchInv' /\ StepInv' /\ SettingInv' /\ CountInv'
  BY <1>1, WorkStep DEF SpinDone, At
<1>3. TypeOK'
  BY <1>1, <1>2 DEF IInv, TypeOK
<1>4. SectionsInv' /\ LockInv' /\ LeftInv' /\ RetiredInv' /\ UsedInv'
  BY <1>1, <1>2 DEF IInv, TypeOK, SpinDone, Goto, At, SectionsInv, LockInv, LeftInv, RetiredInv, UsedInv
<1>5. TakenInv'
  BY <1>1, <1>2 DEF IInv, TypeOK, SpinDone, Goto, At, TakenInv, Kept, Held, Traced
<1> QED BY <1>2, <1>3, <1>4, <1>5 DEF IInv

LEMMA ResetKeeps == ASSUME IInv, NEW p \in Nodes, Reset(p) PROVE IInv'
<1>1. /\ pc[p] \in Working /\ Goto(p, "loop") /\ "loop" \in Working
      /\ UNCHANGED <<step, Counter, work, rays, retired>>
  BY DEF Reset, At, Working
<1>2. InWork /\ InWork' /\ pc' \in [Nodes -> Labels] /\ StretchInv' /\ StepInv' /\ SettingInv' /\ CountInv'
  BY <1>1, WorkStep DEF Reset, At
<1>3. p # num_nodes /\ p \notin retired /\ ~ At(p, "increment")
  BY <1>2, NodeFacts DEF IInv, RetiredInv, Reset, At
<1>4. Queue' \in [0 .. num_nodes -> Nat] /\ local_node' \in [Nodes -> Nodes]
  BY DEF IInv, TypeOK, Reset
<1>5. Queue'[p] = 0 /\ \A q \in (0 .. num_nodes) \ {p} : Queue'[q] = Queue[q]
  BY NodeFacts DEF IInv, TypeOK, Reset
<1>10. Queue'[num_nodes] = Queue[num_nodes]
  BY <1>3, <1>5, NodeFacts
<1>11. TypeOK' /\ SectionsInv'
  BY <1>1, <1>2, <1>4, <1>10 DEF IInv, TypeOK, SectionsInv
<1>12. /\ pc'[p] = "loop"
       /\ \A r \in Nodes \ {p} : pc'[r] = pc[r] /\ local_node'[r] = local_node[r]
  BY DEF Reset, Goto, IInv, TypeOK
<1>6. LockInv' /\ LeftInv'
  BY <1>1, <1>2, <1>12 DEF IInv, At, LockInv, LeftInv
<1>13. RetiredInv'
  <2>1. retired \subseteq Nodes \ {p}
    BY <1>3 DEF IInv, TypeOK
  <2> QED BY <2>1, <1>1, <1>2, <1>10, <1>12 DEF IInv, RetiredInv
<1>7. UsedInv'
  <2> SUFFICES ASSUME NEW q \in Nodes, q \in retired \/ At(q, "retire")'
               PROVE  /\ Queue'[q] >= lnum_blocks
                      /\ \A r \in Nodes : At(r, "increment")' /\ local_node'[r] = q
                                            => work'[r] >= lnum_blocks
    BY <1>1 DEF UsedInv
  <2>1. q # p /\ (q \in retired \/ At(q, "retire")) /\ Queue'[q] = Queue[q]
    BY <1>3, <1>5, <1>12, NodeFacts DEF At
  <2> QED BY <2>1, <1>1, <1>2, <1>12 DEF IInv, UsedInv, At
<1>8. \A q \in Nodes, b \in BlockNumbers : Kept(q, b) => Kept(q, b)'
  BY <1>1, <1>3 DEF IInv, TypeOK, Reset, Goto, At, Kept, Held, Traced
<1>9. TakenInv'
  <2> SUFFICES ASSUME NEW q \in Nodes, NEW b \in BlockNumbers
               PROVE  /\ b < Queue'[q] => Kept(q, b)
                      /\ \A r \in Nodes : At(r, "increment")' /\ local_node'[r] = q /\ b < work'[r]
                                            => Kept(q, b)
    BY <1>8 DEF TakenInv
  <2>1. b < Queue'[q] => Kept(q, b)
    BY <1>2, <1>5, NodeFacts DEF IInv, TakenInv, BlockNumbers
  <2>2. ASSUME NEW r \in Nodes, At(r, "increment")', local_node'[r] = q, b < work'[r]
        PROVE  Kept(q, b)
    <3>1. At(r, "increment") /\ local_node[r] = q /\ b < work[r]
      BY <2>2, <1>1 DEF IInv, TypeOK, Reset, Goto, At
    <3> QED BY <3>1, <1>2 DEF IInv, TakenInv
  <2> QED BY <2>1, <2>2
<1> QED BY <1>2, <1>11, <1>6, <1>7, <1>9, <1>13 DEF IInv

\* A queue whose sections have all retired is empty of owners.
LEMMA NoneLeft ==
    ASSUME IInv, InWork, ~ (Queue[num_nodes] > 0)
    PROVE  Queue[num_nodes] = 0 /\ retired = Nodes
<1>1. Queue[num_nodes] = 0
  BY NodeFacts DEF IInv, TypeOK
<1>2. Cardinality(Nodes \ retired) = 0 /\ IsFiniteSet(Nodes \ retired)
  BY <1>1, NodeFacts, FS_Subset DEF IInv, SectionsInv
<1>3. Nodes \ retired = {}
  BY <1>2, FS_EmptySet
<1> QED BY <1>1, <1>3 DEF IInv, TypeOK

LEMMA LoopKeeps == ASSUME IInv, NEW p \in Nodes, Loop(p) PROVE IInv'
<1> DEFINE l == IF Queue[num_nodes] > 0 THEN "take" ELSE "time2"
<1>1. /\ pc[p] = "loop" /\ pc[p] \in Working /\ Goto(p, l) /\ l \in {"take", "time2"} /\ l \in Working
      /\ UNCHANGED <<step, Counter, Queue, local_node, work, rays, retired>>
  BY DEF Loop, At, Working
<1>2. InWork /\ InWork' /\ pc' \in [Nodes -> Labels] /\ StretchInv' /\ StepInv' /\ SettingInv' /\ CountInv'
  <2> HIDE DEF l
  <2> QED BY <1>1, WorkStep
<1>3. TypeOK' /\ SectionsInv'
  BY <1>1, <1>2 DEF IInv, TypeOK, SectionsInv
<1>4. l = "time2" => Queue[num_nodes] = 0 /\ retired = Nodes
  BY <1>2, NoneLeft
<1>5. l = "take" => Queue[num_nodes] > 0
  OBVIOUS
<1> HIDE DEF l
<1>6. /\ pc'[p] = l /\ \A r \in Nodes \ {p} : pc'[r] = pc[r]
  BY <1>1 DEF Goto, IInv, TypeOK
<1>7. LockInv' /\ LeftInv'
  BY <1>1, <1>2, <1>4, <1>6 DEF IInv, LockInv, LeftInv, At
<1>8. RetiredInv'
  <2> SUFFICES ASSUME NEW r \in retired
               PROVE  /\ pc'[r] \in {"loop", "take", "increment", "trace", "advance", "skip",
                                      "time2", "time3"}
                      /\ local_node[r] = r /\ pc'[r] \in {"loop", "take", "increment", "trace"}
                           => pc'[r] = "loop" /\ Queue[num_nodes] = 0
    BY <1>1 DEF RetiredInv
  <2>1. /\ pc[r] \in {"loop", "take", "increment", "trace", "advance", "skip", "time2", "time3"}
        /\ local_node[r] = r /\ pc[r] \in {"loop", "take", "increment", "trace"}
             => pc[r] = "loop" /\ Queue[num_nodes] = 0
    BY <1>2 DEF IInv, RetiredInv
  <2>2. r \in Nodes
    BY DEF IInv, TypeOK
  <2>3. CASE r = p
    BY <2>1, <2>3, <1>1, <1>5, <1>6
  <2>4. CASE r # p
    BY <2>1, <2>2, <2>4, <1>6
  <2> QED BY <2>3, <2>4
<1>9. UsedInv'
  BY <1>1, <1>2, <1>6 DEF IInv, UsedInv, At
<1>10. TakenInv'
  BY <1>1, <1>2, <1>6 DEF IInv, TakenInv, Kept, Held, Traced, At
<1> QED BY <1>2, <1>3, <1>7, <1>8, <1>9, <1>10 DEF IInv

LEMMA TakeKeeps == ASSUME IInv, NEW p \in Nodes, Take(p) PROVE IInv'
<1> DEFINE s == local_node[p]
<1>1. /\ pc[p] = "take" /\ pc[p] \in Working /\ Goto(p, "increment") /\ "increment" \in Working
      /\ ~ Locked(s) /\ work' = [work EXCEPT ![p] = Queue[s]]
      /\ UNCHANGED <<step, Counter, Queue, local_node, rays, retired>>
  BY DEF Take, At, Working
<1>2. InWork /\ InWork' /\ pc' \in [Nodes -> Labels] /\ StretchInv' /\ StepInv' /\ SettingInv' /\ CountInv'
  BY <1>1, WorkStep
<1>3. s \in Nodes /\ Queue[s] \in Nat /\ ~ (p \in retired /\ s = p)
  BY <1>1, <1>2, NodeFacts DEF IInv, TypeOK, RetiredInv
<1>4. /\ pc'[p] = "increment" /\ work'[p] = Queue[s] /\ local_node'[p] = s
      /\ \A r \in Nodes \ {p} : pc'[r] = pc[r] /\ work'[r] = work[r] /\ local_node'[r] = local_node[r]
  BY <1>1 DEF Goto, IInv, TypeOK
<1>5. TypeOK' /\ SectionsInv'
  BY <1>1, <1>2, <1>3 DEF IInv, TypeOK, SectionsInv
<1>6. LockInv' /\ LeftInv'
  BY <1>1, <1>2, <1>4 DEF IInv, LockInv, LeftInv, At, Locked
<1>7. RetiredInv'
  BY <1>1, <1>2, <1>3, <1>4 DEF IInv, TypeOK, RetiredInv
<1>8. UsedInv'
  BY <1>1, <1>2, <1>3, <1>4 DEF IInv, UsedInv, At
<1>9. \A q \in Nodes, b \in BlockNumbers : Kept(q, b) => Kept(q, b)'
  BY <1>1, <1>4 DEF Kept, Held, Traced
<1>10. TakenInv'
  BY <1>1, <1>2, <1>3, <1>4, <1>9 DEF IInv, TakenInv, At
<1> QED BY <1>2, <1>5, <1>6, <1>7, <1>8, <1>10 DEF IInv

LEMMA IncrementKeeps == ASSUME IInv, NEW p \in Nodes, Increment(p) PROVE IInv'
<1> DEFINE s == local_node[p]
           l == IF work[p] < lnum_blocks THEN "trace" ELSE IF p = s THEN "retire" ELSE "advance"
<1>1. /\ pc[p] = "increment" /\ pc[p] \in Working /\ Goto(p, l)
      /\ l \in {"trace", "retire", "advance"} /\ l \in Working
      /\ Queue' = [Queue EXCEPT ![s] = work[p] + 1]
      /\ UNCHANGED <<step, Counter, local_node, work, rays, retired>>
  BY DEF Increment, At, Working
<1>2. /\ l = "trace" => work[p] < lnum_blocks
      /\ l # "trace" => ~ (work[p] < lnum_blocks)
      /\ l = "retire" => p = s
  OBVIOUS
<1>3. s \in Nodes /\ s # num_nodes /\ work[p] \in Nat /\ Queue[s] \in Nat
  BY NodeFacts DEF IInv, TypeOK
<1> HIDE DEF l, s
<1>4. InWork /\ InWork' /\ pc' \in [Nodes -> Labels] /\ StretchInv' /\ StepInv' /\ SettingInv' /\ CountInv'
  BY <1>1, WorkStep
<1>5. /\ Queue' \in [0 .. num_nodes -> Nat]
      /\ Queue'[s] = work[p] + 1 /\ \A q \in (0 .. num_nodes) \ {s} : Queue'[q] = Queue[q]
  BY <1>1, <1>3, NodeFacts DEF IInv, TypeOK
<1>6. Queue'[num_nodes] = Queue[num_nodes]
  BY <1>3, <1>5, NodeFacts
<1>7. pc'[p] = l /\ \A r \in Nodes \ {p} : pc'[r] = pc[r]
  BY <1>1 DEF Goto, IInv, TypeOK
<1>8. TypeOK' /\ SectionsInv'
  BY <1>1, <1>4, <1>5, <1>6 DEF IInv, TypeOK, SectionsInv
<1>9. LockInv' /\ LeftInv'
  BY <1>1, <1>4, <1>7 DEF IInv, LockInv, LeftInv, At
<1>10. \A r \in Nodes \ {p} : ~ (At(r, "increment") /\ local_node[r] = s)
  BY <1>1 DEF IInv, LockInv, At, s
<1>11. RetiredInv'
  <2>1. ~ (p \in retired /\ s = p)
    BY <1>1, <1>4 DEF IInv, RetiredInv, s
  <2>2. retired \subseteq Nodes
    BY DEF IInv, TypeOK
  <2> QED BY <2>1, <2>2, <1>1, <1>2, <1>4, <1>6, <1>7 DEF IInv, RetiredInv, s
<1>12. UsedInv'
  <2> SUFFICES ASSUME NEW q \in Nodes, q \in retired \/ At(q, "retire")'
               PROVE  /\ Queue'[q] >= lnum_blocks
                      /\ \A r \in Nodes : At(r, "increment")' /\ local_node[r] = q
                                            => work[r] >= lnum_blocks
    BY <1>1 DEF UsedInv
  <2>1. \A r \in Nodes : At(r, "increment")' => r # p /\ At(r, "increment")
    BY <1>1, <1>7 DEF At
  <2>2. CASE q \in retired \/ At(q, "retire")
    <3>1. /\ Queue[q] >= lnum_blocks
          /\ \A r \in Nodes : At(r, "increment") /\ local_node[r] = q => work[r] >= lnum_blocks
      BY <2>2, <1>4 DEF IInv, UsedInv
    <3>2. CASE q = s
      BY <3>1, <3>2, <2>1, <1>1, <1>3, <1>5, BlockCount DEF At, s
    <3>3. CASE q # s
      BY <3>1, <3>3, <2>1, <1>5, NodeFacts
    <3> QED BY <3>2, <3>3
  <2>3. CASE ~ (q \in retired \/ At(q, "retire"))
    <3>1. q = p /\ l = "retire" /\ q = s
      BY <2>3, <1>2, <1>7 DEF At
    <3>2. Queue'[q] >= lnum_blocks
      <4>1. ~ (work[p] < lnum_blocks)
        BY <3>1, <1>2
      <4>2. Queue'[q] = work[p] + 1
        BY <3>1, <1>5
      <4> QED BY <4>1, <4>2, <1>3, BlockCount
    <3> QED BY <3>1, <3>2, <2>1, <1>10
  <2> QED BY <2>2, <2>3
<1>13. \A q \in Nodes, b \in BlockNumbers : Kept(q, b) => Kept(q, b)'
  <2> SUFFICES ASSUME NEW q \in Nodes, NEW b \in BlockNumbers, Held(q, b)
               PROVE  Held(q, b)'
    BY <1>1 DEF Kept, Traced
  <2>1. PICK r \in Nodes : pc[r] \in {"increment", "trace"} /\ local_node[r] = q /\ work[r] = b
    BY DEF Held
  <2>2. r = p => l = "trace"
    BY <2>1, <1>2, BlockCount DEF BlockNumbers
  <2>3. pc'[r] \in {"increment", "trace"}
    BY <2>1, <2>2, <1>7
  <2> QED BY <2>1, <2>3, <1>1 DEF Held
<1>14. \A b \in BlockNumbers : b < work[p] + 1 => Kept(s, b)
  <2> SUFFICES ASSUME NEW b \in BlockNumbers, b < work[p] + 1
               PROVE  Kept(s, b)
    OBVIOUS
  <2>1. b < work[p] \/ b = work[p]
    BY <1>3, BlockCount DEF BlockNumbers
  <2>2. CASE b < work[p]
    BY <2>2, <1>1, <1>3, <1>4 DEF IInv, TakenInv, At, s
  <2>3. CASE b = work[p]
    BY <2>3, <1>1 DEF Kept, Held, s
  <2> QED BY <2>1, <2>2, <2>3
<1>15. TakenInv'
  <2> SUFFICES ASSUME NEW q \in Nodes, NEW b \in BlockNumbers
               PROVE  /\ b < Queue'[q] => Kept(q, b)
                      /\ \A r \in Nodes : At(r, "increment")' /\ local_node[r] = q /\ b < work[r]
                                            => Kept(q, b)
    BY <1>1, <1>13 DEF TakenInv
  <2>1. b < Queue'[q] => Kept(q, b)
    <3>1. CASE q = s
      BY <3>1, <1>5, <1>14
    <3>2. CASE q # s
      BY <3>2, <1>4, <1>5, NodeFacts DEF IInv, TakenInv
    <3> QED BY <3>1, <3>2
  <2>2. \A r \in Nodes : At(r, "increment")' => At(r, "increment")
    BY <1>1, <1>7 DEF At
  <2> QED BY <2>1, <2>2, <1>4 DEF IInv, TakenInv
<1> QED BY <1>4, <1>8, <1>9, <1>11, <1>12, <1>15 DEF IInv

LEMMA TraceKeeps == ASSUME IInv, NEW p \in Nodes, Trace(p) PROVE IInv'
<1> DEFINE mine == Block(local_node[p], work[p])
<1>1. /\ pc[p] = "trace" /\ pc[p] \in Working /\ Goto(p, "take") /\ "take" \in Working
      /\ rays' = [i \in Pixels |-> IF i \in mine THEN rays[i] + 1 ELSE rays[i]]
      /\ UNCHANGED <<step, Counter, Queue, local_node, work, retired>>
  BY DEF Trace, At, Working
<1> HIDE DEF mine
<1>2. InWork /\ InWork' /\ pc' \in [Nodes -> Labels] /\ StretchInv' /\ StepInv' /\ SettingInv' /\ CountInv'
  BY <1>1, WorkStep
<1>3. rays' \in [Pixels -> Nat]
  BY <1>1 DEF IInv, TypeOK
<1>4. TypeOK' /\ SectionsInv'
  BY <1>1, <1>2, <1>3 DEF IInv, TypeOK, SectionsInv
<1>5. pc'[p] = "take" /\ \A r \in Nodes \ {p} : pc'[r] = pc[r]
  BY <1>1 DEF Goto, IInv, TypeOK
<1>6. LockInv' /\ LeftInv' /\ UsedInv'
  BY <1>1, <1>2, <1>5 DEF IInv, LockInv, LeftInv, UsedInv, At
<1>7. RetiredInv'
  <2>1. retired \subseteq Nodes
    BY DEF IInv, TypeOK
  <2> QED BY <2>1, <1>1, <1>2, <1>5 DEF IInv, RetiredInv
<1>8. \A q \in Nodes, b \in BlockNumbers : Kept(q, b) => Kept(q, b)'
  <2> SUFFICES ASSUME NEW q \in Nodes, NEW b \in BlockNumbers, Kept(q, b)
               PROVE  Kept(q, b)'
    OBVIOUS
  <2>1. \A pixel \in Block(q, b) : pixel \in Pixels
    BY DEF Block
  <2>2. CASE Traced(q, b)
    BY <2>1, <2>2, <1>1 DEF Kept, Traced, IInv, TypeOK
  <2>3. CASE local_node[p] = q /\ work[p] = b
    <3>1. mine = Block(q, b)
      BY <2>3 DEF mine
    <3> QED BY <3>1, <2>1, <1>1 DEF Kept, Traced, IInv, TypeOK
  <2>4. CASE Held(q, b) /\ ~ (local_node[p] = q /\ work[p] = b)
    BY <2>4, <1>1, <1>5 DEF Kept, Held
  <2> QED BY <2>2, <2>3, <2>4 DEF Kept
<1>9. TakenInv'
  <2>1. \A r \in Nodes : At(r, "increment")' => At(r, "increment")
    BY <1>5 DEF At
  <2> QED BY <2>1, <1>1, <1>2, <1>8 DEF IInv, TakenInv
<1> QED BY <1>2, <1>4, <1>6, <1>7, <1>9 DEF IInv

LEMMA RetireKeeps == ASSUME IInv, NEW p \in Nodes, Retire(p) PROVE IInv'
<1>1. /\ pc[p] = "retire" /\ pc[p] \in Working /\ Goto(p, "advance") /\ "advance" \in Working
      /\ Queue' = [Queue EXCEPT ![num_nodes] = @ - 1]
      /\ retired' = retired \cup {p}
      /\ UNCHANGED <<step, Counter, local_node, work, rays>>
  BY DEF Retire, At, Working
<1>2. InWork /\ InWork' /\ pc' \in [Nodes -> Labels] /\ StretchInv' /\ StepInv' /\ SettingInv' /\ CountInv'
  BY <1>1, WorkStep
<1>3. p \notin retired /\ retired \subseteq Nodes
  BY <1>1, <1>2 DEF IInv, TypeOK, RetiredInv
<1>4. /\ Cardinality(Nodes \ retired') = Cardinality(Nodes \ retired) - 1
      /\ Cardinality(Nodes \ retired') \in Nat /\ Cardinality(Nodes \ retired) \in Nat
  <2>1. Nodes \ retired' = (Nodes \ retired) \ {p} /\ p \in Nodes \ retired
    BY <1>1, <1>3
  <2>2. IsFiniteSet(Nodes \ retired) /\ IsFiniteSet((Nodes \ retired) \ {p})
    BY NodeFacts, FS_Subset
  <2> QED BY <2>1, <2>2, FS_RemoveElement, FS_CardinalityType
<1>5. /\ Queue'[num_nodes] = Queue[num_nodes] - 1 /\ Queue[num_nodes] > 0
      /\ Queue'[num_nodes] = Cardinality(Nodes \ retired')
      /\ \A q \in Nodes : Queue'[q] = Queue[q]
  <2>1. Queue'[num_nodes] = Queue[num_nodes] - 1 /\ \A q \in Nodes : Queue'[q] = Queue[q]
    BY <1>1, NodeFacts DEF IInv, TypeOK
  <2>2. Queue[num_nodes] = Cardinality(Nodes \ retired)
    BY <1>2 DEF IInv, SectionsInv
  <2> QED BY <2>1, <2>2, <1>4
<1>6. Queue' \in [0 .. num_nodes -> Nat] /\ Queue'[num_nodes] <= num_nodes
  <2>1. Queue \in [0 .. num_nodes -> Nat] /\ Queue[num_nodes] <= num_nodes
    BY DEF IInv, TypeOK
  <2>2. Queue'[num_nodes] \in Nat /\ Queue'[num_nodes] <= num_nodes
    BY <2>1, <1>4, <1>5, NodeFacts
  <2>3. Queue[num_nodes] - 1 \in Nat
    BY <2>2, <1>5
  <2> QED BY <2>1, <2>2, <2>3, <1>1
<1>7. TypeOK' /\ SectionsInv'
  BY <1>1, <1>2, <1>3, <1>5, <1>6 DEF IInv, TypeOK, SectionsInv
<1>8. pc'[p] = "advance" /\ \A r \in Nodes \ {p} : pc'[r] = pc[r]
  BY <1>1 DEF Goto, IInv, TypeOK
<1>9. LockInv' /\ LeftInv'
  BY <1>1, <1>2, <1>3, <1>8 DEF IInv, LockInv, LeftInv, At
<1>10. RetiredInv'
  BY <1>1, <1>2, <1>3, <1>5, <1>8 DEF IInv, RetiredInv
<1>11. UsedInv'
  BY <1>1, <1>2, <1>5, <1>8 DEF IInv, UsedInv, At
<1>12. \A q \in Nodes, b \in BlockNumbers : Kept(q, b) => Kept(q, b)'
  BY <1>1, <1>8 DEF Kept, Held, Traced
<1>13. TakenInv'
  BY <1>1, <1>2, <1>5, <1>8, <1>12 DEF IInv, TakenInv, At
<1> QED BY <1>2, <1>7, <1>9, <1>10, <1>11, <1>13 DEF IInv

LEMMA AdvanceKeeps == ASSUME IInv, NEW p \in Nodes, Advance(p) PROVE IInv'
<1>1. /\ pc[p] = "advance" /\ pc[p] \in Working /\ Goto(p, "skip") /\ "skip" \in Working
      /\ local_node' = [local_node EXCEPT ![p] = NextNode(@)]
      /\ UNCHANGED <<step, Counter, Queue, work, rays, retired>>
  BY DEF Advance, At, Working
<1>2. InWork /\ InWork' /\ pc' \in [Nodes -> Labels] /\ StretchInv' /\ StepInv' /\ SettingInv' /\ CountInv'
  BY <1>1, WorkStep
<1>3. local_node' \in [Nodes -> Nodes]
  BY <1>1, NodeFacts DEF IInv, TypeOK
<1>4. TypeOK' /\ SectionsInv'
  BY <1>1, <1>2, <1>3 DEF IInv, TypeOK, SectionsInv
<1>5. /\ pc'[p] = "skip"
      /\ \A r \in Nodes \ {p} : pc'[r] = pc[r] /\ local_node'[r] = local_node[r]
  BY <1>1 DEF Goto, IInv, TypeOK
<1>6. LockInv' /\ LeftInv' /\ UsedInv'
  BY <1>1, <1>2, <1>5 DEF IInv, LockInv, LeftInv, UsedInv, At
<1>7. RetiredInv'
  <2>1. retired \subseteq Nodes
    BY DEF IInv, TypeOK
  <2> QED BY <2>1, <1>1, <1>2, <1>5 DEF IInv, RetiredInv
<1>8. TakenInv'
  BY <1>1, <1>2, <1>5 DEF IInv, TakenInv, Kept, Held, Traced, At
<1> QED BY <1>2, <1>4, <1>6, <1>7, <1>8 DEF IInv

LEMMA SkipKeeps == ASSUME IInv, NEW p \in Nodes, Skip(p) PROVE IInv'
<1> DEFINE past == Queue[local_node[p]] >= lnum_blocks /\ Queue[num_nodes] > 0
           l == IF past THEN "skip" ELSE "loop"
<1>1. /\ pc[p] = "skip" /\ pc[p] \in Working /\ l \in Working /\ l \in {"skip", "loop"}
      /\ UNCHANGED <<step, Counter, Queue, work, rays, retired>>
  BY DEF Skip, At, Working
<1>2. Goto(p, l)
  BY <1>1 DEF Skip, Goto, IInv, TypeOK
<1>3. /\ l = "loop" => ~ past /\ UNCHANGED local_node
      /\ l = "skip" => local_node' = [local_node EXCEPT ![p] = NextNode(@)]
  BY DEF Skip
<1> HIDE DEF past, l
<1>4. InWork /\ InWork' /\ pc' \in [Nodes -> Labels] /\ StretchInv' /\ StepInv' /\ SettingInv' /\ CountInv'
  BY <1>1, <1>2, WorkStep
<1>5. /\ local_node' \in [Nodes -> Nodes]
      /\ \A r \in Nodes \ {p} : local_node'[r] = local_node[r]
  <2>1. local_node \in [Nodes -> Nodes] /\ NextNode(local_node[p]) \in Nodes
    BY NodeFacts DEF IInv, TypeOK
  <2>2. CASE l = "loop"
    BY <2>1, <2>2, <1>3
  <2>3. CASE l = "skip"
    BY <2>1, <2>3, <1>3
  <2> QED BY <2>2, <2>3, <1>1
<1>6. TypeOK' /\ SectionsInv'
  BY <1>1, <1>4, <1>5 DEF IInv, TypeOK, SectionsInv
<1>7. pc'[p] = l /\ \A r \in Nodes \ {p} : pc'[r] = pc[r]
  BY <1>2 DEF Goto, IInv, TypeOK
<1>8. LockInv' /\ LeftInv' /\ UsedInv'
  BY <1>1, <1>4, <1>5, <1>7 DEF IInv, LockInv, LeftInv, UsedInv, At
<1>9. RetiredInv'
  <2>1. retired \subseteq Nodes
    BY DEF IInv, TypeOK
  <2>2. ASSUME p \in retired, l = "loop", local_node[p] = p
        PROVE  Queue[num_nodes] = 0
    <3>1. Queue[p] >= lnum_blocks
      BY <2>2, <1>4 DEF IInv, UsedInv
    <3>2. ~ (Queue[num_nodes] > 0)
      BY <2>2, <3>1, <1>3 DEF past
    <3> QED BY <3>2, <1>4, NoneLeft
  <2> QED BY <2>1, <2>2, <1>1, <1>3, <1>4, <1>5, <1>7 DEF IInv, RetiredInv
<1>10. TakenInv'
  BY <1>1, <1>4, <1>5, <1>7 DEF IInv, TakenInv, Kept, Held, Traced, At
<1> QED BY <1>4, <1>6, <1>8, <1>9, <1>10 DEF IInv

-----------------------------------------------------------------------------
(* The steps of all nodes together.                                        *)
LEMMA PassTypes ==
    ASSUME TypeOK, NEW from, NEW to \in Labels, Pass(from, to)
    PROVE  TypeOK' /\ (\A p \in Nodes : pc[p] = from /\ pc'[p] = to)
<1>1. pc' = [p \in Nodes |-> to]
  BY DEF Pass
<1> QED BY <1>1 DEF TypeOK, Pass, At

LEMMA BarriersKeep == ASSUME IInv, Barriers PROVE IInv'
<1>1. CASE Pass("slave1", "clear")
  <2>1. TypeOK' /\ \A p \in Nodes : pc[p] = "slave1" /\ pc'[p] = "clear"
    BY <1>1, PassTypes DEF IInv, Labels
  <2>2. AllIn(Clearing)' /\ ~ InWork'
    BY <2>1, NodeFacts DEF AllIn, InWork, Clearing, Working, Ending
  <2>3. StretchInv' /\ StepInv' /\ SettingInv' /\ LockInv'
    BY <1>1, <2>1, <2>2 DEF IInv, StretchInv, StepInv, SettingInv, LockInv, At, Pass
  <2> QED BY <2>1, <2>2, <2>3, OutsideWork
<1>2. CASE Pass("slave2", "setup")
  <2>1. TypeOK' /\ \A p \in Nodes : pc[p] = "slave2" /\ pc'[p] = "setup"
    BY <1>2, PassTypes DEF IInv, Labels
  <2>2. AllIn(Setting)' /\ ~ InWork'
    BY <2>1, NodeFacts DEF AllIn, InWork, Setting, Working, Ending
  <2>3. StretchInv' /\ StepInv' /\ SettingInv' /\ LockInv'
    BY <1>2, <2>1, <2>2 DEF IInv, StretchInv, StepInv, SettingInv, LockInv, At, Pass
  <2> QED BY <2>1, <2>2, <2>3, OutsideWork
<1>3. CASE Pass("time1", "count")
  <2>1. TypeOK' /\ \A p \in Nodes : pc[p] = "time1" /\ pc'[p] = "count"
    BY <1>3, PassTypes DEF IInv, Labels
  <2>2. UNCHANGED <<step, Counter, Queue, local_node, work, rays, retired>>
    BY <1>3 DEF Pass
  <2>3. AllIn(Working)'
    BY <2>1 DEF AllIn, Working
  <2>4. /\ retired = {} /\ Queue[num_nodes] = num_nodes /\ Counter = num_nodes
        /\ \A p \in Nodes : Queue[p] = 0
    BY <2>1, NodeFacts DEF IInv, SettingInv, At
  <2>5. StretchInv' /\ StepInv' /\ SettingInv' /\ LockInv'
    BY <2>1, <2>2, <2>3 DEF IInv, StretchInv, StepInv, SettingInv, LockInv, At
  <2>6. Shading' = Nodes
    BY <2>1 DEF Shading, At
  <2>7. CountInv' /\ SectionsInv' /\ RetiredInv' /\ LeftInv'
    BY <2>1, <2>2, <2>4, <2>6, NodeFacts DEF CountInv, SectionsInv, RetiredInv, LeftInv
  <2>8. UsedInv' /\ TakenInv'
    BY <2>1, <2>2, <2>4, BlockCount DEF UsedInv, TakenInv, BlockNumbers, At
  <2> QED BY <2>1, <2>5, <2>7, <2>8 DEF IInv
<1>4. CASE Pass("time2", "time3")
  <2>1. TypeOK' /\ \A p \in Nodes : pc[p] = "time2" /\ pc'[p] = "time3"
    BY <1>4, PassTypes DEF IInv, Labels
  <2>2. UNCHANGED <<step, Counter, Queue, local_node, work, rays, retired>>
    BY <1>4 DEF Pass
  <2>3. InWork /\ AllIn(Ending)'
    BY <2>1 DEF InWork, AllIn, Working, Ending
  <2>4. StretchInv' /\ StepInv' /\ SettingInv' /\ LockInv'
    BY <2>1, <2>2, <2>3 DEF IInv, StretchInv, StepInv, SettingInv, LockInv, At
  <2>5. Shading' = Shading
    BY <2>1 DEF Shading, At
  <2>6. CountInv' /\ SectionsInv' /\ LeftInv'
    BY <2>1, <2>2, <2>3, <2>5 DEF IInv, CountInv, SectionsInv, LeftInv
  <2>7. RetiredInv'
    BY <2>1, <2>2 DEF IInv, TypeOK, RetiredInv
  <2>8. UsedInv'
    BY <2>1, <2>2, <2>3 DEF IInv, UsedInv, At
  <2>9. TakenInv'
    BY <2>1, <2>2, <2>3 DEF IInv, TakenInv, Kept, Held, Traced, At
  <2> QED BY <2>1, <2>4, <2>6, <2>7, <2>8, <2>9 DEF IInv
<1> QED BY <1>1, <1>2, <1>3, <1>4 DEF Barriers

LEMMA EndOfFrameKeeps == ASSUME IInv, EndOfFrame PROVE IInv'
<1>1. \A p \in Nodes : /\ pc[p] = "time3" /\ step[p] \in 0 .. ROTATE_STEPS /\ step[p] < ROTATE_STEPS
                       /\ step'[p] = step[p] + 1
  BY DEF IInv, TypeOK, StepInv, EndOfFrame, At
<1>2. \A p \in Nodes : pc'[p] = IF p = ROOT THEN "store"
                                ELSE IF step[p] + 1 < ROTATE_STEPS THEN "slave1" ELSE "done"
  BY DEF EndOfFrame
<1>3. pc' \in [Nodes -> Labels] /\ step' \in [Nodes -> 0 .. ROTATE_STEPS]
  <2>1. \A p \in Nodes : step[p] + 1 \in 0 .. ROTATE_STEPS
    BY <1>1, VolrendAssumption
  <2> QED BY <2>1 DEF EndOfFrame, Labels
<1>4. TypeOK'
  BY <1>3 DEF IInv, TypeOK, EndOfFrame
<1>5. AllIn(Between)' /\ ~ InWork'
  BY <1>2, NodeFacts DEF AllIn, InWork, Between, Working, Ending
<1>6. StretchInv' /\ SettingInv' /\ LockInv'
  BY <1>5 DEF StretchInv, SettingInv, LockInv, AllIn, Between, At
<1>7. StepInv'
  BY <1>1, <1>2 DEF StepInv
<1> QED BY <1>4, <1>5, <1>6, <1>7, OutsideWork

LEMMA StoreKeeps == ASSUME IInv, Store PROVE IInv'
<1>1. /\ pc[ROOT] = "store" /\ ROOT \in Nodes
      /\ Goto(ROOT, IF step[ROOT] < ROTATE_STEPS THEN "slave1" ELSE "done")
      /\ UNCHANGED <<step, Counter, Queue, local_node, work, rays, retired>>
  BY NodeFacts DEF Store, At
<1>2. /\ pc'[ROOT] = IF step[ROOT] < ROTATE_STEPS THEN "slave1" ELSE "done"
      /\ \A r \in Nodes \ {ROOT} : pc'[r] = pc[r]
  BY <1>1 DEF IInv, TypeOK, Goto
<1>3. TypeOK'
  BY <1>1 DEF IInv, TypeOK, Goto, Labels
<1>4. AllIn(Between)
  BY <1>1 DEF IInv, StretchInv, AllIn, Between, Clearing, Setting, Working, Ending
<1>5. AllIn(Between)' /\ ~ InWork'
  BY <1>1, <1>2, <1>4 DEF AllIn, InWork, Between, Working, Ending
<1>6. StretchInv' /\ SettingInv' /\ LockInv'
  BY <1>5 DEF StretchInv, SettingInv, LockInv, AllIn, Between, At
<1>7. StepInv'
  BY <1>1, <1>2 DEF IInv, StepInv
<1> QED BY <1>3, <1>5, <1>6, <1>7, OutsideWork

-----------------------------------------------------------------------------
\* IInv is an invariant of the frame loop (Render_Loop and Ray_Trace).
THEOREM Inductive == Spec => []IInv
<1>1. IInv /\ [Next]_vars => IInv'
  <2> SUFFICES ASSUME IInv, [Next]_vars PROVE IInv'
    OBVIOUS
  <2>1. CASE Barriers
    BY <2>1, BarriersKeep
  <2>2. CASE EndOfFrame
    BY <2>2, EndOfFrameKeeps
  <2>3. CASE Store
    BY <2>3, StoreKeeps
  <2>4. ASSUME NEW p \in Nodes, NodeStep(p)
        PROVE  IInv'
    BY <2>4, ClearKeeps, SetupKeeps, CountDownKeeps, SpinDoneKeeps, ResetKeeps, LoopKeeps,
       TakeKeeps, IncrementKeeps, TraceKeeps, RetireKeeps, AdvanceKeeps, SkipKeeps
       DEF NodeStep
  <2>5. CASE UNCHANGED vars
    BY <2>5 DEF vars, IInv, TypeOK, StretchInv, AllIn, StepInv, SettingInv, CountInv, Shading,
       SectionsInv, RetiredInv, LockInv, UsedInv, TakenInv, Kept, Held, Traced, LeftInv, InWork, At
  <2> QED BY <2>1, <2>2, <2>3, <2>4, <2>5 DEF Next
<1> QED BY Initial, <1>1, PTL DEF Spec

\* The types of all variables, for every number of nodes and every image.
THEOREM TypeCorrect == Spec => []TypeOK
<1>1. IInv => TypeOK
  BY DEF IInv
<1> QED BY Inductive, <1>1, PTL

\* The last entry of Global->Queue is the number of sections whose owner has
\* not run out of blocks, so that no section is counted off twice.
THEOREM SectionCountCorrect == Spec => []SectionsLeft
<1>1. IInv => SectionsLeft
  <2> SUFFICES ASSUME IInv, \A p \in Nodes : InFrame(p)
               PROVE  Queue[num_nodes] = Cardinality(Nodes \ retired)
    BY DEF SectionsLeft
  <2>1. InWork \/ AllIn(Setting)
    BY NodeFacts DEF IInv, StretchInv, InWork, AllIn, InFrame, Between, Clearing
  <2>2. CASE InWork
    BY <2>2 DEF IInv, SectionsInv
  <2>3. CASE AllIn(Setting)
    <3>1. At(ROOT, "time1")
      BY <2>3, NodeFacts DEF AllIn, InFrame, Setting, At
    <3>2. retired = {} /\ Queue[num_nodes] = num_nodes
      BY <3>1, NodeFacts DEF IInv, SettingInv
    <3> QED BY <3>2, NodeFacts
  <2> QED BY <2>1, <2>2, <2>3
<1> QED BY Inductive, <1>1, PTL

\* When a node leaves Ray_Trace_Non_Adaptively, every block of every section
\* is traced or in the hands of a node that is still tracing it.
THEOREM BlocksTakenCorrect == Spec => []BlocksTaken
<1>1. IInv => BlocksTaken
  <2> SUFFICES ASSUME IInv, NEW p \in Nodes, At(p, "time2"), NEW q \in Nodes, NEW b \in BlockNumbers
               PROVE  Kept(q, b)
    BY DEF BlocksTaken, Kept
  <2>1. InWork
    BY DEF IInv, StretchInv, InWork, AllIn, At, Between, Clearing, Setting
  <2>2. retired = Nodes
    BY <2>1 DEF IInv, LeftInv, At
  <2>3. Queue[q] >= lnum_blocks /\ Queue[q] \in Int
    BY <2>1, <2>2, NodeFacts DEF IInv, UsedInv, TypeOK
  <2>4. b < Queue[q]
    BY <2>3, BlockCount DEF BlockNumbers
  <2> QED BY <2>1, <2>4 DEF IInv, TakenInv
<1> QED BY Inductive, <1>1, PTL

-----------------------------------------------------------------------------
(***************************************************************************)
(* The picture: for every number of nodes, image and block size the        *)
(* sections and blocks cut the image into disjoint parts that leave no     *)
(* pixel out, so that a frame is complete when ROOT writes it and a pixel  *)
(* gets a second ray only after its owner's late reset.                    *)
(***************************************************************************)
(* Quotients and remainders.                                               *)
LEMMA DivMod ==
    ASSUME NEW a \in Nat, NEW b \in Nat \ {0}
    PROVE  /\ a \div b \in Nat /\ a % b \in 0 .. b - 1
           /\ a = (a \div b) * b + (a % b)
OBVIOUS

LEMMA DivModUnique ==
    ASSUME NEW b \in Nat \ {0}, NEW q \in Int, NEW r \in 0 .. b - 1
    PROVE  (q * b + r) \div b = q /\ (q * b + r) % b = r
OBVIOUS

LEMMA QuotientBelow ==
    ASSUME NEW a \in Nat, NEW b \in Nat \ {0}, NEW n \in Nat, a < n * b
    PROVE  a \div b < n
OBVIOUS

LEMMA SameQuotient ==
    ASSUME NEW b \in Nat \ {0}, NEW q \in Int, NEW r \in Int, NEW x \in 0 .. b - 1,
           NEW y \in 0 .. b - 1, q * b + x = r * b + y
    PROVE  q = r
OBVIOUS

LEMMA PlaceBelow ==
    ASSUME NEW b \in Nat, NEW n \in Nat, NEW q \in Nat, q < n, NEW r \in 0 .. b - 1
    PROVE  q * b + r \in 0 .. n * b - 1
<1>1. (q + 1) * b <= n * b
  OBVIOUS
<1>2. (q + 1) * b = q * b + b /\ q * b \in Nat /\ n * b \in Nat
  OBVIOUS
<1> QED BY <1>1, <1>2

\* ROUNDUP is enough.
LEMMA RoundUpCovers ==
    ASSUME NEW a \in Nat \ {0}, NEW b \in Nat \ {0}
    PROVE  RoundUp(a, b) \in Nat \ {0} /\ RoundUp(a, b) * b >= a
<1>1. ((a + b - 1) \div b) * b >= a
  OBVIOUS
<1>2. (a + b - 1) \div b \in Nat
  OBVIOUS
<1> QED BY <1>1, <1>2 DEF RoundUp

-----------------------------------------------------------------------------
(* The sections and the blocks.                                            *)
LEMMA Sizes ==
    /\ image_sectionX \in Nat \ {0} /\ image_sectionY \in Nat \ {0}
    /\ image_sectionX * image_sectionY <= num_nodes
    /\ num_xqueue \in Nat \ {0} /\ num_xqueue * image_sectionX >= image_lenX
    /\ num_yqueue \in Nat \ {0} /\ num_yqueue * image_sectionY >= image_lenY
    /\ lnum_xblocks \in Nat \ {0} /\ lnum_xblocks * block_len >= num_xqueue
    /\ lnum_yblocks \in Nat \ {0} /\ lnum_yblocks * block_len >= num_yqueue
    /\ lnum_blocks \in Nat
<1>1. image_sectionX \in Nat \ {0} /\ image_sectionX <= num_nodes
  BY SectionCount, VolrendAssumption
<1>2. image_sectionY \in Nat \ {0} /\ image_sectionX * image_sectionY <= num_nodes
  BY <1>1, VolrendAssumption DEF image_sectionY
<1>3. /\ num_xqueue \in Nat \ {0} /\ num_xqueue * image_sectionX >= image_lenX
      /\ num_yqueue \in Nat \ {0} /\ num_yqueue * image_sectionY >= image_lenY
  BY <1>1, <1>2, RoundUpCovers, VolrendAssumption DEF num_xqueue, num_yqueue
<1>4. /\ lnum_xblocks \in Nat \ {0} /\ lnum_xblocks * block_len >= num_xqueue
      /\ lnum_yblocks \in Nat \ {0} /\ lnum_yblocks * block_len >= num_yqueue
  BY <1>3, RoundUpCovers, VolrendAssumption DEF lnum_xblocks, lnum_yblocks
<1> QED BY <1>1, <1>2, <1>3, <1>4 DEF lnum_blocks

LEMMA PixelPlace ==
    ASSUME NEW pixel \in Pixels
    PROVE  /\ pixel % image_lenX \in 0 .. image_lenX - 1
           /\ pixel \div image_lenX \in 0 .. image_lenY - 1
<1>1. pixel \in Nat /\ pixel < image_lenY * image_lenX
  BY VolrendAssumption DEF Pixels, image_length
<1>2. image_lenX \in Nat \ {0} /\ image_lenY \in Nat
  BY VolrendAssumption
<1>3. pixel % image_lenX \in 0 .. image_lenX - 1 /\ pixel \div image_lenX \in Nat
  BY <1>1, <1>2, DivMod
<1>4. pixel \div image_lenX < image_lenY
  BY <1>1, <1>2, QuotientBelow
<1> QED BY <1>2, <1>3, <1>4

\* Every pixel lies in a block of a section (Init_Decomposition and the
\* bounds of Ray_Trace_Non_Adaptively).
LEMMA BlocksCover ==
    ASSUME NEW pixel \in Pixels
    PROVE  \E q \in Nodes : \E b \in BlockNumbers : pixel \in Block(q, b)
<1> DEFINE x == pixel % image_lenX
           y == pixel \div image_lenX
           qx == x \div num_xqueue
           qy == y \div num_yqueue
           rx == x % num_xqueue
           ry == y % num_yqueue
           bx == rx \div block_len
           by == ry \div block_len
           q == qy * image_sectionX + qx
           b == by * lnum_xblocks + bx
<1>1. x \in 0 .. image_lenX - 1 /\ y \in 0 .. image_lenY - 1
  BY PixelPlace
<1> HIDE DEF x, y
<1>2. /\ qx \in Nat /\ rx \in 0 .. num_xqueue - 1 /\ x = qx * num_xqueue + rx
      /\ qy \in Nat /\ ry \in 0 .. num_yqueue - 1 /\ y = qy * num_yqueue + ry
  <2>1. x \in Nat /\ y \in Nat /\ num_xqueue \in Nat \ {0} /\ num_yqueue \in Nat \ {0}
    BY <1>1, Sizes, VolrendAssumption
  <2>2. qx \in Nat /\ rx \in 0 .. num_xqueue - 1 /\ x = qx * num_xqueue + rx
    BY <2>1, DivMod
  <2>3. qy \in Nat /\ ry \in 0 .. num_yqueue - 1 /\ y = qy * num_yqueue + ry
    BY <2>1, DivMod
  <2> QED BY <2>2, <2>3
<1>3. qx < image_sectionX /\ qy < image_sectionY
  <2>1. x \in Nat /\ y \in Nat /\ x < image_lenX /\ y < image_lenY
    BY <1>1, VolrendAssumption
  <2>2. x < image_sectionX * num_xqueue /\ y < image_sectionY * num_yqueue
    BY <2>1, Sizes, VolrendAssumption
  <2> QED BY <2>1, <2>2, QuotientBelow, Sizes
<1> HIDE DEF qx, qy, rx, ry
<1>4. /\ bx \in Nat /\ rx % block_len \in 0 .. block_len - 1 /\ rx = bx * block_len + (rx % block_len)
      /\ by \in Nat /\ ry % block_len \in 0 .. block_len - 1 /\ ry = by * block_len + (ry % block_len)
  <2>1. rx \in Nat /\ ry \in Nat /\ block_len \in Nat \ {0}
    BY <1>2, Sizes, VolrendAssumption
  <2>2. bx \in Nat /\ rx % block_len \in 0 .. block_len - 1 /\ rx = bx * block_len + (rx % block_len)
    BY <2>1, DivMod
  <2>3. by \in Nat /\ ry % block_len \in 0 .. block_len - 1 /\ ry = by * block_len + (ry % block_len)
    BY <2>1, DivMod
  <2> QED BY <2>2, <2>3
<1>5. bx < lnum_xblocks /\ by < lnum_yblocks
  <2>1. rx \in Nat /\ ry \in Nat /\ rx < num_xqueue /\ ry < num_yqueue
    BY <1>2, Sizes
  <2>2. rx < lnum_xblocks * block_len /\ ry < lnum_yblocks * block_len
    BY <2>1, Sizes, VolrendAssumption
  <2> QED BY <2>1, <2>2, QuotientBelow, Sizes, VolrendAssumption
<1> HIDE DEF bx, by
<1>6. q \in Nodes /\ q % image_sectionX = qx /\ q \div image_sectionX = qy
  <2>1. qx \in 0 .. image_sectionX - 1
    BY <1>2, <1>3, Sizes
  <2>2. q \in 0 .. image_sectionY * image_sectionX - 1
    BY <2>1, <1>2, <1>3, PlaceBelow, Sizes
  <2>3. q \in Nodes
    BY <2>2, Sizes, VolrendAssumption DEF Nodes
  <2>4. image_sectionX \in Nat \ {0} /\ qy \in Int
    BY <1>2, Sizes
  <2> QED BY <2>1, <2>3, <2>4, DivModUnique
<1>7. b \in BlockNumbers /\ b % lnum_xblocks = bx /\ b \div lnum_xblocks = by
  <2>1. bx \in 0 .. lnum_xblocks - 1
    BY <1>4, <1>5, Sizes
  <2>2. b \in 0 .. lnum_yblocks * lnum_xblocks - 1
    BY <2>1, <1>4, <1>5, PlaceBelow, Sizes
  <2>3. b \in BlockNumbers
    BY <2>2, Sizes DEF BlockNumbers, lnum_blocks
  <2>4. lnum_xblocks \in Nat \ {0} /\ by \in Int
    BY <1>4, Sizes
  <2> QED BY <2>1, <2>3, <2>4, DivModUnique
<1> HIDE DEF q, b
<1>8. pixel \in Block(q, b)
  <2> DEFINE xstart == qx * num_xqueue
             ystart == qy * num_yqueue
             xindex == xstart + bx * block_len
             yindex == ystart + by * block_len
  <2>1. /\ xstart \in Nat /\ ystart \in Nat /\ bx * block_len \in Nat /\ by * block_len \in Nat
    BY <1>2, <1>4, Sizes, VolrendAssumption
  <2>2. /\ x >= xindex /\ x < xindex + block_len /\ x < xstart + num_xqueue /\ x < image_lenX
        /\ y >= yindex /\ y < yindex + block_len /\ y < ystart + num_yqueue /\ y < image_lenY
    <3> HIDE DEF xstart, ystart
    <3>1. x = xstart + rx /\ y = ystart + ry
      BY <1>2 DEF xstart, ystart
    <3> DEFINE cx == bx * block_len
               cy == by * block_len
    <3>2. rx = cx + (rx % block_len) /\ ry = cy + (ry % block_len) /\ cx \in Nat /\ cy \in Nat
      BY <1>4, <2>1
    <3> HIDE DEF cx, cy
    <3>3. xindex = xstart + cx /\ yindex = ystart + cy
      BY DEF cx, cy
    <3> HIDE DEF xindex, yindex
    <3> QED BY <3>1, <3>2, <3>3, <2>1, <1>1, <1>2, <1>4, Sizes, VolrendAssumption
  <2>3. /\ xindex \in Int /\ yindex \in Int
    BY <2>1
  <2> HIDE DEF xindex, yindex, xstart, ystart
  <2>4. /\ x \in xindex .. Least(xindex + block_len, Least(xstart + num_xqueue, image_lenX)) - 1
        /\ y \in yindex .. Least(yindex + block_len, Least(ystart + num_yqueue, image_lenY)) - 1
    BY <2>1, <2>2, <2>3, <1>1, Sizes, VolrendAssumption DEF Least
  <2> QED BY <2>4, <1>6, <1>7 DEF Block, x, y, xindex, yindex, xstart, ystart
<1> QED BY <1>6, <1>7, <1>8

\* A coordinate within the bounds of a block tells its section and block.
LEMMA CoordinateTells ==
    ASSUME NEW x \in Nat, NEW s \in Nat, NEW c \in Nat, NEW len \in Nat \ {0}, NEW end \in Nat,
           x \in s * len + c * block_len
                 .. Least(s * len + c * block_len + block_len, Least(s * len + len, end)) - 1
    PROVE  s = x \div len /\ c = (x % len) \div block_len
<1>1. block_len \in Nat \ {0}
  BY VolrendAssumption
<1> DEFINE start == s * len
           inside == c * block_len
<1>2. start \in Nat /\ inside \in Nat
  BY <1>1
<1>3. x = start + (x - start) /\ x - start \in 0 .. len - 1
  <2> HIDE DEF start, inside
  <2>1. x \in start + inside .. Least(start + inside + block_len, Least(start + len, end)) - 1
    BY DEF start, inside
  <2> QED BY <2>1, <1>1, <1>2 DEF Least
<1>4. x - start = inside + (x - start - inside) /\ x - start - inside \in 0 .. block_len - 1
  <2> HIDE DEF start, inside
  <2>1. x \in start + inside .. Least(start + inside + block_len, Least(start + len, end)) - 1
    BY DEF start, inside
  <2> QED BY <2>1, <1>1, <1>2 DEF Least
<1>5. x \div len = s /\ x % len = x - start
  <2> DEFINE r == x - start
  <2>1. r \in 0 .. len - 1 /\ x = s * len + r /\ s \in Int
    BY <1>3
  <2> HIDE DEF r
  <2>2. (s * len + r) \div len = s /\ (s * len + r) % len = r
    BY <2>1, DivModUnique, Zenon
  <2> QED BY <2>1, <2>2 DEF r
<1>6. (x - start) \div block_len = c
  <2> DEFINE a == x - start
             r == x - start - inside
  <2>1. r \in 0 .. block_len - 1 /\ a = c * block_len + r /\ c \in Int
    BY <1>4
  <2> HIDE DEF r, a
  <2>2. (c * block_len + r) \div block_len = c
    BY <2>1, <1>1, DivModUnique, Zenon
  <2> QED BY <2>1, <2>2 DEF a
<1> QED BY <1>5, <1>6

LEMMA PixelTells ==
    ASSUME NEW q \in Nodes, NEW b \in BlockNumbers, NEW pixel \in Block(q, b)
    PROVE  LET x == pixel % image_lenX
               y == pixel \div image_lenX
           IN  /\ q % image_sectionX = x \div num_xqueue
               /\ q \div image_sectionX = y \div num_yqueue
               /\ b % lnum_xblocks = (x % num_xqueue) \div block_len
               /\ b \div lnum_xblocks = (y % num_yqueue) \div block_len
<1> DEFINE x == pixel % image_lenX
           y == pixel \div image_lenX
           qx == q % image_sectionX
           qy == q \div image_sectionX
           bx == b % lnum_xblocks
           by == b \div lnum_xblocks
<1>1. x \in Nat /\ y \in Nat
  <2>1. pixel \in Pixels
    BY DEF Block
  <2> QED BY <2>1, PixelPlace, VolrendAssumption
<1>2. qx \in Nat /\ qy \in Nat /\ bx \in Nat /\ by \in Nat
  <2>1. q \in Nat /\ b \in Nat /\ image_sectionX \in Nat \ {0} /\ lnum_xblocks \in Nat \ {0}
    BY Sizes, VolrendAssumption DEF Nodes, BlockNumbers
  <2>2. qx \in 0 .. image_sectionX - 1 /\ qy \in Nat
    BY <2>1, DivMod
  <2>3. bx \in 0 .. lnum_xblocks - 1 /\ by \in Nat
    BY <2>1, DivMod
  <2> QED BY <2>1, <2>2, <2>3
<1>3. /\ num_xqueue \in Nat \ {0} /\ num_yqueue \in Nat \ {0}
      /\ image_lenX \in Nat /\ image_lenY \in Nat
  BY Sizes, VolrendAssumption
<1>4. /\ x \in qx * num_xqueue + bx * block_len
               .. Least(qx * num_xqueue + bx * block_len + block_len,
                        Least(qx * num_xqueue + num_xqueue, image_lenX)) - 1
      /\ y \in qy * num_yqueue + by * block_len
               .. Least(qy * num_yqueue + by * block_len + block_len,
                        Least(qy * num_yqueue + num_yqueue, image_lenY)) - 1
  BY DEF Block
<1> HIDE DEF x, y, qx, qy, bx, by
<1>5. qx = x \div num_xqueue /\ bx = (x % num_xqueue) \div block_len
  BY <1>1, <1>2, <1>3, <1>4, CoordinateTells
<1>6. qy = y \div num_yqueue /\ by = (y % num_yqueue) \div block_len
  BY <1>1, <1>2, <1>3, <1>4, CoordinateTells
<1> QED BY <1>5, <1>6 DEF x, y, qx, qy, bx, by

\* No pixel lies in two blocks.
LEMMA BlocksDisjoint ==
    ASSUME NEW q \in Nodes, NEW r \in Nodes, NEW b \in BlockNumbers, NEW c \in BlockNumbers,
           NEW pixel \in Block(q, b), pixel \in Block(r, c)
    PROVE  q = r /\ b = c
<1>1. /\ q % image_sectionX = r % image_sectionX /\ q \div image_sectionX = r \div image_sectionX
      /\ b % lnum_xblocks = c % lnum_xblocks /\ b \div lnum_xblocks = c \div lnum_xblocks
  BY PixelTells
<1>2. /\ q \in Nat /\ r \in Nat /\ b \in Nat /\ c \in Nat
      /\ image_sectionX \in Nat \ {0} /\ lnum_xblocks \in Nat \ {0}
  BY Sizes, VolrendAssumption DEF Nodes, BlockNumbers
<1>3. /\ q = (q \div image_sectionX) * image_sectionX + (q % image_sectionX)
      /\ r = (r \div image_sectionX) * image_sectionX + (r % image_sectionX)
  BY <1>2, DivMod
<1>4. /\ b = (b \div lnum_xblocks) * lnum_xblocks + (b % lnum_xblocks)
      /\ c = (c \div lnum_xblocks) * lnum_xblocks + (c % lnum_xblocks)
  BY <1>2, DivMod
<1> QED BY <1>1, <1>3, <1>4

\* Together the nodes clear the whole image.
LEMMA PartitionsCover ==
    ASSUME NEW pixel \in Pixels
    PROVE  \E p \in Nodes : pixel \in Partition(p)
<1> DEFINE k == pixel \div image_partition
           p == Least(k, num_nodes - 1)
<1>1. image_partition \in Nat \ {0}
  <2>1. image_length \in Nat \ {0} /\ num_nodes \in Nat \ {0}
    BY VolrendAssumption DEF image_length
  <2> QED BY <2>1, RoundUpCovers DEF image_partition
<1>2. k \in Nat /\ pixel % image_partition \in 0 .. image_partition - 1
      /\ pixel = k * image_partition + (pixel % image_partition)
  <2>1. pixel \in Nat
    BY DEF Pixels
  <2> QED BY <2>1, <1>1, DivMod
<1> HIDE DEF k
<1>3. p \in Nodes /\ p <= k /\ (p = num_nodes - 1 \/ p = k)
  BY <1>2, VolrendAssumption DEF Nodes, Least
<1> HIDE DEF p
<1>4. p \in Nat /\ k * image_partition \in Nat /\ p * image_partition <= k * image_partition
  BY <1>1, <1>2, <1>3, VolrendAssumption DEF Nodes
<1>5. pixel >= image_partition * p
  BY <1>1, <1>2, <1>4
<1>6. p = k => pixel < image_partition * (p + 1)
  BY <1>1, <1>2
<1> QED BY <1>3, <1>5, <1>6 DEF Partition

-----------------------------------------------------------------------------
(* What a frame keeps besides IInv.                                        *)
\* A clearing node has emptied its part of the image; outside of the work on
\* a frame no pixel holds more than two rays, before it none.
ClearedInv ==
    /\ \A p \in Nodes : At(p, "slave2") => \A pixel \in Partition(p) : rays[pixel] = 0
    /\ AllIn(Setting) => \A pixel \in Pixels : rays[pixel] = 0

\* A node traces blocks only, and a queue is not ahead of a node that is
\* about to advance it.
HeldInv ==
    InWork => \A p \in Nodes :
        /\ At(p, "trace") => work[p] \in BlockNumbers
        /\ At(p, "increment") => work[p] >= Queue[local_node[p]]

\* Block b of section q has been handed out since the queue was last reset;
\* the rays it has got and those on their way are at most one, and one more
\* for the reset by the owner.
Handed(q, b) ==
    \/ b < Queue[q]
    \/ \E p \in Nodes : At(p, "increment") /\ local_node[p] = q /\ work[p] = b
Holders(q, b) == {p \in Nodes : /\ pc[p] \in {"increment", "trace"}
                                /\ local_node[p] = q /\ work[p] = b}
Allowed(q, b) == (IF Handed(q, b) THEN 1 ELSE 0) + (IF Started(q) THEN 1 ELSE 0)
RayInv ==
    InWork => \A q \in Nodes : \A b \in BlockNumbers : \A pixel \in Block(q, b) :
        Cardinality(Holders(q, b)) + rays[pixel] <= Allowed(q, b)

\* Between two frames every pixel of a block has one or two rays when ROOT
\* writes the image, and keeps them until it is cleared.
BoundInv ==
    \A q \in Nodes : \A b \in BlockNumbers : \A pixel \in Block(q, b) : rays[pixel] <= 2

FrameInv == ClearedInv /\ HeldInv /\ RayInv /\ BoundInv /\ FrameComplete

LEMMA SomeNodes ==
    ASSUME NEW S \in SUBSET Nodes
    PROVE  IsFiniteSet(S) /\ Cardinality(S) \in Nat
BY NodeFacts, FS_Subset, FS_CardinalityType

LEMMA AllowedBounds ==
    ASSUME NEW q, NEW b
    PROVE  Allowed(q, b) \in 0 .. 2
BY DEF Allowed

LEMMA RaysBound ==
    ASSUME TypeOK, InWork, RayInv
    PROVE  BoundInv
<1> SUFFICES ASSUME NEW q \in Nodes, NEW b \in BlockNumbers, NEW pixel \in Block(q, b)
             PROVE  rays[pixel] <= 2
  BY DEF BoundInv
<1>1. Cardinality(Holders(q, b)) + rays[pixel] <= Allowed(q, b)
  BY DEF RayInv
<1>2. Cardinality(Holders(q, b)) \in Nat
  BY SomeNodes DEF Holders
<1>3. rays[pixel] \in Nat
  BY DEF TypeOK, Block
<1>4. Allowed(q, b) \in 0 .. 2
  BY AllowedBounds
<1> QED BY <1>1, <1>2, <1>3, <1>4

LEMMA FrameInitial == Init => FrameInv
<1> SUFFICES ASSUME Init PROVE FrameInv
  OBVIOUS
<1>1. \A p \in Nodes : pc[p] = "slave1"
  BY DEF Init
<1>2. ~ InWork /\ ClearedInv /\ FrameComplete
  BY <1>1, NodeFacts DEF InWork, AllIn, Working, Ending, Setting, ClearedInv, FrameComplete, At
<1>3. BoundInv
  BY DEF Init, BoundInv, Block
<1> QED BY <1>2, <1>3 DEF FrameInv, HeldInv, RayInv

\* Within the work on a frame only the counting of rays matters,
LEMMA WorkFrame ==
    ASSUME TypeOK, InWork, HeldInv, RayInv
    PROVE  FrameInv
<1>1. \A p \in Nodes : pc[p] \notin {"slave2", "setup", "time1", "store"}
  BY DEF InWork, AllIn, Working, Ending
<1>2. ClearedInv /\ FrameComplete
  BY <1>1, NodeFacts DEF ClearedInv, FrameComplete, AllIn, Setting, At
<1> QED BY <1>2, RaysBound DEF FrameInv

\* and outside of it the rest.
LEMMA RestFrame ==
    ASSUME ~ InWork, ClearedInv, BoundInv, FrameComplete
    PROVE  FrameInv
BY DEF FrameInv, HeldInv, RayInv

\* A step that neither takes nor returns a block and leaves the queues.
LEMMA QuietKeeps ==
    ASSUME IInv, FrameInv, TypeOK', InWork, InWork', NEW p \in Nodes,
           pc[p] \notin {"increment", "trace"}, pc'[p] \notin {"increment", "trace"},
           pc[p] \in {"count", "spin", "reset"} \/ pc'[p] \notin {"count", "spin", "reset"},
           \A r \in Nodes \ {p} : pc'[r] = pc[r] /\ local_node'[r] = local_node[r],
           \A q \in Nodes : Queue'[q] = Queue[q],
           UNCHANGED <<work, rays>>
    PROVE  FrameInv'
<1>1. HeldInv'
  BY DEF IInv, TypeOK, FrameInv, HeldInv, At
<1>2. \A q \in Nodes, b \in BlockNumbers : Holders(q, b)' = Holders(q, b)
  BY DEF Holders
<1>3. \A q \in Nodes, b \in BlockNumbers : Handed(q, b)' <=> Handed(q, b)
  BY DEF Handed, At
<1>4. \A q \in Nodes : Started(q) => Started(q)'
  BY DEF Started, InFrame, InWork, AllIn, Working, Ending
<1>5. \A q \in Nodes, b \in BlockNumbers : Allowed(q, b) <= Allowed(q, b)'
  BY <1>3, <1>4 DEF Allowed
<1>6. RayInv'
  <2> SUFFICES ASSUME NEW q \in Nodes, NEW b \in BlockNumbers, NEW pixel \in Block(q, b)
               PROVE  Cardinality(Holders(q, b)') + rays'[pixel] <= Allowed(q, b)'
    BY DEF RayInv
  <2>1. Cardinality(Holders(q, b)) + rays[pixel] <= Allowed(q, b)
    BY DEF FrameInv, RayInv
  <2>2. Cardinality(Holders(q, b)) \in Nat /\ rays[pixel] \in Nat
    BY SomeNodes DEF Holders, Block, IInv, TypeOK
  <2>3. Allowed(q, b) \in 0 .. 2 /\ Allowed(q, b)' \in 0 .. 2
    BY DEF Allowed
  <2> QED BY <2>1, <2>2, <2>3, <1>2, <1>5
<1>7. TypeOK' /\ InWork' /\ HeldInv' /\ RayInv' => FrameInv'
  BY WorkFrame, PTL
<1> QED BY <1>1, <1>6, <1>7

\* The end of a step within the work on a frame.
LEMMA StillWorking ==
    ASSUME TypeOK', InWork', HeldInv', RayInv'
    PROVE  FrameInv'
<1>1. TypeOK' /\ InWork' /\ HeldInv' /\ RayInv' => FrameInv'
  BY WorkFrame, PTL
<1> QED BY <1>1

-----------------------------------------------------------------------------
(* One lemma for each action of a node.                                    *)
LEMMA ClearFrame == ASSUME IInv, IInv', FrameInv, NEW p \in Nodes, Clear(p) PROVE FrameInv'
<1>1. /\ pc[p] = "clear" /\ pc'[p] = "slave2" /\ \A r \in Nodes \ {p} : pc'[r] = pc[r]
      /\ rays' = [i \in Pixels |-> IF i \in Partition(p) THEN 0 ELSE rays[i]]
  BY DEF Clear, Goto, At, IInv, TypeOK
<1>2. ~ InWork' /\ ~ AllIn(Setting)' /\ ~ At(ROOT, "store")'
  BY <1>1, NodeFacts DEF IInv, StretchInv, InWork, AllIn, At, Between, Clearing, Setting, Working, Ending
<1>3. \A r \in Nodes : At(r, "slave2")' => \A pixel \in Partition(r) : rays'[pixel] = 0
  <2> SUFFICES ASSUME NEW r \in Nodes, At(r, "slave2")', NEW pixel \in Partition(r)
               PROVE  rays'[pixel] = 0
    OBVIOUS
  <2>1. pixel \in Pixels
    BY DEF Partition
  <2>2. CASE r = p
    BY <2>1, <2>2, <1>1
  <2>3. CASE r # p
    <3>1. rays[pixel] = 0
      BY <2>3, <1>1 DEF FrameInv, ClearedInv, At
    <3> QED BY <3>1, <2>1, <1>1
  <2> QED BY <2>2, <2>3
<1>4. BoundInv'
  <2>1. \A pixel \in Pixels : rays'[pixel] = 0 \/ rays'[pixel] = rays[pixel]
    BY <1>1
  <2>2. \A q \in Nodes, b \in BlockNumbers : \A pixel \in Block(q, b) : pixel \in Pixels /\ rays[pixel] <= 2
    BY DEF Block, FrameInv, BoundInv
  <2>3. \A q \in Nodes, b \in BlockNumbers : \A pixel \in Block(q, b) : rays'[pixel] <= 2
    BY <2>1, <2>2
  <2> QED BY <2>3 DEF BoundInv
<1> QED BY <1>2, <1>3, <1>4 DEF FrameInv, HeldInv, RayInv, ClearedInv, FrameComplete

LEMMA SetupFrame == ASSUME IInv, IInv', FrameInv, NEW p \in Nodes, Setup(p) PROVE FrameInv'
<1>1. /\ pc[p] = "setup" /\ pc'[p] = "time1" /\ UNCHANGED rays
  BY DEF Setup, Goto, At, IInv, TypeOK
<1>2. AllIn(Setting) /\ AllIn(Setting)'
  BY <1>1, NodeFacts DEF IInv, StretchInv, AllIn, Between, Clearing, Setting, Working, Ending
<1>3. ~ InWork' /\ \A r \in Nodes : pc'[r] \notin {"slave2", "store"}
  BY <1>2, NodeFacts DEF InWork, AllIn, Setting, Working, Ending
<1>4. ClearedInv' /\ FrameComplete'
  BY <1>1, <1>2, <1>3, NodeFacts DEF FrameInv, ClearedInv, FrameComplete, At
<1>5. BoundInv'
  BY <1>1 DEF FrameInv, BoundInv
<1> QED BY <1>3, <1>4, <1>5 DEF FrameInv, HeldInv, RayInv

LEMMA WorkingNow ==
    ASSUME IInv, NEW p \in Nodes, pc[p] \in Working
    PROVE  InWork
BY DEF IInv, StretchInv, InWork, AllIn, Between, Clearing, Setting, Working, Ending

LEMMA WorkingNext ==
    ASSUME IInv', NEW p \in Nodes, pc'[p] \in Working
    PROVE  InWork'
BY DEF IInv, StretchInv, InWork, AllIn, Between, Clearing, Setting, Working, Ending

LEMMA QuietFrame ==
    ASSUME IInv, IInv', FrameInv, NEW p \in Nodes,
           CountDown(p) \/ SpinDone(p) \/ Loop(p) \/ Retire(p) \/ Advance(p) \/ Skip(p)
    PROVE  FrameInv'
<1>1. /\ pc[p] \in {"count", "spin", "loop", "retire", "advance", "skip"}
      /\ pc'[p] \in {"spin", "reset", "take", "time2", "advance", "skip", "loop"}
      /\ pc'[p] \in {"spin", "reset"} => pc[p] \in {"count", "spin"}
      /\ \A r \in Nodes \ {p} : pc'[r] = pc[r]
      /\ UNCHANGED <<work, rays>>
  BY DEF CountDown, SpinDone, Loop, Retire, Advance, Skip, Goto, At, IInv, TypeOK
<1>2. \A r \in Nodes \ {p} : local_node'[r] = local_node[r]
  BY DEF CountDown, SpinDone, Loop, Retire, Advance, Skip, IInv, TypeOK
<1>3. \A q \in Nodes : Queue'[q] = Queue[q]
  BY NodeFacts DEF CountDown, SpinDone, Loop, Retire, Advance, Skip, IInv, TypeOK
<1>4. InWork /\ InWork'
  BY <1>1, WorkingNow, WorkingNext DEF Working
<1> QED BY <1>1, <1>2, <1>3, <1>4, QuietKeeps DEF IInv

LEMMA ResetFrame == ASSUME IInv, IInv', FrameInv, NEW p \in Nodes, Reset(p) PROVE FrameInv'
<1>1. /\ pc[p] = "reset" /\ pc'[p] = "loop"
      /\ \A r \in Nodes \ {p} : pc'[r] = pc[r] /\ local_node'[r] = local_node[r]
      /\ UNCHANGED <<work, rays>>
      /\ Queue'[p] = 0 /\ \A q \in Nodes \ {p} : Queue'[q] = Queue[q]
  BY NodeFacts DEF Reset, Goto, At, IInv, TypeOK
<1>2. InWork /\ InWork'
  BY <1>1, WorkingNow, WorkingNext DEF Working
<1>3. HeldInv'
  <2> SUFFICES ASSUME NEW r \in Nodes, pc'[r] \in {"increment", "trace"}
               PROVE  /\ pc'[r] = "trace" => work'[r] \in BlockNumbers
                      /\ pc'[r] = "increment" => work'[r] >= Queue'[local_node'[r]]
    BY DEF HeldInv, At
  <2>1. /\ r # p /\ pc'[r] = pc[r] /\ local_node'[r] = local_node[r] /\ work'[r] = work[r]
        /\ local_node[r] \in Nodes /\ work[r] \in Nat
    BY <1>1 DEF IInv, TypeOK
  <2>2. Queue'[local_node[r]] = 0 \/ Queue'[local_node[r]] = Queue[local_node[r]]
    BY <1>1, <2>1
  <2> QED BY <1>2, <2>1, <2>2 DEF FrameInv, HeldInv, At
<1>4. \A q \in Nodes, b \in BlockNumbers : Holders(q, b)' = Holders(q, b)
  BY <1>1 DEF Holders
<1>5. \A q \in Nodes : Started(q)' <=> q = p \/ Started(q)
  BY <1>1, <1>2 DEF Started, InFrame, InWork, AllIn, Working, Ending
<1>6. \A q \in Nodes \ {p}, b \in BlockNumbers : Handed(q, b)' <=> Handed(q, b)
  BY <1>1 DEF Handed, At
<1>7. \A q \in Nodes, b \in BlockNumbers : Allowed(q, b) <= Allowed(q, b)'
  <2>1. ~ Started(p)
    BY <1>1 DEF Started
  <2> QED BY <2>1, <1>5, <1>6 DEF Allowed
<1>8. RayInv'
  <2> SUFFICES ASSUME NEW q \in Nodes, NEW b \in BlockNumbers, NEW pixel \in Block(q, b)
               PROVE  Cardinality(Holders(q, b)') + rays'[pixel] <= Allowed(q, b)'
    BY DEF RayInv
  <2>1. Cardinality(Holders(q, b)) + rays[pixel] <= Allowed(q, b)
    BY <1>2 DEF FrameInv, RayInv
  <2>2. Cardinality(Holders(q, b)) \in Nat /\ rays[pixel] \in Nat
    BY SomeNodes DEF Holders, Block, IInv, TypeOK
  <2>3. Allowed(q, b) \in 0 .. 2 /\ Allowed(q, b)' \in 0 .. 2
    BY DEF Allowed
  <2> QED BY <2>1, <2>2, <2>3, <1>1, <1>4, <1>7
<1> QED BY <1>2, <1>3, <1>8, StillWorking DEF IInv

LEMMA TakeFrame == ASSUME IInv, IInv', FrameInv, NEW p \in Nodes, Take(p) PROVE FrameInv'
<1>0. PICK q \in Nodes : q = local_node[p]
  BY DEF IInv, TypeOK
<1>1. /\ pc[p] = "take" /\ pc'[p] = "increment" /\ work'[p] = Queue[q]
      /\ \A r \in Nodes \ {p} : pc'[r] = pc[r] /\ work'[r] = work[r]
      /\ UNCHANGED <<Queue, local_node, rays>>
      /\ \A r \in Nodes : ~ (pc[r] = "increment" /\ local_node[r] = q)
  BY <1>0 DEF Take, Goto, At, Locked, IInv, TypeOK
<1>2. InWork /\ InWork' /\ local_node[p] = q
  BY <1>0, <1>1, WorkingNow, WorkingNext DEF Working
<1>3. Queue[q] \in Nat
  BY <1>1, NodeFacts DEF IInv, TypeOK
<1>4. HeldInv'
  <2> SUFFICES ASSUME NEW r \in Nodes
               PROVE  /\ pc'[r] = "trace" => work'[r] \in BlockNumbers
                      /\ pc'[r] = "increment" => work'[r] >= Queue'[local_node'[r]]
    BY DEF HeldInv, At
  <2>1. CASE r = p
    BY <2>1, <1>1, <1>2, <1>3
  <2>2. CASE r # p
    BY <2>2, <1>1, <1>2 DEF FrameInv, HeldInv, At
  <2> QED BY <2>1, <2>2
<1>5. \A s \in Nodes : Started(s)' <=> Started(s)
  BY <1>1 DEF Started, InFrame
<1>6. \A s \in Nodes, b \in BlockNumbers : (s # q \/ b # Queue[q]) =>
          Holders(s, b)' = Holders(s, b) /\ (Handed(s, b)' <=> Handed(s, b))
  <2> SUFFICES ASSUME NEW s \in Nodes, NEW b \in BlockNumbers, s # q \/ b # Queue[q]
               PROVE  Holders(s, b)' = Holders(s, b) /\ (Handed(s, b)' <=> Handed(s, b))
    OBVIOUS
  <2>1. Holders(s, b)' = Holders(s, b)
    BY <1>1, <1>2 DEF Holders
  <2>2. Handed(s, b)' <=> Handed(s, b)
    BY <1>1, <1>2 DEF Handed, At
  <2> QED BY <2>1, <2>2
<1>7. ASSUME NEW b \in BlockNumbers, b = Queue[q]
      PROVE  /\ Cardinality(Holders(q, b)') = Cardinality(Holders(q, b)) + 1
             /\ Handed(q, b)' /\ ~ Handed(q, b)
  <2>1. Holders(q, b)' = Holders(q, b) \cup {p} /\ p \notin Holders(q, b)
    BY <1>1, <1>2, <1>7 DEF Holders
  <2>2. Handed(q, b)' /\ ~ Handed(q, b)
    BY <1>1, <1>2, <1>3, <1>7 DEF Handed, At
  <2>3. IsFiniteSet(Holders(q, b))
    BY SomeNodes DEF Holders
  <2> QED BY <2>1, <2>2, <2>3, FS_AddElement
<1>8. RayInv'
  <2> SUFFICES ASSUME NEW s \in Nodes, NEW b \in BlockNumbers, NEW pixel \in Block(s, b)
               PROVE  Cardinality(Holders(s, b)') + rays'[pixel] <= Allowed(s, b)'
    BY DEF RayInv
  <2>1. Cardinality(Holders(s, b)) + rays[pixel] <= Allowed(s, b)
    BY <1>2 DEF FrameInv, RayInv
  <2>2. Cardinality(Holders(s, b)) \in Nat /\ rays[pixel] \in Nat
    BY SomeNodes DEF Holders, Block, IInv, TypeOK
  <2>3. CASE s # q \/ b # Queue[q]
    BY <2>1, <2>3, <1>1, <1>5, <1>6 DEF Allowed
  <2>4. CASE s = q /\ b = Queue[q]
    <3>1. Allowed(s, b)' = Allowed(s, b) + 1
      BY <2>4, <1>5, <1>7 DEF Allowed
    <3> QED BY <3>1, <2>1, <2>2, <2>4, <1>1, <1>7, AllowedBounds
  <2> QED BY <2>3, <2>4
<1> QED BY <1>2, <1>4, <1>8, StillWorking DEF IInv

LEMMA IncrementFrame == ASSUME IInv, IInv', FrameInv, NEW p \in Nodes, Increment(p) PROVE FrameInv'
<1>0. PICK q \in Nodes, w \in Nat : q = local_node[p] /\ w = work[p]
  BY DEF IInv, TypeOK
<1>1. /\ pc[p] = "increment" /\ pc'[p] \in {"trace", "retire", "advance"}
      /\ pc'[p] = "trace" <=> w < lnum_blocks
      /\ \A r \in Nodes \ {p} : pc'[r] = pc[r]
      /\ UNCHANGED <<local_node, work, rays>>
      /\ Queue'[q] = w + 1 /\ \A s \in Nodes \ {q} : Queue'[s] = Queue[s]
  BY <1>0, NodeFacts DEF Increment, Goto, At, IInv, TypeOK
<1>2. InWork /\ InWork'
  BY <1>1, WorkingNow, WorkingNext DEF Working
<1>3. \A r \in Nodes : pc[r] = "increment" /\ local_node[r] = q => r = p
  BY <1>0, <1>1 DEF IInv, LockInv, At
<1>4. w >= Queue[q] /\ Queue[q] \in Nat
  BY <1>0, <1>1, <1>2, NodeFacts DEF FrameInv, HeldInv, At, IInv, TypeOK
<1>5. HeldInv'
  <2> SUFFICES ASSUME NEW r \in Nodes, pc'[r] \in {"increment", "trace"}
               PROVE  /\ pc'[r] = "trace" => work'[r] \in BlockNumbers
                      /\ pc'[r] = "increment" => work'[r] >= Queue'[local_node'[r]]
    BY DEF HeldInv, At
  <2>1. CASE r = p
    BY <2>1, <1>0, <1>1, BlockCount DEF BlockNumbers
  <2>2. CASE r # p
    <3>1. pc'[r] = pc[r] /\ (pc[r] = "increment" => local_node[r] # q /\ local_node[r] \in Nodes)
      BY <2>2, <1>1, <1>3 DEF IInv, TypeOK
    <3> QED BY <3>1, <2>2, <1>1, <1>2 DEF FrameInv, HeldInv, At
  <2> QED BY <2>1, <2>2
<1>6. \A s \in Nodes, b \in BlockNumbers : Holders(s, b)' = Holders(s, b)
  <2>1. \A b \in BlockNumbers : w = b => pc'[p] = "trace"
    BY <1>1, BlockCount DEF BlockNumbers
  <2> QED BY <2>1, <1>0, <1>1 DEF Holders
<1>7. \A s \in Nodes, b \in BlockNumbers : Handed(s, b) => Handed(s, b)'
  <2> SUFFICES ASSUME NEW s \in Nodes, NEW b \in BlockNumbers, Handed(s, b)
               PROVE  Handed(s, b)'
    OBVIOUS
  <2>1. CASE s = q
    <3>1. b <= w
      BY <2>1, <1>0, <1>3, <1>4 DEF Handed, BlockNumbers, At
    <3>2. b < Queue'[s]
      BY <3>1, <2>1, <1>1 DEF BlockNumbers
    <3> QED BY <3>2 DEF Handed
  <2>2. CASE s # q
    BY <2>2, <1>0, <1>1 DEF Handed, At
  <2> QED BY <2>1, <2>2
<1>8. \A s \in Nodes : Started(s)' <=> Started(s)
  BY <1>1 DEF Started, InFrame
<1>9. RayInv'
  <2> SUFFICES ASSUME NEW s \in Nodes, NEW b \in BlockNumbers, NEW pixel \in Block(s, b)
               PROVE  Cardinality(Holders(s, b)') + rays'[pixel] <= Allowed(s, b)'
    BY DEF RayInv
  <2>1. Cardinality(Holders(s, b)) + rays[pixel] <= Allowed(s, b)
    BY <1>2 DEF FrameInv, RayInv
  <2>2. Cardinality(Holders(s, b)) \in Nat /\ rays[pixel] \in Nat
    BY SomeNodes DEF Holders, Block, IInv, TypeOK
  <2>3. Allowed(s, b) <= Allowed(s, b)' /\ Allowed(s, b) \in 0 .. 2 /\ Allowed(s, b)' \in 0 .. 2
    BY <1>7, <1>8 DEF Allowed
  <2> QED BY <2>1, <2>2, <2>3, <1>1, <1>6
<1> QED BY <1>2, <1>5, <1>9, StillWorking DEF IInv

LEMMA TraceFrame == ASSUME IInv, IInv', FrameInv, NEW p \in Nodes, Trace(p) PROVE FrameInv'
<1>0. PICK q \in Nodes, w \in Nat : q = local_node[p] /\ w = work[p]
  BY DEF IInv, TypeOK
<1>1. /\ pc[p] = "trace" /\ pc'[p] = "take" /\ \A r \in Nodes \ {p} : pc'[r] = pc[r]
      /\ UNCHANGED <<Queue, local_node, work>>
      /\ rays' = [i \in Pixels |-> IF i \in Block(q, w) THEN rays[i] + 1 ELSE rays[i]]
  BY <1>0 DEF Trace, Goto, At, IInv, TypeOK
<1>2. InWork /\ InWork'
  BY <1>1, WorkingNow, WorkingNext DEF Working
<1>3. w \in BlockNumbers
  BY <1>0, <1>1, <1>2 DEF FrameInv, HeldInv, At
<1>4. HeldInv'
  BY <1>1, <1>2 DEF FrameInv, HeldInv, At
<1>5. \A s \in Nodes, b \in BlockNumbers : (s # q \/ b # w) => Holders(s, b)' = Holders(s, b)
  BY <1>0, <1>1 DEF Holders
<1>6. Cardinality(Holders(q, w)') = Cardinality(Holders(q, w)) - 1
  <2>1. Holders(q, w)' = Holders(q, w) \ {p} /\ p \in Holders(q, w)
    BY <1>0, <1>1 DEF Holders
  <2>2. IsFiniteSet(Holders(q, w))
    BY SomeNodes DEF Holders
  <2> QED BY <2>1, <2>2, FS_RemoveElement
<1>7. \A s \in Nodes, b \in BlockNumbers : Allowed(s, b)' = Allowed(s, b)
  <2>1. \A s \in Nodes : Started(s)' <=> Started(s)
    BY <1>1 DEF Started, InFrame
  <2>2. \A s \in Nodes, b \in BlockNumbers : Handed(s, b)' <=> Handed(s, b)
    BY <1>1 DEF Handed, At
  <2> QED BY <2>1, <2>2 DEF Allowed
<1>8. RayInv'
  <2> SUFFICES ASSUME NEW s \in Nodes, NEW b \in BlockNumbers, NEW pixel \in Block(s, b)
               PROVE  Cardinality(Holders(s, b)') + rays'[pixel] <= Allowed(s, b)'
    BY DEF RayInv
  <2>1. Cardinality(Holders(s, b)) + rays[pixel] <= Allowed(s, b)
    BY <1>2 DEF FrameInv, RayInv
  <2>2. Cardinality(Holders(s, b)) \in Nat /\ rays[pixel] \in Nat /\ pixel \in Pixels
    BY SomeNodes DEF Holders, Block, IInv, TypeOK
  <2>3. CASE s = q /\ b = w
    <3>1. rays'[pixel] = rays[pixel] + 1
      BY <2>2, <2>3, <1>1
    <3> QED BY <3>1, <2>1, <2>2, <2>3, <1>6, <1>7, AllowedBounds
  <2>4. CASE s # q \/ b # w
    <3>1. pixel \notin Block(q, w)
      BY <2>4, <1>3, BlocksDisjoint
    <3>2. rays'[pixel] = rays[pixel]
      BY <3>1, <2>2, <1>1
    <3> QED BY <3>2, <2>1, <2>4, <1>5, <1>7
  <2> QED BY <2>3, <2>4
<1> QED BY <1>2, <1>4, <1>8, StillWorking DEF IInv

-----------------------------------------------------------------------------
(* The steps of all nodes together.                                        *)
LEMMA BarriersFrame == ASSUME IInv, IInv', FrameInv, Barriers PROVE FrameInv'
<1>0. UNCHANGED <<Queue, local_node, work, rays>>
  BY DEF Barriers, Pass
<1>1. CASE Pass("slave1", "clear")
  <2>1. \A p \in Nodes : pc'[p] = "clear"
    BY <1>1 DEF Pass
  <2>2. ~ InWork' /\ ClearedInv' /\ FrameComplete'
    BY <2>1, NodeFacts DEF InWork, AllIn, Working, Ending, Setting, ClearedInv, FrameComplete, At
  <2> QED BY <2>2, <1>0 DEF FrameInv, HeldInv, RayInv, BoundInv
<1>2. CASE Pass("slave2", "setup")
  <2>1. \A p \in Nodes : pc'[p] = "setup" /\ pc[p] = "slave2"
    BY <1>2 DEF Pass, At
  <2>2. ~ InWork' /\ FrameComplete'
    BY <2>1, NodeFacts DEF InWork, AllIn, Working, Ending, FrameComplete, At
  <2>3. \A pixel \in Pixels : rays[pixel] = 0
    BY <2>1, PartitionsCover DEF FrameInv, ClearedInv, At
  <2>4. ClearedInv'
    BY <2>1, <2>3, <1>0 DEF ClearedInv, At
  <2> QED BY <2>2, <2>4, <1>0 DEF FrameInv, HeldInv, RayInv, BoundInv
<1>3. CASE Pass("time1", "count")
  <2>1. \A p \in Nodes : pc'[p] = "count" /\ pc[p] = "time1"
    BY <1>3 DEF Pass, At
  <2>2. InWork' /\ HeldInv'
    BY <2>1 DEF InWork, AllIn, Working, HeldInv, At
  <2>3. \A pixel \in Pixels : rays'[pixel] = 0
    BY <2>1, <1>0 DEF FrameInv, ClearedInv, AllIn, Setting
  <2>4. RayInv'
    <3> SUFFICES ASSUME NEW q \in Nodes, NEW b \in BlockNumbers, NEW pixel \in Block(q, b)
                 PROVE  Cardinality(Holders(q, b)') + rays'[pixel] <= Allowed(q, b)'
      BY DEF RayInv
    <3>1. Holders(q, b)' = {}
      BY <2>1 DEF Holders
    <3>2. rays'[pixel] = 0
      BY <2>3 DEF Block
    <3>3. Allowed(q, b)' \in 0 .. 2
      BY DEF Allowed
    <3> QED BY <3>1, <3>2, <3>3, FS_EmptySet
  <2> QED BY <2>2, <2>4, StillWorking DEF IInv
<1>4. CASE Pass("time2", "time3")
  <2>1. \A p \in Nodes : pc'[p] = "time3" /\ pc[p] = "time2"
    BY <1>4 DEF Pass, At
  <2>2. InWork /\ InWork' /\ HeldInv'
    BY <2>1 DEF InWork, AllIn, Working, Ending, HeldInv, At
  <2>3. \A q \in Nodes, b \in BlockNumbers : Holders(q, b)' = Holders(q, b)
    BY <2>1 DEF Holders
  <2>4. \A q \in Nodes, b \in BlockNumbers : Allowed(q, b)' = Allowed(q, b)
    <3>1. \A q \in Nodes : Started(q)' <=> Started(q)
      BY <2>1 DEF Started, InFrame
    <3>2. \A q \in Nodes, b \in BlockNumbers : Handed(q, b)' <=> Handed(q, b)
      BY <2>1, <1>0 DEF Handed, At
    <3> QED BY <3>1, <3>2 DEF Allowed
  <2>5. RayInv'
    BY <2>2, <2>3, <2>4, <1>0 DEF FrameInv, RayInv
  <2> QED BY <2>2, <2>5, StillWorking DEF IInv
<1> QED BY <1>1, <1>2, <1>3, <1>4 DEF Barriers

\* At the last barrier nobody holds a block and every one is taken.
LEMMA EndOfFrameFrame == ASSUME IInv, IInv', FrameInv, EndOfFrame PROVE FrameInv'
<1>1. /\ \A p \in Nodes : pc[p] = "time3"
      /\ UNCHANGED <<Queue, local_node, work, rays>>
      /\ \A p \in Nodes : pc'[p] \in {"store", "slave1", "done"}
  BY DEF EndOfFrame, At
<1>2. InWork /\ ~ InWork' /\ ~ AllIn(Setting)' /\ \A p \in Nodes : pc'[p] # "slave2"
  BY <1>1, NodeFacts DEF InWork, AllIn, Working, Ending, Setting
<1>3. \A q \in Nodes, b \in BlockNumbers : Traced(q, b)
  <2> SUFFICES ASSUME NEW q \in Nodes, NEW b \in BlockNumbers PROVE Traced(q, b)
    OBVIOUS
  <2>1. retired = Nodes
    BY <1>1, <1>2, NodeFacts DEF IInv, LeftInv
  <2>2. Queue[q] >= lnum_blocks /\ Queue[q] \in Nat
    BY <2>1, <1>2, NodeFacts DEF IInv, UsedInv, TypeOK
  <2>4. b < Queue[q]
    BY <2>2, BlockCount DEF BlockNumbers
  <2>3. ~ Held(q, b)
    BY <1>1 DEF Held
  <2> QED BY <2>4, <2>3, <1>2 DEF IInv, TakenInv, Kept
<1>4. \A pixel \in Pixels : rays[pixel] >= 1
  BY <1>3, BlocksCover DEF Traced
<1>5. FrameComplete' /\ ClearedInv' /\ BoundInv'
  BY <1>1, <1>2, <1>4 DEF FrameInv, FrameComplete, ClearedInv, BoundInv, At
<1> QED BY <1>2, <1>5 DEF FrameInv, HeldInv, RayInv

LEMMA StoreFrame == ASSUME IInv, IInv', FrameInv, Store PROVE FrameInv'
<1>1. /\ pc[ROOT] = "store" /\ pc'[ROOT] \in {"slave1", "done"}
      /\ \A p \in Nodes \ {ROOT} : pc'[p] = pc[p]
      /\ UNCHANGED rays
  BY NodeFacts DEF Store, Goto, At, IInv, TypeOK
<1>2. \A p \in Nodes : pc[p] \in Between /\ pc'[p] \in Between
  BY <1>1, NodeFacts DEF IInv, StretchInv, AllIn, Between, Clearing, Setting, Working, Ending
<1>3. ~ InWork' /\ ClearedInv' /\ FrameComplete'
  BY <1>1, <1>2, NodeFacts DEF InWork, AllIn, Between, Working, Ending, Setting, ClearedInv, FrameComplete, At
<1> QED BY <1>1, <1>3 DEF FrameInv, HeldInv, RayInv, BoundInv

-----------------------------------------------------------------------------
\* FrameInv is an invariant of the frame loop (Render_Loop and Ray_Trace).
THEOREM FrameInductive == Spec => []FrameInv
<1>1. IInv /\ IInv' /\ FrameInv /\ [Next]_vars => FrameInv'
  <2> SUFFICES ASSUME IInv, IInv', FrameInv, [Next]_vars PROVE FrameInv'
    OBVIOUS
  <2>1. CASE Barriers
    BY <2>1, BarriersFrame
  <2>2. CASE EndOfFrame
    BY <2>2, EndOfFrameFrame
  <2>3. CASE Store
    BY <2>3, StoreFrame
  <2>4. ASSUME NEW p \in Nodes, NodeStep(p)
        PROVE  FrameInv'
    BY <2>4, ClearFrame, SetupFrame, QuietFrame, ResetFrame, TakeFrame, IncrementFrame, TraceFrame
       DEF NodeStep
  <2>5. CASE UNCHANGED vars
    BY <2>5 DEF vars, FrameInv, ClearedInv, HeldInv, RayInv, BoundInv, FrameComplete, AllIn, InWork,
       Holders, Allowed, Handed, Started, InFrame, At
  <2> QED BY <2>1, <2>2, <2>3, <2>4, <2>5 DEF Next
<1> QED BY Inductive, FrameInitial, <1>1, PTL DEF Spec

\* When ROOT writes the image (main.C: WriteGrayscaleTIFF) every pixel holds a ray of
\* this frame, however the nodes stole blocks from each other.
THEOREM FrameCompleteCorrect == Spec => []FrameComplete
<1>1. FrameInv => FrameComplete
  BY DEF FrameInv
<1> QED BY FrameInductive, <1>1, PTL

\* A pixel gets a second ray only after the unlocked reset of its section by
\* its owner (Ray_Trace_Non_Adaptively), and never a third one.
THEOREM OneRayCorrect == Spec => []OneRayUnlessReset
<1>1. IInv /\ FrameInv => OneRayUnlessReset
  <2> SUFFICES ASSUME IInv, FrameInv, NEW q \in Nodes, NEW b \in BlockNumbers, NEW pixel \in Block(q, b)
               PROVE  /\ rays[pixel] <= 2
                      /\ (\A p \in Nodes : InFrame(p)) /\ ~ Started(q) => rays[pixel] <= 1
    BY DEF OneRayUnlessReset
  <2>1. rays[pixel] <= 2 /\ rays[pixel] \in Nat /\ pixel \in Pixels
    BY DEF FrameInv, BoundInv, IInv, TypeOK, Block
  <2>2. ASSUME \A p \in Nodes : InFrame(p), ~ Started(q)
        PROVE  rays[pixel] <= 1
    <3>1. InWork \/ AllIn(Setting)
      BY <2>2, NodeFacts DEF IInv, StretchInv, InWork, AllIn, InFrame, Between, Clearing
    <3>2. CASE AllIn(Setting)
      BY <3>2, <2>1 DEF FrameInv, ClearedInv
    <3>3. CASE InWork
      <4>1. Cardinality(Holders(q, b)) + rays[pixel] <= Allowed(q, b)
        BY <3>3 DEF FrameInv, RayInv
      <4>2. Allowed(q, b) \in {0, 1}
        BY <2>2 DEF Allowed
      <4>3. Cardinality(Holders(q, b)) \in Nat
        BY SomeNodes DEF Holders
      <4> QED BY <4>1, <4>2, <4>3, <2>1
    <3> QED BY <3>1, <3>2, <3>3
  <2> QED BY <2>1, <2>2
<1> QED BY Inductive, FrameInductive, <1>1, PTL
=============================================================================
