----------------------- MODULE RadiosityTasks_proofs -----------------------
(***************************************************************************)
(* Proofs about RadiosityTasks: its invariants hold for every number of    *)
(* processes and task queues and for every value of the bounds.            *)
(*                                                                         *)
(* The argument.  IndInv is inductive.  Its parts that count               *)
(* (PbarAccounting, CallerCount) change by one element of a finite set at  *)
(* a time; InStep and VerdictStable keep the processes in one phase, so    *)
(* that the barrier opens for all or for none of them; TaskCovered then    *)
(* says that while a task is queued somebody will still look for it, and   *)
(* a process at the barrier will not, so there is none when it opens.      *)
(***************************************************************************)
EXTENDS RadiosityTasks, TLAPS, FiniteSetTheorems, SequenceTheorems

(* The queue a process owns is one of the queues.                          *)
LEMMA HomeType == \A p \in Procs : Home(p) \in Queues
  BY NAssumption DEF Home, Procs, Queues

(* The search stays within the queues: one correction by NQ is enough.     *)
LEMMA NextQueueType ==
  ASSUME NEW q \in Queues, NEW v \in 1 .. NQ
  PROVE  NextQueue(q, v) \in Queues
  BY NAssumption DEF NextQueue, Queues

(* The loop of dequeue_task computes QueueAt step by step.                 *)
LEMMA NextQueueAt ==
  ASSUME NEW h \in Queues, NEW v \in 0 .. NQ - 1, v + 1 < NQ
  PROVE  NextQueue(QueueAt(h, v), v + 1) = QueueAt(h, v + 1)
<1>1. CASE v % 2 = 0
  <2>1. PICK j \in Nat : v = 2 * j
    BY <1>1
  <2>2. (v + 1) % 2 = 1 /\ v \div 2 = j /\ (v + 2) \div 2 = j + 1
    BY <2>1
  <2> QED
    BY <1>1, <2>1, <2>2, NAssumption DEF NextQueue, QueueAt, Queues
<1>2. CASE v % 2 = 1
  <2>1. PICK j \in Nat : v = 2 * j + 1
    BY <1>2
  <2>2. (v + 1) % 2 = 0 /\ (v + 1) \div 2 = j + 1
    BY <2>1
  <2> QED
    BY <1>2, <2>1, <2>2, NAssumption DEF NextQueue, QueueAt, Queues
<1> QED
  BY <1>1, <1>2

(* A search that starts at h visits every queue: 2d for a queue d ahead,   *)
(* 2d - 1 for a queue d behind.                                            *)
LEMMA SearchIsComplete ==
  ASSUME NEW h \in Queues, NEW q \in Queues
  PROVE  \E k \in 0 .. NQ - 1 : QueueAt(h, k) = q
<1> DEFINE Ahead(d)  == 2 * d \in 0 .. NQ - 1 /\ QueueAt(h, 2 * d) = q
           Behind(d) == 2 * d - 1 \in 0 .. NQ - 1 /\ QueueAt(h, 2 * d - 1) = q
<1>1. \A d \in Nat : (2 * d) % 2 = 0 /\ (2 * d) \div 2 = d
  OBVIOUS
<1>2. \A d \in Nat \ {0} : (2 * d - 1) % 2 = 1 /\ (2 * d - 1 + 1) \div 2 = d
  OBVIOUS
<1>3. CASE q >= h
  <2>1. CASE 2 * (q - h) <= NQ - 1
    <3>1. Ahead(q - h)
      BY <1>1, <1>3, <2>1, NAssumption DEF QueueAt, Queues
    <3> QED BY <3>1
  <2>2. CASE 2 * (q - h) > NQ - 1
    <3>1. Behind(NQ - (q - h))
      BY <1>2, <1>3, <2>2, NAssumption DEF QueueAt, Queues
    <3> QED BY <3>1
  <2> QED BY <2>1, <2>2, NAssumption DEF Queues
<1>4. CASE q < h
  <2>1. CASE 2 * (h - q) - 1 <= NQ - 1
    <3>1. Behind(h - q)
      BY <1>2, <1>4, <2>1, NAssumption DEF QueueAt, Queues
    <3> QED BY <3>1
  <2>2. CASE 2 * (h - q) - 1 > NQ - 1
    <3>1. Ahead(NQ - (h - q))
      BY <1>1, <1>4, <2>2, NAssumption DEF QueueAt, Queues
    <3> QED BY <3>1
  <2> QED BY <2>1, <2>2, NAssumption DEF Queues
<1> QED BY <1>3, <1>4, NAssumption DEF Queues

(* The processes are a finite set of N.                                    *)
LEMMA ProcsFinite ==
  /\ IsFiniteSet(Procs) /\ Cardinality(Procs) = N /\ 0 \in Procs
  /\ \A S \in SUBSET Procs : /\ IsFiniteSet(S) /\ Cardinality(S) \in 0 .. N
                             /\ Cardinality(S) = N => S = Procs
<1>1. IsFiniteSet(Procs) /\ Cardinality(Procs) = N /\ 0 \in Procs
  BY FS_Interval, NAssumption DEF Procs
<1>2. ASSUME NEW S \in SUBSET Procs
      PROVE  /\ IsFiniteSet(S) /\ Cardinality(S) \in 0 .. N
             /\ Cardinality(S) = N => S = Procs
  <2>1. IsFiniteSet(S) /\ Cardinality(S) <= N /\ (Cardinality(S) = N => S = Procs)
    BY <1>1, FS_Subset
  <2>2. Cardinality(S) \in Nat
    BY <2>1, FS_CardinalityType
  <2> QED BY <2>1, <2>2, NAssumption
<1> QED BY <1>1, <1>2

-----------------------------------------------------------------------------
(* Queue operations keep queues queues of tasks.                           *)
LEMMA QueueOps ==
  ASSUME TypeOK, NEW q \in Queues, NEW lvl \in Levels, NEW mode, NEW p \in Procs
  PROVE  /\ Enqueued(q, lvl, mode) \in [Queues -> Seq(Levels)]
         /\ \A y \in Queues : queue[y] # <<>> => Enqueued(q, lvl, mode)[y] # <<>>
         /\ queue[q] # <<>> => /\ Popped(p, q) \in Levels
                               /\ Remaining(p, q) \in Seq(Levels)
<1>1. /\ <<lvl>> \o queue[q] \in Seq(Levels) /\ <<lvl>> \o queue[q] # <<>>
      /\ Append(queue[q], lvl) \in Seq(Levels) /\ Append(queue[q], lvl) # <<>>
  <2>1. queue[q] \in Seq(Levels) /\ <<lvl>> \in Seq(Levels) /\ Len(<<lvl>>) = 1
    BY DEF TypeOK
  <2>2. Len(<<lvl>> \o queue[q]) = 1 + Len(queue[q]) /\ Len(queue[q]) \in Nat
    BY <2>1, ConcatProperties, LenProperties
  <2> QED BY <2>1, <2>2, ConcatProperties, EmptySeq
<1>2. ASSUME queue[q] # <<>>
      PROVE  Popped(p, q) \in Levels /\ Remaining(p, q) \in Seq(Levels)
  <2>1. queue[q] \in Seq(Levels) /\ Len(queue[q]) \in Nat \ {0}
    BY <1>2, EmptySeq DEF TypeOK
  <2>2. Head(queue[q]) \in Levels /\ Tail(queue[q]) \in Seq(Levels)
    BY <1>2, <2>1, HeadTailProperties
  <2>3. queue[q][Len(queue[q])] \in Levels
    BY <2>1, ElementOfSeq
  <2>4. SubSeq(queue[q], 1, Len(queue[q]) - 1) \in Seq(Levels)
    <3>1. \A i \in 1 .. Len(queue[q]) - 1 : queue[q][i] \in Levels
      BY <2>1, ElementOfSeq
    <3> QED BY <2>1, <3>1, SubSeqProperties
  <2> QED BY <2>2, <2>3, <2>4 DEF Popped, Remaining
<1> QED BY <1>1, <1>2 DEF Enqueued, TypeOK

(* The initial state satisfies the inductive invariant.                    *)
LEMMA InitInd == Init => IndInv
<1> SUFFICES ASSUME Init PROVE IndInv
  OBVIOUS
<1> USE NAssumption, BoundAssumption, HomeType
<1>1. TypeOK
  <2>1. <<>> \in Seq(Levels)
    BY EmptySeq
  <2>2. \A p \in Procs : [qid |-> Home(p), visit |-> 0] \in [qid : Queues, visit : 0 .. NQ]
    OBVIOUS
  <2>3. queue \in [Queues -> Seq(Levels)]
    BY <2>1 DEF Init
  <2>4. /\ pc \in [Procs -> PCs] /\ stage \in [Procs -> Stages]
        /\ polling \in [Procs -> BOOLEAN]
        /\ task \in [Procs -> Levels \cup {NoTask}]
        /\ \A p \in Procs : pc[p] = "create" => task[p] > 0
    BY DEF Init, PCs, Stages
  <2>5. cursor \in [Procs -> [qid : Queues, visit : 0 .. NQ]]
    BY <2>2 DEF Init
  <2>6. converged \in BOOLEAN
    BY DEF Init
  <2>7. /\ pbar_count \in 0 .. N /\ task_counter \in 0 .. N - 1
        /\ iteration_count \in Nat \cup {-1} /\ created \in 0 .. MaxTasks
    BY DEF Init
  <2> QED BY <2>3, <2>4, <2>5, <2>6, <2>7 DEF TypeOK
<1>2. CountedProcs = {} /\ Callers = {} /\ Procs # {}
  BY ProcsFinite DEF Init, CountedProcs, Counted, Callers
<1>3. PbarAccounting /\ CallerCount
  BY <1>2, FS_EmptySet DEF Init, PbarAccounting, CallerCount
<1>4. InStep /\ VerdictStable /\ HeldWhereUsed /\ SearchInOrder /\ TaskCovered
  BY DEF Init, InStep, VerdictStable, HeldWhereUsed, SearchInOrder, TaskCovered, NoTask
<1> QED BY <1>1, <1>3, <1>4 DEF IndInv

(* Leaving the polling barrier is only possible for a counted process, so  *)
(* the counter is positive there.                                          *)
LEMMA CountPositive ==
  ASSUME TypeOK, PbarAccounting, NEW p \in Procs, Counted(p)
  PROVE  pbar_count \in 1 .. N /\ pbar_count = Cardinality(CountedProcs)
<1>1. CountedProcs \in SUBSET Procs /\ p \in CountedProcs
  BY DEF CountedProcs
<1>2. Cardinality(CountedProcs) \in 1 .. N
  BY <1>1, ProcsFinite, FS_EmptySet
<1> QED BY <1>1, <1>2 DEF PbarAccounting

(* A created task has a level of its own, below that of its creator.       *)
LEMMA CreatedLevel ==
  ASSUME TypeOK, NEW p \in Procs
  PROVE  MaxLevel \in Levels /\ (pc[p] = "create" => task[p] - 1 \in Levels)
<1>1. MaxLevel \in Levels
  BY BoundAssumption DEF Levels
<1>2. ASSUME pc[p] = "create"
      PROVE  task[p] - 1 \in Levels
  <2>1. task[p] \in Levels \cup {NoTask} /\ task[p] > 0
    BY <1>2 DEF TypeOK
  <2> QED BY <2>1, BoundAssumption DEF Levels, NoTask
<1> QED BY <1>1, <1>2

(* Type correctness of one step.                                           *)
LEMMA TypeStep == TypeOK /\ PbarAccounting /\ VerdictStable /\ [Next]_vars => TypeOK'
<1> SUFFICES ASSUME TypeOK, PbarAccounting, VerdictStable, [Next]_vars
             PROVE  TypeOK'
  OBVIOUS
<1> USE NAssumption, BoundAssumption
<1> USE DEF TypeOK, PCs, AtBarrier
<1>a. \A p \in Procs : [qid |-> Home(p), visit |-> 0] \in [qid : Queues, visit : 0 .. NQ]
  BY HomeType
<1>1. ASSUME NEW p \in Procs, InitTasks(p)
      PROVE  TypeOK'
  <2>1. task_counter' \in 0 .. N - 1
    BY <1>1 DEF InitTasks, CheckTaskCounter
  <2>2. CASE FirstCaller
    <3>1. pc' = [pc EXCEPT ![p] = "feed"] /\ cursor' = cursor
      BY <1>1, <2>2 DEF InitTasks
    <3> QED BY <1>1, <2>1, <3>1 DEF InitTasks
  <2>3. CASE ~FirstCaller
    <3>1. StartDequeue(p)
      BY <1>1, <2>3 DEF InitTasks
    <3> QED BY <1>1, <1>a, <2>1, <3>1 DEF InitTasks, StartDequeue
  <2> QED BY <2>2, <2>3
<1>2. ASSUME NEW p \in Procs, InitRayTasks(p)
      PROVE  TypeOK'
  <2>1. task_counter' \in 0 .. N - 1
    BY <1>2 DEF InitRayTasks, CheckTaskCounter
  <2>2. CASE FirstCaller
    <3>1. PICK conv \in BOOLEAN :
            /\ converged' = conv /\ iteration_count' = iteration_count + 1
            /\ pc' = [pc EXCEPT ![p] = IF conv THEN "sync" ELSE "feed"]
      BY <1>2, <2>2 DEF InitRayTasks
    <3>2. pc' \in [Procs -> PCs]
      BY <3>1
    <3> QED BY <1>2, <2>1, <3>1, <3>2 DEF InitRayTasks
  <2>3. CASE ~FirstCaller
    <3>1. pc' = [pc EXCEPT ![p] = IF converged THEN "sync" ELSE "gather"]
      BY <1>2, <2>3 DEF InitRayTasks
    <3>2. pc' \in [Procs -> PCs]
      BY <3>1
    <3> QED BY <1>2, <2>1, <2>3, <3>2 DEF InitRayTasks
  <2> QED BY <2>2, <2>3
<1>3. ASSUME NEW p \in Procs, Feed(p)
      PROVE  TypeOK'
  BY <1>3, QueueOps DEF Feed, TypeOK, Levels
<1>4. ASSUME NEW p \in Procs, FeedEnd(p)
      PROVE  TypeOK'
  BY <1>4, <1>a DEF FeedEnd, StartDequeue, TypeOK, PCs, AtBarrier
<1>5. ASSUME NEW p \in Procs, VisitEmpty(p)
      PROVE  TypeOK'
  <2>1. NextQueue(cursor[p].qid, cursor[p].visit + 1) \in Queues
    BY <1>5, NextQueueType DEF VisitEmpty, TypeOK
  <2> QED BY <1>5, <2>1 DEF VisitEmpty, TypeOK
<1>6. ASSUME NEW p \in Procs, VisitNonEmpty(p) \/ VisitedAll(p) \/ TakeNothing(p)
      PROVE  TypeOK'
  BY <1>6 DEF VisitNonEmpty, VisitedAll, TakeNothing, AfterDequeue, TypeOK, PCs, AtBarrier
<1>7. ASSUME NEW p \in Procs, TakeTask(p)
      PROVE  TypeOK'
  <2>1. Popped(p, cursor[p].qid) \in Levels /\ Remaining(p, cursor[p].qid) \in Seq(Levels)
    BY <1>7, QueueOps, 0 \in Levels DEF TakeTask, TypeOK, Levels
  <2> QED BY <1>7, <2>1 DEF TakeTask, TypeOK, PCs, AtBarrier
<1>8. ASSUME NEW p \in Procs, CreateTask(p)
      PROVE  TypeOK'
  <2>1. MaxLevel \in Levels /\ (pc[p] = "create" => task[p] - 1 \in Levels)
    BY CreatedLevel
  <2>2. queue' \in [Queues -> Seq(Levels)]
    <3>1. \A lvl \in Levels : Enqueued(Home(p), lvl, "insert") \in [Queues -> Seq(Levels)]
      BY QueueOps, HomeType
    <3> QED BY <1>8, <2>1, <3>1 DEF CreateTask
  <2> QED BY <1>8, <2>2 DEF CreateTask
<1>9. ASSUME NEW p \in Procs, FinishTask(p)
      PROVE  TypeOK'
  <2>1. task' \in [Procs -> Levels \cup {NoTask}]
    BY <1>9 DEF FinishTask
  <2> QED BY <1>9, <1>a, <2>1 DEF FinishTask, StartDequeue
<1>10. ASSUME NEW p \in Procs, Arrive(p) \/ SpinExit(p) \/ SpinPoll(p)
      PROVE  TypeOK'
  <2>1. CASE Arrive(p)
    BY <2>1 DEF Arrive
  <2>2. CASE SpinExit(p)
    BY <2>2 DEF SpinExit
  <2>3. CASE SpinPoll(p)
    BY <1>a, <2>3 DEF SpinPoll, StartDequeue
  <2> QED BY <1>10, <2>1, <2>2, <2>3
<1>11. ASSUME NEW p \in Procs, Leave(p)
      PROVE  TypeOK'
  <2>1. pbar_count \in 1 .. N
    BY <1>11, CountPositive DEF Leave, Counted
  <2> QED BY <1>11, <2>1 DEF Leave, TypeOK, PCs
<1>12. ASSUME BarrierOpens
      PROVE  TypeOK'
  <2>1. \A p \in Procs : AfterBarrier(p).pc \in PCs /\ AfterBarrier(p).stage \in Stages
    BY <1>12 DEF BarrierOpens, AfterBarrier, TypeOK, PCs, Stages, AtBarrier
  <2>2. \A p \in Procs : AfterBarrier(p).pc # "create"
    BY <1>12 DEF BarrierOpens, AfterBarrier, Stages
  <2>3. \A p \in Procs : pc'[p] # "create"
    BY <1>12, <2>2 DEF BarrierOpens
  <2> QED BY <1>12, <1>a, <2>1, <2>3 DEF BarrierOpens
<1>13. ASSUME NEW p \in Procs, TestQueue(p)
      PROVE  TypeOK'
  <2>1. created' \in 0 .. MaxTasks
    BY <1>13, BoundAssumption DEF TestQueue
  <2>2. pc' \in [Procs -> PCs]
    BY <1>13 DEF TestQueue
  <2>3. \A r \in Procs : pc'[r] = "create" => task[r] > 0
    BY <1>13 DEF TestQueue
  <2> QED BY <1>13, <2>1, <2>2, <2>3 DEF TestQueue
<1>14. CASE UNCHANGED vars
  BY <1>14 DEF vars, TypeOK
<1> QED
  BY <1>1, <1>2, <1>3, <1>4, <1>5, <1>6, <1>7, <1>8, <1>9, <1>10, <1>11, <1>12, <1>13, <1>14
     DEF Next, Step, Terminating

-----------------------------------------------------------------------------
(* What a step of p leaves alone.                                          *)
LEMMA StepLocal ==
  ASSUME TypeOK, NEW p \in Procs, Step(p)
  PROVE  /\ stage' = stage
         /\ pc \in [Procs -> PCs] /\ pc' = [pc EXCEPT ![p] = pc'[p]]
         /\ \A r \in Procs \ {p} : /\ pc'[r] = pc[r] /\ cursor'[r] = cursor[r]
                                   /\ polling'[r] = polling[r] /\ task'[r] = task[r]
<1> USE DEF TypeOK
<1>1. CASE InitTasks(p)
  <2>1. stage' = stage /\ task' = task /\ polling' = [polling EXCEPT ![p] = FALSE]
    BY <1>1 DEF InitTasks
  <2>2. CASE FirstCaller
    BY <1>1, <2>1, <2>2 DEF InitTasks
  <2>3. CASE ~FirstCaller
    <3>1. StartDequeue(p)
      BY <1>1, <2>3 DEF InitTasks
    <3> QED BY <2>1, <3>1 DEF StartDequeue
  <2> QED BY <2>2, <2>3
<1>2. CASE InitRayTasks(p)
  BY <1>2 DEF InitRayTasks
<1>3. CASE \/ Feed(p) \/ TestQueue(p) \/ CreateTask(p)
           \/ VisitNonEmpty(p) \/ VisitEmpty(p) \/ VisitedAll(p)
  BY <1>3 DEF Feed, TestQueue, CreateTask, VisitNonEmpty, VisitEmpty, VisitedAll
<1>4. CASE FeedEnd(p)
  BY <1>4 DEF FeedEnd, StartDequeue
<1>5. CASE TakeTask(p) \/ TakeNothing(p) \/ Arrive(p) \/ SpinExit(p) \/ Leave(p)
  BY <1>5 DEF TakeTask, TakeNothing, Arrive, SpinExit, Leave
<1>6. CASE FinishTask(p) \/ SpinPoll(p)
  BY <1>6 DEF FinishTask, SpinPoll, StartDequeue
<1> QED BY <1>1, <1>2, <1>3, <1>4, <1>5, <1>6 DEF Step

(* Where each step takes the process that makes it.                        *)
LEMMA StepMoves ==
  ASSUME TypeOK, NEW p \in Procs, Step(p)
  PROVE  \/ /\ pc[p] = "init" /\ stage[p] # "ray" /\ CheckTaskCounter /\ polling'[p] = FALSE
            /\ FirstCaller => pc'[p] = "feed"
            /\ ~FirstCaller => pc'[p] = "visit" /\ cursor'[p] = [qid |-> Home(p), visit |-> 0]
            /\ UNCHANGED <<queue, task, pbar_count, converged>>
         \/ /\ pc[p] = "init" /\ stage[p] = "ray" /\ CheckTaskCounter
            /\ FirstCaller => \/ converged' = TRUE /\ pc'[p] = "sync"
                              \/ converged' = FALSE /\ pc'[p] = "feed"
            /\ ~FirstCaller => /\ converged' = converged
                               /\ pc'[p] = IF converged THEN "sync" ELSE "gather"
            /\ UNCHANGED <<queue, task, pbar_count>>
         \/ /\ \/ pc[p] = "feed" /\ pc'[p] = "feed"
               \/ pc[p] = "feed" /\ pc'[p] = "feeding" /\ stage[p] # "ray"
               \/ pc[p] = "work" /\ pc'[p] = "create"
               \/ pc[p] = "feeding" /\ pc'[p] = "feed"
               \/ pc[p] = "create" /\ pc'[p] = "work"
            /\ \A q \in Queues : queue[q] # <<>> => queue'[q] # <<>>
            /\ UNCHANGED <<cursor, task, pbar_count, task_counter, converged>>
         \/ /\ pc[p] = "feed" /\ stage[p] = "ray" /\ pc'[p] = "gather"
            /\ UNCHANGED <<queue, task, pbar_count, task_counter, converged>>
         \/ /\ \/ pc[p] = "feed" /\ stage[p] # "ray" /\ polling'[p] = FALSE
                  /\ task'[p] = task[p]
               \/ pc[p] = "work" /\ polling'[p] = FALSE /\ task'[p] = NoTask
               \/ pc[p] = "spin" /\ polling'[p] = TRUE /\ task'[p] = task[p]
            /\ pc'[p] = "visit" /\ cursor'[p] = [qid |-> Home(p), visit |-> 0]
            /\ UNCHANGED <<queue, pbar_count, task_counter, converged>>
         \/ /\ pc[p] = "visit" /\ cursor[p].visit < NQ /\ polling' = polling
            /\ \/ queue[cursor[p].qid] # <<>> /\ pc'[p] = "take" /\ cursor' = cursor
               \/ /\ queue[cursor[p].qid] = <<>> /\ pc'[p] = "visit"
                  /\ cursor'[p] = [qid |-> NextQueue(cursor[p].qid, cursor[p].visit + 1),
                                   visit |-> cursor[p].visit + 1]
            /\ UNCHANGED <<queue, task, pbar_count, task_counter, converged>>
         \/ /\ \/ pc[p] = "visit" /\ cursor[p].visit = NQ
               \/ pc[p] = "take" /\ queue[cursor[p].qid] = <<>>
            /\ polling[p] => pc'[p] = "spin"
            /\ ~polling[p] => pc'[p] = "arrive"
            /\ UNCHANGED <<queue, task, pbar_count, task_counter, converged>>
         \/ /\ pc[p] = "take" /\ queue[cursor[p].qid] # <<>>
            /\ polling[p] => pc'[p] = "leave"
            /\ ~polling[p] => pc'[p] = "work"
            /\ task'[p] \in Levels
            /\ \A q \in Queues \ {cursor[p].qid} : queue'[q] = queue[q]
            /\ UNCHANGED <<pbar_count, task_counter, converged>>
         \/ /\ \/ /\ pc[p] = "arrive" /\ pc'[p] = "spin"
                  /\ pbar_count' = (IF pbar_count >= N THEN 0 ELSE pbar_count) + 1
               \/ pc[p] = "spin" /\ pc'[p] = "bar" /\ pbar_count' = pbar_count
               \/ pc[p] = "leave" /\ pc'[p] = "work" /\ pbar_count' = pbar_count - 1
            /\ UNCHANGED <<queue, task, task_counter, converged>>
<1> USE DEF TypeOK
<1>1. CASE InitTasks(p)
  <2>1. CASE FirstCaller
    BY <1>1, <2>1 DEF InitTasks
  <2>2. CASE ~FirstCaller
    <3>1. StartDequeue(p)
      BY <1>1, <2>2 DEF InitTasks
    <3> QED BY <1>1, <2>2, <3>1 DEF InitTasks, StartDequeue
  <2> QED BY <2>1, <2>2
<1>2. CASE InitRayTasks(p)
  <2>1. CASE FirstCaller
    <3>1. PICK conv \in BOOLEAN :
            converged' = conv /\ pc' = [pc EXCEPT ![p] = IF conv THEN "sync" ELSE "feed"]
      BY <1>2, <2>1 DEF InitRayTasks
    <3> QED BY <1>2, <2>1, <3>1 DEF InitRayTasks
  <2>2. CASE ~FirstCaller
    BY <1>2, <2>2 DEF InitRayTasks
  <2> QED BY <2>1, <2>2
<1>3. CASE Feed(p)
  <2>1. MaxLevel \in Levels
    BY BoundAssumption DEF Levels
  <2> QED BY <1>3, <2>1, QueueOps DEF Feed
<1>4. CASE TestQueue(p) \/ CreateTask(p)
  <2>1. MaxLevel \in Levels /\ (pc[p] = "create" => task[p] - 1 \in Levels)
    BY CreatedLevel
  <2>2. \A lvl \in Levels, q \in Queues :
          queue[q] # <<>> => Enqueued(Home(p), lvl, "insert")[q] # <<>>
    BY QueueOps, HomeType
  <2>3. CASE TestQueue(p)
    BY <2>3 DEF TestQueue
  <2>4. CASE CreateTask(p)
    BY <2>1, <2>2, <2>4 DEF CreateTask
  <2> QED BY <1>4, <2>3, <2>4
<1>5. CASE FeedEnd(p)
  BY <1>5 DEF FeedEnd, StartDequeue
<1>6. CASE VisitNonEmpty(p) \/ VisitEmpty(p)
  BY <1>6 DEF VisitNonEmpty, VisitEmpty
<1>7. CASE VisitedAll(p) \/ TakeNothing(p)
  BY <1>7 DEF VisitedAll, TakeNothing, AfterDequeue
<1>8. CASE TakeTask(p)
  <2>1. Popped(p, cursor[p].qid) \in Levels
    <3>1. 0 \in Levels
      BY BoundAssumption DEF Levels
    <3> QED BY <1>8, <3>1, QueueOps DEF TakeTask
  <2> QED BY <1>8, <2>1 DEF TakeTask
<1>9. CASE FinishTask(p) \/ SpinPoll(p)
  BY <1>9 DEF FinishTask, SpinPoll, StartDequeue
<1>10. CASE Arrive(p) \/ SpinExit(p) \/ Leave(p)
  BY <1>10 DEF Arrive, SpinExit, Leave
<1> QED BY <1>1, <1>2, <1>3, <1>4, <1>5, <1>6, <1>7, <1>8, <1>9, <1>10 DEF Step

-----------------------------------------------------------------------------
(* When all processes are inside the barrier they are at the same call.    *)
LEMMA Agreement ==
  ASSUME TypeOK, InStep, VerdictStable, \A p \in Procs : pc[p] \in AtBarrier
  PROVE  /\ \A p, r \in Procs : pc[p] = pc[r] /\ stage[p] = stage[r]
         /\ \A p \in Procs : pc[p] # "bar" => stage[p] = "ray"
<1>1. \A p \in Procs : pc[p] \in {"gather", "bar", "sync"}
  BY DEF AtBarrier
<1>2. \A p \in Procs : /\ pc[p] = "sync" => converged /\ stage[p] = "ray"
                       /\ pc[p] = "gather" => ~converged /\ stage[p] = "ray"
  BY DEF VerdictStable
<1>3. \A p, r \in Procs : /\ stage[p] = stage[r]
                          /\ stage[p] = "ray" => (pc[p] = "bar" <=> pc[r] = "bar")
  BY <1>1 DEF InStep, BeforeGather
<1> QED BY <1>1, <1>2, <1>3

(* Opening the barrier sends everybody to the same place.                  *)
LEMMA Opening ==
  ASSUME TypeOK, InStep, VerdictStable, BarrierOpens
  PROVE  /\ \A p \in Procs : polling'[p] = FALSE
         /\ \A p \in Procs : cursor'[p] = [qid |-> Home(p), visit |-> 0]
         /\ UNCHANGED <<queue, task, pbar_count, task_counter, converged>>
         /\ \/ \A p \in Procs : /\ pc[p] = "gather" /\ stage[p] = "ray"
                                /\ pc'[p] = "visit" /\ stage'[p] = "ray"
            \/ \A p \in Procs : /\ pc[p] = "sync" /\ stage[p] = "ray"
                                /\ pc'[p] = "init" /\ stage'[p] = "avg"
            \/ \A p \in Procs : /\ pc[p] = "bar" /\ stage[p] \in {"model", "ray"}
                                /\ pc'[p] = "init" /\ stage'[p] = "ray"
            \/ \A p \in Procs : /\ pc[p] = "bar" /\ stage[p] = "avg"
                                /\ pc'[p] = "init" /\ stage'[p] = "norm"
            \/ \A p \in Procs : /\ pc[p] = "bar" /\ stage[p] = "norm"
                                /\ pc'[p] = "done" /\ stage'[p] = "norm"
<1>1. \A p \in Procs : /\ pc'[p] = AfterBarrier(p).pc /\ stage'[p] = AfterBarrier(p).stage
                       /\ polling'[p] = FALSE
                       /\ cursor'[p] = [qid |-> Home(p), visit |-> 0]
  BY DEF BarrierOpens
<1>2. UNCHANGED <<queue, task, pbar_count, task_counter, converged>>
  BY DEF BarrierOpens
<1>3. /\ \A p, r \in Procs : pc[p] = pc[r] /\ stage[p] = stage[r]
      /\ \A p \in Procs : pc[p] # "bar" => stage[p] = "ray"
      /\ \A p \in Procs : pc[p] \in {"gather", "bar", "sync"} /\ stage[p] \in Stages
  BY Agreement DEF BarrierOpens, AtBarrier, TypeOK
<1>4. \A p \in Procs :
        /\ pc[p] = "gather" => pc'[p] = "visit" /\ stage'[p] = "ray"
        /\ pc[p] = "sync" => pc'[p] = "init" /\ stage'[p] = "avg"
        /\ pc[p] = "bar" /\ stage[p] \in {"model", "ray"} => pc'[p] = "init" /\ stage'[p] = "ray"
        /\ pc[p] = "bar" /\ stage[p] = "avg" => pc'[p] = "init" /\ stage'[p] = "norm"
        /\ pc[p] = "bar" /\ stage[p] = "norm" => pc'[p] = "done" /\ stage'[p] = "norm"
  BY <1>1 DEF AfterBarrier
<1>5. PICK z \in Procs : TRUE
  BY ProcsFinite
<1>6. CASE pc[z] = "gather"
  <2>1. \A p \in Procs : pc[p] = "gather" /\ stage[p] = "ray"
    BY <1>3, <1>6
  <2> QED BY <1>1, <1>2, <1>4, <2>1
<1>7. CASE pc[z] = "sync"
  <2>1. \A p \in Procs : pc[p] = "sync" /\ stage[p] = "ray"
    BY <1>3, <1>7
  <2> QED BY <1>1, <1>2, <1>4, <2>1
<1>8. CASE pc[z] = "bar"
  <2>1. \A p \in Procs : pc[p] = "bar" /\ stage[p] = stage[z] /\ stage[z] \in Stages
    BY <1>3, <1>8
  <2>2. CASE stage[z] \in {"model", "ray"}
    BY <1>1, <1>2, <1>4, <2>1, <2>2
  <2>3. CASE stage[z] = "avg"
    <3>1. \A p \in Procs : /\ pc[p] = "bar" /\ stage[p] = "avg"
                           /\ pc'[p] = "init" /\ stage'[p] = "norm"
      BY <1>4, <2>1, <2>3
    <3> QED BY <1>1, <1>2, <3>1
  <2>4. CASE stage[z] = "norm"
    <3>1. \A p \in Procs : /\ pc[p] = "bar" /\ stage[p] = "norm"
                           /\ pc'[p] = "done" /\ stage'[p] = "norm"
      BY <1>4, <2>1, <2>4
    <3> QED BY <1>1, <1>2, <3>1
  <2> QED BY <2>1, <2>2, <2>3, <2>4 DEF Stages
<1> QED BY <1>3, <1>6, <1>7, <1>8

(* The polling barrier's counter.                                          *)
LEMMA PbarStep ==
  ASSUME TypeOK, PbarAccounting, InStep, VerdictStable, [Next]_vars
  PROVE  PbarAccounting'
<1>1. ASSUME NEW p \in Procs, Step(p), pc[p] = "arrive"
      PROVE  PbarAccounting'
  <2>1. /\ pc'[p] = "spin"
        /\ pbar_count' = (IF pbar_count >= N THEN 0 ELSE pbar_count) + 1
    BY <1>1, StepMoves
  <2>2. CountedProcs' = CountedProcs \cup {p} /\ p \notin CountedProcs
    BY <1>1, <2>1, StepLocal DEF CountedProcs, Counted
  <2>3. /\ IsFiniteSet(CountedProcs) /\ Cardinality(CountedProcs) \in 0 .. N
        /\ Cardinality(CountedProcs) # N
    BY <2>2, ProcsFinite DEF CountedProcs
  <2>4. Cardinality(CountedProcs') = Cardinality(CountedProcs) + 1
    BY <2>2, <2>3, FS_AddElement
  <2>5. CountedProcs = {} => Cardinality(CountedProcs) = 0
    BY FS_EmptySet
  <2> QED BY <2>1, <2>3, <2>4, <2>5, NAssumption DEF PbarAccounting
<1>2. ASSUME NEW p \in Procs, Step(p), pc[p] = "leave"
      PROVE  PbarAccounting'
  <2>1. pc'[p] = "work" /\ pbar_count' = pbar_count - 1
    BY <1>2, StepMoves
  <2>2. CountedProcs' = CountedProcs \ {p} /\ p \in CountedProcs
    BY <1>2, <2>1, StepLocal DEF CountedProcs, Counted
  <2>3. pbar_count = Cardinality(CountedProcs)
    BY <1>2, CountPositive DEF Counted
  <2>4. IsFiniteSet(CountedProcs)
    BY ProcsFinite DEF CountedProcs
  <2>5. Cardinality(CountedProcs') = Cardinality(CountedProcs) - 1
    BY <2>2, <2>4, FS_RemoveElement
  <2> QED BY <2>1, <2>3, <2>5 DEF PbarAccounting
<1>3. ASSUME NEW p \in Procs, Step(p), pc[p] # "arrive", pc[p] # "leave"
      PROVE  PbarAccounting'
  <2>1. pbar_count' = pbar_count
    BY <1>3, StepMoves
  <2>2. Counted(p)' <=> Counted(p)
    BY <1>3, StepMoves DEF Counted, TypeOK
  <2>3. \A r \in Procs \ {p} : Counted(r)' <=> Counted(r)
    BY <1>3, StepLocal DEF Counted
  <2>4. CountedProcs' = CountedProcs
    BY <2>2, <2>3 DEF CountedProcs
  <2> QED BY <2>1, <2>4 DEF PbarAccounting
<1>4. ASSUME BarrierOpens
      PROVE  PbarAccounting'
  <2>1. pbar_count' = pbar_count /\ CountedProcs' = {}
    BY <1>4, Opening DEF CountedProcs, Counted
  <2>2. CountedProcs = {} \/ CountedProcs = Procs
    BY <1>4, Opening DEF CountedProcs, Counted
  <2>3. CASE CountedProcs = {}
    BY <2>1, <2>3 DEF PbarAccounting
  <2>4. CASE CountedProcs = Procs
    BY <2>1, <2>4, ProcsFinite DEF PbarAccounting
  <2> QED BY <2>2, <2>3, <2>4
<1>5. CASE UNCHANGED vars
  BY <1>5 DEF vars, PbarAccounting, CountedProcs, Counted
<1> QED BY <1>1, <1>2, <1>3, <1>4, <1>5 DEF Next, Terminating

(* The counter of check_task_counter.                                      *)
LEMMA CallerStep ==
  ASSUME TypeOK, CallerCount, InStep, VerdictStable, [Next]_vars
  PROVE  CallerCount'
<1>1. ASSUME NEW p \in Procs, Step(p), pc[p] = "init"
      PROVE  CallerCount'
  <2>1. pc'[p] # "init" /\ CheckTaskCounter
    BY <1>1, StepMoves
  <2>2. Callers' = Callers \cup {p} /\ p \notin Callers
    BY <1>1, <2>1, StepLocal DEF Callers
  <2>3. IsFiniteSet(Callers) /\ Cardinality(Callers) \in 0 .. N
    BY ProcsFinite DEF Callers
  <2>4. Cardinality(Callers') = Cardinality(Callers) + 1
    BY <2>2, <2>3, FS_AddElement
  <2>5. Callers' \in SUBSET Procs
    BY DEF Callers
  <2>6. Callers' = Procs <=> Cardinality(Callers') = N
    BY <2>5, ProcsFinite
  <2>7. task_counter = Cardinality(Callers)
    BY <2>2 DEF CallerCount
  <2>8. Cardinality(Callers') \in 0 .. N
    BY <2>5, ProcsFinite
  <2> QED BY <2>1, <2>3, <2>4, <2>6, <2>7, <2>8, NAssumption DEF CallerCount, CheckTaskCounter
<1>2. ASSUME NEW p \in Procs, Step(p), pc[p] # "init"
      PROVE  CallerCount'
  <2>1. pc'[p] # "init" /\ task_counter' = task_counter
    BY <1>2, StepMoves
  <2>2. Callers' = Callers
    BY <1>2, <2>1, StepLocal DEF Callers
  <2> QED BY <2>1, <2>2 DEF CallerCount
<1>3. ASSUME BarrierOpens
      PROVE  CallerCount'
  <2>1. Callers = Procs /\ (Callers' = {} \/ Callers' = Procs) /\ task_counter' = task_counter
    BY <1>3, Opening DEF Callers
  <2> QED BY <2>1, FS_EmptySet, ProcsFinite DEF CallerCount
<1>4. CASE UNCHANGED vars
  BY <1>4 DEF vars, CallerCount, Callers
<1> QED BY <1>1, <1>2, <1>3, <1>4 DEF Next, Terminating

(* Processes stay in the same phase.                                       *)
LEMMA InStepStep ==
  ASSUME TypeOK, CallerCount, InStep, VerdictStable, [Next]_vars
  PROVE  InStep' /\ VerdictStable'
<1>1. ASSUME NEW p \in Procs, Step(p)
      PROVE  InStep' /\ VerdictStable'
  <2>1. /\ stage' = stage
        /\ \A r \in Procs \ {p} : pc'[r] = pc[r]
    BY <1>1, StepLocal
  <2>2. /\ stage[p] = "ray" => (pc'[p] \in BeforeGather <=> pc[p] \in BeforeGather)
        /\ pc'[p] \in {"gather", "sync"} => stage[p] = "ray"
        /\ pc'[p] = "sync" => converged'
        /\ pc'[p] = "feeding" => stage[p] # "ray"
        /\ pc'[p] = "gather" \/ (pc'[p] = "feed" /\ stage[p] = "ray") => ~converged'
    <3>1. CASE pc[p] = "init" /\ stage[p] = "ray" /\ FirstCaller
      BY <1>1, <3>1, StepMoves DEF BeforeGather
    <3>2. CASE pc[p] = "init" /\ stage[p] = "ray" /\ ~FirstCaller
      BY <1>1, <3>2, StepMoves DEF BeforeGather, TypeOK
    <3>3. CASE ~(pc[p] = "init" /\ stage[p] = "ray")
      <4>1. converged' = converged
        BY <1>1, <3>3, StepMoves
      <4> QED BY <1>1, <3>3, <4>1, StepMoves DEF BeforeGather, VerdictStable
    <3> QED BY <3>1, <3>2, <3>3
  <2>3. \/ converged' = converged
        \/ \A r \in Procs : pc[r] = "init"
    <3>1. CASE pc[p] = "init" /\ FirstCaller
      <4>1. p \notin Callers /\ task_counter = 0
        BY <3>1 DEF Callers, FirstCaller
      <4>2. IsFiniteSet(Callers) /\ Cardinality(Callers) = 0
        BY <4>1, ProcsFinite DEF CallerCount, Callers
      <4>3. Callers = {}
        BY <4>2, FS_EmptySet
      <4> QED BY <4>3 DEF Callers
    <3>2. CASE ~(pc[p] = "init" /\ FirstCaller)
      BY <1>1, <3>2, StepMoves
    <3> QED BY <3>1, <3>2
  <2>4. InStep'
    BY <2>1, <2>2 DEF InStep
  <2>5. VerdictStable'
    BY <2>1, <2>2, <2>3 DEF VerdictStable
  <2> QED BY <2>4, <2>5
<1>2. ASSUME BarrierOpens
      PROVE  InStep' /\ VerdictStable'
  <2>1. InStep'
    BY <1>2, Opening DEF InStep, BeforeGather
  <2>2. VerdictStable'
    BY <1>2, Opening DEF VerdictStable
  <2> QED BY <2>1, <2>2
<1>3. CASE UNCHANGED vars
  BY <1>3 DEF vars, InStep, VerdictStable
<1> QED BY <1>1, <1>2, <1>3 DEF Next, Terminating

(* Tasks are held where they are used, and searches stay in order.         *)
LEMMA HeldStep ==
  ASSUME TypeOK, InStep, VerdictStable, HeldWhereUsed, [Next]_vars
  PROVE  HeldWhereUsed'
<1>1. ASSUME NEW p \in Procs, Step(p)
      PROVE  HeldWhereUsed'
  <2>1. \A r \in Procs \ {p} : pc'[r] = pc[r] /\ task'[r] = task[r]
    BY <1>1, StepLocal
  <2>2. NoTask \notin Levels
    BY BoundAssumption DEF Levels, NoTask
  <2>3. task'[p] # NoTask <=> pc'[p] \in {"work", "create", "leave"}
    BY <1>1, <2>2, StepMoves DEF HeldWhereUsed, TypeOK
  <2> QED BY <2>1, <2>3 DEF HeldWhereUsed
<1>2. ASSUME BarrierOpens
      PROVE  HeldWhereUsed'
  BY <1>2, Opening DEF HeldWhereUsed
<1>3. CASE UNCHANGED vars
  BY <1>3 DEF vars, HeldWhereUsed
<1> QED BY <1>1, <1>2, <1>3 DEF Next, Terminating

LEMMA SearchStep ==
  ASSUME TypeOK, TypeOK', InStep, VerdictStable, SearchInOrder, [Next]_vars
  PROVE  SearchInOrder'
<1>0. \A p \in Procs : QueueAt(Home(p), 0) = Home(p)
  BY HomeType, NAssumption DEF QueueAt, Queues
<1>1. ASSUME NEW p \in Procs, Step(p)
      PROVE  SearchInOrder'
  <2>1. \A r \in Procs \ {p} : pc'[r] = pc[r] /\ cursor'[r] = cursor[r]
    BY <1>1, StepLocal
  <2>2. CASE /\ pc[p] = "visit" /\ pc'[p] = "visit" /\ cursor[p].visit < NQ
             /\ cursor'[p] = [qid |-> NextQueue(cursor[p].qid, cursor[p].visit + 1),
                              visit |-> cursor[p].visit + 1]
    <3>1. cursor[p].visit \in 0 .. NQ - 1 /\ cursor[p].qid = QueueAt(Home(p), cursor[p].visit)
      BY <2>2, NAssumption DEF SearchInOrder, TypeOK
    <3>2. cursor[p].visit + 1 < NQ =>
            cursor'[p].qid = QueueAt(Home(p), cursor[p].visit + 1)
      BY <2>2, <3>1, HomeType, NextQueueAt
    <3> QED BY <2>1, <2>2, <3>2 DEF SearchInOrder
  <2>3. CASE pc'[p] = "visit" /\ cursor'[p] = [qid |-> Home(p), visit |-> 0]
    BY <1>0, <2>1, <2>3 DEF SearchInOrder
  <2>4. CASE pc'[p] # "visit"
    BY <2>1, <2>4 DEF SearchInOrder
  <2> QED BY <1>1, <2>2, <2>3, <2>4, StepMoves
<1>2. ASSUME BarrierOpens
      PROVE  SearchInOrder'
  <2>1. \A p \in Procs : cursor'[p] = [qid |-> Home(p), visit |-> 0]
    BY <1>2, Opening
  <2> SUFFICES ASSUME NEW p \in Procs
               PROVE  cursor'[p].qid = QueueAt(Home(p), cursor'[p].visit)
    BY DEF SearchInOrder
  <2>2. cursor'[p].visit = 0 /\ cursor'[p].qid = Home(p)
    <3>1. cursor'[p] = [qid |-> Home(p), visit |-> 0]
      BY <2>1
    <3> QED BY <3>1 DEF TypeOK
  <2> QED BY <1>0, <2>2
<1>3. CASE UNCHANGED vars
  BY <1>3 DEF vars, SearchInOrder
<1> QED BY <1>1, <1>2, <1>3 DEF Next, Terminating

(* A queued task stays covered.  The interesting step is TakeTask: it may  *)
(* empty the queue another process is about to lock, but then the taker    *)
(* holds a task and will search all queues again.                          *)
LEMMA CoveredStep ==
  ASSUME TypeOK, InStep, VerdictStable, HeldWhereUsed, SearchInOrder, TaskCovered,
         [Next]_vars
  PROVE  TaskCovered'
<1>0. \A p \in Procs, q \in Queues :
        pc'[p] = "visit" /\ cursor'[p] = [qid |-> Home(p), visit |-> 0] => WillSee(p, q)'
  BY HomeType, SearchIsComplete DEF WillSee
<1>1. ASSUME NEW p \in Procs, Step(p)
      PROVE  TaskCovered'
  <2>0. /\ \A r \in Procs \ {p} : pc'[r] = pc[r] /\ cursor'[r] = cursor[r]
        /\ \A r \in Procs : cursor[r].qid \in Queues /\ cursor[r].visit \in 0 .. NQ
    BY <1>1, StepLocal DEF TypeOK
  \* p itself covers every queue after the step
  <2>1. CASE \/ pc'[p] \in {"feed", "feeding", "work", "create", "leave", "gather"}
             \/ pc'[p] = "visit" /\ cursor'[p] = [qid |-> Home(p), visit |-> 0]
    <3>1. \A q \in Queues : WillSee(p, q)'
      BY <1>0, <2>1 DEF WillSee
    <3> QED BY <3>1 DEF TaskCovered
  \* p saw one queue empty and goes on
  <2>2. CASE /\ pc[p] = "visit" /\ pc'[p] = "visit" /\ cursor[p].visit < NQ
             /\ queue[cursor[p].qid] = <<>> /\ queue' = queue
             /\ cursor'[p] = [qid |-> NextQueue(cursor[p].qid, cursor[p].visit + 1),
                              visit |-> cursor[p].visit + 1]
    <3>1. \A r \in Procs \ {p}, q \in Queues : WillSee(r, q) => WillSee(r, q)'
      BY <2>0, <2>2 DEF WillSee
    <3>2. ASSUME NEW q \in Queues, queue[q] # <<>>, WillSee(p, q)
          PROVE  WillSee(p, q)'
      <4>1. cursor[p].qid = QueueAt(Home(p), cursor[p].visit) /\ cursor[p].qid # q
        BY <2>2, <3>2 DEF SearchInOrder
      <4>2. PICK k \in cursor[p].visit .. NQ - 1 : QueueAt(Home(p), k) = q
        BY <2>2, <3>2 DEF WillSee
      <4>3. k \in cursor[p].visit + 1 .. NQ - 1
        BY <2>0, <4>1, <4>2, NAssumption
      <4> QED BY <2>2, <4>2, <4>3 DEF WillSee
    <3> QED BY <2>2, <3>1, <3>2 DEF TaskCovered
  \* p is about to take a task that is there
  <2>3. CASE pc'[p] = "take" /\ cursor' = cursor /\ queue[cursor[p].qid] # <<>> /\ queue' = queue
    <3>1. \A q \in Queues : WillSee(p, q)'
      BY <2>3 DEF WillSee
    <3> QED BY <3>1 DEF TaskCovered
  \* p did not cover anything, and touches no queue
  <2>4. CASE /\ \/ pc[p] \in {"init", "arrive", "spin"}
                \/ pc[p] = "visit" /\ cursor[p].visit = NQ
                \/ pc[p] = "take" /\ queue[cursor[p].qid] = <<>>
             /\ queue' = queue
    <3>1. \A q \in Queues : ~WillSee(p, q)
      BY <2>4, NAssumption DEF WillSee
    <3>2. \A r \in Procs \ {p}, q \in Queues : WillSee(r, q) => WillSee(r, q)'
      BY <2>0, <2>4 DEF WillSee
    <3> QED BY <2>4, <3>1, <3>2 DEF TaskCovered
  <2> QED BY <1>1, <2>1, <2>2, <2>3, <2>4, StepMoves
<1>2. ASSUME BarrierOpens
      PROVE  TaskCovered'
  <2>1. queue' = queue /\ \A p \in Procs : cursor'[p] = [qid |-> Home(p), visit |-> 0]
    BY <1>2, Opening
  <2>2. CASE \A p \in Procs : pc'[p] = "visit"
    BY <1>0, <2>1, <2>2, ProcsFinite DEF TaskCovered
  <2>3. CASE \A p \in Procs : pc[p] \in {"sync", "bar"}
    <3>1. \A p \in Procs, q \in Queues : ~WillSee(p, q)
      BY <2>3 DEF WillSee
    <3> QED BY <2>1, <3>1 DEF TaskCovered
  <2> QED BY <1>2, <2>2, <2>3, Opening
<1>3. CASE UNCHANGED vars
  BY <1>3 DEF vars, TaskCovered, WillSee
<1> QED BY <1>1, <1>2, <1>3 DEF Next, Terminating

-----------------------------------------------------------------------------
(* The inductive invariant holds in every behaviour.                       *)
THEOREM Invariance == Spec => []IndInv
<1>1. IndInv /\ [Next]_vars => IndInv'
  <2> SUFFICES ASSUME IndInv, [Next]_vars
               PROVE  IndInv'
    OBVIOUS
  <2>1. TypeOK'
    BY TypeStep DEF IndInv
  <2>2. PbarAccounting' /\ CallerCount' /\ InStep' /\ VerdictStable'
    BY PbarStep, CallerStep, InStepStep DEF IndInv
  <2>3. HeldWhereUsed' /\ SearchInOrder' /\ TaskCovered'
    BY <2>1, HeldStep, SearchStep, CoveredStep DEF IndInv
  <2> QED BY <2>1, <2>2, <2>3 DEF IndInv
<1> QED BY InitInd, <1>1, PTL DEF Spec

(* Every variable keeps its type; in particular the counter of the polling *)
(* barrier stays between 0 and n_processors and every search stays within  *)
(* the task queues (taskman.C:105-136, 479-491).                           *)
THEOREM TypeCorrect == Spec => []TypeOK
<1>1. IndInv => TypeOK
  BY DEF IndInv
<1> QED BY Invariance, <1>1, PTL

(* pbar_count counts the processes inside the polling barrier.             *)
THEOREM Accounting == Spec => []PbarAccounting
<1>1. IndInv => PbarAccounting
  BY DEF IndInv
<1> QED BY Invariance, <1>1, PTL

(* No queued task is ever forgotten, however the thieves interleave.       *)
THEOREM Coverage == Spec => []TaskCovered
<1>1. IndInv => TaskCovered
  BY DEF IndInv
<1> QED BY Invariance, <1>1, PTL

(* No task is queued or held when all processes have arrived at the        *)
(* barrier that ends process_tasks: no work is lost between phases.        *)
THEOREM NothingLost == Spec => []NoTaskLost
<1>1. IndInv => NoTaskLost
  <2> SUFFICES ASSUME IndInv, \A p \in Procs : pc[p] \in {"bar", "sync"}
               PROVE  /\ \A q \in Queues : queue[q] = <<>>
                      /\ \A p \in Procs : task[p] = NoTask
    BY DEF NoTaskLost
  <2>1. \A p \in Procs, q \in Queues : ~WillSee(p, q)
    BY DEF WillSee
  <2> QED BY <2>1 DEF IndInv, TaskCovered, HeldWhereUsed
<1> QED BY Invariance, <1>1, PTL

(* All processes are at the same BARRIER call whenever it opens.           *)
THEOREM SameBarrier == Spec => []BarrierAgreement
<1>1. IndInv => BarrierAgreement
  BY Agreement DEF IndInv, BarrierAgreement
<1> QED BY Invariance, <1>1, PTL
=============================================================================
