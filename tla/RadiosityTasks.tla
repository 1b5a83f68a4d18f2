--------------------------- MODULE RadiosityTasks ---------------------------
(***************************************************************************)
(* The task scheduler of radiosity: the per-process task queues with       *)
(* stealing and the polling barrier of process_tasks (taskman.C), driven   *)
(* by the phases of the worker radiosity() (rad_main.C).                   *)
(*                                                                         *)
(* One action per lock-protected section or unlocked read of shared data.  *)
(* A section between LOCK and UNLOCK is one action, because everything it  *)
(* touches is only written under that lock; the reads the code does        *)
(* without the lock (n_tasks in dequeue_task and taskq_too_long,           *)
(* pbar_count in the spin loop) are actions of their own, so that what was *)
(* read may be stale when it is used.  A task is its level: how many       *)
(* generations of subtasks it may still create.                            *)
(***************************************************************************)
EXTENDS Integers, Sequences, FiniteSets

CONSTANTS
    N,              \* n_processors
    NQ,             \* n_taskqueues
    TasksPerQueue,  \* n_tasks_per_queue, beyond which tasks run inline
    MaxLevel,       \* bound: generations of subtasks
    MaxTasks,       \* bound: tasks created in one run
    MaxIter         \* bound: ray-gathering iterations before convergence

ASSUME NAssumption == N \in Nat \ {0} /\ NQ \in Nat \ {0}
ASSUME BoundAssumption ==
    TasksPerQueue \in Nat /\ MaxLevel \in Nat /\ MaxTasks \in Nat /\ MaxIter \in Nat

Procs  == 0 .. N - 1
Queues == 0 .. NQ - 1
Levels == 0 .. MaxLevel

\* init_taskq and assign_taskq deal the queues out in turn.
Home(p) == p % NQ

Stages == {"model", "ray", "avg", "norm"}

VARIABLES
    queue,           \* the task list of each Task_Queue, top first
    pc, stage,       \* where each process is in radiosity() / process_tasks()
    cursor,          \* qid and visit_count of its current dequeue_task
    polling,         \* is that dequeue_task the one of the spin loop?
    task,            \* the task it holds, a level, or -1
    pbar_count, task_counter, converged, iteration_count,
    created          \* tasks created so far, for the bound MaxTasks

vars == <<queue, pc, stage, cursor, polling, task, pbar_count, task_counter,
          converged, iteration_count, created>>

NoTask == -1

AtBarrier == {"gather", "bar", "sync"}   \* lines 861, taskman 138, 870
PCs == {"init", "feed", "feeding", "visit", "take", "work", "create", "leave", "arrive",
        "spin", "done"}
         \cup AtBarrier

TypeOK ==
    /\ queue \in [Queues -> Seq(Levels)]
    /\ pc \in [Procs -> PCs]
    /\ stage \in [Procs -> Stages]
    /\ cursor \in [Procs -> [qid : Queues, visit : 0 .. NQ]]
    /\ polling \in [Procs -> BOOLEAN]
    /\ task \in [Procs -> Levels \cup {NoTask}]
    /\ \A p \in Procs : pc[p] = "create" => task[p] > 0
    /\ pbar_count \in 0 .. N
    /\ task_counter \in 0 .. N - 1
    /\ converged \in BOOLEAN
    /\ iteration_count \in Nat \cup {-1}
    /\ created \in 0 .. MaxTasks

Init ==
    /\ queue = [q \in Queues |-> <<>>]
    /\ pc = [p \in Procs |-> "init"]
    /\ stage = [p \in Procs |-> "model"]
    /\ cursor = [p \in Procs |-> [qid |-> Home(p), visit |-> 0]]
    /\ polling = [p \in Procs |-> FALSE]
    /\ task = [p \in Procs |-> NoTask]
    /\ pbar_count = 0
    /\ task_counter = 0
    /\ converged = FALSE
    /\ iteration_count = -1
    /\ created = 0

-----------------------------------------------------------------------------
(* enqueue_task: TASK_APPEND goes to the tail, TASK_INSERT to the top.     *)
Enqueued(q, lvl, mode) ==
    [queue EXCEPT ![q] = IF mode = "append" THEN Append(@, lvl) ELSE <<lvl>> \o @]

(* The owner pops the top, a thief the tail.                               *)
Popped(p, q)    == IF q = Home(p) THEN Head(queue[q]) ELSE queue[q][Len(queue[q])]
Remaining(p, q) == IF q = Home(p) THEN Tail(queue[q])
                                  ELSE SubSeq(queue[q], 1, Len(queue[q]) - 1)

TooLong(q) == Len(queue[q]) > TasksPerQueue      \* taskq_too_long

\* Mutant: a search that only goes forward.
NextQueueForward(qid, visit) ==
    IF qid + visit >= NQ THEN (qid + visit) % NQ ELSE qid + visit

(* The queue after the visit-th one: back 1, forward 2, back 3, ...        *)
NextQueue(qid, visit) ==
    LET next == IF visit % 2 = 1 THEN qid - visit ELSE qid + visit
    IN  IF next < 0 THEN next + NQ ELSE IF next >= NQ THEN next - NQ ELSE next

StartDequeue(p) ==
    /\ pc' = [pc EXCEPT ![p] = "visit"]
    /\ cursor' = [cursor EXCEPT ![p] = [qid |-> Home(p), visit |-> 0]]

-----------------------------------------------------------------------------
(* check_task_counter: the first of the N callers is told so, the last one *)
(* resets the counter for the next phase.                                  *)
FirstCaller == task_counter = 0
CheckTaskCounter ==
    task_counter' = IF task_counter + 1 >= N THEN 0 ELSE task_counter + 1

(* init_modeling_tasks, init_radavg_tasks: the first caller creates the    *)
(* tasks; the others go straight on to process_tasks.                      *)
InitTasks(p) ==
    /\ pc[p] = "init" /\ stage[p] # "ray"
    /\ CheckTaskCounter
    /\ IF FirstCaller
       THEN pc' = [pc EXCEPT ![p] = "feed"] /\ UNCHANGED cursor
       ELSE StartDequeue(p)
    /\ polling' = [polling EXCEPT ![p] = FALSE]
    /\ UNCHANGED <<queue, stage, task, pbar_count, converged, iteration_count, created>>

\* Mutant: a later caller does not look at the verdict.
InitRayTasksStale(p) ==
    /\ pc[p] = "init" /\ stage[p] = "ray"
    /\ CheckTaskCounter
    /\ \/ /\ FirstCaller
          /\ \E conv \in BOOLEAN :
               /\ iteration_count + 1 >= MaxIter => conv
               /\ converged' = conv
               /\ pc' = [pc EXCEPT ![p] = IF conv THEN "sync" ELSE "feed"]
          /\ iteration_count' = iteration_count + 1
       \/ /\ ~FirstCaller
          /\ pc' = [pc EXCEPT ![p] = "gather"]
          /\ UNCHANGED <<converged, iteration_count>>
    /\ UNCHANGED <<queue, stage, cursor, polling, task, pbar_count, created>>

(* init_ray_tasks up to the UNLOCK of avg_radiosity_lock: the first caller *)
(* decides convergence for everybody.  The radiosity values are abstracted *)
(* to their verdict, which is "converged" at the latest in iteration       *)
(* MaxIter.                                                                *)
InitRayTasks(p) ==
    /\ pc[p] = "init" /\ stage[p] = "ray"
    /\ CheckTaskCounter
    /\ \/ /\ FirstCaller
          /\ \E conv \in BOOLEAN :
               /\ iteration_count + 1 >= MaxIter => conv
               /\ converged' = conv
               /\ pc' = [pc EXCEPT ![p] = IF conv THEN "sync" ELSE "feed"]
          /\ iteration_count' = iteration_count + 1
       \/ /\ ~FirstCaller
          /\ pc' = [pc EXCEPT ![p] = IF converged THEN "sync" ELSE "gather"]
          /\ UNCHANGED <<converged, iteration_count>>
    /\ UNCHANGED <<queue, stage, cursor, polling, task, pbar_count, created>>

(* The initial tasks: ray gathering appends one per patch to a chosen      *)
(* queue, averaging inserts one per patch into a queue; modelling creates  *)
(* refinement tasks as any task does (TestQueue).                          *)
Feed(p) ==
    /\ pc[p] = "feed" /\ stage[p] # "model" /\ created < MaxTasks
    /\ \E q \in Queues :
         queue' = Enqueued(q, MaxLevel, IF stage[p] = "ray" THEN "append" ELSE "insert")
    /\ created' = created + 1
    /\ UNCHANGED <<pc, stage, cursor, polling, task, pbar_count, task_counter,
                   converged, iteration_count>>

FeedEnd(p) ==
    /\ pc[p] = "feed"
    /\ IF stage[p] = "ray"
       THEN pc' = [pc EXCEPT ![p] = "gather"] /\ UNCHANGED cursor
       ELSE StartDequeue(p)
    /\ polling' = [polling EXCEPT ![p] = FALSE]
    /\ UNCHANGED <<queue, stage, task, pbar_count, task_counter, converged,
                   iteration_count, created>>

-----------------------------------------------------------------------------
AfterDequeue(p) == IF polling[p] THEN "spin" ELSE "arrive"

(* The loop of dequeue_task: the unlocked test of n_tasks.                 *)
VisitNonEmpty(p) ==
    /\ pc[p] = "visit" /\ cursor[p].visit < NQ
    /\ queue[cursor[p].qid] # <<>>
    /\ pc' = [pc EXCEPT ![p] = "take"]
    /\ UNCHANGED <<queue, stage, cursor, polling, task, pbar_count, task_counter,
                   converged, iteration_count, created>>

VisitEmpty(p) ==
    /\ pc[p] = "visit" /\ cursor[p].visit < NQ
    /\ queue[cursor[p].qid] = <<>>
    /\ LET v == cursor[p].visit + 1
       IN  cursor' = [cursor EXCEPT ![p] = [qid |-> NextQueue(@.qid, v), visit |-> v]]
    /\ UNCHANGED <<queue, pc, stage, polling, task, pbar_count, task_counter,
                   converged, iteration_count, created>>

(* All queues were seen empty: dequeue_task returns 0.                     *)
VisitedAll(p) ==
    /\ pc[p] = "visit" /\ cursor[p].visit = NQ
    /\ pc' = [pc EXCEPT ![p] = AfterDequeue(p)]
    /\ UNCHANGED <<queue, stage, cursor, polling, task, pbar_count, task_counter,
                   converged, iteration_count, created>>

(* Under q_lock: somebody may have emptied the queue since the test, and   *)
(* then dequeue_task breaks off and returns 0 without visiting the others. *)
TakeTask(p) ==
    LET q == cursor[p].qid IN
    /\ pc[p] = "take"
    /\ queue[q] # <<>>
    /\ task' = [task EXCEPT ![p] = Popped(p, q)]
    /\ queue' = [queue EXCEPT ![q] = Remaining(p, q)]
    /\ pc' = [pc EXCEPT ![p] = IF polling[p] THEN "leave" ELSE "work"]
    /\ UNCHANGED <<stage, cursor, polling, pbar_count, task_counter, converged,
                   iteration_count, created>>

TakeNothing(p) ==
    /\ pc[p] = "take"
    /\ queue[cursor[p].qid] = <<>>
    /\ pc' = [pc EXCEPT ![p] = AfterDequeue(p)]
    /\ UNCHANGED <<queue, stage, cursor, polling, task, pbar_count, task_counter,
                   converged, iteration_count, created>>

-----------------------------------------------------------------------------
(* While it executes a task a process may create subtasks in its own       *)
(* queue.  Whether that is too long it asks without the lock; if it is,    *)
(* the subtask is part of the task.                                        *)
TestQueue(p) ==
    /\ created < MaxTasks /\ ~TooLong(Home(p))
    /\ \/ /\ pc[p] = "feed" /\ stage[p] = "model"
          /\ pc' = [pc EXCEPT ![p] = "feeding"]
       \/ /\ pc[p] = "work" /\ task[p] > 0
          /\ pc' = [pc EXCEPT ![p] = "create"]
    /\ created' = created + 1
    /\ UNCHANGED <<queue, stage, cursor, polling, task, pbar_count, task_counter,
                   converged, iteration_count>>

CreateTask(p) ==
    /\ \/ /\ pc[p] = "feeding"
          /\ queue' = Enqueued(Home(p), MaxLevel, "insert")
          /\ pc' = [pc EXCEPT ![p] = "feed"]
       \/ /\ pc[p] = "create"
          /\ queue' = Enqueued(Home(p), task[p] - 1, "insert")
          /\ pc' = [pc EXCEPT ![p] = "work"]
    /\ UNCHANGED <<stage, cursor, polling, task, pbar_count, task_counter,
                   converged, iteration_count, created>>

\* Mutant: straight to the barrier, without looking for another task.
FinishTaskNoRetry(p) ==
    /\ pc[p] = "work"
    /\ task' = [task EXCEPT ![p] = NoTask]
    /\ pc' = [pc EXCEPT ![p] = "arrive"]
    /\ UNCHANGED <<queue, stage, cursor, polling, pbar_count, task_counter, converged,
                   iteration_count, created>>

(* The task is done and freed: get the next one.                           *)
FinishTask(p) ==
    /\ pc[p] = "work"
    /\ task' = [task EXCEPT ![p] = NoTask]
    /\ polling' = [polling EXCEPT ![p] = FALSE]
    /\ StartDequeue(p)
    /\ UNCHANGED <<queue, stage, pbar_count, task_counter, converged,
                   iteration_count, created>>

(* The barrier counter: reset when it is a leftover of the last phase,     *)
(* then incremented.                                                       *)
Arrive(p) ==
    /\ pc[p] = "arrive"
    /\ pbar_count' = (IF pbar_count >= N THEN 0 ELSE pbar_count) + 1
    /\ pc' = [pc EXCEPT ![p] = "spin"]
    /\ UNCHANGED <<queue, stage, cursor, polling, task, task_counter, converged,
                   iteration_count, created>>

\* Mutant: off by one.
SpinExitOffByOne(p) ==
    /\ pc[p] = "spin" /\ pbar_count > N
    /\ pc' = [pc EXCEPT ![p] = "bar"]
    /\ UNCHANGED <<queue, stage, cursor, polling, task, pbar_count, task_counter,
                   converged, iteration_count, created>>

(* The spin loop: the counter is read without its lock.                    *)
SpinExit(p) ==
    /\ pc[p] = "spin" /\ pbar_count >= N
    /\ pc' = [pc EXCEPT ![p] = "bar"]
    /\ UNCHANGED <<queue, stage, cursor, polling, task, pbar_count, task_counter,
                   converged, iteration_count, created>>

SpinPoll(p) ==
    /\ pc[p] = "spin" /\ pbar_count < N
    /\ polling' = [polling EXCEPT ![p] = TRUE]
    /\ StartDequeue(p)
    /\ UNCHANGED <<queue, stage, task, pbar_count, task_counter, converged,
                   iteration_count, created>>

\* Mutant: goes back to work without leaving the count.
LeaveUncounted(p) ==
    /\ pc[p] = "leave"
    /\ pc' = [pc EXCEPT ![p] = "work"]
    /\ UNCHANGED <<queue, stage, cursor, polling, task, pbar_count, task_counter, converged,
                   iteration_count, created>>

(* A polled task takes the process out of the barrier again.               *)
Leave(p) ==
    /\ pc[p] = "leave"
    /\ pbar_count' = pbar_count - 1
    /\ pc' = [pc EXCEPT ![p] = "work"]
    /\ UNCHANGED <<queue, stage, cursor, polling, task, task_counter, converged,
                   iteration_count, created>>

-----------------------------------------------------------------------------
(* BARRIER(global->barrier): the three calls in the worker share one       *)
(* barrier object.  It opens once all N processes are inside it, whichever *)
(* of the calls they are in (ParmacsBarrier shows that the pthreads macro  *)
(* does that).                                                             *)
AfterBarrier(p) ==
    CASE pc[p] = "gather" -> [pc |-> "visit", stage |-> "ray"]
      [] pc[p] = "sync"   -> [pc |-> "init", stage |-> "avg"]
      [] pc[p] = "bar" /\ stage[p] \in {"model", "ray"} -> [pc |-> "init", stage |-> "ray"]
      [] pc[p] = "bar" /\ stage[p] = "avg"  -> [pc |-> "init", stage |-> "norm"]
      [] pc[p] = "bar" /\ stage[p] = "norm" -> [pc |-> "done", stage |-> "norm"]

BarrierOpens ==
    /\ \A p \in Procs : pc[p] \in AtBarrier
    /\ pc' = [p \in Procs |-> AfterBarrier(p).pc]
    /\ stage' = [p \in Procs |-> AfterBarrier(p).stage]
    /\ cursor' = [p \in Procs |-> [qid |-> Home(p), visit |-> 0]]
    /\ polling' = [p \in Procs |-> FALSE]
    /\ UNCHANGED <<queue, task, pbar_count, task_counter, converged,
                   iteration_count, created>>

Step(p) ==
    \/ InitTasks(p) \/ InitRayTasks(p) \/ Feed(p) \/ FeedEnd(p)
    \/ VisitNonEmpty(p) \/ VisitEmpty(p) \/ VisitedAll(p)
    \/ TakeTask(p) \/ TakeNothing(p) \/ TestQueue(p) \/ CreateTask(p) \/ FinishTask(p)
    \/ Arrive(p) \/ SpinExit(p) \/ SpinPoll(p) \/ Leave(p)

Finished == \A p \in Procs : pc[p] = "done"
Terminating == Finished /\ UNCHANGED vars

Next == BarrierOpens \/ Terminating \/ \E p \in Procs : Step(p)

Spec == Init /\ [][Next]_vars

(* Every thread is scheduled, and pthread_cond_broadcast wakes everybody.  *)
FairSpec == Spec /\ WF_vars(BarrierOpens) /\ \A p \in Procs : WF_vars(Step(p))

-----------------------------------------------------------------------------
(* The processes pbar_count has counted and not yet discounted.            *)
Counted(p) == \/ pc[p] \in {"spin", "leave", "bar"}
              \/ pc[p] \in {"visit", "take"} /\ polling[p]
CountedProcs == {p \in Procs : Counted(p)}

(* The polling barrier keeps its books: the counter is the number of       *)
(* processes inside, except that a full count of the previous phase        *)
(* (taskman.C:110) stays until the first arrival.  A reset while somebody  *)
(* is inside, or a missed decrement, would let processes out early or      *)
(* never.                                                                  *)
PbarAccounting ==
    \/ pbar_count = Cardinality(CountedProcs)
    \/ CountedProcs = {} /\ pbar_count = N

(* p will look at queue q before it can give up: it is creating or holding *)
(* a task and will search all queues afterwards, its search is still to    *)
(* come to q, or it is about to take a task that is really there.          *)
QueueAt(h, k) ==
    LET d == IF k % 2 = 0 THEN h + k \div 2 ELSE h - (k + 1) \div 2
    IN  IF d < 0 THEN d + NQ ELSE IF d >= NQ THEN d - NQ ELSE d

WillSee(p, q) ==
    \/ pc[p] \in {"feed", "feeding", "work", "create", "leave", "gather"}
    \/ pc[p] = "visit" /\ \E k \in cursor[p].visit .. NQ - 1 : QueueAt(Home(p), k) = q
    \/ pc[p] = "take" /\ queue[cursor[p].qid] # <<>>

(* Whatever the interleaving of thieves, no queued task is forgotten: some *)
(* process will still come to its queue (taskman.C:440-491, where a search *)
(* breaks off as soon as a queue it saw non-empty was emptied).            *)
TaskCovered ==
    \A q \in Queues : queue[q] # <<>> => \E p \in Procs : WillSee(p, q)

(* What else the inductive argument needs.  The counter of                 *)
(* check_task_counter is the number of processes that have called it in    *)
(* this phase; processes are in the same phase, and on the same side of    *)
(* the barrier in the middle of a gathering iteration; the verdict on      *)
(* convergence does not change while somebody acts on it; a task is held   *)
(* only where the code has one; the search is at the queue its visit count *)
(* says.                                                                   *)
Callers == {p \in Procs : pc[p] # "init"}
CallerCount == task_counter = IF Callers = Procs THEN 0 ELSE Cardinality(Callers)

BeforeGather == {"init", "feed", "gather", "sync"}
InStep ==
    \A p, r \in Procs :
        /\ stage[p] = stage[r]
        /\ stage[p] = "ray" => (pc[p] \in BeforeGather <=> pc[r] \in BeforeGather)

VerdictStable ==
    \A p \in Procs :
        /\ pc[p] \in {"gather", "sync"} => stage[p] = "ray"
        /\ pc[p] = "sync" => converged
        /\ pc[p] = "feeding" => stage[p] # "ray"
        /\ pc[p] = "gather" \/ (pc[p] = "feed" /\ stage[p] = "ray") => ~converged

HeldWhereUsed == \A p \in Procs : task[p] # NoTask <=> pc[p] \in {"work", "create", "leave"}

SearchInOrder ==
    \A p \in Procs : pc[p] = "visit" /\ cursor[p].visit < NQ =>
                        cursor[p].qid = QueueAt(Home(p), cursor[p].visit)

IndInv == /\ TypeOK /\ PbarAccounting /\ CallerCount /\ InStep /\ VerdictStable
          /\ HeldWhereUsed /\ SearchInOrder /\ TaskCovered

(* When the barrier of process_tasks opens (taskman.C:138) the phase is    *)
(* complete: no task is queued and nobody holds one.                       *)
NoTaskLost ==
    (\A p \in Procs : pc[p] \in {"bar", "sync"}) =>
        /\ \A q \in Queues : queue[q] = <<>>
        /\ \A p \in Procs : task[p] = NoTask

(* All processes meet at the same BARRIER call of the same phase: they all *)
(* took the same decision about convergence (rad_main.C:930-954).  If they *)
(* did not, one would run ahead of the others by a whole phase.            *)
BarrierAgreement ==
    (\A p \in Procs : pc[p] \in AtBarrier) =>
        \A p, r \in Procs : pc[p] = pc[r] /\ stage[p] = stage[r]

(* The whole computation ends: the polling barrier of every phase lets     *)
(* everybody through, and the workers leave the gathering loop together.   *)
Termination == <>Finished
=============================================================================
