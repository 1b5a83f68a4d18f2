--------------------------- MODULE ParmacsBarrier ---------------------------
(***************************************************************************)
(* The pthreads expansion of the PARMACS macros every program of the suite *)
(* is written in (m4/parmacs.pthreads.c.m4): CREATE starts P - 1 threads   *)
(* and runs the worker in the caller as well, the workers meet at a        *)
(* reusable BARRIER, WAIT_FOR_END joins the threads.                       *)
(*                                                                         *)
(* The barrier is a mutex, a condition variable, a counter of arrivals and *)
(* a cycle bit that tells the rounds apart.  pthread_cond_wait may wake    *)
(* without a broadcast, at most MaxSpurious times here.                    *)
(***************************************************************************)
EXTENDS Integers, FiniteSets

CONSTANTS
    P,           \* the second argument of BARRIER and of CREATE
    MaxRounds,   \* bound: calls of BARRIER per worker
    MaxSpurious  \* bound: wakeups without a broadcast

ASSUME ParmacsAssumption ==
    P \in Nat \ {0} /\ MaxRounds \in Nat /\ MaxSpurious \in Nat

Procs == 0 .. P - 1
Main  == 0           \* the thread that called CREATE
Nobody == P

VARIABLES
    pc,
    mutex,           \* the thread that holds the barrier's mutex, or Nobody
    counter, cycle,
    Cycle,           \* each thread's copy of cycle
    created, joined, \* loop indexes of CREATE and WAIT_FOR_END
    spurious,        \* spurious wakeups so far
    calls, returns,  \* history: calls of BARRIER begun and completed
    opened           \* history: how often the last arrival opened it

threads == <<created, joined>>
history == <<calls, returns, opened>>
vars == <<pc, mutex, counter, cycle, Cycle, threads, spurious, history>>

PCs == {"unborn", "create", "outside", "lock", "arrive", "test", "cv", "relock",
        "unlock", "join", "done"}

TypeOK ==
    /\ pc \in [Procs -> PCs]
    /\ mutex \in Procs \cup {Nobody}
    /\ counter \in 0 .. P - 1
    /\ cycle \in {0, 1}
    /\ Cycle \in [Procs -> {0, 1}]
    /\ created \in 0 .. P - 1
    /\ joined \in 0 .. P - 1
    /\ spurious \in 0 .. MaxSpurious
    /\ calls \in [Procs -> Nat]
    /\ returns \in [Procs -> Nat]
    /\ opened \in Nat

(* BARINIT and the start of CREATE.                                        *)
Init ==
    /\ pc = [p \in Procs |-> IF p = Main THEN "create" ELSE "unborn"]
    /\ mutex = Nobody
    /\ counter = 0
    /\ cycle = 0
    /\ Cycle = [p \in Procs |-> 0]
    /\ created = 0 /\ joined = 0 /\ spurious = 0
    /\ calls = [p \in Procs |-> 0]
    /\ returns = [p \in Procs |-> 0]
    /\ opened = 0

Goto(p, label) == pc' = [pc EXCEPT ![p] = label]

-----------------------------------------------------------------------------
(* CREATE: one pthread_create per step, then the caller runs the worker.   *)
Create ==
    /\ pc[Main] = "create"
    /\ IF created < P - 1
       THEN /\ created' = created + 1
            /\ Goto(created + 1, "outside")
       ELSE Goto(Main, "outside") /\ UNCHANGED created
    /\ UNCHANGED <<mutex, counter, cycle, Cycle, joined, spurious, history>>

(* The worker calls BARRIER MaxRounds times and returns.                   *)
Call(p) ==
    /\ pc[p] = "outside" /\ calls[p] < MaxRounds
    /\ calls' = [calls EXCEPT ![p] = @ + 1]
    /\ Goto(p, "lock")
    /\ UNCHANGED <<mutex, counter, cycle, Cycle, threads, spurious, returns, opened>>

WorkerReturns(p) ==
    /\ pc[p] = "outside" /\ calls[p] = MaxRounds
    /\ Goto(p, IF p = Main THEN "join" ELSE "done")
    /\ UNCHANGED <<mutex, counter, cycle, Cycle, threads, spurious, history>>

(* WAIT_FOR_END: join the threads in the order of their creation.          *)
JoinFirstOnly ==                             \* mutant: joins one thread only
    /\ pc[Main] = "join"
    /\ IF joined < P - 1 /\ joined < 1
       THEN /\ pc[joined + 1] = "done"
            /\ joined' = joined + 1
            /\ UNCHANGED pc
       ELSE Goto(Main, "done") /\ UNCHANGED joined
    /\ UNCHANGED <<mutex, counter, cycle, Cycle, created, spurious, history>>
Join ==
    /\ pc[Main] = "join"
    /\ IF joined < P - 1
       THEN /\ pc[joined + 1] = "done"
            /\ joined' = joined + 1
            /\ UNCHANGED pc
       ELSE Goto(Main, "done") /\ UNCHANGED joined
    /\ UNCHANGED <<mutex, counter, cycle, Cycle, created, spurious, history>>

-----------------------------------------------------------------------------
(* pthread_mutex_lock, on entry and inside pthread_cond_wait.              *)
LockWithIf(p) ==              \* mutant: `if' for `while', no second test
    /\ mutex = Nobody
    /\ \/ pc[p] = "lock" /\ Goto(p, "arrive")
       \/ pc[p] = "relock" /\ Goto(p, "unlock")
    /\ mutex' = p
    /\ UNCHANGED <<counter, cycle, Cycle, threads, spurious, history>>
Lock(p) ==
    /\ mutex = Nobody
    /\ \/ pc[p] = "lock" /\ Goto(p, "arrive")
       \/ pc[p] = "relock" /\ Goto(p, "test")
    /\ mutex' = p
    /\ UNCHANGED <<counter, cycle, Cycle, threads, spurious, history>>

(* pthread_cond_broadcast moves every waiter to the mutex.                 *)
Signal(p) ==                  \* mutant: pthread_cond_signal
    LET waiting == {q \in Procs : pc[q] = "cv"}
        woken   == IF waiting = {} THEN p ELSE CHOOSE q \in waiting : TRUE
    IN  pc' = [q \in Procs |-> IF q = p THEN "unlock"
                              ELSE IF q = woken THEN "relock" ELSE pc[q]]
Broadcast(p) ==
    pc' = [q \in Procs |-> IF q = p THEN "unlock"
                           ELSE IF pc[q] = "cv" THEN "relock" ELSE pc[q]]

(* The last arrival starts the next cycle and wakes the others.            *)
Open(p) ==
    /\ cycle' = 1 - cycle
    /\ counter' = 0
    /\ opened' = opened + 1
    /\ Broadcast(p)

Arrive(p) ==
    /\ pc[p] = "arrive"
    /\ Cycle' = [Cycle EXCEPT ![p] = cycle]
    /\ IF counter + 1 # P
       THEN /\ counter' = counter + 1
            /\ Goto(p, "test")
            /\ UNCHANGED <<cycle, opened>>
       ELSE Open(p)
    /\ UNCHANGED <<mutex, threads, spurious, calls, returns>>

(* The loop condition: wait (which gives the mutex up) or fall through.    *)
Test(p) ==
    /\ pc[p] = "test"
    /\ IF Cycle[p] = cycle
       THEN Goto(p, "cv") /\ mutex' = Nobody
       ELSE Goto(p, "unlock") /\ UNCHANGED mutex
    /\ UNCHANGED <<counter, cycle, Cycle, threads, spurious, history>>

SpuriousWakeup(p) ==
    /\ pc[p] = "cv" /\ spurious < MaxSpurious
    /\ spurious' = spurious + 1
    /\ Goto(p, "relock")
    /\ UNCHANGED <<mutex, counter, cycle, Cycle, threads, history>>

Unlock(p) ==
    /\ pc[p] = "unlock"
    /\ mutex' = Nobody
    /\ returns' = [returns EXCEPT ![p] = @ + 1]
    /\ Goto(p, "outside")
    /\ UNCHANGED <<counter, cycle, Cycle, threads, spurious, calls, opened>>

Terminated == \A p \in Procs : pc[p] = "done"

ThreadStep(p) ==
    \/ Call(p) \/ WorkerReturns(p)
    \/ Lock(p) \/ Arrive(p) \/ Test(p) \/ Unlock(p)

Next ==
    \/ Create \/ Join
    \/ \E p \in Procs : ThreadStep(p) \/ SpuriousWakeup(p)
    \/ Terminated /\ UNCHANGED vars

Spec == Init /\ [][Next]_vars

(* A runnable thread is scheduled again.  No wakeup is owed to a waiter,   *)
(* and no mutex need be fair: a worker locks finitely often.               *)
FairSpec ==
    /\ Spec
    /\ WF_vars(Create) /\ WF_vars(Join)
    /\ \A p \in Procs : WF_vars(ThreadStep(p))

-----------------------------------------------------------------------------
(* The barrier's promise: Barrier.tla with the same calls and returns.     *)
B == INSTANCE Barrier

(* BARRIER (lines 4-30): nobody's k-th call returns before everybody has   *)
(* made it, whatever the wakeups and the order of the locks.               *)
BarrierSpec == B!Spec

Counted == {p \in Procs : pc[p] \in {"test", "cv", "relock"} /\ Cycle[p] = cycle}

(* The counter of lines 15 and 26 is the number of threads that wait in    *)
(* the current cycle; those that still leave the previous one are not in.  *)
CountsWaiters == counter = Cardinality(Counted)

(* A thread inside the critical section owns the mutex, so that lines 14   *)
(* to 28 of two threads do not mix.                                        *)
MutexOwned == \A p \in Procs : pc[p] \in {"arrive", "test", "unlock"} <=> mutex = p

(* Where the calls of each thread stand relative to the openings.          *)
Rounds == \A p \in Procs :
    /\ pc[p] \in {"unborn", "create", "outside", "join", "done"} =>
            calls[p] = opened /\ returns[p] = opened
    /\ pc[p] \in {"lock", "arrive"} \/ p \in Counted =>
            calls[p] = opened + 1 /\ returns[p] = opened
    /\ pc[p] = "unlock" \/ (pc[p] \in {"test", "relock"} /\ p \notin Counted) =>
            calls[p] = opened /\ returns[p] = opened - 1 /\ opened > 0
    /\ pc[p] = "cv" => p \in Counted

(* WAIT_FOR_END: when the caller of CREATE has gone on, every worker has   *)
(* returned, so that the results may be read.                              *)
JoinedAll == pc[Main] = "done" => \A p \in Procs : pc[p] = "done"

(* Everybody gets through all the rounds, and the program ends.            *)
AllRoundsPass == <>Terminated

(* Which threads exist, and where only the caller of CREATE can be.        *)
Threads ==
    /\ \A p \in Procs \ {Main} :
         /\ pc[p] = "unborn" <=> p > created
         /\ pc[p] \notin {"create", "join"}
         /\ p <= joined => pc[p] = "done"
    /\ pc[Main] # "unborn"
    /\ pc[Main] = "done" => joined = P - 1

(* The inductive invariant of the proof.                                   *)
IndInv == TypeOK /\ MutexOwned /\ CountsWaiters /\ Rounds /\ Threads
=============================================================================
