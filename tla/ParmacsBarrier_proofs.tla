----------------------- MODULE ParmacsBarrier_proofs -----------------------
(***************************************************************************)
(* Proofs about ParmacsBarrier, for every number of threads, of calls and  *)
(* of spurious wakeups: its invariants, and that it implements Barrier.    *)
(*                                                                         *)
(* The argument.  CountsWaiters makes the last arrival (counter + 1 = P)   *)
(* the moment when all other threads wait in the current cycle.  Rounds    *)
(* then says that each of them has begun its (opened + 1)-th call, so that *)
(* flipping the cycle bit lets go exactly those whose peers are all there, *)
(* and that a thread which still leaves the cycle before is not counted.   *)
(***************************************************************************)
EXTENDS ParmacsBarrier, TLAPS, FiniteSetTheorems

LEMMA ProcsFinite ==
  /\ IsFiniteSet(Procs) /\ Cardinality(Procs) = P
  /\ Main \in Procs /\ Nobody \notin Procs /\ P \in Nat \ {0}
  /\ Procs \subseteq Nat
  BY FS_Interval, ParmacsAssumption DEF Procs, Main, Nobody

LEMMA CountedFinite ==
  IsFiniteSet(Counted) /\ Cardinality(Counted) \in Nat
  BY ProcsFinite, FS_Subset, FS_CardinalityType DEF Counted

(* If P - 1 threads are counted and p is not, all the others are.          *)
LEMMA LastArrival ==
  ASSUME NEW p \in Procs, p \notin Counted, Cardinality(Counted) = P - 1
  PROVE  \A q \in Procs \ {p} : q \in Counted
<1>1. IsFiniteSet(Procs \ {p}) /\ Cardinality(Procs \ {p}) = P - 1
  BY ProcsFinite, FS_RemoveElement
<1>2. Counted \subseteq Procs \ {p}
  BY DEF Counted
<1> QED
  BY <1>1, <1>2, FS_Subset

LEMMA InitInd == Init => IndInv
<1> SUFFICES ASSUME Init PROVE IndInv
  OBVIOUS
<1>1. TypeOK
  BY ProcsFinite, ParmacsAssumption DEF Init, TypeOK, PCs
<1>2. Counted = {}
  BY DEF Init, Counted
<1>3. CountsWaiters
  BY <1>2, FS_EmptySet DEF Init, CountsWaiters
<1>4. MutexOwned
  BY ProcsFinite DEF Init, MutexOwned
<1>5. Rounds
  BY <1>2 DEF Init, Rounds
<1>6. Threads
  BY ParmacsAssumption DEF Init, Threads, Procs, Main
<1> QED
  BY <1>1, <1>3, <1>4, <1>5, <1>6 DEF IndInv

(* One lemma per action: it preserves the inductive invariant.             *)
LEMMA CreateInd == IndInv /\ Create => IndInv'
<1> SUFFICES ASSUME IndInv, Create PROVE IndInv'
  OBVIOUS
<1> USE DEF IndInv
<1> DEFINE p == IF created < P - 1 THEN created + 1 ELSE Main
<1>1. p \in Procs /\ pc[p] \in {"unborn", "create"}
  <2>1. CASE created < P - 1
    <3>1. created + 1 \in Procs \ {Main} /\ created + 1 > created
      BY <2>1, ProcsFinite DEF TypeOK, Procs, Main
    <3> QED
      BY <2>1, <3>1 DEF Threads
  <2>2. CASE ~(created < P - 1)
    BY <2>2, ProcsFinite DEF Create
  <2> QED
    BY <2>1, <2>2
<1>2. pc' = [pc EXCEPT ![p] = "outside"]
  BY DEF Create, Goto
<1> HIDE DEF p
<1>3. TypeOK'
  <2>1. created' \in 0 .. P - 1
    BY ProcsFinite DEF TypeOK, Create
  <2>2. pc' \in [Procs -> PCs]
    BY <1>1, <1>2 DEF TypeOK, PCs
  <2> QED
    BY <2>1, <2>2 DEF TypeOK, Create, history
<1>4. Counted' = Counted
  BY <1>1, <1>2 DEF Counted, Create, TypeOK
<1>5. MutexOwned'
  BY <1>1, <1>2 DEF MutexOwned, Create, TypeOK
<1>6. CountsWaiters'
  BY <1>4 DEF CountsWaiters, Create
<1>7. Rounds'
  BY <1>1, <1>2, <1>4 DEF Rounds, Create, TypeOK, history
<1>8. Threads'
  BY <1>1, <1>2, ProcsFinite DEF Threads, Create, TypeOK, threads, p, Main, Procs
<1> QED
  BY <1>3, <1>5, <1>6, <1>7, <1>8

LEMMA CallInd == \A p \in Procs : IndInv /\ Call(p) => IndInv'
<1> SUFFICES ASSUME NEW p \in Procs, IndInv, Call(p) PROVE IndInv'
  OBVIOUS
<1> USE DEF IndInv
<1>1. TypeOK'
  BY DEF TypeOK, Call, Goto, PCs, threads
<1>2. Counted' = Counted
  BY DEF Counted, Call, Goto, TypeOK
<1>3. MutexOwned'
  BY DEF MutexOwned, Call, Goto, TypeOK
<1>4. CountsWaiters'
  BY <1>2 DEF CountsWaiters, Call
<1>5. Rounds'
  BY <1>2 DEF Rounds, Call, Goto, TypeOK
<1>6. Threads'
  BY DEF Threads, Call, Goto, TypeOK, threads
<1> QED
  BY <1>1, <1>3, <1>4, <1>5, <1>6

LEMMA WorkerReturnsInd == \A p \in Procs : IndInv /\ WorkerReturns(p) => IndInv'
<1> SUFFICES ASSUME NEW p \in Procs, IndInv, WorkerReturns(p) PROVE IndInv'
  OBVIOUS
<1> USE DEF IndInv
<1>1. TypeOK'
  BY DEF TypeOK, WorkerReturns, Goto, PCs, threads, history
<1>2. Counted' = Counted
  BY DEF Counted, WorkerReturns, Goto, TypeOK
<1>3. MutexOwned'
  BY DEF MutexOwned, WorkerReturns, Goto, TypeOK
<1>4. CountsWaiters'
  BY <1>2 DEF CountsWaiters, WorkerReturns
<1>5. Rounds'
  BY <1>2 DEF Rounds, WorkerReturns, Goto, TypeOK, history
<1>6. Threads'
  BY DEF Threads, WorkerReturns, Goto, TypeOK, threads
<1> QED
  BY <1>1, <1>3, <1>4, <1>5, <1>6

LEMMA JoinInd == IndInv /\ Join => IndInv'
<1> SUFFICES ASSUME IndInv, Join PROVE IndInv'
  OBVIOUS
<1> USE DEF IndInv
<1>1. CASE joined < P - 1
  <2>1. /\ joined' = joined + 1 /\ pc[joined + 1] = "done"
        /\ UNCHANGED <<pc, mutex, counter, cycle, Cycle, created, spurious,
                       calls, returns, opened>>
    BY <1>1 DEF Join, history
  <2>2. TypeOK'
    BY <1>1, <2>1, ProcsFinite DEF TypeOK
  <2>3. Counted' = Counted
    BY <2>1 DEF Counted
  <2>4. MutexOwned' /\ CountsWaiters' /\ Rounds'
    BY <2>1, <2>3 DEF MutexOwned, CountsWaiters, Rounds
  <2>5. Threads'
    BY <1>1, <2>1 DEF Threads, TypeOK, Join, Procs, Main
  <2> QED
    BY <2>2, <2>4, <2>5
<1>2. CASE ~(joined < P - 1)
  <2>1. /\ pc' = [pc EXCEPT ![Main] = "done"] /\ pc[Main] = "join"
        /\ UNCHANGED <<joined, mutex, counter, cycle, Cycle, created, spurious,
                       calls, returns, opened>>
    BY <1>2 DEF Join, Goto, history
  <2>2. TypeOK'
    BY <2>1, ProcsFinite DEF TypeOK, PCs
  <2>3. Counted' = Counted
    BY <2>1, ProcsFinite DEF Counted, TypeOK
  <2>4. MutexOwned' /\ CountsWaiters'
    BY <2>1, <2>3, ProcsFinite DEF MutexOwned, CountsWaiters, TypeOK
  <2>5. Rounds'
    BY <2>1, <2>3, ProcsFinite DEF Rounds, TypeOK
  <2>6. Threads'
    BY <1>2, <2>1, ProcsFinite DEF Threads, TypeOK
  <2> QED
    BY <2>2, <2>4, <2>5, <2>6
<1> QED
  BY <1>1, <1>2

LEMMA LockInd == \A p \in Procs : IndInv /\ Lock(p) => IndInv'
<1> SUFFICES ASSUME NEW p \in Procs, IndInv, Lock(p) PROVE IndInv'
  OBVIOUS
<1> USE DEF IndInv
<1>1. TypeOK'
  BY DEF TypeOK, Lock, Goto, PCs, threads, history
<1>2. Counted' = Counted
  BY DEF Counted, Lock, Goto, TypeOK
<1>3. MutexOwned'
  BY ProcsFinite DEF MutexOwned, Lock, Goto, TypeOK
<1>4. CountsWaiters'
  BY <1>2 DEF CountsWaiters, Lock
<1>5. Rounds'
  <2>1. CASE pc[p] = "lock" /\ Goto(p, "arrive")
    BY <1>2, <2>1 DEF Rounds, Lock, Goto, TypeOK, history
  <2>2. CASE pc[p] = "relock" /\ Goto(p, "test")
    BY <1>2, <2>2 DEF Rounds, Lock, Goto, TypeOK, history
  <2> QED
    BY <2>1, <2>2 DEF Lock
<1>6. Threads'
  <2>1. /\ pc[p] \in {"lock", "relock"}
        /\ pc' = [pc EXCEPT ![p] = IF pc[p] = "lock" THEN "arrive" ELSE "test"]
        /\ UNCHANGED <<created, joined>>
    BY DEF Lock, Goto, threads
  <2> QED
    BY <2>1 DEF Threads, TypeOK
<1> QED
  BY <1>1, <1>3, <1>4, <1>5, <1>6

(* Not the last arrival: the thread joins those that are counted.          *)
LEMMA WaitInd ==
  ASSUME NEW p \in Procs, IndInv, Arrive(p), counter + 1 # P
  PROVE  IndInv'
<1> USE DEF IndInv
<1>1. /\ pc[p] = "arrive" /\ pc' = [pc EXCEPT ![p] = "test"]
      /\ Cycle' = [Cycle EXCEPT ![p] = cycle] /\ counter' = counter + 1
      /\ UNCHANGED <<cycle, opened, mutex, created, joined, spurious, calls, returns>>
  BY DEF Arrive, Goto, threads
<1>2. TypeOK'
  BY <1>1, ProcsFinite DEF TypeOK, PCs
<1>3. p \notin Counted /\ Counted' = Counted \cup {p}
  BY <1>1 DEF Counted, TypeOK
<1>4. CountsWaiters'
  BY <1>1, <1>3, CountedFinite, FS_AddElement DEF CountsWaiters
<1>5. MutexOwned'
  BY <1>1 DEF MutexOwned, TypeOK
<1>6. Rounds'
  BY <1>1, <1>3 DEF Rounds, TypeOK
<1>7. Threads'
  BY <1>1 DEF Threads, TypeOK
<1> QED
  BY <1>2, <1>4, <1>5, <1>6, <1>7

(* The last arrival: all the others are counted, and none is any more.     *)
LEMMA OpenInd ==
  ASSUME NEW p \in Procs, IndInv, Arrive(p), counter + 1 = P
  PROVE  IndInv'
<1> USE DEF IndInv
<1>1. /\ pc[p] = "arrive" /\ Broadcast(p)
      /\ Cycle' = [Cycle EXCEPT ![p] = cycle] /\ counter' = 0
      /\ cycle' = 1 - cycle /\ opened' = opened + 1
      /\ UNCHANGED <<mutex, created, joined, spurious, calls, returns>>
  BY DEF Arrive, Open, threads
<1>2. \A q \in Procs \ {p} : q \in Counted
  <2>1. p \notin Counted /\ Cardinality(Counted) = P - 1
    BY <1>1, ProcsFinite, CountedFinite DEF Counted, CountsWaiters, TypeOK
  <2> QED
    BY <2>1, LastArrival
<1>3. /\ pc'[p] = "unlock"
      /\ \A q \in Procs \ {p} :
           /\ pc[q] \in {"test", "cv", "relock"} /\ Cycle[q] = cycle
           /\ pc'[q] \in {"test", "relock"} /\ Cycle'[q] = cycle
           /\ (pc'[q] = "test" <=> pc[q] = "test")
  BY <1>1, <1>2 DEF Counted, Broadcast, TypeOK
<1>4. TypeOK'
  BY <1>1, ProcsFinite DEF TypeOK, Broadcast, PCs
<1>5. Counted' = {}
  <2>1. cycle' # cycle
    BY <1>1 DEF TypeOK
  <2> QED
    BY <1>1, <1>3, <2>1 DEF Counted, TypeOK
<1>6. CountsWaiters'
  BY <1>1, <1>5, FS_EmptySet DEF CountsWaiters
<1>7. MutexOwned'
  BY <1>1, <1>3 DEF MutexOwned
<1>8. Rounds'
  <2>1. \A q \in Procs : calls[q] = opened + 1 /\ returns[q] = opened
    BY <1>1, <1>2 DEF Rounds
  <2> QED
    BY <1>1, <1>3, <1>5, <2>1 DEF Rounds, TypeOK
<1>9. Threads'
  BY <1>1, <1>3, ProcsFinite DEF Threads
<1> QED
  BY <1>4, <1>6, <1>7, <1>8, <1>9

LEMMA TestInd == \A p \in Procs : IndInv /\ Test(p) => IndInv'
<1> SUFFICES ASSUME NEW p \in Procs, IndInv, Test(p) PROVE IndInv'
  OBVIOUS
<1> USE DEF IndInv
<1>0. /\ pc' = [pc EXCEPT ![p] = IF p \in Counted THEN "cv" ELSE "unlock"]
      /\ mutex' = (IF p \in Counted THEN Nobody ELSE mutex) /\ pc[p] = "test"
      /\ UNCHANGED <<counter, cycle, Cycle, created, joined, spurious,
                     calls, returns, opened>>
  BY DEF Test, Goto, Counted, threads, history
<1>1. TypeOK'
  BY <1>0, ProcsFinite DEF TypeOK, PCs
<1>2. Counted' = Counted
  BY <1>0 DEF Counted, TypeOK
<1>3. MutexOwned'
  BY <1>0, ProcsFinite DEF MutexOwned, TypeOK
<1>4. CountsWaiters'
  BY <1>0, <1>2 DEF CountsWaiters
<1>5. Rounds'
  BY <1>0, <1>2 DEF Rounds, TypeOK
<1>6. Threads'
  BY <1>0 DEF Threads, TypeOK
<1> QED
  BY <1>1, <1>3, <1>4, <1>5, <1>6

LEMMA WakeupInd == \A p \in Procs : IndInv /\ SpuriousWakeup(p) => IndInv'
<1> SUFFICES ASSUME NEW p \in Procs, IndInv, SpuriousWakeup(p) PROVE IndInv'
  OBVIOUS
<1> USE DEF IndInv
<1>1. TypeOK'
  BY ParmacsAssumption DEF TypeOK, SpuriousWakeup, Goto, PCs, threads, history
<1>2. Counted' = Counted
  BY DEF Counted, SpuriousWakeup, Goto, TypeOK
<1>3. MutexOwned'
  BY DEF MutexOwned, SpuriousWakeup, Goto, TypeOK
<1>4. CountsWaiters'
  BY <1>2 DEF CountsWaiters, SpuriousWakeup
<1>5. Rounds'
  BY <1>2 DEF Rounds, SpuriousWakeup, Goto, TypeOK, history
<1>6. Threads'
  BY DEF Threads, SpuriousWakeup, Goto, TypeOK, threads
<1> QED
  BY <1>1, <1>3, <1>4, <1>5, <1>6

LEMMA UnlockInd == \A p \in Procs : IndInv /\ Unlock(p) => IndInv'
<1> SUFFICES ASSUME NEW p \in Procs, IndInv, Unlock(p) PROVE IndInv'
  OBVIOUS
<1> USE DEF IndInv
<1>1. TypeOK'
  BY DEF TypeOK, Unlock, Goto, PCs, threads
<1>2. Counted' = Counted
  BY DEF Counted, Unlock, Goto, TypeOK
<1>3. MutexOwned'
  BY ProcsFinite DEF MutexOwned, Unlock, Goto, TypeOK
<1>4. CountsWaiters'
  BY <1>2 DEF CountsWaiters, Unlock
<1>5. Rounds'
  BY <1>2 DEF Rounds, Unlock, Goto, TypeOK
<1>6. Threads'
  BY DEF Threads, Unlock, Goto, TypeOK, threads
<1> QED
  BY <1>1, <1>3, <1>4, <1>5, <1>6

LEMMA NextInd == IndInv /\ [Next]_vars => IndInv'
<1> SUFFICES ASSUME IndInv, [Next]_vars PROVE IndInv'
  OBVIOUS
<1>1. CASE UNCHANGED vars
  BY <1>1 DEF vars, threads, history, IndInv, TypeOK, MutexOwned, CountsWaiters,
              Counted, Rounds, Threads
<1>2. ASSUME NEW p \in Procs, Arrive(p) PROVE IndInv'
  BY <1>2, WaitInd, OpenInd
<1> QED
  BY <1>1, <1>2, CreateInd, JoinInd, CallInd, WorkerReturnsInd, LockInd, TestInd,
     WakeupInd, UnlockInd DEF Next, ThreadStep

(* The inductive invariant holds throughout.                               *)
THEOREM Invariance == Spec => []IndInv
  BY InitInd, NextInd, PTL DEF Spec

(* Types of all variables of the barrier and the thread table.             *)
THEOREM TypeCorrect == Spec => []TypeOK
<1>1. IndInv => TypeOK
  BY DEF IndInv
<1> QED
  BY <1>1, Invariance, PTL

(* The counter is the number of threads waiting in the current cycle.      *)
THEOREM CounterCorrect == Spec => []CountsWaiters
<1>1. IndInv => CountsWaiters
  BY DEF IndInv
<1> QED
  BY <1>1, Invariance, PTL

(* When WAIT_FOR_END is over, every worker has returned.                   *)
THEOREM JoinCorrect == Spec => []JoinedAll
<1>1. IndInv => JoinedAll
  BY ProcsFinite DEF IndInv, Threads, JoinedAll, Procs, Main
<1> QED
  BY <1>1, Invariance, PTL

(* Every step is a step of the abstract barrier or leaves it unchanged.    *)
LEMMA StepRefines == IndInv /\ [Next]_vars => [B!Next]_<<calls, returns>>
<1> SUFFICES ASSUME IndInv, [Next]_vars, ~ UNCHANGED <<calls, returns>>
             PROVE  B!Next
  OBVIOUS
<1>0. B!Procs = Procs
  BY DEF B!Procs, Procs
<1>1. PICK p \in Procs : Call(p) \/ Unlock(p)
  BY DEF Next, ThreadStep, vars, history, Create, Join, WorkerReturns, Lock,
         Arrive, Test, SpuriousWakeup
<1>2. CASE Call(p)
  BY <1>0, <1>2 DEF Call, B!Next, B!Call, IndInv, Rounds
<1>3. CASE Unlock(p)
  <2>1. calls[p] = opened /\ returns[p] = opened - 1 /\ opened \in Nat
    BY <1>3 DEF Unlock, IndInv, Rounds, TypeOK
  <2>2. \A q \in Procs : calls[q] >= opened
    BY DEF IndInv, Rounds, TypeOK, PCs
  <2>3. \A q \in Procs : returns[p] < calls[q]
    BY <2>1, <2>2 DEF IndInv, TypeOK
  <2> QED
    BY <1>0, <1>3, <2>3 DEF Unlock, B!Next, B!Return
<1> QED
  BY <1>1, <1>2, <1>3

(* The pthreads macro implements the barrier the programs rely on.         *)
THEOREM ImplementsBarrier == Spec => BarrierSpec
<1>1. Init => B!Init
  BY DEF Init, B!Init, B!Procs, Procs
<1> QED
  BY <1>1, StepRefines, Invariance, PTL DEF Spec, BarrierSpec, B!Spec
=============================================================================
