------------------------------ MODULE Barrier ------------------------------
(***************************************************************************)
(* What every SPLASH-2x program relies on when it calls BARRIER(b, P): the *)
(* k-th call of a process returns only after every process has made its    *)
(* k-th call.  ParmacsBarrier is shown to implement this.                  *)
(***************************************************************************)
EXTENDS Naturals

CONSTANTS
    P,          \* number of processes sharing the barrier
    MaxRounds   \* bound: calls of BARRIER per process

Procs == 0 .. P - 1

VARIABLES
    calls,      \* how often each process has called BARRIER
    returns     \* how often it has returned from it

Init ==
    /\ calls = [p \in Procs |-> 0]
    /\ returns = [p \in Procs |-> 0]

Call(p) ==
    /\ calls[p] = returns[p] /\ calls[p] < MaxRounds
    /\ calls' = [calls EXCEPT ![p] = @ + 1]
    /\ UNCHANGED returns

Return(p) ==
    /\ returns[p] < calls[p]
    /\ \A q \in Procs : returns[p] < calls[q]
    /\ returns' = [returns EXCEPT ![p] = @ + 1]
    /\ UNCHANGED calls

Next == \E p \in Procs : Call(p) \/ Return(p)

Spec == Init /\ [][Next]_<<calls, returns>>
=============================================================================
