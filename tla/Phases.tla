------------------------------- MODULE Phases -------------------------------
(***************************************************************************)
(* The programs whose processes share nothing but arrays and barriers: P   *)
(* copies of one straight sequence of steps, some of them BARRIER calls.   *)
(* A step is a loop nest between two barriers, over the part of the arrays *)
(* that is the process' own.  What a program is made of is in LuCb, LuNcb, *)
(* FftSixStep, OceanCp, ...; the barrier is that of Barrier.               *)
(***************************************************************************)
EXTENDS Naturals, Sequences

CONSTANTS
    Programs,     \* the programs
    P,            \* P[g]: number of processes of program g
    Code,         \* Code[g]: the steps every process of g takes
    Start,        \* Start[g]: the memory main leaves behind
    Do(_, _, _, _)    \* Do(g, s, p, m): memory m after step s of process p

VARIABLES
    prog,   \* the program that runs
    pos,    \* pos[p]: the step process p is at
    mem     \* the shared memory and the private variables
vars == <<prog, pos, mem>>

BARRIER == [do |-> "BARRIER"]
Procs   == 0 .. P[prog] - 1
Ended(p) == pos[p] > Len(Code[prog])
At(p)    == Code[prog][pos[p]]

Init == /\ prog \in Programs
        /\ pos = [p \in Procs |-> 1]
        /\ mem = Start[prog]

Step(p) == /\ ~Ended(p) /\ At(p) # BARRIER
           /\ mem' = Do(prog, At(p), p, mem)
           /\ pos' = [pos EXCEPT ![p] = @ + 1]
           /\ UNCHANGED prog

Barrier == /\ \A p \in Procs : ~Ended(p) /\ At(p) = BARRIER
           /\ pos' = [p \in Procs |-> pos[p] + 1]
           /\ UNCHANGED <<prog, mem>>

Finished   == \A p \in Procs : Ended(p)
Terminated == Finished /\ UNCHANGED vars

Next == Barrier \/ Terminated \/ \E p \in Procs : Step(p)
Spec == Init /\ [][Next]_vars
=============================================================================
