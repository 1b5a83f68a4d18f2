------------------------------- MODULE MCWater -------------------------------
(***************************************************************************)
(* Instances of WaterSpatial for TLC: two boxes per side, of which the     *)
(* molecules use three.  The grid is checked for other sizes as well.      *)
(***************************************************************************)
EXTENDS WaterSpatial, FiniteSetsExt

\* Two boxes of process 0 and, between them, one of process 1.
Zero == <<0, 0, 0>>
Other == <<0, 0, 1>>
Far == <<1, 0, 0>>
MCReach == [b \in BoxesOf(2) |->
    IF b = Zero THEN {Zero, Other, Far} ELSE IF b = Far THEN {Far, Other} ELSE {b, Zero}]
TwoApart == <<Zero, Other>>

\* main() deals out every box of a grid once, to any number of processes it
\* accepts (water.C:152), also when a side has fewer boxes than processes.
ASSUME DealtOut ==
    \A bps \in 1 .. 3 : \A n \in 1 .. bps^3 : \A procs \in {Decomposition(n)} :
        LET all == 0 .. n - 1 IN
        /\ UNION {Range(Dealt(p, procs, bps)) : p \in all} = BoxesOf(bps)
        /\ MapThenSumSet(LAMBDA p : Len(Dealt(p, procs, bps)), all) = bps^3

\* The special cases of interf.C:77-105 leave one visit to each box that
\* touches, for one or two boxes per side as well.
ASSUME VisitedOnce ==
    \A bps \in 1 .. 3 : \A b, c \in BoxesOf(bps) :
        Visits(b, c, bps) = IF Touch(b, c, bps) THEN 1 ELSE 0
=============================================================================
