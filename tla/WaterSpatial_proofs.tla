------------------------- MODULE WaterSpatial_proofs -------------------------
(***************************************************************************)
(* The lists of water_spatial for every number of processes, boxes and     *)
(* molecules and wherever CORREC moves the molecules: as long as none      *)
(* arrives in a box whose owner has not finished BNDRY there, the lists    *)
(* hold every molecule once, in its box, and each is scaled, corrected and *)
(* counted once; and the sums a process reads are complete.                *)
(*                                                                         *)
(* The order of the molecules in the lists is nowhere in the state.  The   *)
(* invariant says there is a box h[m] and a rank r[m] for each molecule,   *)
(* different for any two, such that the head of a list is the molecule of  *)
(* the box with the highest rank, and next_mol leads to the highest one    *)
(* below.                                                                  *)
(***************************************************************************)
EXTENDS WaterSpatial, WaterGrid_proofs

-----------------------------------------------------------------------------
(* Where the processes are, and the sums.                                  *)
Stage(S) == \A p \in Procs : pc[p] \in S
Sums(v, s, t) == \A p \in Procs : VIR[p] = v /\ SUM[p] = s /\ POT[p] = t

ForcesStage ==
    \E label \in {"intraf", "predic"} :
        /\ Stage({label, "b_intra"})
        /\ \A p \in Procs : /\ VIR[p] = (IF pc[p] = "b_intra" THEN 1 ELSE 0)
                            /\ SUM[p] = 0 /\ POT[p] = 0
PairsStage ==
    /\ Stage({"interf", "b_interf"})
    /\ \A p \in Procs : /\ VIR[p] = (IF pc[p] = "b_interf" THEN 2 ELSE 1)
                        /\ SUM[p] = 0 /\ POT[p] = 0
FirstStage == Stage({"scale", "b_init"}) /\ step[0] = 0 /\ Sums(2, 0, 0)
WalkStage ==
    /\ Stage(Walks \cup {"sum", "b_kineti"}) /\ step[0] > 0
    /\ \A p \in Procs : /\ VIR[p] = 2 /\ POT[p] = 0
                        /\ SUM[p] = (IF pc[p] = "b_kineti" THEN 1 ELSE 0)
TotalsStage ==
    /\ Stage(IF Printing(step[0]) THEN {"totals", "poteng", "b_poteng"} ELSE {"totals", "b_end"})
    /\ Sums(2, 1, 0)
PotengStage ==
    /\ Stage({"poteng2", "b_energy"})
    /\ \A p \in Procs : SUM[p] = 1 /\ POT[p] = (IF pc[p] = "b_energy" THEN 1 ELSE 0)
EnergyStage == Stage({"energy", "b_end"}) /\ \A p \in Procs : SUM[p] = 1 /\ POT[p] = 1
TopStage    == Stage({"top", "b_top"}) /\ (pc[0] = "b_top" => Sums(0, 0, 0))

StageInv ==
    /\ \A p \in Procs : step[p] = step[0]
    /\ \/ ForcesStage \/ PairsStage \/ FirstStage \/ WalkStage \/ TotalsStage
       \/ PotengStage \/ EnergyStage \/ TopStage \/ Stage({"done"})

\* What a process holds of the list it walks.
AtInv ==
    \A p \in Procs :
        /\ pc[p] \notin Walks => at[p].box = 1 /\ at[p].where = "head"
        /\ pc[p] # "bndry" => at[p].where \in {"head", "mol"}
        /\ at[p].where # "head" => at[p].curr \in Mols /\ at[p].box <= Len(MyBoxes[p])

-----------------------------------------------------------------------------
(* The lists.                                                              *)
Busy(p, where) == pc[p] = "bndry" /\ at[p].where = where

\* Out of every list, on its way from one to another.
Loose == {m \in Mols : \E p \in Procs : Busy(p, "insert") /\ at[p].curr = m}
\* In a list, but its next_mol is not set yet.
Linking(m) == \E p \in Procs : Busy(p, "link") /\ at[p].curr = m

Listed(h, b)   == {m \in Mols : m \notin Loose /\ h[m] = b}
Below(h, r, m) == {k \in Listed(h, h[m]) : r[k] < r[m]}
Highest(r, S, n) == IF n = NULL THEN S = {} ELSE n \in S /\ \A k \in S : r[k] <= r[n]

Ranks(h, r) ==
    /\ h \in [Mols -> Boxes] /\ r \in [Mols -> Nat]
    /\ \A m, n \in Mols : r[m] = r[n] => m = n
    /\ \E top \in Nat : \A m \in Mols : r[m] <= top

Ordered(h, r) ==
    /\ \A b \in Boxes : Highest(r, Listed(h, b), list[b])
    /\ \A m \in Mols \ Loose : ~Linking(m) => Highest(r, Below(h, r, m), next[m])
    /\ \A p \in Procs : Busy(p, "link") =>
        /\ at[p].curr \notin Loose /\ h[at[p].curr] = at[p].to
        /\ Highest(r, Below(h, r, at[p].curr), at[p].temp)

-----------------------------------------------------------------------------
(* The walks.                                                              *)
Place == [b \in Boxes |-> CHOOSE k \in 1 .. Len(MyBoxes[Owner[b]]) : MyBoxes[Owner[b]][k] = b]
Keeper(h, m) == Owner[h[m]]

\* The molecule the walk of p is at, or goes to when the one in hand is dealt with.
Cursor(p) == IF at[p].where \in {"insert", "link"} THEN at[p].nxt ELSE at[p].curr

\* Has the walk of its keeper passed m?
Behind(h, r, p, m) ==
    \/ Place[h[m]] < at[p].box
    \/ /\ Place[h[m]] = at[p].box /\ at[p].where # "head"
       /\ Cursor(p) # NULL => r[m] > r[Cursor(p)]
Passed(h, r, m) == Behind(h, r, Keeper(h, m), m)

\* Nobody else changes the lists p walks.
Alone(p) == pc[p] \in {"scale", "correct", "bndry"} \/ (pc[p] = "kineti" /\ crossed = {})

Moves(p) ==
    pc[p] = "bndry" =>
        /\ at[p].where \in {"unlink", "insert", "link"} =>
              at[p].to = pos[at[p].curr] /\ at[p].to # Here(p)
        /\ at[p].where = "unlink" => at[p].nxt = next[at[p].curr]
        /\ at[p].where \in {"insert", "link"} => \A q \in Procs :
              (Busy(q, "insert") \/ Busy(q, "link")) /\ at[q].curr = at[p].curr => q = p
        /\ at[p].where = "link" /\ Owner[at[p].to] # p =>
              ~Ahead(Owner[at[p].to], at[p].to) /\ at[p].curr \in crossed
Moving == \A p \in Procs : Moves(p)

Follows(h, p) ==
    Alone(p) /\ at[p].where # "head" =>
        /\ Cursor(p) # NULL => Cursor(p) \in Listed(h, Here(p))
        /\ pc[p] = "bndry" => IF at[p].last = NULL THEN list[Here(p)] = Cursor(p)
                              ELSE at[p].last \in Listed(h, Here(p)) /\ next[at[p].last] = Cursor(p)
Walking(h) == \A p \in Procs : Follows(h, p)

-----------------------------------------------------------------------------
(* What has been done to the molecules.                                    *)
Progress(h, r, m) ==
    LET p == Keeper(h, m)
        passed == IF Passed(h, r, m) THEN 1 ELSE 0
    IN  /\ pos[m] = h[m] \/ (pc[p] = "correct" /\ Passed(h, r, m))
                         \/ (pc[p] = "bndry" /\ ~Passed(h, r, m))
        /\ pc[p] = "scale" => scaled[m] = passed /\ corrected[m] = 0
        /\ pc[p] = "correct" => scaled[m] = 1 /\ corrected[m] = passed
        /\ pc[p] \in {"bndry", "kineti", "sum", "b_kineti"} => scaled[m] = 1 /\ corrected[m] = 1
        /\ crossed = {} =>
            /\ pc[p] \in {"scale", "correct", "bndry"} => counted[m] = 0
            /\ pc[p] = "kineti" => counted[m] = passed
            /\ pc[p] \in {"sum", "b_kineti"} => counted[m] = 1

Done(h, r) ==
    /\ \A m \in Mols \ Loose : Progress(h, r, m)
    /\ \A m \in Loose : scaled[m] = 1 /\ corrected[m] = 1 /\ (crossed = {} => counted[m] = 0)

Forces(h) ==
    \A m, n \in Mols : m # n =>
        /\ pc[Keeper(h, m)] \in {"b_intra", "interf"} => met[m][n] = 0
        /\ pc[Keeper(h, m)] = "b_interf" =>
            met[m][n] = IF Touch(h[m], h[n], BOX_PER_SIDE) THEN 1 ELSE 0

ListInv(h, r) ==
    Ranks(h, r) /\ Ordered(h, r) /\ Moving /\ Walking(h) /\ Done(h, r) /\ Forces(h)

IInv ==
    /\ TypeOK /\ StageInv /\ AtInv
    /\ ~overtaken => \E h \in [Mols -> Boxes], r \in [Mols -> Nat] : ListInv(h, r)

-----------------------------------------------------------------------------
(* The constants.                                                          *)
\* Each box has one owner and one place in that owner's list of boxes.
LEMMA Grid ==
    /\ NumProcs \in Nat \ {0} /\ 0 \in Procs
    /\ \A p \in Procs : MyBoxes[p] \in Seq(Boxes) /\ Len(MyBoxes[p]) \in Nat
    /\ \A b \in Boxes : /\ Owner[b] \in Procs /\ Place[b] \in 1 .. Len(MyBoxes[Owner[b]])
                        /\ MyBoxes[Owner[b]][Place[b]] = b
    /\ \A p \in Procs : \A k \in 1 .. Len(MyBoxes[p]) :
          MyBoxes[p][k] \in Boxes /\ Owner[MyBoxes[p][k]] = p /\ Place[MyBoxes[p][k]] = k
    /\ \A p \in Procs : Own(p) = {b \in Boxes : Owner[b] = p}
<1> DEFINE own(p) == MyBoxes[p]
<1>1. NumProcs \in Nat \ {0} /\ 0 \in Procs /\ BOX_PER_SIDE \in Nat
  BY WaterAssumption DEF Procs
<1>2. \A p \in Procs : own(p) = BoxList(p, NumProcs, BOX_PER_SIDE)
  BY DEF MyBoxes
<1> HIDE DEF own
<1>3. /\ \A p \in Procs : own(p) \in Seq(Boxes)
      /\ \A b \in Boxes : \E p \in Procs : \E k \in 1 .. Len(own(p)) : own(p)[k] = b
      /\ \A p, q \in Procs : \A k \in 1 .. Len(own(p)), l \in 1 .. Len(own(q)) :
            own(p)[k] = own(q)[l] => p = q /\ k = l
  <2> DEFINE mine(p) == BoxList(p, NumProcs, BOX_PER_SIDE)
  <2>1. /\ \A p \in Procs : mine(p) \in Seq(Boxes)
        /\ \A b \in Boxes : \E p \in Procs : \E k \in 1 .. Len(mine(p)) : mine(p)[k] = b
        /\ \A p, q \in Procs : \A k \in 1 .. Len(mine(p)), l \in 1 .. Len(mine(q)) :
              mine(p)[k] = mine(q)[l] => p = q /\ k = l
    BY <1>1, EachBoxDealtOnce, Zenon DEF Procs, Boxes
  <2>2. \A p \in Procs : own(p) = mine(p)
    BY <1>2
  <2> HIDE DEF mine
  <2>3. \A p \in Procs : own(p) \in Seq(Boxes)
    BY <2>1, <2>2
  <2>4. \A b \in Boxes : \E p \in Procs : \E k \in 1 .. Len(own(p)) : own(p)[k] = b
    BY <2>1, <2>2
  <2>5. ASSUME NEW p \in Procs, NEW q \in Procs,
               NEW k \in 1 .. Len(own(p)), NEW l \in 1 .. Len(own(q)), own(p)[k] = own(q)[l]
        PROVE  p = q /\ k = l
    <3>1. own(p) = mine(p) /\ own(q) = mine(q)
      BY <2>2
    <3> QED BY <2>1, <2>5, <3>1
  <2> QED BY <2>3, <2>4, <2>5
<1>4. \A p \in Procs : Len(own(p)) \in Nat /\ DOMAIN own(p) = 1 .. Len(own(p))
                      /\ \A k \in 1 .. Len(own(p)) : own(p)[k] \in Boxes
  BY <1>3
<1>5. \A p \in Procs : \A b : b \in Own(p) <=> \E k \in 1 .. Len(own(p)) : own(p)[k] = b
  <2> SUFFICES ASSUME NEW p \in Procs
               PROVE  \A b : b \in Own(p) <=> \E k \in 1 .. Len(own(p)) : own(p)[k] = b
    OBVIOUS
  <2>1. Own(p) = {own(p)[k] : k \in DOMAIN own(p)}
    BY DEF Own, Range, own
  <2> QED BY <1>4, <2>1
<1>6. ASSUME NEW p \in Procs, NEW k \in 1 .. Len(own(p))
      PROVE  own(p)[k] \in Boxes /\ Owner[own(p)[k]] = p
  <2>1. own(p)[k] \in Boxes /\ own(p)[k] \in Own(p)
    BY <1>4, <1>5
  <2>2. ASSUME NEW q \in Procs, own(p)[k] \in Own(q)
        PROVE  q = p
    <3>1. PICK l \in 1 .. Len(own(q)) : own(q)[l] = own(p)[k]
      BY <1>5, <2>2
    <3> QED BY <1>3, <3>1
  <2>3. Owner[own(p)[k]] = CHOOSE q \in Procs : own(p)[k] \in Own(q)
    BY <2>1 DEF Owner
  <2> QED BY <2>1, <2>2, <2>3
<1>7. ASSUME NEW b \in Boxes
      PROVE  /\ Owner[b] \in Procs /\ Place[b] \in 1 .. Len(own(Owner[b]))
             /\ own(Owner[b])[Place[b]] = b
  <2>1. PICK p \in Procs : \E k \in 1 .. Len(own(p)) : own(p)[k] = b
    BY <1>3
  <2>2. Owner[b] = p
    BY <1>6, <2>1
  <2>3. Place[b] = CHOOSE k \in 1 .. Len(own(Owner[b])) : own(Owner[b])[k] = b
    BY DEF Place, own
  <2> QED BY <2>1, <2>2, <2>3
<1>8. ASSUME NEW p \in Procs, NEW k \in 1 .. Len(own(p))
      PROVE  Place[own(p)[k]] = k
  <2>1. /\ own(p)[k] \in Boxes /\ Owner[own(p)[k]] = p
    BY <1>6
  <2>2. Place[own(p)[k]] \in 1 .. Len(own(p)) /\ own(p)[Place[own(p)[k]]] = own(p)[k]
    BY <1>7, <2>1
  <2> DEFINE l == Place[own(p)[k]]
  <2>3. l \in 1 .. Len(own(p)) /\ own(p)[l] = own(p)[k]
    BY <2>2
  <2> HIDE DEF l
  <2>4. l = k
    BY <1>3, <2>3
  <2> QED BY <2>4 DEF l
<1>9. ASSUME NEW p \in Procs
      PROVE  Own(p) = {b \in Boxes : Owner[b] = p}
  <2>1. ASSUME NEW b \in Own(p)
        PROVE  b \in Boxes /\ Owner[b] = p
    BY <1>5, <1>6
  <2>2. ASSUME NEW b \in Boxes, Owner[b] = p
        PROVE  b \in Own(p)
    BY <1>5, <1>7, <2>2
  <2> QED BY <2>1, <2>2
<1> QED BY <1>1, <1>3, <1>4, <1>6, <1>7, <1>8, <1>9 DEF own

-----------------------------------------------------------------------------
(* Types, sums, and what a process holds, action by action.                *)
Frame == TypeOK /\ StageInv /\ AtInv

Labels == {"intraf", "interf", "top", "predic", "sum", "totals", "poteng",
           "poteng2", "energy", "done"} \cup Walks \cup Barriers
Hands == [box : Nat \ {0}, where : {"head", "mol", "unlink", "insert", "link"},
          curr : Mols \cup {NULL}, last : Mols \cup {NULL},
          nxt : Mols \cup {NULL}, temp : Mols \cup {NULL}, to : Boxes]

\* TypeOK with the types of a hand and a label by name.
LEMMA Types ==
    TypeOK <=>
        /\ list \in [Boxes -> Mols \cup {NULL}] /\ next \in [Mols -> Mols \cup {NULL}]
        /\ boxlock \in [Boxes -> BOOLEAN] /\ pos \in [Mols -> Boxes]
        /\ met \in [Mols -> [Mols -> 0 .. Often]]
        /\ scaled \in [Mols -> 0 .. Often] /\ corrected \in [Mols -> 0 .. Often]
        /\ counted \in [Mols -> 0 .. Often]
        /\ VIR \in [Procs -> 0 .. 2] /\ SUM \in [Procs -> 0 .. 1] /\ POT \in [Procs -> 0 .. 1]
        /\ pc \in [Procs -> Labels] /\ step \in [Procs -> 0 .. NSTEP]
        /\ at \in [Procs -> Hands] /\ crossed \subseteq Mols /\ overtaken \in BOOLEAN
BY DEF TypeOK, Labels, Hands

\* The label of one process tells the stage all are in.
LEMMA WhichStage ==
    ASSUME StageInv, NEW p \in Procs
    PROVE  /\ pc[p] \in {"intraf", "predic", "b_intra"} => ForcesStage
           /\ pc[p] \in {"interf", "b_interf"} => PairsStage
           /\ pc[p] = "b_init" => FirstStage
           /\ pc[p] = "scale" => FirstStage \/ WalkStage
           /\ pc[p] \in {"correct", "bndry", "kineti", "sum", "b_kineti"} => WalkStage
           /\ pc[p] \in {"totals", "poteng", "b_poteng"} => TotalsStage
           /\ pc[p] \in {"poteng2", "b_energy"} => PotengStage
           /\ pc[p] = "energy" => EnergyStage
           /\ pc[p] = "b_end" => TotalsStage \/ EnergyStage
           /\ pc[p] \in {"top", "b_top"} => TopStage
BY DEF StageInv, ForcesStage, PairsStage, FirstStage, WalkStage, TotalsStage, PotengStage,
       EnergyStage, TopStage, Stage, Walks

\* The boxes, and the triples that Meetings counts, are finitely many.
LEMMA BoxesFinite == IsFiniteSet(Boxes)
<1> DEFINE n == BOX_PER_SIDE
           size == [dir \in Dims |-> n]
           top == Rounds(size)
           f == [b \in Boxes |-> PlaceOf(b, size)]
<1>1. n \in Nat /\ size \in [Dims -> Nat]
  BY WaterAssumption
<1>2. top \in Nat
  <2>1. n * n * n \in Nat
    BY <1>1
  <2> QED BY <2>1 DEF Rounds, Dims
<1>3. ASSUME NEW b \in Boxes
      PROVE  PlaceOf(b, size) \in 0 .. top - 1 /\ Nested(PlaceOf(b, size), size) = b
  <2>1. b \in [Dims -> Nat] /\ \A dir \in Dims : b[dir] < size[dir]
    BY <1>1 DEF Boxes, BoxesOf
  <2> HIDE DEF size
  <2> QED BY <1>1, <2>1, NestedPlace
<1> HIDE DEF size, top
<1>4. f \in Injection(Boxes, 0 .. top - 1)
  BY <1>3 DEF Injection, IsInjective
<1>5. IsFiniteSet(0 .. top - 1)
  BY <1>2, FS_Interval
<1> QED BY <1>4, <1>5, FS_Injection

LEMMA TriplesFinite ==
    ASSUME NEW A, NEW B, NEW C, IsFiniteSet(A), IsFiniteSet(B), IsFiniteSet(C)
    PROVE  IsFiniteSet(A \X B \X C)
<1> DEFINE S == (A \X B) \X C
           f == [x \in A \X B \X C |-> <<<<x[1], x[2]>>, x[3]>>]
<1>1. IsFiniteSet(S)
  <2>1. IsFiniteSet(A \X B)
    BY FS_Product
  <2> QED BY <2>1, FS_Product
<1>2. f \in Injection(A \X B \X C, S)
  <2>1. \A x \in A \X B \X C : <<<<x[1], x[2]>>, x[3]>> \in S /\ x = <<x[1], x[2], x[3]>>
    OBVIOUS
  <2>2. f \in [A \X B \X C -> S]
    BY <2>1
  <2>3. ASSUME NEW x \in A \X B \X C, NEW y \in A \X B \X C, f[x] = f[y]
        PROVE  x = y
    BY <2>1, <2>3
  <2> QED BY <2>2, <2>3 DEF Injection, IsInjective
<1> HIDE DEF S, f
<1> QED BY <1>1, <1>2, FS_Injection

\* What Interf counts is a number.
LEMMA MeetingsType ==
    ASSUME NEW p \in Procs, NEW m, NEW n
    PROVE  IsFiniteSet(Meetings(p, m, n)) /\ Cardinality(Meetings(p, m, n)) \in Nat
<1>1. Own(p) \subseteq Boxes
  BY Grid
<1>2. IsFiniteSet(Own(p))
  BY <1>1, BoxesFinite, FS_Subset
<1>3. IsFiniteSet(1 .. Often)
  <2>1. 1 \in Int /\ Often \in Int
    BY DEF Often
  <2> QED BY <2>1, FS_Interval
<1>4. IsFiniteSet(Own(p) \X Boxes \X (1 .. Often))
  BY <1>2, <1>3, BoxesFinite, TriplesFinite
<1>5. Meetings(p, m, n) \subseteq Own(p) \X Boxes \X (1 .. Often)
  BY DEF Meetings
<1> QED BY <1>4, <1>5, FS_Subset, FS_CardinalityType

LEMMA UpToType ==
    ASSUME NEW n \in Nat
    PROVE  UpTo(n) \in 0 .. Often
BY DEF UpTo, Often

LEMMA TopFrame ==
    ASSUME Frame, NEW p \in Procs, Top(p)
    PROVE  Frame'
<1>0. /\ UNCHANGED <<list, next, boxlock, pos, scaled, corrected, counted, step, at, crossed, overtaken>>
      /\ pc \in [Procs -> Labels] /\ VIR \in [Procs -> 0 .. 2] /\ SUM \in [Procs -> 0 .. 1]
      /\ POT \in [Procs -> 0 .. 1]
  BY Types DEF Frame, Top, lists, done
<1>1. TopStage
  BY WhichStage DEF Frame, Top
<1>4. TopStage'
  BY <1>0, <1>1, Grid DEF TopStage, Top, Goto, Stage, Sums, None, sums
<1>5. StageInv'
  BY <1>0, <1>4 DEF StageInv, Frame
<1>8. AtInv'
  BY <1>0 DEF AtInv, Top, Goto, Walks, Frame
<1>9. TypeOK'
  <2>1. pc' \in [Procs -> Labels]
    BY <1>0 DEF Top, Goto, Labels, Barriers
  <2>2. met' \in [Mols -> [Mols -> 0 .. Often]]
    BY Types DEF Frame, Top
  <2>3. VIR' \in [Procs -> 0 .. 2] /\ SUM' \in [Procs -> 0 .. 1] /\ POT' \in [Procs -> 0 .. 1]
    BY <1>0 DEF Top, None, sums
  <2> QED BY <1>0, <2>1, <2>2, <2>3 DEF Frame, TypeOK, Labels
<1> QED BY <1>5, <1>8, <1>9 DEF Frame

LEMMA KinetiFrame ==
    ASSUME Frame, NEW p \in Procs, Kineti(p)
    PROVE  Frame'
<1>0. /\ UNCHANGED <<list, next, boxlock, pos, scaled, corrected, counted, step, at, crossed, overtaken>>
      /\ pc \in [Procs -> Labels] /\ VIR \in [Procs -> 0 .. 2] /\ SUM \in [Procs -> 0 .. 1]
      /\ POT \in [Procs -> 0 .. 1]
  BY Types DEF Frame, Kineti, lists, done
<1>1. WalkStage
  BY WhichStage DEF Frame, Kineti
<1>4. WalkStage'
  BY <1>0, <1>1 DEF WalkStage, Kineti, Goto, Stage
<1>5. StageInv'
  BY <1>0, <1>4 DEF StageInv, Frame
<1>8. AtInv'
  BY <1>0 DEF AtInv, Kineti, Goto, Walks, Frame
<1>9. TypeOK'
  <2>1. pc' \in [Procs -> Labels]
    BY <1>0 DEF Kineti, Goto, Labels, Barriers
  <2>2. met' \in [Mols -> [Mols -> 0 .. Often]]
    BY Types DEF Frame, Kineti
  <2>3. VIR' \in [Procs -> 0 .. 2] /\ SUM' \in [Procs -> 0 .. 1] /\ POT' \in [Procs -> 0 .. 1]
    BY <1>0, <1>1 DEF Kineti, WalkStage
  <2> QED BY <1>0, <2>1, <2>2, <2>3 DEF Frame, TypeOK, Labels
<1> QED BY <1>5, <1>8, <1>9 DEF Frame

LEMMA TotalsFrame ==
    ASSUME Frame, NEW p \in Procs, Totals(p)
    PROVE  Frame'
<1>0. /\ UNCHANGED <<list, next, boxlock, pos, scaled, corrected, counted, step, at, crossed, overtaken>>
      /\ pc \in [Procs -> Labels] /\ VIR \in [Procs -> 0 .. 2] /\ SUM \in [Procs -> 0 .. 1]
      /\ POT \in [Procs -> 0 .. 1]
  BY Types DEF Frame, Totals, lists, done
<1>1. TotalsStage
  BY WhichStage DEF Frame, Totals
<1>4. TotalsStage'
  BY <1>0, <1>1 DEF TotalsStage, Totals, Goto, Stage, Sums, sums, Frame, StageInv, Printing
<1>5. StageInv'
  BY <1>0, <1>4 DEF StageInv, Frame
<1>8. AtInv'
  BY <1>0 DEF AtInv, Totals, Goto, Walks, Frame
<1>9. TypeOK'
  <2>1. pc' \in [Procs -> Labels]
    BY <1>0 DEF Totals, Goto, Labels, Barriers
  <2>2. met' \in [Mols -> [Mols -> 0 .. Often]]
    BY Types DEF Frame, Totals
  <2>3. VIR' \in [Procs -> 0 .. 2] /\ SUM' \in [Procs -> 0 .. 1] /\ POT' \in [Procs -> 0 .. 1]
    BY <1>0 DEF Totals, sums
  <2> QED BY <1>0, <2>1, <2>2, <2>3 DEF Frame, TypeOK, Labels
<1> QED BY <1>5, <1>8, <1>9 DEF Frame

LEMMA EnergyFrame ==
    ASSUME Frame, NEW p \in Procs, Energy(p)
    PROVE  Frame'
<1>0. /\ UNCHANGED <<list, next, boxlock, pos, scaled, corrected, counted, step, at, crossed, overtaken>>
      /\ pc \in [Procs -> Labels] /\ VIR \in [Procs -> 0 .. 2] /\ SUM \in [Procs -> 0 .. 1]
      /\ POT \in [Procs -> 0 .. 1]
  BY Types DEF Frame, Energy, lists, done
<1>1. EnergyStage
  BY WhichStage DEF Frame, Energy
<1>4. EnergyStage'
  BY <1>0, <1>1 DEF EnergyStage, Energy, Goto, Stage, sums
<1>5. StageInv'
  BY <1>0, <1>4 DEF StageInv, Frame
<1>8. AtInv'
  BY <1>0 DEF AtInv, Energy, Goto, Walks, Frame
<1>9. TypeOK'
  <2>1. pc' \in [Procs -> Labels]
    BY <1>0 DEF Energy, Goto, Labels, Barriers
  <2>2. met' \in [Mols -> [Mols -> 0 .. Often]]
    BY Types DEF Frame, Energy
  <2>3. VIR' \in [Procs -> 0 .. 2] /\ SUM' \in [Procs -> 0 .. 1] /\ POT' \in [Procs -> 0 .. 1]
    BY <1>0 DEF Energy, sums
  <2> QED BY <1>0, <2>1, <2>2, <2>3 DEF Frame, TypeOK, Labels
<1> QED BY <1>5, <1>8, <1>9 DEF Frame

LEMMA PotengFrame ==
    ASSUME Frame, NEW p \in Procs, Poteng(p)
    PROVE  Frame'
<1>0. /\ UNCHANGED <<list, next, boxlock, pos, scaled, corrected, counted, step, at, crossed, overtaken>>
      /\ pc \in [Procs -> Labels] /\ VIR \in [Procs -> 0 .. 2] /\ SUM \in [Procs -> 0 .. 1]
      /\ POT \in [Procs -> 0 .. 1]
  BY Types DEF Frame, Poteng, PotengIntra, PotengPairs, lists, done
<1>1. /\ pc[p] = "poteng" => TotalsStage
      /\ pc[p] = "poteng2" => PotengStage
  BY WhichStage DEF Frame
<1>4. TotalsStage' \/ PotengStage'
  <2>1. CASE pc[p] = "poteng"
    BY <1>0, <1>1, <2>1 DEF TotalsStage, Poteng, PotengIntra, PotengPairs, Goto, Stage, Sums, sums, Printing
  <2>2. CASE pc[p] = "poteng2"
    BY <1>0, <1>1, <2>2 DEF PotengStage, Poteng, PotengIntra, PotengPairs, Goto, Stage
  <2> QED BY <2>1, <2>2 DEF Poteng, PotengIntra, PotengPairs
<1>5. StageInv'
  BY <1>0, <1>4 DEF StageInv, Frame
<1>8. AtInv'
  BY <1>0 DEF AtInv, Poteng, PotengIntra, PotengPairs, Goto, Walks, Frame
<1>9. TypeOK'
  <2>1. pc' \in [Procs -> Labels]
    BY <1>0 DEF Poteng, PotengIntra, PotengPairs, Goto, Labels, Barriers
  <2>2. met' \in [Mols -> [Mols -> 0 .. Often]]
    BY Types DEF Frame, Poteng, PotengIntra, PotengPairs
  <2>3. VIR' \in [Procs -> 0 .. 2] /\ SUM' \in [Procs -> 0 .. 1] /\ POT' \in [Procs -> 0 .. 1]
    BY <1>0, <1>1 DEF Poteng, PotengIntra, PotengPairs, sums, PotengStage
  <2> QED BY <1>0, <2>1, <2>2, <2>3 DEF Frame, TypeOK, Labels
<1> QED BY <1>5, <1>8, <1>9 DEF Frame

LEMMA IntrafFrame ==
    ASSUME Frame, NEW p \in Procs, Intraf(p)
    PROVE  Frame'
<1>0. /\ UNCHANGED <<list, next, boxlock, pos, scaled, corrected, counted, step, at, crossed, overtaken>>
      /\ pc \in [Procs -> Labels] /\ VIR \in [Procs -> 0 .. 2] /\ SUM \in [Procs -> 0 .. 1]
      /\ POT \in [Procs -> 0 .. 1]
  BY Types DEF Frame, Intraf, lists, done
<1>1. ForcesStage
  BY WhichStage DEF Frame, Intraf
<1>4. ForcesStage'
  <2>1. PICK label \in {"intraf", "predic"} :
          /\ Stage({label, "b_intra"})
          /\ \A q \in Procs : /\ VIR[q] = (IF pc[q] = "b_intra" THEN 1 ELSE 0)
                              /\ SUM[q] = 0 /\ POT[q] = 0
    BY <1>1 DEF ForcesStage
  <2>2. Stage({label, "b_intra"})'
    BY <1>0, <2>1 DEF Stage, Intraf, Goto
  <2>3. \A q \in Procs : /\ VIR'[q] = (IF pc'[q] = "b_intra" THEN 1 ELSE 0)
                         /\ SUM'[q] = 0 /\ POT'[q] = 0
    BY <1>0, <2>1 DEF Intraf, Goto, Stage
  <2> QED BY <2>2, <2>3 DEF ForcesStage
<1>5. StageInv'
  BY <1>0, <1>4 DEF StageInv, Frame
<1>8. AtInv'
  BY <1>0 DEF AtInv, Intraf, Goto, Walks, Frame
<1>9. TypeOK'
  <2>1. pc' \in [Procs -> Labels]
    BY <1>0 DEF Intraf, Goto, Labels, Barriers
  <2>2. met' \in [Mols -> [Mols -> 0 .. Often]]
    BY Types DEF Frame, Intraf, Often
  <2>3. VIR' \in [Procs -> 0 .. 2] /\ SUM' \in [Procs -> 0 .. 1] /\ POT' \in [Procs -> 0 .. 1]
    BY <1>0, <1>1 DEF Intraf, ForcesStage
  <2> QED BY <1>0, <2>1, <2>2, <2>3 DEF Frame, TypeOK, Labels
<1> QED BY <1>5, <1>8, <1>9 DEF Frame

LEMMA InterfFrame ==
    ASSUME Frame, NEW p \in Procs, Interf(p)
    PROVE  Frame'
<1>0. /\ UNCHANGED <<list, next, boxlock, pos, scaled, corrected, counted, step, at, crossed, overtaken>>
      /\ pc \in [Procs -> Labels] /\ VIR \in [Procs -> 0 .. 2] /\ SUM \in [Procs -> 0 .. 1]
      /\ POT \in [Procs -> 0 .. 1]
  BY Types DEF Frame, Interf, lists, done
<1>1. PairsStage
  BY WhichStage DEF Frame, Interf
<1>4. PairsStage'
  BY <1>0, <1>1 DEF PairsStage, Interf, Goto, Stage
<1>5. StageInv'
  BY <1>0, <1>4 DEF StageInv, Frame
<1>8. AtInv'
  BY <1>0 DEF AtInv, Interf, Goto, Walks, Frame
<1>9. TypeOK'
  <2>1. pc' \in [Procs -> Labels]
    BY <1>0 DEF Interf, Goto, Labels, Barriers
  <2>2. met' \in [Mols -> [Mols -> 0 .. Often]]
    <3>1. \A m, n \in Mols : UpTo(met[m][n] + Cardinality(Meetings(p, m, n))) \in 0 .. Often
      <4> SUFFICES ASSUME NEW m \in Mols, NEW n \in Mols
                   PROVE  UpTo(met[m][n] + Cardinality(Meetings(p, m, n))) \in 0 .. Often
        OBVIOUS
      <4>1. met[m][n] \in Nat
        <5>1. met \in [Mols -> [Mols -> 0 .. Often]]
          BY Types DEF Frame
        <5>2. met[m] \in [Mols -> 0 .. Often]
          BY <5>1
        <5> QED BY <5>2 DEF Often
      <4>2. Cardinality(Meetings(p, m, n)) \in Nat
        BY MeetingsType
      <4>3. met[m][n] + Cardinality(Meetings(p, m, n)) \in Nat
        BY <4>1, <4>2
      <4> QED BY <4>3, UpToType, Zenon
    <3> QED BY <3>1 DEF Interf
  <2>3. VIR' \in [Procs -> 0 .. 2] /\ SUM' \in [Procs -> 0 .. 1] /\ POT' \in [Procs -> 0 .. 1]
    BY <1>0, <1>1 DEF Interf, PairsStage
  <2> QED BY <1>0, <2>1, <2>2, <2>3 DEF Frame, TypeOK, Labels
<1> QED BY <1>5, <1>8, <1>9 DEF Frame

\* What the steps of a walk make of what a process holds.
LEMMA HandSteps ==
    ASSUME NEW a \in Hands, NEW n \in Mols \cup {NULL}, NEW b \in Boxes
    PROVE  /\ [a EXCEPT !.box = a.box + 1] \in Hands
           /\ [a EXCEPT !.curr = n, !.last = NULL, !.where = "mol"] \in Hands
           /\ [a EXCEPT !.last = n] \in Hands
           /\ [a EXCEPT !.nxt = n, !.to = b, !.where = "unlink"] \in Hands
           /\ [a EXCEPT !.where = "insert"] \in Hands
           /\ [a EXCEPT !.temp = n, !.where = "link"] \in Hands
           /\ [Nowhere EXCEPT !.box = a.box + 1] \in Hands
           /\ Lattice[1] \in Boxes
           /\ [a EXCEPT !.curr = n, !.where = "mol", !.nxt = NULL, !.temp = NULL,
                        !.to = Lattice[1]] \in Hands
<1>1. 1 \in Mols /\ Lattice[1] \in Boxes
  BY WaterAssumption DEF Mols
<1>2. a.box + 1 \in Nat \ {0} /\ NULL \in Mols \cup {NULL}
  BY DEF Hands
<1> QED BY <1>1, <1>2 DEF Hands, Nowhere

LEMMA OntoHand ==
    ASSUME NEW a \in Hands, NEW n \in Mols \cup {NULL}
    PROVE  /\ Onto(a, n) \in Hands
           /\ n = NULL => Onto(a, n) = [Nowhere EXCEPT !.box = a.box + 1]
                          /\ Onto(a, n).where = "head" /\ Onto(a, n).box = a.box + 1
           /\ n # NULL => /\ Onto(a, n).where = "mol" /\ Onto(a, n).box = a.box
                          /\ Onto(a, n).curr = n /\ Onto(a, n).last = a.last
<1>1. Lattice[1] \in Boxes
  BY WaterAssumption DEF Mols
<1>2. /\ [Nowhere EXCEPT !.box = a.box + 1] \in Hands
      /\ [a EXCEPT !.curr = n, !.where = "mol", !.nxt = NULL, !.temp = NULL,
                   !.to = Lattice[1]] \in Hands
  BY <1>1, HandSteps, Zenon
<1>3. Onto(a, n) \in Hands
  BY <1>2 DEF Onto
<1>4. CASE n = NULL
  BY <1>3, <1>4 DEF Onto, Nowhere
<1>5. CASE n # NULL
  BY <1>3, <1>5 DEF Onto, Hands
<1> QED BY <1>3, <1>4, <1>5

\* Where a process is that walks, and what it holds.
LEMMA WalkAt ==
    ASSUME Frame, NEW p \in Procs, pc[p] \in Walks, at[p].box <= Len(MyBoxes[p])
    PROVE  /\ at[p] \in Hands /\ at[p].box \in 1 .. Len(MyBoxes[p])
           /\ Here(p) \in Boxes /\ Owner[Here(p)] = p /\ Place[Here(p)] = at[p].box
           /\ at[p].where # "head" => at[p].curr \in Mols
           /\ at[p].last \in Mols \cup {NULL} /\ at[p].nxt \in Mols \cup {NULL}
           /\ at[p].temp \in Mols \cup {NULL} /\ at[p].to \in Boxes
<1>1. at[p] \in Hands
  BY Types DEF Frame
<1>2. at[p].box \in 1 .. Len(MyBoxes[p])
  BY <1>1, Grid DEF Hands
<1>3. Here(p) \in Boxes /\ Owner[Here(p)] = p /\ Place[Here(p)] = at[p].box
  BY <1>2, Grid DEF Here
<1> QED BY <1>1, <1>2, <1>3 DEF Frame, AtInv, Hands

\* A step of a walk.
LEMMA WalkFrame ==
    ASSUME Frame, NEW p \in Procs, NEW b \in Hands, pc[p] \in Walks,
           at' = [at EXCEPT ![p] = b], UNCHANGED <<met, VIR, SUM, POT, pc, step>>,
           b.where # "head" => b.curr \in Mols /\ b.box <= Len(MyBoxes[p]),
           pc[p] = "bndry" \/ b.where \in {"head", "mol"},
           list' \in [Boxes -> Mols \cup {NULL}], next' \in [Mols -> Mols \cup {NULL}],
           boxlock' \in [Boxes -> BOOLEAN], pos' \in [Mols -> Boxes],
           scaled' \in [Mols -> 0 .. Often], corrected' \in [Mols -> 0 .. Often],
           counted' \in [Mols -> 0 .. Often], crossed' \subseteq Mols, overtaken' \in BOOLEAN
    PROVE  Frame'
<1>1. StageInv'
  BY DEF Frame, StageInv, ForcesStage, PairsStage, FirstStage, WalkStage, TotalsStage,
         PotengStage, EnergyStage, TopStage, Stage, Sums
<1>2. at \in [Procs -> Hands]
  BY Types DEF Frame
<1>3. at' \in [Procs -> Hands] /\ at'[p] = b /\ \A q \in Procs : q # p => at'[q] = at[q]
  BY <1>2
<1>4. AtInv'
  BY <1>3 DEF Frame, AtInv
<1>5. TypeOK'
  BY <1>3 DEF Frame, TypeOK, Hands
<1> QED BY <1>1, <1>4, <1>5 DEF Frame

LEMMA ReadListFrame ==
    ASSUME Frame, NEW p \in Procs, ReadList(p)
    PROVE  Frame'
<1> DEFINE a == at[p]
           n == list[Here(p)]
           b == IF n = NULL THEN [a EXCEPT !.box = a.box + 1]
                ELSE [a EXCEPT !.curr = n, !.last = NULL, !.where = "mol"]
<1>1. pc[p] \in Walks /\ a.where = "head" /\ a.box <= Len(MyBoxes[p])
  BY DEF ReadList, In
<1>2. a \in Hands /\ n \in Mols \cup {NULL}
  BY <1>1, WalkAt, Types DEF Frame
<1>3. at' = [at EXCEPT ![p] = b]
  BY DEF ReadList
<1> HIDE DEF a, n
<1>4. /\ [a EXCEPT !.box = a.box + 1] \in Hands
      /\ [a EXCEPT !.curr = n, !.last = NULL, !.where = "mol"] \in Hands
  <2>1. Lattice[1] \in Boxes
    BY WaterAssumption DEF Mols
  <2> QED BY <1>2, <2>1, HandSteps, Zenon
<1>5. b \in Hands /\ (b.where = "head" \/ (b.where = "mol" /\ b.curr \in Mols /\ b.box = a.box))
  <2>1. CASE n = NULL
    BY <1>1, <1>2, <1>4, <2>1 DEF Hands
  <2>2. CASE n # NULL
    BY <1>1, <1>2, <1>4, <2>2 DEF Hands
  <2> QED BY <2>1, <2>2
<1> HIDE DEF b
<1>6. UNCHANGED <<list, next, boxlock, pos, met, scaled, corrected, counted, VIR, SUM, POT, pc,
                  step, crossed, overtaken>>
  BY DEF ReadList, lists, done, sums
<1> QED BY <1>1, <1>3, <1>5, <1>6, Types, WalkFrame DEF Frame

LEMMA OnceType ==
    ASSUME NEW f \in [Mols -> 0 .. Often], NEW m \in Mols
    PROVE  [f EXCEPT ![m] = Once(f[m])] \in [Mols -> 0 .. Often]
BY DEF Once, UpTo, Often

\* One step further in the list.
LEMMA StepOn ==
    ASSUME Frame, NEW p \in Procs, pc[p] \in Walks, at[p].where = "mol",
           at[p].box <= Len(MyBoxes[p]), Step(p)
    PROVE  /\ Onto(at[p], next[at[p].curr]) \in Hands
           /\ at' = [at EXCEPT ![p] = Onto(at[p], next[at[p].curr])]
           /\ next[at[p].curr] \in Mols \cup {NULL}
           /\ \/ Onto(at[p], next[at[p].curr]).where = "head"
              \/ /\ Onto(at[p], next[at[p].curr]).where = "mol"
                 /\ Onto(at[p], next[at[p].curr]).curr \in Mols
                 /\ Onto(at[p], next[at[p].curr]).box = at[p].box
<1>1. at[p] \in Hands /\ at[p].curr \in Mols /\ next[at[p].curr] \in Mols \cup {NULL}
  BY WalkAt, Types DEF Frame
<1> QED BY <1>1, OntoHand DEF Step

LEMMA ScaleFrame ==
    ASSUME Frame, NEW p \in Procs, Scale(p)
    PROVE  Frame'
<1>1. /\ pc[p] \in Walks /\ at[p].where = "mol" /\ at[p].box <= Len(MyBoxes[p]) /\ Step(p)
      /\ UNCHANGED <<list, next, boxlock, pos, met, corrected, counted, VIR, SUM, POT, pc, step,
                     crossed, overtaken>>
  BY DEF Scale, In, Walks, lists, sums
<1>2. scaled' \in [Mols -> 0 .. Often]
  BY <1>1, WalkAt, OnceType, Types DEF Scale, Frame
<1> QED BY <1>1, <1>2, StepOn, WalkFrame, Types DEF Frame

LEMMA CorrectFrame ==
    ASSUME Frame, NEW p \in Procs, Correct(p)
    PROVE  Frame'
<1>1. /\ pc[p] \in Walks /\ at[p].where = "mol" /\ at[p].box <= Len(MyBoxes[p]) /\ Step(p)
      /\ UNCHANGED <<list, next, boxlock, met, scaled, counted, VIR, SUM, POT, pc, step,
                     crossed, overtaken>>
  BY DEF Correct, In, Walks, lists, sums
<1>2. at[p].curr \in Mols
  BY <1>1, WalkAt
<1>3. corrected' \in [Mols -> 0 .. Often]
  BY <1>2, OnceType, Types DEF Correct, Frame
<1>4. pos' \in [Mols -> Boxes]
  BY <1>2, Types, WaterAssumption DEF Correct, Frame
<1> QED BY <1>1, <1>3, <1>4, StepOn, WalkFrame, Types DEF Frame

LEMMA CountFrame ==
    ASSUME Frame, NEW p \in Procs, Count(p)
    PROVE  Frame'
<1>1. /\ pc[p] \in Walks /\ at[p].where = "mol" /\ at[p].box <= Len(MyBoxes[p]) /\ Step(p)
      /\ UNCHANGED <<list, next, boxlock, pos, met, scaled, corrected, VIR, SUM, POT, pc, step,
                     crossed, overtaken>>
  BY DEF Count, In, Walks, lists, sums
<1>2. counted' \in [Mols -> 0 .. Often]
  BY <1>1, WalkAt, OnceType, Types DEF Count, Frame
<1> QED BY <1>1, <1>2, StepOn, WalkFrame, Types DEF Frame

LEMMA InspectFrame ==
    ASSUME Frame, NEW p \in Procs, Inspect(p)
    PROVE  Frame'
<1> DEFINE a == at[p]
           m == a.curr
           out == [a EXCEPT !.nxt = next[m], !.to = pos[m], !.where = "unlink"]
           b == IF pos[m] # Here(p) THEN out ELSE Onto([a EXCEPT !.last = m], next[m])
<1>1. /\ pc[p] = "bndry" /\ pc[p] \in Walks /\ a.where = "mol" /\ a.box <= Len(MyBoxes[p])
      /\ UNCHANGED <<list, next, boxlock, pos, met, scaled, corrected, counted, VIR, SUM, POT, pc,
                     step, crossed, overtaken>>
  BY DEF Inspect, In, Walks, lists, sums, done
<1>2. a \in Hands /\ m \in Mols /\ next[m] \in Mols \cup {NULL} /\ pos[m] \in Boxes
  BY <1>1, WalkAt, Types DEF Frame
<1>3. at' = [at EXCEPT ![p] = b]
  BY DEF Inspect
<1> HIDE DEF a
<1>4. out \in Hands /\ [a EXCEPT !.last = m] \in Hands
  BY <1>2, HandSteps, Zenon
<1>5. b \in Hands /\ (b.where = "head" \/ (b.curr \in Mols /\ b.box = a.box))
  <2>1. CASE pos[m] # Here(p)
    BY <1>2, <1>4, <2>1 DEF Hands
  <2>2. CASE pos[m] = Here(p)
    <3> DEFINE c == [a EXCEPT !.last = m]
    <3>1. c \in Hands /\ c.box = a.box
      BY <1>2, <1>4 DEF Hands
    <3> HIDE DEF c
    <3>2. Onto(c, next[m]) \in Hands /\ (\/ Onto(c, next[m]).where = "head"
                                         \/ /\ Onto(c, next[m]).curr \in Mols
                                            /\ Onto(c, next[m]).box = a.box)
      BY <1>2, <3>1, OntoHand
    <3> QED BY <2>2, <3>2 DEF c
  <2> QED BY <2>1, <2>2
<1> HIDE DEF b, m, out
<1> QED BY <1>1, <1>3, <1>5, Types, WalkFrame DEF Frame, a

LEMMA UnlinkFrame ==
    ASSUME Frame, NEW p \in Procs, Unlink(p)
    PROVE  Frame'
<1> DEFINE a == at[p]
           b == [a EXCEPT !.where = "insert"]
<1>1. /\ pc[p] = "bndry" /\ pc[p] \in Walks /\ a.where = "unlink" /\ a.box <= Len(MyBoxes[p])
      /\ UNCHANGED <<boxlock, pos, met, scaled, corrected, counted, VIR, SUM, POT, pc,
                     step, crossed, overtaken>>
  BY DEF Unlink, In, Walks, lists, sums, done
<1>2. /\ a \in Hands /\ a.curr \in Mols /\ next[a.curr] \in Mols \cup {NULL}
      /\ a.last \in Mols \cup {NULL} /\ Here(p) \in Boxes
  BY <1>1, WalkAt, Types DEF Frame
<1>3. at' = [at EXCEPT ![p] = b]
  BY DEF Unlink
<1>4. list' \in [Boxes -> Mols \cup {NULL}] /\ next' \in [Mols -> Mols \cup {NULL}]
  BY <1>2, Types DEF Unlink, Frame
<1> HIDE DEF a
<1>5. b \in Hands /\ b.curr \in Mols /\ b.box = a.box
  <2>1. Lattice[1] \in Boxes
    BY WaterAssumption DEF Mols
  <2>2. b \in Hands
    BY <1>2, <2>1, HandSteps, Zenon
  <2> QED BY <1>2, <2>2 DEF Hands
<1> HIDE DEF b
<1> QED BY <1>1, <1>3, <1>4, <1>5, Types, WalkFrame DEF Frame, a

LEMMA InsertFrame ==
    ASSUME Frame, NEW p \in Procs, Insert(p)
    PROVE  Frame'
<1> DEFINE a == at[p]
           n == list[a.to]
           b == [a EXCEPT !.temp = n, !.where = "link"]
<1>1. /\ pc[p] = "bndry" /\ pc[p] \in Walks /\ a.where = "insert" /\ a.box <= Len(MyBoxes[p])
      /\ UNCHANGED <<next, pos, met, scaled, corrected, counted, VIR, SUM, POT, pc, step>>
  BY DEF Insert, In, Walks, sums, done
<1>2. a \in Hands /\ a.curr \in Mols /\ a.to \in Boxes /\ n \in Mols \cup {NULL}
  BY <1>1, WalkAt, Types DEF Frame
<1>3. at' = [at EXCEPT ![p] = b]
  BY DEF Insert
<1>4. /\ list' \in [Boxes -> Mols \cup {NULL}] /\ boxlock' \in [Boxes -> BOOLEAN]
      /\ crossed' \subseteq Mols /\ overtaken' \in BOOLEAN
  BY <1>2, Types DEF Insert, Frame
<1> HIDE DEF a, n
<1>5. b \in Hands /\ b.curr \in Mols /\ b.box = a.box
  <2>1. Lattice[1] \in Boxes
    BY WaterAssumption DEF Mols
  <2>2. b \in Hands
    BY <1>2, <2>1, HandSteps, Zenon
  <2> QED BY <1>2, <2>2 DEF Hands
<1> HIDE DEF b
<1> QED BY <1>1, <1>3, <1>4, <1>5, Types, WalkFrame DEF Frame, a

LEMMA LinkFrame ==
    ASSUME Frame, NEW p \in Procs, Link(p)
    PROVE  Frame'
<1> DEFINE a == at[p]
           b == Onto(a, a.nxt)
<1>1. /\ pc[p] = "bndry" /\ pc[p] \in Walks /\ a.where = "link" /\ a.box <= Len(MyBoxes[p])
      /\ UNCHANGED <<list, pos, met, scaled, corrected, counted, VIR, SUM, POT, pc, step,
                     crossed, overtaken>>
  BY DEF Link, In, Walks, sums, done
<1>2. /\ a \in Hands /\ a.curr \in Mols /\ a.to \in Boxes /\ a.nxt \in Mols \cup {NULL}
      /\ a.temp \in Mols \cup {NULL}
  BY <1>1, WalkAt
<1>3. at' = [at EXCEPT ![p] = b]
  BY DEF Link
<1>4. next' \in [Mols -> Mols \cup {NULL}] /\ boxlock' \in [Boxes -> BOOLEAN]
  BY <1>2, Types DEF Link, Frame
<1> HIDE DEF a
<1>5. b \in Hands /\ (b.where = "head" \/ (b.curr \in Mols /\ b.box = a.box))
  BY <1>2, OntoHand
<1> HIDE DEF b
<1> QED BY <1>1, <1>3, <1>4, <1>5, Types, WalkFrame DEF Frame, a

LEMMA EndWalkFrame ==
    ASSUME Frame, NEW p \in Procs, EndWalk(p)
    PROVE  Frame'
<1> DEFINE b == Nowhere
<1>1. /\ pc[p] \in Walks /\ pc' = [pc EXCEPT ![p] = AfterWalk(p)]
      /\ UNCHANGED <<list, next, boxlock, pos, met, scaled, corrected, counted, VIR, SUM, POT, step,
                     crossed, overtaken>>
      /\ at' = [at EXCEPT ![p] = b]
  BY DEF EndWalk, Goto, lists, sums, done
<1>2. /\ pc \in [Procs -> Labels] /\ at \in [Procs -> Hands] /\ step[p] = step[0]
  BY Types DEF Frame, StageInv
<1>3. b \in Hands /\ b.where = "head" /\ b.box = 1
  <2>1. Lattice[1] \in Boxes
    BY WaterAssumption DEF Mols
  <2> QED BY <2>1 DEF Nowhere, Hands
<1> HIDE DEF b
<1>4. /\ pc[p] = "scale" => AfterWalk(p) = IF step[0] = 0 THEN "b_init" ELSE "correct"
      /\ pc[p] = "correct" => AfterWalk(p) = "bndry"
      /\ pc[p] = "bndry" => AfterWalk(p) = "kineti"
      /\ pc[p] = "kineti" => AfterWalk(p) = "sum"
  BY <1>2 DEF AfterWalk
<1>5. AfterWalk(p) \in Labels /\ pc' \in [Procs -> Labels]
  BY <1>1, <1>2, <1>4 DEF Labels, Walks, Barriers
<1>6. StageInv'
  <2>1. CASE pc[p] = "scale" /\ step[0] = 0
    <3>1. FirstStage
      BY <2>1, WhichStage DEF Frame, WalkStage
    <3>2. FirstStage'
      BY <1>1, <1>2, <1>4, <2>1, <3>1 DEF FirstStage, Stage, Sums
    <3> QED BY <1>1, <3>2 DEF StageInv, Frame
  <2>2. CASE ~(pc[p] = "scale" /\ step[0] = 0)
    <3>1. WalkStage
      BY <1>1, <2>2, WhichStage DEF Frame, FirstStage, Walks
    <3>2. WalkStage'
      BY <1>1, <1>2, <1>4, <2>2, <3>1 DEF WalkStage, Stage, Walks
    <3> QED BY <1>1, <3>2 DEF StageInv, Frame
  <2> QED BY <2>1, <2>2
<1>7. at' \in [Procs -> Hands] /\ at'[p] = b /\ \A q \in Procs : q # p => at'[q] = at[q]
  BY <1>1, <1>2, <1>3
<1>8. AtInv'
  BY <1>1, <1>2, <1>3, <1>7 DEF Frame, AtInv
<1>9. TypeOK'
  BY <1>1, <1>5, <1>7 DEF Frame, TypeOK, Hands, Labels
<1> QED BY <1>6, <1>8, <1>9 DEF Frame

\* At a barrier nobody holds anything.
LEMMA PassFrame ==
    ASSUME Frame, Pass
    PROVE  Frame'
<1>1. PICK label \in Barriers, to \in Labels :
        /\ <<label, to>> \in {<<"b_intra", "interf">>, <<"b_top", "predic">>,
                              <<"b_interf", "scale">>, <<"b_kineti", "totals">>,
                              <<"b_poteng", "poteng2">>, <<"b_energy", "energy">>}
        /\ Open(label, to)
  BY DEF Pass, Labels, Walks, Barriers
<1>2. /\ AllAt(label) /\ pc' = [p \in Procs |-> to]
      /\ UNCHANGED <<list, next, boxlock, pos, met, VIR, SUM, POT, step, at, overtaken>>
  BY <1>1 DEF Open, lists, sums
<1>3. /\ scaled' \in [Mols -> 0 .. Often] /\ corrected' \in [Mols -> 0 .. Often]
      /\ counted' \in [Mols -> 0 .. Often] /\ crossed' \subseteq Mols
  BY Types DEF Pass, Frame, done, Often
<1>4. pc[0] = label /\ pc'[0] = to
  BY <1>2, Grid DEF AllAt
<1>5. StageInv'
  <2>1. CASE label = "b_intra"
    <3>1. ForcesStage /\ to = "interf"
      BY <1>1, <1>4, <2>1, WhichStage, Grid DEF Frame
    <3>2. PairsStage'
      BY <1>2, <2>1, <3>1 DEF ForcesStage, PairsStage, Stage, AllAt
    <3> QED BY <1>2, <3>2 DEF StageInv, Frame
  <2>2. CASE label = "b_top"
    <3>1. TopStage /\ to = "predic"
      BY <1>1, <1>4, <2>2, WhichStage, Grid DEF Frame
    <3>2. Stage({"predic", "b_intra"})' /\ Sums(0, 0, 0)'
      BY <1>2, <1>4, <2>2, <3>1 DEF TopStage, Stage, Sums
    <3>3. ForcesStage'
      BY <1>2, <3>1, <3>2 DEF ForcesStage, Sums
    <3> QED BY <1>2, <3>3 DEF StageInv, Frame
  <2>3. CASE label = "b_interf"
    <3>1. PairsStage /\ to = "scale"
      BY <1>1, <1>4, <2>3, WhichStage, Grid DEF Frame
    <3>2. Sums(2, 0, 0)' /\ Stage({"scale"})'
      BY <1>2, <2>3, <3>1 DEF PairsStage, Stage, AllAt, Sums
    <3>3. step[0] \in 0 .. NSTEP /\ 0 <= step[0]
      BY Types, Grid DEF Frame
    <3>4. CASE step[0] = 0
      <4>1. FirstStage'
        BY <1>2, <3>2, <3>4 DEF FirstStage, Stage
      <4> QED BY <1>2, <4>1 DEF StageInv, Frame
    <3>5. CASE step[0] # 0
      <4>1. step'[0] > 0
        BY <1>2, <3>3, <3>5, WaterAssumption
      <4>2. WalkStage'
        BY <1>2, <3>1, <3>2, <4>1 DEF WalkStage, Stage, Sums, Walks
      <4> QED BY <1>2, <4>2 DEF StageInv, Frame
    <3> QED BY <3>4, <3>5
  <2>4. CASE label = "b_kineti"
    <3>1. WalkStage /\ to = "totals"
      BY <1>1, <1>4, <2>4, WhichStage, Grid DEF Frame
    <3>2. TotalsStage'
      BY <1>2, <2>4, <3>1 DEF WalkStage, TotalsStage, Stage, AllAt, Sums
    <3> QED BY <1>2, <3>2 DEF StageInv, Frame
  <2>5. CASE label = "b_poteng"
    <3>1. TotalsStage /\ to = "poteng2"
      BY <1>1, <1>4, <2>5, WhichStage, Grid DEF Frame
    <3>2. PotengStage'
      BY <1>2, <2>5, <3>1 DEF PotengStage, TotalsStage, Stage, AllAt, Sums
    <3> QED BY <1>2, <3>2 DEF StageInv, Frame
  <2>6. CASE label = "b_energy"
    <3>1. PotengStage /\ to = "energy"
      BY <1>1, <1>4, <2>6, WhichStage, Grid DEF Frame
    <3>2. EnergyStage'
      BY <1>2, <2>6, <3>1 DEF PotengStage, EnergyStage, Stage, AllAt
    <3> QED BY <1>2, <3>2 DEF StageInv, Frame
  <2> QED BY <1>1, <2>1, <2>2, <2>3, <2>4, <2>5, <2>6
<1>6. AtInv'
  <2>1. \A p \in Procs : at[p].box = 1 /\ at[p].where = "head"
    BY <1>2 DEF Frame, AtInv, AllAt, Walks, Barriers
  <2> QED BY <1>2, <2>1 DEF AtInv
<1>7. TypeOK'
  BY <1>2, <1>3 DEF Frame, TypeOK, Labels
<1> QED BY <1>5, <1>6, <1>7 DEF Frame

LEMMA NextStepFrame ==
    ASSUME Frame, NextStep
    PROVE  Frame'
<1>1. PICK label \in {"b_init", "b_end"} : AllAt(label)
  BY DEF NextStep
<1>2. UNCHANGED <<list, next, boxlock, pos, met, scaled, corrected, counted, VIR, SUM, POT, at,
                  crossed, overtaken>>
  BY DEF NextStep, lists, done, sums
<1>3. step \in [Procs -> 0 .. NSTEP] /\ step[0] \in 0 .. NSTEP /\ NSTEP \in Nat
  BY Types, Grid, WaterAssumption DEF Frame
<1>4. \/ /\ pc' = [p \in Procs |-> "top"] /\ step[0] < NSTEP
         /\ step' = [p \in Procs |-> step[p] + 1]
      \/ pc' = [p \in Procs |-> "done"] /\ UNCHANGED step
  BY DEF NextStep
<1>5. \A p \in Procs : step[p] = step[0]
  BY DEF Frame, StageInv
<1>6. step' \in [Procs -> 0 .. NSTEP] /\ \A p \in Procs : step'[p] = step'[0]
  <2>1. CASE UNCHANGED step
    BY <1>3, <1>5, <2>1
  <2>2. CASE step[0] < NSTEP /\ step' = [p \in Procs |-> step[p] + 1]
    <3>1. step[0] + 1 \in 0 .. NSTEP
      BY <1>3, <2>2
    <3> QED BY <1>5, <2>2, <3>1, Grid
  <2> QED BY <1>4, <2>1, <2>2
<1>7. StageInv'
  BY <1>4, <1>6, Grid DEF StageInv, TopStage, Stage
<1>8. AtInv'
  <2>1. \A p \in Procs : at[p].box = 1 /\ at[p].where = "head"
    BY <1>1 DEF Frame, AtInv, AllAt, Walks
  <2> QED BY <1>2, <2>1 DEF AtInv
<1>9. TypeOK'
  <2>1. pc' \in [Procs -> Labels]
    BY <1>4 DEF Labels
  <2> QED BY <1>2, <1>6, <2>1 DEF Frame, TypeOK, Labels
<1> QED BY <1>7, <1>8, <1>9 DEF Frame

LEMMA InitFrame ==
    ASSUME Init
    PROVE  Frame
<1>1. \A S \in SUBSET Mols, m \in Mols \cup {NULL} : After(S, m) \in Mols \cup {NULL}
  BY DEF After
<1>2. /\ list \in [Boxes -> Mols \cup {NULL}] /\ next \in [Mols -> Mols \cup {NULL}]
  <2>1. ASSUME NEW b \in Boxes
        PROVE  After({m \in Mols : Lattice[m] = b}, 0) \in Mols \cup {NULL}
    BY <1>1 DEF NULL
  <2>2. ASSUME NEW m \in Mols
        PROVE  After({n \in Mols : Lattice[n] = Lattice[m]}, m) \in Mols \cup {NULL}
    BY <1>1
  <2> QED BY <2>1, <2>2 DEF Init
<1>3. Nowhere \in Hands /\ Nowhere.box = 1 /\ Nowhere.where = "head"
  <2>1. Lattice[1] \in Boxes
    BY WaterAssumption DEF Mols
  <2> QED BY <2>1 DEF Nowhere, Hands
<1>4. \A p \in Procs : at[p] = Nowhere
  BY DEF Init
<1>5. at \in [Procs -> Hands]
  BY <1>3 DEF Init
<1>6. TypeOK
  <2>1. /\ pc \in [Procs -> Labels] /\ step \in [Procs -> 0 .. NSTEP]
        /\ VIR \in [Procs -> 0 .. 2] /\ SUM \in [Procs -> 0 .. 1] /\ POT \in [Procs -> 0 .. 1]
    BY WaterAssumption DEF Init, Labels
  <2>2. /\ scaled \in [Mols -> 0 .. Often] /\ corrected \in [Mols -> 0 .. Often]
        /\ counted \in [Mols -> 0 .. Often]
    BY DEF Init, Often
  <2>3. met \in [Mols -> [Mols -> 0 .. Often]]
    BY DEF Init, Often
  <2>4. /\ boxlock \in [Boxes -> BOOLEAN] /\ pos \in [Mols -> Boxes]
        /\ crossed \subseteq Mols /\ overtaken \in BOOLEAN
    BY WaterAssumption DEF Init
  <2> QED BY <1>2, <1>5, <2>1, <2>2, <2>3, <2>4, Types
<1>7. AtInv
  BY <1>3, <1>4 DEF Init, AtInv, Walks
<1>8. StageInv
  <2>1. ForcesStage
    BY DEF Init, ForcesStage, Stage
  <2> QED BY <2>1, Grid DEF Init, StageInv
<1> QED BY <1>6, <1>7, <1>8 DEF Frame

LEMMA NextFrame ==
    ASSUME Frame, [Next]_vars
    PROVE  Frame'
<1>1. ASSUME UNCHANGED vars
      PROVE  Frame'
  <2>1. UNCHANGED <<list, next, boxlock, pos, met, scaled, corrected, counted, VIR, SUM, POT, pc,
                    step, at, crossed, overtaken>>
    BY <1>1 DEF vars, lists, done, sums
  <2>2. StageInv'
    BY <2>1 DEF Frame, StageInv, ForcesStage, PairsStage, FirstStage, WalkStage, TotalsStage,
                PotengStage, EnergyStage, TopStage, Stage, Sums
  <2>3. AtInv'
    BY <2>1 DEF Frame, AtInv
  <2>4. TypeOK'
    BY <2>1 DEF Frame, TypeOK
  <2> QED BY <2>2, <2>3, <2>4 DEF Frame
<1>2. ASSUME NEW p \in Procs, ProcStep(p)
      PROVE  Frame'
  BY <1>2, IntrafFrame, InterfFrame, ReadListFrame, ScaleFrame, CorrectFrame, CountFrame,
     EndWalkFrame, InspectFrame, UnlinkFrame, InsertFrame, LinkFrame, TopFrame, KinetiFrame,
     TotalsFrame, PotengFrame, EnergyFrame DEF ProcStep
<1> QED BY <1>1, <1>2, PassFrame, NextStepFrame DEF Next

-----------------------------------------------------------------------------
(* The lists: what one process' step leaves alone.                         *)

\* Molecules that nobody puts in or takes out stay where they are.
LEMMA HandsKept ==
    ASSUME NEW h, NEW r, Ordered(h, r), UNCHANGED <<list, next>>,
           \A q \in Procs : \A w \in {"insert", "link"} :
              /\ Busy(q, w)' <=> Busy(q, w)
              /\ Busy(q, w) => /\ at'[q].curr = at[q].curr /\ at'[q].to = at[q].to
                               /\ at'[q].temp = at[q].temp
    PROVE  /\ Loose' = Loose /\ \A m : Linking(m)' <=> Linking(m)
           /\ \A b : Listed(h, b)' = Listed(h, b)
           /\ Ordered(h, r)'
<1>1. /\ \A q \in Procs : Busy(q, "insert")' <=> Busy(q, "insert")
      /\ \A q \in Procs : Busy(q, "link")' <=> Busy(q, "link")
      /\ \A q \in Procs : Busy(q, "insert") => at'[q].curr = at[q].curr
      /\ \A q \in Procs : Busy(q, "link") =>
            at'[q].curr = at[q].curr /\ at'[q].to = at[q].to /\ at'[q].temp = at[q].temp
  OBVIOUS
<1> HIDE DEF Busy
<1>2. Loose' = Loose
  BY <1>1, Zenon DEF Loose
<1>3. \A m : Linking(m)' <=> Linking(m)
  BY <1>1, Zenon DEF Linking
<1>4. \A b : Listed(h, b)' = Listed(h, b)
  BY <1>2 DEF Listed
<1>5. \A m : Below(h, r, m)' = Below(h, r, m)
  BY <1>4 DEF Below
<1>6. Ordered(h, r)'
  <2>1. \A b \in Boxes : Highest(r, Listed(h, b)', list'[b])
    BY <1>4 DEF Ordered
  <2>2. \A m \in Mols \ Loose' : ~Linking(m)' => Highest(r, Below(h, r, m)', next'[m])
    BY <1>2, <1>3, <1>5 DEF Ordered
  <2>3. ASSUME NEW q \in Procs, Busy(q, "link")'
        PROVE  /\ at'[q].curr \notin Loose' /\ h[at'[q].curr] = at'[q].to
               /\ Highest(r, Below(h, r, at[q].curr)', at'[q].temp)
    BY <1>1, <1>2, <1>5, <2>3 DEF Ordered
  <2> QED BY <2>1, <2>2, <2>3 DEF Ordered, Highest
<1> QED BY <1>2, <1>3, <1>4, <1>6

\* What has been done to a molecule stays true while its keeper stays where it is.
LEMMA ProgressKept ==
    ASSUME NEW h, NEW r, NEW g, NEW s, NEW m, Progress(h, r, m), g[m] = h[m],
           pc'[Keeper(h, m)] = pc[Keeper(h, m)],
           pc[Keeper(h, m)] \in {"scale", "correct", "bndry"}
              \/ (pc[Keeper(h, m)] = "kineti" /\ crossed' = {})
              => (Passed(g, s, m)' <=> Passed(h, r, m)),
           UNCHANGED <<pos[m], scaled[m], corrected[m]>>,
           crossed' = {} => crossed = {} /\ counted'[m] = counted[m]
    PROVE  Progress(g, s, m)'
<1>1. Keeper(g, m) = Keeper(h, m)
  BY DEF Keeper
<1> DEFINE p == Keeper(h, m)
<1> HIDE DEF p
<1>2. CASE pc[p] \in {"scale", "correct", "bndry"} \/ (pc[p] = "kineti" /\ crossed' = {})
  <2>1. Passed(g, s, m)' <=> Passed(h, r, m)
    BY <1>2 DEF p
  <2> HIDE DEF Passed
  <2> QED BY <1>1, <2>1 DEF Progress, p
<1>3. CASE ~(pc[p] \in {"scale", "correct", "bndry"} \/ (pc[p] = "kineti" /\ crossed' = {}))
  BY <1>1, <1>3 DEF Progress, p
<1> QED BY <1>2, <1>3

\* A step that neither walks nor changes a list.
LEMMA QuietStep ==
    ASSUME Frame, NEW h, NEW r, ListInv(h, r),
           UNCHANGED <<list, next, pos, scaled, corrected, counted, at, crossed>>,
           \A q \in Procs : \/ pc'[q] = pc[q]
                            \/ /\ pc[q] \notin Walks /\ pc'[q] \notin Walks
                               /\ pc'[q] \in {"sum", "b_kineti"} => pc[q] \in {"sum", "b_kineti"}
    PROVE  Ordered(h, r)' /\ Moving' /\ Walking(h)' /\ Done(h, r)'
<1>1. \A q \in Procs : \A w : Busy(q, w)' <=> Busy(q, w)
  BY DEF Busy, Walks
<1>2. /\ Loose' = Loose /\ (\A b : Listed(h, b)' = Listed(h, b))
      /\ Ordered(h, r)'
  BY <1>1, HandsKept DEF ListInv
<1>3. \A q \in Procs : Here(q)' = Here(q) /\ Cursor(q)' = Cursor(q)
  BY DEF Here, Cursor
<1>4. \A q \in Procs, b \in Boxes : Ahead(q, b)' <=> Ahead(q, b)
  BY DEF Ahead, Walks
<1>5. Moving'
  <2> SUFFICES ASSUME NEW q \in Procs, pc'[q] = "bndry"
               PROVE  /\ at[q].where \in {"unlink", "insert", "link"} =>
                            at[q].to = pos[at[q].curr] /\ at[q].to # Here(q)
                      /\ at[q].where = "unlink" => at[q].nxt = next[at[q].curr]
                      /\ at[q].where \in {"insert", "link"} => \A p \in Procs :
                            (Busy(p, "insert") \/ Busy(p, "link")) /\ at[p].curr = at[q].curr => p = q
                      /\ at[q].where = "link" /\ Owner[at[q].to] # q =>
                            ~Ahead(Owner[at[q].to], at[q].to)' /\ at[q].curr \in crossed
    BY <1>1, <1>3 DEF Moving, Moves
  <2>1. pc[q] = "bndry"
    BY DEF Walks
  <2>2. at[q].to \in Boxes /\ Owner[at[q].to] \in Procs
    BY Types, Grid DEF Frame, Hands
  <2>3. Ahead(Owner[at[q].to], at[q].to)' <=> Ahead(Owner[at[q].to], at[q].to)
    BY <1>4, <2>2
  <2> HIDE DEF Ahead, Busy, Here
  <2> QED BY <2>1, <2>3 DEF ListInv, Moving, Moves
<1>6. Walking(h)'
  <2> SUFFICES ASSUME NEW q \in Procs, Alone(q)', at'[q].where # "head"
               PROVE  /\ Cursor(q)' # NULL => Cursor(q)' \in Listed(h, Here(q))'
                      /\ pc'[q] = "bndry" => IF at'[q].last = NULL THEN list'[Here(q)'] = Cursor(q)'
                              ELSE at'[q].last \in Listed(h, Here(q))' /\ next'[at'[q].last] = Cursor(q)'
    BY DEF Walking, Follows
  <2>1. pc'[q] = pc[q] /\ Alone(q)
    BY DEF Alone, Walks
  <2> QED BY <1>2, <1>3, <2>1 DEF Walking, Follows, ListInv
<1>7. Done(h, r)'
  <2>1. ASSUME NEW m \in Mols \ Loose
        PROVE  Progress(h, r, m)'
    <3> DEFINE q == Keeper(h, m)
    <3>1. q \in Procs /\ Progress(h, r, m)
      BY Grid DEF Keeper, ListInv, Ranks, Done
    <3>2. Passed(h, r, m)' <=> Passed(h, r, m)
      BY <1>3, <3>1 DEF Passed, Behind
    <3>3. CASE pc'[q] = pc[q]
      <4> HIDE DEF Passed, Progress, Keeper
      <4> QED BY <3>1, <3>2, <3>3, ProgressKept
    <3>4. CASE pc'[q] # pc[q]
      <4>1. /\ pc[q] \notin Walks /\ pc'[q] \notin Walks
            /\ pc'[q] \in {"sum", "b_kineti"} => pc[q] \in {"sum", "b_kineti"}
        BY <3>1, <3>4
      <4> HIDE DEF Passed, Keeper
      <4> QED BY <3>1, <4>1 DEF Progress, Walks
    <3> QED BY <3>3, <3>4
  <2>2. \A m \in Loose : scaled[m] = 1 /\ corrected[m] = 1 /\ (crossed = {} => counted[m] = 0)
    BY DEF ListInv, Done
  <2> QED BY <1>2, <2>1, <2>2 DEF Done
<1> QED BY <1>2, <1>5, <1>6, <1>7

\* While a process walks alone nobody links a molecule into its list.
LEMMA AloneInList ==
    ASSUME Frame, NEW h, NEW r, ListInv(h, r), NEW p \in Procs, Alone(p),
           at[p].box <= Len(MyBoxes[p])
    PROVE  /\ \A q \in Procs : Busy(q, "link") => at[q].to # Here(p)
           /\ \A m \in Listed(h, Here(p)) : ~Linking(m) /\ Highest(r, Below(h, r, m), next[m])
<1>1. at[p].box \in 1 .. Len(MyBoxes[p]) /\ Here(p) \in Boxes /\ Owner[Here(p)] = p
  BY WalkAt DEF Alone, Walks
<1>2. ASSUME NEW q \in Procs, Busy(q, "link"), at[q].to = Here(p)
      PROVE  FALSE
  <2>1. q # p
    BY <1>2 DEF ListInv, Moving, Moves, Busy
  <2>2. ~Ahead(p, Here(p)) /\ at[q].curr \in crossed
    BY <1>1, <1>2, <2>1 DEF ListInv, Moving, Moves, Busy
  <2>3. pc[p] \in {"scale", "correct", "bndry"} => Ahead(p, Here(p))
    <3>1. at[p].box \in at[p].box .. Len(MyBoxes[p])
      BY <1>1, Grid
    <3> QED BY <3>1 DEF Ahead, Here
  <2> QED BY <2>2, <2>3 DEF Alone
<1>3. ASSUME NEW m \in Listed(h, Here(p))
      PROVE  ~Linking(m) /\ Highest(r, Below(h, r, m), next[m])
  <2>1. h[m] = Here(p) /\ m \in Mols \ Loose
    BY DEF Listed
  <2>2. ~Linking(m)
    BY <1>2, <2>1 DEF Linking, ListInv, Ordered
  <2> QED BY <2>1, <2>2 DEF ListInv, Ordered
<1> QED BY <1>2, <1>3

\* The next molecule of the list: the walk has passed the same molecules, and this one.
LEMMA NextInList ==
    ASSUME Frame, NEW h, NEW r, ListInv(h, r), NEW p \in Procs, Alone(p),
           at[p].box <= Len(MyBoxes[p]), NEW c \in Listed(h, Here(p))
    PROVE  /\ next[c] \in Mols \cup {NULL}
           /\ next[c] # NULL => next[c] \in Listed(h, Here(p)) /\ r[next[c]] < r[c]
           /\ \A m \in Listed(h, Here(p)) :
                (next[c] # NULL => r[m] > r[next[c]]) <=> (r[m] > r[c] \/ m = c)
<1>1. Highest(r, Below(h, r, c), next[c]) /\ c \in Mols /\ h[c] = Here(p)
  BY AloneInList DEF Listed
<1>2. next[c] \in Mols \cup {NULL}
  BY <1>1, Types DEF Frame
<1>3. /\ r \in [Mols -> Nat] /\ \A m, n \in Mols : r[m] = r[n] => m = n
  BY DEF ListInv, Ranks
<1>4. Below(h, r, c) = {k \in Listed(h, Here(p)) : r[k] < r[c]}
  BY <1>1 DEF Below
<1>5. Listed(h, Here(p)) \subseteq Mols
  BY DEF Listed
<1>6. CASE next[c] = NULL
  <2>1. \A k \in Listed(h, Here(p)) : ~(r[k] < r[c])
    BY <1>1, <1>4, <1>6 DEF Highest
  <2>2. \A k \in Listed(h, Here(p)) : r[k] > r[c] \/ k = c
    BY <1>1, <1>3, <1>5, <2>1
  <2> QED BY <1>2, <1>6, <2>2
<1>7. CASE next[c] # NULL
  <2>1. /\ next[c] \in Listed(h, Here(p)) /\ r[next[c]] < r[c]
        /\ \A k \in Listed(h, Here(p)) : r[k] < r[c] => r[k] <= r[next[c]]
    BY <1>1, <1>4, <1>7 DEF Highest
  <2>2. ASSUME NEW m \in Listed(h, Here(p))
        PROVE  r[m] > r[next[c]] <=> (r[m] > r[c] \/ m = c)
    <3>1. r[m] \in Nat /\ r[c] \in Nat /\ r[next[c]] \in Nat /\ (r[m] = r[c] => m = c)
      BY <1>1, <1>3, <1>5, <2>1
    <3>2. r[m] < r[c] => r[m] <= r[next[c]]
      BY <2>1
    <3> QED BY <2>1, <3>1, <3>2
  <2> QED BY <1>2, <1>7, <2>1, <2>2
<1> QED BY <1>6, <1>7

-----------------------------------------------------------------------------
(* What a walk finds while nobody changes the lists.                       *)
\* A set that is not empty has a member with the lowest rank.
LEMMA Lowest ==
    ASSUME NEW S, NEW f, S # {}, \A x \in S : f[x] \in Nat
    PROVE  \E x \in S : \A y \in S : f[x] <= f[y]
<1> DEFINE T == {f[x] : x \in S}
<1>1. T \subseteq Nat /\ T # {}
  OBVIOUS
<1>2. PICK n \in T : \A k \in T : n <= k
  <2> DEFINE R == OpToRel(LAMBDA x, y : x < y, Nat)
  <2>1. IsWellFoundedOn(R, Nat)
    BY NatLessThanWellFounded
  <2>2. PICK n \in T : \A k \in T : <<k, n>> \notin R
    <3> HIDE DEF T, R
    <3> QED BY <1>1, <2>1, WFMin, Zenon
  <2>3. \A k \in T : ~ (k < n)
    BY <1>1, <2>2 DEF OpToRel
  <2> HIDE DEF T, R
  <2>4. ASSUME NEW k \in T
        PROVE  n <= k
    <3>1. k \in Nat /\ n \in Nat /\ ~ (k < n)
      BY <1>1, <2>3
    <3> QED BY <3>1
  <2> QED BY <2>4
<1> QED BY <1>2

\* With nobody in BNDRY the walk over a list comes to all that is in it, and to
\* its end.
LEMMA ListWalked ==
    ASSUME Frame, NEW h, NEW r, ListInv(h, r), \A p \in Procs : pc[p] # "bndry", NEW b \in Boxes
    PROVE  Ends(b) /\ Members(b) = {m \in Mols : h[m] = b} /\ Loose = {}
<1>1. Loose = {} /\ (\A m : ~Linking(m)) /\ Listed(h, b) = {m \in Mols : h[m] = b}
  BY DEF Loose, Linking, Busy, Listed
<1> DEFINE L == Listed(h, b)
<1>2. /\ L \subseteq Mols /\ \A m \in L : h[m] = b /\ r[m] \in Nat
      /\ \A m, n \in L : r[m] = r[n] => m = n
  BY <1>1 DEF ListInv, Ranks
<1>3. /\ Highest(r, L, list[b])
      /\ \A m \in L : Highest(r, {k \in L : r[k] < r[m]}, next[m])
  BY <1>1 DEF ListInv, Ordered, Below
<1>4. list[b] \in Mols \cup {NULL}
  BY Types DEF Frame
<1>5. NULL \notin Mols
  BY DEF NULL, Mols
<1> HIDE DEF L
<1>6. ASSUME NEW m \in L, NEW S, m \notin S, Walked(b, S)
      PROVE  FALSE
  <2> DEFINE A == {k \in L : k \in S /\ r[k] > r[m]}
  <2>1. list[b] \in A
    <3>1. list[b] \in L /\ r[m] <= r[list[b]]
      BY <1>3, <1>6 DEF Highest
    <3>2. list[b] \in S
      BY <1>6 DEF Walked
    <3> QED BY <1>2, <1>6, <3>1, <3>2
  <2>2. \A x \in A : r[x] \in Nat
    BY <1>2
  <2>3. PICK k \in A : \A x \in A : r[k] <= r[x]
    <3> HIDE DEF A
    <3> QED BY <2>1, <2>2, Lowest
  <2>4. m \in {x \in L : r[x] < r[k]}
    BY <1>2, <2>3
  <2>5. next[k] \in L /\ r[next[k]] < r[k] /\ r[m] <= r[next[k]]
    BY <1>3, <2>3, <2>4 DEF Highest
  <2>6. next[k] \in S
    BY <1>2, <1>5, <1>6, <2>3 DEF Walked
  <2>7. next[k] \in A
    BY <1>2, <1>6, <2>5, <2>6
  <2>8. r[k] \in Nat /\ r[next[k]] \in Nat
    BY <1>2, <2>3, <2>5
  <2> QED BY <2>3, <2>5, <2>7, <2>8
<1>7. ASSUME NEW S, NULL \notin S, Walked(b, S)
      PROVE  FALSE
  <2> DEFINE A == {k \in L : k \in S}
  <2>1. list[b] \in A
    BY <1>3, <1>7 DEF Highest, Walked
  <2>2. \A x \in A : r[x] \in Nat
    BY <1>2
  <2>3. PICK k \in A : \A x \in A : r[k] <= r[x]
    <3> HIDE DEF A
    <3> QED BY <2>1, <2>2, Lowest
  <2>4. next[k] \in S
    BY <1>2, <1>5, <1>7, <2>3 DEF Walked
  <2>5. next[k] \in L /\ r[next[k]] < r[k]
    BY <1>3, <1>7, <2>3, <2>4 DEF Highest
  <2>6. r[k] \in Nat /\ r[next[k]] \in Nat
    BY <1>2, <2>3, <2>5
  <2> QED BY <2>3, <2>4, <2>5, <2>6
<1>8. ASSUME NEW m \in Mols \ L
      PROVE  ~Reaches(b, m)
  <2> DEFINE S == L \cup {NULL}
  <2>1. S \in SUBSET ((Mols \cup {NULL}) \ {m})
    BY <1>2, <1>5
  <2>2. list[b] \in S
    BY <1>3 DEF Highest
  <2>3. \A k \in S \ {NULL} : next[k] \in S
    <3>1. \A k \in L : next[k] \in S
      BY <1>3 DEF Highest
    <3> QED BY <3>1
  <2>4. Walked(b, S)
    BY <2>2, <2>3 DEF Walked
  <2> QED BY <2>1, <2>4 DEF Reaches
<1>9. Ends(b)
  BY <1>7 DEF Ends, Reaches
<1>10. \A m \in L : Reaches(b, m)
  BY <1>6 DEF Reaches
<1> QED BY <1>1, <1>2, <1>8, <1>9, <1>10 DEF Members, L

\* What a process meets: each molecule of its boxes those of the boxes that touch, once.
LEMMA MeetingsExact ==
    ASSUME Frame, NEW h, NEW r, ListInv(h, r), \A q \in Procs : pc[q] # "bndry",
           NEW p \in Procs, NEW m \in Mols, NEW n \in Mols, m # n
    PROVE  Cardinality(Meetings(p, m, n)) =
              IF Keeper(h, m) = p /\ Touch(h[m], h[n], BOX_PER_SIDE) THEN 1 ELSE 0
<1>1. \A b \in Boxes : Members(b) = {k \in Mols : h[k] = b}
  BY ListWalked
<1>2. h[m] \in Boxes /\ h[n] \in Boxes
  BY DEF ListInv, Ranks
<1>3. Own(p) = {b \in Boxes : Owner[b] = p}
  BY Grid
<1>4. Visited[h[m]][h[n]] = IF Touch(h[m], h[n], BOX_PER_SIDE) THEN 1 ELSE 0
  BY <1>2, WaterAssumption, EachTouchingBoxVisitedOnce DEF Visited, Boxes
<1>5. \A x \in Own(p) \X Boxes \X (1 .. Often) :
        x \in Meetings(p, m, n) <=>
            x = <<h[m], h[n], 1>> /\ Touch(h[m], h[n], BOX_PER_SIDE)
  <2> SUFFICES ASSUME NEW b \in Own(p), NEW c \in Boxes, NEW k \in 1 .. Often
               PROVE  <<b, c, k>> \in Meetings(p, m, n) <=>
                        b = h[m] /\ c = h[n] /\ k = 1 /\ Touch(h[m], h[n], BOX_PER_SIDE)
    OBVIOUS
  <2>1. <<b, c, k>> \in Meetings(p, m, n) <=> b = h[m] /\ c = h[n] /\ k <= Visited[b][c]
    BY <1>1, <1>3 DEF Meetings
  <2>2. k \in Int /\ k >= 1
    BY DEF Often
  <2> QED BY <1>4, <2>1, <2>2
<1>6. Meetings(p, m, n) \subseteq Own(p) \X Boxes \X (1 .. Often)
  BY DEF Meetings
<1>7. CASE Keeper(h, m) = p /\ Touch(h[m], h[n], BOX_PER_SIDE)
  <2>1. <<h[m], h[n], 1>> \in Own(p) \X Boxes \X (1 .. Often)
    BY <1>2, <1>3, <1>7 DEF Keeper, Often
  <2>2. Meetings(p, m, n) = {<<h[m], h[n], 1>>}
    BY <1>5, <1>6, <1>7, <2>1
  <2> QED BY <1>7, <2>2, FS_Singleton
<1>8. CASE ~(Keeper(h, m) = p /\ Touch(h[m], h[n], BOX_PER_SIDE))
  <2>1. Meetings(p, m, n) = {}
    BY <1>3, <1>5, <1>6, <1>8 DEF Keeper
  <2> QED BY <1>8, <2>1, FS_EmptySet
<1> QED BY <1>7, <1>8

-----------------------------------------------------------------------------
(* The lists, action by action.                                            *)

\* What happens between the walks.
LEMMA BetweenWalks ==
    ASSUME Frame, NEW h, NEW r, ListInv(h, r), NEW p \in Procs,
           Top(p) \/ Kineti(p) \/ Totals(p) \/ Poteng(p) \/ Energy(p)
    PROVE  ListInv(h, r)'
<1>1. /\ UNCHANGED <<list, next, pos, met, scaled, corrected, counted, at, crossed>>
      /\ \E label \in {"b_top", "b_kineti", "poteng", "b_end", "b_poteng", "b_energy"} :
            pc' = [pc EXCEPT ![p] = label] /\ (label = "b_kineti" => pc[p] = "sum")
      /\ pc[p] \in {"top", "sum", "totals", "poteng", "poteng2", "energy"}
  BY DEF Top, Kineti, Totals, Poteng, PotengIntra, PotengPairs, Energy, lists, done, sums, Goto
<1>2. /\ pc'[p] \in {"b_top", "b_kineti", "poteng", "b_end", "b_poteng", "b_energy"}
      /\ pc'[p] = "b_kineti" => pc[p] = "sum"
      /\ \A q \in Procs : q # p => pc'[q] = pc[q]
  BY <1>1, Types DEF Frame
<1>3. Ordered(h, r)' /\ Moving' /\ Walking(h)' /\ Done(h, r)'
  <2>1. \A q \in Procs : \/ pc'[q] = pc[q]
                         \/ /\ pc[q] \notin Walks /\ pc'[q] \notin Walks
                            /\ pc'[q] \in {"sum", "b_kineti"} => pc[q] \in {"sum", "b_kineti"}
    BY <1>1, <1>2 DEF Walks
  <2> QED BY <1>1, <2>1, QuietStep
<1>4. Ranks(h, r)'
  BY DEF ListInv, Ranks
<1>5. Forces(h)'
  <2>1. \A m \in Mols : Keeper(h, m) \in Procs
    BY Grid DEF Keeper, ListInv, Ranks
  <2>2. \A q \in Procs : pc'[q] \in {"b_intra", "interf", "b_interf"} => pc'[q] = pc[q]
    BY <1>2
  <2> QED BY <1>1, <2>1, <2>2 DEF Forces, ListInv, Keeper
<1> QED BY <1>3, <1>4, <1>5 DEF ListInv

\* The forces start anew for the molecules in the boxes of p.
LEMMA IntrafLists ==
    ASSUME Frame, NEW h, NEW r, ListInv(h, r), NEW p \in Procs, Intraf(p)
    PROVE  ListInv(h, r)'
<1>1. /\ UNCHANGED <<list, next, pos, scaled, corrected, counted, at, crossed>>
      /\ pc[p] \in {"intraf", "predic"} /\ pc' = [pc EXCEPT ![p] = "b_intra"]
      /\ met' = [m \in Mols |-> IF m \in Mine(p) THEN [n \in Mols |-> 0] ELSE met[m]]
  BY DEF Intraf, lists, done, Goto
<1>2. pc'[p] = "b_intra" /\ \A q \in Procs : q # p => pc'[q] = pc[q]
  BY <1>1, Types DEF Frame
<1>3. Ordered(h, r)' /\ Moving' /\ Walking(h)' /\ Done(h, r)'
  <2>1. \A q \in Procs : \/ pc'[q] = pc[q]
                         \/ /\ pc[q] \notin Walks /\ pc'[q] \notin Walks
                            /\ pc'[q] \in {"sum", "b_kineti"} => pc[q] \in {"sum", "b_kineti"}
    BY <1>1, <1>2 DEF Walks
  <2> QED BY <1>1, <2>1, QuietStep
<1>4. Ranks(h, r)'
  BY DEF ListInv, Ranks
<1>5. ForcesStage
  BY <1>1, WhichStage DEF Frame
<1>6. \A m \in Mols : m \in Mine(p) <=> Keeper(h, m) = p
  <2>1. \A q \in Procs : pc[q] # "bndry"
    BY <1>5 DEF ForcesStage, Stage
  <2>2. \A b \in Boxes : Members(b) = {m \in Mols : h[m] = b}
    BY <2>1, ListWalked
  <2>3. \A m \in Mols : h[m] \in Boxes
    BY DEF ListInv, Ranks
  <2>4. Own(p) = {b \in Boxes : Owner[b] = p}
    BY Grid
  <2> QED BY <2>2, <2>3, <2>4 DEF Mine, Keeper
<1>7. Forces(h)'
  <2> SUFFICES ASSUME NEW m \in Mols, NEW n \in Mols, m # n
               PROVE  /\ pc'[Keeper(h, m)] \in {"b_intra", "interf"} => met'[m][n] = 0
                      /\ pc'[Keeper(h, m)] # "b_interf"
    BY DEF Forces, Keeper
  <2>1. Keeper(h, m) \in Procs
    BY Grid DEF Keeper, ListInv, Ranks
  <2>2. CASE Keeper(h, m) = p
    BY <1>1, <1>2, <1>6, <2>2
  <2>3. CASE Keeper(h, m) # p
    <3>1. pc'[Keeper(h, m)] = pc[Keeper(h, m)] /\ met'[m] = met[m]
      BY <1>1, <1>2, <1>6, <2>1, <2>3
    <3>2. pc[Keeper(h, m)] \notin {"interf", "b_interf"}
      BY <1>5, <2>1 DEF ForcesStage, Stage
    <3> QED BY <3>1, <3>2 DEF ListInv, Forces
  <2> QED BY <2>2, <2>3
<1> QED BY <1>3, <1>4, <1>7 DEF ListInv

\* Each of them meets the others of the boxes that touch once.
LEMMA InterfLists ==
    ASSUME Frame, NEW h, NEW r, ListInv(h, r), NEW p \in Procs, Interf(p)
    PROVE  ListInv(h, r)'
<1>1. /\ UNCHANGED <<list, next, pos, scaled, corrected, counted, at, crossed>>
      /\ pc[p] = "interf" /\ pc' = [pc EXCEPT ![p] = "b_interf"]
      /\ \A m, n \in Mols : met'[m][n] = UpTo(met[m][n] + Cardinality(Meetings(p, m, n)))
  BY DEF Interf, lists, done, Goto
<1>2. pc'[p] = "b_interf" /\ \A q \in Procs : q # p => pc'[q] = pc[q]
  BY <1>1, Types DEF Frame
<1>3. Ordered(h, r)' /\ Moving' /\ Walking(h)' /\ Done(h, r)'
  <2>1. \A q \in Procs : \/ pc'[q] = pc[q]
                         \/ /\ pc[q] \notin Walks /\ pc'[q] \notin Walks
                            /\ pc'[q] \in {"sum", "b_kineti"} => pc[q] \in {"sum", "b_kineti"}
    BY <1>1, <1>2 DEF Walks
  <2> QED BY <1>1, <2>1, QuietStep
<1>4. Ranks(h, r)'
  BY DEF ListInv, Ranks
<1>5. PairsStage
  BY <1>1, WhichStage DEF Frame
<1>6. \A q \in Procs : pc[q] # "bndry"
  BY <1>5 DEF PairsStage, Stage
<1>7. Forces(h)'
  <2> SUFFICES ASSUME NEW m \in Mols, NEW n \in Mols, m # n
               PROVE  /\ pc'[Keeper(h, m)] \in {"b_intra", "interf"} => met'[m][n] = 0
                      /\ pc'[Keeper(h, m)] = "b_interf" =>
                            met'[m][n] = IF Touch(h[m], h[n], BOX_PER_SIDE) THEN 1 ELSE 0
    BY DEF Forces, Keeper
  <2> DEFINE q == Keeper(h, m)
             touch == Touch(h[m], h[n], BOX_PER_SIDE)
  <2>1. q \in Procs
    BY Grid DEF Keeper, ListInv, Ranks
  <2>2. Cardinality(Meetings(p, m, n)) = IF q = p /\ touch THEN 1 ELSE 0
    BY <1>6, MeetingsExact
  <2>3. /\ pc[q] = "interf" => met[m][n] = 0
        /\ pc[q] = "b_interf" => met[m][n] = IF touch THEN 1 ELSE 0
        /\ pc[q] \in {"interf", "b_interf"}
    BY <1>5, <2>1 DEF ListInv, Forces, PairsStage, Stage
  <2>4. met'[m][n] = UpTo(met[m][n] + Cardinality(Meetings(p, m, n)))
    BY <1>1
  <2> HIDE DEF q, touch
  <2>5. CASE q = p
    BY <1>1, <1>2, <2>2, <2>3, <2>4, <2>5 DEF UpTo, Often, q, touch
  <2>6. CASE q # p
    BY <1>1, <1>2, <2>1, <2>2, <2>3, <2>4, <2>6 DEF UpTo, Often, q, touch
  <2> QED BY <2>5, <2>6
<1> QED BY <1>3, <1>4, <1>7 DEF ListInv

\* The barriers: before the first walk nothing has been done to any molecule.
LEMMA PassLists ==
    ASSUME Frame, NEW h, NEW r, ListInv(h, r), Pass
    PROVE  ListInv(h, r)'
<1>1. PICK label \in Barriers, to \in Labels :
        /\ <<label, to>> \in {<<"b_intra", "interf">>, <<"b_top", "predic">>,
                              <<"b_interf", "scale">>, <<"b_kineti", "totals">>,
                              <<"b_poteng", "poteng2">>, <<"b_energy", "energy">>}
        /\ Open(label, to)
        /\ IF label = "b_interf"
           THEN /\ scaled' = [m \in Mols |-> 0] /\ corrected' = scaled' /\ counted' = scaled'
                /\ crossed' = {}
           ELSE UNCHANGED <<done, crossed>>
  BY DEF Pass, Labels, Walks, Barriers
<1>2. /\ AllAt(label) /\ pc' = [q \in Procs |-> to]
      /\ UNCHANGED <<list, next, boxlock, pos, met, at>>
  BY <1>1 DEF Open, lists
<1>3. \A q \in Procs : pc[q] = label /\ pc'[q] = to
  BY <1>2 DEF AllAt
<1>4. Ranks(h, r)'
  BY DEF ListInv, Ranks
<1>5. Forces(h)'
  <2>1. \A m \in Mols : Keeper(h, m) \in Procs
    BY Grid DEF Keeper, ListInv, Ranks
  <2>2. \A q \in Procs : pc'[q] \in {"b_intra", "interf", "b_interf"} =>
                            pc'[q] = "interf" /\ pc[q] = "b_intra"
    BY <1>1, <1>3
  <2> QED BY <1>2, <2>1, <2>2 DEF Forces, ListInv, Keeper
<1>6. Ordered(h, r)' /\ Moving' /\ Walking(h)' /\ Done(h, r)'
  <2>1. CASE label # "b_interf"
    <3>1. \A q \in Procs : \/ pc'[q] = pc[q]
                           \/ /\ pc[q] \notin Walks /\ pc'[q] \notin Walks
                              /\ pc'[q] \in {"sum", "b_kineti"} => pc[q] \in {"sum", "b_kineti"}
      BY <1>1, <1>3, <2>1 DEF Walks
    <3> QED BY <1>1, <1>2, <2>1, <3>1, QuietStep DEF done
  <2>2. CASE label = "b_interf"
    <3>1. \A q \in Procs : /\ pc[q] = "b_interf" /\ pc'[q] = "scale"
                           /\ at'[q].where = "head" /\ at'[q].box = 1
      BY <1>1, <1>2, <1>3, <2>2 DEF Frame, AtInv, Walks
    <3>2. \A q \in Procs : \A w : Busy(q, w)' <=> Busy(q, w)
      BY <3>1 DEF Busy
    <3>3. Loose' = Loose /\ Loose = {} /\ Ordered(h, r)'
      BY <1>2, <3>1, <3>2, HandsKept DEF ListInv, Loose, Busy
    <3>4. Moving' /\ Walking(h)'
      BY <3>1 DEF Moving, Moves, Walking, Follows
    <3>5. ASSUME NEW m \in Mols
          PROVE  Progress(h, r, m)'
      <4>1. Keeper(h, m) \in Procs /\ Place[h[m]] \in Nat /\ Place[h[m]] >= 1
        BY Grid DEF Keeper, ListInv, Ranks
      <4>2. ~Passed(h, r, m)'
        BY <3>1, <4>1 DEF Passed, Behind
      <4>3. Progress(h, r, m)
        BY <3>3 DEF ListInv, Done
      <4>4. pos[m] = h[m]
        BY <3>1, <4>1, <4>3 DEF Progress
      <4>5. scaled'[m] = 0 /\ corrected'[m] = 0 /\ counted'[m] = 0
        BY <1>1, <2>2
      <4> HIDE DEF Passed, Keeper
      <4> QED BY <1>2, <3>1, <4>1, <4>2, <4>4, <4>5 DEF Progress
    <3>6. Done(h, r)'
      BY <3>3, <3>5 DEF Done
    <3> QED BY <3>3, <3>4, <3>6
  <2> QED BY <2>1, <2>2
<1> QED BY <1>4, <1>5, <1>6 DEF ListInv

\* Between two steps the lists rest.
LEMMA NextStepLists ==
    ASSUME Frame, NEW h, NEW r, ListInv(h, r), NextStep
    PROVE  ListInv(h, r)'
<1>1. /\ UNCHANGED <<list, next, pos, met, scaled, corrected, counted, at, crossed>>
      /\ \A q \in Procs : pc[q] \in {"b_init", "b_end"} /\ pc'[q] \in {"top", "done"}
  BY DEF NextStep, AllAt, lists, done, sums
<1>2. Ordered(h, r)' /\ Moving' /\ Walking(h)' /\ Done(h, r)'
  <2>1. \A q \in Procs : /\ pc[q] \notin Walks /\ pc'[q] \notin Walks
                         /\ pc'[q] \notin {"sum", "b_kineti"}
    BY <1>1 DEF Walks
  <2> QED BY <1>1, <2>1, QuietStep
<1>3. Ranks(h, r)'
  BY DEF ListInv, Ranks
<1>4. Forces(h)'
  <2>1. \A m \in Mols : Keeper(h, m) \in Procs
    BY Grid DEF Keeper, ListInv, Ranks
  <2> QED BY <1>1, <2>1 DEF Forces, Keeper
<1> QED BY <1>2, <1>3, <1>4 DEF ListInv

-----------------------------------------------------------------------------
(* The lists, step by step of a walk.                                      *)

\* No box that a process has left behind is ahead of it again.
LEMMA AheadFalls ==
    ASSUME Frame, NEW p \in Procs, \A q \in Procs : q # p => pc'[q] = pc[q] /\ at'[q] = at[q],
           \/ pc'[p] = pc[p] /\ at'[p].box \in Nat /\ at'[p].box >= at[p].box
           \/ pc[p] \in {"scale", "correct"}
           \/ pc'[p] \notin {"scale", "correct", "bndry"},
           NEW q \in Procs, NEW b \in Boxes, Ahead(q, b)'
    PROVE  Ahead(q, b)
<1>1. CASE q # p
  BY <1>1 DEF Ahead
<1>2. CASE q = p
  <2>1. CASE pc'[p] = pc[p] /\ at'[p].box \in Nat /\ at'[p].box >= at[p].box
    <3>1. at[p].box \in Nat /\ Len(MyBoxes[p]) \in Nat
      BY Types, Grid DEF Frame, Hands
    <3>2. \A n \in at'[p].box .. Len(MyBoxes[p]) : n \in at[p].box .. Len(MyBoxes[p])
      BY <2>1, <3>1
    <3> QED BY <1>2, <2>1, <3>2 DEF Ahead
  <2>2. CASE pc[p] \in {"scale", "correct"}
    BY <1>2, <2>2 DEF Ahead
  <2>3. CASE pc'[p] \notin {"scale", "correct", "bndry"}
    BY <1>2, <2>3 DEF Ahead
  <2> QED BY <2>1, <2>2, <2>3
<1> QED BY <1>1, <1>2

\* The molecules in hand of a process in BNDRY are none of another one's lists.
LEMMA OthersHands ==
    ASSUME Frame, NEW h, NEW r, ListInv(h, r), NEW p \in Procs, Alone(p),
           at[p].box <= Len(MyBoxes[p]), NEW m \in Listed(h, Here(p)),
           NEW q \in Procs, q # p, Busy(q, "unlink") \/ Busy(q, "insert") \/ Busy(q, "link")
    PROVE  at[q].curr # m
<1>1. Owner[Here(p)] = p
  BY WalkAt DEF Alone, Walks
<1>2. CASE Busy(q, "unlink")
  <2>1. pc[q] = "bndry" /\ at[q].where = "unlink" /\ at[q].curr \in Mols /\ at[q].box <= Len(MyBoxes[q])
    BY <1>2 DEF Busy, Frame, AtInv
  <2>2. Owner[Here(q)] = q
    BY <2>1, WalkAt DEF Walks
  <2>3. Cursor(q) = at[q].curr /\ Alone(q) /\ at[q].curr # NULL
    BY <2>1 DEF Cursor, Alone, Mols, NULL
  <2>4. at[q].curr \in Listed(h, Here(q))
    BY <2>1, <2>3 DEF ListInv, Walking, Follows
  <2> QED BY <1>1, <2>2, <2>4 DEF Listed
<1>3. CASE Busy(q, "insert")
  BY <1>3 DEF Loose, Listed
<1>4. CASE Busy(q, "link")
  BY <1>4, AloneInList DEF Linking
<1> QED BY <1>2, <1>3, <1>4

\* What the other processes hold stays right.
LEMMA OthersMove ==
    ASSUME Frame, NEW h, NEW r, ListInv(h, r), NEW p \in Procs,
           \A q \in Procs : q # p => pc'[q] = pc[q] /\ at'[q] = at[q],
           \A q \in Procs, b \in Boxes : Ahead(q, b)' => Ahead(q, b),
           crossed \subseteq crossed',
           NEW q \in Procs, q # p,
           Busy(q, "insert") \/ Busy(q, "link") =>
              ~ ((Busy(p, "insert")' \/ Busy(p, "link")') /\ at'[p].curr = at[q].curr),
           Busy(q, "unlink") \/ Busy(q, "insert") \/ Busy(q, "link") =>
              pos'[at[q].curr] = pos[at[q].curr],
           Busy(q, "unlink") => next'[at[q].curr] = next[at[q].curr]
    PROVE  Moves(q)'
<1> SUFFICES ASSUME pc[q] = "bndry"
             PROVE  /\ at[q].where \in {"unlink", "insert", "link"} =>
                          at[q].to = pos'[at[q].curr] /\ at[q].to # Here(q)
                    /\ at[q].where = "unlink" => at[q].nxt = next'[at[q].curr]
                    /\ at[q].where \in {"insert", "link"} => \A k \in Procs :
                          (Busy(k, "insert")' \/ Busy(k, "link")') /\ at'[k].curr = at[q].curr => k = q
                    /\ at[q].where = "link" /\ Owner[at[q].to] # q =>
                          ~Ahead(Owner[at[q].to], at[q].to)' /\ at[q].curr \in crossed'
  BY DEF Moves, Here
<1>1. Moves(q)
  BY DEF ListInv, Moving
<1>2. at[q].to \in Boxes /\ Owner[at[q].to] \in Procs
  BY Types, Grid DEF Frame, Hands
<1>3. Ahead(Owner[at[q].to], at[q].to)' => Ahead(Owner[at[q].to], at[q].to)
  BY <1>2
<1>4. ASSUME at[q].where \in {"insert", "link"}, NEW k \in Procs,
             Busy(k, "insert")' \/ Busy(k, "link")', at'[k].curr = at[q].curr
      PROVE  k = q
  <2>1. Busy(q, "insert") \/ Busy(q, "link")
    BY <1>4 DEF Busy
  <2>2. k # p
    BY <1>4, <2>1
  <2>3. (Busy(k, "insert") \/ Busy(k, "link")) /\ at[k].curr = at[q].curr
    BY <1>4, <2>2 DEF Busy
  <2> QED BY <1>1, <1>4, <2>3 DEF Moves
<1> HIDE DEF Ahead
<1>5. /\ at[q].where \in {"unlink", "insert", "link"} =>
            at[q].to = pos'[at[q].curr] /\ at[q].to # Here(q)
      /\ at[q].where = "unlink" => at[q].nxt = next'[at[q].curr]
  BY <1>1 DEF Moves, Busy
<1>6. at[q].where = "link" /\ Owner[at[q].to] # q =>
            ~Ahead(Owner[at[q].to], at[q].to)' /\ at[q].curr \in crossed'
  BY <1>1, <1>3 DEF Moves
<1> QED BY <1>4, <1>5, <1>6

\* A step of p that changes no list.
LEMMA PlainStep ==
    ASSUME Frame, NEW h, NEW r, ListInv(h, r), NEW p \in Procs, pc[p] \in Walks,
           UNCHANGED <<list, next, met, crossed>>,
           \A q \in Procs : q # p => pc'[q] = pc[q] /\ at'[q] = at[q],
           at[p].where \in {"head", "mol"}, at'[p].where \in {"head", "mol", "unlink"},
           pc'[p] \notin {"b_intra", "interf", "b_interf"},
           \/ pc'[p] = pc[p] /\ at'[p].box \in Nat /\ at'[p].box >= at[p].box
           \/ pc[p] \in {"scale", "correct"}
           \/ pc'[p] \notin {"scale", "correct", "bndry"},
           \A m \in Mols : pos'[m] = pos[m] \/ (Alone(p) /\ at[p].box <= Len(MyBoxes[p])
                                                   /\ m \in Listed(h, Here(p)))
    PROVE  /\ Loose' = Loose /\ (\A b : Listed(h, b)' = Listed(h, b))
           /\ Ranks(h, r)' /\ Ordered(h, r)' /\ Forces(h)'
           /\ Moves(p)' => Moving'
           /\ Follows(h, p)' => Walking(h)'
           /\ \A m \in Mols \ Loose :
                /\ Keeper(h, m) # p /\ UNCHANGED <<pos[m], scaled[m], corrected[m]>>
                /\ crossed' = {} => counted'[m] = counted[m]
                => Progress(h, r, m)'
<1>1. \A q \in Procs : \A w \in {"insert", "link"} :
          /\ Busy(q, w)' <=> Busy(q, w)
          /\ Busy(q, w) => at'[q].curr = at[q].curr /\ at'[q].to = at[q].to /\ at'[q].temp = at[q].temp
  BY DEF Busy
<1>2. Loose' = Loose /\ (\A b : Listed(h, b)' = Listed(h, b)) /\ Ordered(h, r)'
  BY <1>1, HandsKept DEF ListInv
<1>3. Ranks(h, r)'
  BY DEF ListInv, Ranks
<1>4. \A m \in Mols : Keeper(h, m) \in Procs
  BY Grid DEF Keeper, ListInv, Ranks
<1>5. Forces(h)'
  BY <1>4 DEF Forces, ListInv, Keeper
<1>6. ASSUME NEW q \in Procs, q # p
      PROVE  Moves(q)' /\ Follows(h, q)'
  <2>1. \A k \in Procs, b \in Boxes : Ahead(k, b)' => Ahead(k, b)
    BY AheadFalls
  <2>2. ASSUME Busy(q, "unlink") \/ Busy(q, "insert") \/ Busy(q, "link")
        PROVE  pos'[at[q].curr] = pos[at[q].curr]
    <3>1. at[q].curr \in Mols
      BY <2>2 DEF Busy, Frame, AtInv
    <3>2. CASE Alone(p) /\ at[p].box <= Len(MyBoxes[p]) /\ at[q].curr \in Listed(h, Here(p))
      BY <1>6, <2>2, <3>2, OthersHands
    <3> QED BY <3>1, <3>2
  <2>3. ~Busy(p, "insert")' /\ ~Busy(p, "link")'
    BY DEF Busy
  <2>4. Moves(q)'
    BY <1>6, <2>1, <2>2, <2>3, OthersMove
  <2>5. Follows(h, q)'
    BY <1>2, <1>6 DEF ListInv, Walking, Follows, Alone, Cursor, Here
  <2> QED BY <2>4, <2>5
<1>7. ASSUME NEW m \in Mols \ Loose, Keeper(h, m) # p, UNCHANGED <<pos[m], scaled[m], corrected[m]>>,
             crossed' = {} => counted'[m] = counted[m]
      PROVE  Progress(h, r, m)'
  <2>1. Progress(h, r, m) /\ Keeper(h, m) \in Procs
    BY <1>4 DEF ListInv, Done
  <2>2. pc'[Keeper(h, m)] = pc[Keeper(h, m)] /\ at'[Keeper(h, m)] = at[Keeper(h, m)]
    BY <1>7, <2>1
  <2>3. Passed(h, r, m)' <=> Passed(h, r, m)
    BY <2>2 DEF Passed, Behind, Cursor, Keeper
  <2> QED BY <1>7, <2>1, <2>2, <2>3, ProgressKept
<1>8. Moves(p)' => Moving'
  BY <1>6 DEF Moving
<1>9. Follows(h, p)' => Walking(h)'
  BY <1>6 DEF Walking
<1> QED BY <1>2, <1>3, <1>5, <1>7, <1>8, <1>9

\* On to the next molecule: it passes the one it was at, and no other.
LEMMA StepPasses ==
    ASSUME Frame, NEW h, NEW r, ListInv(h, r), NEW p \in Procs, Alone(p),
           at[p].where \in {"mol", "unlink"}, at[p].box <= Len(MyBoxes[p]),
           \/ next[at[p].curr] = NULL /\ at'[p].where = "head" /\ at'[p].box = at[p].box + 1
           \/ /\ at'[p].where # "head" /\ at'[p].box = at[p].box
              /\ Cursor(p)' = next[at[p].curr]
    PROVE  /\ at[p].curr \in Listed(h, Here(p)) /\ Keeper(h, at[p].curr) = p
           /\ ~Passed(h, r, at[p].curr)
           /\ \A m \in Mols \ Loose : Keeper(h, m) = p =>
                (Passed(h, r, m)' <=> (Passed(h, r, m) \/ m = at[p].curr))
<1> DEFINE c == at[p].curr
           L == Listed(h, Here(p))
<1>1. /\ at[p].box \in 1 .. Len(MyBoxes[p]) /\ Here(p) \in Boxes /\ Owner[Here(p)] = p
      /\ Place[Here(p)] = at[p].box /\ at[p].curr \in Mols
  BY WalkAt DEF Alone, Walks
<1>2. Cursor(p) = c /\ c # NULL
  BY <1>1 DEF Cursor, Mols, NULL
<1>3. c \in L /\ h[c] = Here(p)
  BY <1>2 DEF ListInv, Walking, Follows, Listed
<1>4. /\ \A m \in L : (next[c] # NULL => r[m] > r[next[c]]) <=> (r[m] > r[c] \/ m = c)
  BY <1>3, NextInList
<1>5. ~Passed(h, r, c) /\ Keeper(h, c) = p
  <2>1. ~ (r[c] > r[c])
    BY <1>1 DEF ListInv, Ranks
  <2> QED BY <1>1, <1>2, <1>3, <2>1 DEF Passed, Behind, Keeper
<1>6. ASSUME NEW m \in Mols \ Loose, Keeper(h, m) = p
      PROVE  Passed(h, r, m)' <=> (Passed(h, r, m) \/ m = c)
  <2>1. /\ h[m] \in Boxes /\ Owner[h[m]] = p /\ Place[h[m]] \in 1 .. Len(MyBoxes[p])
        /\ MyBoxes[p][Place[h[m]]] = h[m]
    BY <1>6, Grid DEF Keeper, ListInv, Ranks
  <2>2. Place[h[m]] = at[p].box <=> h[m] = Here(p)
    BY <1>1, <2>1 DEF Here
  <2>3. Place[h[m]] \in Nat /\ at[p].box \in Nat
    BY <1>1, <2>1
  <2>4. Passed(h, r, m) <=> \/ Place[h[m]] < at[p].box
                            \/ Place[h[m]] = at[p].box /\ r[m] > r[c]
    BY <1>2, <1>6 DEF Passed, Behind
  <2>5. m \in L <=> Place[h[m]] = at[p].box
    BY <2>2 DEF Listed
  <2>6. CASE next[c] = NULL /\ at'[p].where = "head" /\ at'[p].box = at[p].box + 1
    <3>1. Passed(h, r, m)' <=> Place[h[m]] < at[p].box + 1
      BY <1>6, <2>6, <2>3 DEF Passed, Behind, Keeper
    <3>2. m \in L => r[m] > r[c] \/ m = c
      BY <1>4, <2>6
    <3>3. m = c => m \in L
      BY <1>3
    <3> HIDE DEF L, c, Passed
    <3> QED BY <2>3, <2>4, <2>5, <3>1, <3>2, <3>3
  <2>7. CASE at'[p].where # "head" /\ at'[p].box = at[p].box /\ Cursor(p)' = next[c]
    <3>1. Passed(h, r, m)' <=> \/ Place[h[m]] < at[p].box
                               \/ /\ Place[h[m]] = at[p].box
                                  /\ next[c] # NULL => r[m] > r[next[c]]
      BY <1>6, <2>7 DEF Passed, Behind, Keeper
    <3>2. m \in L => ((next[c] # NULL => r[m] > r[next[c]]) <=> (r[m] > r[c] \/ m = c))
      BY <1>4
    <3>3. m = c => m \in L
      BY <1>3
    <3> HIDE DEF L, c, Passed
    <3> QED BY <2>4, <2>5, <3>1, <3>2, <3>3
  <2> QED BY <2>6, <2>7
<1> QED BY <1>3, <1>5, <1>6

\* The head of the next list is its highest molecule, which no walk has passed.
LEMMA ReadListLists ==
    ASSUME Frame, NEW h, NEW r, ListInv(h, r), NEW p \in Procs, ReadList(p)
    PROVE  ListInv(h, r)'
<1> DEFINE n == list[Here(p)]
<1>1. /\ pc[p] \in Walks /\ at[p].where = "head" /\ at[p].box <= Len(MyBoxes[p])
      /\ UNCHANGED <<list, next, pos, met, scaled, corrected, counted, pc, crossed>>
      /\ at' = [at EXCEPT ![p] = IF n = NULL THEN [at[p] EXCEPT !.box = at[p].box + 1]
                                 ELSE [at[p] EXCEPT !.curr = n, !.last = NULL, !.where = "mol"]]
  BY DEF ReadList, In, lists, done
<1>2. /\ at[p] \in Hands /\ at[p].box \in 1 .. Len(MyBoxes[p]) /\ at[p].box \in Nat
      /\ Here(p) \in Boxes /\ Owner[Here(p)] = p
  BY <1>1, WalkAt
<1>3. /\ n = NULL => at'[p].where = "head" /\ at'[p].box = at[p].box + 1
      /\ n # NULL => /\ at'[p].where = "mol" /\ at'[p].box = at[p].box
                     /\ at'[p].curr = n /\ at'[p].last = NULL
      /\ \A q \in Procs : q # p => at'[q] = at[q]
  <2>1. at \in [Procs -> Hands]
    BY Types DEF Frame
  <2>2. DOMAIN at[p] = {"box", "where", "curr", "last", "nxt", "temp", "to"}
    BY <1>2 DEF Hands
  <2>3. CASE n = NULL
    <3>1. at'[p] = [at[p] EXCEPT !.box = at[p].box + 1]
      BY <1>1, <2>1, <2>3
    <3>2. at'[p].where = "head" /\ at'[p].box = at[p].box + 1
      BY <1>1, <1>2, <3>1 DEF Hands
    <3> QED BY <1>1, <2>1, <2>3, <3>2
  <2>4. CASE n # NULL
    <3>1. at'[p] = [at[p] EXCEPT !.curr = n, !.last = NULL, !.where = "mol"]
      BY <1>1, <2>1, <2>4
    <3>2. /\ at'[p].where = "mol" /\ at'[p].box = at[p].box
          /\ at'[p].curr = n /\ at'[p].last = NULL
      BY <1>2, <3>1 DEF Hands
    <3> QED BY <1>1, <2>1, <2>4, <3>2
  <2> QED BY <2>3, <2>4
<1>4. Highest(r, Listed(h, Here(p)), n)
  BY <1>2 DEF ListInv, Ordered
<1> HIDE DEF n
<1>5. /\ Loose' = Loose /\ (\A b : Listed(h, b)' = Listed(h, b))
      /\ Ranks(h, r)' /\ Ordered(h, r)' /\ Forces(h)'
      /\ Moves(p)' => Moving'
      /\ Follows(h, p)' => Walking(h)'
      /\ \A m \in Mols \ Loose : Keeper(h, m) # p => Progress(h, r, m)'
  <2>1. at'[p].box \in Nat /\ at'[p].box >= at[p].box
    BY <1>2, <1>3
  <2>2. at'[p].where \in {"head", "mol", "unlink"} /\ pc'[p] \notin {"b_intra", "interf", "b_interf"}
    BY <1>1, <1>3 DEF Walks
  <2> QED BY <1>1, <1>3, <2>1, <2>2, PlainStep
<1>6. Moves(p)'
  BY <1>3 DEF Moves
<1>7. Follows(h, p)'
  BY <1>1, <1>3, <1>4, <1>5 DEF Follows, Highest, Cursor, Here, n
<1>8. ASSUME NEW m \in Mols \ Loose, Keeper(h, m) = p
      PROVE  Progress(h, r, m)'
  <2>1. /\ h[m] \in Boxes /\ Owner[h[m]] = p /\ Place[h[m]] \in 1 .. Len(MyBoxes[p])
        /\ MyBoxes[p][Place[h[m]]] = h[m] /\ Progress(h, r, m)
    BY <1>8, Grid DEF Keeper, ListInv, Ranks, Done
  <2>2. Place[h[m]] = at[p].box => m \in Listed(h, Here(p))
    BY <1>2, <2>1 DEF Here, Listed
  <2>3. Place[h[m]] \in Nat /\ at[p].box \in Nat
    BY <1>2, <2>1
  <2>4. Passed(h, r, m) <=> Place[h[m]] < at[p].box
    BY <1>1, <1>8, <2>3 DEF Passed, Behind
  <2>5. Passed(h, r, m)' <=> Passed(h, r, m)
    <3>1. CASE n = NULL
      <4>1. Place[h[m]] # at[p].box
        BY <1>4, <2>2, <3>1 DEF Highest
      <4>2. Passed(h, r, m)' <=> Place[h[m]] < at[p].box + 1
        BY <1>3, <1>8, <3>1 DEF Passed, Behind, Keeper
      <4> HIDE DEF Passed
      <4> QED BY <2>3, <2>4, <4>1, <4>2
    <3>2. CASE n # NULL
      <4>1. Passed(h, r, m)' <=> Place[h[m]] < at[p].box
                                 \/ (Place[h[m]] = at[p].box /\ r[m] > r[n])
        BY <1>3, <1>8, <3>2 DEF Passed, Behind, Keeper, Cursor
      <4>2. Place[h[m]] = at[p].box => ~ (r[m] > r[n])
        <5>1. ASSUME Place[h[m]] = at[p].box
              PROVE  ~ (r[m] > r[n])
          <6>1. r[m] <= r[n] /\ n \in Listed(h, Here(p))
            BY <1>4, <2>2, <3>2, <5>1 DEF Highest
          <6>2. r[m] \in Nat /\ r[n] \in Nat
            BY <6>1 DEF ListInv, Ranks, Listed
          <6> QED BY <6>1, <6>2
        <5> QED BY <5>1
      <4> HIDE DEF Passed
      <4> QED BY <2>4, <4>1, <4>2
    <3> QED BY <3>1, <3>2
  <2> HIDE DEF Passed, Progress, Keeper
  <2> QED BY <1>1, <1>8, <2>1, <2>5, ProgressKept
<1>9. Done(h, r)'
  <2>1. \A m \in Loose : scaled[m] = 1 /\ corrected[m] = 1 /\ (crossed = {} => counted[m] = 0)
    BY DEF ListInv, Done
  <2> QED BY <1>1, <1>5, <1>8, <2>1 DEF Done
<1> QED BY <1>5, <1>6, <1>7, <1>9 DEF ListInv

\* What p holds after a step to the next molecule.
LEMMA StepHolds ==
    ASSUME Frame, NEW p \in Procs, pc[p] \in Walks, at[p].where = "mol",
           at[p].box <= Len(MyBoxes[p]), Step(p)
    PROVE  /\ \A q \in Procs : q # p => at'[q] = at[q]
           /\ next[at[p].curr] = NULL => at'[p].where = "head" /\ at'[p].box = at[p].box + 1
           /\ next[at[p].curr] # NULL => /\ at'[p].where = "mol" /\ at'[p].box = at[p].box
                                         /\ at'[p].curr = next[at[p].curr]
           /\ at'[p].box \in Nat /\ at'[p].box >= at[p].box
<1>1. at[p] \in Hands /\ at[p].box \in 1 .. Len(MyBoxes[p]) /\ next[at[p].curr] \in Mols \cup {NULL}
  BY WalkAt, Types DEF Frame
<1>2. at' = [at EXCEPT ![p] = Onto(at[p], next[at[p].curr])] /\ at \in [Procs -> Hands]
  BY Types DEF Step, Frame
<1>3. at'[p] = Onto(at[p], next[at[p].curr]) /\ \A q \in Procs : q # p => at'[q] = at[q]
  BY <1>2
<1>4. /\ next[at[p].curr] = NULL => /\ Onto(at[p], next[at[p].curr]).where = "head"
                                    /\ Onto(at[p], next[at[p].curr]).box = at[p].box + 1
      /\ next[at[p].curr] # NULL => /\ Onto(at[p], next[at[p].curr]).where = "mol"
                                    /\ Onto(at[p], next[at[p].curr]).box = at[p].box
                                    /\ Onto(at[p], next[at[p].curr]).curr = next[at[p].curr]
  BY <1>1, OntoHand
<1>5. at[p].box \in Nat
  BY <1>1
<1> QED BY <1>3, <1>4, <1>5

\* Such a step in a walk that changes no list.
LEMMA StepLists ==
    ASSUME Frame, NEW h, NEW r, ListInv(h, r), NEW p \in Procs,
           pc[p] \in {"scale", "correct", "kineti"}, at[p].where = "mol",
           at[p].box <= Len(MyBoxes[p]), Step(p),
           UNCHANGED <<list, next, met, pc, crossed>>,
           \A m \in Mols : pos'[m] = pos[m] \/ (Alone(p) /\ m = at[p].curr)
    PROVE  /\ Loose' = Loose
           /\ Ranks(h, r)' /\ Ordered(h, r)' /\ Forces(h)' /\ Moving' /\ Walking(h)'
           /\ \A m \in Mols \ Loose :
                /\ Keeper(h, m) # p /\ UNCHANGED <<pos[m], scaled[m], corrected[m]>>
                /\ crossed' = {} => counted'[m] = counted[m]
                => Progress(h, r, m)'
           /\ Alone(p) =>
                /\ at[p].curr \in Listed(h, Here(p)) /\ Keeper(h, at[p].curr) = p
                /\ ~Passed(h, r, at[p].curr)
                /\ \A m \in Mols \ Loose : Keeper(h, m) = p =>
                     (Passed(h, r, m)' <=> (Passed(h, r, m) \/ m = at[p].curr))
<1>1. /\ \A q \in Procs : q # p => at'[q] = at[q]
      /\ next[at[p].curr] = NULL => at'[p].where = "head" /\ at'[p].box = at[p].box + 1
      /\ next[at[p].curr] # NULL => /\ at'[p].where = "mol" /\ at'[p].box = at[p].box
                                    /\ at'[p].curr = next[at[p].curr]
      /\ at'[p].box \in Nat /\ at'[p].box >= at[p].box
  BY StepHolds DEF Walks
<1>2. ASSUME Alone(p)
      PROVE  /\ at[p].curr \in Listed(h, Here(p)) /\ Keeper(h, at[p].curr) = p
             /\ ~Passed(h, r, at[p].curr)
             /\ \A m \in Mols \ Loose : Keeper(h, m) = p =>
                  (Passed(h, r, m)' <=> (Passed(h, r, m) \/ m = at[p].curr))
  <2>1. \/ next[at[p].curr] = NULL /\ at'[p].where = "head" /\ at'[p].box = at[p].box + 1
        \/ /\ at'[p].where # "head" /\ at'[p].box = at[p].box
           /\ Cursor(p)' = next[at[p].curr]
    BY <1>1 DEF Cursor
  <2> QED BY <1>2, <2>1, StepPasses
<1>3. /\ Loose' = Loose /\ (\A b : Listed(h, b)' = Listed(h, b))
      /\ Ranks(h, r)' /\ Ordered(h, r)' /\ Forces(h)'
      /\ Moves(p)' => Moving'
      /\ Follows(h, p)' => Walking(h)'
      /\ \A m \in Mols \ Loose :
           /\ Keeper(h, m) # p /\ UNCHANGED <<pos[m], scaled[m], corrected[m]>>
           /\ crossed' = {} => counted'[m] = counted[m]
           => Progress(h, r, m)'
  <2>1. at'[p].where \in {"head", "mol", "unlink"} /\ pc'[p] \notin {"b_intra", "interf", "b_interf"}
    BY <1>1
  <2>2. \A m \in Mols : pos'[m] = pos[m] \/ (Alone(p) /\ at[p].box <= Len(MyBoxes[p])
                                              /\ m \in Listed(h, Here(p)))
    BY <1>2
  <2> QED BY <1>1, <2>1, <2>2, PlainStep DEF Walks
<1>4. Moves(p)'
  BY DEF Moves
<1>5. Follows(h, p)'
  <2> SUFFICES ASSUME Alone(p)', at'[p].where # "head"
               PROVE  Cursor(p)' # NULL => Cursor(p)' \in Listed(h, Here(p))'
    BY DEF Follows
  <2>1. Alone(p) /\ next[at[p].curr] # NULL
    BY <1>1 DEF Alone
  <2>2. next[at[p].curr] \in Listed(h, Here(p))
    BY <1>2, <2>1, NextInList
  <2>3. Cursor(p)' = next[at[p].curr] /\ Here(p)' = Here(p)
    BY <1>1, <2>1 DEF Cursor, Here
  <2> QED BY <1>3, <2>2, <2>3
<1> QED BY <1>2, <1>3, <1>4, <1>5

\* INTERF scales the molecule the walk passes with this step, and no other.
LEMMA ScaleLists ==
    ASSUME Frame, NEW h, NEW r, ListInv(h, r), NEW p \in Procs, Scale(p)
    PROVE  ListInv(h, r)'
<1>1. /\ pc[p] = "scale" /\ at[p].where = "mol" /\ at[p].box <= Len(MyBoxes[p]) /\ Step(p)
      /\ UNCHANGED <<list, next, met, pos, corrected, counted, pc, crossed>>
      /\ scaled' = [scaled EXCEPT ![at[p].curr] = Once(scaled[at[p].curr])]
  BY DEF Scale, In, lists
<1> DEFINE c == at[p].curr
<1>2. /\ Loose' = Loose
      /\ Ranks(h, r)' /\ Ordered(h, r)' /\ Forces(h)' /\ Moving' /\ Walking(h)'
      /\ \A m \in Mols \ Loose :
           /\ Keeper(h, m) # p /\ UNCHANGED <<pos[m], scaled[m], corrected[m]>>
           /\ crossed' = {} => counted'[m] = counted[m]
           => Progress(h, r, m)'
      /\ c \in Listed(h, Here(p)) /\ Keeper(h, c) = p /\ ~Passed(h, r, c)
      /\ \A m \in Mols \ Loose : Keeper(h, m) = p => (Passed(h, r, m)' <=> (Passed(h, r, m) \/ m = c))
  BY <1>1, StepLists DEF Alone
<1>3. /\ scaled \in [Mols -> 0 .. Often] /\ c \in Mols \ Loose
      /\ \A m \in Mols : m # c => scaled'[m] = scaled[m]
      /\ scaled'[c] = Once(scaled[c])
  BY <1>1, <1>2, Types DEF Frame, Listed
<1> HIDE DEF c
<1>4. ASSUME NEW m \in Mols \ Loose
      PROVE  Progress(h, r, m)'
  <2>1. Progress(h, r, m)
    BY DEF ListInv, Done
  <2>2. CASE Keeper(h, m) # p
    <3>1. m # c
      BY <1>2, <2>2
    <3> QED BY <1>1, <1>2, <1>3, <2>2, <3>1
  <2>3. CASE Keeper(h, m) = p /\ m # c
    <3>1. Passed(h, r, m)' <=> Passed(h, r, m)
      BY <1>2, <2>3
    <3> HIDE DEF Passed, Progress, Keeper
    <3> QED BY <1>1, <1>3, <2>1, <2>3, <3>1, ProgressKept
  <2>4. CASE m = c
    <3>1. scaled[c] = 0 /\ corrected[c] = 0 /\ pos[c] = h[c] /\ (crossed = {} => counted[c] = 0)
      <4> HIDE DEF Passed, Keeper
      <4> QED BY <1>1, <1>2, <2>1, <2>4 DEF Progress
    <3>2. scaled'[c] = 1
      BY <1>3, <3>1 DEF Once, UpTo, Often
    <3>3. Passed(h, r, m)' /\ Keeper(h, m) = p
      BY <1>2, <2>4
    <3>4. pc'[Keeper(h, m)] = pc[p]
      BY <1>1, <3>3
    <3> HIDE DEF Passed
    <3> QED BY <1>1, <2>4, <3>1, <3>2, <3>3, <3>4 DEF Progress, Keeper
  <2> QED BY <2>2, <2>3, <2>4
<1>5. Done(h, r)'
  <2>1. \A m \in Loose : m # c /\ m \in Mols /\ scaled[m] = 1 /\ corrected[m] = 1
                         /\ (crossed = {} => counted[m] = 0)
    BY <1>3 DEF ListInv, Done, Loose
  <2> QED BY <1>1, <1>2, <1>3, <1>4, <2>1 DEF Done
<1> QED BY <1>2, <1>5 DEF ListInv

\* CORREC moves the molecule the walk passes; its list stays, till BNDRY comes.
LEMMA CorrectLists ==
    ASSUME Frame, NEW h, NEW r, ListInv(h, r), NEW p \in Procs, Correct(p)
    PROVE  ListInv(h, r)'
<1> DEFINE c == at[p].curr
<1>1. /\ pc[p] = "correct" /\ at[p].where = "mol" /\ at[p].box <= Len(MyBoxes[p]) /\ Step(p)
      /\ UNCHANGED <<list, next, met, scaled, counted, pc, crossed>>
      /\ corrected' = [corrected EXCEPT ![c] = Once(corrected[c])]
      /\ \E b : pos' = [pos EXCEPT ![c] = b]
  BY DEF Correct, In, lists
<1>0. \A m \in Mols : m # c => pos'[m] = pos[m]
  BY <1>1, Types DEF Frame
<1>2. /\ Loose' = Loose
      /\ Ranks(h, r)' /\ Ordered(h, r)' /\ Forces(h)' /\ Moving' /\ Walking(h)'
      /\ \A m \in Mols \ Loose :
           /\ Keeper(h, m) # p /\ UNCHANGED <<pos[m], scaled[m], corrected[m]>>
           /\ crossed' = {} => counted'[m] = counted[m]
           => Progress(h, r, m)'
      /\ c \in Listed(h, Here(p)) /\ Keeper(h, c) = p /\ ~Passed(h, r, c)
      /\ \A m \in Mols \ Loose : Keeper(h, m) = p => (Passed(h, r, m)' <=> (Passed(h, r, m) \/ m = c))
  BY <1>0, <1>1, StepLists DEF Alone
<1>3. /\ corrected \in [Mols -> 0 .. Often] /\ c \in Mols \ Loose
      /\ \A m \in Mols : m # c => corrected'[m] = corrected[m]
      /\ corrected'[c] = Once(corrected[c])
  BY <1>1, <1>2, Types DEF Frame, Listed
<1> HIDE DEF c
<1>4. ASSUME NEW m \in Mols \ Loose
      PROVE  Progress(h, r, m)'
  <2>1. Progress(h, r, m)
    BY DEF ListInv, Done
  <2>2. CASE Keeper(h, m) # p
    <3>1. m # c
      BY <1>2, <2>2
    <3> QED BY <1>0, <1>1, <1>2, <1>3, <2>2, <3>1
  <2>3. CASE Keeper(h, m) = p /\ m # c
    <3>1. Passed(h, r, m)' <=> Passed(h, r, m)
      BY <1>2, <2>3
    <3> HIDE DEF Passed, Progress, Keeper
    <3> QED BY <1>0, <1>1, <1>3, <2>1, <2>3, <3>1, ProgressKept
  <2>4. CASE m = c
    <3>1. scaled[c] = 1 /\ corrected[c] = 0 /\ (crossed = {} => counted[c] = 0)
      <4> HIDE DEF Passed, Keeper
      <4> QED BY <1>1, <1>2, <2>1, <2>4 DEF Progress
    <3>2. corrected'[c] = 1
      BY <1>3, <3>1 DEF Once, UpTo, Often
    <3>3. Passed(h, r, m)' /\ Keeper(h, m) = p
      BY <1>2, <2>4
    <3>4. pc'[Keeper(h, m)] = pc[p]
      BY <1>1, <3>3
    <3> HIDE DEF Passed
    <3> QED BY <1>1, <2>4, <3>1, <3>2, <3>3, <3>4 DEF Progress, Keeper
  <2> QED BY <2>2, <2>3, <2>4
<1>5. Done(h, r)'
  <2>1. \A m \in Loose : m # c /\ m \in Mols /\ scaled[m] = 1 /\ corrected[m] = 1
                         /\ (crossed = {} => counted[m] = 0)
    BY <1>3 DEF ListInv, Done, Loose
  <2> QED BY <1>1, <1>2, <1>3, <1>4, <2>1 DEF Done
<1> QED BY <1>2, <1>5 DEF ListInv

\* KINETI counts it; where molecules changed hands nothing is claimed of the count.
LEMMA CountLists ==
    ASSUME Frame, NEW h, NEW r, ListInv(h, r), NEW p \in Procs, Count(p)
    PROVE  ListInv(h, r)'
<1> DEFINE c == at[p].curr
<1>1. /\ pc[p] = "kineti" /\ at[p].where = "mol" /\ at[p].box <= Len(MyBoxes[p]) /\ Step(p)
      /\ UNCHANGED <<list, next, pos, met, scaled, corrected, pc, crossed>>
      /\ counted' = [counted EXCEPT ![c] = Once(counted[c])]
  BY DEF Count, In, lists
<1>2. /\ Loose' = Loose
      /\ Ranks(h, r)' /\ Ordered(h, r)' /\ Forces(h)' /\ Moving' /\ Walking(h)'
      /\ \A m \in Mols \ Loose :
           /\ Keeper(h, m) # p /\ UNCHANGED <<pos[m], scaled[m], corrected[m]>>
           /\ crossed' = {} => counted'[m] = counted[m]
           => Progress(h, r, m)'
      /\ crossed = {} =>
           /\ c \in Listed(h, Here(p)) /\ Keeper(h, c) = p /\ ~Passed(h, r, c)
           /\ \A m \in Mols \ Loose : Keeper(h, m) = p => (Passed(h, r, m)' <=> (Passed(h, r, m) \/ m = c))
  BY <1>1, StepLists DEF Alone
<1>3. /\ counted \in [Mols -> 0 .. Often] /\ c \in Mols
      /\ \A m \in Mols : m # c => counted'[m] = counted[m]
      /\ counted'[c] = Once(counted[c])
  BY <1>1, WalkAt, Types DEF Frame, Walks
<1> HIDE DEF c
<1>4. ASSUME NEW m \in Mols \ Loose
      PROVE  Progress(h, r, m)'
  <2>1. Progress(h, r, m)
    BY DEF ListInv, Done
  <2>2. CASE Keeper(h, m) # p
    <3>1. crossed' = {} => counted'[m] = counted[m]
      BY <1>1, <1>2, <1>3, <2>2
    <3> QED BY <1>1, <1>2, <2>2, <3>1
  <2>3. CASE Keeper(h, m) = p /\ crossed # {}
    <3> HIDE DEF Passed, Progress, Keeper
    <3> QED BY <1>1, <2>1, <2>3, ProgressKept
  <2>4. CASE Keeper(h, m) = p /\ crossed = {} /\ m # c
    <3>1. Passed(h, r, m)' <=> Passed(h, r, m)
      BY <1>2, <2>4
    <3> HIDE DEF Passed, Progress, Keeper
    <3> QED BY <1>1, <1>3, <2>1, <2>4, <3>1, ProgressKept
  <2>5. CASE Keeper(h, m) = p /\ crossed = {} /\ m = c
    <3>1. scaled[c] = 1 /\ corrected[c] = 1 /\ counted[c] = 0 /\ pos[c] = h[c]
      <4> HIDE DEF Passed, Keeper
      <4> QED BY <1>1, <1>2, <2>1, <2>5 DEF Progress
    <3>2. counted'[c] = 1
      BY <1>3, <3>1 DEF Once, UpTo, Often
    <3>3. Passed(h, r, m)'
      BY <1>2, <2>5
    <3> HIDE DEF Passed
    <3> QED BY <1>1, <2>5, <3>1, <3>2, <3>3 DEF Progress, Keeper
  <2> QED BY <2>2, <2>3, <2>4, <2>5
<1>5. Done(h, r)'
  <2>1. \A m \in Loose : /\ m \in Mols /\ scaled[m] = 1 /\ corrected[m] = 1
                         /\ crossed = {} => counted[m] = 0 /\ m # c
    BY <1>2 DEF ListInv, Done, Loose, Listed
  <2> QED BY <1>1, <1>2, <1>3, <1>4, <2>1 DEF Done
<1> QED BY <1>2, <1>5 DEF ListInv

\* The end of a walk: all its molecules are dealt with, and the next walk starts.
LEMMA EndWalkLists ==
    ASSUME Frame, NEW h, NEW r, ListInv(h, r), NEW p \in Procs, EndWalk(p)
    PROVE  ListInv(h, r)'
<1>1. /\ pc[p] \in Walks /\ at[p].box > Len(MyBoxes[p])
      /\ UNCHANGED <<list, next, met, pos, scaled, corrected, counted, crossed>>
      /\ pc' = [pc EXCEPT ![p] = AfterWalk(p)] /\ at' = [at EXCEPT ![p] = Nowhere]
  BY DEF EndWalk, lists, done, Goto
<1>2. /\ pc'[p] = AfterWalk(p) /\ \A q \in Procs : q # p => pc'[q] = pc[q] /\ at'[q] = at[q]
      /\ at'[p].where = "head" /\ at'[p].box = 1
      /\ at[p].box \in Nat /\ Len(MyBoxes[p]) \in Nat
  BY <1>1, Types, Grid DEF Frame, Nowhere, Hands
<1>3. at[p].where = "head"
  BY <1>1, <1>2 DEF Frame, AtInv
<1>4. /\ pc[p] = "scale" => AfterWalk(p) \in {"b_init", "correct"}
      /\ pc[p] = "correct" => AfterWalk(p) = "bndry"
      /\ pc[p] = "bndry" => AfterWalk(p) = "kineti"
      /\ pc[p] = "kineti" => AfterWalk(p) = "sum"
  BY DEF AfterWalk
<1>5. /\ Loose' = Loose
      /\ Ranks(h, r)' /\ Ordered(h, r)' /\ Forces(h)'
      /\ Moves(p)' => Moving'
      /\ Follows(h, p)' => Walking(h)'
      /\ \A m \in Mols \ Loose : Keeper(h, m) # p => Progress(h, r, m)'
  <2>1. /\ at[p].where \in {"head", "mol"} /\ at'[p].where \in {"head", "mol", "unlink"}
        /\ pc'[p] \notin {"b_intra", "interf", "b_interf"}
        /\ pc[p] \in {"scale", "correct"} \/ pc'[p] \notin {"scale", "correct", "bndry"}
    BY <1>1, <1>2, <1>3, <1>4 DEF Walks
  <2> QED BY <1>1, <1>2, <2>1, PlainStep
<1>6. Moves(p)' /\ Follows(h, p)'
  BY <1>2 DEF Moves, Follows
<1>7. ASSUME NEW m \in Mols \ Loose, Keeper(h, m) = p
      PROVE  Progress(h, r, m)'
  <2>1. Place[h[m]] \in 1 .. Len(MyBoxes[p]) /\ Progress(h, r, m)
    BY <1>7, Grid DEF Keeper, ListInv, Ranks, Done
  <2>2. Passed(h, r, m)
    BY <1>1, <1>2, <1>7, <2>1 DEF Passed, Behind
  <2>3. ~Passed(h, r, m)'
    BY <1>2, <1>7, <2>1 DEF Passed, Behind, Keeper
  <2>4. pc[Keeper(h, m)] = pc[p] /\ pc'[Keeper(h, m)] = pc'[p]
    BY <1>7
  <2> HIDE DEF Passed
  <2>5. CASE pc[p] = "scale"
    <3>1. pos[m] = h[m] /\ scaled[m] = 1 /\ corrected[m] = 0 /\ (crossed = {} => counted[m] = 0)
      BY <2>1, <2>2, <2>4, <2>5 DEF Progress
    <3> QED BY <1>1, <1>2, <1>4, <2>3, <2>4, <2>5, <3>1 DEF Progress, Keeper
  <2>6. CASE pc[p] = "correct"
    <3>1. scaled[m] = 1 /\ corrected[m] = 1 /\ (crossed = {} => counted[m] = 0)
      BY <2>1, <2>2, <2>4, <2>6 DEF Progress
    <3> QED BY <1>1, <1>2, <1>4, <2>3, <2>4, <2>6, <3>1 DEF Progress, Keeper
  <2>7. CASE pc[p] = "bndry"
    <3>1. pos[m] = h[m] /\ scaled[m] = 1 /\ corrected[m] = 1 /\ (crossed = {} => counted[m] = 0)
      BY <2>1, <2>2, <2>4, <2>7 DEF Progress
    <3> QED BY <1>1, <1>2, <1>4, <2>3, <2>4, <2>7, <3>1 DEF Progress, Keeper
  <2>8. CASE pc[p] = "kineti"
    <3>1. pos[m] = h[m] /\ scaled[m] = 1 /\ corrected[m] = 1 /\ (crossed = {} => counted[m] = 1)
      BY <2>1, <2>2, <2>4, <2>8 DEF Progress
    <3> QED BY <1>1, <1>2, <1>4, <2>3, <2>4, <2>8, <3>1 DEF Progress, Keeper
  <2> QED BY <1>1, <2>5, <2>6, <2>7, <2>8 DEF Walks
<1>8. Done(h, r)'
  <2>1. \A m \in Loose : scaled[m] = 1 /\ corrected[m] = 1 /\ (crossed = {} => counted[m] = 0)
    BY DEF ListInv, Done
  <2> QED BY <1>1, <1>5, <1>7, <2>1 DEF Done
<1> QED BY <1>5, <1>6, <1>8 DEF ListInv

\* BNDRY looks at a molecule: it goes on, or takes it in hand.
LEMMA InspectLists ==
    ASSUME Frame, NEW h, NEW r, ListInv(h, r), NEW p \in Procs, Inspect(p)
    PROVE  ListInv(h, r)'
<1> DEFINE a == at[p]
           c == a.curr
           out == [a EXCEPT !.nxt = next[c], !.to = pos[c], !.where = "unlink"]
           kept == [a EXCEPT !.last = c]
<1>1. /\ pc[p] = "bndry" /\ a.where = "mol" /\ a.box <= Len(MyBoxes[p])
      /\ UNCHANGED <<list, next, met, pos, scaled, corrected, counted, pc, crossed>>
      /\ at' = [at EXCEPT ![p] = IF pos[c] # Here(p) THEN out ELSE Onto(kept, next[c])]
  BY DEF Inspect, In, lists, done
<1>2. /\ at[p] \in Hands /\ at[p].box \in Nat /\ at[p].curr \in Mols
      /\ next[at[p].curr] \in Mols \cup {NULL} /\ pos[at[p].curr] \in Boxes
      /\ Here(p) \in Boxes /\ Owner[Here(p)] = p /\ Alone(p)
  BY <1>1, WalkAt, Types DEF Frame, Walks, Alone, Hands
<1>3. at' = [at EXCEPT ![p] = at'[p]] /\ \A q \in Procs : q # p => at'[q] = at[q]
  BY <1>1, Types DEF Frame
<1>4. ASSUME pos[c] # Here(p)
      PROVE  /\ at'[p].where = "unlink" /\ at'[p].box = a.box /\ at'[p].curr = c
             /\ at'[p].last = a.last /\ at'[p].nxt = next[c] /\ at'[p].to = pos[c]
  <2>1. at'[p] = out
    BY <1>1, <1>4, Types DEF Frame
  <2> QED BY <1>2, <2>1 DEF Hands
<1>5. ASSUME pos[c] = Here(p)
      PROVE  /\ next[c] = NULL => at'[p].where = "head" /\ at'[p].box = a.box + 1
             /\ next[c] # NULL => /\ at'[p].where = "mol" /\ at'[p].box = a.box
                                  /\ at'[p].curr = next[c] /\ at'[p].last = c
  <2>1. at'[p] = Onto(kept, next[c])
    BY <1>1, <1>5, Types DEF Frame
  <2>2. kept \in Hands /\ kept.box = a.box /\ kept.last = c
    BY <1>2 DEF Hands
  <2>3. next[c] \in Mols \cup {NULL}
    BY <1>2
  <2> HIDE DEF kept, c, a
  <2>4. /\ next[c] = NULL => /\ Onto(kept, next[c]).where = "head"
                             /\ Onto(kept, next[c]).box = kept.box + 1
        /\ next[c] # NULL => /\ Onto(kept, next[c]).where = "mol" /\ Onto(kept, next[c]).box = kept.box
                             /\ Onto(kept, next[c]).curr = next[c] /\ Onto(kept, next[c]).last = kept.last
    BY <2>2, <2>3, OntoHand
  <2> QED BY <2>1, <2>2, <2>4
<1> HIDE DEF out, kept
<1>6. /\ c \in Listed(h, Here(p)) /\ Cursor(p) = c /\ c # NULL
  <2>1. Cursor(p) = c /\ c # NULL
    BY <1>1, <1>2 DEF Cursor, Mols, NULL
  <2> QED BY <1>1, <1>2, <2>1 DEF ListInv, Walking, Follows
<1>7. /\ next[c] # NULL => next[c] \in Listed(h, Here(p)) /\ r[next[c]] < r[c]
  BY <1>1, <1>2, <1>6, NextInList
<1>8. /\ Loose' = Loose /\ (\A b : Listed(h, b)' = Listed(h, b))
      /\ Ranks(h, r)' /\ Ordered(h, r)' /\ Forces(h)'
      /\ Moves(p)' => Moving'
      /\ Follows(h, p)' => Walking(h)'
      /\ \A m \in Mols \ Loose : Keeper(h, m) # p => Progress(h, r, m)'
  <2>1. /\ at[p].where \in {"head", "mol"} /\ at'[p].where \in {"head", "mol", "unlink"}
        /\ pc'[p] \notin {"b_intra", "interf", "b_interf"} /\ pc'[p] = pc[p]
        /\ at'[p].box \in Nat /\ at'[p].box >= at[p].box /\ pc[p] \in Walks
    BY <1>1, <1>2, <1>4, <1>5 DEF Walks
  <2> QED BY <1>1, <1>3, <2>1, PlainStep
<1>9. Moves(p)' /\ Follows(h, p)'
  <2>1. CASE pos[c] # Here(p)
    <3>1. Moves(p)'
      BY <1>1, <1>4, <2>1 DEF Moves, Here
    <3>2. Here(p)' = Here(p) /\ Cursor(p)' = Cursor(p)
      BY <1>1, <1>4, <2>1 DEF Here, Cursor
    <3>3. Follows(h, p)
      BY DEF ListInv, Walking
    <3>4. Follows(h, p)'
      BY <1>1, <1>2, <1>4, <1>8, <2>1, <3>2, <3>3 DEF Follows, Alone
    <3> QED BY <3>1, <3>4
  <2>2. CASE pos[c] = Here(p)
    <3>1. Moves(p)'
      BY <1>5, <2>2 DEF Moves
    <3>2. CASE next[c] = NULL
      BY <1>5, <2>2, <3>1, <3>2 DEF Follows
    <3>3. CASE next[c] # NULL
      <4>1. Here(p)' = Here(p) /\ Cursor(p)' = next[c] /\ at'[p].last = c
        BY <1>5, <2>2, <3>3 DEF Here, Cursor
      <4>2. Follows(h, p)'
        BY <1>1, <1>2, <1>6, <1>7, <1>8, <3>3, <4>1 DEF Follows, Mols, NULL
      <4> QED BY <3>1, <4>2
    <3> QED BY <3>2, <3>3
  <2> QED BY <2>1, <2>2
<1>10. ASSUME NEW m \in Mols \ Loose, Keeper(h, m) = p
       PROVE  Progress(h, r, m)'
  <2>1. Progress(h, r, m)
    BY DEF ListInv, Done
  <2>2. CASE pos[c] # Here(p)
    <3>1. Passed(h, r, m)' <=> Passed(h, r, m)
      BY <1>1, <1>4, <1>10, <2>2 DEF Passed, Behind, Keeper, Cursor
    <3> HIDE DEF Passed, Progress, Keeper
    <3> QED BY <1>1, <1>10, <2>1, <3>1, ProgressKept
  <2>3. CASE pos[c] = Here(p)
    <3>1. \/ next[at[p].curr] = NULL /\ at'[p].where = "head" /\ at'[p].box = at[p].box + 1
          \/ /\ at'[p].where # "head" /\ at'[p].box = at[p].box
             /\ Cursor(p)' = next[at[p].curr]
      BY <1>5, <2>3 DEF Cursor
    <3>2. /\ ~Passed(h, r, c)
          /\ Passed(h, r, m)' <=> (Passed(h, r, m) \/ m = c)
      BY <1>1, <1>2, <1>10, <3>1, StepPasses
    <3>3. CASE m # c
      <4>1. Passed(h, r, m)' <=> Passed(h, r, m)
        BY <3>2, <3>3
      <4> HIDE DEF Passed, Progress, Keeper
      <4> QED BY <1>1, <1>10, <2>1, <4>1, ProgressKept
    <3>4. CASE m = c
      <4>1. pos[m] = h[m]
        BY <1>6, <2>3, <3>4 DEF Listed
      <4>2. scaled[m] = 1 /\ corrected[m] = 1 /\ (crossed = {} => counted[m] = 0)
        <5> HIDE DEF Passed, Keeper
        <5> QED BY <1>1, <1>10, <2>1 DEF Progress
      <4> HIDE DEF Passed
      <4> QED BY <1>1, <1>10, <4>1, <4>2 DEF Progress, Keeper
    <3> QED BY <3>3, <3>4
  <2> QED BY <2>2, <2>3
<1>11. Done(h, r)'
  <2>1. \A m \in Loose : scaled[m] = 1 /\ corrected[m] = 1 /\ (crossed = {} => counted[m] = 0)
    BY DEF ListInv, Done
  <2> QED BY <1>1, <1>8, <1>10, <2>1 DEF Done
<1> QED BY <1>8, <1>9, <1>11 DEF ListInv

\* The two of a list in front of the same one are the same.
LEMMA OneBefore ==
    ASSUME NEW h, NEW r, Ranks(h, r), NEW b, NEW m \in Listed(h, b), NEW k \in Listed(h, b),
           NEW c \in Mols, Highest(r, Below(h, r, m), c), Highest(r, Below(h, r, k), c), c # NULL
    PROVE  m = k
<1>1. /\ r[m] \in Nat /\ r[k] \in Nat /\ r[c] \in Nat /\ (r[m] = r[k] => m = k)
      /\ h[m] = b /\ h[k] = b
  BY DEF Ranks, Listed
<1>2. /\ r[c] < r[m] /\ (r[k] < r[m] => r[k] <= r[c])
      /\ r[c] < r[k] /\ (r[m] < r[k] => r[m] <= r[c])
  BY <1>1 DEF Highest, Below
<1> QED BY <1>1, <1>2

\* Out of the list of its old box.
LEMMA UnlinkLists ==
    ASSUME Frame, NEW h, NEW r, ListInv(h, r), NEW p \in Procs, Unlink(p)
    PROVE  ListInv(h, r)'
<1> DEFINE c == at[p].curr
           z == at[p].last
           H == Here(p)
           L == Listed(h, H)
<1>1. /\ pc[p] = "bndry" /\ at[p].where = "unlink" /\ at[p].box <= Len(MyBoxes[p])
      /\ UNCHANGED <<met, pos, scaled, corrected, counted, pc, crossed>>
      /\ \/ z # NULL /\ next' = [next EXCEPT ![z] = next[c]] /\ UNCHANGED list
         \/ z = NULL /\ list' = [list EXCEPT ![H] = next[c]] /\ UNCHANGED next
      /\ at' = [at EXCEPT ![p].where = "insert"]
  BY DEF Unlink, In, done
<1>2. /\ at[p] \in Hands /\ at[p].curr \in Mols /\ H \in Boxes /\ Owner[H] = p /\ Alone(p)
      /\ Place[H] = at[p].box
  BY <1>1, WalkAt DEF Walks, Alone
<1>3. /\ at'[p].where = "insert" /\ at'[p].curr = c /\ at'[p].box = at[p].box /\ at'[p].last = z
      /\ at'[p].nxt = at[p].nxt /\ at'[p].to = at[p].to /\ at'[p].temp = at[p].temp
      /\ \A q \in Procs : q # p => at'[q] = at[q]
  BY <1>1, <1>2, Types DEF Frame, Hands
<1>4. /\ Cursor(p) = c /\ c # NULL /\ c \in L
      /\ IF z = NULL THEN list[H] = c ELSE z \in L /\ next[z] = c
      /\ at[p].nxt = next[c] /\ at[p].to = pos[c] /\ at[p].to # H
  <2>1. Cursor(p) = c /\ c # NULL
    BY <1>1, <1>2 DEF Cursor, Mols, NULL
  <2>2. Follows(h, p) /\ Moves(p)
    BY DEF ListInv, Walking, Moving
  <2> QED BY <1>1, <1>2, <2>1, <2>2 DEF Follows, Moves
<1>5. /\ \A q \in Procs : Busy(q, "link") => at[q].to # H
      /\ \A m \in L : ~Linking(m) /\ Highest(r, Below(h, r, m), next[m])
  BY <1>1, <1>2, AloneInList
<1>6. /\ next[c] \in Mols \cup {NULL}
      /\ next[c] # NULL => next[c] \in L /\ r[next[c]] < r[c]
      /\ \A m \in L : (next[c] # NULL => r[m] > r[next[c]]) <=> (r[m] > r[c] \/ m = c)
  BY <1>1, <1>2, <1>4, NextInList
<1>7. /\ L \subseteq Mols /\ \A m \in L : h[m] = H /\ r[m] \in Nat /\ m \notin Loose
      /\ \A m, n \in L : r[m] = r[n] => m = n
      /\ r \in [Mols -> Nat] /\ h \in [Mols -> Boxes]
  BY DEF ListInv, Ranks, Listed
<1>8. /\ \A q \in Procs : Busy(q, "insert")' <=> Busy(q, "insert") \/ q = p
      /\ \A q \in Procs : Busy(q, "link")' <=> Busy(q, "link")
      /\ ~Busy(p, "link")
  BY <1>1, <1>3 DEF Busy
<1>9. /\ Loose' = Loose \cup {c} /\ \A m : Linking(m)' <=> Linking(m)
  <2>1. Loose' = Loose \cup {c}
    <3>1. \A m \in Mols : m \in Loose' <=> m \in Loose \/ m = c
      <4> SUFFICES ASSUME NEW m \in Mols
                   PROVE  m \in Loose' <=> m \in Loose \/ m = c
        OBVIOUS
      <4>1. m \in Loose' <=> \E q \in Procs : (Busy(q, "insert") \/ q = p) /\ at'[q].curr = m
        BY <1>8 DEF Loose
      <4>2. \A q \in Procs : at'[q].curr = at[q].curr
        BY <1>3
      <4> QED BY <4>1, <4>2 DEF Loose
    <3>2. Loose \subseteq Mols /\ Loose' \subseteq Mols
      BY DEF Loose
    <3> QED BY <1>2, <3>1, <3>2
  <2>2. \A m : Linking(m)' <=> Linking(m)
    BY <1>3, <1>8 DEF Linking
  <2> QED BY <2>1, <2>2
<1>10. /\ \A b : Listed(h, b)' = Listed(h, b) \ {c}
       /\ \A m : Below(h, r, m)' = Below(h, r, m) \ {c}
  BY <1>9 DEF Listed, Below
<1>11. \A b : b # H => c \notin Listed(h, b)
  BY <1>7, <1>4 DEF Listed
<1> HIDE DEF c, z, H, L
<1>12. Ordered(h, r)'
  <2>1. ASSUME NEW b \in Boxes
        PROVE  Highest(r, Listed(h, b)', list'[b])
    <3>1. Highest(r, Listed(h, b), list[b])
      BY DEF ListInv, Ordered
    <3>2. CASE b # H
      <4>1. list'[b] = list[b] /\ Listed(h, b)' = Listed(h, b)
        <5>1. list'[b] = list[b]
          BY <1>1, <3>2, Types DEF Frame
        <5>2. c \notin Listed(h, b)
          BY <1>11, <3>2
        <5>3. Listed(h, b)' = Listed(h, b) \ {c}
          BY <1>10
        <5> QED BY <5>1, <5>2, <5>3
      <4> QED BY <3>1, <4>1
    <3>3. CASE b = H /\ z = NULL
      <4>1. list'[b] = next[c] /\ list[b] = c
        BY <1>1, <1>2, <1>4, <3>3, Types DEF Frame
      <4>2. Listed(h, b)' = L \ {c}
        BY <1>10, <3>3 DEF L
      <4>3. \A m \in L \ {c} : r[m] < r[c]
        <5>1. \A m \in L : r[m] <= r[c]
          BY <1>4, <3>1, <3>3, <4>1 DEF Highest, L
        <5> QED BY <1>4, <1>7, <5>1
      <4>4. Highest(r, Below(h, r, c), next[c]) /\ Below(h, r, c) = L \ {c}
        <5>1. Below(h, r, c) = {m \in L : r[m] < r[c]}
          BY <1>4, <1>7 DEF Below, L
        <5>2. ~ (r[c] < r[c])
          BY <1>4, <1>7
        <5> QED BY <1>4, <1>5, <4>3, <5>1, <5>2
      <4> QED BY <4>1, <4>2, <4>4
    <3>4. CASE b = H /\ z # NULL
      <4>1. list'[b] = list[b] /\ Listed(h, b)' = L \ {c} /\ Listed(h, b) = L
        BY <1>1, <1>10, <3>4 DEF L
      <4>2. r[c] < r[z] /\ z \in L
        BY <1>4, <1>5, <1>7, <3>4 DEF Highest, Below
      <4>3. list[b] \in L /\ \A m \in L : r[m] <= r[list[b]]
        BY <3>1, <4>1, <4>2 DEF Highest
      <4>4. list[b] # c
        <5>1. r[z] <= r[list[b]] /\ r[z] \in Nat /\ r[c] \in Nat
          BY <1>4, <1>7, <4>2, <4>3
        <5> QED BY <4>2, <5>1
      <4>5. list[b] # NULL
        BY <1>7, <4>3 DEF Mols, NULL
      <4> QED BY <4>1, <4>3, <4>4, <4>5 DEF Highest
    <3> QED BY <3>2, <3>3, <3>4
  <2>2. ASSUME NEW m \in Mols \ Loose', ~Linking(m)'
        PROVE  Highest(r, Below(h, r, m)', next'[m])
    <3>1. m # c /\ m \in Mols \ Loose /\ ~Linking(m) /\ Highest(r, Below(h, r, m), next[m])
      BY <1>9, <2>2 DEF ListInv, Ordered
    <3>2. CASE m = z /\ z # NULL
      <4>1. z \in L /\ Highest(r, Below(h, r, z), c) /\ next'[z] = next[c]
        BY <1>1, <1>4, <1>5, <1>7, <3>2, Types DEF Frame
      <4>2. Below(h, r, z) = {k \in L : r[k] < r[z]}
        BY <1>7, <4>1 DEF Below, L
      <4>3. r[c] < r[z] /\ \A k \in L : r[k] < r[z] => r[k] <= r[c]
        BY <1>4, <4>1, <4>2 DEF Highest
      <4>4. Below(h, r, z) \ {c} = {k \in L : r[k] < r[c]}
        <5> SUFFICES ASSUME NEW k \in L
                     PROVE  (r[k] < r[z] /\ k # c) <=> r[k] < r[c]
          BY <4>2
        <5>1. r[k] \in Nat /\ r[z] \in Nat /\ r[c] \in Nat /\ (r[k] = r[c] => k = c)
          BY <1>4, <1>7, <4>1
        <5> QED BY <4>3, <5>1
      <4>5. Below(h, r, c) = {k \in L : r[k] < r[c]}
        BY <1>4, <1>7 DEF Below, L
      <4>6. Highest(r, Below(h, r, c), next[c])
        BY <1>4, <1>5
      <4>7. Below(h, r, m)' = Below(h, r, c)
        BY <1>10, <3>2, <4>4, <4>5
      <4> QED BY <3>2, <4>1, <4>6, <4>7
    <3>3. CASE m # z \/ z = NULL
      <4>1. next'[m] = next[m]
        BY <1>1, <3>3, Types DEF Frame
      <4>2. c \notin Below(h, r, m) \/ next[m] # c
        <5>1. CASE h[m] # H
          BY <1>4, <1>7, <5>1 DEF Below, Listed
        <5>2. CASE h[m] = H
          <6>1. m \in L
            BY <3>1, <5>2 DEF L, Listed
          <6>2. CASE z = NULL
            <7>1. r[m] <= r[c]
              BY <1>2, <1>4, <6>1, <6>2 DEF ListInv, Ordered, Highest, L
            <7>2. ~ (r[c] < r[m])
              BY <1>4, <1>7, <6>1, <7>1
            <7> QED BY <7>2 DEF Below
          <6>3. CASE z # NULL
            <7>1. z \in L /\ Highest(r, Below(h, r, z), c)
              BY <1>4, <1>5, <6>3
            <7>2. ASSUME next[m] = c
                  PROVE  m = z
              <8>1. Highest(r, Below(h, r, m), c) /\ Ranks(h, r) /\ c \in Mols
                BY <1>2, <3>1, <7>2 DEF ListInv, c
              <8> QED BY <1>4, <6>1, <7>1, <8>1, OneBefore DEF L
            <7> QED BY <3>3, <6>3, <7>2
          <6> QED BY <6>2, <6>3
        <5> QED BY <5>1, <5>2
      <4>3. Below(h, r, m)' = Below(h, r, m) \ {c}
        BY <1>10
      <4>4. CASE next[m] = NULL
        BY <3>1, <4>1, <4>3, <4>4 DEF Highest
      <4>5. CASE next[m] # NULL
        BY <3>1, <4>1, <4>2, <4>3, <4>5 DEF Highest
      <4> QED BY <4>4, <4>5
    <3> QED BY <3>2, <3>3
  <2>3. ASSUME NEW q \in Procs, Busy(q, "link")'
        PROVE  /\ at'[q].curr \notin Loose' /\ h[at'[q].curr] = at'[q].to
               /\ Highest(r, Below(h, r, at[q].curr)', at'[q].temp)
    <3>1. Busy(q, "link") /\ q # p /\ at'[q] = at[q]
      BY <1>3, <1>8, <2>3
    <3>2. /\ at[q].curr \notin Loose /\ h[at[q].curr] = at[q].to
          /\ Highest(r, Below(h, r, at[q].curr), at[q].temp)
      BY <3>1 DEF ListInv, Ordered
    <3>3. at[q].to # H
      BY <1>5, <3>1
    <3>4. at[q].curr # c
      BY <1>4, <1>7, <3>2, <3>3
    <3>5. c \notin Below(h, r, at[q].curr)
      BY <1>11, <3>2, <3>3 DEF Below
    <3> QED BY <1>9, <1>10, <3>1, <3>2, <3>4, <3>5
  <2> QED BY <2>1, <2>2, <2>3 DEF Ordered, Highest
<1>13. Ranks(h, r)'
  BY DEF ListInv, Ranks
<1>14. Forces(h)'
  BY <1>1 DEF Forces, ListInv, Keeper
<1>15. ASSUME NEW q \in Procs
       PROVE  Moves(q)'
  <2>1. \A k \in Procs, b \in Boxes : Ahead(k, b)' => Ahead(k, b)
    BY <1>1, <1>3 DEF Ahead
  <2>2. CASE q # p
    <3>1. ASSUME Busy(q, "unlink") \/ Busy(q, "insert") \/ Busy(q, "link")
          PROVE  at[q].curr # c /\ (z # NULL => at[q].curr # z) /\ at[q].curr \in Mols
      <4>1. at[q].curr \in Mols
        BY <3>1 DEF Busy, Frame, AtInv
      <4> QED BY <1>1, <1>2, <1>4, <2>2, <3>1, <4>1, OthersHands DEF L, H
    <3>2. Busy(q, "unlink") => next'[at[q].curr] = next[at[q].curr]
      BY <1>1, <3>1, Types DEF Frame
    <3>3. Busy(q, "insert") \/ Busy(q, "link") =>
             ~ ((Busy(p, "insert")' \/ Busy(p, "link")') /\ at'[p].curr = at[q].curr)
      BY <1>3, <3>1
    <3> QED BY <1>1, <1>3, <2>1, <2>2, <3>2, <3>3, OthersMove
  <2>3. CASE q = p
    <3>1. ASSUME NEW k \in Procs, Busy(k, "insert")' \/ Busy(k, "link")', at'[k].curr = c
          PROVE  k = p
      <4>1. CASE k # p
        <5>1. Busy(k, "insert") \/ Busy(k, "link")
          BY <1>8, <3>1, <4>1
        <5>2. at[k].curr # c
          BY <1>1, <1>2, <1>4, <4>1, <5>1, OthersHands DEF L, H
        <5> QED BY <1>3, <3>1, <4>1, <5>2
      <4> QED BY <4>1
    <3>2. Here(p)' = H
      BY <1>3 DEF Here, H
    <3>3. /\ at'[p].to = pos'[c] /\ at'[p].to # Here(p)'
      BY <1>1, <1>3, <1>4, <3>2
    <3> QED BY <1>3, <2>3, <3>1, <3>3 DEF Moves
  <2> QED BY <2>2, <2>3
<1>16. ASSUME NEW q \in Procs
       PROVE  Follows(h, q)'
  <2>1. CASE q # p
    <3> SUFFICES ASSUME Alone(q)', at'[q].where # "head"
                 PROVE  /\ Cursor(q) # NULL => Cursor(q) \in Listed(h, Here(q))'
                        /\ pc[q] = "bndry" => IF at[q].last = NULL THEN list'[Here(q)] = Cursor(q)
                              ELSE at[q].last \in Listed(h, Here(q))' /\ next'[at[q].last] = Cursor(q)
      BY <1>1, <1>3, <2>1 DEF Follows, Cursor, Here
    <3>1. Alone(q) /\ pc[q] \in Walks /\ at[q].where # "head" /\ at[q].box <= Len(MyBoxes[q])
      BY <1>1, <1>3, <2>1 DEF Alone, Walks, Frame, AtInv
    <3>2. Here(q) # H /\ Here(q) \in Boxes
      BY <1>2, <2>1, <3>1, WalkAt
    <3>3. list'[Here(q)] = list[Here(q)]
      BY <1>1, <3>2, Types DEF Frame
    <3>4. Listed(h, Here(q))' = Listed(h, Here(q))
      BY <1>10, <1>11, <3>2
    <3>5. Follows(h, q)
      BY DEF ListInv, Walking
    <3>6. \A m \in Listed(h, Here(q)) : z # NULL => m # z
      BY <1>4, <1>7, <3>2 DEF Listed
    <3>7. \A m \in Listed(h, Here(q)) : next'[m] = next[m]
      BY <1>1, <3>6, Types DEF Frame, Listed
    <3> QED BY <3>1, <3>3, <3>4, <3>5, <3>7 DEF Follows
  <2>2. CASE q = p
    <3>1. Here(p)' = H /\ Cursor(p)' = next[c]
      BY <1>3, <1>4 DEF Here, H, Cursor
    <3>2. Listed(h, Here(p))' = L \ {c}
      BY <1>3, <1>10 DEF Here, H, L
    <3>3. next[c] # NULL => next[c] \in L \ {c}
      BY <1>4, <1>6, <1>7
    <3>4. CASE z = NULL
      BY <1>1, <1>2, <1>3, <2>2, <3>1, <3>2, <3>3, <3>4, Types DEF Follows, Frame
    <3>5. CASE z # NULL
      <4>1. z \in L \ {c} /\ next'[z] = next[c]
        <5>1. z \in L /\ r[c] < r[z]
          BY <1>4, <1>5, <1>7, <3>5 DEF Highest, Below
        <5>2. r[c] \in Nat /\ ~ (r[c] < r[c])
          BY <1>4, <1>7
        <5> QED BY <1>1, <1>7, <3>5, <5>1, <5>2, Types DEF Frame
      <4> QED BY <1>1, <1>3, <2>2, <3>1, <3>2, <3>3, <3>5, <4>1 DEF Follows
    <3> QED BY <3>4, <3>5
  <2> QED BY <2>1, <2>2
<1>17. ASSUME NEW m \in Mols \ Loose'
       PROVE  Progress(h, r, m)'
  <2>1. m \in Mols \ Loose /\ m # c /\ Progress(h, r, m)
    BY <1>9 DEF ListInv, Done
  <2>2. Passed(h, r, m)' <=> Passed(h, r, m)
    <3>1. Keeper(h, m) \in Procs
      BY <1>7, Grid DEF Keeper
    <3>2. CASE Keeper(h, m) # p
      BY <1>1, <1>3, <3>1, <3>2 DEF Passed, Behind, Cursor, Keeper
    <3>3. CASE Keeper(h, m) = p
      <4>1. /\ at'[p].where # "head" /\ at'[p].box = at[p].box
            /\ Cursor(p)' = next[at[p].curr]
        BY <1>3, <1>4 DEF Cursor, c
      <4> QED BY <1>1, <1>2, <2>1, <3>3, <4>1, StepPasses DEF c
    <3> QED BY <3>2, <3>3
  <2> HIDE DEF Passed, Progress, Keeper
  <2> QED BY <1>1, <2>1, <2>2, ProgressKept
<1>18. Done(h, r)'
  <2>1. ASSUME NEW m \in Loose'
        PROVE  scaled[m] = 1 /\ corrected[m] = 1 /\ (crossed = {} => counted[m] = 0)
    <3>1. CASE m \in Loose
      BY <3>1 DEF ListInv, Done
    <3>2. CASE m = c
      <4>1. Progress(h, r, c) /\ Keeper(h, c) = p
        BY <1>2, <1>4, <1>7 DEF ListInv, Done, Keeper
      <4> QED BY <1>1, <3>2, <4>1 DEF Progress
    <3> QED BY <1>9, <2>1, <3>1, <3>2
  <2> QED BY <1>1, <1>17, <2>1 DEF Done
<1> QED BY <1>12, <1>13, <1>14, <1>15, <1>16, <1>18 DEF ListInv, Moving, Walking

\* Into the list of its new box, in front of all others.
LEMMA InsertLists ==
    ASSUME Frame, NEW h, NEW r, ListInv(h, r), NEW p \in Procs, Insert(p), ~overtaken',
           NEW c, c = at[p].curr, NEW to, to = at[p].to,
           NEW top \in Nat, \A m \in Mols : r[m] <= top,
           NEW g, g = [h EXCEPT ![c] = to], NEW s, s = [r EXCEPT ![c] = top + 1]
    PROVE  ListInv(g, s)'
<1>1. /\ pc[p] = "bndry" /\ at[p].where = "insert" /\ at[p].box <= Len(MyBoxes[p])
      /\ UNCHANGED <<next, met, pos, scaled, corrected, counted, pc>>
      /\ list' = [list EXCEPT ![to] = c]
      /\ at' = [at EXCEPT ![p] = [at[p] EXCEPT !.temp = list[to], !.where = "link"]]
      /\ crossed' = IF Owner[to] # p THEN crossed \cup {c} ELSE crossed
      /\ ~ (Owner[to] # p /\ Ahead(Owner[to], to))
  BY DEF Insert, In, done
<1>2. /\ at[p] \in Hands /\ c \in Mols /\ to \in Boxes /\ Here(p) \in Boxes
      /\ Owner[Here(p)] = p /\ Alone(p) /\ Owner[to] \in Procs
  BY <1>1, WalkAt, Grid DEF Walks, Alone
<1>3. /\ at'[p].where = "link" /\ at'[p].curr = c /\ at'[p].box = at[p].box
      /\ at'[p].last = at[p].last /\ at'[p].nxt = at[p].nxt /\ at'[p].to = to
      /\ at'[p].temp = list[to] /\ \A q \in Procs : q # p => at'[q] = at[q]
  <2>1. at'[p] = [at[p] EXCEPT !.temp = list[to], !.where = "link"]
    BY <1>1, Types DEF Frame
  <2>2. \A q \in Procs : q # p => at'[q] = at[q]
    BY <1>1, Types DEF Frame
  <2> QED BY <1>2, <2>1, <2>2 DEF Hands
<1>4. /\ to = pos[c] /\ to # Here(p)
      /\ \A q \in Procs : (Busy(q, "insert") \/ Busy(q, "link")) /\ at[q].curr = c => q = p
  BY <1>1 DEF ListInv, Moving, Moves
<1>5. /\ h \in [Mols -> Boxes] /\ r \in [Mols -> Nat] /\ \A m, n \in Mols : r[m] = r[n] => m = n
  BY DEF ListInv, Ranks
<1>6. /\ g \in [Mols -> Boxes] /\ s \in [Mols -> Nat] /\ g[c] = to /\ s[c] = top + 1
      /\ \A m \in Mols : m # c => g[m] = h[m] /\ s[m] = r[m] /\ s[m] <= top
  BY <1>2, <1>5
<1>7. Ranks(g, s)'
  <2>1. \A m, n \in Mols : s[m] = s[n] => m = n
    <3> SUFFICES ASSUME NEW m \in Mols, NEW n \in Mols, s[m] = s[n]
                 PROVE  m = n
      OBVIOUS
    <3>1. s[m] \in Nat /\ s[n] \in Nat
      BY <1>6
    <3>2. m = c <=> n = c
      BY <1>6, <3>1
    <3> QED BY <1>5, <1>6, <3>2
  <2>2. top + 1 \in Nat /\ \A m \in Mols : s[m] <= top + 1
    BY <1>6
  <2> QED BY <1>6, <2>1, <2>2 DEF Ranks
<1>8. /\ \A q \in Procs : Busy(q, "insert")' <=> Busy(q, "insert") /\ q # p
      /\ \A q \in Procs : Busy(q, "link")' <=> Busy(q, "link") \/ q = p
      /\ Busy(p, "insert") /\ ~Busy(p, "link")
  BY <1>1, <1>3 DEF Busy
<1>9. /\ Loose' = Loose \ {c} /\ c \in Loose
      /\ \A m : Linking(m)' <=> Linking(m) \/ m = c
  <2>1. ASSUME NEW m \in Mols
        PROVE  m \in Loose' <=> m \in Loose /\ m # c
    <3>1. m \in Loose' <=> \E q \in Procs : Busy(q, "insert") /\ q # p /\ at[q].curr = m
      BY <1>3, <1>8 DEF Loose
    <3> QED BY <1>4, <3>1 DEF Loose
  <2>2. Loose \subseteq Mols /\ Loose' \subseteq Mols /\ c \in Loose
    BY <1>2, <1>8 DEF Loose
  <2>3. ASSUME NEW m
        PROVE  Linking(m)' <=> Linking(m) \/ m = c
    <3>1. Linking(m)' <=> \E q \in Procs : (Busy(q, "link") \/ q = p) /\ at'[q].curr = m
      BY <1>8 DEF Linking
    <3> QED BY <1>3, <1>8, <3>1 DEF Linking
  <2> QED BY <2>1, <2>2, <2>3
<1>10. /\ \A b : b # to => Listed(g, b)' = Listed(h, b)
       /\ Listed(g, to)' = Listed(h, to) \cup {c}
       /\ \A b : c \notin Listed(h, b) /\ Listed(h, b) \subseteq Mols
  BY <1>2, <1>6, <1>9 DEF Listed
<1>11. ASSUME NEW m \in Mols, m \notin Loose
       PROVE  Below(g, s, m)' = Below(h, r, m)
  <2>1. m # c /\ g[m] = h[m] /\ s[m] = r[m] /\ s[m] <= top /\ s[m] \in Nat
    BY <1>6, <1>9, <1>11
  <2>2. Below(g, s, m)' = {k \in Listed(g, h[m])' : s[k] < r[m]}
    BY <2>1 DEF Below
  <2>3. ASSUME NEW k \in Listed(h, h[m])
        PROVE  s[k] = r[k]
    BY <1>6, <1>10, <2>3
  <2>4. ~ (s[c] < r[m])
    BY <1>6, <2>1
  <2>5. CASE h[m] # to
    <3>1. Listed(g, h[m])' = Listed(h, h[m])
      BY <1>10, <2>5
    <3> QED BY <2>2, <2>3, <3>1 DEF Below
  <2>6. CASE h[m] = to
    <3>1. Listed(g, h[m])' = Listed(h, h[m]) \cup {c}
      BY <1>10, <2>6
    <3> QED BY <2>2, <2>3, <2>4, <3>1 DEF Below
  <2> QED BY <2>5, <2>6
<1>12. ASSUME NEW S, S \subseteq Mols, c \notin S, NEW n, Highest(r, S, n)
       PROVE  Highest(s, S, n)
  BY <1>6, <1>12 DEF Highest
<1>13. \A m : Below(h, r, m) \subseteq Mols /\ c \notin Below(h, r, m)
  BY <1>10 DEF Below
<1>14. Ordered(g, s)'
  <2>1. ASSUME NEW b \in Boxes
        PROVE  Highest(s, Listed(g, b)', list'[b])
    <3>1. CASE b # to
      <4>1. list'[b] = list[b] /\ Listed(g, b)' = Listed(h, b)
        <5>1. list'[b] = list[b]
          BY <1>1, <3>1, Types DEF Frame
        <5>2. Listed(g, b)' = Listed(h, b)
          BY <1>10, <3>1
        <5> QED BY <5>1, <5>2
      <4>2. Highest(r, Listed(h, b), list[b])
        BY DEF ListInv, Ordered
      <4> QED BY <1>10, <1>12, <4>1, <4>2
    <3>2. CASE b = to
      <4>1. list'[b] = c /\ c # NULL /\ Listed(g, b)' = Listed(h, to) \cup {c}
        <5>1. list'[b] = c
          BY <1>1, <1>2, <3>2, Types DEF Frame
        <5>2. c # NULL
          BY <1>2 DEF Mols, NULL
        <5> QED BY <1>10, <3>2, <5>1, <5>2
      <4>2. \A k \in Listed(h, to) \cup {c} : s[k] <= s[c]
        <5> SUFFICES ASSUME NEW k \in Listed(h, to) \cup {c}
                     PROVE  s[k] <= s[c]
          OBVIOUS
        <5>1. k \in Mols /\ s[k] \in Nat /\ (k = c \/ s[k] <= top)
          BY <1>2, <1>6, <1>10
        <5> QED BY <1>6, <5>1
      <4> QED BY <4>1, <4>2 DEF Highest
    <3> QED BY <3>1, <3>2
  <2>2. ASSUME NEW m \in Mols \ Loose', ~Linking(m)'
        PROVE  Highest(s, Below(g, s, m)', next'[m])
    <3>1. m # c /\ m \in Mols /\ m \notin Loose /\ ~Linking(m)
      BY <1>9, <2>2
    <3>2. Highest(r, Below(h, r, m), next[m])
      BY <3>1 DEF ListInv, Ordered
    <3>3. Below(g, s, m)' = Below(h, r, m) /\ next'[m] = next[m]
      BY <1>1, <1>11, <3>1
    <3> QED BY <1>12, <1>13, <3>2, <3>3
  <2>3. ASSUME NEW q \in Procs, Busy(q, "link")'
        PROVE  /\ at'[q].curr \notin Loose' /\ g[at'[q].curr] = at'[q].to
               /\ \A n : n = at'[q].curr => Highest(s, Below(g, s, n)', at'[q].temp)
    <3>1. CASE q = p
      <4>1. Below(g, s, c)' = Listed(h, to)
        <5>1. Below(g, s, c)' = {k \in Listed(h, to) \cup {c} : s[k] < s[c]}
          BY <1>6, <1>10 DEF Below
        <5>2. \A k \in Listed(h, to) : s[k] < s[c]
          <6> SUFFICES ASSUME NEW k \in Listed(h, to)
                       PROVE  s[k] < s[c]
            OBVIOUS
          <6>1. k \in Mols /\ k # c /\ s[k] \in Nat /\ s[k] <= top
            BY <1>6, <1>10
          <6> QED BY <1>6, <6>1
        <5>3. ~ (s[c] < s[c]) /\ c \notin Listed(h, to)
          BY <1>2, <1>6, <1>10
        <5> QED BY <5>1, <5>2, <5>3
      <4>2. Highest(r, Listed(h, to), list[to])
        BY <1>2 DEF ListInv, Ordered
      <4>3. Highest(s, Listed(h, to), list[to])
        BY <1>10, <1>12, <4>2
      <4> QED BY <1>3, <1>6, <1>9, <3>1, <4>1, <4>3
    <3>2. CASE q # p
      <4>1. Busy(q, "link") /\ at'[q] = at[q]
        BY <1>3, <1>8, <2>3, <3>2
      <4>2. /\ at[q].curr \notin Loose /\ h[at[q].curr] = at[q].to
            /\ Highest(r, Below(h, r, at[q].curr), at[q].temp)
        BY <4>1 DEF ListInv, Ordered
      <4>3. at[q].curr \in Mols /\ at[q].curr # c
        BY <1>9, <4>1, <4>2 DEF Busy, Frame, AtInv
      <4>4. ASSUME NEW n, n = at[q].curr
            PROVE  Highest(s, Below(g, s, n)', at[q].temp)
        <5>1. Below(g, s, n)' = Below(h, r, n)
          BY <1>11, <4>2, <4>3, <4>4
        <5> QED BY <1>12, <1>13, <4>2, <4>4, <5>1
      <4> QED BY <1>6, <1>9, <4>1, <4>2, <4>3, <4>4
    <3> QED BY <3>1, <3>2
  <2>4. ASSUME NEW q \in Procs, Busy(q, "link")'
        PROVE  Highest(s, Below(g, s, at[q].curr)', at'[q].temp)
    BY <2>3, <2>4
  <2>5. ASSUME NEW q \in Procs, Busy(q, "link")'
        PROVE  at'[q].curr \notin Loose' /\ g[at'[q].curr] = at'[q].to
    BY <2>3, <2>5
  <2> QED BY <2>1, <2>2, <2>4, <2>5 DEF Ordered, Highest
<1>15. \A q \in Procs, b \in Boxes : Ahead(q, b)' <=> Ahead(q, b)
  BY <1>1, <1>3 DEF Ahead
<1>16. crossed \subseteq crossed' /\ (Owner[to] # p => c \in crossed')
  BY <1>1
<1>17. ASSUME NEW q \in Procs
       PROVE  Moves(q)'
  <2>1. CASE q # p
    <3>1. Busy(q, "insert") \/ Busy(q, "link") =>
             ~ ((Busy(p, "insert")' \/ Busy(p, "link")') /\ at'[p].curr = at[q].curr)
      BY <1>3, <1>4, <2>1
    <3>2. \A k \in Procs : k # p => pc'[k] = pc[k] /\ at'[k] = at[k]
      BY <1>1, <1>3
    <3>3. \A k \in Procs, b \in Boxes : Ahead(k, b)' => Ahead(k, b)
      BY <1>15
    <3>4. UNCHANGED <<pos, next>>
      BY <1>1
    <3> QED BY <1>16, <2>1, <3>1, <3>2, <3>3, <3>4, OthersMove
  <2>2. CASE q = p
    <3>1. ASSUME NEW k \in Procs, Busy(k, "insert")' \/ Busy(k, "link")', at'[k].curr = c
          PROVE  k = p
      BY <1>3, <1>4, <1>8, <3>1
    <3>2. Here(p)' = Here(p)
      BY <1>3 DEF Here
    <3>3. Owner[to] # p => ~Ahead(Owner[to], to)'
      BY <1>1, <1>2, <1>15
    <3>4. at'[p].to = pos'[c] /\ at'[p].to # Here(p)'
      BY <1>1, <1>3, <1>4, <3>2
    <3>5. Owner[to] # p => ~Ahead(Owner[at[p].to], at[p].to)' /\ c \in crossed'
      <4> HIDE DEF Ahead
      <4>1. ASSUME Owner[to] # p
            PROVE  ~Ahead(Owner[at[p].to], at[p].to)'
        <5>1. at'[p].to = to
          BY <1>3
        <5> QED BY <3>3, <4>1, <5>1 DEF Ahead
      <4> QED BY <1>16, <4>1
    <3> QED BY <1>3, <2>2, <3>1, <3>4, <3>5 DEF Moves
  <2> QED BY <2>1, <2>2
<1>18. ASSUME NEW q \in Procs, Alone(q)', at[q].where # "head"
       PROVE  /\ Alone(q) /\ at[q].box <= Len(MyBoxes[q]) /\ Here(q) \in Boxes /\ Here(q) # to
              /\ Listed(g, Here(q))' = Listed(h, Here(q))
              /\ Cursor(q)' = Cursor(q)
  <2>1. Alone(q) /\ pc[q] \in Walks /\ at[q].box <= Len(MyBoxes[q])
    BY <1>1, <1>16, <1>18 DEF Alone, Walks, Frame, AtInv
  <2>2. Here(q) \in Boxes /\ Owner[Here(q)] = q /\ at[q].box \in 1 .. Len(MyBoxes[q])
    BY <2>1, WalkAt
  <2>3. Here(q) # to
    <3>1. CASE q = p
      BY <1>4, <3>1
    <3>2. CASE q # p
      <4> SUFFICES ASSUME Here(q) = to
                   PROVE  FALSE
        OBVIOUS
      <4>1. ~Ahead(q, to) /\ c \in crossed'
        BY <1>1, <1>16, <2>2, <3>2
      <4>2. pc[q] = "bndry"
        BY <1>1, <1>18, <4>1 DEF Ahead, Alone
      <4>3. at[q].box \in at[q].box .. Len(MyBoxes[q])
        BY <2>2, Grid
      <4> QED BY <4>1, <4>2, <4>3 DEF Ahead, Here
    <3> QED BY <3>1, <3>2
  <2>4. Here(q)' = Here(q) /\ Cursor(q)' = Cursor(q)
    <3>1. CASE q = p
      BY <1>1, <1>3, <3>1 DEF Here, Cursor
    <3>2. CASE q # p
      BY <1>3, <3>2 DEF Here, Cursor
    <3> QED BY <3>1, <3>2
  <2>5. Listed(g, Here(q))' = Listed(h, Here(q))
    <3>2. Listed(g, Here(q))' = {m \in Mols : m \notin Loose' /\ g[m] = Here(q)}
      BY <2>4 DEF Listed
    <3>3. \A m \in Mols : g[m] = Here(q) => m # c
      BY <1>6, <2>3
    <3>4. \A m \in Mols : (m \notin Loose' /\ g[m] = Here(q)) <=> (m \notin Loose /\ h[m] = Here(q))
      <4>1. \A m \in Mols : m \notin Loose => m # c
        BY <1>9
      <4>2. \A m \in Mols : m # c => g[m] = h[m] /\ (m \in Loose' <=> m \in Loose)
        BY <1>6, <1>9
      <4> QED BY <3>3, <4>1, <4>2
    <3> QED BY <3>2, <3>4 DEF Listed
  <2> QED BY <2>1, <2>2, <2>3, <2>4, <2>5
<1>19. ASSUME NEW q \in Procs
       PROVE  Follows(g, q)'
  <2> SUFFICES ASSUME Alone(q)', at'[q].where # "head"
               PROVE  /\ Cursor(q)' # NULL => Cursor(q)' \in Listed(g, Here(q))'
                      /\ pc'[q] = "bndry" => IF at'[q].last = NULL THEN list'[Here(q)'] = Cursor(q)'
                            ELSE at'[q].last \in Listed(g, Here(q))' /\ next'[at'[q].last] = Cursor(q)'
    BY DEF Follows
  <2>1. at[q].where # "head" /\ at'[q].last = at[q].last /\ at'[q].box = at[q].box
    <3>1. CASE q = p
      BY <1>1, <1>3, <3>1
    <3>2. CASE q # p
      BY <1>3, <3>2
    <3> QED BY <3>1, <3>2
  <2>2. /\ Alone(q) /\ Here(q) \in Boxes /\ Here(q) # to
        /\ Listed(g, Here(q))' = Listed(h, Here(q)) /\ Cursor(q)' = Cursor(q)
    BY <1>18, <2>1
  <2>3. Here(q)' = Here(q) /\ list'[Here(q)] = list[Here(q)]
    BY <1>1, <2>1, <2>2, Types DEF Frame, Here
  <2>4. Follows(h, q)
    BY DEF ListInv, Walking
  <2> QED BY <1>1, <2>1, <2>2, <2>3, <2>4 DEF Follows
<1>20. WalkStage
  BY <1>1, WhichStage DEF Frame
<1>21. Forces(g)'
  <2>1. \A m \in Mols : Keeper(g, m) \in Procs
    BY <1>6, Grid DEF Keeper
  <2>2. \A q \in Procs : pc'[q] \notin {"b_intra", "interf", "b_interf"}
    BY <1>1, <1>20 DEF WalkStage, Stage, Walks
  <2> QED BY <2>1, <2>2 DEF Forces, Keeper
<1>22. ASSUME NEW m \in Mols \ Loose
       PROVE  Progress(g, s, m)'
  <2>1. m # c /\ m \in Mols /\ g[m] = h[m] /\ s[m] = r[m] /\ Progress(h, r, m)
    BY <1>6, <1>9 DEF ListInv, Done
  <2> DEFINE k == Keeper(h, m)
  <2>2. k \in Procs /\ pc'[k] = pc[k]
    BY <1>1, <1>5, Grid DEF Keeper
  <2>3. ASSUME pc[k] \in {"scale", "correct", "bndry"} \/ (pc[k] = "kineti" /\ crossed' = {})
        PROVE  Passed(g, s, m)' <=> Passed(h, r, m)
    <3>1. Keeper(g, m) = k /\ at'[k].box = at[k].box /\ (at'[k].where = "head" <=> at[k].where = "head")
      <4>1. CASE k = p
        BY <1>1, <1>3, <2>1, <4>1 DEF Keeper
      <4>2. CASE k # p
        BY <1>3, <2>1, <2>2, <4>2 DEF Keeper
      <4> QED BY <4>1, <4>2
    <3>2. CASE at[k].where = "head"
      BY <2>1, <3>1, <3>2 DEF Passed, Behind, Keeper
    <3>3. CASE at[k].where # "head"
      <4>1. Alone(k)'
        BY <2>2, <2>3 DEF Alone, Keeper
      <4>2. Alone(k) /\ Cursor(k)' = Cursor(k)
        BY <1>18, <2>2, <3>3, <4>1
      <4>3. Cursor(k) # NULL => s[Cursor(k)] = r[Cursor(k)]
        <5>1. Cursor(k) # NULL => Cursor(k) \in Listed(h, Here(k))
          BY <2>2, <3>3, <4>2 DEF ListInv, Walking, Follows
        <5> QED BY <1>6, <1>10, <5>1
      <4> HIDE DEF Cursor
      <4> QED BY <2>1, <3>1, <3>3, <4>2, <4>3 DEF Passed, Behind, Keeper
    <3> QED BY <3>2, <3>3
  <2> HIDE DEF Passed, Progress, Keeper
  <2> QED BY <1>1, <1>16, <2>1, <2>2, <2>3, ProgressKept
<1>23. Progress(g, s, c)'
  <2> DEFINE k == Owner[to]
  <2>1. scaled[c] = 1 /\ corrected[c] = 1 /\ (crossed = {} => counted[c] = 0)
    BY <1>9 DEF ListInv, Done
  <2>2. k \in Procs /\ Keeper(g, c) = k
    BY <1>2, <1>6 DEF Keeper
  <2>3. pc[k] \notin {"scale", "correct"}
    BY <1>1 DEF Ahead
  <2>4. crossed' = {} => k = p
    BY <1>16
  <2>5. pos[c] = g[c] /\ UNCHANGED <<pos, scaled, corrected, counted>>
    BY <1>1, <1>4, <1>6
  <2>6. pc'[k] = pc[k] /\ (crossed' = {} => crossed = {} /\ pc[k] = "bndry")
    BY <1>1, <1>16, <2>4
  <2> HIDE DEF Passed, Keeper, k
  <2> QED BY <2>1, <2>2, <2>3, <2>5, <2>6 DEF Progress
<1>24. Done(g, s)'
  <2>1. \A m \in Mols \ Loose' : m = c \/ m \in Mols \ Loose
    BY <1>9
  <2>2. ASSUME NEW m \in Mols \ Loose'
        PROVE  Progress(g, s, m)'
    BY <1>22, <1>23, <2>1
  <2>3. ASSUME NEW m \in Loose'
        PROVE  scaled'[m] = 1 /\ corrected'[m] = 1 /\ (crossed' = {} => counted'[m] = 0)
    BY <1>1, <1>9, <1>16 DEF ListInv, Done
  <2> QED BY <2>2, <2>3 DEF Done
<1> QED BY <1>7, <1>14, <1>17, <1>19, <1>21, <1>24 DEF ListInv, Moving, Walking

\* The molecule gets its successor, and the walk goes on.
LEMMA LinkLists ==
    ASSUME Frame, NEW h, NEW r, ListInv(h, r), NEW p \in Procs, Link(p),
           NEW c, c = at[p].curr
    PROVE  ListInv(h, r)'
<1> DEFINE n == at[p].nxt
<1>1. /\ pc[p] = "bndry" /\ at[p].where = "link" /\ at[p].box <= Len(MyBoxes[p])
      /\ UNCHANGED <<list, met, pos, scaled, corrected, counted, pc, crossed>>
      /\ next' = [next EXCEPT ![c] = at[p].temp]
      /\ at' = [at EXCEPT ![p] = Onto(at[p], n)]
  BY DEF Link, In, done
<1>2. /\ at[p] \in Hands /\ c \in Mols /\ Here(p) \in Boxes /\ Owner[Here(p)] = p /\ Alone(p)
      /\ n \in Mols \cup {NULL} /\ at[p].box \in Nat
  BY <1>1, WalkAt DEF Walks, Alone, Hands
<1>3. /\ \A q \in Procs : q # p => at'[q] = at[q]
      /\ n = NULL => at'[p].where = "head" /\ at'[p].box = at[p].box + 1
      /\ n # NULL => /\ at'[p].where = "mol" /\ at'[p].box = at[p].box
                     /\ at'[p].curr = n /\ at'[p].last = at[p].last
  <2>1. at'[p] = Onto(at[p], n) /\ \A q \in Procs : q # p => at'[q] = at[q]
    BY <1>1, Types DEF Frame
  <2>2. /\ n = NULL => Onto(at[p], n).where = "head" /\ Onto(at[p], n).box = at[p].box + 1
        /\ n # NULL => /\ Onto(at[p], n).where = "mol" /\ Onto(at[p], n).box = at[p].box
                       /\ Onto(at[p], n).curr = n /\ Onto(at[p], n).last = at[p].last
    BY <1>2, OntoHand
  <2> QED BY <2>1, <2>2
<1> HIDE DEF n
<1>4. Busy(p, "link") /\ ~Busy(p, "insert") /\ ~Busy(p, "insert")' /\ ~Busy(p, "link")'
  BY <1>1, <1>3 DEF Busy
<1>5. /\ c \notin Loose /\ h[c] = at[p].to /\ Highest(r, Below(h, r, c), at[p].temp)
      /\ at[p].to # Here(p)
      /\ \A q \in Procs : (Busy(q, "insert") \/ Busy(q, "link")) /\ at[q].curr = c => q = p
  BY <1>1, <1>4 DEF ListInv, Ordered, Moving, Moves
<1>6. /\ \A q \in Procs : Busy(q, "insert")' <=> Busy(q, "insert")
      /\ \A q \in Procs : Busy(q, "link")' <=> Busy(q, "link") /\ q # p
  BY <1>1, <1>3, <1>4 DEF Busy
<1>7. /\ Loose' = Loose /\ \A m : Linking(m)' <=> Linking(m) /\ m # c
  <2>1. Loose' = Loose
    BY <1>3, <1>4, <1>6 DEF Loose
  <2>2. ASSUME NEW m
        PROVE  Linking(m)' <=> Linking(m) /\ m # c
    <3>1. Linking(m)' <=> \E q \in Procs : Busy(q, "link") /\ q # p /\ at[q].curr = m
      BY <1>3, <1>6 DEF Linking
    <3> QED BY <1>4, <1>5, <3>1 DEF Linking
  <2> QED BY <2>1, <2>2
<1>8. /\ \A b : Listed(h, b)' = Listed(h, b)
      /\ \A m : Below(h, r, m)' = Below(h, r, m)
  BY <1>7 DEF Listed, Below
<1>9. next'[c] = at[p].temp /\ \A m \in Mols : m # c => next'[m] = next[m]
  BY <1>1, <1>2, Types DEF Frame
<1>10. Ordered(h, r)'
  <2>1. \A b \in Boxes : Highest(r, Listed(h, b)', list'[b])
    BY <1>1, <1>8 DEF ListInv, Ordered
  <2>2. ASSUME NEW m \in Mols \ Loose', ~Linking(m)'
        PROVE  Highest(r, Below(h, r, m)', next'[m])
    <3>1. CASE m = c
      BY <1>5, <1>8, <1>9, <3>1
    <3>2. CASE m # c
      <4>1. Highest(r, Below(h, r, m), next[m])
        BY <1>7, <2>2, <3>2 DEF ListInv, Ordered
      <4> QED BY <1>8, <1>9, <3>2, <4>1
    <3> QED BY <3>1, <3>2
  <2>3. ASSUME NEW q \in Procs, Busy(q, "link")'
        PROVE  /\ at'[q].curr \notin Loose' /\ h[at'[q].curr] = at'[q].to
               /\ Highest(r, Below(h, r, at[q].curr)', at'[q].temp)
    <3>1. Busy(q, "link") /\ at'[q] = at[q]
      BY <1>3, <1>6, <2>3
    <3> QED BY <1>7, <1>8, <3>1 DEF ListInv, Ordered
  <2> QED BY <2>1, <2>2, <2>3 DEF Ordered, Highest
<1>11. Ranks(h, r)' /\ Forces(h)'
  BY <1>1 DEF ListInv, Ranks, Forces, Keeper
\* Nobody walks the list into which c goes.
<1>12. ASSUME NEW q \in Procs, Alone(q), at[q].box <= Len(MyBoxes[q])
       PROVE  c \notin Listed(h, Here(q))
  <2>1. at[p].to # Here(q)
    BY <1>4, <1>12, AloneInList
  <2> QED BY <1>5, <2>1 DEF Listed
<1>13. ASSUME NEW q \in Procs
       PROVE  Moves(q)'
  <2>1. CASE q # p
    <3>1. \A k \in Procs : k # p => pc'[k] = pc[k] /\ at'[k] = at[k]
      BY <1>1, <1>3
    <3>2. pc'[p] = pc[p] /\ at'[p].box \in Nat /\ at'[p].box >= at[p].box
      BY <1>1, <1>2, <1>3
    <3>3. \A k \in Procs, b \in Boxes : Ahead(k, b)' => Ahead(k, b)
      BY <3>1, <3>2, AheadFalls
    <3>4. ASSUME Busy(q, "unlink")
          PROVE  next'[at[q].curr] = next[at[q].curr]
      <4>1. /\ pc[q] = "bndry" /\ at[q].where = "unlink" /\ at[q].curr \in Mols
            /\ at[q].box <= Len(MyBoxes[q]) /\ Alone(q)
        BY <3>4 DEF Busy, Frame, AtInv, Alone
      <4>2. Cursor(q) = at[q].curr /\ at[q].curr # NULL
        BY <4>1 DEF Cursor, Mols, NULL
      <4>3. at[q].curr \in Listed(h, Here(q))
        BY <4>1, <4>2 DEF ListInv, Walking, Follows
      <4> QED BY <1>9, <1>12, <4>1, <4>3
    <3>5. UNCHANGED <<pos, crossed>>
      BY <1>1
    <3> QED BY <1>4, <2>1, <3>1, <3>3, <3>4, <3>5, OthersMove
  <2>2. CASE q = p
    BY <1>3, <2>2 DEF Moves
  <2> QED BY <2>1, <2>2
<1>14. ASSUME NEW q \in Procs
       PROVE  Follows(h, q)'
  <2> SUFFICES ASSUME Alone(q)', at'[q].where # "head"
               PROVE  /\ Cursor(q)' # NULL => Cursor(q)' \in Listed(h, Here(q))'
                      /\ pc'[q] = "bndry" => IF at'[q].last = NULL THEN list'[Here(q)'] = Cursor(q)'
                            ELSE at'[q].last \in Listed(h, Here(q))' /\ next'[at'[q].last] = Cursor(q)'
    BY DEF Follows
  <2>1. /\ Cursor(q)' = Cursor(q) /\ Here(q)' = Here(q) /\ at'[q].last = at[q].last
        /\ at[q].where # "head" /\ Alone(q) /\ pc'[q] = pc[q]
    <3>1. CASE q = p
      BY <1>1, <1>2, <1>3, <3>1 DEF Cursor, Here, n
    <3>2. CASE q # p
      BY <1>1, <1>3, <3>2 DEF Cursor, Here, Alone
    <3> QED BY <3>1, <3>2
  <2>2. at[q].box <= Len(MyBoxes[q])
    BY <2>1 DEF Frame, AtInv
  <2>3. \A m \in Listed(h, Here(q)) : next'[m] = next[m]
    BY <1>9, <1>12, <2>1, <2>2 DEF Listed
  <2>4. Listed(h, Here(q))' = Listed(h, Here(q))
    BY <1>7, <2>1 DEF Listed
  <2>5. Follows(h, q) /\ UNCHANGED list
    BY <1>1 DEF ListInv, Walking
  <2> QED BY <2>1, <2>3, <2>4, <2>5 DEF Follows
<1>15. ASSUME NEW m \in Mols \ Loose
       PROVE  Progress(h, r, m)'
  <2>1. Progress(h, r, m) /\ Keeper(h, m) \in Procs
    BY Grid DEF ListInv, Done, Keeper, Ranks
  <2>2. Passed(h, r, m)' <=> Passed(h, r, m)
    <3>1. CASE Keeper(h, m) # p
      BY <1>3, <2>1, <3>1 DEF Passed, Behind, Cursor, Keeper
    <3>2. CASE Keeper(h, m) = p
      <4>1. Place[h[m]] \in Nat
        BY Grid DEF ListInv, Ranks
      <4>2. Passed(h, r, m) <=> \/ Place[h[m]] < at[p].box
                                \/ Place[h[m]] = at[p].box /\ (n # NULL => r[m] > r[n])
        BY <1>1, <3>2 DEF Passed, Behind, Cursor, n
      <4>3. CASE n = NULL
        <5>1. Passed(h, r, m)' <=> Place[h[m]] < at[p].box + 1
          BY <1>3, <3>2, <4>1, <4>3 DEF Passed, Behind, Keeper
        <5> HIDE DEF Passed
        <5> QED BY <1>2, <4>1, <4>2, <4>3, <5>1
      <4>4. CASE n # NULL
        <5>1. Passed(h, r, m)' <=> \/ Place[h[m]] < at[p].box
                                   \/ Place[h[m]] = at[p].box /\ (n # NULL => r[m] > r[n])
          <6>1. Cursor(p)' = n
            BY <1>3, <4>4 DEF Cursor
          <6> QED BY <1>3, <3>2, <4>4, <6>1 DEF Passed, Behind, Keeper
        <5> HIDE DEF Passed
        <5> QED BY <4>2, <5>1
      <4> QED BY <4>3, <4>4
    <3> QED BY <3>1, <3>2
  <2> HIDE DEF Passed, Progress, Keeper
  <2> QED BY <1>1, <2>1, <2>2, ProgressKept
<1>16. Done(h, r)'
  <2>1. \A m \in Loose : scaled[m] = 1 /\ corrected[m] = 1 /\ (crossed = {} => counted[m] = 0)
    BY DEF ListInv, Done
  <2> QED BY <1>1, <1>7, <1>15, <2>1 DEF Done
<1> QED BY <1>10, <1>11, <1>13, <1>14, <1>16 DEF ListInv, Moving, Walking

-----------------------------------------------------------------------------
(* The invariant holds from the start and with every step.                 *)
\* The first lists: the box of the lattice, and ranks that fall with the number.
LEMMA InitLists ==
    ASSUME Init
    PROVE  \E h \in [Mols -> Boxes], r \in [Mols -> Nat] : ListInv(h, r)
<1> DEFINE h == Lattice
           r == [m \in Mols |-> NMOL - m]
<1>1. /\ h \in [Mols -> Boxes] /\ NMOL \in Nat /\ Mols \subseteq Nat
      /\ \A m \in Mols : r[m] \in Nat /\ r[m] = NMOL - m /\ r[m] <= NMOL /\ m \in 1 .. NMOL
  BY WaterAssumption DEF Mols
<1>2. r \in [Mols -> Nat]
  BY <1>1
<1>3. Ranks(h, r)
  BY <1>1, <1>2 DEF Ranks
<1>4. /\ Loose = {} /\ (\A m : ~Linking(m)) /\ (\A q \in Procs : \A w : ~Busy(q, w))
      /\ \A q \in Procs : pc[q] = "intraf" /\ at[q].where = "head" /\ at[q].box = 1
  BY DEF Init, Loose, Linking, Busy, Nowhere
\* INITIA's lists go up by number.
<1>5. ASSUME NEW S \in SUBSET Mols, NEW m \in Nat
      PROVE  LET T == {n \in S : n > m}
             IN  Highest(r, T, After(S, m))
  <2> DEFINE T == {n \in S : n > m}
  <2>1. CASE T = {}
    BY <2>1 DEF After, Highest
  <2>2. CASE T # {}
    <3> DEFINE f == [n \in T |-> n]
    <3>1. \A n \in T : n \in Nat /\ f[n] = n /\ n \in Mols /\ n # NULL
      BY <1>1 DEF NULL
    <3>2. \A n \in T : f[n] \in Nat
      BY <3>1
    <3>3. \E n \in T : \A k \in T : f[n] <= f[k]
      <4> HIDE DEF T, f
      <4> QED BY <2>2, <3>2, Lowest
    <3>4. \E n \in S : n > m /\ \A k \in S : k > m => n <= k
      BY <3>1, <3>3
    <3> DEFINE a == CHOOSE n \in S : n > m /\ \A k \in S : k > m => n <= k
    <3>5. After(S, m) = a
      BY <3>4 DEF After
    <3>6. a \in T /\ \A k \in T : a <= k
      BY <3>4
    <3> HIDE DEF a, r
    <3>7. a \in Nat /\ a # NULL
      BY <3>1, <3>6
    <3>8. ASSUME NEW k \in T
          PROVE  r[k] <= r[a]
      BY <1>1, <3>6, <3>8
    <3> QED BY <3>5, <3>6, <3>7, <3>8 DEF Highest
  <2> QED BY <2>1, <2>2
<1>6. ASSUME NEW b \in Boxes
      PROVE  Highest(r, Listed(h, b), list[b])
  <2> DEFINE S == {m \in Mols : Lattice[m] = b}
  <2>1. list[b] = After(S, 0) /\ {n \in S : n > 0} = S /\ Listed(h, b) = S
    <3>1. list[b] = After(S, 0)
      BY DEF Init
    <3>2. {n \in S : n > 0} = S
      <4>1. \A n \in Mols : n > 0
        BY WaterAssumption DEF Mols
      <4> QED BY <4>1
    <3>3. Listed(h, b) = S
      BY <1>4 DEF Listed
    <3> QED BY <3>1, <3>2, <3>3
  <2>2. S \in SUBSET Mols
    OBVIOUS
  <2> HIDE DEF S, r
  <2> QED BY <1>5, <2>1, <2>2
<1>7. ASSUME NEW m \in Mols
      PROVE  Highest(r, Below(h, r, m), next[m])
  <2> DEFINE S == {n \in Mols : Lattice[n] = Lattice[m]}
  <2>1. next[m] = After(S, m) /\ m \in Nat
    BY <1>1 DEF Init
  <2>2. S \in SUBSET Mols
    OBVIOUS
  <2>3. Below(h, r, m) = {n \in S : n > m}
    <3>1. Listed(h, h[m]) = S
      BY <1>4 DEF Listed
    <3>2. \A n \in Mols : r[n] < r[m] <=> n > m
      BY <1>1
    <3> QED BY <3>1, <3>2 DEF Below
  <2> HIDE DEF S, r
  <2> QED BY <1>5, <2>1, <2>2, <2>3
<1> HIDE DEF r
<1>8. Ordered(h, r)
  BY <1>4, <1>6, <1>7 DEF Ordered
<1>9. Moving /\ Walking(h)
  BY <1>4 DEF Moving, Moves, Walking, Follows
<1>10. Done(h, r) /\ Forces(h)
  <2>1. \A m \in Mols : Keeper(h, m) \in Procs /\ pc[Keeper(h, m)] = "intraf"
    BY <1>1, <1>4, Grid DEF Keeper
  <2>2. \A m \in Mols : pos[m] = h[m]
    BY DEF Init
  <2>3. \A m \in Mols : Progress(h, r, m)
    BY <2>1, <2>2 DEF Progress
  <2>4. Done(h, r)
    BY <1>4, <2>3 DEF Done
  <2>5. Forces(h)
    BY <2>1 DEF Forces
  <2> QED BY <2>4, <2>5
<1> QED BY <1>1, <1>2, <1>3, <1>8, <1>9, <1>10 DEF ListInv

\* INITIA's lattice, by number.
LEMMA InitInv == Init => IInv
BY InitFrame, InitLists DEF IInv, Frame

\* Once overtaken is set it stays, and nothing is claimed of the lists any more.
LEMMA NextInv ==
    ASSUME IInv, [Next]_vars
    PROVE  IInv'
<1>1. Frame /\ Frame'
  BY NextFrame DEF IInv, Frame
<1>2. ASSUME ~overtaken'
      PROVE  ~overtaken
  <2>1. overtaken \in BOOLEAN
    BY <1>1, Types DEF Frame
  <2>2. CASE UNCHANGED overtaken
    BY <1>2, <2>2
  <2>3. ASSUME NEW p \in Procs, Insert(p)
        PROVE  ~overtaken
    BY <1>2, <2>3 DEF Insert
  <2>4. ASSUME NEW p \in Procs, ProcStep(p), ~Insert(p)
        PROVE  UNCHANGED overtaken
    BY <2>4 DEF ProcStep, Intraf, Interf, ReadList, Scale, Correct, Count, EndWalk, Inspect, Unlink,
                Link, Top, Kineti, Totals, Poteng, PotengIntra, PotengPairs, Energy
  <2> QED BY <2>2, <2>3, <2>4 DEF Next, Pass, Open, NextStep, vars
<1>3. ASSUME ~overtaken'
      PROVE  \E g \in [Mols -> Boxes], s \in [Mols -> Nat] : ListInv(g, s)'
  <2>1. PICK h \in [Mols -> Boxes], r \in [Mols -> Nat] : ListInv(h, r)
    BY <1>2, <1>3 DEF IInv
  <2>2. CASE ListInv(h, r)'
    BY <2>2
  <2>3. ASSUME NEW p \in Procs, ProcStep(p), ~Insert(p)
        PROVE  ListInv(h, r)'
    <3>1. CASE Link(p)
      <4>1. PICK c : c = at[p].curr
        OBVIOUS
      <4> QED BY <1>1, <2>1, <3>1, <4>1, LinkLists
    <3>2. CASE ~Link(p)
      BY <1>1, <2>1, <2>3, <3>2, IntrafLists, InterfLists, ReadListLists, ScaleLists, CorrectLists,
         CountLists, EndWalkLists, InspectLists, UnlinkLists, BetweenWalks DEF ProcStep
    <3> QED BY <3>1, <3>2
  <2>4. ASSUME NEW p \in Procs, Insert(p)
        PROVE  \E g \in [Mols -> Boxes], s \in [Mols -> Nat] : ListInv(g, s)'
    <3>1. PICK c : c = at[p].curr
      OBVIOUS
    <3>2. PICK to : to = at[p].to
      OBVIOUS
    <3>3. PICK top \in Nat : \A m \in Mols : r[m] <= top
      BY <2>1 DEF ListInv, Ranks
    <3> DEFINE g == [h EXCEPT ![c] = to]
               s == [r EXCEPT ![c] = top + 1]
    <3>4. ListInv(g, s)'
      BY <1>1, <1>3, <2>1, <2>4, <3>1, <3>2, <3>3, InsertLists
    <3>5. to \in Boxes /\ top + 1 \in Nat
      BY <1>1, <3>2, Types DEF Frame, Hands
    <3>6. g \in [Mols -> Boxes] /\ s \in [Mols -> Nat]
      BY <3>5
    <3> QED BY <3>4, <3>6
  <2>5. CASE UNCHANGED vars
    <3>1. /\ UNCHANGED <<list, next, pos, met, scaled, corrected, counted, at, crossed, pc>>
      BY <2>5 DEF vars, lists, done
    <3>2. Ordered(h, r)' /\ Moving' /\ Walking(h)' /\ Done(h, r)'
      BY <1>1, <2>1, <3>1, QuietStep
    <3>3. Ranks(h, r)' /\ Forces(h)'
      BY <2>1, <3>1 DEF ListInv, Ranks, Forces, Keeper
    <3> QED BY <3>2, <3>3 DEF ListInv
  <2>6. CASE Pass \/ NextStep
    BY <1>1, <2>1, <2>6, PassLists, NextStepLists
  <2> QED BY <2>2, <2>3, <2>4, <2>5, <2>6 DEF Next
<1> QED BY <1>1, <1>3 DEF IInv, Frame

\* There are a box and a rank for every molecule that describe the lists, until a
\* molecule arrives too early in a box of another process (bndry.C:78-104).
THEOREM Inductive == Spec => []IInv
<1>1. Init => IInv
  BY InitInv
<1>2. IInv /\ [Next]_vars => IInv'
  BY NextInv
<1> QED BY <1>1, <1>2, PTL DEF Spec

-----------------------------------------------------------------------------
(* What follows.                                                           *)
\* At a barrier with no BNDRY under way the positions are the boxes of the lists.
LEMMA ListsAtBarrier ==
    ASSUME IInv, ~overtaken, NEW label \in {"b_interf", "b_kineti"}, AllAt(label)
    PROVE  \E h \in [Mols -> Boxes], r \in [Mols -> Nat] :
             ListInv(h, r) /\ Loose = {} /\ (\A m \in Mols : pos[m] = h[m]) /\ InItsBox
<1>1. PICK h \in [Mols -> Boxes], r \in [Mols -> Nat] : ListInv(h, r)
  BY DEF IInv
<1>2. Frame /\ \A p \in Procs : pc[p] = label /\ pc[p] # "bndry"
  BY DEF IInv, Frame, AllAt
<1>3. Loose = {}
  BY <1>2 DEF Loose, Busy
<1>4. ASSUME NEW b \in Boxes
      PROVE  Ends(b) /\ Members(b) = {m \in Mols : h[m] = b}
  BY <1>1, <1>2, ListWalked
<1>5. ASSUME NEW m \in Mols
      PROVE  pos[m] = h[m]
  <2>1. Progress(h, r, m) /\ Keeper(h, m) \in Procs
    BY <1>1, <1>3, Grid DEF ListInv, Done, Keeper
  <2>2. pc[Keeper(h, m)] \notin {"correct", "bndry"}
    BY <1>2, <2>1
  <2> HIDE DEF Passed, Keeper
  <2> QED BY <2>1, <2>2 DEF Progress
<1>6. InItsBox
  BY <1>4, <1>5 DEF InItsBox
<1> QED BY <1>1, <1>3, <1>5, <1>6

\* As long as no molecule arrives in a box before its owner has finished BNDRY
\* there, every molecule is in one list, that of its box (bndry.C:43-110), was
\* scaled and corrected once, and counted once if none changed hands.
THEOREM OnceCorrect == Spec => []OnceUnlessOvertaken
<1>1. ASSUME IInv
      PROVE  OnceUnlessOvertaken
  <2> SUFFICES ASSUME AllAt("b_kineti"), ~overtaken
               PROVE  /\ InItsBox
                      /\ \A m \in Mols : /\ scaled[m] = 1 /\ corrected[m] = 1
                                         /\ crossed = {} => counted[m] = 1
    BY DEF OnceUnlessOvertaken
  <2>1. PICK h \in [Mols -> Boxes], r \in [Mols -> Nat] :
          ListInv(h, r) /\ Loose = {} /\ (\A m \in Mols : pos[m] = h[m]) /\ InItsBox
    BY <1>1, ListsAtBarrier
  <2>2. ASSUME NEW m \in Mols
        PROVE  scaled[m] = 1 /\ corrected[m] = 1 /\ (crossed = {} => counted[m] = 1)
    <3>1. Progress(h, r, m) /\ Keeper(h, m) \in Procs
      BY <2>1, Grid DEF ListInv, Done, Keeper
    <3>2. pc[Keeper(h, m)] = "b_kineti"
      BY <3>1 DEF AllAt
    <3> HIDE DEF Passed, Keeper
    <3> QED BY <3>1, <3>2 DEF Progress
  <2> QED BY <2>1, <2>2
<1> QED BY <1>1, Inductive, PTL

\* Types hold; the force on a molecule holds every molecule of the touching boxes
\* once (interf.C:65-115), also across the boundary and with two boxes per side; and
\* the sums read after a barrier hold the part of every process once (mdmain.C:96-105).
THEOREM TotalsCorrect == Spec => []TotalsComplete
<1>1. ASSUME IInv
      PROVE  TotalsComplete
  <2>1. Frame
    BY <1>1 DEF IInv, Frame
  <2>2. ASSUME NEW p \in Procs
        PROVE  /\ pc[p] = "totals" => \A q \in Procs : VIR[q] = 2 /\ SUM[q] = 1
               /\ pc[p] = "energy" => \A q \in Procs : SUM[q] = 1 /\ POT[q] = 1
    BY <2>1, WhichStage DEF Frame, TotalsStage, EnergyStage, Sums
  <2>3. ASSUME AllAt("b_interf"), ~overtaken, NEW m \in Mols, NEW n \in Mols, m # n
        PROVE  met[m][n] = IF Touch(pos[m], pos[n], BOX_PER_SIDE) THEN 1 ELSE 0
    <3>1. PICK h \in [Mols -> Boxes], r \in [Mols -> Nat] :
            ListInv(h, r) /\ Loose = {} /\ (\A k \in Mols : pos[k] = h[k]) /\ InItsBox
      BY <1>1, <2>3, ListsAtBarrier
    <3>2. pc[Keeper(h, m)] = "b_interf"
      BY <2>3, Grid DEF AllAt, Keeper
    <3>3. met[m][n] = IF Touch(h[m], h[n], BOX_PER_SIDE) THEN 1 ELSE 0
      BY <2>3, <3>1, <3>2 DEF ListInv, Forces
    <3> QED BY <3>1, <3>3
  <2> QED BY <2>1, <2>2, <2>3 DEF TotalsComplete, Frame
<1> QED BY <1>1, Inductive, PTL

=============================================================================
