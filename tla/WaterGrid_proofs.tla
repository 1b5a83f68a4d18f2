--------------------------- MODULE WaterGrid_proofs ---------------------------
(***************************************************************************)
(* The grid of water_spatial for every number of boxes and processes:      *)
(* main() deals out each box to one process, and the loops of INTERF and   *)
(* POTENG visit each box that touches once.                                *)
(***************************************************************************)
EXTENDS WaterGrid, Sequences, FiniteSetTheorems, WellFoundedInduction, TLAPS

-----------------------------------------------------------------------------
(* Arithmetic.                                                             *)
LEMMA DivMod ==
    ASSUME NEW a \in Int, NEW b \in Nat \ {0}
    PROVE  /\ a \div b \in Int /\ a % b \in 0 .. b - 1
           /\ a = (a \div b) * b + (a % b)
           /\ a \in Nat => a \div b \in Nat
OBVIOUS

LEMMA DivModUnique ==
    ASSUME NEW b \in Nat \ {0}, NEW q \in Int, NEW r \in 0 .. b - 1
    PROVE  (q * b + r) \div b = q /\ (q * b + r) % b = r
OBVIOUS

LEMMA QuotientBelow ==
    ASSUME NEW a \in Nat, NEW b \in Nat \ {0}, NEW n \in Nat, a < n * b
    PROVE  a \div b < n
OBVIOUS

LEMMA PlaceBelow ==
    ASSUME NEW b \in Nat, NEW n \in Nat, NEW q \in Nat, q < n, NEW r \in 0 .. b - 1
    PROVE  q * b + r \in 0 .. n * b - 1
<1>1. (q + 1) * b <= n * b
  OBVIOUS
<1>2. (q + 1) * b = q * b + b /\ q * b \in Nat /\ n * b \in Nat
  OBVIOUS
<1> QED BY <1>1, <1>2

\* A set of numbers that is not empty and does not go beyond n has a greatest.
LEMMA Greatest ==
    ASSUME NEW n \in Nat, NEW S \in SUBSET (0 .. n), S # {}
    PROVE  \E g \in S : \A x \in S : x <= g
<1> DEFINE T == {n - x : x \in S}
           R == OpToRel(LAMBDA x, y : x < y, Nat)
<1>1. T \subseteq Nat /\ T # {}
  <2>1. \A x \in S : x \in Nat /\ x <= n /\ n - x \in Nat
    OBVIOUS
  <2> QED BY <2>1
<1>2. IsWellFoundedOn(R, Nat)
  BY NatLessThanWellFounded
<1>3. PICK y \in T : \A x \in T : <<x, y>> \notin R
  <2> HIDE DEF T, R
  <2> QED BY <1>1, <1>2, WFMin, Zenon
<1>4. \A x \in T : ~ (x < y)
  BY <1>3, <1>1 DEF OpToRel
<1>5. PICK g \in S : y = n - g
  OBVIOUS
<1>6. \A x \in S : x <= g
  <2> SUFFICES ASSUME NEW x \in S
               PROVE  x <= g
    OBVIOUS
  <2>1. n - x \in T
    OBVIOUS
  <2>2. ~ (n - x < n - g)
    BY <2>1, <1>4, <1>5
  <2> QED BY <2>2
<1> QED BY <1>6

-----------------------------------------------------------------------------
(* main() finds factors of the number of processes.                        *)
LEMMA DecompositionFactors ==
    ASSUME NEW n \in Nat \ {0}
    PROVE  /\ Decomposition(n) \in [Dims -> Nat \ {0}]
           /\ Rounds(Decomposition(n)) = n
<1> DEFINE fits == {f \in (1 .. n) \X (1 .. n) :
                      /\ f[1] * f[1] * f[1] <= n /\ f[2] * f[2] <= n \div f[1]
                      /\ n % (f[1] * f[2]) = 0}
           Best(f) == \A g \in fits : f[1] > g[1] \/ (f[1] = g[1] /\ f[2] >= g[2])
           best == CHOOSE f \in fits : Best(f)
<1>1. <<1, 1>> \in fits
  <2>1. n \div 1 = n /\ n % 1 = 0
    OBVIOUS
  <2> QED BY <2>1
<1>2. \E f \in fits : Best(f)
  <2> DEFINE A == {f[1] : f \in fits}
  <2>1. A \in SUBSET (0 .. n) /\ A # {}
    BY <1>1
  <2>2. PICK a \in A : \A x \in A : x <= a
    <3> HIDE DEF A
    <3> QED BY <2>1, Greatest
  <2> DEFINE B == {f[2] : f \in {g \in fits : g[1] = a}}
  <2>3. B \in SUBSET (0 .. n) /\ B # {}
    OBVIOUS
  <2>4. PICK b \in B : \A x \in B : x <= b
    <3> HIDE DEF B
    <3> QED BY <2>3, Greatest
  <2>5. PICK f \in fits : f[1] = a /\ f[2] = b
    BY <2>4
  <2>6. ASSUME NEW g \in fits
        PROVE  f[1] > g[1] \/ (f[1] = g[1] /\ f[2] >= g[2])
    <3>1. g[1] \in A /\ g[1] <= a /\ a \in Int /\ g[1] \in Int
      BY <2>2, <2>1
    <3>2. g[1] = a => g[2] \in B /\ g[2] <= b
      BY <2>4
    <3>3. g[2] \in Int /\ b \in Int
      BY <2>3, <2>4
    <3> QED BY <3>1, <3>2, <3>3, <2>5
  <2> QED BY <2>5, <2>6
<1>3. best \in fits
  <2> HIDE DEF fits, Best
  <2> QED BY <1>2
<1>4. PICK x, y \in 1 .. n : best[1] = x /\ best[2] = y /\ n % (x * y) = 0
  <2> HIDE DEF best
  <2> QED BY <1>3
<1>5. Decomposition(n) = <<x, y, n \div (x * y)>>
  BY <1>4 DEF Decomposition
<1>6. x * y \in Nat \ {0}
  OBVIOUS
<1>7. n \div (x * y) \in Nat /\ n = (n \div (x * y)) * (x * y)
  <2>1. n \in Int /\ n \in Nat
    OBVIOUS
  <2>2. /\ n \div (x * y) \in Nat /\ n % (x * y) \in 0 .. (x * y) - 1
        /\ n = (n \div (x * y)) * (x * y) + (n % (x * y))
    BY <2>1, <1>6, DivMod, Zenon
  <2>3. (n \div (x * y)) * (x * y) \in Int
    BY <2>2
  <2> QED BY <2>2, <2>3, <1>4
<1>8. n \div (x * y) # 0
  BY <1>6, <1>7
<1>9. (x * y) * (n \div (x * y)) = n
  BY <1>6, <1>7
<1> HIDE DEF best
<1> QED BY <1>5, <1>7, <1>8, <1>9 DEF Dims, Rounds

-----------------------------------------------------------------------------
(* The places of nested loops and their numbers.                           *)
PlaceOf(c, size) == (c[1] * size[2] + c[2]) * size[3] + c[3]

LEMMA OuterPlace ==
    ASSUME NEW k \in Int, NEW b \in Nat \ {0}, NEW q \in Nat, NEW r \in 0 .. b - 1, k = q * b + r
    PROVE  k \div b = q
OBVIOUS

LEMMA NestedPlace ==
    ASSUME NEW size \in [Dims -> Nat], NEW c \in [Dims -> Nat],
           \A dir \in Dims : c[dir] < size[dir]
    PROVE  /\ PlaceOf(c, size) \in 0 .. Rounds(size) - 1
           /\ Nested(PlaceOf(c, size), size) = c
<1> PICK s1, s2, s3 \in Nat : size[1] = s1 /\ size[2] = s2 /\ size[3] = s3
  BY DEF Dims
<1> PICK c1, c2, c3 \in Nat : c[1] = c1 /\ c[2] = c2 /\ c[3] = c3
  BY DEF Dims
<1>0. c1 \in Int /\ c1 * s2 + c2 \in Int
  OBVIOUS
<1>1. c1 \in 0 .. s1 - 1 /\ c2 \in 0 .. s2 - 1 /\ c3 \in 0 .. s3 - 1
  BY DEF Dims
<1>2. s2 \in Nat \ {0} /\ s3 \in Nat \ {0} /\ s2 * s3 \in Nat \ {0}
  BY <1>1
<1>3. c1 * s2 + c2 \in 0 .. (s1 * s2) - 1
  BY <1>1, PlaceBelow
<1>4. (c1 * s2 + c2) * s3 + c3 \in 0 .. ((s1 * s2) * s3) - 1
  <2>1. s1 * s2 \in Nat /\ c1 * s2 + c2 \in Nat /\ c1 * s2 + c2 < s1 * s2
    BY <1>3
  <2> QED BY <2>1, <1>1, PlaceBelow
<1>5. c2 * s3 + c3 \in 0 .. (s2 * s3) - 1
  <2>1. c2 < s2
    BY <1>1
  <2> QED BY <2>1, <1>1, PlaceBelow
<1>6. (c1 * s2 + c2) * s3 + c3 = c1 * (s2 * s3) + (c2 * s3 + c3)
  OBVIOUS
<1>7. (c1 * (s2 * s3) + (c2 * s3 + c3)) \div (s2 * s3) = c1
  BY <1>0, <1>2, <1>5, DivModUnique, Zenon
<1>8. /\ ((c1 * s2 + c2) * s3 + c3) \div s3 = c1 * s2 + c2
      /\ ((c1 * s2 + c2) * s3 + c3) % s3 = c3
  <2>1. c1 * s2 + c2 \in Int /\ c3 \in 0 .. s3 - 1 /\ s3 \in Nat \ {0}
    BY <1>0, <1>1, <1>2
  <2> QED BY <2>1, DivModUnique, Zenon
<1>9. (c1 * s2 + c2) % s2 = c2
  BY <1>0, <1>1, <1>2, DivModUnique, Zenon
<1> PICK k \in Nat : k = (c1 * s2 + c2) * s3 + c3
  OBVIOUS
<1>10. PlaceOf(c, size) = k
  BY DEF PlaceOf
<1>11. k \div (s2 * s3) = c1 /\ (k \div s3) % s2 = c2 /\ k % s3 = c3
  BY <1>6, <1>7, <1>8, <1>9
<1>12. Nested(k, size) = [dir \in Dims |-> CASE dir = 1 -> c1 [] dir = 2 -> c2 [] dir = 3 -> c3]
  BY <1>11 DEF Nested, Dims
<1>13. [dir \in Dims |-> CASE dir = 1 -> c1 [] dir = 2 -> c2 [] dir = 3 -> c3] = c
  BY DEF Dims
<1>14. Rounds(size) = (s1 * s2) * s3
  BY DEF Rounds
<1> QED BY <1>4, <1>10, <1>12, <1>13, <1>14

LEMMA PlaceNested ==
    ASSUME NEW size \in [Dims -> Nat], NEW k \in 0 .. Rounds(size) - 1
    PROVE  /\ Nested(k, size) \in [Dims -> Nat]
           /\ \A dir \in Dims : Nested(k, size)[dir] < size[dir]
           /\ PlaceOf(Nested(k, size), size) = k
<1> PICK s1, s2, s3 \in Nat : size[1] = s1 /\ size[2] = s2 /\ size[3] = s3
  BY DEF Dims
<1>1. Rounds(size) = (s1 * s2) * s3 /\ k \in Nat /\ k < (s1 * s2) * s3
  BY DEF Rounds
<1>2. s2 \in Nat \ {0} /\ s3 \in Nat \ {0} /\ s2 * s3 \in Nat \ {0}
  BY <1>1
<1>a. /\ k \div s3 \in Nat /\ k % s3 \in 0 .. s3 - 1
      /\ k = (k \div s3) * s3 + (k % s3)
  <2>1. k \in Int
    BY <1>1
  <2> QED BY <2>1, <1>1, <1>2, DivMod, Zenon
<1> PICK q, r \in Int : q = k \div s3 /\ r = k % s3
  BY <1>a
<1>3. q \in Nat /\ r \in 0 .. s3 - 1 /\ k = q * s3 + r
  BY <1>a
<1>4. q < s1 * s2
  <2>1. s1 * s2 \in Nat
    OBVIOUS
  <2> QED BY <2>1, <1>1, <1>2, QuotientBelow
<1>b. /\ q \div s2 \in Nat /\ q % s2 \in 0 .. s2 - 1
      /\ q = (q \div s2) * s2 + (q % s2)
  BY <1>2, <1>3, DivMod, Zenon
<1> PICK q1, r1 \in Int : q1 = q \div s2 /\ r1 = q % s2
  BY <1>b
<1>5. q1 \in Nat /\ r1 \in 0 .. s2 - 1 /\ q = q1 * s2 + r1
  BY <1>b
<1>6. q1 < s1
  BY <1>2, <1>3, <1>4, QuotientBelow
<1>7. r1 * s3 + r \in 0 .. (s2 * s3) - 1
  <2>1. r1 \in Nat /\ r1 < s2
    BY <1>5
  <2> QED BY <2>1, <1>3, PlaceBelow
<1>8. k = q1 * (s2 * s3) + (r1 * s3 + r)
  <2>1. k = (q1 * s2 + r1) * s3 + r
    BY <1>3, <1>5
  <2> QED BY <2>1
<1>9. k \div (s2 * s3) = q1
  <2>1. PICK u, v \in Int : u = s2 * s3 /\ v = r1 * s3 + r
    OBVIOUS
  <2>2. u \in Nat \ {0} /\ v \in 0 .. u - 1 /\ k = q1 * u + v
    BY <1>2, <1>7, <1>8, <2>1
  <2>3. k \div u = q1
    BY <2>2, <1>5, OuterPlace
  <2> QED BY <2>1, <2>3
<1>10. Nested(k, size) = [dir \in Dims |-> CASE dir = 1 -> q1 [] dir = 2 -> r1 [] dir = 3 -> r]
  BY <1>9 DEF Nested, Dims
<1> PICK c \in [Dims -> Nat] : c = Nested(k, size)
  BY <1>3, <1>5, <1>10 DEF Dims
<1>11. c[1] = q1 /\ c[2] = r1 /\ c[3] = r
  BY <1>10 DEF Dims
<1>12. \A dir \in Dims : c[dir] < size[dir]
  BY <1>3, <1>5, <1>6, <1>11 DEF Dims
<1>13. PlaceOf(c, size) = k
  BY <1>3, <1>5, <1>11 DEF PlaceOf
<1> QED BY <1>12, <1>13

-----------------------------------------------------------------------------
(* One side of the grid.                                                   *)
LEMMA FirstBoxType ==
    ASSUME NEW procs \in Nat \ {0}, NEW bps \in Nat, NEW i \in Nat
    PROVE  /\ bps \div procs \in Nat /\ bps % procs \in 0 .. procs - 1
           /\ bps = (bps \div procs) * procs + (bps % procs)
           /\ FirstBox(i, procs, bps) \in Nat
<1>1. /\ bps \div procs \in Nat /\ bps % procs \in 0 .. procs - 1
      /\ bps = (bps \div procs) * procs + (bps % procs)
  <2>1. bps \in Int
    OBVIOUS
  <2> QED BY <2>1, DivMod, Zenon
<1> QED BY <1>1 DEF FirstBox

LEMMA FirstBoxOrder ==
    ASSUME NEW procs \in Nat \ {0}, NEW bps \in Nat, NEW i \in Nat, NEW j \in Nat, i <= j
    PROVE  FirstBox(i, procs, bps) <= FirstBox(j, procs, bps)
<1>0. bps \div procs \in Nat /\ bps % procs \in Nat
  <2>1. bps % procs \in 0 .. procs - 1 /\ bps \div procs \in Nat
    BY FirstBoxType, Zenon
  <2> QED BY <2>1
<1> PICK inc, left \in Nat : inc = bps \div procs /\ left = bps % procs
  BY <1>0, Zenon
<1>1. i * inc <= j * inc /\ i * inc \in Nat /\ j * inc \in Nat
  OBVIOUS
<1>2. /\ FirstBox(i, procs, bps) = i * inc + (IF i < left THEN i ELSE left)
      /\ FirstBox(j, procs, bps) = j * inc + (IF j < left THEN j ELSE left)
  BY Zenon DEF FirstBox
<1> QED BY <1>1, <1>2

LEMMA FirstBoxEnds ==
    ASSUME NEW procs \in Nat \ {0}, NEW bps \in Nat
    PROVE  FirstBox(0, procs, bps) = 0 /\ FirstBox(procs, procs, bps) = bps
<1>0. /\ bps \div procs \in Nat /\ bps % procs \in 0 .. procs - 1
      /\ bps = (bps \div procs) * procs + (bps % procs)
  <2>1. 0 \in Nat
    OBVIOUS
  <2> QED BY <2>1, FirstBoxType, Zenon
<1>a. bps % procs \in Nat
  BY <1>0
<1> PICK inc, left \in Nat : inc = bps \div procs /\ left = bps % procs
  BY <1>0, <1>a, Zenon
<1>1. left < procs /\ bps = inc * procs + left
  BY <1>0
<1>2. FirstBox(procs, procs, bps) = procs * inc + (IF procs < left THEN procs ELSE left)
  BY Zenon DEF FirstBox
<1>3. FirstBox(0, procs, bps) = 0 * inc + (IF 0 < left THEN 0 ELSE left)
  BY Zenon DEF FirstBox
<1> QED BY <1>1, <1>2, <1>3

LEMMA SideCovered ==
    ASSUME NEW procs \in Nat \ {0}, NEW bps \in Nat, NEW x \in 0 .. bps - 1
    PROVE  \E i \in 0 .. procs - 1 :
              FirstBox(i, procs, bps) <= x /\ x < FirstBox(i + 1, procs, bps)
<1> DEFINE S == {i \in 0 .. procs : FirstBox(i, procs, bps) <= x}
<1>1. S \in SUBSET (0 .. procs) /\ 0 \in S /\ procs \notin S
  <2>1. FirstBox(0, procs, bps) = 0 /\ FirstBox(procs, procs, bps) = bps
    BY FirstBoxEnds
  <2> QED BY <2>1
<1>2. PICK g \in S : \A i \in S : i <= g
  <2> HIDE DEF S
  <2> QED BY <1>1, Greatest
<1>3. g \in 0 .. procs - 1 /\ FirstBox(g, procs, bps) <= x
  BY <1>1, <1>2
<1>4. g + 1 \notin S /\ g + 1 \in 0 .. procs
  BY <1>2, <1>3
<1>5. FirstBox(g + 1, procs, bps) \in Nat
  <2>1. g + 1 \in Nat
    BY <1>3
  <2> QED BY <2>1, FirstBoxType
<1>6. x < FirstBox(g + 1, procs, bps)
  BY <1>4, <1>5
<1> QED BY <1>3, <1>6

LEMMA SideDisjoint ==
    ASSUME NEW procs \in Nat \ {0}, NEW bps \in Nat, NEW x \in Int,
           NEW i \in Nat, NEW j \in Nat,
           FirstBox(i, procs, bps) <= x, x < FirstBox(i + 1, procs, bps),
           FirstBox(j, procs, bps) <= x, x < FirstBox(j + 1, procs, bps)
    PROVE  i = j
<1>1. /\ FirstBox(i, procs, bps) \in Nat /\ FirstBox(i + 1, procs, bps) \in Nat
      /\ FirstBox(j, procs, bps) \in Nat /\ FirstBox(j + 1, procs, bps) \in Nat
  <2>1. i + 1 \in Nat /\ j + 1 \in Nat
    OBVIOUS
  <2> QED BY <2>1, FirstBoxType
<1>2. CASE i < j
  <2>1. i + 1 \in Nat /\ i + 1 <= j
    BY <1>2
  <2>2. FirstBox(i + 1, procs, bps) <= FirstBox(j, procs, bps)
    BY <2>1, FirstBoxOrder
  <2> QED BY <1>1, <2>2
<1>3. CASE j < i
  <2>1. j + 1 \in Nat /\ j + 1 <= i
    BY <1>3
  <2>2. FirstBox(j + 1, procs, bps) <= FirstBox(i, procs, bps)
    BY <2>1, FirstBoxOrder
  <2> QED BY <1>1, <2>2
<1> QED BY <1>2, <1>3

-----------------------------------------------------------------------------
(* The boxes of a process.                                                 *)
LEMMA Shares ==
    ASSUME NEW procs \in [Dims -> Nat \ {0}], NEW bps \in Nat,
           NEW p \in 0 .. Rounds(procs) - 1
    PROVE  /\ Nested(p, procs) \in [Dims -> Nat]
           /\ \A dir \in Dims : Nested(p, procs)[dir] < procs[dir]
           /\ Starts(p, procs, bps) \in [Dims -> Nat]
           /\ Extents(p, procs, bps) \in [Dims -> Nat]
           /\ \A dir \in Dims :
                /\ Starts(p, procs, bps)[dir] = FirstBox(Nested(p, procs)[dir], procs[dir], bps)
                /\ Starts(p, procs, bps)[dir] + Extents(p, procs, bps)[dir]
                       = FirstBox(Nested(p, procs)[dir] + 1, procs[dir], bps)
                /\ Starts(p, procs, bps)[dir] + Extents(p, procs, bps)[dir] <= bps
<1>1. procs \in [Dims -> Nat]
  OBVIOUS
<1>2. Nested(p, procs) \in [Dims -> Nat] /\ \A dir \in Dims : Nested(p, procs)[dir] < procs[dir]
  BY <1>1, PlaceNested
<1>3. ASSUME NEW dir \in Dims
      PROVE  /\ FirstBox(Nested(p, procs)[dir], procs[dir], bps) \in Nat
             /\ FirstBox(Nested(p, procs)[dir] + 1, procs[dir], bps) \in Nat
             /\ FirstBox(Nested(p, procs)[dir], procs[dir], bps)
                   <= FirstBox(Nested(p, procs)[dir] + 1, procs[dir], bps)
             /\ FirstBox(Nested(p, procs)[dir] + 1, procs[dir], bps) <= bps
  <2> PICK i, n \in Nat : i = Nested(p, procs)[dir] /\ n = procs[dir] /\ i < n /\ n # 0
    BY <1>2
  <2>1. FirstBox(i, n, bps) \in Nat /\ FirstBox(i + 1, n, bps) \in Nat
    <3>1. i + 1 \in Nat
      OBVIOUS
    <3> QED BY <3>1, FirstBoxType
  <2>2. FirstBox(i, n, bps) <= FirstBox(i + 1, n, bps)
    <3>1. i + 1 \in Nat /\ i <= i + 1
      OBVIOUS
    <3> QED BY <3>1, FirstBoxOrder
  <2>3. FirstBox(i + 1, n, bps) <= bps
    <3>1. i + 1 \in Nat /\ i + 1 <= n
      OBVIOUS
    <3> QED BY <3>1, FirstBoxOrder, FirstBoxEnds
  <2> QED BY <2>1, <2>2, <2>3
<1>4. /\ Starts(p, procs, bps) = [dir \in Dims |-> FirstBox(Nested(p, procs)[dir], procs[dir], bps)]
      /\ Extents(p, procs, bps) =
            [dir \in Dims |-> FirstBox(Nested(p, procs)[dir] + 1, procs[dir], bps)
                              - Starts(p, procs, bps)[dir]]
  BY DEF Starts, Extents
<1>5. \A dir \in Dims :
        /\ Starts(p, procs, bps)[dir] = FirstBox(Nested(p, procs)[dir], procs[dir], bps)
        /\ Extents(p, procs, bps)[dir] = FirstBox(Nested(p, procs)[dir] + 1, procs[dir], bps)
                              - Starts(p, procs, bps)[dir]
  BY <1>4
<1>6. Starts(p, procs, bps) \in [Dims -> Nat]
  BY <1>3, <1>4
<1>7. Extents(p, procs, bps) \in [Dims -> Nat]
  <2>1. \A dir \in Dims : FirstBox(Nested(p, procs)[dir] + 1, procs[dir], bps)
                              - Starts(p, procs, bps)[dir] \in Nat
    BY <1>3, <1>5
  <2> QED BY <2>1, <1>4
<1> QED BY <1>2, <1>3, <1>5, <1>6, <1>7

LEMMA TableIsSeq ==
    ASSUME NEW S, NEW n \in Nat, NEW f \in [1 .. n -> S]
    PROVE  f \in Seq(S) /\ Len(f) = n
OBVIOUS

LEMMA DealtBoxes ==
    ASSUME NEW procs \in [Dims -> Nat \ {0}], NEW bps \in Nat,
           NEW p \in 0 .. Rounds(procs) - 1
    PROVE  /\ Rounds(Extents(p, procs, bps)) \in Nat
           /\ Dealt(p, procs, bps) \in Seq(BoxesOf(bps))
           /\ Len(Dealt(p, procs, bps)) = Rounds(Extents(p, procs, bps))
           /\ \A k \in 1 .. Len(Dealt(p, procs, bps)) : \A dir \in Dims :
                Dealt(p, procs, bps)[k][dir] =
                    Starts(p, procs, bps)[dir] + Nested(k - 1, Extents(p, procs, bps))[dir]
<1> PICK start, extent \in [Dims -> Nat] :
        /\ start = Starts(p, procs, bps) /\ extent = Extents(p, procs, bps)
        /\ \A dir \in Dims : start[dir] + extent[dir] <= bps
  BY Shares
<1>1. Rounds(extent) \in Nat
  <2>1. extent[1] \in Nat /\ extent[2] \in Nat /\ extent[3] \in Nat
    BY DEF Dims
  <2> QED BY <2>1 DEF Rounds
<1> PICK n \in Nat : n = Rounds(extent)
  BY <1>1
<1> DEFINE BoxAt(k) == [dir \in Dims |-> start[dir] + Nested(k - 1, extent)[dir]]
<1>2. ASSUME NEW k \in 1 .. n
      PROVE  BoxAt(k) \in BoxesOf(bps)
  <2>1. k - 1 \in 0 .. Rounds(extent) - 1
    OBVIOUS
  <2>2. Nested(k - 1, extent) \in [Dims -> Nat] /\ \A dir \in Dims : Nested(k - 1, extent)[dir] < extent[dir]
    BY <2>1, PlaceNested
  <2>3. \A dir \in Dims : start[dir] + Nested(k - 1, extent)[dir] \in 0 .. bps - 1
    BY <2>2
  <2> QED BY <2>3 DEF BoxesOf
<1>3. Dealt(p, procs, bps) = [k \in 1 .. n |-> BoxAt(k)]
  BY DEF Dealt
<1>4. Dealt(p, procs, bps) \in Seq(BoxesOf(bps)) /\ Len(Dealt(p, procs, bps)) = n
  <2> HIDE DEF BoxAt
  <2>1. Dealt(p, procs, bps) \in [1 .. n -> BoxesOf(bps)]
    BY <1>2, <1>3
  <2> QED BY <2>1, TableIsSeq
<1>5. \A k \in 1 .. n : \A dir \in Dims :
         Dealt(p, procs, bps)[k][dir] = start[dir] + Nested(k - 1, extent)[dir]
  BY <1>3
<1> QED BY <1>1, <1>4, <1>5

\* main() and MDMAIN: each box of the grid is in the list of one process,
\* once, for every number of processes and boxes per side; what
\* start_end and my_boxes are for (water.C:226-278, mdmain.C:44-62).
THEOREM EachBoxDealtOnce ==
    ASSUME NEW bps \in Nat, NEW n \in Nat \ {0}
    PROVE  /\ \A p \in 0 .. n - 1 : BoxList(p, n, bps) \in Seq(BoxesOf(bps))
           /\ \A b \in BoxesOf(bps) : \E p \in 0 .. n - 1 :
                \E k \in 1 .. Len(BoxList(p, n, bps)) : BoxList(p, n, bps)[k] = b
           /\ \A p, q \in 0 .. n - 1 :
                \A k \in 1 .. Len(BoxList(p, n, bps)), l \in 1 .. Len(BoxList(q, n, bps)) :
                    BoxList(p, n, bps)[k] = BoxList(q, n, bps)[l] => p = q /\ k = l
<1>p. PICK procs \in [Dims -> Nat \ {0}] : procs = Decomposition(n) /\ Rounds(procs) = n
  BY DecompositionFactors
<1>0. procs \in [Dims -> Nat] /\ \A dir \in Dims : procs[dir] \in Nat \ {0}
  OBVIOUS
<1> DEFINE own(p) == Dealt(p, procs, bps)
           at(p) == Nested(p, procs)
           start(p) == Starts(p, procs, bps)
           extent(p) == Extents(p, procs, bps)
           inner(p, k) == Nested(k - 1, extent(p))
<1>1. \A p : BoxList(p, n, bps) = own(p)
  BY <1>p DEF BoxList
<1>2. ASSUME NEW p \in 0 .. n - 1
      PROVE  /\ at(p) \in [Dims -> Nat] /\ start(p) \in [Dims -> Nat] /\ extent(p) \in [Dims -> Nat]
             /\ PlaceOf(at(p), procs) = p
             /\ \A dir \in Dims :
                  /\ start(p)[dir] = FirstBox(at(p)[dir], procs[dir], bps)
                  /\ start(p)[dir] + extent(p)[dir] = FirstBox(at(p)[dir] + 1, procs[dir], bps)
  <2>1. p \in 0 .. Rounds(procs) - 1
    BY <1>p
  <2>2. PlaceOf(at(p), procs) = p
    BY <2>1, <1>0, PlaceNested
  <2> QED BY <2>1, <2>2, Shares, Zenon
<1>3. ASSUME NEW p \in 0 .. n - 1
      PROVE  /\ Rounds(extent(p)) \in Nat /\ own(p) \in Seq(BoxesOf(bps))
             /\ Len(own(p)) = Rounds(extent(p))
             /\ \A k \in 1 .. Len(own(p)) : \A dir \in Dims :
                  own(p)[k][dir] = start(p)[dir] + inner(p, k)[dir]
  <2>1. p \in 0 .. Rounds(procs) - 1
    BY <1>p
  <2> QED BY <2>1, DealtBoxes, Zenon
<1> HIDE DEF own, at, start, extent
<1>4. ASSUME NEW p \in 0 .. n - 1, NEW k \in 1 .. Len(own(p))
      PROVE  /\ k \in Int /\ own(p)[k] \in BoxesOf(bps)
             /\ inner(p, k) \in [Dims -> Nat] /\ PlaceOf(inner(p, k), extent(p)) = k - 1
             /\ \A dir \in Dims :
                  /\ inner(p, k)[dir] < extent(p)[dir]
                  /\ own(p)[k][dir] = start(p)[dir] + inner(p, k)[dir]
  <2>1. k \in Int /\ k - 1 \in 0 .. Rounds(extent(p)) - 1
    BY <1>3
  <2>2. own(p)[k] \in BoxesOf(bps)
    BY <1>3
  <2>3. extent(p) \in [Dims -> Nat]
    BY <1>2
  <2>4. /\ inner(p, k) \in [Dims -> Nat] /\ PlaceOf(inner(p, k), extent(p)) = k - 1
        /\ \A dir \in Dims : inner(p, k)[dir] < extent(p)[dir]
    BY <2>1, <2>3, PlaceNested
  <2>5. \A dir \in Dims : own(p)[k][dir] = start(p)[dir] + inner(p, k)[dir]
    BY <1>3, Zenon
  <2> QED BY <2>1, <2>2, <2>4, <2>5
<1>5. ASSUME NEW b \in BoxesOf(bps)
      PROVE  \E p \in 0 .. n - 1 : \E k \in 1 .. Len(own(p)) : own(p)[k] = b
  <2>0. \A dir \in Dims : b[dir] \in 0 .. bps - 1
    BY DEF BoxesOf
  <2> DEFINE Holds(dir, i) == FirstBox(i, procs[dir], bps) <= b[dir]
                              /\ b[dir] < FirstBox(i + 1, procs[dir], bps)
             c == [dir \in Dims |-> CHOOSE i \in 0 .. procs[dir] - 1 : Holds(dir, i)]
  <2>1. \A dir \in Dims : \E i \in 0 .. procs[dir] - 1 : Holds(dir, i)
    BY <1>0, <2>0, SideCovered
  <2>2. \A dir \in Dims : c[dir] \in 0 .. procs[dir] - 1 /\ Holds(dir, c[dir])
    <3> HIDE DEF Holds
    <3> QED BY <2>1
  <2>3. c \in [Dims -> Nat] /\ \A dir \in Dims : c[dir] < procs[dir]
    <3>1. \A dir \in Dims : c[dir] \in Nat /\ c[dir] < procs[dir]
      <4> HIDE DEF c
      <4> QED BY <1>0, <2>2
    <3> QED BY <3>1
  <2> HIDE DEF c
  <2>4. PICK p \in 0 .. n - 1 : at(p) = c
    BY <1>0, <1>p, <2>3, NestedPlace DEF at
  <2>5. \A dir \in Dims : /\ start(p)[dir] \in Nat /\ extent(p)[dir] \in Nat
                           /\ start(p)[dir] <= b[dir] /\ b[dir] < start(p)[dir] + extent(p)[dir]
    BY <2>2, <2>4, <1>2
  <2> DEFINE e == [dir \in Dims |-> b[dir] - start(p)[dir]]
  <2>6. e \in [Dims -> Nat] /\ \A dir \in Dims : e[dir] < extent(p)[dir]
    BY <2>0, <2>5
  <2>7. PICK k \in Int : k - 1 \in 0 .. Rounds(extent(p)) - 1 /\ Nested(k - 1, extent(p)) = e
    <3> HIDE DEF e
    <3>0. extent(p) \in [Dims -> Nat]
      BY <1>2
    <3>1. PlaceOf(e, extent(p)) \in 0 .. Rounds(extent(p)) - 1 /\ Nested(PlaceOf(e, extent(p)), extent(p)) = e
      BY <2>6, <3>0, NestedPlace
    <3>2. PlaceOf(e, extent(p)) + 1 \in Int /\ (PlaceOf(e, extent(p)) + 1) - 1 = PlaceOf(e, extent(p))
      BY <3>1
    <3> QED BY <3>1, <3>2
  <2>8. k \in 1 .. Len(own(p))
    BY <1>3, <2>7
  <2>9. own(p)[k] \in BoxesOf(bps) /\ \A dir \in Dims : own(p)[k][dir] = b[dir]
    <3>1. \A dir \in Dims : own(p)[k][dir] = start(p)[dir] + e[dir]
      BY <1>4, <2>7, <2>8
    <3>2. \A dir \in Dims : start(p)[dir] + e[dir] = b[dir]
      BY <2>0, <2>5
    <3> QED BY <1>4, <2>8, <3>1, <3>2
  <2>10. own(p)[k] = b
    BY <2>9 DEF BoxesOf
  <2> QED BY <2>8, <2>10
<1>6. ASSUME NEW p \in 0 .. n - 1, NEW k \in 1 .. Len(own(p)), NEW dir \in Dims
      PROVE  /\ FirstBox(at(p)[dir], procs[dir], bps) <= own(p)[k][dir]
             /\ own(p)[k][dir] < FirstBox(at(p)[dir] + 1, procs[dir], bps)
             /\ own(p)[k][dir] \in Int /\ at(p)[dir] \in Nat
  <2>1. /\ at(p)[dir] \in Nat /\ start(p)[dir] \in Nat /\ extent(p)[dir] \in Nat
        /\ start(p)[dir] = FirstBox(at(p)[dir], procs[dir], bps)
        /\ start(p)[dir] + extent(p)[dir] = FirstBox(at(p)[dir] + 1, procs[dir], bps)
    BY <1>2
  <2>2. /\ inner(p, k)[dir] \in Nat /\ inner(p, k)[dir] < extent(p)[dir]
        /\ own(p)[k][dir] = start(p)[dir] + inner(p, k)[dir]
    BY <1>4
  <2> HIDE DEF inner
  <2> QED BY <2>1, <2>2
<1>7. ASSUME NEW p \in 0 .. n - 1, NEW q \in 0 .. n - 1,
             NEW k \in 1 .. Len(own(p)), NEW l \in 1 .. Len(own(q)), own(p)[k] = own(q)[l]
      PROVE  p = q /\ k = l
  <2>1. \A dir \in Dims : at(p)[dir] = at(q)[dir]
    <3> SUFFICES ASSUME NEW dir \in Dims
                 PROVE  at(p)[dir] = at(q)[dir]
      OBVIOUS
    <3>1. /\ FirstBox(at(p)[dir], procs[dir], bps) <= own(p)[k][dir]
          /\ own(p)[k][dir] < FirstBox(at(p)[dir] + 1, procs[dir], bps)
          /\ own(p)[k][dir] \in Int /\ at(p)[dir] \in Nat
      BY <1>6
    <3>2. /\ FirstBox(at(q)[dir], procs[dir], bps) <= own(p)[k][dir]
          /\ own(p)[k][dir] < FirstBox(at(q)[dir] + 1, procs[dir], bps)
          /\ at(q)[dir] \in Nat
      BY <1>6, <1>7
    <3> QED BY <3>1, <3>2, <1>0, SideDisjoint
  <2>2. p = q
    <3>1. at(p) = at(q)
      BY <2>1, <1>2
    <3> QED BY <3>1, <1>2
  <2>3. inner(p, k) = inner(p, l)
    <3>0. l \in 1 .. Len(own(p)) /\ own(p)[k] = own(p)[l]
      BY <2>2, <1>7
    <3>1. /\ inner(p, k) \in [Dims -> Nat] /\ inner(p, l) \in [Dims -> Nat]
          /\ start(p) \in [Dims -> Nat]
          /\ \A dir \in Dims : own(p)[k][dir] = start(p)[dir] + inner(p, k)[dir]
          /\ \A dir \in Dims : own(p)[l][dir] = start(p)[dir] + inner(p, l)[dir]
      BY <1>2, <1>4, <3>0
    <3> HIDE DEF inner
    <3>2. \A dir \in Dims : inner(p, k)[dir] = inner(p, l)[dir]
      BY <3>0, <3>1
    <3> QED BY <3>1, <3>2
  <2>4. k - 1 = l - 1 /\ k \in Int /\ l \in Int
    <3>1. PlaceOf(inner(p, k), extent(p)) = k - 1 /\ k \in Int
      BY <1>4
    <3>2. PlaceOf(inner(p, l), extent(p)) = l - 1 /\ l \in Int
      BY <1>4, <2>2
    <3> HIDE DEF inner
    <3> QED BY <3>1, <3>2, <2>3
  <2> QED BY <2>2, <2>4
<1>8. \A p \in 0 .. n - 1 : own(p) \in Seq(BoxesOf(bps))
  BY <1>3
<1>9. \A p, q \in 0 .. n - 1 : \A k \in 1 .. Len(own(p)), l \in 1 .. Len(own(q)) :
         own(p)[k] = own(q)[l] => p = q /\ k = l
  BY <1>7
<1>10. \A p \in 0 .. n - 1 : BoxList(p, n, bps) \in Seq(BoxesOf(bps))
  BY <1>1, <1>8
<1>11. \A b \in BoxesOf(bps) : \E p \in 0 .. n - 1 :
         \E k \in 1 .. Len(BoxList(p, n, bps)) : BoxList(p, n, bps)[k] = b
  BY <1>1, <1>5
<1>12. ASSUME NEW p \in 0 .. n - 1, NEW q \in 0 .. n - 1,
              NEW k \in 1 .. Len(BoxList(p, n, bps)), NEW l \in 1 .. Len(BoxList(q, n, bps)),
              BoxList(p, n, bps)[k] = BoxList(q, n, bps)[l]
       PROVE  p = q /\ k = l
  <2>1. BoxList(p, n, bps) = own(p) /\ BoxList(q, n, bps) = own(q)
    BY <1>1
  <2> QED BY <2>1, <1>9, <1>12
<1> HIDE DEF inner
<1> QED BY <1>10, <1>11, <1>12

-----------------------------------------------------------------------------
(* The boxes around a box.  In each direction one step at most leads from  *)
(* x to y, and one does if they touch.                                     *)
Leads(x, d, y, bps) ==
    /\ y = Valid(x + d, bps)
    /\ bps = 2 => x + d \in 0 .. 1
    /\ bps = 1 => d = 0

LEMMA OneStep ==
    ASSUME NEW bps \in Nat \ {0}, NEW x \in 0 .. bps - 1, NEW y \in 0 .. bps - 1
    PROVE  /\ \A d, e \in {-1, 0, 1} : Leads(x, d, y, bps) /\ Leads(x, e, y, bps) => d = e
           /\ (\E d \in {-1, 0, 1} : Leads(x, d, y, bps)) <=> Close(x, y, bps)
<1>1. \A d, e \in {-1, 0, 1} : Leads(x, d, y, bps) /\ Leads(x, e, y, bps) => d = e
  BY DEF Leads, Valid
<1>2. (x - y) % bps = IF x >= y THEN x - y ELSE x - y + bps
  <2>1. CASE x >= y
    <3>1. x - y \in 0 .. bps - 1 /\ 0 * bps + (x - y) = x - y /\ 0 \in Int
      BY <2>1
    <3>2. (0 * bps + (x - y)) % bps = x - y
      BY <3>1, DivModUnique, Zenon
    <3> QED BY <3>1, <3>2, <2>1
  <2>2. CASE x < y
    <3>1. x - y + bps \in 0 .. bps - 1 /\ (-1) * bps + (x - y + bps) = x - y /\ -1 \in Int
      BY <2>2
    <3>2. ((-1) * bps + (x - y + bps)) % bps = x - y + bps
      BY <3>1, DivModUnique, Zenon
    <3> QED BY <3>1, <3>2, <2>2
  <2> QED BY <2>1, <2>2
<1>3. Close(x, y, bps) <=> (x - y) % bps \in {0, 1, bps - 1}
  BY DEF Close
<1>4. Close(x, y, bps) <=> \/ x = y \/ x = y + 1 \/ x = y + bps - 1
                          \/ x + bps = y + 1 \/ x + 1 = y
  <2>1. PICK r \in Int : r = (x - y) % bps /\ r = IF x >= y THEN x - y ELSE x - y + bps
    BY <1>2
  <2> QED BY <1>3, <2>1
<1>5. ASSUME Close(x, y, bps)
      PROVE  \E d \in {-1, 0, 1} : Leads(x, d, y, bps)
  <2>1. CASE x = y
    <3>1. Leads(x, 0, y, bps)
      BY <2>1 DEF Leads, Valid
    <3> QED BY <3>1
  <2>2. CASE x # y /\ (x = y + 1 \/ (x + bps = y + 1 /\ bps # 2))
    <3>1. Leads(x, -1, y, bps)
      BY <2>2 DEF Leads, Valid
    <3> QED BY <3>1
  <2>3. CASE x # y /\ (x + 1 = y \/ (x = y + bps - 1 /\ bps # 2))
    <3>1. Leads(x, 1, y, bps)
      BY <2>3 DEF Leads, Valid
    <3> QED BY <3>1
  <2> QED BY <1>4, <1>5, <2>1, <2>2, <2>3
<1>6. ASSUME NEW d \in {-1, 0, 1}, Leads(x, d, y, bps)
      PROVE  Close(x, y, bps)
  BY <1>4, <1>6 DEF Leads, Valid
<1> QED BY <1>1, <1>5, <1>6

LEMMA VisitingStep ==
    ASSUME NEW bps \in Nat \ {0}, NEW b \in BoxesOf(bps), NEW c \in BoxesOf(bps),
           NEW step \in Offsets
    PROVE  ~Skipped(b, step, bps) /\ Wrapped(b, step, bps) = c
             <=> \A dir \in Dims : Leads(b[dir], step[dir], c[dir], bps)
<1>0. \A dir \in Dims : /\ b[dir] \in 0 .. bps - 1 /\ c[dir] \in 0 .. bps - 1
                         /\ step[dir] \in {-1, 0, 1}
  BY DEF BoxesOf, Offsets
<1> DEFINE to(dir) == Valid(b[dir] + step[dir], bps)
<1>1. Wrapped(b, step, bps) = [dir \in Dims |-> to(dir)]
  BY DEF Wrapped
<1>2. c = [dir \in Dims |-> c[dir]] /\ b = [dir \in Dims |-> b[dir]]
  BY DEF BoxesOf
<1>3. Wrapped(b, step, bps) = c <=> \A dir \in Dims : to(dir) = c[dir]
  <2> HIDE DEF to
  <2> QED BY <1>1, <1>2
<1>4. Wrapped(b, step, bps) = b <=> \A dir \in Dims : to(dir) = b[dir]
  <2> HIDE DEF to
  <2> QED BY <1>1, <1>2
<1>5. Skipped(b, step, bps) <=>
        \/ bps = 2 /\ \E dir \in Dims : b[dir] + step[dir] \in {-1, 2}
        \/ (\A dir \in Dims : to(dir) = b[dir]) /\ \E dir \in Dims : step[dir] # 0
  BY <1>4 DEF Skipped
<1>6. \A dir \in Dims : bps # 1 /\ to(dir) = b[dir] /\ ~(bps = 2 /\ b[dir] + step[dir] \in {-1, 2})
        => step[dir] = 0
  BY <1>0 DEF Valid
<1>7. \A dir \in Dims : bps = 1 => to(dir) = b[dir]
  BY <1>0 DEF Valid
<1>8. \A dir \in Dims : bps = 2 => (b[dir] + step[dir] \in {-1, 2} <=> b[dir] + step[dir] \notin 0 .. 1)
  BY <1>0
<1>9. \A dir \in Dims : Leads(b[dir], step[dir], c[dir], bps) <=>
        /\ to(dir) = c[dir] /\ (bps = 2 => b[dir] + step[dir] \in 0 .. 1) /\ (bps = 1 => step[dir] = 0)
  BY Zenon DEF Leads
<1> HIDE DEF to
<1> QED BY <1>3, <1>5, <1>6, <1>7, <1>8, <1>9

\* INTERF and POTENG: around a box each box that touches it is visited
\* once and no other is, across the periodic boundary and with the special
\* cases for one and two boxes per side (interf.C:69-107).
THEOREM EachTouchingBoxVisitedOnce ==
    ASSUME NEW bps \in Nat \ {0}, NEW b \in BoxesOf(bps), NEW c \in BoxesOf(bps)
    PROVE  Visits(b, c, bps) = IF Touch(b, c, bps) THEN 1 ELSE 0
<1> DEFINE leading == {step \in Offsets : ~Skipped(b, step, bps) /\ Wrapped(b, step, bps) = c}
<1>0. \A dir \in Dims : b[dir] \in 0 .. bps - 1 /\ c[dir] \in 0 .. bps - 1
  BY DEF BoxesOf
<1>1. \A step \in Offsets : step \in leading <=> \A dir \in Dims : Leads(b[dir], step[dir], c[dir], bps)
  BY VisitingStep
<1>2. Visits(b, c, bps) = Cardinality(leading) /\ leading \subseteq Offsets
  BY DEF Visits
<1> HIDE DEF leading
<1>3. CASE Touch(b, c, bps)
  <2>1. \A dir \in Dims : \E d \in {-1, 0, 1} : Leads(b[dir], d, c[dir], bps)
    BY <1>0, <1>3, OneStep DEF Touch
  <2> DEFINE step == [dir \in Dims |-> CHOOSE d \in {-1, 0, 1} : Leads(b[dir], d, c[dir], bps)]
  <2>2. step \in Offsets /\ \A dir \in Dims : Leads(b[dir], step[dir], c[dir], bps)
    BY <2>1 DEF Offsets
  <2> HIDE DEF step
  <2>3. step \in leading
    BY <1>1, <2>2
  <2>4. ASSUME NEW other \in leading
        PROVE  other = step
    <3>1. other \in Offsets /\ \A dir \in Dims : Leads(b[dir], other[dir], c[dir], bps)
      BY <1>1, <1>2
    <3>2. \A dir \in Dims : other[dir] \in {-1, 0, 1} /\ step[dir] \in {-1, 0, 1}
      BY <3>1, <2>2 DEF Offsets
    <3>3. \A dir \in Dims : other[dir] = step[dir]
      BY <1>0, <2>2, <3>1, <3>2, OneStep
    <3> QED BY <3>1, <3>3, <2>2 DEF Offsets
  <2>5. leading = {step}
    BY <2>3, <2>4
  <2> QED BY <1>2, <1>3, <2>5, FS_Singleton
<1>4. CASE ~Touch(b, c, bps)
  <2>1. PICK dir \in Dims : ~Close(b[dir], c[dir], bps)
    BY <1>4 DEF Touch
  <2>2. \A d \in {-1, 0, 1} : ~Leads(b[dir], d, c[dir], bps)
    BY <1>0, <2>1, OneStep
  <2>3. leading = {}
    <3> SUFFICES ASSUME NEW step \in leading PROVE FALSE
      OBVIOUS
    <3>1. step \in Offsets /\ Leads(b[dir], step[dir], c[dir], bps)
      BY <1>1, <1>2
    <3> QED BY <2>2, <3>1 DEF Offsets
  <2> QED BY <1>2, <1>4, <2>3, FS_EmptySet
<1> QED BY <1>3, <1>4

=============================================================================
