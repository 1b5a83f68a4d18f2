------------------------ MODULE WaterNsquared_proofs ------------------------
(***************************************************************************)
(* Who meets whom in water_nsquared, for every number of molecules and of  *)
(* processes: INTERF's loops over the molecules that come after one in the *)
(* circle meet each pair once, and the range of molecules to which a       *)
(* process then adds its private forces has each molecule it has met in    *)
(* it, once.                                                               *)
(***************************************************************************)
EXTENDS WaterNsquared, TLAPS

-----------------------------------------------------------------------------
(* Remainders.                                                             *)
LEMMA Remainder ==
    ASSUME NEW n \in Nat \ {0}, NEW a \in 0 .. n - 1
    PROVE  a % n = a /\ (a + n) % n = a /\ (a - n) % n = a
<1>1. ASSUME NEW q \in Int PROVE (q * n + a) % n = a
  OBVIOUS
<1>2. (0 * n + a) % n = a /\ (1 * n + a) % n = a /\ ((-1) * n + a) % n = a
  BY <1>1
<1>3. 0 * n + a = a /\ 1 * n + a = a + n /\ (-1) * n + a = a - n
  OBVIOUS
<1> QED BY <1>2, <1>3

-----------------------------------------------------------------------------
(* The molecules of each process.                                          *)
LEMMA Starts ==
    ASSUME NMOL \in Nat, NumProcs \in Nat \ {0}, NEW p \in Procs
    PROVE  /\ StartMol(p) \in 0 .. NMOL /\ StartMol(p + 1) \in StartMol(p) .. NMOL
           /\ \A r \in Procs : r > p => StartMol(p + 1) <= StartMol(r)
<1> DEFINE q == NMOL \div NumProcs
<1>1. q \in Nat /\ q * NumProcs <= NMOL
  OBVIOUS
<1> HIDE DEF q
<1>2. ASSUME NEW a \in 0 .. NumProcs, NEW b \in 0 .. NumProcs, a <= b
      PROVE  a * q \in Nat /\ a * q <= b * q /\ b * q <= NMOL
  <2>1. a * q \in Nat /\ a * q <= b * q
    BY <1>1, <1>2
  <2>2. b * q <= NumProcs * q
    BY <1>1
  <2> QED BY <1>1, <2>1, <2>2
<1>3. p \in 0 .. NumProcs /\ p + 1 \in 0 .. NumProcs /\ p < NumProcs
  BY DEF Procs
<1>4. StartMol(p) = p * q
  BY <1>3 DEF StartMol, q
<1>5. StartMol(p + 1) = IF p + 1 = NumProcs THEN NMOL ELSE (p + 1) * q
  BY DEF StartMol, q
<1>6. p * q \in Nat /\ p * q <= (p + 1) * q /\ (p + 1) * q <= NMOL /\ (p + 1) * q \in Nat
  <2>1. (p + 1) * q \in Nat
    BY <1>2, <1>3
  <2> QED BY <1>2, <1>3, <2>1
<1>7. ASSUME NEW r \in Procs, r > p PROVE StartMol(p + 1) <= StartMol(r)
  <2>1. r \in 0 .. NumProcs /\ p + 1 <= r /\ r < NumProcs
    BY <1>3, <1>7 DEF Procs
  <2>2. StartMol(r) = r * q /\ StartMol(p + 1) = (p + 1) * q
    BY <1>3, <1>5, <2>1 DEF StartMol, q
  <2> QED BY <1>2, <1>3, <2>1, <2>2
<1> QED BY <1>4, <1>5, <1>6, <1>7

\* Every molecule belongs to one process.
LEMMA OneOwner ==
    ASSUME NMOL \in Nat, NumProcs \in Nat \ {0}, NEW i \in Mols
    PROVE  \E p \in Procs : \A r \in Procs : i \in Own(r) <=> r = p
<1> DEFINE q == NMOL \div NumProcs
<1>1. \E p \in Procs : i \in Own(p)
  <2>1. q \in Nat /\ q * NumProcs <= NMOL
    OBVIOUS
  <2> HIDE DEF q
  <2>2. NumProcs - 1 \in Procs /\ 0 \in Procs /\ i \in Nat /\ i < NMOL
    BY DEF Procs, Mols
  <2>3. CASE i >= (NumProcs - 1) * q
    <3>1. StartMol(NumProcs - 1) = (NumProcs - 1) * q /\ StartMol((NumProcs - 1) + 1) = NMOL
      BY DEF StartMol, q
    <3>2. (NumProcs - 1) * q \in Nat
      BY <2>1
    <3>3. i \in Own(NumProcs - 1)
      BY <2>2, <2>3, <3>1, <3>2 DEF Own
    <3> QED BY <2>2, <3>3
  <2>4. CASE i < (NumProcs - 1) * q
    <3>1. q # 0
      <4> SUFFICES ASSUME q = 0 PROVE FALSE
        OBVIOUS
      <4>1. (NumProcs - 1) * q = 0
        OBVIOUS
      <4> QED BY <2>2, <2>4, <4>1
    <3> DEFINE p == i \div q
    <3>2. p \in Nat /\ p * q <= i /\ i < (p + 1) * q
      BY <2>1, <2>2, <3>1
    <3> HIDE DEF p
    <3>3. ~(p >= NumProcs - 1)
      <4> SUFFICES ASSUME p >= NumProcs - 1 PROVE FALSE
        OBVIOUS
      <4>1. p * q >= (NumProcs - 1) * q
        BY <2>1, <3>2
      <4>2. p * q \in Nat /\ (NumProcs - 1) * q \in Nat
        BY <2>1, <3>2
      <4> QED BY <2>2, <2>4, <3>2, <4>1, <4>2
    <3>4. p \in Procs /\ p # NumProcs /\ p + 1 # NumProcs
      BY <3>2, <3>3 DEF Procs
    <3>5. StartMol(p) = p * q /\ StartMol(p + 1) = (p + 1) * q
      BY <3>4 DEF StartMol, q
    <3>6. p * q \in Nat /\ (p + 1) * q \in Nat
      BY <2>1, <3>2
    <3>7. i \in Own(p)
      BY <2>2, <3>2, <3>5, <3>6 DEF Own
    <3> QED BY <3>4, <3>7
  <2> QED
    <3>1. (NumProcs - 1) * q \in Nat
      BY <2>1
    <3> QED BY <2>2, <2>3, <2>4, <3>1
<1>2. ASSUME NEW p \in Procs, NEW r \in Procs, i \in Own(p), i \in Own(r), p < r PROVE FALSE
  <2>1. i < StartMol(p + 1) /\ StartMol(r) <= i
    BY <1>2, Starts DEF Own, Mols
  <2>2. StartMol(p + 1) <= StartMol(r)
    BY <1>2, Starts
  <2>3. StartMol(p + 1) \in Nat /\ StartMol(r) \in Nat /\ i \in Nat
    BY Starts DEF Mols
  <2> QED BY <2>1, <2>2, <2>3
<1>3. PICK p \in Procs : i \in Own(p)
  BY <1>1
<1>4. ASSUME NEW r \in Procs, i \in Own(r) PROVE r = p
  <2>1. ~(r < p) /\ ~(p < r)
    BY <1>2, <1>3, <1>4
  <2> QED BY <2>1 DEF Procs
<1> QED BY <1>3, <1>4

-----------------------------------------------------------------------------
(* Partners.                                                               *)
\* How far round the circle molecule mol of n meets the ones after it.
LEMMA Reach ==
    ASSUME NEW n \in Nat \ {0}, NEW mol \in 0 .. n - 1
    PROVE  /\ CompLast(n, mol) \in mol .. mol + (n - 1)
           /\ n % 2 = 1 => 2 * (CompLast(n, mol) - mol) = n - 1
           /\ n % 2 = 0 =>
                \/ /\ 2 * (CompLast(n, mol) - mol) = n
                   /\ IF n \div 2 <= mol THEN mol % 2 = 1 ELSE (mol + n \div 2) % 2 = 0
                \/ /\ 2 * (CompLast(n, mol) - mol) = n - 2
                   /\ IF n \div 2 <= mol THEN mol % 2 = 0 ELSE (mol + n \div 2) % 2 = 1
<1> DEFINE half == n \div 2
           twice == n % 2 = 0 /\ (IF half <= mol THEN mol % 2 = 0 ELSE (mol + half) % 2 = 1)
<1>1. half \in Nat /\ n = 2 * half + (n % 2) /\ n % 2 \in {0, 1}
  OBVIOUS
<1>2. mol % 2 \in {0, 1} /\ (mol + half) % 2 \in {0, 1}
  OBVIOUS
<1>3. CompLast(n, mol) = IF twice THEN mol + half - 1 ELSE mol + half
  BY DEF CompLast
<1> HIDE DEF half
<1> QED BY <1>1, <1>2, <1>3 DEF half

\* Of two molecules one meets the other.
LEMMA MeetOnce ==
    ASSUME NEW n \in Nat \ {0}, NEW i \in 0 .. n - 1, NEW j \in 0 .. n - 1, i < j
    PROVE  (j <= CompLast(n, i)) # (i + n <= CompLast(n, j))
<1> DEFINE c == CompLast(n, i)
           d == CompLast(n, j)
<1>1. c \in Nat /\ d \in Nat
  <2>1. c \in i .. i + (n - 1) /\ d \in j .. j + (n - 1)
    BY Reach
  <2> HIDE DEF c, d
  <2> QED BY <2>1
<1>2. CASE n % 2 = 1
  <2>1. 2 * (c - i) = n - 1 /\ 2 * (d - j) = n - 1
    BY <1>2, Reach
  <2> HIDE DEF c, d
  <2> QED BY <1>1, <2>1 DEF c, d
<1>3. CASE n % 2 = 0
  <2> DEFINE h == n \div 2
  <2>1. h \in Nat /\ n = 2 * h
    BY <1>3
  <2>2. \/ c = i + h /\ (IF h <= i THEN i % 2 = 1 ELSE (i + h) % 2 = 0)
        \/ c = i + h - 1 /\ (IF h <= i THEN i % 2 = 0 ELSE (i + h) % 2 = 1)
    <3>1. \/ 2 * (c - i) = n /\ (IF h <= i THEN i % 2 = 1 ELSE (i + h) % 2 = 0)
          \/ 2 * (c - i) = n - 2 /\ (IF h <= i THEN i % 2 = 0 ELSE (i + h) % 2 = 1)
      BY <1>3, Reach
    <3> HIDE DEF c, h
    <3> QED BY <3>1, <2>1, <1>1
  <2>3. \/ d = j + h /\ (IF h <= j THEN j % 2 = 1 ELSE (j + h) % 2 = 0)
        \/ d = j + h - 1 /\ (IF h <= j THEN j % 2 = 0 ELSE (j + h) % 2 = 1)
    <3>1. \/ 2 * (d - j) = n /\ (IF h <= j THEN j % 2 = 1 ELSE (j + h) % 2 = 0)
          \/ 2 * (d - j) = n - 2 /\ (IF h <= j THEN j % 2 = 0 ELSE (j + h) % 2 = 1)
      BY <1>3, Reach
    <3> HIDE DEF d, h
    <3> QED BY <3>1, <2>1, <1>1
  <2> HIDE DEF c, d, h
  <2>4. CASE j = i + h
    <3>1. ~(h <= i) /\ h <= j
      BY <2>1, <2>4
    <3> QED BY <1>1, <2>1, <2>2, <2>3, <2>4, <3>1 DEF c, d
  <2>5. CASE j # i + h
    <3>1. j <= c <=> j < i + h
      BY <1>1, <2>1, <2>2, <2>5
    <3>2. i + n <= d <=> i + h < j
      BY <1>1, <2>1, <2>3, <2>5
    <3> QED BY <3>1, <3>2, <2>1, <2>5 DEF c, d
  <2> QED BY <2>4, <2>5
<1> QED BY <1>2, <1>3

\* Molecule b is the (b - a) % NMOL-th after a, and one of those a meets.
Meets(p, a, b) == <<a, (b - a) % NMOL>> \in PairsOf(p)

(* Every pair of molecules is met once: by one process, from one of its    *)
(* two sides (interf.C:72-85 for any NMOL and NumProcs).                   *)
THEOREM EachPairMetOnce ==
    ASSUME NMOL \in Nat \ {0}, NumProcs \in Nat \ {0}
    PROVE  \A i, j \in Mols : i < j =>
             \E w \in Procs \X {<<i, j>>, <<j, i>>} :
                \A v \in Procs \X {<<i, j>>, <<j, i>>} : Meets(v[1], v[2][1], v[2][2]) <=> v = w
<1> SUFFICES ASSUME NEW i \in Mols, NEW j \in Mols, i < j
             PROVE  \E w \in Procs \X {<<i, j>>, <<j, i>>} :
                        \A v \in Procs \X {<<i, j>>, <<j, i>>} : Meets(v[1], v[2][1], v[2][2]) <=> v = w
  OBVIOUS
<1>1. i \in 0 .. NMOL - 1 /\ j \in 0 .. NMOL - 1
  BY DEF Mols
<1>2. (j - i) % NMOL = j - i /\ (i - j) % NMOL = i - j + NMOL
  <2>1. j - i \in 0 .. NMOL - 1 /\ i - j + NMOL \in 0 .. NMOL - 1
    BY <1>1
  <2>2. (i - j + NMOL) - NMOL = i - j
    BY <1>1
  <2> QED BY <2>1, <2>2, Remainder
<1>3. /\ j - i \in Partners(i) <=> j <= CompLast(NMOL, i)
      /\ i - j + NMOL \in Partners(j) <=> i + NMOL <= CompLast(NMOL, j)
  <2>1. CompLast(NMOL, i) \in Nat /\ CompLast(NMOL, j) \in Nat
    BY <1>1, Reach
  <2> QED BY <1>1, <2>1 DEF Partners
<1>4. (j <= CompLast(NMOL, i)) # (i + NMOL <= CompLast(NMOL, j))
  BY <1>1, MeetOnce
<1>5. PICK p \in Procs : \A r \in Procs : i \in Own(r) <=> r = p
  BY OneOwner
<1>6. PICK q \in Procs : \A r \in Procs : j \in Own(r) <=> r = q
  BY OneOwner
<1>7. \A r \in Procs : Meets(r, i, j) <=> r = p /\ j <= CompLast(NMOL, i)
  <2>1. j - i \in 1 .. NMOL - 1
    BY <1>1
  <2>2. \A r \in Procs : Meets(r, i, j) <=> i \in Own(r) /\ j - i \in Partners(i)
    BY <1>2, <2>1 DEF Meets, PairsOf
  <2> QED BY <1>3, <1>5, <2>2
<1>8. \A r \in Procs : Meets(r, j, i) <=> r = q /\ i + NMOL <= CompLast(NMOL, j)
  <2>1. i - j + NMOL \in 1 .. NMOL - 1
    BY <1>1
  <2>2. \A r \in Procs : Meets(r, j, i) <=> j \in Own(r) /\ i - j + NMOL \in Partners(j)
    BY <1>2, <2>1 DEF Meets, PairsOf
  <2> QED BY <1>3, <1>6, <2>2
<1> DEFINE w == IF j <= CompLast(NMOL, i) THEN <<p, <<i, j>> >> ELSE <<q, <<j, i>> >>
<1>9. w \in Procs \X {<<i, j>>, <<j, i>>}
  OBVIOUS
<1>10. ASSUME NEW v \in Procs \X {<<i, j>>, <<j, i>>}
       PROVE  Meets(v[1], v[2][1], v[2][2]) <=> v = w
  <2>1. v = <<v[1], v[2]>> /\ v[1] \in Procs /\ v[2] \in {<<i, j>>, <<j, i>>}
    OBVIOUS
  <2>2. i # j
    BY <1>1
  <2>3. CASE v[2] = <<i, j>>
    <3>1. Meets(v[1], v[2][1], v[2][2]) <=> v[1] = p /\ j <= CompLast(NMOL, i)
      BY <1>7, <2>1, <2>3
    <3>2. v = w <=> v[1] = p /\ j <= CompLast(NMOL, i)
      BY <2>1, <2>2, <2>3
    <3> QED BY <3>1, <3>2
  <2>4. CASE v[2] = <<j, i>>
    <3>1. Meets(v[1], v[2][1], v[2][2]) <=> v[1] = q /\ i + NMOL <= CompLast(NMOL, j)
      BY <1>8, <2>1, <2>4
    <3>2. v = w <=> v[1] = q /\ ~(j <= CompLast(NMOL, i))
      BY <2>1, <2>2, <2>4
    <3> QED BY <3>1, <3>2, <1>4
  <2> QED BY <2>1, <2>3, <2>4
<1> HIDE DEF w
<1> QED BY <1>9, <1>10

-----------------------------------------------------------------------------
(* What a process adds to the shared molecules.                            *)
LEMMA ReachGrows ==
    ASSUME NEW n \in Nat \ {0}, NEW a \in 0 .. n - 1, NEW b \in 0 .. n - 1, a <= b
    PROVE  CompLast(n, a) <= CompLast(n, b)
<1> DEFINE c == CompLast(n, a)
           d == CompLast(n, b)
<1>1. n % 2 \in {0, 1}
  OBVIOUS
<1>2. /\ c \in a .. a + (n - 1)
      /\ n % 2 = 1 => 2 * (c - a) = n - 1
      /\ n % 2 = 0 => 2 * (c - a) = n \/ 2 * (c - a) = n - 2
  BY Reach
<1>3. /\ d \in b .. b + (n - 1)
      /\ n % 2 = 1 => 2 * (d - b) = n - 1
      /\ n % 2 = 0 => 2 * (d - b) = n \/ 2 * (d - b) = n - 2
  BY Reach
<1> HIDE DEF c, d
<1>4. CASE a = b
  BY <1>2, <1>4 DEF c, d
<1>5. CASE a < b
  BY <1>1, <1>2, <1>3, <1>5 DEF c, d
<1> QED BY <1>4, <1>5

(* Every molecule that a process has met, as the first of a pair or as the *)
(* second, is among those it adds its private forces to, and none is there *)
(* twice (interf.C:153-187, for any NMOL and NumProcs).                    *)
THEOREM NoForceLeftOut ==
    ASSUME NMOL \in Nat \ {0}, NumProcs \in Nat \ {0}, NEW p \in Procs, Own(p) # {}
    PROVE  LET t == Touched(p)
           IN  /\ \A m \in DOMAIN t : t[m] \in Mols
               /\ \A l, m \in DOMAIN t : t[l] = t[m] => l = m
               /\ \A x \in PairsOf(p) : \A mol \in {x[1], (x[1] + x[2]) % NMOL} :
                    \E m \in DOMAIN t : t[m] = mol
<1> DEFINE s    == StartMol(p)
           e    == StartMol(p + 1) - 1
           last == CompLast(NMOL, e)
           wrap == (last % NMOL) + 1
           count == IF last < NMOL THEN last - s + 1
                    ELSE NMOL - s + (IF wrap < s THEN wrap ELSE s)
           t    == Touched(p)
<1>1. /\ s \in Nat /\ e \in 0 .. NMOL - 1 /\ s <= e
  <2>1. s \in 0 .. NMOL /\ StartMol(p + 1) \in s .. NMOL
    BY Starts
  <2>2. s .. StartMol(p + 1) - 1 # {}
    BY DEF Own
  <2> HIDE DEF s
  <2> QED BY <2>1, <2>2
<1>2. last \in e .. e + (NMOL - 1)
  BY <1>1, Reach
<1>3. t = [m \in 1 .. count |-> (s + m - 1) % NMOL]
  BY DEF Touched
<1> HIDE DEF s, e, t
<1>4. last >= NMOL => wrap = last - NMOL + 1
  <2> HIDE DEF last
  <2>1. ASSUME last >= NMOL PROVE last - NMOL \in 0 .. NMOL - 1
    BY <1>1, <1>2, <2>1
  <2>2. ASSUME last >= NMOL PROVE last % NMOL = last - NMOL
    <3>1. (last - NMOL) + NMOL = last
      BY <1>1, <1>2
    <3> QED BY <2>1, <2>2, <3>1, Remainder
  <2> QED BY <2>2
<1> HIDE DEF last, wrap
<1>5. count \in Nat /\ count <= NMOL
  BY <1>1, <1>2, <1>4
\* The m-th place holds the molecule m - 1 after the first of the process.
<1>6. \A m \in 1 .. count : t[m] = IF s + m - 1 < NMOL THEN s + m - 1 ELSE s + m - 1 - NMOL
  <2> SUFFICES ASSUME NEW m \in 1 .. count
               PROVE  t[m] = IF s + m - 1 < NMOL THEN s + m - 1 ELSE s + m - 1 - NMOL
    OBVIOUS
  <2>1. t[m] = (s + m - 1) % NMOL
    BY <1>3
  <2> HIDE DEF count
  <2>2. CASE s + m - 1 < NMOL
    <3>1. s + m - 1 \in 0 .. NMOL - 1
      BY <1>1, <1>5, <2>2
    <3> QED BY <2>1, <2>2, <3>1, Remainder
  <2>3. CASE ~(s + m - 1 < NMOL)
    <3>1. s + m - 1 - NMOL \in 0 .. NMOL - 1 /\ (s + m - 1 - NMOL) + NMOL = s + m - 1
      BY <1>1, <1>5, <2>3
    <3>2. (s + m - 1) % NMOL = s + m - 1 - NMOL
      BY <3>1, Remainder
    <3> QED BY <2>1, <2>3, <3>2
  <2> QED BY <2>2, <2>3
<1>7. DOMAIN t = 1 .. count
  BY <1>3
<1>8. \A m \in DOMAIN t : t[m] \in Mols
  <2> HIDE DEF count
  <2> QED BY <1>1, <1>5, <1>6, <1>7 DEF Mols
<1>9. \A l, m \in DOMAIN t : t[l] = t[m] => l = m
  <2> HIDE DEF count
  <2> QED BY <1>1, <1>5, <1>6, <1>7
\* A place for every molecule from the first of the process to the last met.
<1>10. ASSUME NEW y \in s .. last
       PROVE  \E m \in DOMAIN t : t[m] = (IF y < NMOL THEN y ELSE y - NMOL)
  <2>1. CASE y < NMOL
    <3>1. y - s + 1 \in 1 .. count /\ s + (y - s + 1) - 1 = y
      BY <1>1, <1>2, <1>4, <2>1
    <3> HIDE DEF count
    <3>2. t[y - s + 1] = y
      BY <1>6, <2>1, <3>1
    <3> QED BY <1>7, <2>1, <3>1, <3>2
  <2>2. CASE ~(y < NMOL) /\ y - NMOL >= s
    <3>1. y - NMOL < NMOL
      BY <1>1, <1>2
    <3>2. y - NMOL - s + 1 \in 1 .. count /\ s + (y - NMOL - s + 1) - 1 = y - NMOL
      BY <1>1, <1>2, <1>4, <2>2, <3>1
    <3> HIDE DEF count
    <3>3. t[y - NMOL - s + 1] = y - NMOL
      BY <1>6, <3>1, <3>2
    <3> QED BY <1>7, <2>2, <3>2, <3>3
  <2>3. CASE ~(y < NMOL) /\ ~(y - NMOL >= s)
    <3>1. y - s + 1 \in 1 .. count /\ s + (y - s + 1) - 1 = y
      BY <1>1, <1>2, <1>4, <2>3
    <3> HIDE DEF count
    <3> DEFINE m == y - s + 1
    <3> HIDE DEF m
    <3>2. m \in 1 .. count /\ s + m - 1 = y
      BY <3>1 DEF m
    <3>3. t[m] = IF s + m - 1 < NMOL THEN s + m - 1 ELSE s + m - 1 - NMOL
      BY <1>6, <3>2
    <3>4. t[m] = y - NMOL
      BY <1>1, <1>2, <2>3, <3>2, <3>3
    <3> QED BY <1>7, <2>3, <3>2, <3>4
  <2> QED BY <2>1, <2>2, <2>3
<1>11. ASSUME NEW x \in PairsOf(p), NEW mol \in {x[1], (x[1] + x[2]) % NMOL}
       PROVE  \E m \in DOMAIN t : t[m] = mol
  <2> DEFINE a == x[1]
             b == x[1] + x[2]
  <2>1. /\ a \in s .. e /\ x[2] \in 1 .. NMOL - 1 /\ x[2] \in 1 .. CompLast(NMOL, a) - a
    BY DEF PairsOf, Partners, Own, s, e
  <2>2. a \in 0 .. NMOL - 1 /\ CompLast(NMOL, a) \in Nat /\ CompLast(NMOL, a) <= last
    <3>1. a \in 0 .. NMOL - 1 /\ a <= e
      BY <1>1, <2>1
    <3> HIDE DEF a
    <3> QED BY <1>1, <3>1, Reach, ReachGrows DEF last
  <2>3. a \in s .. last /\ a < NMOL
    BY <1>1, <1>2, <2>1, <2>2
  <2>4. b \in s .. last /\ b \in Nat /\ b < 2 * NMOL
    BY <1>1, <1>2, <2>1, <2>2
  <2>5. b % NMOL = IF b < NMOL THEN b ELSE b - NMOL
    <3> HIDE DEF b
    <3>1. CASE b < NMOL
      <4>1. b \in 0 .. NMOL - 1
        BY <2>4, <3>1
      <4> QED BY <3>1, <4>1, Remainder
    <3>2. CASE ~(b < NMOL)
      <4>1. b - NMOL \in 0 .. NMOL - 1 /\ (b - NMOL) + NMOL = b
        BY <2>4, <3>2
      <4>2. b % NMOL = b - NMOL
        BY <4>1, Remainder
      <4> QED BY <3>2, <4>2
    <3> QED BY <3>1, <3>2
  <2> HIDE DEF a, b
  <2>6. \E m \in DOMAIN t : t[m] = a
    BY <1>10, <2>3
  <2>7. \E m \in DOMAIN t : t[m] = b % NMOL
    BY <1>10, <2>4, <2>5
  <2> QED BY <2>6, <2>7 DEF a, b
<1> QED BY <1>8, <1>9, <1>11 DEF t
=============================================================================
