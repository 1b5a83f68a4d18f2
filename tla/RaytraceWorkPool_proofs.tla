----------------------- MODULE RaytraceWorkPool_proofs -----------------------
(***************************************************************************)
(* The picture of raytrace for every image, every way to cut it into       *)
(* blocks and bundles, every number of processes, and whatever the scene   *)
(* is and the memory does: each pixel is traced once, and none is left out *)
(* when all processes have returned.                                       *)
(*                                                                         *)
(* The argument: Pieces divides a rectangle, so that a pixel lies in one   *)
(* bundle of one block.  At any time that bundle is in one place (still to *)
(* be put, in a pool, or in the hands of a process) until its pixel has    *)
(* been traced; and a process returns only when it has seen every pool     *)
(* empty after the barrier, behind which nothing is put any more.          *)
(***************************************************************************)
EXTENDS RaytraceWorkPool, TLAPS

-----------------------------------------------------------------------------
(* Cutting a rectangle.                                                    *)
Rects == [xpix : Nat, ypix : Nat, xdim : Nat \ {0}, ydim : Nat \ {0}]
Inside(r, px) ==
    /\ r.xpix <= px[1] /\ px[1] < r.xpix + r.xdim
    /\ r.ypix <= px[2] /\ px[2] < r.ypix + r.ydim

\* Division with remainder.
LEMMA Division ==
    ASSUME NEW a \in Nat, NEW b \in Nat \ {0}
    PROVE  /\ a \div b \in Nat /\ a % b \in 0 .. b - 1
           /\ a = b * (a \div b) + (a % b)
  OBVIOUS

\* There is one quotient and one remainder.
LEMMA DivisionUnique ==
    ASSUME NEW b \in Nat \ {0}, NEW q \in Nat, NEW r \in 0 .. b - 1
    PROVE  /\ b * q + r \in Nat
           /\ (b * q + r) \div b = q /\ (b * q + r) % b = r
<1>1. b * q \in Nat
  OBVIOUS
<1>2. b * q + r \in Nat
  BY <1>1
<1> DEFINE a == b * q + r
           p == a \div b
<1>3. p \in Nat /\ a % b \in 0 .. b - 1 /\ a = b * p + (a % b)
  BY <1>2, Division
<1>4. p = q
  <2>1. ~(p > q)
    <3> SUFFICES ASSUME p >= q + 1 PROVE FALSE
      BY <1>3
    <3>1. b * p >= b * (q + 1)
      BY <1>3
    <3>2. b * (q + 1) = b * q + b
      OBVIOUS
    <3> QED BY <3>1, <3>2, <1>1, <1>3
  <2>2. ~(p < q)
    <3> SUFFICES ASSUME q >= p + 1 PROVE FALSE
      BY <1>3
    <3>1. b * q >= b * (p + 1)
      BY <1>3
    <3>2. b * (p + 1) = b * p + b
      BY <1>3
    <3> QED BY <3>1, <3>2, <1>1, <1>3
  <2> QED BY <2>1, <2>2, <1>3
<1> HIDE DEF p
<1>5. a % b = r
  BY <1>1, <1>3, <1>4
<1> QED BY <1>2, <1>4, <1>5 DEF p

\* RoundUp(a, b) pieces of length b reach as far as a, and all begin before it.
LEMMA RoundUpFacts ==
    ASSUME NEW a \in Nat, NEW b \in Nat \ {0}
    PROVE  /\ RoundUp(a, b) \in Nat
           /\ \A x \in 0 .. a - 1 : x \div b \in 0 .. RoundUp(a, b) - 1
           /\ \A c \in 0 .. RoundUp(a, b) - 1 : c * b \in Nat /\ c * b < a
<1> DEFINE n == RoundUp(a, b)
<1>1. n \in Nat /\ a + b - 1 = b * n + ((a + b - 1) % b) /\ (a + b - 1) % b \in 0 .. b - 1
  <2>1. a + b - 1 \in Nat
    OBVIOUS
  <2> QED BY <2>1, Division DEF RoundUp
<1>2. b * n \in Nat
  BY <1>1
<1>3. a <= b * n /\ b * n < a + b
  BY <1>1, <1>2
<1>4. ASSUME NEW x \in 0 .. a - 1 PROVE x \div b \in 0 .. n - 1
  <2> DEFINE q == x \div b
  <2>1. q \in Nat /\ x = b * q + (x % b) /\ x % b \in 0 .. b - 1
    <3>1. x \in Nat
      OBVIOUS
    <3> QED BY <3>1, Division
  <2> HIDE DEF n, q
  <2>2. ~(q >= n)
    <3> SUFFICES ASSUME q >= n PROVE FALSE
      OBVIOUS
    <3>1. b * q >= b * n
      BY <2>1, <1>1
    <3>2. b * q \in Nat
      BY <2>1
    <3> QED BY <3>1, <3>2, <2>1, <1>2, <1>3
  <2> QED BY <2>1, <2>2, <1>1 DEF q
<1>5. ASSUME NEW c \in 0 .. n - 1 PROVE c * b \in Nat /\ c * b < a
  <2> HIDE DEF n
  <2>1. c \in Nat /\ c + 1 <= n
    BY <1>1
  <2>2. b * (c + 1) <= b * n
    BY <2>1, <1>1
  <2>3. b * (c + 1) = c * b + b
    BY <2>1
  <2>4. c * b \in Nat
    BY <2>1
  <2> QED BY <2>2, <2>3, <2>4, <1>2, <1>3
<1> QED BY <1>1, <1>4, <1>5

\* Numbering the cells of nx columns and ny rows.
LEMMA CellNumber ==
    ASSUME NEW nx \in Nat, NEW ny \in Nat, NEW col \in 0 .. nx - 1, NEW row \in 0 .. ny - 1
    PROVE  /\ nx * row + col + 1 \in 1 .. nx * ny
           /\ ((nx * row + col + 1) - 1) % nx = col /\ ((nx * row + col + 1) - 1) \div nx = row
<1>1. nx \in Nat \ {0} /\ row \in Nat /\ col \in Nat /\ row + 1 <= ny
  OBVIOUS
<1>2. nx * row \in Nat /\ nx * ny \in Nat
  BY <1>1
<1>3. nx * row + nx <= nx * ny
  <2>1. nx * (row + 1) <= nx * ny
    BY <1>1
  <2>2. nx * (row + 1) = nx * row + nx
    BY <1>1
  <2> QED BY <2>1, <2>2
<1>4. (nx * row + col + 1) - 1 = nx * row + col
  BY <1>1, <1>2
<1>5. (nx * row + col) % nx = col /\ (nx * row + col) \div nx = row
  BY <1>1, DivisionUnique
<1>6. nx * row + col + 1 \in 1 .. nx * ny
  <2> DEFINE a == nx * row
             c == nx * ny
  <2>1. a \in Nat /\ c \in Nat /\ a + nx <= c /\ col <= nx - 1
    BY <1>2, <1>3
  <2> HIDE DEF a, c
  <2>2. a + col + 1 \in 1 .. c
    BY <2>1
  <2> QED BY <2>2 DEF a, c
<1> QED BY <1>4, <1>5, <1>6

LEMMA CellOfNumber ==
    ASSUME NEW nx \in Nat, NEW ny \in Nat, NEW n \in 1 .. nx * ny
    PROVE  /\ (n - 1) % nx \in 0 .. nx - 1 /\ (n - 1) \div nx \in 0 .. ny - 1
           /\ n = nx * ((n - 1) \div nx) + ((n - 1) % nx) + 1
<1>1. nx * ny \in Nat /\ n \in Nat /\ n - 1 \in Nat
  OBVIOUS
<1>2. nx \in Nat \ {0}
  <2> SUFFICES ASSUME nx = 0 PROVE FALSE
    OBVIOUS
  <2>1. nx * ny = 0
    OBVIOUS
  <2> QED BY <2>1
<1> DEFINE q == (n - 1) \div nx
           r == (n - 1) % nx
<1>3. q \in Nat /\ r \in 0 .. nx - 1 /\ n - 1 = nx * q + r
  BY <1>1, <1>2, Division
<1> HIDE DEF q, r
<1>4. nx * q \in Nat
  BY <1>2, <1>3
<1>5. ~(q >= ny)
  <2> SUFFICES ASSUME q >= ny PROVE FALSE
    OBVIOUS
  <2>1. nx * q >= nx * ny
    BY <1>2, <1>3
  <2> QED BY <2>1, <1>1, <1>3, <1>4
<1>6. n = nx * q + r + 1
  BY <1>1, <1>3, <1>4
<1> QED BY <1>3, <1>5, <1>6 DEF q, r

\* One axis: the pieces of length b of a stretch of length a.
Start(b, c)     == c * b
Length(a, b, c) == Least(b, a - c * b)

LEMMA AxisCut ==
    ASSUME NEW a \in Nat, NEW b \in Nat \ {0}
    PROVE  /\ \A x \in 0 .. a - 1 :
                /\ x \div b \in 0 .. RoundUp(a, b) - 1
                /\ \A c \in 0 .. RoundUp(a, b) - 1 :
                     (Start(b, c) <= x /\ x < Start(b, c) + Length(a, b, c)) <=> c = x \div b
           /\ \A c \in 0 .. RoundUp(a, b) - 1 :
                /\ Start(b, c) \in Nat /\ Length(a, b, c) \in Nat \ {0}
                /\ Start(b, c) + Length(a, b, c) <= a
<1>1. \A c \in 0 .. RoundUp(a, b) - 1 : c * b \in Nat /\ c * b < a
  BY RoundUpFacts
<1>2. ASSUME NEW c \in 0 .. RoundUp(a, b) - 1
      PROVE  /\ Start(b, c) \in Nat /\ Length(a, b, c) \in Nat \ {0}
             /\ Start(b, c) + Length(a, b, c) <= a
  <2> DEFINE z == c * b
  <2>1. z \in Nat /\ z < a
    BY <1>1
  <2> HIDE DEF z
  <2>2. Least(b, a - z) \in Nat \ {0} /\ z + Least(b, a - z) <= a
    BY <2>1 DEF Least
  <2> QED BY <2>1, <2>2 DEF Start, Length, z
<1>3. ASSUME NEW x \in 0 .. a - 1, NEW c \in 0 .. RoundUp(a, b) - 1
      PROVE  (Start(b, c) <= x /\ x < Start(b, c) + Length(a, b, c)) <=> c = x \div b
  <2> DEFINE z == c * b
             q == x \div b
  <2>0. x \in Nat
    OBVIOUS
  <2>1. z \in Nat /\ z < a /\ c \in Nat
    BY <1>1, RoundUpFacts
  <2>2. q \in Nat /\ x % b \in 0 .. b - 1 /\ x = b * q + (x % b)
    BY <2>0, Division
  <2>3. ASSUME c = q PROVE z <= x /\ x < z + Least(b, a - z)
    <3> HIDE DEF q
    <3>1. z = b * q
      BY <2>1, <2>2, <2>3
    <3> HIDE DEF z
    <3> QED BY <3>1, <2>1, <2>2 DEF Least
  <2>4. ASSUME z <= x, x < z + Least(b, a - z) PROVE c = q
    <3> DEFINE r == x - z
    <3>1. r \in 0 .. b - 1
      <4> HIDE DEF z
      <4> QED BY <2>1, <2>4 DEF Least
    <3>2. x = b * c + r
      <4>1. z = b * c
        BY <2>1
      <4> HIDE DEF z
      <4> QED BY <4>1, <2>1
    <3> HIDE DEF r
    <3>3. (b * c + r) \div b = c
      BY <2>1, <3>1, DivisionUnique
    <3> QED BY <3>2, <3>3
  <2> QED BY <2>3, <2>4 DEF Start, Length
<1> QED BY <1>2, <1>3, RoundUpFacts

\* The rectangles s divide r: each lies in it, and each of its points in
\* one of them.
Divide(s, r) ==
    /\ \E l \in Nat : DOMAIN s = 1 .. l /\ Len(s) = l
    /\ \A n \in DOMAIN s :
         /\ s[n] \in Rects
         /\ r.xpix <= s[n].xpix /\ s[n].xpix + s[n].xdim <= r.xpix + r.xdim
         /\ r.ypix <= s[n].ypix /\ s[n].ypix + s[n].ydim <= r.ypix + r.ydim
    /\ \A px \in Nat \X Nat : Inside(r, px) =>
         \E n \in DOMAIN s : \A m \in DOMAIN s : Inside(s[m], px) <=> m = n

LEMMA PiecesDivide ==
    ASSUME NEW r \in Rects, NEW xs \in Nat \ {0}, NEW ys \in Nat \ {0}
    PROVE  Divide(Pieces(r, xs, ys), r)
<1> DEFINE nx == RoundUp(r.xdim, xs)
           ny == RoundUp(r.ydim, ys)
           S  == Pieces(r, xs, ys)
           X(n) == (n - 1) % nx
           Y(n) == (n - 1) \div nx
           piece(n) == [xpix |-> r.xpix + Start(xs, X(n)), ypix |-> r.ypix + Start(ys, Y(n)),
                        xdim |-> Length(r.xdim, xs, X(n)), ydim |-> Length(r.ydim, ys, Y(n))]
<1>0. r.xpix \in Nat /\ r.ypix \in Nat /\ r.xdim \in Nat /\ r.ydim \in Nat
  BY DEF Rects
<1>1. nx \in Nat /\ ny \in Nat /\ nx * ny \in Nat
  <2>1. nx \in Nat /\ ny \in Nat
    BY <1>0, RoundUpFacts
  <2> HIDE DEF nx, ny
  <2> QED BY <2>1
<1>2. S = [n \in 1 .. nx * ny |-> piece(n)]
  BY DEF Pieces, Start, Length
<1> HIDE DEF S, nx, ny
<1>3. DOMAIN S = 1 .. nx * ny /\ Len(S) = nx * ny /\ \A n \in 1 .. nx * ny : S[n] = piece(n)
  BY <1>1, <1>2
<1>4. \A n \in 1 .. nx * ny : /\ X(n) \in 0 .. nx - 1 /\ Y(n) \in 0 .. ny - 1
                              /\ n = nx * Y(n) + X(n) + 1
  BY <1>1, CellOfNumber
<1>5. ASSUME NEW n \in DOMAIN S
      PROVE  /\ S[n] \in Rects
             /\ r.xpix <= S[n].xpix /\ S[n].xpix + S[n].xdim <= r.xpix + r.xdim
             /\ r.ypix <= S[n].ypix /\ S[n].ypix + S[n].ydim <= r.ypix + r.ydim
  <2>1. X(n) \in 0 .. nx - 1 /\ Y(n) \in 0 .. ny - 1
    BY <1>3, <1>4
  <2>2. /\ Start(xs, X(n)) \in Nat /\ Length(r.xdim, xs, X(n)) \in Nat \ {0}
        /\ Start(xs, X(n)) + Length(r.xdim, xs, X(n)) <= r.xdim
    <3> HIDE DEF X
    <3> QED BY <1>0, <2>1, AxisCut DEF nx
  <2>3. /\ Start(ys, Y(n)) \in Nat /\ Length(r.ydim, ys, Y(n)) \in Nat \ {0}
        /\ Start(ys, Y(n)) + Length(r.ydim, ys, Y(n)) <= r.ydim
    <3> HIDE DEF Y
    <3> QED BY <1>0, <2>1, AxisCut DEF ny
  <2> HIDE DEF X, Y
  <2> QED BY <1>0, <1>3, <2>2, <2>3 DEF Rects
<1>6. ASSUME NEW px \in Nat \X Nat, Inside(r, px)
      PROVE  \E n \in DOMAIN S : \A m \in DOMAIN S : Inside(S[m], px) <=> m = n
  <2> DEFINE x == px[1] - r.xpix
             y == px[2] - r.ypix
             col == x \div xs
             row == y \div ys
             n == nx * row + col + 1
  <2>1. x \in 0 .. r.xdim - 1 /\ y \in 0 .. r.ydim - 1
    BY <1>0, <1>6 DEF Inside
  <2>2. /\ col \in 0 .. nx - 1
        /\ \A c \in 0 .. nx - 1 :
             (Start(xs, c) <= x /\ x < Start(xs, c) + Length(r.xdim, xs, c)) <=> c = col
    <3> HIDE DEF x
    <3> QED BY <1>0, <2>1, AxisCut DEF nx
  <2>3. /\ row \in 0 .. ny - 1
        /\ \A c \in 0 .. ny - 1 :
             (Start(ys, c) <= y /\ y < Start(ys, c) + Length(r.ydim, ys, c)) <=> c = row
    <3> HIDE DEF y
    <3> QED BY <1>0, <2>1, AxisCut DEF ny
  <2> HIDE DEF col, row
  <2>4. n \in 1 .. nx * ny /\ X(n) = col /\ Y(n) = row
    BY <1>1, <2>2, <2>3, CellNumber
  <2> HIDE DEF n
  <2>5. ASSUME NEW m \in DOMAIN S PROVE Inside(S[m], px) <=> m = n
    <3>1. /\ X(m) \in 0 .. nx - 1 /\ Y(m) \in 0 .. ny - 1
          /\ m = nx * Y(m) + X(m) + 1
      BY <1>3, <1>4
    <3>2. m = n <=> X(m) = col /\ Y(m) = row
      <4>1. n = nx * row + col + 1
        BY DEF n
      <4> HIDE DEF X, Y
      <4> QED BY <3>1, <4>1, <2>4
    <3> HIDE DEF X, Y
    <3>3. /\ Start(xs, X(m)) \in Nat /\ Length(r.xdim, xs, X(m)) \in Nat \ {0}
          /\ Start(ys, Y(m)) \in Nat /\ Length(r.ydim, ys, Y(m)) \in Nat \ {0}
      BY <1>0, <3>1, AxisCut DEF nx, ny
    <3>4. /\ S[m].xpix = r.xpix + Start(xs, X(m)) /\ S[m].xdim = Length(r.xdim, xs, X(m))
          /\ S[m].ypix = r.ypix + Start(ys, Y(m)) /\ S[m].ydim = Length(r.ydim, ys, Y(m))
      BY <1>3
    <3>5. Inside(S[m], px) <=> /\ Start(xs, X(m)) <= x /\ x < Start(xs, X(m)) + Length(r.xdim, xs, X(m))
                               /\ Start(ys, Y(m)) <= y /\ y < Start(ys, Y(m)) + Length(r.ydim, ys, Y(m))
      BY <1>0, <3>3, <3>4 DEF Inside
    <3> QED BY <3>1, <3>2, <3>5, <2>2, <2>3
  <2>6. n \in DOMAIN S
    BY <1>3, <2>4
  <2> QED BY <2>5, <2>6, Zenon
<1>7. Divide(S, r)
  BY <1>1, <1>3, <1>5, <1>6 DEF Divide
<1> QED BY <1>7 DEF S

-----------------------------------------------------------------------------
(* Where the bundle of a pixel is.                                         *)
Display == [xpix |-> 0, ypix |-> 0, xdim |-> xres, ydim |-> yres]
Within(r) == r.xpix + r.xdim <= xres /\ r.ypix + r.ydim <= yres

BlockOf(px)  == CHOOSE n \in DOMAIN Blocks : Inside(Blocks[n], px)
BundleOf(px) == CHOOSE k \in DOMAIN Bundles(BlockOf(px)) : Inside(Bundles(BlockOf(px))[k], px)

\* p has still to put it, it is at height h of the pool of p, p has yet to trace the pixel.
ToPut(p, px) ==
    /\ (BlockOf(px) - 1) % nprocs = p
    /\ \/ todo[p].block < BlockOf(px)
       \/ todo[p].block = BlockOf(px) /\ todo[p].bundle <= BundleOf(px)
InPool(p, h, px) == h \in 1 .. Len(workpool[p]) /\ Inside(workpool[p][Len(workpool[p]) + 1 - h].rect, px)
ToTrace(p, px) ==
    /\ Inside(job[p], px)
    /\ job[p].ycurr < px[2] \/ (job[p].ycurr = px[2] /\ job[p].xcurr <= px[1])

Places == {"todo", "pool", "job"} \X Procs \X Nat
Lies(px, w) ==
    \/ w[1] = "todo" /\ w[3] = 0 /\ ToPut(w[2], px)
    \/ w[1] = "pool" /\ InPool(w[2], w[3], px)
    \/ w[1] = "job" /\ w[3] = 0 /\ ToTrace(w[2], px)

Once(px) ==
    \/ frame[px] = <<>> /\ \E w \in Places : \A v \in Places : Lies(px, v) <=> v = w
    \/ frame[px] = <<picture[px]>> /\ \A v \in Places : ~Lies(px, v)

-----------------------------------------------------------------------------
(* The invariant.                                                          *)
Filling == {"init", "alloc", "put", "barrier"}
Tracing == {"look", "get", "free", "trace", "done"}

StageInv ==
    /\ pc \in [Procs -> {"main"}] \/ pc \in [Procs -> Filling] \/ pc \in [Procs -> Tracing]
    /\ i \in [Procs -> Procs]
    /\ wpstat \in [Procs -> {"WPS_EMPTY", "WPS_VALID"}]
    /\ frame = [px \in Pixels |-> frame[px]]

\* A stack, and the rectangles on it.
IsStack(s) ==
    /\ Len(s) \in Nat /\ s = [k \in 1 .. Len(s) |-> s[k]]
    /\ \A k \in 1 .. Len(s) : s[k].rect \in Rects /\ Within(s[k].rect)
PoolInv ==
    /\ workpool = [p \in Procs |-> workpool[p]]
    /\ \A p \in Procs : IsStack(workpool[p])
    /\ \A p \in Procs : pc[p] \in {"main", "init"} \/ wpstat[p] = "WPS_EMPTY" => workpool[p] = <<>>
    /\ \A p \in Procs : pc[p] \in Filling \ {"init"} => wpstat[p] = "WPS_VALID"

TodoInv ==
    /\ todo \in [Procs -> [block : Nat, bundle : Nat]]
    /\ \A p \in Procs :
         /\ pc[p] \in {"main", "init"} => todo[p].block = 0
         /\ pc[p] \in {"alloc", "put"} =>
              /\ todo[p].block \in DOMAIN Blocks
              /\ todo[p].bundle \in DOMAIN Bundles(todo[p].block)
              /\ (todo[p].block - 1) % nprocs = p
         /\ pc[p] \in {"barrier"} \cup Tracing => todo[p].block > Len(Blocks)

Current(j) ==
    /\ j.xpix <= j.xcurr /\ j.xcurr < j.xpix + j.xdim
    /\ j.ypix <= j.ycurr /\ j.ycurr <= j.ypix + j.ydim
JobInv ==
    /\ job \in [Procs -> Jobs]
    /\ \A p \in Procs :
         IF pc[p] \in {"free", "trace"}
         THEN job[p].xdim > 0 /\ job[p].ydim > 0 /\ Within(job[p]) /\ Current(job[p])
         ELSE job[p] = NoJob

\* The pools p has found empty on its round.
Passed(p) ==
    IF i[p] >= p THEN {q \in Procs : p <= q /\ q < i[p]} ELSE {q \in Procs : p <= q \/ q < i[p]}
RoundInv ==
    \A p \in Procs :
        /\ pc[p] \notin Tracing => i[p] = p
        /\ pc[p] \in {"look", "get"} => \A q \in Passed(p) : workpool[q] = <<>>
        /\ pc[p] = "done" => \A q \in Procs : workpool[q] = <<>>

IInv == StageInv /\ PoolInv /\ TodoInv /\ JobInv /\ RoundInv /\ \A px \in Pixels : Once(px)

-----------------------------------------------------------------------------
(* Blocks and bundles divide the image.                                    *)
LEMMA BlocksFacts ==
    /\ \E l \in Nat : DOMAIN Blocks = 1 .. l /\ Len(Blocks) = l
    /\ \A n \in DOMAIN Blocks : Blocks[n] \in Rects /\ Within(Blocks[n])
    /\ \A px \in Pixels : \E n \in DOMAIN Blocks : \A m \in DOMAIN Blocks :
         Inside(Blocks[m], px) <=> m = n
<1> DEFINE xs == xres \div blockx
           ys == yres \div blocky
<1>1. xres \in Nat \ {0} /\ yres \in Nat \ {0} /\ blockx \in 1 .. xres /\ blocky \in 1 .. yres
  BY WorkPoolAssumption
<1>2. xs \in Nat \ {0} /\ ys \in Nat \ {0}
  <2>1. ASSUME NEW a \in Nat \ {0}, NEW b \in 1 .. a PROVE a \div b \in Nat \ {0}
    <3>1. a \in Nat /\ b \in Nat \ {0}
      OBVIOUS
    <3>2. a \div b \in Nat /\ a % b \in 0 .. b - 1 /\ a = b * (a \div b) + (a % b)
      BY <3>1, Division
    <3>3. a \div b # 0
      BY <3>1, <3>2
    <3> QED BY <3>2, <3>3
  <2> QED BY <1>1, <2>1
<1>3. Display \in Rects
  BY <1>1 DEF Rects, Display
<1>4. Divide(Blocks, Display)
  <2>1. Blocks = Pieces(Display, xs, ys)
    BY DEF Blocks, Display
  <2> HIDE DEF xs, ys
  <2> QED BY <2>1, <1>2, <1>3, PiecesDivide
<1>5. \A px \in Pixels : px \in Nat \X Nat /\ Inside(Display, px)
  BY <1>1 DEF Pixels, Inside, Display
<1>6. ASSUME NEW n \in DOMAIN Blocks PROVE Blocks[n] \in Rects /\ Within(Blocks[n])
  BY <1>1, <1>4 DEF Divide, Within, Display
<1> QED BY <1>4, <1>5, <1>6 DEF Divide

LEMMA BundlesFacts ==
    ASSUME NEW n \in DOMAIN Blocks
    PROVE  /\ \E l \in Nat : DOMAIN Bundles(n) = 1 .. l /\ Len(Bundles(n)) = l
           /\ \A k \in DOMAIN Bundles(n) : Bundles(n)[k] \in Rects /\ Within(Bundles(n)[k])
           /\ \A k \in DOMAIN Bundles(n) : \A px \in Nat \X Nat :
                Inside(Bundles(n)[k], px) => Inside(Blocks[n], px)
           /\ \A px \in Nat \X Nat : Inside(Blocks[n], px) =>
                \E k \in DOMAIN Bundles(n) : \A m \in DOMAIN Bundles(n) :
                    Inside(Bundles(n)[m], px) <=> m = k
<1> DEFINE b == Blocks[n]
<1>1. b \in Rects /\ Within(b)
  BY BlocksFacts
<1>2. bundlex \in Nat \ {0} /\ bundley \in Nat \ {0} /\ xres \in Nat /\ yres \in Nat
  BY WorkPoolAssumption
<1>3. Divide(Bundles(n), b)
  <2>1. Bundles(n) = Pieces(b, bundlex, bundley)
    BY DEF Bundles
  <2> HIDE DEF b
  <2> QED BY <2>1, <1>1, <1>2, PiecesDivide
<1> HIDE DEF b
<1>4. ASSUME NEW k \in DOMAIN Bundles(n)
      PROVE  /\ Bundles(n)[k] \in Rects /\ Within(Bundles(n)[k])
             /\ \A px \in Nat \X Nat : Inside(Bundles(n)[k], px) => Inside(b, px)
  <2> DEFINE s == Bundles(n)[k]
  <2>1. /\ s \in Rects /\ b.xpix <= s.xpix /\ s.xpix + s.xdim <= b.xpix + b.xdim
        /\ b.ypix <= s.ypix /\ s.ypix + s.ydim <= b.ypix + b.ydim
    BY <1>3 DEF Divide
  <2> HIDE DEF s
  <2>2. Within(s)
    BY <2>1, <1>1, <1>2 DEF Within, Rects
  <2>3. ASSUME NEW px \in Nat \X Nat, Inside(s, px) PROVE Inside(b, px)
    BY <2>1, <2>3, <1>1 DEF Inside, Rects
  <2> QED BY <2>1, <2>2, <2>3 DEF s
<1> QED BY <1>3, <1>4 DEF b, Divide

\* A pixel lies in one bundle of one block.
LEMMA JobOfPixel ==
    ASSUME NEW px \in Pixels
    PROVE  /\ BlockOf(px) \in DOMAIN Blocks /\ BundleOf(px) \in DOMAIN Bundles(BlockOf(px))
           /\ \A n \in DOMAIN Blocks : \A k \in DOMAIN Bundles(n) :
                Inside(Bundles(n)[k], px) <=> n = BlockOf(px) /\ k = BundleOf(px)
<1>0. px \in Nat \X Nat
  BY WorkPoolAssumption DEF Pixels
<1>1. PICK n \in DOMAIN Blocks : \A m \in DOMAIN Blocks : Inside(Blocks[m], px) <=> m = n
  BY BlocksFacts
<1>2. BlockOf(px) = n
  BY <1>1 DEF BlockOf
<1>3. PICK k \in DOMAIN Bundles(n) : \A m \in DOMAIN Bundles(n) : Inside(Bundles(n)[m], px) <=> m = k
  BY <1>0, <1>1, BundlesFacts
<1>4. BundleOf(px) = k
  BY <1>2, <1>3 DEF BundleOf
<1>5. ASSUME NEW m \in DOMAIN Blocks, NEW j \in DOMAIN Bundles(m)
      PROVE  Inside(Bundles(m)[j], px) <=> m = n /\ j = k
  <2>1. CASE m = n
    BY <2>1, <1>3
  <2>2. CASE m # n
    <3>1. ~Inside(Blocks[m], px)
      BY <1>1, <2>2
    <3> QED BY <3>1, <2>2, <1>0, BundlesFacts
  <2> QED BY <2>1, <2>2
<1> QED BY <1>2, <1>4, <1>5

-----------------------------------------------------------------------------
(* Stacks.                                                                 *)
LEMMA Push ==
    ASSUME NEW s, IsStack(s), NEW e, e.rect \in Rects, Within(e.rect)
    PROVE  LET t == <<e>> \o s
           IN  /\ IsStack(t) /\ Len(t) = Len(s) + 1
               /\ t[1] = e
               /\ \A h \in 1 .. Len(s) : t[Len(t) + 1 - h] = s[Len(s) + 1 - h]
<1> DEFINE n == Len(s)
           S == {s[k] : k \in 1 .. n} \cup {e}
           t == <<e>> \o s
<1>1. n \in Nat /\ s = [k \in 1 .. n |-> s[k]]
  BY DEF IsStack
<1>2. s \in Seq(S) /\ <<e>> \in Seq(S)
  <2> HIDE DEF n
  <2>1. \A k \in 1 .. n : s[k] \in S
    OBVIOUS
  <2> HIDE DEF S
  <2>2. [k \in 1 .. n |-> s[k]] \in Seq(S)
    BY <1>1, <2>1
  <2> QED BY <1>1, <2>2 DEF S
<1> HIDE DEF S
<1>3. t \in Seq(S) /\ Len(t) = n + 1 /\ t[1] = e /\ \A k \in 1 .. n : t[k + 1] = s[k]
  BY <1>2
<1>4. t = [k \in 1 .. Len(t) |-> t[k]]
  BY <1>3
<1> HIDE DEF t, n
<1>5. \A k \in 1 .. Len(t) : t[k].rect \in Rects /\ Within(t[k].rect)
  <2> SUFFICES ASSUME NEW k \in 1 .. Len(t) PROVE t[k].rect \in Rects /\ Within(t[k].rect)
    OBVIOUS
  <2>1. k = 1 \/ (k - 1 \in 1 .. n /\ t[k] = s[k - 1])
    <3>1. k = 1 \/ k - 1 \in 1 .. n
      BY <1>1, <1>3
    <3>2. k - 1 \in 1 .. n => t[(k - 1) + 1] = s[k - 1]
      BY <1>3
    <3> QED BY <3>1, <3>2
  <2> QED BY <2>1, <1>3 DEF IsStack, n
<1>6. \A h \in 1 .. n : t[Len(t) + 1 - h] = s[n + 1 - h]
  <2> SUFFICES ASSUME NEW h \in 1 .. n PROVE t[Len(t) + 1 - h] = s[n + 1 - h]
    OBVIOUS
  <2>1. n + 1 - h \in 1 .. n /\ Len(t) + 1 - h = (n + 1 - h) + 1
    BY <1>1, <1>3
  <2> QED BY <2>1, <1>3
<1> QED BY <1>1, <1>3, <1>4, <1>5, <1>6 DEF IsStack, n, t

LEMMA Pop ==
    ASSUME NEW s, IsStack(s), s # <<>>
    PROVE  /\ Len(s) \in Nat \ {0} /\ Head(s) = s[1]
           /\ Head(s).rect \in Rects /\ Within(Head(s).rect)
           /\ IsStack(Tail(s)) /\ Len(Tail(s)) = Len(s) - 1
           /\ \A h \in 1 .. Len(s) - 1 : Tail(s)[Len(Tail(s)) + 1 - h] = s[Len(s) + 1 - h]
<1> DEFINE n == Len(s)
           S == {s[k] : k \in 1 .. n}
           t == Tail(s)
<1>1. n \in Nat /\ s = [k \in 1 .. n |-> s[k]]
  BY DEF IsStack
<1>2. s \in Seq(S)
  <2> HIDE DEF n
  <2>1. \A k \in 1 .. n : s[k] \in S
    OBVIOUS
  <2> HIDE DEF S
  <2> QED BY <1>1, <2>1
<1> HIDE DEF S
<1>3. /\ n \in Nat \ {0} /\ Head(s) = s[1]
      /\ t \in Seq(S) /\ Len(t) = n - 1 /\ \A k \in 1 .. n - 1 : t[k] = s[k + 1]
  BY <1>2
<1> HIDE DEF t, n
<1>4. t = [k \in 1 .. Len(t) |-> t[k]]
  BY <1>3
<1>5. \A k \in 1 .. Len(t) : t[k].rect \in Rects /\ Within(t[k].rect)
  <2> SUFFICES ASSUME NEW k \in 1 .. Len(t) PROVE t[k].rect \in Rects /\ Within(t[k].rect)
    OBVIOUS
  <2>1. k + 1 \in 1 .. n /\ t[k] = s[k + 1]
    BY <1>3
  <2> QED BY <2>1 DEF IsStack, n
<1>6. \A h \in 1 .. n - 1 : t[Len(t) + 1 - h] = s[n + 1 - h]
  <2> SUFFICES ASSUME NEW h \in 1 .. n - 1 PROVE t[Len(t) + 1 - h] = s[n + 1 - h]
    OBVIOUS
  <2>1. n - h \in 1 .. n - 1 /\ Len(t) + 1 - h = n - h /\ (n - h) + 1 = n + 1 - h
    BY <1>3
  <2> QED BY <2>1, <1>3
<1>7. s[1].rect \in Rects /\ Within(s[1].rect)
  BY <1>3 DEF IsStack, n
<1> QED BY <1>3, <1>4, <1>5, <1>6, <1>7 DEF IsStack, n, t

-----------------------------------------------------------------------------
(* What a step does to the pools and the picture.                          *)
Idle ==
    /\ UNCHANGED <<pc, todo, workpool, wpstat, i, job, frame>>
    /\ UNCHANGED picture \/ pc \in [Procs -> {"main"}]
\* Only the place of p changes: it has got memory, or given some back.
Hop(p) ==
    /\ \/ pc[p] = "alloc" /\ pc' = [pc EXCEPT ![p] = "put"]
       \/ pc[p] = "free" /\ pc' = [pc EXCEPT ![p] = "trace"]
    /\ UNCHANGED <<picture, todo, workpool, wpstat, i, job, frame>>

LEMMA StepCases ==
    ASSUME StageInv, [Next]_vars
    PROVE  \/ Idle \/ Create \/ Barrier
           \/ \E p \in Procs : \/ InitWorkPool(p) \/ Hop(p) \/ PutJob(p)
                               \/ Look(p) \/ GetJob(p) \/ RayTrace(p)
<1>1. CASE UNCHANGED vars
  BY <1>1 DEF vars, scene, Idle
<1>2. ASSUME MainAlone PROVE pc \in [Procs -> {"main"}]
  <2>1. \A p \in Procs : pc[p] = "main"
    BY <1>2 DEF MainAlone, At
  <2>2. pc = [p \in Procs |-> pc[p]]
    BY DEF StageInv
  <2> QED BY <2>1, <2>2
<1>3. CASE ReadModel \/ BuildHierarchy \/ Settle
  BY <1>2, <1>3 DEF ReadModel, BuildHierarchy, Settle, MemoryAside, Idle
<1>4. CASE \E size \in ModelSizes : ModelMalloc(size)
  BY <1>4 DEF ModelMalloc, scene, Idle
<1>5. CASE \E a \in model : ModelFree(a)
  BY <1>5 DEF ModelFree, scene, Idle
<1>6. ASSUME NEW p \in Procs, GlobalMalloc(p) PROVE Idle \/ Hop(p)
  BY <1>6 DEF GlobalMalloc, At, Goto, Exit, scene, Idle, Hop
<1>7. ASSUME NEW p \in Procs, GlobalFree(p) PROVE Idle \/ Hop(p)
  BY <1>7 DEF GlobalFree, At, Goto, Exit, scene, Idle, Hop
<1> QED BY <1>1, <1>3, <1>4, <1>5, <1>6, <1>7 DEF Next, ProcStep

LEMMA ProcsFacts == nprocs \in Nat \ {0} /\ Procs = 0 .. nprocs - 1 /\ Procs \subseteq Nat
  BY WorkPoolAssumption DEF Procs

LEMMA AfterPutFacts == \A at : AfterPut(at) \in {"alloc", "barrier"}
  BY DEF AfterPut

\* The next one of n in a circle.
LEMMA NextAround ==
    ASSUME NEW n \in Nat \ {0}, NEW k \in 0 .. n - 1
    PROVE  (k + 1) % n = (IF k = n - 1 THEN 0 ELSE k + 1)
<1>1. CASE k = n - 1
  <2>1. n * 1 + 0 = k + 1 /\ 0 \in 0 .. n - 1
    BY <1>1
  <2>2. (n * 1 + 0) % n = 0
    BY <2>1, DivisionUnique
  <2> QED BY <1>1, <2>1, <2>2
<1>2. CASE k # n - 1
  <2>1. n * 0 + (k + 1) = k + 1 /\ k + 1 \in 0 .. n - 1
    BY <1>2
  <2>2. (n * 0 + (k + 1)) % n = k + 1
    BY <2>1, DivisionUnique
  <2> QED BY <1>2, <2>1, <2>2
<1> QED BY <1>1, <1>2

\* The turn comes round to the same process after nprocs blocks, and not before.
LEMMA NextTurn ==
    ASSUME NEW n \in Nat \ {0}, NEW b \in Nat \ {0}
    PROVE  /\ (b + n - 1) % n = (b - 1) % n
           /\ \A c \in Nat : c > b /\ (c - 1) % n = (b - 1) % n => c >= b + n
<1> DEFINE a == b - 1
           q == a \div n
           r == a % n
<1>1. a \in Nat
  OBVIOUS
<1>2. q \in Nat /\ r \in 0 .. n - 1 /\ a = n * q + r
  BY <1>1, Division
<1>3. (b + n - 1) % n = r
  <2> HIDE DEF q, r
  <2>1. n * (q + 1) = n * q + n /\ n * q \in Nat
    BY <1>2
  <2>2. n * (q + 1) + r = b + n - 1
    BY <1>2, <2>1
  <2>3. (n * (q + 1) + r) % n = r
    BY <1>2, DivisionUnique
  <2> QED BY <2>2, <2>3
<1>4. ASSUME NEW c \in Nat, c > b, (c - 1) % n = r PROVE c >= b + n
  <2> DEFINE s == (c - 1) \div n
  <2>1. c - 1 \in Nat
    BY <1>4
  <2>2. s \in Nat /\ c - 1 = n * s + r
    BY <1>4, <2>1, Division
  <2> HIDE DEF q, r, s
  <2>3. n * q \in Nat /\ n * s \in Nat
    BY <1>2, <2>2
  <2>4. ~(s <= q)
    <3> SUFFICES ASSUME s <= q PROVE FALSE
      OBVIOUS
    <3>1. n * s <= n * q
      BY <1>2, <2>2
    <3> QED BY <3>1, <1>2, <1>4, <2>2, <2>3
  <2>5. n * (q + 1) <= n * s /\ n * (q + 1) = n * q + n
    BY <1>2, <2>2, <2>4
  <2> QED BY <1>2, <2>2, <2>3, <2>5
<1> QED BY <1>3, <1>4

\* No block is without bundles.
LEMMA FirstBundle == \A n \in DOMAIN Blocks : 1 \in DOMAIN Bundles(n)
<1> SUFFICES ASSUME NEW n \in DOMAIN Blocks PROVE 1 \in DOMAIN Bundles(n)
  OBVIOUS
<1> DEFINE px == <<Blocks[n].xpix, Blocks[n].ypix>>
<1>1. px \in Nat \X Nat /\ Inside(Blocks[n], px)
  BY BlocksFacts DEF Inside, Rects
<1> HIDE DEF px
<1>2. PICK k \in DOMAIN Bundles(n) : Inside(Bundles(n)[k], px)
  BY <1>1, BundlesFacts
<1>3. PICK l \in Nat : DOMAIN Bundles(n) = 1 .. l
  BY BundlesFacts
<1> QED BY <1>2, <1>3

LEMMA NextPoolFacts ==
    ASSUME StageInv, NEW p \in Procs, NextPool(p)
    PROVE  /\ i' \in [Procs -> Procs] /\ i' = [i EXCEPT ![p] = i'[p]]
           /\ i'[p] = (IF i[p] = nprocs - 1 THEN 0 ELSE i[p] + 1)
           /\ pc' = [pc EXCEPT ![p] = IF i'[p] = p THEN "done" ELSE "look"]
<1>1. i[p] \in 0 .. nprocs - 1 /\ i \in [Procs -> Procs]
  BY ProcsFacts DEF StageInv
<1>2. (i[p] + 1) % nprocs = (IF i[p] = nprocs - 1 THEN 0 ELSE i[p] + 1)
  BY <1>1, ProcsFacts, NextAround
<1>3. i' = [i EXCEPT ![p] = (i[p] + 1) % nprocs] /\ (i[p] + 1) % nprocs \in Procs
  <2>1. i' = [i EXCEPT ![p] = (i[p] + 1) % nprocs]
    BY DEF NextPool
  <2>2. ASSUME NEW k \in 0 .. nprocs - 1 PROVE (IF k = nprocs - 1 THEN 0 ELSE k + 1) \in Procs
    <3>1. CASE k = nprocs - 1
      BY <3>1, ProcsFacts
    <3>2. CASE k # nprocs - 1
      BY <3>2, ProcsFacts
    <3> QED BY <3>1, <3>2
  <2> QED BY <1>1, <1>2, <2>1, <2>2
<1>4. i'[p] = (i[p] + 1) % nprocs
  BY <1>1, <1>3
<1>5. pc' = [pc EXCEPT ![p] = IF i'[p] = p THEN "done" ELSE "look"]
  BY DEF NextPool, Goto
<1> HIDE DEF NextPool
<1> QED BY <1>1, <1>2, <1>3, <1>4, <1>5

LEMMA StageStep ==
    ASSUME IInv, [Next]_vars
    PROVE  StageInv'
<1> USE DEF StageInv, Filling, Tracing
<1>0. StageInv
  BY DEF IInv
<1>1. CASE Idle
  BY <1>0, <1>1 DEF Idle
<1>2. CASE Create
  BY <1>0, <1>2 DEF Create, scene
<1>3. CASE Barrier
  BY <1>0, <1>3 DEF Barrier, scene
<1>4. ASSUME NEW p \in Procs, InitWorkPool(p) PROVE StageInv'
  BY <1>0, <1>4, AfterPutFacts DEF InitWorkPool, At, Goto, scene
<1>5. ASSUME NEW p \in Procs, Hop(p) PROVE StageInv'
  BY <1>0, <1>5 DEF Hop
<1>6. ASSUME NEW p \in Procs, PutJob(p) PROVE StageInv'
  BY <1>0, <1>6, AfterPutFacts DEF PutJob, At, Goto, scene
<1>7. ASSUME NEW p \in Procs, Look(p) PROVE StageInv'
  <2>1. CASE Goto(p, "get") /\ UNCHANGED i
    BY <1>0, <1>7, <2>1 DEF Look, At, Goto, scene
  <2>2. CASE NextPool(p)
    BY <1>0, <1>7, <2>2, NextPoolFacts DEF Look, At, scene
  <2> QED BY <1>7, <2>1, <2>2 DEF Look
<1>8. ASSUME NEW p \in Procs, GetJob(p) PROVE StageInv'
  <2>1. CASE NextPool(p) /\ wpstat' = [wpstat EXCEPT ![i[p]] = "WPS_EMPTY"]
    BY <1>0, <1>8, <2>1, NextPoolFacts DEF GetJob, At, scene
  <2>2. CASE Goto(p, "free") /\ UNCHANGED <<wpstat, i>>
    BY <1>0, <1>8, <2>2 DEF GetJob, At, Goto, scene
  <2> QED BY <1>8, <2>1, <2>2 DEF GetJob
<1>9. ASSUME NEW p \in Procs, RayTrace(p) PROVE StageInv'
  BY <1>0, <1>9 DEF RayTrace, At, Goto, scene
<1> QED BY <1>0, <1>1, <1>2, <1>3, <1>4, <1>5, <1>6, <1>7, <1>8, <1>9, StepCases

LEMMA PoolStep ==
    ASSUME IInv, [Next]_vars
    PROVE  PoolInv'
<1> USE DEF PoolInv, Filling, Tracing
<1>0. PoolInv /\ StageInv
  BY DEF IInv
<1>1. CASE Idle
  BY <1>0, <1>1 DEF Idle
<1>2. CASE Create
  BY <1>0, <1>2 DEF Create, MainAlone, At, scene
<1>3. CASE Barrier
  BY <1>0, <1>3 DEF Barrier, At, scene
<1>4. ASSUME NEW p \in Procs, InitWorkPool(p) PROVE PoolInv'
  <2>1. IsStack(<<>>)
    BY DEF IsStack
  <2>2. workpool' = [workpool EXCEPT ![p] = <<>>] /\ wpstat' = [wpstat EXCEPT ![p] = "WPS_VALID"]
    BY <1>4 DEF InitWorkPool
  <2>3. pc[p] = "init" /\ \E l \in {"alloc", "barrier"} : pc' = [pc EXCEPT ![p] = l]
    BY <1>4, AfterPutFacts DEF InitWorkPool, At, Goto
  <2> QED BY <2>1, <2>2, <2>3, <1>0 DEF StageInv
<1>5. ASSUME NEW p \in Procs, Hop(p) PROVE PoolInv'
  BY <1>0, <1>5 DEF Hop, StageInv
<1>6. ASSUME NEW p \in Procs, PutJob(p) PROVE PoolInv'
  <2> DEFINE e == [node |-> node[p], rect |-> Bundles(todo[p].block)[todo[p].bundle]]
             t == <<e>> \o workpool[p]
  <2>1. /\ workpool' = [workpool EXCEPT ![p] = t] /\ UNCHANGED wpstat
        /\ pc[p] = "put" /\ \E l \in {"alloc", "barrier"} : pc' = [pc EXCEPT ![p] = l]
    BY <1>6, AfterPutFacts DEF PutJob, At, Goto
  <2>2. IsStack(t)
    <3>1. todo[p].block \in DOMAIN Blocks /\ todo[p].bundle \in DOMAIN Bundles(todo[p].block)
      BY <2>1 DEF IInv, TodoInv
    <3>2. e.rect \in Rects /\ Within(e.rect)
      BY <3>1, BundlesFacts
    <3>3. IsStack(workpool[p])
      BY <1>0
    <3> HIDE DEF e
    <3> QED BY <3>2, <3>3, Push
  <2>3. wpstat[p] = "WPS_VALID"
    BY <1>0, <2>1
  <2> HIDE DEF t
  <2> QED BY <1>0, <2>1, <2>2, <2>3 DEF StageInv
<1>7. ASSUME NEW p \in Procs, Look(p) PROVE PoolInv'
  <2>1. /\ UNCHANGED <<workpool, wpstat>>
        /\ pc[p] = "look" /\ \E l \in {"get", "done", "look"} : pc' = [pc EXCEPT ![p] = l]
    BY <1>0, <1>7, NextPoolFacts DEF Look, At, Goto
  <2> QED BY <1>0, <2>1 DEF StageInv
<1>8. ASSUME NEW p \in Procs, GetJob(p) PROVE PoolInv'
  <2>0. i[p] \in Procs /\ pc[p] = "get"
    BY <1>0, <1>8 DEF GetJob, At, StageInv
  <2>1. CASE workpool[i[p]] = <<>>
    <3>1. /\ UNCHANGED workpool /\ wpstat' = [wpstat EXCEPT ![i[p]] = "WPS_EMPTY"]
          /\ \E l \in {"done", "look"} : pc' = [pc EXCEPT ![p] = l]
      BY <1>0, <1>8, <2>1, NextPoolFacts DEF GetJob
    <3>2. pc \in [Procs -> Tracing]
      BY <1>0, <2>0 DEF StageInv
    <3> QED BY <1>0, <2>0, <2>1, <3>1, <3>2 DEF StageInv
  <2>2. CASE workpool[i[p]] # <<>>
    <3> DEFINE t == Tail(workpool[i[p]])
    <3>1. /\ workpool' = [workpool EXCEPT ![i[p]] = t] /\ UNCHANGED wpstat
          /\ pc' = [pc EXCEPT ![p] = "free"]
      BY <1>8, <2>2 DEF GetJob, Goto
    <3>2. IsStack(t)
      BY <1>0, <2>0, <2>2, Pop
    <3>3. pc \in [Procs -> Tracing] /\ wpstat[i[p]] # "WPS_EMPTY"
      BY <1>0, <2>0, <2>2 DEF StageInv
    <3> HIDE DEF t
    <3> QED BY <1>0, <2>0, <3>1, <3>2, <3>3 DEF StageInv
  <2> QED BY <2>1, <2>2
<1>9. ASSUME NEW p \in Procs, RayTrace(p) PROVE PoolInv'
  <2>1. /\ UNCHANGED <<workpool, wpstat>>
        /\ pc[p] = "trace" /\ \E l \in {"look", "trace"} : pc' = [pc EXCEPT ![p] = l]
    BY <1>0, <1>9 DEF RayTrace, At, Goto, StageInv
  <2> QED BY <1>0, <2>1 DEF StageInv
<1> QED BY <1>0, <1>1, <1>2, <1>3, <1>4, <1>5, <1>6, <1>7, <1>8, <1>9, StepCases

LEMMA TodoStep ==
    ASSUME IInv, [Next]_vars
    PROVE  TodoInv'
<1> USE DEF TodoInv, Filling, Tracing
<1>0. TodoInv /\ StageInv
  BY DEF IInv
<1>1. CASE Idle
  BY <1>0, <1>1 DEF Idle
<1>2. CASE Create
  BY <1>0, <1>2 DEF Create, MainAlone, At, scene
<1>3. CASE Barrier
  BY <1>0, <1>3 DEF Barrier, At, scene
<1>10. PICK l \in Nat : DOMAIN Blocks = 1 .. l /\ Len(Blocks) = l
  BY BlocksFacts
\* Where a process is after it has put a bundle, or begun.
<1>11. ASSUME NEW p \in Procs, NEW at \in [block : Nat, bundle : Nat],
              todo' = [todo EXCEPT ![p] = at], pc' = [pc EXCEPT ![p] = AfterPut(at)],
              at.block > 0,
              at.block \in DOMAIN Blocks => at.bundle \in DOMAIN Bundles(at.block),
              (at.block - 1) % nprocs = p
       PROVE  TodoInv'
  <2>1. CASE at.block \in DOMAIN Blocks
    <3>1. AfterPut(at) = "alloc"
      BY <2>1 DEF AfterPut
    <3> QED BY <1>0, <1>11, <2>1, <3>1 DEF StageInv
  <2>2. CASE at.block \notin DOMAIN Blocks
    <3>1. AfterPut(at) = "barrier" /\ at.block > Len(Blocks)
      BY <1>10, <1>11, <2>2 DEF AfterPut
    <3> QED BY <1>0, <1>11, <3>1 DEF StageInv
  <2> QED BY <2>1, <2>2
<1>4. ASSUME NEW p \in Procs, InitWorkPool(p) PROVE TodoInv'
  <2> DEFINE at == FirstJob(p)
  <2>1. /\ todo' = [todo EXCEPT ![p] = at] /\ pc' = [pc EXCEPT ![p] = AfterPut(at)]
        /\ at \in [block : Nat, bundle : Nat] /\ at.block = p + 1 /\ at.bundle = 1
    BY <1>4, ProcsFacts DEF InitWorkPool, Goto, FirstJob
  <2>2. (at.block - 1) % nprocs = p
    <3>1. nprocs * 0 + p = (p + 1) - 1 /\ p \in 0 .. nprocs - 1
      BY ProcsFacts
    <3>2. (nprocs * 0 + p) % nprocs = p
      BY <3>1, ProcsFacts, DivisionUnique
    <3> QED BY <2>1, <3>1, <3>2
  <2>3. at.block \in DOMAIN Blocks => at.bundle \in DOMAIN Bundles(at.block)
    BY <2>1, FirstBundle
  <2> HIDE DEF at
  <2>4. at.block > 0
    BY <2>1, ProcsFacts
  <2> QED BY <1>11, <2>1, <2>2, <2>3, <2>4
<1>5. ASSUME NEW p \in Procs, Hop(p) PROVE TodoInv'
  BY <1>0, <1>5 DEF Hop, StageInv
<1>6. ASSUME NEW p \in Procs, PutJob(p) PROVE TodoInv'
  <2> DEFINE now == todo[p]
             at  == NextJob(now)
  <2>1. pc[p] = "put" /\ todo' = [todo EXCEPT ![p] = at] /\ pc' = [pc EXCEPT ![p] = AfterPut(at)]
    BY <1>6 DEF PutJob, At, Goto
  <2>2. /\ now \in [block : Nat, bundle : Nat] /\ now.block \in DOMAIN Blocks
        /\ now.bundle \in DOMAIN Bundles(now.block) /\ (now.block - 1) % nprocs = p
    BY <1>0, <2>1
  <2> HIDE DEF now
  <2>3. PICK k \in Nat : DOMAIN Bundles(now.block) = 1 .. k /\ Len(Bundles(now.block)) = k
    BY <2>2, BundlesFacts
  <2>4. CASE now.bundle < Len(Bundles(now.block))
    <3>1. at = [now EXCEPT !.bundle = now.bundle + 1]
      BY <2>4 DEF NextJob
    <3>2. at \in [block : Nat, bundle : Nat] /\ at.block = now.block /\ at.bundle = now.bundle + 1
      BY <2>2, <3>1
    <3> HIDE DEF at
    <3>3. at.bundle \in DOMAIN Bundles(at.block) /\ at.block > 0
      BY <1>10, <2>2, <2>3, <2>4, <3>2
    <3> QED BY <1>11, <2>1, <2>2, <3>2, <3>3
  <2>5. CASE ~(now.bundle < Len(Bundles(now.block)))
    <3>1. at = [block |-> now.block + nprocs, bundle |-> 1]
      BY <2>5 DEF NextJob
    <3>2. at \in [block : Nat, bundle : Nat] /\ at.block = now.block + nprocs /\ at.bundle = 1
      BY <2>2, <3>1, ProcsFacts
    <3> HIDE DEF at
    <3>3. at.block \in DOMAIN Blocks => at.bundle \in DOMAIN Bundles(at.block)
      BY <3>2, FirstBundle
    <3>4. (at.block - 1) % nprocs = p
      BY <1>10, <2>2, <3>2, ProcsFacts, NextTurn
    <3>5. at.block > 0
      BY <1>10, <2>2, <3>2, ProcsFacts
    <3> QED BY <1>11, <2>1, <3>2, <3>3, <3>4, <3>5
  <2> QED BY <2>4, <2>5
<1>7. ASSUME NEW p \in Procs, Look(p) PROVE TodoInv'
  <2>1. /\ UNCHANGED todo
        /\ pc[p] = "look" /\ \E m \in {"get", "done", "look"} : pc' = [pc EXCEPT ![p] = m]
    BY <1>0, <1>7, NextPoolFacts DEF Look, At, Goto
  <2> QED BY <1>0, <2>1 DEF StageInv
<1>8. ASSUME NEW p \in Procs, GetJob(p) PROVE TodoInv'
  <2>1. /\ UNCHANGED todo
        /\ pc[p] = "get" /\ \E m \in {"free", "done", "look"} : pc' = [pc EXCEPT ![p] = m]
    BY <1>0, <1>8, NextPoolFacts DEF GetJob, At, Goto
  <2> QED BY <1>0, <2>1 DEF StageInv
<1>9. ASSUME NEW p \in Procs, RayTrace(p) PROVE TodoInv'
  <2>1. /\ UNCHANGED todo
        /\ pc[p] = "trace" /\ \E m \in {"look", "trace"} : pc' = [pc EXCEPT ![p] = m]
    BY <1>0, <1>9 DEF RayTrace, At, Goto, StageInv
  <2> QED BY <1>0, <2>1 DEF StageInv
<1> QED BY <1>0, <1>1, <1>2, <1>3, <1>4, <1>5, <1>6, <1>7, <1>8, <1>9, StepCases

LEMMA JobStep ==
    ASSUME IInv, [Next]_vars
    PROVE  JobInv'
<1> USE DEF JobInv, Tracing
<1>0. JobInv /\ StageInv
  BY DEF IInv
<1>1. CASE Idle
  BY <1>0, <1>1 DEF Idle, Current
<1>2. CASE Create
  BY <1>0, <1>2 DEF Create, MainAlone, At, scene
<1>3. CASE Barrier
  BY <1>0, <1>3 DEF Barrier, At, scene
<1>4. ASSUME NEW p \in Procs, InitWorkPool(p) PROVE JobInv'
  BY <1>0, <1>4, AfterPutFacts DEF InitWorkPool, At, Goto, StageInv
<1>5. ASSUME NEW p \in Procs, Hop(p) PROVE JobInv'
  BY <1>0, <1>5 DEF Hop, StageInv
<1>6. ASSUME NEW p \in Procs, PutJob(p) PROVE JobInv'
  BY <1>0, <1>6, AfterPutFacts DEF PutJob, At, Goto, StageInv
<1>7. ASSUME NEW p \in Procs, Look(p) PROVE JobInv'
  <2>1. /\ UNCHANGED job
        /\ pc[p] = "look" /\ \E m \in {"get", "done", "look"} : pc' = [pc EXCEPT ![p] = m]
    BY <1>0, <1>7, NextPoolFacts DEF Look, At, Goto
  <2> QED BY <1>0, <2>1 DEF StageInv
<1>8. ASSUME NEW p \in Procs, GetJob(p) PROVE JobInv'
  <2>0. i[p] \in Procs /\ pc[p] = "get"
    BY <1>0, <1>8 DEF GetJob, At, StageInv
  <2>1. CASE workpool[i[p]] = <<>>
    <3>1. UNCHANGED job /\ \E m \in {"done", "look"} : pc' = [pc EXCEPT ![p] = m]
      BY <1>0, <1>8, <2>1, NextPoolFacts DEF GetJob
    <3> QED BY <1>0, <2>0, <3>1 DEF StageInv
  <2>2. CASE workpool[i[p]] # <<>>
    <3> DEFINE r == Head(workpool[i[p]]).rect
               j == [xpix |-> r.xpix, ypix |-> r.ypix, xdim |-> r.xdim, ydim |-> r.ydim,
                     xcurr |-> r.xpix, ycurr |-> r.ypix]
    <3>1. job' = [job EXCEPT ![p] = j] /\ pc' = [pc EXCEPT ![p] = "free"]
      BY <1>8, <2>2 DEF GetJob, Goto
    <3>2. r \in Rects /\ Within(r)
      BY <2>0, <2>2, Pop DEF IInv, PoolInv
    <3> HIDE DEF r
    <3>3. j \in Jobs /\ j.xdim > 0 /\ j.ydim > 0 /\ Within(j) /\ Current(j)
      BY <3>2 DEF Jobs, Rects, Within, Current
    <3> HIDE DEF j
    <3> QED BY <1>0, <3>1, <3>3 DEF StageInv
  <2> QED BY <2>1, <2>2
<1>9. ASSUME NEW p \in Procs, RayTrace(p) PROVE JobInv'
  <2> DEFINE j == job[p]
  <2>1. /\ pc[p] = "trace" /\ j \in Jobs
        /\ j.xdim > 0 /\ j.ydim > 0 /\ Within(j) /\ Current(j)
    BY <1>0, <1>9 DEF RayTrace, At
  <2>2. CASE j.ypix + j.ydim = j.ycurr
    <3>1. NoJob \in Jobs
      BY DEF NoJob, Jobs
    <3>2. job' = [job EXCEPT ![p] = NoJob] /\ pc' = [pc EXCEPT ![p] = "look"]
      BY <1>9, <2>2 DEF RayTrace, Goto
    <3> QED BY <1>0, <3>1, <3>2 DEF StageInv
  <2>3. CASE j.ypix + j.ydim # j.ycurr
    <3> DEFINE k == IF j.xcurr + 1 = j.xpix + j.xdim
                    THEN [j EXCEPT !.xcurr = j.xpix, !.ycurr = @ + 1]
                    ELSE [j EXCEPT !.xcurr = @ + 1]
    <3>1. job' = [job EXCEPT ![p] = k] /\ UNCHANGED pc
      BY <1>9, <2>3 DEF RayTrace
    <3> HIDE DEF j
    <3>2. k \in Jobs /\ k.xdim > 0 /\ k.ydim > 0 /\ Within(k) /\ Current(k)
      <4>1. CASE j.xcurr + 1 = j.xpix + j.xdim
        <5>1. k = [j EXCEPT !.xcurr = j.xpix, !.ycurr = j.ycurr + 1]
          BY <4>1
        <5> HIDE DEF k
        <5>2. /\ k.xpix = j.xpix /\ k.ypix = j.ypix /\ k.xdim = j.xdim /\ k.ydim = j.ydim
              /\ k.xcurr = j.xpix /\ k.ycurr = j.ycurr + 1 /\ k \in Jobs
          <6>1. /\ j = [xpix |-> j.xpix, ypix |-> j.ypix, xdim |-> j.xdim, ydim |-> j.ydim,
                        xcurr |-> j.xcurr, ycurr |-> j.ycurr]
                /\ j.xpix \in Nat /\ j.ypix \in Nat /\ j.xdim \in Nat /\ j.ydim \in Nat
                /\ j.ycurr \in Nat
            BY <2>1 DEF Jobs
          <6>2. k = [xpix |-> j.xpix, ypix |-> j.ypix, xdim |-> j.xdim, ydim |-> j.ydim,
                     xcurr |-> j.xpix, ycurr |-> j.ycurr + 1]
            BY <5>1, <6>1
          <6> QED BY <6>1, <6>2 DEF Jobs
        <5> QED BY <5>2, <2>1, <2>3 DEF Jobs, Within, Current
      <4>2. CASE j.xcurr + 1 # j.xpix + j.xdim
        <5>1. k = [j EXCEPT !.xcurr = j.xcurr + 1]
          BY <4>2
        <5> HIDE DEF k
        <5>2. /\ k.xpix = j.xpix /\ k.ypix = j.ypix /\ k.xdim = j.xdim /\ k.ydim = j.ydim
              /\ k.xcurr = j.xcurr + 1 /\ k.ycurr = j.ycurr /\ k \in Jobs
          BY <5>1, <2>1 DEF Jobs
        <5> QED BY <5>2, <4>2, <2>1, <2>3 DEF Jobs, Within, Current
      <4> QED BY <4>1, <4>2
    <3> HIDE DEF k
    <3> QED BY <1>0, <2>1, <3>1, <3>2 DEF StageInv
  <2> QED BY <2>2, <2>3
<1> QED BY <1>0, <1>1, <1>2, <1>3, <1>4, <1>5, <1>6, <1>7, <1>8, <1>9, StepCases

\* One more pool has been passed, or all of them.
LEMMA PassedOneMore ==
    ASSUME StageInv, NEW p \in Procs, NextPool(p)
    PROVE  /\ i'[p] # p => Passed(p)' \subseteq Passed(p) \cup {i[p]}
           /\ i'[p] = p => Procs \subseteq Passed(p) \cup {i[p]}
           /\ \A q \in Procs \ {p} : Passed(q)' = Passed(q)
<1> DEFINE m == i[p]
           n == i'[p]
<1>1. /\ m \in Procs /\ n \in Procs /\ i' = [i EXCEPT ![p] = n] /\ i \in [Procs -> Procs]
      /\ n = (IF m = nprocs - 1 THEN 0 ELSE m + 1)
  BY NextPoolFacts DEF StageInv
<1> HIDE DEF m, n, NextPool
<1>2. \A q \in Procs \ {p} : i'[q] = i[q]
  BY <1>1
<1>3. Passed(p)' = IF n >= p THEN {q \in Procs : p <= q /\ q < n} ELSE {q \in Procs : p <= q \/ q < n}
  BY DEF Passed, n
<1>4. Passed(p) = IF m >= p THEN {q \in Procs : p <= q /\ q < m} ELSE {q \in Procs : p <= q \/ q < m}
  BY DEF Passed, m
<1>5. \A q \in Procs \ {p} : Passed(q)' = Passed(q)
  BY <1>2 DEF Passed
<1>6. ASSUME n # p, NEW x \in Passed(p)' PROVE x \in Passed(p) \cup {m}
  <2>1. x \in Procs /\ x \in Nat /\ x < nprocs /\ m \in Nat /\ p \in Nat /\ m < nprocs
    BY <1>1, <1>3, <1>6, ProcsFacts
  <2>2. CASE m = nprocs - 1
    BY <2>1, <2>2, <1>1, <1>3, <1>4, <1>6, ProcsFacts
  <2>3. CASE m # nprocs - 1 /\ m >= p
    BY <2>1, <2>3, <1>1, <1>3, <1>4, <1>6, ProcsFacts
  <2>4. CASE m # nprocs - 1 /\ ~(m >= p)
    BY <2>1, <2>4, <1>1, <1>3, <1>4, <1>6, ProcsFacts
  <2> QED BY <2>2, <2>3, <2>4
<1>7. n = p => Procs \subseteq Passed(p) \cup {m}
  BY <1>1, <1>4, ProcsFacts
<1> QED BY <1>5, <1>6, <1>7 DEF m, n

LEMMA RoundStep ==
    ASSUME IInv, [Next]_vars
    PROVE  RoundInv'
<1> USE DEF RoundInv, Tracing
<1>0. RoundInv /\ StageInv
  BY DEF IInv
<1>1. CASE Idle
  BY <1>0, <1>1 DEF Idle, Passed
<1>2. CASE Create
  BY <1>0, <1>2 DEF Create, MainAlone, At, scene
<1>10. ASSUME \A p \in Procs : pc[p] \notin Tracing, \A p \in Procs : pc'[p] \notin Tracing, UNCHANGED i
       PROVE  RoundInv'
  BY <1>0, <1>10
<1>3. CASE Barrier
  <2>1. /\ pc' = [p \in Procs |-> "look"] /\ UNCHANGED <<i, workpool>>
        /\ \A p \in Procs : pc[p] = "barrier"
    BY <1>3 DEF Barrier, At
  <2>2. ASSUME NEW p \in Procs PROVE i[p] = p
    BY <1>0, <2>1
  <2>3. ASSUME NEW p \in Procs PROVE Passed(p)' = {}
    BY <2>1, <2>2, ProcsFacts DEF Passed
  <2> QED BY <2>1, <2>3
<1>4. ASSUME NEW p \in Procs, InitWorkPool(p) PROVE RoundInv'
  BY <1>0, <1>4, <1>10, AfterPutFacts DEF InitWorkPool, At, Goto, StageInv, Filling
<1>6. ASSUME NEW p \in Procs, PutJob(p) PROVE RoundInv'
  BY <1>0, <1>6, <1>10, AfterPutFacts DEF PutJob, At, Goto, StageInv, Filling
<1>5. ASSUME NEW p \in Procs, Hop(p) PROVE RoundInv'
  BY <1>0, <1>5 DEF Hop, StageInv, Passed
<1>11. ASSUME NEW p \in Procs, NextPool(p), UNCHANGED workpool, workpool[i[p]] = <<>>, pc[p] \in {"look", "get"}
       PROVE  RoundInv'
  <2>1. /\ i'[p] # p => Passed(p)' \subseteq Passed(p) \cup {i[p]}
        /\ i'[p] = p => Procs \subseteq Passed(p) \cup {i[p]}
        /\ \A q \in Procs \ {p} : Passed(q)' = Passed(q)
    BY <1>0, <1>11, PassedOneMore
  <2>2. pc' = [pc EXCEPT ![p] = IF i'[p] = p THEN "done" ELSE "look"]
    BY <1>0, <1>11, NextPoolFacts
  <2>3. \A q \in Procs \ {p} : pc'[q] = pc[q]
    BY <2>2, <1>0 DEF StageInv
  <2>4. pc'[p] = IF i'[p] = p THEN "done" ELSE "look"
    BY <2>2, <1>0 DEF StageInv
  <2>5. \A q \in Passed(p) \cup {i[p]} : workpool[q] = <<>>
    BY <1>0, <1>11
  <2>6. ASSUME pc'[p] \in {"look", "get"}, NEW q \in Passed(p)' PROVE workpool'[q] = <<>>
    BY <1>11, <2>1, <2>4, <2>5, <2>6
  <2>7. ASSUME pc'[p] = "done", NEW q \in Procs PROVE workpool'[q] = <<>>
    BY <1>11, <2>1, <2>4, <2>5, <2>7
  <2> HIDE DEF NextPool
  <2>8. ASSUME NEW q \in Procs
        PROVE  /\ pc'[q] \notin Tracing => i'[q] = q
               /\ pc'[q] \in {"look", "get"} => \A r \in Passed(q)' : workpool'[r] = <<>>
               /\ pc'[q] = "done" => \A r \in Procs : workpool'[r] = <<>>
    <3>1. CASE q = p
      BY <3>1, <2>4, <2>6, <2>7
    <3>2. CASE q # p
      <4>1. i'[q] = i[q]
        BY <3>2, <1>0, <1>11, NextPoolFacts DEF StageInv
      <4>2. pc'[q] = pc[q] /\ Passed(q)' = Passed(q) /\ workpool' = workpool
        BY <3>2, <1>11, <2>1, <2>3
      <4> QED BY <4>1, <4>2, <1>0
    <3> QED BY <3>1, <3>2
  <2> QED BY <2>8
<1>7. ASSUME NEW p \in Procs, Look(p) PROVE RoundInv'
  <2>1. CASE wpstat[i[p]] = "WPS_VALID"
    <3>1. UNCHANGED <<i, workpool>> /\ pc[p] = "look" /\ pc' = [pc EXCEPT ![p] = "get"]
      BY <1>7, <2>1 DEF Look, At, Goto
    <3> QED BY <1>0, <3>1 DEF StageInv, Passed
  <2>2. CASE wpstat[i[p]] # "WPS_VALID"
    <3>1. NextPool(p) /\ UNCHANGED workpool /\ pc[p] = "look"
      BY <1>7, <2>2 DEF Look, At
    <3>2. workpool[i[p]] = <<>>
      BY <1>0, <2>2 DEF IInv, PoolInv, StageInv
    <3> QED BY <1>11, <3>1, <3>2
  <2> QED BY <2>1, <2>2
<1>8. ASSUME NEW p \in Procs, GetJob(p) PROVE RoundInv'
  <2>1. CASE workpool[i[p]] = <<>>
    <3>1. NextPool(p) /\ UNCHANGED workpool /\ pc[p] = "get"
      BY <1>8, <2>1 DEF GetJob, At
    <3> QED BY <1>11, <2>1, <3>1
  <2>2. CASE workpool[i[p]] # <<>>
    <3>1. /\ UNCHANGED i /\ pc[p] = "get" /\ pc' = [pc EXCEPT ![p] = "free"]
          /\ workpool' = [workpool EXCEPT ![i[p]] = Tail(@)] /\ i[p] \in Procs
      BY <1>0, <1>8, <2>2 DEF GetJob, At, Goto, StageInv
    <3>2. \A q \in Procs : workpool[q] = <<>> => workpool'[q] = <<>>
      BY <2>2, <3>1 DEF IInv, PoolInv
    <3> QED BY <1>0, <3>1, <3>2 DEF StageInv, Passed
  <2> QED BY <2>1, <2>2
<1>9. ASSUME NEW p \in Procs, RayTrace(p) PROVE RoundInv'
  <2>1. CASE UNCHANGED <<i, pc>>
    BY <1>0, <1>9, <2>1 DEF RayTrace, Passed
  <2>2. CASE i' = [i EXCEPT ![p] = p] /\ pc' = [pc EXCEPT ![p] = "look"]
    <3>1. UNCHANGED workpool
      BY <1>9 DEF RayTrace
    <3>2. Passed(p)' = {} /\ \A q \in Procs \ {p} : Passed(q)' = Passed(q)
      BY <1>0, <2>2, ProcsFacts DEF StageInv, Passed
    <3> QED BY <1>0, <2>2, <3>1, <3>2 DEF StageInv
  <2> QED BY <1>9, <2>1, <2>2 DEF RayTrace, Goto
<1> QED BY <1>0, <1>1, <1>2, <1>3, <1>4, <1>5, <1>6, <1>7, <1>8, <1>9, StepCases
-----------------------------------------------------------------------------
(* A pixel's bundle stays where it is, or moves on by one place.           *)
LEMMA PlaceCases ==
    ASSUME NEW v \in Places
    PROVE  /\ v = <<v[1], v[2], v[3]>> /\ v[2] \in Procs /\ v[3] \in Nat
           /\ v[1] \in {"todo", "pool", "job"}
  BY DEF Places

LEMMA PlaceFacts ==
    \A p \in Procs : \A h \in Nat : /\ <<"todo", p, h>> \in Places /\ <<"pool", p, h>> \in Places
                                    /\ <<"job", p, h>> \in Places
  BY DEF Places

LEMMA Stays ==
    ASSUME NEW px \in Pixels, Once(px), frame'[px] = frame[px],
           picture'[px] = picture[px] \/ \E v \in Places : Lies(px, v),
           \A p \in Procs : ToPut(p, px)' <=> ToPut(p, px),
           \A p \in Procs : \A h \in Nat : InPool(p, h, px)' <=> InPool(p, h, px),
           \A p \in Procs : ToTrace(p, px)' <=> ToTrace(p, px)
    PROVE  Once(px)'
<1>1. \A v \in Places : Lies(px, v)' <=> Lies(px, v)
  BY PlaceCases DEF Lies
<1>2. CASE frame[px] = <<>> /\ \E w \in Places : \A v \in Places : Lies(px, v) <=> v = w
  <2>1. PICK w \in Places : \A v \in Places : Lies(px, v) <=> v = w
    BY <1>2
  <2>2. \A v \in Places : Lies(px, v)' <=> v = w
    BY <1>1, <2>1
  <2> QED BY <1>2, <2>2 DEF Once
<1>3. CASE frame[px] = <<picture[px]>> /\ \A v \in Places : ~Lies(px, v)
  <2>1. picture'[px] = picture[px]
    BY <1>3
  <2>2. \A v \in Places : ~Lies(px, v)'
    BY <1>1, <1>3
  <2> QED BY <1>3, <2>1, <2>2 DEF Once
<1> QED BY <1>2, <1>3 DEF Once

\* It has left w for u.
LEMMA Moves ==
    ASSUME NEW px \in Pixels, Once(px), frame'[px] = frame[px],
           NEW w \in Places, NEW u \in Places, Lies(px, w),
           \A v \in Places : Lies(px, v)' <=> (Lies(px, v) /\ v # w) \/ v = u
    PROVE  Once(px)'
<1>1. frame[px] = <<>> /\ \A v \in Places : Lies(px, v) <=> v = w
  BY DEF Once
<1>2. \A v \in Places : Lies(px, v)' <=> v = u
  BY <1>1
<1> QED BY <1>1, <1>2 DEF Once

LEMMA NoJobFacts == NoJob \in Jobs /\ \A px \in Pixels : ~Inside(NoJob, px)
<1>1. \A px \in Pixels : px[1] \in Nat
  BY WorkPoolAssumption DEF Pixels
<1> QED BY <1>1 DEF NoJob, Jobs, Inside

LEMMA OncePut ==
    ASSUME IInv, NEW p \in Procs, PutJob(p), NEW px \in Pixels
    PROVE  Once(px)'
<1> DEFINE b == todo[p].block
           k == todo[p].bundle
           n == Len(workpool[p])
           at == NextJob(todo[p])
           e == [node |-> node[p], rect |-> Bundles(b)[k]]
           t == <<e>> \o workpool[p]
           B == BlockOf(px)
           K == BundleOf(px)
           this == B = b /\ K = k
<1>0. StageInv /\ PoolInv /\ TodoInv /\ Once(px)
  BY DEF IInv
<1>1. /\ pc[p] = "put" /\ workpool' = [workpool EXCEPT ![p] = t] /\ todo' = [todo EXCEPT ![p] = at]
      /\ UNCHANGED <<picture, job, frame>>
  BY DEF PutJob, At, scene
<1>2. /\ b \in DOMAIN Blocks /\ k \in DOMAIN Bundles(b) /\ (b - 1) % nprocs = p
      /\ todo[p] \in [block : Nat, bundle : Nat]
  BY <1>0, <1>1 DEF TodoInv
<1>3. /\ B \in DOMAIN Blocks /\ K \in DOMAIN Bundles(B)
      /\ Inside(Bundles(b)[k], px) <=> this
  BY <1>2, JobOfPixel
<1>4. PICK l \in Nat : DOMAIN Blocks = 1 .. l
  BY BlocksFacts
<1>5. PICK m \in Nat : DOMAIN Bundles(b) = 1 .. m /\ Len(Bundles(b)) = m
  BY <1>2, BundlesFacts
<1>6. b \in Nat \ {0} /\ k \in Nat \ {0} /\ B \in Nat \ {0} /\ K \in Nat /\ k <= m /\ (B = b => K <= m)
  <2>1. PICK z \in Nat : DOMAIN Bundles(B) = 1 .. z
    BY <1>3, BundlesFacts
  <2> HIDE DEF b, k, B, K
  <2> QED BY <1>2, <1>3, <1>4, <1>5, <2>1
\* The bundle of px is the one put, or as near as before.
<1>7. ToPut(p, px)' <=> ToPut(p, px) /\ ~this
  <2>1. todo'[p] = at
    BY <1>0, <1>1 DEF TodoInv
  <2>2. CASE k < m
    <3>1. at.block = b /\ at.bundle = k + 1
      <4>1. at = [todo[p] EXCEPT !.bundle = k + 1]
        BY <2>2, <1>5 DEF NextJob
      <4> QED BY <4>1, <1>2
    <3> HIDE DEF b, k, at, B, K
    <3>2. b < B \/ (b = B /\ k + 1 <= K) <=> (b < B \/ (b = B /\ k <= K)) /\ ~(B = b /\ K = k)
      BY <1>6
    <3> QED BY <2>1, <3>1, <3>2 DEF ToPut, b, k, B, K
  <2>3. CASE ~(k < m)
    <3>1. at.block = b + nprocs /\ at.bundle = 1
      BY <2>3, <1>5 DEF NextJob
    <3>2. ASSUME (B - 1) % nprocs = p, B > b PROVE B >= b + nprocs
      <4> HIDE DEF b, B
      <4> QED BY <3>2, <1>2, <1>6, ProcsFacts, NextTurn
    <3>3. K >= 1
      <4>1. PICK z \in Nat : DOMAIN Bundles(B) = 1 .. z
        BY <1>3, BundlesFacts
      <4> HIDE DEF B, K
      <4> QED BY <1>3, <4>1
    <3> HIDE DEF b, k, at, B, K
    <3>4. ASSUME (B - 1) % nprocs = p
          PROVE  b + nprocs < B \/ (b + nprocs = B /\ 1 <= K)
                 <=> (b < B \/ (b = B /\ k <= K)) /\ ~(B = b /\ K = k)
      BY <3>2, <3>3, <3>4, <1>6, <2>3, ProcsFacts
    <3> QED BY <2>1, <3>1, <3>4 DEF ToPut, b, k, B, K
  <2> QED BY <2>2, <2>3
<1>8. /\ n \in Nat /\ Len(t) = n + 1 /\ t[1] = e
      /\ \A h \in 1 .. n : t[Len(t) + 1 - h] = workpool[p][n + 1 - h]
  <2>1. e.rect \in Rects /\ Within(e.rect)
    BY <1>2, BundlesFacts
  <2>2. IsStack(workpool[p])
    BY <1>0 DEF PoolInv
  <2>3. n \in Nat
    BY <2>2 DEF IsStack
  <2> HIDE DEF e
  <2> QED BY <2>1, <2>2, <2>3, Push
<1>9. ASSUME NEW h \in Nat
      PROVE  InPool(p, h, px)' <=> InPool(p, h, px) \/ (h = n + 1 /\ this)
  <2>1. workpool'[p] = t
    BY <1>0, <1>1 DEF PoolInv
  <2>2. CASE h \in 1 .. n
    <3>1. t[Len(t) + 1 - h] = workpool[p][n + 1 - h] /\ h \in 1 .. Len(t)
      <4> HIDE DEF t, n
      <4> QED BY <1>8, <2>2
    <3>2. InPool(p, h, px)' <=> h \in 1 .. Len(t) /\ Inside(t[Len(t) + 1 - h].rect, px)
      BY <2>1 DEF InPool
    <3> HIDE DEF t
    <3> QED BY <1>8, <3>1, <3>2, <2>2 DEF InPool
  <2>3. CASE h = n + 1
    <3>1. Len(t) + 1 - h = 1 /\ h \in 1 .. Len(t) /\ h \notin 1 .. n
      <4> HIDE DEF t, n
      <4> QED BY <1>8, <2>3
    <3>2. InPool(p, h, px)' <=> h \in 1 .. Len(t) /\ Inside(t[Len(t) + 1 - h].rect, px)
      BY <2>1 DEF InPool
    <3>3. t[Len(t) + 1 - h].rect = Bundles(b)[k]
      <4> HIDE DEF t
      <4> QED BY <1>8, <3>1
    <3> HIDE DEF t
    <3> QED BY <1>3, <2>3, <3>1, <3>2, <3>3 DEF InPool
  <2>4. CASE h \notin 1 .. n /\ h # n + 1
    <3>1. h \notin 1 .. Len(t)
      <4> HIDE DEF t, n
      <4> QED BY <1>8, <2>4
    <3>2. InPool(p, h, px)' => h \in 1 .. Len(t)
      BY <2>1 DEF InPool
    <3> HIDE DEF t
    <3> QED BY <2>4, <3>1, <3>2 DEF InPool
  <2> QED BY <2>2, <2>3, <2>4
<1>10. /\ \A q \in Procs \ {p} : ToPut(q, px)' <=> ToPut(q, px)
       /\ \A q \in Procs \ {p} : \A h \in Nat : InPool(q, h, px)' <=> InPool(q, h, px)
       /\ \A q \in Procs : ToTrace(q, px)' <=> ToTrace(q, px)
  <2>1. \A q \in Procs \ {p} : todo'[q] = todo[q] /\ workpool'[q] = workpool[q]
    <3> HIDE DEF t, at
    <3> QED BY <1>0, <1>1 DEF PoolInv, TodoInv
  <2>2. \A q \in Procs \ {p} : ToPut(q, px)' <=> ToPut(q, px)
    BY <2>1 DEF ToPut
  <2>3. \A q \in Procs \ {p} : \A h \in Nat : InPool(q, h, px)' <=> InPool(q, h, px)
    BY <2>1 DEF InPool
  <2>4. \A q \in Procs : ToTrace(q, px)' <=> ToTrace(q, px)
    BY <1>1 DEF ToTrace
  <2> QED BY <2>2, <2>3, <2>4
<1>11. CASE ~this
  <2>1. \A q \in Procs : ToPut(q, px)' <=> ToPut(q, px)
    BY <1>7, <1>10, <1>11
  <2>2. \A q \in Procs : \A h \in Nat : InPool(q, h, px)' <=> InPool(q, h, px)
    BY <1>9, <1>10, <1>11
  <2> QED BY <1>0, <1>1, <1>10, <2>1, <2>2, Stays
<1>12. CASE this
  <2> DEFINE w == <<"todo", p, 0>>
             u == <<"pool", p, n + 1>>
  <2>1. w \in Places /\ u \in Places
    <3> HIDE DEF n
    <3>1. n + 1 \in Nat
      BY <1>8
    <3> QED BY <3>1, PlaceFacts
  <2>2. ToPut(p, px)
    <3>1. (B - 1) % nprocs = p /\ b = B /\ k <= K
      BY <1>2, <1>6, <1>12
    <3> QED BY <3>1 DEF ToPut
  <2>3. Lies(px, w)
    BY <2>2 DEF Lies
  <2>4. \A v \in Places : Lies(px, v)' <=> (Lies(px, v) /\ v # w) \/ v = u
    <3> SUFFICES ASSUME NEW v \in Places
                 PROVE  Lies(px, v)' <=> (Lies(px, v) /\ v # w) \/ v = u
      OBVIOUS
    <3> HIDE DEF this, n, b, k, B, K
    <3>1. v = <<v[1], v[2], v[3]>> /\ v[2] \in Procs /\ v[3] \in Nat /\ v[1] \in {"todo", "pool", "job"}
      BY PlaceCases
    <3>2. CASE v[1] = "todo"
      <4>1. /\ Lies(px, v)' <=> v[3] = 0 /\ ToPut(v[2], px)'
            /\ Lies(px, v) <=> v[3] = 0 /\ ToPut(v[2], px)
        BY <3>2 DEF Lies
      <4>2. v = w <=> v[2] = p /\ v[3] = 0
        BY <3>1, <3>2
      <4>3. v # u
        BY <3>2
      <4> QED BY <3>1, <4>1, <4>2, <4>3, <1>7, <1>10, <1>12, <2>2
    <3>3. CASE v[1] = "pool"
      <4>1. /\ Lies(px, v)' <=> InPool(v[2], v[3], px)'
            /\ Lies(px, v) <=> InPool(v[2], v[3], px)
        BY <3>3 DEF Lies
      <4>2. v = u <=> v[2] = p /\ v[3] = n + 1
        BY <3>1, <3>3
      <4>3. v # w
        BY <3>3
      <4> QED BY <3>1, <4>1, <4>2, <4>3, <1>9, <1>10, <1>12
    <3>4. CASE v[1] = "job"
      <4>1. /\ Lies(px, v)' <=> v[3] = 0 /\ ToTrace(v[2], px)'
            /\ Lies(px, v) <=> v[3] = 0 /\ ToTrace(v[2], px)
        BY <3>4 DEF Lies
      <4> QED BY <3>1, <3>4, <4>1, <1>10
    <3> QED BY <3>1, <3>2, <3>3, <3>4
  <2> HIDE DEF w, u
  <2> QED BY <1>0, <1>1, <2>1, <2>3, <2>4, Moves
<1> QED BY <1>11, <1>12

LEMMA OnceGet ==
    ASSUME IInv, NEW p \in Procs, GetJob(p), NEW px \in Pixels
    PROVE  Once(px)'
<1>0. StageInv /\ PoolInv /\ JobInv /\ Once(px)
  BY DEF IInv
<1>5. PICK q \in Procs : q = i[p]
  BY <1>0 DEF StageInv
<1> DEFINE s == workpool[q]
           n == Len(s)
           r == Head(s).rect
           j == [xpix |-> r.xpix, ypix |-> r.ypix, xdim |-> r.xdim, ydim |-> r.ydim,
                 xcurr |-> r.xpix, ycurr |-> r.ypix]
<1>1. pc[p] = "get" /\ UNCHANGED <<picture, todo, frame>>
  BY DEF GetJob, At, scene
<1>2. \A m \in Procs : ToPut(m, px)' <=> ToPut(m, px)
  BY <1>1 DEF ToPut
<1>3. CASE s = <<>>
  <2>1. UNCHANGED <<workpool, job>>
    BY <1>3, <1>5 DEF GetJob
  <2>2. /\ \A m \in Procs : \A h \in Nat : InPool(m, h, px)' <=> InPool(m, h, px)
        /\ \A m \in Procs : ToTrace(m, px)' <=> ToTrace(m, px)
    BY <2>1 DEF InPool, ToTrace
  <2> QED BY <1>0, <1>1, <1>2, <2>2, Stays
<1>4. CASE s # <<>>
  <2>1. workpool' = [workpool EXCEPT ![q] = Tail(s)] /\ job' = [job EXCEPT ![p] = j]
    BY <1>4, <1>5 DEF GetJob
  <2>2. /\ n \in Nat \ {0} /\ r \in Rects /\ r = s[1].rect /\ Len(Tail(s)) = n - 1
        /\ \A h \in 1 .. n - 1 : Tail(s)[Len(Tail(s)) + 1 - h] = s[n + 1 - h]
    <3>1. IsStack(s)
      BY <1>0, <1>1 DEF PoolInv
    <3> HIDE DEF s
    <3> QED BY <3>1, <1>4, Pop
  <2>3. workpool'[q] = Tail(s) /\ \A m \in Procs \ {q} : workpool'[m] = workpool[m]
    <3> HIDE DEF s
    <3> QED BY <1>0, <1>1, <2>1 DEF PoolInv
  <2>4. job'[p] = j /\ \A m \in Procs \ {p} : job'[m] = job[m]
    <3> HIDE DEF j
    <3> QED BY <1>0, <2>1 DEF JobInv
  <2>5. InPool(q, n, px) <=> Inside(r, px)
    <3>1. n + 1 - n = 1 /\ n \in 1 .. n
      <4> HIDE DEF n
      <4> QED BY <2>2
    <3>2. InPool(q, n, px) <=> Inside(s[n + 1 - n].rect, px)
      BY <3>1 DEF InPool
    <3> HIDE DEF n, s, r
    <3> QED BY <2>2, <3>1, <3>2
  <2>6. ASSUME NEW h \in Nat
        PROVE  InPool(q, h, px)' <=> InPool(q, h, px) /\ h # n
    <3>1. InPool(q, h, px)' <=> h \in 1 .. Len(Tail(s)) /\ Inside(Tail(s)[Len(Tail(s)) + 1 - h].rect, px)
      BY <2>3 DEF InPool
    <3>2. InPool(q, h, px) <=> h \in 1 .. n /\ Inside(s[n + 1 - h].rect, px)
      BY DEF InPool
    <3>3. h \in 1 .. Len(Tail(s)) <=> h \in 1 .. n /\ h # n
      <4> HIDE DEF n, s
      <4> QED BY <2>2
    <3>4. h \in 1 .. Len(Tail(s)) => h \in 1 .. n - 1
      <4> HIDE DEF n, s
      <4> QED BY <2>2
    <3> HIDE DEF n, s, r, j
    <3> QED BY <2>2, <3>1, <3>2, <3>3, <3>4
  <2>7. ToTrace(p, px)' <=> Inside(r, px)
    <3>1. ToTrace(p, px)' <=> /\ Inside(j, px)
                              /\ j.ycurr < px[2] \/ (j.ycurr = px[2] /\ j.xcurr <= px[1])
      BY <2>4 DEF ToTrace
    <3>2. px[1] \in Nat /\ px[2] \in Nat
      BY WorkPoolAssumption DEF Pixels
    <3> HIDE DEF r
    <3> QED BY <2>2, <3>1, <3>2 DEF Inside, Rects
  <2>8. ~ToTrace(p, px)
    <3>1. job[p] = NoJob
      BY <1>0, <1>1 DEF JobInv
    <3> QED BY <3>1, NoJobFacts DEF ToTrace
  <2>9. /\ \A m \in Procs \ {q} : \A h \in Nat : InPool(m, h, px)' <=> InPool(m, h, px)
        /\ \A m \in Procs \ {p} : ToTrace(m, px)' <=> ToTrace(m, px)
    BY <2>3, <2>4 DEF InPool, ToTrace
  <2>10. CASE ~Inside(r, px)
    <3>1. \A m \in Procs : \A h \in Nat : InPool(m, h, px)' <=> InPool(m, h, px)
      <4> HIDE DEF n, r
      <4> QED BY <2>5, <2>6, <2>9, <2>10
    <3>2. \A m \in Procs : ToTrace(m, px)' <=> ToTrace(m, px)
      BY <2>7, <2>8, <2>9, <2>10
    <3> QED BY <1>0, <1>1, <1>2, <3>1, <3>2, Stays
  <2>11. CASE Inside(r, px)
    <3> DEFINE w == <<"pool", q, n>>
               u == <<"job", p, 0>>
    <3> HIDE DEF n, r
    <3>1. w \in Places /\ u \in Places
      BY <1>1, <2>2, PlaceFacts
    <3>2. Lies(px, w)
      BY <2>5, <2>11 DEF Lies
    <3>3. ASSUME NEW v \in Places
          PROVE  Lies(px, v)' <=> (Lies(px, v) /\ v # w) \/ v = u
      <4>1. v = <<v[1], v[2], v[3]>> /\ v[2] \in Procs /\ v[3] \in Nat /\ v[1] \in {"todo", "pool", "job"}
        BY PlaceCases
      <4>2. CASE v[1] = "todo"
        <5>1. /\ Lies(px, v)' <=> v[3] = 0 /\ ToPut(v[2], px)'
              /\ Lies(px, v) <=> v[3] = 0 /\ ToPut(v[2], px)
          BY <4>2 DEF Lies
        <5> QED BY <4>1, <4>2, <5>1, <1>2
      <4>3. CASE v[1] = "pool"
        <5>1. /\ Lies(px, v)' <=> InPool(v[2], v[3], px)'
              /\ Lies(px, v) <=> InPool(v[2], v[3], px)
          BY <4>3 DEF Lies
        <5>2. v = w <=> v[2] = q /\ v[3] = n
          BY <4>1, <4>3
        <5>3. v # u
          BY <4>3
        <5> QED BY <4>1, <5>1, <5>2, <5>3, <2>6, <2>9
      <4>4. CASE v[1] = "job"
        <5>1. /\ Lies(px, v)' <=> v[3] = 0 /\ ToTrace(v[2], px)'
              /\ Lies(px, v) <=> v[3] = 0 /\ ToTrace(v[2], px)
          BY <4>4 DEF Lies
        <5>2. v = u <=> v[2] = p /\ v[3] = 0
          BY <4>1, <4>4
        <5>3. v # w
          BY <4>4
        <5> QED BY <4>1, <5>1, <5>2, <5>3, <2>7, <2>8, <2>9, <2>11
      <4> QED BY <4>1, <4>2, <4>3, <4>4
    <3> HIDE DEF w, u
    <3> QED BY <1>0, <1>1, <3>1, <3>2, <3>3, Moves
  <2> QED BY <2>10, <2>11
<1> QED BY <1>3, <1>4

LEMMA OnceTrace ==
    ASSUME IInv, NEW p \in Procs, RayTrace(p), NEW px \in Pixels
    PROVE  Once(px)'
<1> DEFINE j == job[p]
           c == <<j.xcurr, j.ycurr>>
<1>0. StageInv /\ JobInv /\ Once(px)
  BY DEF IInv
<1>1. /\ pc[p] = "trace" /\ UNCHANGED <<picture, todo, workpool>>
      /\ j \in Jobs /\ j.xdim > 0 /\ j.ydim > 0 /\ Within(j) /\ Current(j)
  BY <1>0 DEF RayTrace, At, scene, JobInv
<1>2. /\ \A m \in Procs : ToPut(m, px)' <=> ToPut(m, px)
      /\ \A m \in Procs : \A h \in Nat : InPool(m, h, px)' <=> InPool(m, h, px)
  BY <1>1 DEF ToPut, InPool
<1>3. px \in Nat \X Nat /\ px = <<px[1], px[2]>> /\ px[1] \in Nat /\ px[2] \in Nat
  BY WorkPoolAssumption DEF Pixels
<1>4. ASSUME NEW k \in Jobs, job' = [job EXCEPT ![p] = k]
      PROVE  /\ \A m \in Procs \ {p} : ToTrace(m, px)' <=> ToTrace(m, px)
             /\ ToTrace(p, px)' <=> /\ Inside(k, px)
                                    /\ k.ycurr < px[2] \/ (k.ycurr = px[2] /\ k.xcurr <= px[1])
  <2>1. job'[p] = k /\ \A m \in Procs \ {p} : job'[m] = job[m]
    BY <1>0, <1>4 DEF JobInv
  <2> QED BY <2>1 DEF ToTrace
<1>5. CASE j.ypix + j.ydim = j.ycurr
  <2>1. NoJob \in Jobs /\ ~Inside(NoJob, px)
    BY NoJobFacts
  <2>2. job' = [job EXCEPT ![p] = NoJob] /\ UNCHANGED frame
    BY <1>5 DEF RayTrace
  <2>3. ~ToTrace(p, px)
    <3>1. ToTrace(p, px) => px[2] < j.ypix + j.ydim /\ j.ycurr <= px[2]
      BY <1>1, <1>3 DEF ToTrace, Inside, Jobs
    <3> HIDE DEF j
    <3> QED BY <3>1, <1>1, <1>3, <1>5 DEF Jobs
  <2>4. \A m \in Procs : ToTrace(m, px)' <=> ToTrace(m, px)
    BY <1>4, <2>1, <2>2, <2>3
  <2> QED BY <1>0, <1>1, <1>2, <2>2, <2>4, Stays
<1>6. CASE j.ypix + j.ydim # j.ycurr
  <2> DEFINE k == IF j.xcurr + 1 = j.xpix + j.xdim
                  THEN [j EXCEPT !.xcurr = j.xpix, !.ycurr = j.ycurr + 1]
                  ELSE [j EXCEPT !.xcurr = j.xcurr + 1]
  <2>1. /\ job' = [job EXCEPT ![p] = k]
        /\ frame' = [frame EXCEPT ![c] = Append(frame[c], picture[c])]
    BY <1>6 DEF RayTrace
  <2>2. c \in Pixels /\ Inside(j, c)
    <3> HIDE DEF j
    <3> QED BY <1>1, <1>6, WorkPoolAssumption DEF Jobs, Within, Current, Pixels, Inside
  <2>3. frame'[c] = Append(frame[c], picture[c]) /\ (px # c => frame'[px] = frame[px])
    <3> HIDE DEF c
    <3> QED BY <1>0, <2>1, <2>2 DEF StageInv
\* What is left of the bundle: all but the current pixel.
  <2>4. k \in Jobs /\ (ToTrace(p, px)' <=> ToTrace(p, px) /\ px # c)
    <3>1. /\ j = [xpix |-> j.xpix, ypix |-> j.ypix, xdim |-> j.xdim, ydim |-> j.ydim,
                  xcurr |-> j.xcurr, ycurr |-> j.ycurr]
          /\ j.xpix \in Nat /\ j.ypix \in Nat /\ j.xdim \in Nat /\ j.ydim \in Nat
          /\ j.xcurr \in Nat /\ j.ycurr \in Nat
      BY <1>1 DEF Jobs
    <3>2. px = c <=> px[1] = j.xcurr /\ px[2] = j.ycurr
      BY <1>3
    <3>3. ToTrace(p, px) <=> /\ Inside(j, px)
                             /\ j.ycurr < px[2] \/ (j.ycurr = px[2] /\ j.xcurr <= px[1])
      BY DEF ToTrace
    <3>4. CASE j.xcurr + 1 = j.xpix + j.xdim
      <4>1. k = [xpix |-> j.xpix, ypix |-> j.ypix, xdim |-> j.xdim, ydim |-> j.ydim,
                 xcurr |-> j.xpix, ycurr |-> j.ycurr + 1]
        <5>1. k = [j EXCEPT !.xcurr = j.xpix, !.ycurr = j.ycurr + 1]
          BY <3>4
        <5> HIDE DEF j, k
        <5> QED BY <3>1, <5>1
      <4> HIDE DEF k
      <4>2. k \in Jobs
        <5> HIDE DEF j
        <5> QED BY <3>1, <4>1 DEF Jobs
      <4>3. ToTrace(p, px)' <=> /\ Inside(k, px)
                                /\ k.ycurr < px[2] \/ (k.ycurr = px[2] /\ k.xcurr <= px[1])
        BY <1>4, <2>1, <4>2
      <4>4. Inside(k, px) <=> Inside(j, px)
        <5> HIDE DEF j
        <5> QED BY <4>1 DEF Inside
      <4> HIDE DEF j, c
      <4>5. ASSUME Inside(j, px)
            PROVE  j.ycurr + 1 < px[2] \/ (j.ycurr + 1 = px[2] /\ j.xpix <= px[1])
                   <=> /\ j.ycurr < px[2] \/ (j.ycurr = px[2] /\ j.xcurr <= px[1])
                       /\ px # c
        BY <1>3, <3>1, <3>2, <3>4, <4>5 DEF Inside
      <4>6. k.ycurr = j.ycurr + 1 /\ k.xcurr = j.xpix
        BY <4>1
      <4> QED BY <3>3, <4>2, <4>3, <4>4, <4>5, <4>6
    <3>5. CASE j.xcurr + 1 # j.xpix + j.xdim
      <4>1. k = [xpix |-> j.xpix, ypix |-> j.ypix, xdim |-> j.xdim, ydim |-> j.ydim,
                 xcurr |-> j.xcurr + 1, ycurr |-> j.ycurr]
        <5>1. k = [j EXCEPT !.xcurr = j.xcurr + 1]
          BY <3>5
        <5> HIDE DEF j, k
        <5> QED BY <3>1, <5>1
      <4> HIDE DEF k
      <4>2. k \in Jobs
        <5> HIDE DEF j
        <5> QED BY <3>1, <4>1 DEF Jobs
      <4>3. ToTrace(p, px)' <=> /\ Inside(k, px)
                                /\ k.ycurr < px[2] \/ (k.ycurr = px[2] /\ k.xcurr <= px[1])
        BY <1>4, <2>1, <4>2
      <4>4. Inside(k, px) <=> Inside(j, px)
        <5> HIDE DEF j
        <5> QED BY <4>1 DEF Inside
      <4> HIDE DEF j, c
      <4>5. j.ycurr < px[2] \/ (j.ycurr = px[2] /\ j.xcurr + 1 <= px[1])
            <=> /\ j.ycurr < px[2] \/ (j.ycurr = px[2] /\ j.xcurr <= px[1])
                /\ px # c
        BY <1>3, <3>1, <3>2
      <4>6. k.ycurr = j.ycurr /\ k.xcurr = j.xcurr + 1
        BY <4>1
      <4> QED BY <3>3, <4>2, <4>3, <4>4, <4>5, <4>6
    <3> QED BY <3>4, <3>5
  <2> HIDE DEF k
  <2>5. \A m \in Procs \ {p} : ToTrace(m, px)' <=> ToTrace(m, px)
    BY <1>4, <2>1, <2>4
  <2>6. CASE px # c
    <3>1. \A m \in Procs : ToTrace(m, px)' <=> ToTrace(m, px)
      BY <2>4, <2>5, <2>6
    <3>2. frame'[px] = frame[px]
      BY <2>3, <2>6
    <3> QED BY <1>0, <1>1, <1>2, <3>1, <3>2, Stays
  <2>7. CASE px = c
    <3> DEFINE w == <<"job", p, 0>>
    <3>1. ToTrace(p, px)
      <4> HIDE DEF j
      <4> QED BY <1>1, <2>2, <2>7 DEF ToTrace, Jobs, j
    <3>2. w \in Places /\ Lies(px, w)
      BY <3>1, PlaceFacts DEF Lies
    <3> HIDE DEF w
    <3>3. frame[px] = <<>> /\ \A v \in Places : Lies(px, v) <=> v = w
      BY <1>0, <3>2 DEF Once
    <3>4. frame'[px] = <<picture'[px]>>
      <4>1. frame'[px] = Append(<<>>, picture[px])
        BY <2>3, <2>7, <3>3
      <4> QED BY <4>1, <1>1
    <3>5. ASSUME NEW v \in Places PROVE ~Lies(px, v)'
      <4>1. v = <<v[1], v[2], v[3]>> /\ v[2] \in Procs /\ v[3] \in Nat /\ v[1] \in {"todo", "pool", "job"}
        BY PlaceCases
      <4>2. CASE v[1] # "job"
        <5>1. v # w
          BY <4>2 DEF w
        <5>2. ~Lies(px, v)
          BY <3>3, <5>1
        <5> QED BY <4>1, <4>2, <5>2, <1>2 DEF Lies
      <4>3. CASE v[1] = "job" /\ v[2] = p
        <5>1. ~ToTrace(p, px)'
          BY <2>4, <2>7
        <5> QED BY <4>3, <5>1 DEF Lies
      <4>4. CASE v[1] = "job" /\ v[2] # p
        <5>1. v # w
          BY <4>4 DEF w
        <5>2. ~Lies(px, v)
          BY <3>3, <5>1
        <5>3. Lies(px, v)' => v[3] = 0 /\ ToTrace(v[2], px)'
          BY <4>4 DEF Lies
        <5>4. v[3] = 0 /\ ToTrace(v[2], px) => Lies(px, v)
          BY <4>4 DEF Lies
        <5> QED BY <4>1, <4>4, <5>2, <5>3, <5>4, <2>5
      <4> QED BY <4>2, <4>3, <4>4
    <3> QED BY <3>4, <3>5 DEF Once
  <2> QED BY <2>6, <2>7
<1> QED BY <1>5, <1>6

\* Before its process has begun, a pixel is still to be put.
LEMMA AllToPut ==
    ASSUME IInv, NEW px \in Pixels
    PROVE  LET p == (BlockOf(px) - 1) % nprocs
           IN  p \in Procs /\ (todo[p].block = 0 => \E v \in Places : Lies(px, v))
<1> DEFINE p == (BlockOf(px) - 1) % nprocs
<1>1. BlockOf(px) \in Nat \ {0}
  <2>1. PICK l \in Nat : DOMAIN Blocks = 1 .. l
    BY BlocksFacts
  <2>2. BlockOf(px) \in 1 .. l
    BY <2>1, JobOfPixel
  <2> QED BY <2>1, <2>2
<1>2. p \in Procs
  <2>1. BlockOf(px) - 1 \in Nat
    BY <1>1
  <2> QED BY <2>1, ProcsFacts, Division
<1>3. ASSUME todo[p].block = 0 PROVE Lies(px, <<"todo", p, 0>>) /\ <<"todo", p, 0>> \in Places
  <2>1. ToPut(p, px)
    BY <1>1, <1>3 DEF ToPut
  <2> HIDE DEF p
  <2> QED BY <1>2, <2>1, PlaceFacts DEF Lies
<1> QED BY <1>2, <1>3

LEMMA OnceStep ==
    ASSUME IInv, [Next]_vars, NEW px \in Pixels
    PROVE  Once(px)'
<1>0. StageInv /\ PoolInv /\ TodoInv /\ Once(px)
  BY DEF IInv
\* Nothing that matters to it has changed.
<1>10. ASSUME UNCHANGED <<todo, workpool, job, frame>>,
              UNCHANGED picture \/ \E v \in Places : Lies(px, v)
       PROVE  Once(px)'
  <2>1. /\ \A p \in Procs : ToPut(p, px)' <=> ToPut(p, px)
        /\ \A p \in Procs : \A h \in Nat : InPool(p, h, px)' <=> InPool(p, h, px)
        /\ \A p \in Procs : ToTrace(p, px)' <=> ToTrace(p, px)
    BY <1>10 DEF ToPut, InPool, ToTrace
  <2> QED BY <1>0, <1>10, <2>1, Stays
<1>1. CASE Idle
  <2>1. CASE UNCHANGED picture
    BY <1>1, <1>10, <2>1 DEF Idle
  <2>2. CASE pc \in [Procs -> {"main"}]
    <3>1. \A p \in Procs : todo[p].block = 0
      BY <1>0, <2>2 DEF TodoInv
    <3> QED BY <1>1, <1>10, <3>1, AllToPut DEF Idle
  <2> QED BY <1>1, <2>1, <2>2 DEF Idle
<1>2. CASE Create
  BY <1>2, <1>10 DEF Create, scene
<1>3. CASE Barrier
  BY <1>3, <1>10 DEF Barrier, scene
<1>4. ASSUME NEW p \in Procs, InitWorkPool(p) PROVE Once(px)'
  <2>1. /\ pc[p] = "init" /\ UNCHANGED <<picture, job, frame>>
        /\ workpool' = [workpool EXCEPT ![p] = <<>>] /\ todo' = [todo EXCEPT ![p] = FirstJob(p)]
    BY <1>4 DEF InitWorkPool, At, scene
  <2>2. workpool' = workpool
    BY <1>0, <2>1 DEF PoolInv
  <2>3. todo[p].block = 0 /\ \A q \in Procs \ {p} : todo'[q] = todo[q]
    BY <1>0, <2>1 DEF TodoInv
  <2>4. todo'[p].block = p + 1 /\ todo'[p].bundle = 1
    BY <1>0, <2>1 DEF TodoInv, FirstJob
  <2>5. PICK l \in Nat : DOMAIN Blocks = 1 .. l
    BY BlocksFacts
  <2>6. PICK m \in Nat : DOMAIN Bundles(BlockOf(px)) = 1 .. m
    BY JobOfPixel, BundlesFacts
  <2>7. BlockOf(px) \in 1 .. l /\ BundleOf(px) \in 1 .. m
    BY <2>5, <2>6, JobOfPixel
  <2>8. ASSUME (BlockOf(px) - 1) % nprocs = p PROVE BlockOf(px) >= p + 1
    <3> DEFINE a == BlockOf(px) - 1
    <3>1. a \in Nat /\ BlockOf(px) = a + 1
      BY <2>7
    <3> HIDE DEF a
    <3>2. a \div nprocs \in Nat /\ a = nprocs * (a \div nprocs) + p /\ p \in Nat
      BY <2>8, <3>1, ProcsFacts, Division DEF a
    <3>3. nprocs * (a \div nprocs) \in Nat
      BY <3>2, ProcsFacts
    <3> QED BY <3>1, <3>2, <3>3
  <2>9. ToPut(p, px)' <=> ToPut(p, px)
    <3>1. ToPut(p, px)' <=> /\ (BlockOf(px) - 1) % nprocs = p
                            /\ \/ p + 1 < BlockOf(px)
                               \/ p + 1 = BlockOf(px) /\ 1 <= BundleOf(px)
      BY <2>4 DEF ToPut
    <3>2. ToPut(p, px) <=> (BlockOf(px) - 1) % nprocs = p
      BY <2>3, <2>7 DEF ToPut
    <3> QED BY <3>1, <3>2, <2>7, <2>8, ProcsFacts
  <2>10. /\ \A q \in Procs : ToPut(q, px)' <=> ToPut(q, px)
         /\ \A q \in Procs : \A h \in Nat : InPool(q, h, px)' <=> InPool(q, h, px)
         /\ \A q \in Procs : ToTrace(q, px)' <=> ToTrace(q, px)
    <3>1. \A q \in Procs \ {p} : ToPut(q, px)' <=> ToPut(q, px)
      BY <2>3 DEF ToPut
    <3>2. \A q \in Procs : \A h \in Nat : InPool(q, h, px)' <=> InPool(q, h, px)
      BY <2>2 DEF InPool
    <3>3. \A q \in Procs : ToTrace(q, px)' <=> ToTrace(q, px)
      BY <2>1 DEF ToTrace
    <3> QED BY <2>9, <3>1, <3>2, <3>3
  <2> QED BY <1>0, <2>1, <2>10, Stays
<1>5. ASSUME NEW p \in Procs, Hop(p) PROVE Once(px)'
  BY <1>5, <1>10 DEF Hop
<1>7. ASSUME NEW p \in Procs, Look(p) PROVE Once(px)'
  BY <1>7, <1>10 DEF Look, scene
<1> QED BY <1>1, <1>2, <1>3, <1>4, <1>5, <1>7, <1>0, StepCases, OncePut, OnceGet, OnceTrace

-----------------------------------------------------------------------------
LEMMA InitInv ==
    ASSUME Init
    PROVE  IInv
<1> USE ProcsFacts DEF Init
<1>1. StageInv
  BY DEF StageInv
<1>2. PoolInv
  <2>1. IsStack(<<>>)
    BY DEF IsStack
  <2>2. workpool = [p \in Procs |-> <<>>] /\ pc = [p \in Procs |-> "main"]
    OBVIOUS
  <2> HIDE DEF Init
  <2> QED BY <2>1, <2>2 DEF PoolInv, Filling
<1>3. TodoInv
  BY DEF TodoInv, Tracing
<1>4. JobInv
  BY DEF JobInv, NoJob, Jobs
<1>5. RoundInv
  BY DEF RoundInv, Tracing
<1>6. ASSUME NEW px \in Pixels PROVE Once(px)
  <2> DEFINE p == (BlockOf(px) - 1) % nprocs
             w == <<"todo", p, 0>>
  <2>1. BlockOf(px) \in Nat \ {0}
    <3>1. PICK l \in Nat : DOMAIN Blocks = 1 .. l
      BY BlocksFacts
    <3>2. BlockOf(px) \in 1 .. l
      BY <3>1, JobOfPixel
    <3> QED BY <3>1, <3>2
  <2>2. p \in Procs
    <3>1. BlockOf(px) - 1 \in Nat
      BY <2>1
    <3> QED BY <3>1, Division
  <2>3. \A q \in Procs : ToPut(q, px) <=> q = p
    BY <2>1 DEF ToPut
  <2>4. \A q \in Procs : \A h \in Nat : ~InPool(q, h, px)
    BY DEF InPool
  <2>5. \A q \in Procs : ~ToTrace(q, px)
    BY NoJobFacts DEF ToTrace
  <2> HIDE DEF p
  <2>6. w \in Places
    BY <2>2, PlaceFacts
  <2>7. ASSUME NEW v \in Places PROVE Lies(px, v) <=> v = w
    <3>1. v = <<v[1], v[2], v[3]>> /\ v[2] \in Procs /\ v[3] \in Nat /\ v[1] \in {"todo", "pool", "job"}
      BY PlaceCases
    <3>2. v = w <=> v[1] = "todo" /\ v[2] = p /\ v[3] = 0
      BY <3>1
    <3> HIDE DEF w, Init
    <3> QED BY <3>1, <3>2, <2>3, <2>4, <2>5 DEF Lies
  <2>8. frame[px] = <<>>
    OBVIOUS
  <2> HIDE DEF w, Init
  <2> QED BY <2>6, <2>7, <2>8 DEF Once
<1> QED BY <1>1, <1>2, <1>3, <1>4, <1>5, <1>6 DEF IInv

(* In every state: a process is in the stage of the others, the pools hold *)
(* bundles of the image, a process puts the blocks whose turn is its own   *)
(* and has found empty the pools it has passed, and the bundle of a pixel  *)
(* that is not traced is in one place.                                     *)
THEOREM Invariance == Spec => []IInv
<1>1. Init => IInv
  BY InitInv
<1>2. IInv /\ [Next]_vars => IInv'
  BY StageStep, PoolStep, TodoStep, JobStep, RoundStep, OnceStep DEF IInv
<1> QED BY <1>1, <1>2, PTL DEF Spec

(* The picture of every frame: workpool.C hands out each bundle once and   *)
(* trace.C adds each pixel once, whatever the order in which the processes *)
(* take bundles from the pools, and GetJobs gives up only when no bundle   *)
(* is left.                                                                *)
THEOREM PictureIsExact == Spec => []PictureExact
<1>1. ASSUME IInv PROVE PictureExact
  <2>0. PoolInv /\ TodoInv /\ JobInv /\ RoundInv /\ \A px \in Pixels : Once(px)
    BY <1>1 DEF IInv
  <2>1. \A px \in Pixels : frame[px] = <<>> \/ frame[px] = <<picture[px]>>
    BY <2>0 DEF Once
  <2>2. ASSUME Finished, NEW px \in Pixels PROVE frame[px] = <<picture[px]>>
    <3>1. \A p \in Procs : pc[p] = "done"
      BY <2>2 DEF Finished, At
    <3>2. ASSUME NEW v \in Places PROVE ~Lies(px, v)
      <4>1. v[2] \in Procs /\ v[3] \in Nat
        BY PlaceCases
      <4>2. PICK l \in Nat : DOMAIN Blocks = 1 .. l /\ Len(Blocks) = l
        BY BlocksFacts
      <4>3. BlockOf(px) \in 1 .. l
        BY <4>2, JobOfPixel
      <4>4. ~ToPut(v[2], px)
        <5>1. todo[v[2]].block > l /\ todo[v[2]].block \in Nat
          BY <2>0, <3>1, <4>1, <4>2 DEF TodoInv, Tracing
        <5> QED BY <4>3, <5>1 DEF ToPut
      <4>5. ~InPool(v[2], v[3], px)
        <5>1. workpool[v[2]] = <<>>
          BY <2>0, <3>1, <4>1 DEF RoundInv
        <5> QED BY <5>1 DEF InPool
      <4>6. ~ToTrace(v[2], px)
        <5>1. job[v[2]] = NoJob
          BY <2>0, <3>1, <4>1 DEF JobInv
        <5> QED BY <5>1, NoJobFacts DEF ToTrace
      <4> QED BY <4>4, <4>5, <4>6 DEF Lies
    <3> QED BY <2>0, <3>2 DEF Once
  <2> QED BY <2>1, <2>2 DEF PictureExact
<1>2. IInv => PictureExact
  BY <1>1
<1> QED BY <1>2, Invariance, PTL
=============================================================================
