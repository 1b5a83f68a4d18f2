-------------------------------- MODULE LuCb --------------------------------
(***************************************************************************)
(* lu_cb: LU factorisation by blocks which each process keeps next to each *)
(* other in an arena of its own.                                           *)
(***************************************************************************)
EXTENDS LuKernels, Sequences, FiniteSets

CONSTANTS n, block_size, P,
          matrix      \* the numbers InitA draws, by row and column

nblocks == (n + block_size - 1) \div block_size
edge    == IF n % block_size = 0 THEN block_size ELSE n % block_size
Blocks  == (0 .. nblocks - 1) \X (0 .. nblocks - 1)
Procs   == 0 .. P - 1
Str(I)  == IF (I + 1) * block_size > n THEN n - I * block_size ELSE block_size

BlockOwner(I, J)       == (I + J * nblocks) % P
BlockOwnerColumn(I, J) == I % P
BlockOwnerRow(I, J)    == ((J % P) + (P \div 2)) % P

\* The arenas follow each other, and the blocks of a process its block rows.
Dim(I) == IF I = nblocks - 1 THEN edge ELSE block_size
Size(I, J) == Dim(I) * Dim(J)
Before(b, c) == \/ BlockOwner(b[1], b[2]) < BlockOwner(c[1], c[2])
                \/ BlockOwner(b[1], b[2]) = BlockOwner(c[1], c[2])
                   /\ (b[1] < c[1] \/ (b[1] = c[1] /\ b[2] < c[2]))
Offset[c \in Blocks] == LET front == {b \in Blocks : Before(b, c)}
                        IN  SumOver(0, nblocks * nblocks - 1, LAMBDA x :
                                LET b == <<x \div nblocks, x % nblocks>>
                                IN  IF b \in front THEN Size(b[1], b[2]) ELSE 0)
a(I, J) == Offset[<<I, J>>]

\* Where InitA, PrintA and CheckResult find an element of the matrix.
Element(i, j) ==
    LET last == n % block_size
        ibs  == IF n - i <= last THEN n - last ELSE block_size
        jbs  == IF n - j <= last THEN n - last ELSE block_size
        skip == IF n - i <= last THEN last ELSE block_size
    IN  a(i \div block_size, j \div block_size) + (i % ibs) + ((j % jbs) * skip)
InitA == LET at == [e \in (0 .. n - 1) \X (0 .. n - 1) |-> Element(e[1], e[2])]
         IN  [w \in 0 .. n * n - 1 |-> LET e == CHOOSE x \in DOMAIN at : at[x] = w IN matrix[e[1] + 1][e[2] + 1]]
rhs == [i \in 0 .. n - 1 |-> SumOver(0, n - 1, LAMBDA j : matrix[i + 1][j + 1])]

BARRIER == [do |-> "BARRIER"]
UnfencedRound(K) ==                                                       \* mutant
    << [do |-> "diagonal", K |-> K], [do |-> "column", K |-> K], [do |-> "row", K |-> K],
       BARRIER, [do |-> "interior", K |-> K] >>
Round(K) == << [do |-> "diagonal", K |-> K], BARRIER,
               [do |-> "column", K |-> K], [do |-> "row", K |-> K], BARRIER,
               [do |-> "interior", K |-> K] >>
\* OneSolve: two barriers around TouchA, the factorisation, and a barrier.
Code == LET upto[K \in -1 .. nblocks - 1] == IF K = -1 THEN <<BARRIER, BARRIER>> ELSE upto[K - 1] \o Round(K)
        IN  Append(upto[nblocks - 1], BARRIER)

Get(m, I, J) == Block(m, a(I, J), Str(I), Str(I), Str(J))
Put(m, I, J, block) == Stored(m, a(I, J), Str(I), Str(I), Str(J), block)

\* One loop of lu over the blocks that are parcelled out to p.
Diagonal(m, p, K) == IF BlockOwner(K, K) = p THEN Put(m, K, K, lu0(Get(m, K, K), Str(K))) ELSE m
Column(m, p, K) == Iterate(K + 1, nblocks - 1, LAMBDA x, I :
    IF BlockOwnerColumn(I, K) = p THEN Put(x, I, K, bdiv(Get(x, I, K), Get(x, K, K), Str(K))) ELSE x, m)
Row(m, p, K) == Iterate(K + 1, nblocks - 1, LAMBDA x, J :
    IF BlockOwnerRow(K, J) = p THEN Put(x, K, J, bmodd(Get(x, K, K), Get(x, K, J), Str(K))) ELSE x, m)
Interior(m, p, K) == Iterate(K + 1, nblocks - 1, LAMBDA x, I : Iterate(K + 1, nblocks - 1, LAMBDA y, J :
    IF BlockOwner(I, J) = p THEN Put(y, I, J, bmod(Get(y, I, K), Get(y, K, J), Get(y, I, J), Str(K))) ELSE y, x), m)
Do(s, p, m) == CASE s.do = "diagonal" -> Diagonal(m, p, s.K) [] s.do = "column" -> Column(m, p, s.K)
                 [] s.do = "row" -> Row(m, p, s.K)           [] s.do = "interior" -> Interior(m, p, s.K)

\* Solve with the factors, first forward and then backward.
CheckResult(m) ==
    LET lu(i, j) == m[Element(i, j)]
        forward == Iterate(0, n - 1, LAMBDA y, j :
            LET yj == Over(y[j], lu(j, j))
            IN  [i \in 0 .. n - 1 |-> IF i = j THEN yj ELSE IF i > j THEN (y[i] - lu(i, j) * yj) % Q ELSE y[i]], rhs)
        solved == Iterate(1 - n, 0, LAMBDA y, j :
            [i \in 0 .. n - 1 |-> IF i < -j THEN (y[i] - lu(i, -j) * y[-j]) % Q ELSE y[i]], forward)
    IN  \A i \in 0 .. n - 1 : solved[i] = 1

\* L times U, with the ones on the diagonal of U left out in memory.
Product(m, i, j) == SumOver(0, IF i < j THEN i ELSE j, LAMBDA k :
    m[Element(i, k)] * (IF k = j THEN 1 ELSE m[Element(k, j)]))
Exact(m) == /\ \A i, j \in 0 .. n - 1 : Product(m, i, j) = matrix[i + 1][j + 1]
            /\ CheckResult(m)
=============================================================================
