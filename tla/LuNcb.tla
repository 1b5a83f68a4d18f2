------------------------------- MODULE LuNcb -------------------------------
(***************************************************************************)
(* lu_ncb: LU factorisation by blocks of one array of n * n numbers.       *)
(***************************************************************************)
EXTENDS LuKernels, Sequences

CONSTANTS n, block_size, P,
          matrix      \* the numbers InitA draws, by row and column

nblocks == (n + block_size - 1) \div block_size
BlockOwner(I, J) == (I + J * nblocks) % P

a(I, J)  == I * block_size + J * block_size * n
Dim(I)   == IF (I + 1) * block_size > n THEN n - I * block_size ELSE block_size
Get(m, I, J)        == Block(m, a(I, J), n, Dim(I), Dim(J))
Put(m, I, J, block) == Stored(m, a(I, J), n, Dim(I), Dim(J), block)
InitA == [w \in 0 .. n * n - 1 |-> matrix[(w % n) + 1][(w \div n) + 1]]

BARRIER == [do |-> "BARRIER"]
Round(K) == << [do |-> "diagonal", K |-> K], BARRIER,
               [do |-> "column", K |-> K], [do |-> "row", K |-> K], BARRIER,
               [do |-> "interior", K |-> K] >>
\* OneSolve: two barriers around TouchA, the factorisation, and a barrier.
Code == LET upto[K \in -1 .. nblocks - 1] == IF K = -1 THEN <<BARRIER, BARRIER>> ELSE upto[K - 1] \o Round(K)
        IN  Append(upto[nblocks - 1], BARRIER)

\* One loop of lu over the blocks that are parcelled out to p.
Column(m, p, K) == Iterate(K + 1, nblocks - 1, LAMBDA x, I :
    IF BlockOwner(I, K) = p THEN Put(x, I, K, bdiv(Get(x, I, K), Get(x, K, K), Dim(K))) ELSE x, m)
Row(m, p, K) == Iterate(K + 1, nblocks - 1, LAMBDA x, J :
    IF BlockOwner(K, J) = p THEN Put(x, K, J, bmodd(Get(x, K, K), Get(x, K, J), Dim(K))) ELSE x, m)
Interior(m, p, K) == Iterate(K + 1, nblocks - 1, LAMBDA x, I : Iterate(K + 1, nblocks - 1, LAMBDA y, J :
    IF BlockOwner(I, J) = p THEN Put(y, I, J, bmod(Get(y, I, K), Get(y, K, J), Get(y, I, J), Dim(K))) ELSE y, x), m)
Do(s, p, m) ==
    CASE s.do = "diagonal" -> (IF BlockOwner(s.K, s.K) = p THEN Put(m, s.K, s.K, lu0(Get(m, s.K, s.K), Dim(s.K))) ELSE m)
      [] s.do = "column" -> Column(m, p, s.K) [] s.do = "row" -> Row(m, p, s.K)
      [] s.do = "interior" -> Interior(m, p, s.K)

\* Solve with the factors, first forward and then backward.
CheckResult(m) ==
    LET lu(i, j) == m[i + j * n]
        rhs == [i \in 0 .. n - 1 |-> SumOver(0, n - 1, LAMBDA j : matrix[i + 1][j + 1])]
        forward == Iterate(0, n - 1, LAMBDA y, j :
            LET yj == Over(y[j], lu(j, j))
            IN  [i \in 0 .. n - 1 |-> IF i = j THEN yj ELSE IF i > j THEN (y[i] - lu(i, j) * yj) % Q ELSE y[i]], rhs)
        solved == Iterate(1 - n, 0, LAMBDA y, j :
            [i \in 0 .. n - 1 |-> IF i < -j THEN (y[i] - lu(i, -j) * y[-j]) % Q ELSE y[i]], forward)
    IN  \A i \in 0 .. n - 1 : solved[i] = 1

Product(m, i, j) == SumOver(0, IF i < j THEN i ELSE j, LAMBDA k :
    m[i + k * n] * (IF k = j THEN 1 ELSE m[k + j * n]))
Exact(m) == /\ \A i, j \in 0 .. n - 1 : Product(m, i, j) = matrix[i + 1][j + 1]
            /\ CheckResult(m)
=============================================================================
