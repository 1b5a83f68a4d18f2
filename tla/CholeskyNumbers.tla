-------------------------- MODULE CholeskyNumbers --------------------------
(***************************************************************************)
(* The numbers of cholesky: the matrix put into the columns of the domains *)
(* and into blocks (block2.C), the factorisation of a domain (numLL.C),    *)
(* the kernels on blocks (bfac.C), the updates between blocks (fo.C) and   *)
(* the solution of the triangular systems (bksolve.C).                     *)
(*                                                                         *)
(* A block is a sequence of its columns; nz has the numbers of all blocks, *)
(* of the columns of the domains and of the updates of the domains, which  *)
(* are lower triangles.  The doubles are numbers modulo a prime; M.tenth   *)
(* stands for the 0.1 on the diagonal.                                     *)
(***************************************************************************)
EXTENDS CholeskyAnalysis, Modular

Root == [a \in Num |-> IF \E b \in Num : (b * b) % Q = a THEN CHOOSE b \in Num : (b * b) % Q = a ELSE 0]

\* The rows of a block, from those of its row partition.
Rows(s, b)   == s.structure[b]
IsFull(s, b) == Len(Rows(s, b)) = s.partition_size[b[1]]

-----------------------------------------------------------------------------
(* The matrix.                                                             *)
Maxm(M) == Max({Cardinality(M.row[j]) : j \in DOMAIN M.row})
Value(M, i, j) == IF i = j THEN (Maxm(M) + M.tenth) % Q ELSE Q - 1

CreateVector(M) == [i \in 0 .. M.n - 1 |-> MapThenSumSet(LAMBDA j : Value(M, i, j), {j \in DOMAIN M.row : i \in M.row[j]}) % Q]

Scattered(M, s, row, col) ==
    IF row >= col /\ s.PERM[row] \in M.row[s.PERM[col]] THEN Value(M, s.PERM[row], s.PERM[col]) ELSE 0

Triangle0(n) == [c \in 1 .. n |-> [i \in 1 .. n - c + 1 |-> 0]]
FillIn(M, s) ==
    [block  |-> [b \in {x \in DOMAIN s.structure : x[2] < M.n} |->
                    [c \in 1 .. s.partition_size[b[2]] |->
                        [i \in DOMAIN Rows(s, b) |-> Scattered(M, s, b[1] + Rows(s, b)[i], b[2] + c - 1)]]],
     column |-> [j \in 0 .. M.n - 1 |->
                    IF s.domain[j] = 0 THEN <<>> ELSE [i \in DOMAIN s.row[j] |-> Scattered(M, s, s.row[j][i], j)]],
     update |-> [d \in DOMAIN s.domains |-> Triangle0(Len(s.row[s.domains[d]]) - 1)]]

-----------------------------------------------------------------------------
(* The kernels.  All take pieces of a matrix A of columns A[c].            *)
\* C[c][i] minus the product of row c of A and row i of B, over ks.
OneMatmat(A, B, C, ks, cs, is) ==
    Settled([c \in DOMAIN C |-> Settled([i \in DOMAIN C[c] |->
        IF c \in cs /\ i \in is THEN (C[c][i] - SumOver(Min(ks), Max(ks), LAMBDA k : A[k][c] * B[k][i])) % Q ELSE C[c][i]])])
OneLower(A, C, ks, is) ==
    Settled([c \in DOMAIN C |-> Settled([i \in DOMAIN C[c] |->
        IF c \in is /\ i \in is /\ i >= c THEN (C[c][i] - SumOver(Min(ks), Max(ks), LAMBDA k : A[k][c] * A[k][i])) % Q
        ELSE C[c][i]])])

OneFac(A, js) ==
    After(Min(js), Max(js), LAMBDA F, j :
        LET left(i) == (F[j][i] - SumOver(Min(js), j - 1, LAMBDA k : F[k][j] * F[k][i])) % Q
            diag    == Root[left(j)]
        IN  [F EXCEPT ![j] = Settled([i \in DOMAIN @ |->
                IF i = j THEN diag ELSE IF i \in js /\ i > j THEN Over(left(i), diag) ELSE @[i]])], A)

\* The rows of B in is, divided by the triangle of A in js.
OneDiv(A, B, js, is) ==
    After(Min(js), Max(js), LAMBDA F, j :
        [F EXCEPT ![j] = Settled([i \in DOMAIN @ |->
            IF i \in is THEN Over((@[i] - SumOver(Min(js), j - 1, LAMBDA k : A[k][j] * F[k][i])) % Q, A[j][j])
            ELSE @[i]])], B)

\* The pieces of BS of 1 .. n from a piece on.
Pieces(n, BS, from) ==
    [t \in 1 .. Len(SelectSeq([x \in 1 .. n |-> x], LAMBDA x : x > from /\ (x - 1) % BS = 0)) |->
        LET lo == from + ((t - 1) * BS) + 1 IN lo .. Min({n, lo + BS - 1})]

BFacNoLower(A, BS) ==                    \* mutant: the diagonal piece is not updated
    FoldLeft(LAMBDA F, js :
        FoldLeft(LAMBDA G, is :
            FoldLeft(LAMBDA H, ks : OneMatmat(H, H, H, js, ks, is),
                     OneDiv(G, G, js, is),
                     SelectSeq(Pieces(Len(A), BS, Max(js)), LAMBDA ks : Max(ks) < Min(is))),
            OneFac(F, js), Pieces(Len(A), BS, Max(js))), A, Pieces(Len(A), BS, 0))
BFac(A, BS) ==
    FoldLeft(LAMBDA F, js :
        FoldLeft(LAMBDA G, is :
            LET B == FoldLeft(LAMBDA H, ks : OneMatmat(H, H, H, js, ks, is),
                              OneDiv(G, G, js, is),
                              SelectSeq(Pieces(Len(A), BS, Max(js)), LAMBDA ks : Max(ks) < Min(is)))
            IN  OneLower(B, B, js, is),
            OneFac(F, js), Pieces(Len(A), BS, Max(js))), A, Pieces(Len(A), BS, 0))

BDiv(A, B, BS) ==
    LET n1 == Len(A)
        n3 == Len(B[1])
    IN  IF n1 * n3 <= BS * BS THEN OneDiv(A, B, 1 .. n1, 1 .. n3)
        ELSE FoldLeft(LAMBDA F, js :
                FoldLeft(LAMBDA G, is :
                    FoldLeft(LAMBDA H, ks : OneMatmat(A, H, H, js, ks, is),
                             OneDiv(A, G, js, is), Pieces(n1, BS, Max(js))),
                    F, Pieces(n3, BS, 0)), B, Pieces(n1, BS, 0))

\* BMod and BLMod into a block of zeros: what is subtracted.
BMod(A, B)  == [j \in DOMAIN A[1] |-> [i \in DOMAIN B[1] |-> SumOver(1, Len(A), LAMBDA k : A[k][j] * B[k][i])]]
BLMod(A)    == [j \in DOMAIN A[1] |-> [i \in DOMAIN A[1] |-> IF i >= j THEN SumOver(1, Len(A), LAMBDA k : A[k][j] * A[k][i]) ELSE 0]]

-----------------------------------------------------------------------------
(* Updates of blocks.                                                      *)
\* The rows of a block as positions, from 1, in the block it updates.
Relative(s, src, dest) ==
    IF Len(Rows(s, src)) = Len(Rows(s, dest)) THEN [i \in DOMAIN Rows(s, src) |-> i]
    ELSE IF IsFull(s, dest) THEN [i \in DOMAIN Rows(s, src) |-> Rows(s, src)[i] + 1]
    ELSE [i \in DOMAIN Rows(s, src) |-> Position(Rows(s, dest), Rows(s, src)[i])]
Offsets1(s, b) == [i \in DOMAIN Rows(s, b) |-> Rows(s, b)[i] + 1]

\* ScatterUpdateFO: minus[j][i] from column cs[j], row is[i].
Scatter(C, cs, is, minus) ==
    LET Less(c, i) == LET j == Position(cs, c)
                          k == Position(is, i)
                      IN  IF j = 0 \/ k = 0 THEN 0 ELSE minus[j][k]
    IN  Settled([c \in DOMAIN C |-> Settled([i \in DOMAIN C[c] |-> (C[c][i] - Less(c, i)) % Q])])

PerformUpdate(s, nz, above, below, dest) ==
    [nz EXCEPT !.block[dest] =
        IF above = below
        THEN Scatter(@, Offsets1(s, below), Offsets1(s, below), BLMod(nz.block[below]))
        ELSE Scatter(@, Offsets1(s, above), Relative(s, below, dest), BMod(nz.block[above], nz.block[below]))]

\* FindBlockUpdate: the part of a domain's update for two of its blocks.
FindBlockUpdate(s, nz, n, d, bli, blj) ==
    LET dummy   == n + d - 1
        into(b) == MapThenSumSet(LAMBDA i : Len(Rows(s, <<i, dummy>>)), {i \in Range(s.row[dummy]) : i < b[1]})
        column(j) == into(blj) + j
        row(i)    == into(bli) + i
    IN  [j \in DOMAIN Rows(s, blj) |-> [i \in DOMAIN Rows(s, bli) |->
            IF row(i) < column(j) THEN 0 ELSE nz.update[d][column(j)][row(i) - column(j) + 1]]]

HandleUpdate2FO(s, nz, n, d, bli, blj, dest) ==
    LET update == FindBlockUpdate(s, nz, n, d, bli, blj)
    IN  [nz EXCEPT !.block[dest] = Scatter(@, Offsets1(s, blj), Relative(s, bli, dest),
                                           [j \in DOMAIN update |-> [i \in DOMAIN update[j] |-> (Q - update[j][i]) % Q]])]

-----------------------------------------------------------------------------
(* FactorLLDomain.  col[j] has the numbers of column j from the diagonal   *)
(* down; link[x] are the supernodes whose next rows are in supernode x, or *)
(* above the domain for x = n, and first[k] is where those rows begin.     *)
Take(k, a, b, col, size) == SumOver(0, size - 1, LAMBDA c : col[k + c][a - c + 1] * col[k + c][b - c + 1])

\* A lower triangle minus the products of rows a <= b of supernode k, a
\* from theFirst to before theLast, at the places of those rows.
Modify(s, col, k, theFirst, theLast, place, triangle) ==
    LET at == [a \in 1 .. Len(s.row[k]) - theFirst |-> place[a]]
        Minus(o, r) == LET a == Position(at, o) + theFirst - 1
                           b == Position(at, r) + theFirst - 1
                       IN  IF a < theFirst \/ b < theFirst \/ a >= theLast THEN 0 ELSE Take(k, a, b, col, s.node[k])
    IN  Settled([o \in DOMAIN triangle |-> Settled([x \in DOMAIN triangle[o] |-> (triangle[o][x] - Minus(o - 1, o + x - 2)) % Q])])

\* Where rows theFirst .. of k are in a list of rows: as they are when
\* there are as many, else by the indices of the list.
Places(s, k, theFirst, same, list) ==
    [a \in 1 .. Len(s.row[k]) - theFirst |-> IF same THEN a - 1 ELSE Position(list, s.row[k][theFirst + a]) - 1]

CompleteSupernodeB(size, triangle) ==
    After(1, size, LAMBDA t, o :
        LET left(x) == (t[o][x] - SumOver(1, o - 1, LAMBDA c : t[c][o - c + 1] * t[c][o - c + x])) % Q
            diag == Root[left(1)]
        IN  [t EXCEPT ![o] = Settled([x \in DOMAIN @ |-> IF x = 1 THEN diag ELSE Over(left(x), diag)])], triangle)

FactorLLDomain(M, s, nz, d) ==
    LET root == s.domains[d]
        AddMember(f, k, at) ==
            LET row == s.row[k][at + 1]
                x   == IF at >= Len(s.row[k]) THEN -1 ELSE IF row > root THEN M.n ELSE HeadOf(s.node, row)
            IN  [f EXCEPT !.first[k] = at, !.link = [y \in DOMAIN @ |-> IF y = x THEN <<k>> \o @[y] ELSE @[y]]]
        Super(f, j) ==
            LET size == s.node[j]
                Next(g, k) ==
                    LET theFirst == g.first[k]
                        theLast  == theFirst + Cardinality({i \in theFirst + 1 .. Len(s.row[k]) : s.row[k][i] < j + size})
                        same     == theLast - theFirst = size /\ Len(s.row[k]) - theFirst = Len(s.row[j])
                        new      == Modify(s, g.col, k, theFirst, theLast, Places(s, k, theFirst, same, s.row[j]),
                                           [o \in 1 .. size |-> g.col[j + o - 1]])
                    IN  AddMember([g EXCEPT !.col = [c \in DOMAIN @ |-> IF c \in j .. j + size - 1 THEN new[c - j + 1] ELSE @[c]]], k, theLast)
                h == FoldLeft(Next, [f EXCEPT !.link[j] = <<>>], f.link[j])
                done == CompleteSupernodeB(size, [o \in 1 .. size |-> h.col[j + o - 1]])
            IN  AddMember([h EXCEPT !.col = Fixed([c \in DOMAIN @ |-> IF c \in j .. j + size - 1 THEN done[c - j + 1] ELSE @[c]])], j, size)
        none == [first |-> [j \in 0 .. M.n |-> 0], link |-> [j \in 0 .. M.n |-> <<>>], col |-> nz.column]
        all  == FoldLeft(Super, none, SelectSeq(Ascending(Heads(s.node)), LAMBDA j : j \in LeftMost(s, root) .. root))
        update == FoldLeft(LAMBDA t, k :
                      Modify(s, all.col, k, all.first[k], Len(s.row[k]),
                             Places(s, k, all.first[k], Len(s.row[k]) - all.first[k] = Len(t), Tail(s.row[root])), t),
                      nz.update[d], all.link[M.n])
    IN  [nz EXCEPT !.column = all.col, !.update[d] = update]

-----------------------------------------------------------------------------
(* TriBSolve.                                                              *)
\* The rows and numbers of column c of the factor below the diagonal, and
\* its diagonal.
Below(s, nz, c) ==
    IF s.domain[c] # 0 THEN {<<s.row[c][i], nz.column[c][i]>> : i \in 2 .. Len(s.row[c])}
    ELSE LET j == HeadOf(s.partition_size, c)
         IN  UNION {{<<i + Rows(s, <<i, j>>)[x], nz.block[<<i, j>>][c - j + 1][x]>> :
                        x \in {y \in DOMAIN Rows(s, <<i, j>>) : i + Rows(s, <<i, j>>)[y] > c}} : i \in Range(s.row[j])}
Pivot(s, nz, c) ==
    IF s.domain[c] # 0 THEN nz.column[c][1]
    ELSE LET j == HeadOf(s.partition_size, c) IN nz.block[<<j, j>>][c - j + 1][c - j + 1]

TriBSolve(M, s, nz, b) ==
    LET Forward(f, j) ==
            LET y == Over(f.bt[s.PERM[j]], Pivot(s, nz, j))
            IN  [y |-> Append(f.y, y),
                 bt |-> FoldSet(LAMBDA e, bt : [bt EXCEPT ![s.PERM[e[1]]] = (@ - e[2] * y) % Q], f.bt, Below(s, nz, j))]
        y == After(0, M.n - 1, Forward, [y |-> <<>>, bt |-> b]).y
        Back(xp, k) ==
            LET j == M.n - k
            IN  [xp EXCEPT ![j] = Over((y[j + 1] - MapThenSumSet(LAMBDA e : e[2] * xp[e[1]], Below(s, nz, j))) % Q, Pivot(s, nz, j))]
        xp == After(1, M.n, Back, [j \in 0 .. M.n - 1 |-> 0])
    IN  [j \in 0 .. M.n - 1 |-> xp[s.PERM[j]]]

ComputeNorm(x) == IF \A j \in DOMAIN x : x[j] = 1 THEN 0 ELSE 1
=============================================================================
