-------------------------- MODULE CholeskyAnalysis --------------------------
(***************************************************************************)
(* What the main thread of cholesky does before it creates the others: it  *)
(* finds the elimination tree and the supernodes of the matrix (tree.C),   *)
(* joins supernodes where that should pay (amal.C, assign.C), gives whole  *)
(* subtrees to processes as their domains (parts.C) and cuts the rest of   *)
(* the factor into blocks (block2.C).                                      *)
(*                                                                         *)
(* A job is a matrix M.row, M.row[j] the rows of column j, of M.n columns, *)
(* with the options P, BS and pps; a list in the arrays of the program is  *)
(* a sequence, an array that lists the children of a node is its inverse.  *)
(***************************************************************************)
EXTENDS Integers, Sequences, FiniteSets, FiniteSetsExt, SequencesExt

Ascending(S) ==
    IF S = {} THEN <<>> ELSE SelectSeq([i \in 1 .. Max(S) + 1 |-> i - 1], LAMBDA i : i \in S)

\* step(x, k) for k = from .. to, one after the other.
After(from, to, step(_, _), x) ==
    FoldLeft(step, x, [k \in 1 .. to - from + 1 |-> from + k - 1])

\* Where x is in a sequence without repetitions, 0 if it is not.
Position(list, x) == IF x \in Range(list) THEN CHOOSE i \in DOMAIN list : list[i] = x ELSE 0

\* The function itself; TLC then has its values once and for all.
Fixed(f) == f @@ <<>>

\* LowerToFull: the file has the lower half of the matrix.
LowerToFull(L) == Fixed([j \in DOMAIN L |-> L[j] \cup {i \in DOMAIN L : j \in L[i]}])

\* Arrays like node and partition_size: the length of a run at its head,
\* elsewhere what leads back to the head.
Runs(heads, n) ==
    Fixed([i \in 0 .. n |->
        LET head == Max({h \in heads : h <= i})
        IN  IF i = n THEN 0 ELSE IF i = head THEN Min({h \in heads \cup {n} : h > i}) - i ELSE head - i])
HeadOf(size, i) == IF size[i] < 0 THEN i + size[i] ELSE i
Heads(size)     == {i \in DOMAIN size : size[i] > 0}

InvertPerm(PERM) == Fixed([i \in DOMAIN PERM |-> CHOOSE j \in DOMAIN PERM : PERM[j] = i])

\* ParentToChild.
Children(T, x) == Ascending({i \in DOMAIN T : T[i] = x /\ i # x})

-----------------------------------------------------------------------------
(* tree.C.                                                                 *)
NeighboursInFile(M, s, j) == M.row[s.PERM[j]]     \* mutant: rows not renumbered
Neighbours(M, s, j) == {s.INVP[i] : i \in M.row[s.PERM[j]]}

\* Each column links the roots of the subtrees of its earlier neighbours
\* under it; subtree leads to the roots by shorter and shorter ways.
EliminationTreeFromA(M, s) ==
    LET none == [x \in 0 .. M.n |-> M.n]
        Join(t, j, nabor) ==
            LET up[r \in 0 .. M.n] == IF t.subtree[r] = M.n THEN <<r>> ELSE <<r>> \o up[t.subtree[r]]
                path == up[nabor]
                r == Last(path)
            IN  [T |-> IF r # j THEN [t.T EXCEPT ![r] = j] ELSE t.T,
                 subtree |-> Fixed([x \in 0 .. M.n |-> IF x # j /\ x \in Range(path) THEN j ELSE t.subtree[x]])]
        Column(t, j) == FoldLeft(LAMBDA u, nabor : Join(u, j, nabor), t,
                                 Ascending({x \in Neighbours(M, s, j) : x < j}))
    IN  Fixed(After(0, M.n - 1, Column, [T |-> none, subtree |-> none]).T)

\* Row i of the factor is full on the way from each neighbour up to i.
ComputeNZ(M, s) ==
    LET Way(x, i) == LET up[k \in 0 .. M.n] == IF k < i THEN {k} \cup up[s.T[k]] ELSE {} IN up[x]
        Row == Fixed([i \in 0 .. M.n - 1 |-> UNION {Way(x, i) : x \in Neighbours(M, s, i)}])
    IN  Fixed([k \in 0 .. M.n |-> IF k = M.n THEN 0 ELSE 1 + Cardinality({i \in DOMAIN Row : k \in Row[i]})])

FindSupernodes(M, s) ==
    Runs({i \in 0 .. M.n - 1 :
            i = 0 \/ ~(s.nz[i] = s.nz[i - 1] - 1 /\ s.T[i - 1] = i /\ Len(Children(s.T, i)) = 1)}, M.n)

ComputeWorkTree(M, s) ==
    LET below[j \in 0 .. M.n] == s.nz[j] * s.nz[j] + FoldLeft(LAMBDA w, c : w + below[c], 0, Children(s.T, j))
    IN  Fixed(below)

-----------------------------------------------------------------------------
(* Amalgamation.  The estimated times are multiples of a constant.         *)
Time(ops, misses3) == 150 * ops + 237 * misses3
Triangle(c, r)     == c * r - ((c * (c - 1)) \div 2)
Passes(M, c)       == (c + M.BS - 1) \div M.BS
PDIV(M, c, r) == Time(((c * (c + 1) * (2 * c + 1)) \div 6) + c * c * (r - c), 2 * Passes(M, c) * Triangle(c, r))
PMOD(M, c, d) ==
    LET update == Triangle(d, d)
        once   == Passes(M, c) = 1 /\ Passes(M, d) = 1
    IN  Time(2 * c * update, 3 * (IF once THEN c * d + update ELSE Passes(M, d) * c * d + Passes(M, c) * update))
PADD(d) == Time(0, 6 * Triangle(d, d))
Runtime(M, c, r, d) == PDIV(M, c, r) + PMOD(M, c, d) + PADD(d)

\* The test of ConsiderMerge, without a domain: does it save time to join a
\* supernode with its parent?
Pays(M, a, super) ==
    LET parent == a.super_parent[super]
        c == a.node[super]
        r == a.nz[super]
        d == a.node[parent]
        q == a.nz[parent]
    IN  parent # M.n /\ Runtime(M, c, r, r - c) + Runtime(M, d, q, q - d) > Runtime(M, c + d, c + q, q - d)

JoinTwoSupers2(a, child) ==
    LET parent == a.super_parent[child]
        grandparent == a.super_parent[parent]
        moved == SelectSeq(a.kids[parent], LAMBDA i : i # child)
    IN  [a EXCEPT
            !.node[child]    = @ + a.node[parent],
            !.nz[child]      = a.nz[parent] + a.node[child],
            !.members[child] = @ \o a.members[parent],
            !.members[parent] = <<>>,
            !.super_parent   = Fixed([x \in DOMAIN @ |-> IF x = child THEN grandparent
                                                         ELSE IF x \in Range(moved) THEN child ELSE @[x]]),
            !.kids[child]    = Reverse(moved) \o @,
            !.kids[parent]   = <<>>,
            !.kids[grandparent] = [i \in DOMAIN @ |-> IF @[i] = parent THEN child ELSE @[i]]]

\* The supernodes as a tree, and the order in which ConsiderMerge comes to
\* them, parents before children.
Linked(M, s) ==
    LET supers    == Heads(s.node)
        parent(x) == s.T[x + s.node[x] - 1]
        kids  == Fixed([x \in 0 .. M.n |-> Reverse(Ascending({i \in supers : parent(i) = x}))])
        order[x \in 0 .. M.n] ==
            (IF x = M.n THEN <<>> ELSE <<x>>) \o FlattenSeq([i \in DOMAIN kids[x] |-> order[kids[x][i]]])
    IN  [node |-> s.node, nz |-> s.nz, kids |-> kids, todo |-> order[M.n],
         super_parent |-> Fixed([x \in 0 .. M.n |-> IF x \in supers THEN parent(x) ELSE M.n]),
         members |-> Fixed([x \in 0 .. M.n |-> IF x \in supers THEN [i \in 1 .. s.node[x] |-> x + i - 1] ELSE <<>>])]

\* ReorderMatrix: a supernode comes after all that is below it.
ReorderMatrix(M, a) ==
    LET lay[x \in 0 .. M.n] ==
            FlattenSeq([i \in DOMAIN a.kids[x] |-> lay[Reverse(a.kids[x])[i]]]) \o a.members[x]
    IN  Fixed([j \in 0 .. M.n |-> IF j = M.n THEN M.n ELSE lay[M.n][j + 1]])

FixNodeNZAndT(M, s, a) ==
    LET PERM == ReorderMatrix(M, a)
        INVP == InvertPerm(PERM)
        node == Runs({INVP[x] : x \in {y \in Heads(s.node) : a.members[y] # <<>>}}, M.n)
        super(j) == HeadOf(node, j)
        nz == Fixed([j \in 0 .. M.n |-> IF j = M.n THEN 0 ELSE a.nz[PERM[super(j)]] + super(j) - j])
        T  == Fixed([j \in 0 .. M.n |-> IF j = M.n THEN M.n
                     ELSE IF j + 1 < super(j) + node[super(j)] THEN j + 1 ELSE INVP[a.super_parent[PERM[super(j)]]]])
    IN  [s EXCEPT !.PERM = PERM, !.INVP = INVP, !.node = node, !.nz = nz, !.T = T]

-----------------------------------------------------------------------------
(* Partition: subtrees, the largest divided first, until the processes     *)
(* have about the same work.                                               *)
\* x before the first y of a list with before(y).
Insert(x, list, before(_)) ==
    LET at == Min({i \in DOMAIN list : before(list[i])} \cup {Len(list) + 1}) IN InsertAt(list, at, x)
AddInOrder(s, chunks, root) == Insert(root, chunks, LAMBDA c : s.work[root] >= s.work[c])

MinBucket(ops) == CHOOSE p \in DOMAIN ops : \A q \in DOMAIN ops : ops[p] < ops[q] \/ (ops[p] = ops[q] /\ p <= q)
NumberPartition(M, s, chunks) ==
    FoldLeft(LAMBDA a, root : LET p == MinBucket(a.ops) IN [ops |-> [a.ops EXCEPT ![p] = @ + s.work[root]], assign |-> Append(a.assign, p)],
             [ops |-> [p \in 0 .. M.P - 1 |-> 0], assign |-> <<>>], chunks)
Balanced(M, s, chunks) ==
    LET ops  == Range(NumberPartition(M, s, chunks).ops)
        maxm == Max(ops)
    IN  maxm = 0 \/ 100 * (maxm - Min(ops)) < 20 * maxm \/ 20 * M.P * maxm < s.work[M.n]

\* Divide: the children of the lowest column of the chain below its root.
Divide(s, chunks) ==
    LET down[x \in DOMAIN s.T] == IF Len(Children(s.T, x)) = 1 THEN down[x - 1] ELSE x
    IN  FoldLeft(LAMBDA c, x : AddInOrder(s, c, x), Tail(chunks), Children(s.T, down[Head(chunks)]))

BlDepth(s, col) == LET depth[x \in DOMAIN s.T] == IF s.T[x] = x THEN 0 ELSE 1 + depth[s.T[x]] IN depth[col]
LeftMost(s, root) ==
    LET down[x \in DOMAIN s.T] == LET c == Children(s.T, x) IN IF c = <<>> THEN x ELSE down[c[1]] IN down[root]

FirstChunks(M, s) ==
    FoldLeft(LAMBDA c, x : AddInOrder(s, c, x), <<>>, Ascending({i \in 0 .. M.n - 1 : s.T[i] = M.n}))

\* The chunks go to the process with the least work so far, and become its
\* domains, the deepest first.
Assign(M, s, chunks) ==
    LET assign == NumberPartition(M, s, chunks).assign
        mine(p)  == LET own == SelectSeq([i \in DOMAIN chunks |-> i], LAMBDA i : assign[i] = p) IN [k \in DOMAIN own |-> chunks[own[k]]]
        deep(p)  == FoldLeft(LAMBDA l, d : Insert(d, l, LAMBDA e : BlDepth(s, e) < BlDepth(s, d)), <<>>, mine(p))
        proc_domains == Fixed([p \in 0 .. M.P - 1 |-> deep(p)])
        domains  == FlattenSeq([p \in 1 .. M.P |-> proc_domains[p - 1]])
        \* MarkSubtreeAsDomain: 2 in the supernode of the root, 1 below.
        mark(i)  == IF \E r \in Range(domains) : HeadOf(s.node, i) = HeadOf(s.node, r) THEN 2
                    ELSE IF \E r \in Range(domains) : i \in LeftMost(s, r) .. r THEN 1 ELSE 0
    IN  [s EXCEPT !.proc_domains = proc_domains, !.domains = domains, !.domain = Fixed([i \in 0 .. M.n - 1 |-> mark(i)])]

-----------------------------------------------------------------------------
(* CreateBlockedMatrix2 and FillInStructure.                               *)
FindNumPartitions(set_size, piece_size) ==
    LET num == (set_size + piece_size - 1) \div piece_size
        off == set_size \div (num - 1) - piece_size
    IN  IF set_size <= (4 * piece_size) \div 3 THEN 1
        ELSE IF piece_size - (set_size \div num) > off THEN num - 1 ELSE num

\* The runs of columns that make a block column; every column of a domain
\* is on its own.  What partition holds for a domain is that of NoSegments,
\* and a run ends only where partition differs from its first column.
PartitionSizes(M, s) ==
    LET piece(k) ==
            LET h == HeadOf(s.node, k)
                num == FindNumPartitions(s.node[h], M.pps)
            IN  h + Max({x \in {(s.node[h] * q) \div num : q \in 0 .. num - 1} : x <= k - h})
        partition == Fixed([k \in 0 .. M.n - 1 |-> IF s.domain[k] # 0 THEN s.node[k] ELSE piece(k)])
        heads[j \in 0 .. M.n] ==
            IF j = M.n THEN {} ELSE {j} \cup heads[
                IF s.domain[j] # 0 THEN j + 1 ELSE Min({k \in j + 1 .. M.n : k = M.n \/ partition[k] # j})]
    IN  Runs(heads[0], M.n)

BlockHeads(M, s) == {j \in Heads(s.partition_size) : s.domain[j] = 0}
Dummies(M, s)    == M.n .. M.n + Len(s.domains) - 1

\* The rows of a column of a domain, the row partitions of a block column,
\* and, for the dummy column of a domain, those its root has rows in.
BlockRows(M, s) ==
    LET block(x) == HeadOf(s.partition_size, x)
        own(j)   == UNION {Neighbours(M, s, c) : c \in j .. j + s.node[j] - 1}
        From(row, j) == UNION {Range(row[block(c)]) : c \in Range(Children(s.T, j))}
        \* FindSuperStructure and FindDomStructure, FindBlStructure
        Column(row, j) ==
            IF s.domain[j] # 0 /\ s.node[j] > 0
            THEN LET rows == Ascending({r \in own(j) \cup From(row, j) : r >= j})
                 IN  Fixed([k \in DOMAIN row |-> IF k \in j .. j + s.node[j] - 1 THEN SubSeq(rows, k - j + 1, Len(rows)) ELSE row[k]])
            ELSE IF j \in BlockHeads(M, s)
            THEN [row EXCEPT ![j] = Ascending({r \in {block(x) : x \in own(j) \cup From(row, j)} : r >= j})]
            ELSE row
        row == After(0, M.n - 1, Column, [k \in 0 .. M.n - 1 |-> <<>>])
    IN  Fixed([k \in 0 .. M.n + Len(s.domains) - 1 |->
                 IF k < M.n THEN row[k] ELSE Ascending({block(x) : x \in Range(Tail(row[s.domains[k - M.n + 1]]))})])

\* The offsets of the rows in each block, and how many rows there are
\* altogether in the first column of a supernode (FindDetailedStructure).
Structure(M, s) ==
    LET columns == BlockHeads(M, s) \cup Dummies(M, s)
        Offsets(i, rows) == Ascending({o \in 0 .. s.partition_size[i] - 1 : i + o \in rows})
        Detailed(off, j, rows) ==
            Fixed([b \in DOMAIN off |-> IF b[2] = j THEN Offsets(b[1], rows) ELSE off[b]])
        block(x) == HeadOf(s.partition_size, x)
        below(off, c) == IF s.domain[c] # 0 THEN Range(s.row[c])
                         ELSE UNION {{i + o : o \in Range(off[<<i, block(c)>>])} : i \in Range(s.row[block(c)])}
        Rows(off, super) ==
            {r \in UNION {Neighbours(M, s, c) : c \in super .. super + s.node[super] - 1}
                  \cup UNION {below(off, c) : c \in Range(Children(s.T, super))} : r >= super}
        none  == Fixed([b \in UNION {{<<i, j>> : i \in Range(s.row[j])} : j \in columns} |-> <<>>])
        dummy == FoldLeft(LAMBDA off, d : Detailed(off, d, Range(Tail(s.row[s.domains[d - M.n + 1]]))),
                          none, Ascending(Dummies(M, s)))
        Super(x, super) ==
            LET rows == Rows(x.off, super)
            IN  [n_nz |-> [x.n_nz EXCEPT ![super] = Cardinality(rows)],
                 off  |-> FoldLeft(LAMBDA off, j : Detailed(off, j, rows), x.off,
                            Ascending({j \in BlockHeads(M, s) : j \in super .. super + s.node[super] - 1}))]
    IN  FoldLeft(Super, [off |-> dummy, n_nz |-> [j \in 0 .. M.n - 1 |-> 0]], Ascending(Heads(s.node)))

CreateBlockedMatrix2(M, s) ==
    LET t == [s EXCEPT !.partition_size = PartitionSizes(M, s)]
        heads == Ascending(BlockHeads(M, t))
    IN  [t EXCEPT !.renumbering = Fixed([j \in 0 .. M.n - 1 |-> Position(heads, j) - 1]), !.heads = heads]

FillInStructure(M, s) ==
    LET v == [s EXCEPT !.row = BlockRows(M, s)]
        x == Structure(M, v)
    IN  [v EXCEPT !.structure = Fixed(x.off), !.n_nz = Fixed(x.n_nz)]

\* FindMachineDimensions: the processors as a rectangle.
SmallDimension(P) == Max({try \in 1 .. P : try * try <= P /\ P % try = 0})

-----------------------------------------------------------------------------
Blank(M) ==
    LET id == Fixed([j \in 0 .. M.n |-> j])
    IN  [PERM |-> id, INVP |-> id, T |-> <<>>, nz |-> <<>>, node |-> <<>>, work |-> <<>>,
         proc_domains |-> <<>>, domains |-> <<>>, domain |-> <<>>, partition_size |-> <<>>,
         renumbering |-> <<>>, heads |-> <<>>, row |-> <<>>, structure |-> <<>>, n_nz |-> <<>>]
=============================================================================
