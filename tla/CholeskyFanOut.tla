--------------------------- MODULE CholeskyFanOut ---------------------------
(***************************************************************************)
(* The whole of cholesky (solve.C): the main thread analyses the matrix,   *)
(* lays out the factor and creates the processes, which factor it by block *)
(* fan-out (fo.C) over per-process message queues (mf.C); then it solves   *)
(* with the factor.                                                        *)
(*                                                                         *)
(* A block <<i, k>> is a row partition i of a column partition k of the    *)
(* factor, named by their first columns.  A process first factors its own  *)
(* domains and sends their updates, then handles messages: a finished      *)
(* block of another process yields updates to its own blocks, a block      *)
(* without outstanding updates is finished and sent out.                   *)
(*                                                                         *)
(* A handler works on the process' own blocks and lists, so that its whole *)
(* effect is one action; the messages it sends go to an outbox and from    *)
(* there, one LOCK/UNLOCK of Send at a time, to the queues.  The numbers   *)
(* of a block that is sent stay where they are and are read from there;    *)
(* applied, a ghost, is the set of the updates a block has received.       *)
(***************************************************************************)
EXTENDS CholeskyNumbers

CONSTANT Problems     \* matrices, with the options of the run

Lower(L) == [j \in 0 .. Len(L) - 1 |-> L[j + 1]]

ASSUME CholeskyAssumption ==
    \A m \in Problems :
        /\ {m.n, m.P, m.BS, m.pps} \subseteq Nat \ {0} /\ m.tenth \in Num
        /\ m.row \in [0 .. m.n - 1 -> SUBSET (0 .. m.n - 1)]
        /\ \A j \in DOMAIN m.row : j \in m.row[j] /\ \A i \in m.row[j] : i >= j

VARIABLES
    main,        \* where the main thread is
    M,           \* the matrix and the options
    LB,          \* the analysis of the matrix and the layout of the factor
    work,        \* what the analysis works on: the tree of supernodes, the chunks
    nz,          \* the numbers
    x,           \* the solution
    pc,          \* where each process is in BNumericSolveFO
    outbox,      \* the calls of Send a process still has to make
    taskQ,       \* the message queue of each process
    remaining,   \* updates a block still waits for
    applied,     \* the updates it has received
    done,        \* how often it has been finished (BlockDoneFO)
    AllBlocks, DiagBlock, NReceived   \* what a process has received, by column

layout     == <<M, LB, work, x>>
blockState == <<remaining, applied, done>>
received   == <<AllBlocks, DiagBlock, NReceived>>
workers    == <<pc, outbox, taskQ, blockState, received>>
vars == <<main, layout, nz, workers>>

Cols    == Range(LB.heads)
Procs   == 0 .. M.P - 1
AllProcs == 0 .. Max({m.P : m \in Problems}) - 1
P_dimj  == SmallDimension(M.P)
P_dimi  == M.P \div P_dimj
Domains == DOMAIN LB.domains
Dummy(d)      == M.n + d - 1
DomainRows(d) == LB.row[Dummy(d)]

RowOf(b) == b[1]
ColOf(b) == b[2]
IsDiag(b) == RowOf(b) = ColOf(b)
Blocks == {b \in DOMAIN LB.structure : ColOf(b) \in Cols}
RowsBelow(k) == Tail(LB.row[k])
ColumnSeq(k) == [n \in DOMAIN RowsBelow(k) |-> <<RowsBelow(k)[n], k>>]
Below1(k) == Range(ColumnSeq(k))

\* FindBlock of the two row partitions, the block an update goes to.
Dest(i, j) == IF i >= j THEN <<i, j>> ELSE <<j, i>>

\* EmbeddedOwner.
Owner(b) == (LB.renumbering[RowOf(b)] % P_dimi) + (LB.renumbering[ColOf(b)] % P_dimj) * P_dimi

\* BlockDoneFO: the processors of its row, then those of its column.
ReceiversRowOnly(b) ==           \* mutant: not sent down the column
    [n \in 1 .. P_dimj |-> (LB.renumbering[RowOf(b)] % P_dimi) + (n - 1) * P_dimi]
Receivers(b) ==
    LET row == LB.renumbering[RowOf(b)] % P_dimi
        col == LB.renumbering[RowOf(b)] % P_dimj
    IN  [n \in 1 .. P_dimj |-> row + (n - 1) * P_dimi]
        \o [n \in 1 .. P_dimi - 1 |->
              (IF n - 1 < row THEN n - 1 ELSE n) + col * P_dimi]

\* The updates of a block: one per domain and per earlier column that has
\* both its row and its column.
ColumnSource(k) == <<"column", k>>
DomainSource(d) == <<"domain", d>>
Sources(b) ==
    {ColumnSource(k) : k \in {c \in Cols : {RowOf(b), ColOf(b)} \subseteq Range(RowsBelow(c))}}
    \cup {DomainSource(d) : d \in {e \in Domains :
                                     {RowOf(b), ColOf(b)} \subseteq Range(DomainRows(e))}}
nmod(b) == Cardinality(Sources(b))                  \* ComputeRemainingFO

ToReceiveBelow(p, k) ==          \* mutant: the diagonal block is not counted
    Cardinality({b \in Blocks : /\ ColOf(b) = k /\ ~IsDiag(b)
                                /\ p \in Range(Receivers(b))})
ToReceive(p, k) ==                                  \* ComputeReceivedFO
    Cardinality({b \in Blocks : ColOf(b) = k /\ p \in Range(Receivers(b))})

\* Messages: a finished block, a domain's update of a block, the end.
BlockMsg(b)     == [type |-> "block", block |-> b]
UpdateMsg(d, i, j) == [type |-> "update", from |-> d, rows |-> <<i, j>>]
EndMsg          == [type |-> "end"]
Messages == {BlockMsg(b) : b \in Blocks} \cup {EndMsg}
            \cup {UpdateMsg(d, b[1], b[2]) : d \in Domains, b \in Blocks}

-----------------------------------------------------------------------------
TypeOK ==
    main = "wait" =>
    /\ pc \in [Procs -> {"domains", "ready", "loop", "stopped"}]
    /\ outbox \in [Procs -> Seq(Procs \X Messages)]
    /\ taskQ \in [Procs -> Seq(Messages)]
    /\ remaining \in [Blocks -> Nat]
    /\ applied \in [Blocks -> SUBSET UNION {Sources(b) : b \in Blocks}]
    /\ done \in [Blocks -> 0 .. 1]
    /\ AllBlocks \in [Procs \X Cols -> Seq(Blocks)]
    /\ DiagBlock \in [Procs \X Cols -> BOOLEAN]
    /\ NReceived \in [Procs \X Cols -> Nat]

Init ==
    /\ main = "read"
    /\ M \in Problems
    /\ LB = Blank(M) /\ work = <<>> /\ nz = <<>> /\ x = <<>>
    /\ pc = <<>> /\ outbox = <<>> /\ taskQ = <<>>
    /\ remaining = <<>> /\ applied = <<>> /\ done = <<>>
    /\ AllBlocks = <<>> /\ DiagBlock = <<>> /\ NReceived = <<>>

-----------------------------------------------------------------------------
(* The main thread.                                                        *)
MainGoes(from, to) == main = from /\ main' = to

ReadSparse ==
    /\ MainGoes("read", "tree")
    /\ M' = [M EXCEPT !.row = LowerToFull(@)]
    /\ UNCHANGED <<LB, work, nz, x, workers>>

Analyse(from, to, result) ==
    MainGoes(from, to) /\ LB' = result /\ work' = <<>> /\ UNCHANGED <<M, nz, x, workers>>
WorkOn(from, to, result) ==
    MainGoes(from, to) /\ work' = result /\ UNCHANGED <<M, LB, nz, x, workers>>

FindTree      == Analyse("tree", "nonzeros", [LB EXCEPT !.T = EliminationTreeFromA(M, LB)])
CountNonzeros == Analyse("nonzeros", "supernodes", [LB EXCEPT !.nz = ComputeNZ(M, LB)])
JoinColumns   == Analyse("supernodes", "link", [LB EXCEPT !.node = FindSupernodes(M, LB)])

\* Amalgamate2.
LinkSupernodes == WorkOn("link", "merge", Linked(M, LB))
TakeSupernode  == main = "merge" /\ work.todo # <<>> /\ WorkOn("merge", "consider", work)
ConsiderMerge  ==
    /\ main = "consider"
    /\ IF Pays(M, work, Head(work.todo)) THEN WorkOn("consider", "join", work)
       ELSE WorkOn("consider", "merge", [work EXCEPT !.todo = Tail(@)])
JoinTwoSupers  == WorkOn("join", "consider", JoinTwoSupers2(work, Head(work.todo)))
Reorder        == main = "merge" /\ work.todo = <<>> /\ Analyse("merge", "work", FixNodeNZAndT(M, LB, work))
FindWork       == Analyse("work", "roots", [LB EXCEPT !.work = ComputeWorkTree(M, LB)])

\* Partition.
StartChunks    == WorkOn("roots", "chunks", FirstChunks(M, LB))
NumberChunks   ==
    /\ main = "chunks"
    /\ IF Balanced(M, LB, work) THEN Analyse("chunks", "blocks", Assign(M, LB, work))
       ELSE WorkOn("chunks", "divide", work)
DivideChunk    == WorkOn("divide", "chunks", Divide(LB, work))

FindBlocks == Analyse("blocks", "structure", CreateBlockedMatrix2(M, LB))
FindRows   == Analyse("structure", "create", FillInStructure(M, LB))

\* The scan that ends a run of columns where partition changes reads what
\* NoSegments left for the columns of a domain, and can run on into one.
RanIntoDomain == \E c \in DOMAIN LB.domain : LB.domain[c] # 0 /\ LB.partition_size[c] < 0

\* AllocateNZ to CREATE, and each process up to the first BARRIER of Go.
Create ==
    /\ MainGoes("create", "wait") /\ ~RanIntoDomain
    /\ nz' = FillIn(M, LB)
    /\ pc' = [p \in Procs |-> "domains"]
    /\ outbox' = [p \in Procs |-> <<>>]
    /\ taskQ' = [p \in Procs |-> <<>>]
    /\ remaining' = [b \in Blocks |-> nmod(b)]
    /\ applied' = [b \in Blocks |-> {}]
    /\ done' = [b \in Blocks |-> 0]
    /\ AllBlocks' = [y \in Procs \X Cols |-> <<>>]
    /\ DiagBlock' = [y \in Procs \X Cols |-> FALSE]
    /\ NReceived' = [y \in Procs \X Cols |-> ToReceive(y[1], y[2])]
    /\ UNCHANGED layout

\* Such a block has more columns than rows; BFac reads past its numbers,
\* and the program ends ("Negative pivot").
Misfit == MainGoes("create", "misfit") /\ RanIntoDomain /\ UNCHANGED <<layout, nz, workers>>

AllStopped == \A p \in Procs : pc[p] = "stopped"

\* WAIT_FOR_END, and the test.
Solve ==
    /\ MainGoes("wait", "end") /\ AllStopped
    /\ x' = TriBSolve(M, LB, nz, CreateVector(M))
    /\ UNCHANGED <<M, LB, work, nz, workers>>

Main ==
    \/ ReadSparse \/ FindTree \/ CountNonzeros \/ JoinColumns
    \/ LinkSupernodes \/ TakeSupernode \/ ConsiderMerge \/ JoinTwoSupers \/ Reorder \/ FindWork
    \/ StartChunks \/ NumberChunks \/ DivideChunk
    \/ FindBlocks \/ FindRows \/ Create \/ Misfit \/ Solve

Follows ==
    [read |-> {"tree"}, tree |-> {"nonzeros"}, nonzeros |-> {"supernodes"}, supernodes |-> {"link"},
     link |-> {"merge"}, merge |-> {"consider", "work"}, consider |-> {"merge", "join"},
     join |-> {"consider"}, work |-> {"roots"}, roots |-> {"chunks"}, chunks |-> {"divide", "blocks"},
     divide |-> {"chunks"}, blocks |-> {"structure"}, structure |-> {"create"}, create |-> {"wait", "misfit"},
     wait |-> {"end"}, end |-> {}, misfit |-> {}]

-----------------------------------------------------------------------------
Goto(p, label) == pc' = [pc EXCEPT ![p] = label]

\* Blocks finished in this order, and the messages that tell of them.
Finish(finished) ==
    done' = [b \in Blocks |-> IF b \in Range(finished) THEN done[b] + 1 ELSE done[b]]
Announce(finished) ==
    FlattenSeq([n \in DOMAIN finished |->
        [m \in DOMAIN Receivers(finished[n]) |->
            <<Receivers(finished[n])[m], BlockMsg(finished[n])>>]])

-----------------------------------------------------------------------------
(* FactorLLDomain of the own domains, each ending in DistributeUpdateFO:   *)
(* one message per pair of rows bj <= bi of the domain.                    *)
Own(p) == SelectSeq([d \in Domains |-> d], LAMBDA d : LB.domains[d] \in Range(LB.proc_domains[p]))
DomainUpdates(d) ==
    LET r == DomainRows(d)
        pairs == [n \in DOMAIN r |-> [m \in 1 .. n |-> <<r[n], r[m]>>]]
        all   == FlattenSeq(pairs)
    IN  [n \in DOMAIN all |-> <<Owner(all[n]), UpdateMsg(d, all[n][1], all[n][2])>>]

SolveDomains(p) ==
    /\ pc[p] = "domains"
    /\ outbox' = [outbox EXCEPT ![p] = FlattenSeq([n \in DOMAIN Own(p) |-> DomainUpdates(Own(p)[n])])]
    /\ Goto(p, "ready")
    /\ UNCHANGED <<taskQ, blockState, received>>

(* DriveParallelFO starts with its diagonal blocks that wait for nothing,  *)
(* of those at the head of a supernode; without blocks it is through.      *)
ReadyHeads(p) ==
    LET heads == SelectSeq(LB.heads, LAMBDA k : LB.node[k] > 0)
    IN  SelectSeq([n \in DOMAIN heads |-> <<heads[n], heads[n]>>],
                  LAMBDA b : Owner(b) = p /\ remaining[b] = 0)
StartReady(p) ==
    /\ pc[p] = "ready" /\ outbox[p] = <<>>
    /\ Finish(ReadyHeads(p))
    /\ outbox' = [outbox EXCEPT ![p] = Announce(ReadyHeads(p))]
    /\ Goto(p, IF LB.heads = <<>> THEN "stopped" ELSE "loop")
    /\ UNCHANGED <<taskQ, remaining, applied, received>>

(* Send: append to the queue of the receiver.                              *)
SendTwice(p) ==                  \* mutant: a message is delivered twice
    /\ outbox[p] # <<>>
    /\ LET m == Head(outbox[p])
       IN  taskQ' = [taskQ EXCEPT ![m[1]] = @ \o <<m[2], m[2]>>]
    /\ outbox' = [outbox EXCEPT ![p] = Tail(@)]
    /\ UNCHANGED <<pc, blockState, received>>
Send(p) ==
    /\ outbox[p] # <<>>
    /\ LET m == Head(outbox[p])
       IN  taskQ' = [taskQ EXCEPT ![m[1]] = Append(@, m[2])]
    /\ outbox' = [outbox EXCEPT ![p] = Tail(@)]
    /\ UNCHANGED <<pc, blockState, received>>

-----------------------------------------------------------------------------
(* GetBlock, and HandleTaskFO by the kind of message.                      *)
Receiving(p) == pc[p] = "loop" /\ outbox[p] = <<>> /\ taskQ[p] # <<>>
Message(p) == Head(taskQ[p])

\* DecrementRemaining for each of a sequence of distinct blocks.
Decremented(updated) ==
    [b \in Blocks |-> IF b \in Range(updated) THEN remaining[b] - 1 ELSE remaining[b]]
Applied(updated, source) ==
    [b \in Blocks |-> IF b \in Range(updated) THEN applied[b] \cup {source} ELSE applied[b]]

\* BlockReadyFO: which of them can be finished now.  An off-diagonal block
\* needs the diagonal block of its column as well.
Ready(p, updated) ==
    SelectSeq(updated, LAMBDA b : /\ Decremented(updated)[b] = 0
                                  /\ IsDiag(b) \/ DiagBlock[p, ColOf(b)])

\* HandleTaskFO counts the block; the last of a column frees its lists.
Count(p, k, list, diag) ==
    LET last == NReceived[p, k] = 1
    IN  /\ NReceived' = [NReceived EXCEPT ![p, k] = @ - 1]
        /\ AllBlocks' = [AllBlocks EXCEPT ![p, k] = IF last THEN <<>> ELSE list]
        /\ DiagBlock' = [DiagBlock EXCEPT ![p, k] = ~last /\ diag]

\* The own blocks of the column that only the diagonal was missing for.
Unblocked(p) ==
    SelectSeq(ColumnSeq(ColOf(Message(p).block)), LAMBDA b : Owner(b) = p /\ remaining[b] = 0)

DiagReceived(p) ==
    LET diag == Message(p).block
        k    == ColOf(diag)
        ends == IF k + LB.partition_size[k] = M.n /\ Owner(diag) = p
                THEN [n \in 1 .. M.P |-> <<n - 1, EndMsg>>] ELSE <<>>
    IN  /\ Receiving(p) /\ Message(p).type = "block" /\ IsDiag(diag)
        /\ taskQ' = [taskQ EXCEPT ![p] = Tail(@)]
        /\ Finish(Unblocked(p))
        /\ outbox' = [outbox EXCEPT ![p] = Announce(Unblocked(p)) \o ends]
        /\ Count(p, k, AllBlocks[p, k], TRUE)
        /\ UNCHANGED <<pc, remaining, applied>>

\* The blocks received before, then the block itself, that have an update
\* with it for a block of the process.
DestWith(block, other) == Dest(RowOf(other), RowOf(block))
Partners(p, block) ==
    SelectSeq(Append(AllBlocks[p, ColOf(block)], block), LAMBDA other : Owner(DestWith(block, other)) = p)
UpdatedBy(p, block) == [n \in DOMAIN Partners(p, block) |-> DestWith(block, Partners(p, block)[n])]

BlockReceived(p) ==
    LET block    == Message(p).block
        k        == ColOf(block)
        updated  == UpdatedBy(p, block)
        finished == Ready(p, updated)
    IN  /\ Receiving(p) /\ Message(p).type = "block" /\ ~IsDiag(block)
        /\ taskQ' = [taskQ EXCEPT ![p] = Tail(@)]
        /\ remaining' = Decremented(updated)
        /\ applied' = Applied(updated, ColumnSource(k))
        /\ Finish(finished)
        /\ outbox' = [outbox EXCEPT ![p] = Announce(finished)]
        /\ Count(p, k, <<block>> \o AllBlocks[p, k], DiagBlock[p, k])
        /\ UNCHANGED pc

HandleUpdate2(p) ==
    LET updated == <<Message(p).rows>>
    IN  /\ Receiving(p) /\ Message(p).type = "update"
        /\ taskQ' = [taskQ EXCEPT ![p] = Tail(@)]
        /\ remaining' = Decremented(updated)
        /\ applied' = Applied(updated, DomainSource(Message(p).from))
        /\ Finish(Ready(p, updated))
        /\ outbox' = [outbox EXCEPT ![p] = Announce(Ready(p, updated))]
        /\ UNCHANGED <<pc, received>>

Terminate(p) ==
    /\ Receiving(p) /\ Message(p).type = "end"
    /\ taskQ' = [taskQ EXCEPT ![p] = Tail(@)]
    /\ Goto(p, "stopped")
    /\ UNCHANGED <<outbox, blockState, received>>

-----------------------------------------------------------------------------
(* The numbers that these steps compute.                                   *)
\* BlockReadyFO: the numbers of blocks that become finished one by one.
Completed(numbers, finished) ==
    LET Complete(z, b) ==
            [z EXCEPT !.block[b] = IF IsDiag(b) THEN BFac(@, M.BS) ELSE BDiv(z.block[<<ColOf(b), ColOf(b)>>], @, M.BS)]
    IN  FoldLeft(Complete, numbers, finished)

Updated(numbers, block, others) ==
    LET Update(z, other) ==
            IF RowOf(block) < RowOf(other) THEN PerformUpdate(LB, z, block, other, DestWith(block, other))
            ELSE PerformUpdate(LB, z, other, block, DestWith(block, other))
    IN  FoldLeft(Update, numbers, others)

DomainUpdated(numbers, d, b) ==
    HandleUpdate2FO(LB, numbers, M.n, d, <<b[1], Dummy(d)>>, <<b[2], Dummy(d)>>, b)

Step(p) ==
    /\ main = "wait" /\ p \in Procs
    /\ \/ SolveDomains(p) /\ nz' = FoldLeft(LAMBDA z, d : FactorLLDomain(M, LB, z, d), nz, Own(p))
       \/ StartReady(p) /\ nz' = Completed(nz, ReadyHeads(p))
       \/ Send(p) /\ UNCHANGED nz
       \/ DiagReceived(p) /\ nz' = Completed(nz, Unblocked(p))
       \/ /\ BlockReceived(p)
          /\ LET block == Message(p).block
             IN  nz' = Completed(Updated(nz, block, Partners(p, block)), Ready(p, UpdatedBy(p, block)))
       \/ /\ HandleUpdate2(p)
          /\ LET m == Message(p)
             IN  nz' = Completed(DomainUpdated(nz, m.from, m.rows), Ready(p, <<m.rows>>))
       \/ Terminate(p) /\ UNCHANGED nz
    /\ UNCHANGED <<main, layout>>

Next == Main \/ (\E p \in AllProcs : Step(p)) \/ (main \in {"end", "misfit"} /\ UNCHANGED vars)

Spec == Init /\ [][Next]_vars

(* A process spins or is scheduled; while it has something to do it goes   *)
(* on.  Whether it has does not depend on the numbers.                     *)
MainMoves == (main = "wait" => AllStopped) /\ main' \in Follows[main]
Moves(p) ==
    /\ main = "wait" /\ p \in Procs
    /\ \/ SolveDomains(p) \/ StartReady(p) \/ Send(p)
       \/ DiagReceived(p) \/ BlockReceived(p) \/ HandleUpdate2(p) \/ Terminate(p)
FairSpec == Spec /\ WF_main(MainMoves) /\ \A p \in AllProcs : WF_workers(Moves(p))

-----------------------------------------------------------------------------
(* A block is finished after all its updates and, below the diagonal,      *)
(* after its diagonal block: the data flow of the factorisation, kept by   *)
(* counters and by whatever order the messages come in.                    *)
Created == main \in {"wait", "end"}
FactorOrder ==
    \A b \in Blocks : done[b] > 0 =>
        /\ applied[b] = Sources(b)
        /\ ~IsDiag(b) => done[<<ColOf(b), ColOf(b)>>] = 1

(* Every update reaches its block at most once and is counted down: this   *)
(* is what "*** Error rem ***" in DecrementRemaining (line 285) checks, and *)
(* more, for a lost and a doubled update could cancel out there.           *)
UpdatesExact == Created =>
    /\ FactorOrder
    /\ \A b \in Blocks : /\ applied[b] \subseteq Sources(b)
                         /\ remaining[b] = Cardinality(Sources(b) \ applied[b])

(* Types hold, and when a process frees the lists of a column (line 175)   *)
(* all its own blocks of the column are finished and need the diagonal no  *)
(* more.                                                                   *)
FreedInTime == Created =>
    /\ TypeOK
    /\ \A p \in Procs, k \in Cols :
        NReceived[p, k] = 0 => \A b \in Below1(k) : Owner(b) = p => done[b] = 1

\* The rows of column c of the factor for which there is room, and what
\* elimination column by column fills of them.
Room(c) ==
    IF LB.domain[c] # 0 THEN Range(LB.row[c])
    ELSE LET k == HeadOf(LB.partition_size, c)
         IN  {r \in UNION {{i + o : o \in Range(LB.structure[<<i, k>>])} : i \in Range(LB.row[k])} : r >= c}
Eliminated ==
    After(0, M.n - 1, LAMBDA E, c : E \cup {<<a[1], b[1]>> : a, b \in {e \in E : e[2] = c /\ e[1] > c}},
          UNION {{<<LB.INVP[i], LB.INVP[j]>> : i \in M.row[j]} : j \in DOMAIN M.row})

(* The layout of the factor fits the matrix, however supernodes were       *)
(* joined: the order is a permutation; there is room for whatever          *)
(* elimination fills, and as much as main counted on (CheckColLength); the *)
(* parent of a column is that, or the head of the supernode that, its      *)
(* first row below the diagonal is in; rows of a column find each other    *)
(* again in their own columns, so that no update is without a place        *)
(* (FindBlock, FindRelativeIndices); a diagonal block has as many rows as  *)
(* columns, which the kernels count on; a domain is one subtree whose      *)
(* columns have rows of no other domain.  One thing of these does not hold *)
(* for every matrix: where the scan of block2.C:85-88 ran into a domain    *)
(* the diagonal block is not square.                                       *)
LayoutExact == main = "create" =>
    LET columns == 0 .. M.n - 1
        below(c) == Room(c) \ {c}
        domain(c) == {d \in Domains : c \in LeftMost(LB, LB.domains[d]) .. LB.domains[d]}
    IN  /\ {LB.PERM[j] : j \in columns} = columns
        /\ \A j \in columns : LB.INVP[LB.PERM[j]] = j
        /\ RanIntoDomain \/ \A k \in Cols : Len(Rows(LB, <<k, k>>)) = LB.partition_size[k]
        /\ \A e \in Eliminated : e[1] >= e[2] => e[1] \in Room(e[2])
        /\ \A c \in columns :
            /\ LB.nz[c] = Cardinality(Room(c))
            /\ LET r == Min(below(c) \cup {M.n})
               IN  LB.T[c] = IF r = c + 1 THEN r ELSE HeadOf(LB.node, r)
            /\ \A r \in below(c) : {q \in Room(c) : q >= r} \subseteq Room(r)
            /\ Cardinality(domain(c)) = (IF LB.domain[c] = 0 THEN 0 ELSE 1)
            /\ \A r \in Room(c) : LB.domain[r] # 0 => domain(r) = domain(c)
        /\ \A h \in Heads(LB.node) : LB.n_nz[h] = LB.nz[h]

(* When the first process takes an end message the factor is complete:     *)
(* nobody stops while a block still waits for it (CheckRemaining, lines    *)
(* 496-511).  Only the owner of the last diagonal block sends the end, so  *)
(* that this rests on every update leading there.  And the factor is right *)
(* whatever the order of the updates: the system whose solution is all     *)
(* ones is solved by all ones ("PASSED", solve.C:318).                     *)
EndMeansDone ==
    /\ (main = "wait" /\ \E p \in Procs : pc[p] = "stopped") =>
           \A b \in Blocks : remaining[b] = 0 /\ done[b] = 1
    /\ main = "end" => ComputeNorm(x) = 0

(* The main thread comes to its end, if the layout is one to factor in.    *)
Termination == <>(main = "end" \/ (main = "misfit" /\ RanIntoDomain))
=============================================================================
