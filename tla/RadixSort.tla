----------------------------- MODULE RadixSort -----------------------------
(***************************************************************************)
(* The parallel radix sort of radix/src/radix.C: slave_sort() on P         *)
(* processes.  For each digit every process builds the histogram of its    *)
(* keys, the histograms are summed in a binary prefix tree whose nodes are *)
(* synchronised by pause flags (an up-sweep that adds densities and ranks, *)
(* a down-sweep that hands the total densities back), each process derives *)
(* the final rank of its keys and permutes them into the other key array.  *)
(*                                                                         *)
(* Between two synchronisations a process works on data no other process   *)
(* writes, so that such a stretch is one action.  BARRIER opens in one     *)
(* step for all (ParmacsBarrier).  The pause macros are modelled with      *)
(* their condition variable: WAITPAUSE tests the flag once, with `if'.     *)
(***************************************************************************)
EXTENDS Integers, Sequences, FiniteSets, SequencesExt

CONSTANTS
    P,           \* number_of_processors
    NumKeys,     \* num_keys
    Radix,       \* radix
    MaxKey,      \* max_key
    Inputs,      \* the key arrays init() may produce, functions on Slots
    MaxSpurious  \* bound: condition-variable wakeups without a broadcast

Procs  == 0 .. P - 1
Slots  == 0 .. NumKeys - 1
Digits == 0 .. Radix - 1
Nodes  == 0 .. 2 * P - 1

RadixAssumption ==
    /\ P \in Nat \ {0} /\ NumKeys \in Nat \ {0} /\ MaxKey \in Nat \ {0}
    /\ Radix \in Nat /\ Radix > 1
    /\ Inputs \subseteq [Slots -> 0 .. MaxKey]
    /\ MaxSpurious \in Nat

VARIABLES
    input,       \* what init() will produce
    pc, loopnum, \* where each process is, and for which digit
    shift,       \* how far it has shifted MyNum in the loop it is in
    wait,        \* the node it waits for in pthread_cond_wait, or a mark below
    flag,        \* done.Flag of each node
    key,         \* the two key arrays
    rank_me,     \* each process' histogram
    densities, ranks,       \* of each node of prefix_tree
    rank_ff,     \* each process' final rank of its next key of a digit
    final, spurious

tree == <<densities, ranks>>
vars == <<input, pc, loopnum, shift, wait, flag, key, rank_me, tree, rank_ff,
          final, spurious>>

Running == -1    \* not in pthread_cond_wait
Woken   == -2    \* about to return from it
NoFinal == 2     \* global->final is not set yet

-----------------------------------------------------------------------------
(* Arithmetic of the program.                                              *)

\* get_max_digits: the number of times max_key can be divided by radix.
MaxDigits == CHOOSE d \in 1 .. MaxKey : /\ MaxKey \div Radix^d = 0
                                        /\ d > 1 => MaxKey \div Radix^(d - 1) # 0

\* (key & bb) >> shiftnum
DigitOf(k, loop) == (k \div Radix^loop) % Radix

Shr(x, k) == x \div 2^k
TrailingOnes(x) == CHOOSE k \in 0 .. x : x % 2^(k + 1) = 2^k - 1

\* base after k rounds of base += level; level >>= 1, from P.
Base(k) == FoldSet(LAMBDA j, sum : sum + Shr(P, j), 0, 0 .. k - 1)
Node(p, k) == Base(k) + Shr(p, k)      \* prefix_tree[base + offset]

\* key_partition: the loop with quotient, remainder and carry of main().
KeyStart(p) == (p * NumKeys) \div P
Mine(p) == KeyStart(p) .. KeyStart(p + 1) - 1

From(loop) == loop % 2                 \* from and to are swapped every digit
To(loop)   == 1 - From(loop)

Add(f, g) == [d \in Digits |-> f[d] + g[d]]
Zero == [d \in Digits |-> 0]
Histogram(keys, S, loop) ==
    [d \in Digits |-> Cardinality({i \in S : DigitOf(keys[i], loop) = d})]
Prefix(h) == [d \in Digits |-> FoldSet(LAMBDA e, sum : sum + h[e], 0, 0 .. d)]

-----------------------------------------------------------------------------
PCs == {"fill", "hist", "leaf", "up", "setup", "down", "setdown", "rank",
        "permute", "end", "done"}
       \cup {"b_key", "b_hist", "b_up", "b_rank", "b_permute", "b_end"}

\* No pthread_cond_wait has returned without a broadcast so far: what
\* WAITPAUSE relies on (TestSortPasses shows why).
Undisturbed == spurious = 0

\* What the arrays of ranks hold: numbers of keys.
Counts == IF Undisturbed THEN 0 .. NumKeys ELSE Nat

TypeOK ==
    /\ input \in Inputs
    /\ pc \in [Procs -> PCs]
    /\ loopnum \in [Procs -> 0 .. MaxDigits - 1]
    /\ shift \in [Procs -> 0 .. P]
    /\ wait \in [Procs -> Nodes \cup {Running, Woken}]
    /\ flag \in [Nodes -> {0, 1}]
    /\ key \in [{0, 1} -> [Slots -> 0 .. MaxKey]]
    /\ rank_me \in [Procs -> [Digits -> 0 .. NumKeys]]
    /\ densities \in [Nodes -> [Digits -> Counts]]
    /\ ranks \in [Nodes -> [Digits -> Counts]]
    /\ rank_ff \in [Procs -> [Digits -> Counts]]
    /\ final \in {0, 1, NoFinal}
    /\ spurious \in 0 .. MaxSpurious

Init ==
    /\ input \in Inputs
    /\ pc = [p \in Procs |-> "fill"]
    /\ loopnum = [p \in Procs |-> 0]
    /\ shift = [p \in Procs |-> 0]
    /\ wait = [p \in Procs |-> Running]
    /\ flag = [n \in Nodes |-> 0]
    /\ key = [f \in {0, 1} |-> [i \in Slots |-> 0]]
    /\ rank_me = [p \in Procs |-> Zero]
    /\ densities = [n \in Nodes |-> Zero]
    /\ ranks = [n \in Nodes |-> Zero]
    /\ rank_ff = [p \in Procs |-> Zero]
    /\ final = NoFinal
    /\ spurious = 0

Goto(p, label) == pc' = [pc EXCEPT ![p] = label]

\* init(key_start, key_stop, from)
Fill(p) ==
    /\ pc[p] = "fill"
    /\ key' = [key EXCEPT ![0] = [i \in Slots |-> IF i \in Mine(p) THEN input[i] ELSE @[i]]]
    /\ Goto(p, "b_key")
    /\ UNCHANGED <<input, loopnum, shift, wait, flag, rank_me, tree, rank_ff, final,
                   spurious>>

MakeHistogram(p) ==
    /\ pc[p] = "hist"
    /\ rank_me' = [rank_me EXCEPT ![p] =
                     Histogram(key[From(loopnum[p])], Mine(p), loopnum[p])]
    /\ Goto(p, "b_hist")
    /\ UNCHANGED <<input, loopnum, shift, wait, flag, key, tree, rank_ff, final, spurious>>

-----------------------------------------------------------------------------
(* The pause macros.                                                       *)

SetPauseSilently(n) ==                 \* mutant: nobody is woken
    /\ flag' = [flag EXCEPT ![n] = 1]
    /\ UNCHANGED wait
\* SETPAUSE: set the flag and wake whoever waits for it.
SetPause(n) ==
    /\ flag' = [flag EXCEPT ![n] = 1]
    /\ wait' = [q \in Procs |-> IF wait[q] = n THEN Woken ELSE wait[q]]

\* WAITPAUSE when it has to wait.
Block(p, n) ==
    /\ wait[p] = Running /\ flag[n] = 0
    /\ wait' = [wait EXCEPT ![p] = n]
    /\ UNCHANGED <<input, pc, loopnum, shift, flag, key, rank_me, tree, rank_ff, final,
                   spurious>>

\* WAITPAUSE; CLEARPAUSE when it goes on: the mutex is held in between.
Pass(p, n) ==
    /\ wait[p] = Woken \/ (wait[p] = Running /\ flag[n] = 1)
    /\ wait' = [wait EXCEPT ![p] = Running]
    /\ flag' = [flag EXCEPT ![n] = 0]

SpuriousWakeup(p) ==
    /\ wait[p] \in Nodes /\ spurious < MaxSpurious
    /\ wait' = [wait EXCEPT ![p] = Woken]
    /\ spurious' = spurious + 1
    /\ UNCHANGED <<input, pc, loopnum, shift, flag, key, rank_me, tree, rank_ff, final>>

-----------------------------------------------------------------------------
(* The up-sweep: an odd offset climbs, adding its left neighbour's node to *)
(* its own; an even one leaves its node to the right neighbour.            *)
IsOdd(p, k) == Shr(p, k) % 2 = 1

Leaf(p) ==
    /\ pc[p] = "leaf"
    /\ densities' = [densities EXCEPT ![p] = Prefix(rank_me[p])]
    /\ ranks' = [ranks EXCEPT ![p] = rank_me[p]]
    /\ Goto(p, IF IsOdd(p, 0) THEN "up" ELSE "setup")
    /\ UNCHANGED <<input, loopnum, shift, wait, flag, key, rank_me, rank_ff, final,
                   spurious>>

UpWait(p) == pc[p] = "up" /\ Block(p, Node(p, shift[p] + 1))

UpCombine(p) ==
    LET k == shift[p]
        r == Node(p, k)
        l == r - 1
        n == Node(p, k + 1)
        rightmost == Shr(p, k + 1) = Shr(P, k + 1) - 1
    IN  /\ pc[p] = "up"
        /\ Pass(p, n)
        /\ densities' = [densities EXCEPT ![n] = Add(densities[r], densities[l])]
        /\ ranks' = IF rightmost THEN ranks
                    ELSE [ranks EXCEPT ![n] = Add(ranks[r], ranks[l])]
        /\ shift' = [shift EXCEPT ![p] = k + 1]
        /\ Goto(p, IF IsOdd(p, k + 1) THEN "up" ELSE "setup")
        /\ UNCHANGED <<input, loopnum, key, rank_me, rank_ff, final, spurious>>

UpSet(p) ==
    /\ pc[p] = "setup"
    /\ SetPause(Node(p, shift[p] + 1))
    /\ shift' = [shift EXCEPT ![p] = 0]
    /\ Goto(p, "b_up")
    /\ UNCHANGED <<input, loopnum, key, rank_me, tree, rank_ff, final, spurious>>

-----------------------------------------------------------------------------
(* The down-sweep: total densities go from the root back to every leaf.    *)
Height(p) == TrailingOnes(p)
MyNode(p) == IF p = P - 1 THEN 2 * P - 2 ELSE Node(p, Height(p))
TheirNodeParent(p) == Node(p, Height(p) + 1)    \* mutant: one level up only
TheirNode(p) ==
    LET k == Height(p) + 1 IN Node(p, k + TrailingOnes(Shr(p, k)))

DownWait(p) == pc[p] = "down" /\ p # P - 1 /\ Block(p, MyNode(p))

Down(p) ==
    /\ pc[p] = "down"
    /\ IF p # P - 1
       THEN /\ Pass(p, MyNode(p))
            /\ densities' = [densities EXCEPT ![MyNode(p)] = densities[TheirNode(p)]]
       ELSE UNCHANGED <<wait, flag, densities>>
    /\ Goto(p, "setdown")
    /\ UNCHANGED <<input, loopnum, shift, key, rank_me, ranks, rank_ff, final, spurious>>

DownSet(p) ==
    LET k == shift[p]
    IN  /\ pc[p] = "setdown"
        /\ IF IsOdd(p, k)
           THEN /\ SetPause(Node(p, k) - 1)
                /\ shift' = [shift EXCEPT ![p] = k + 1]
                /\ UNCHANGED pc
           ELSE /\ shift' = [shift EXCEPT ![p] = 0]
                /\ Goto(p, "rank")
                /\ UNCHANGED <<wait, flag>>
        /\ UNCHANGED <<input, loopnum, key, rank_me, tree, rank_ff, final, spurious>>

(* rank_ff: the keys of smaller digits, and those of this digit to my left. *)
LeftSiblings(p) == {Node(p, k) - 1 : k \in {j \in 0 .. P : IsOdd(p, j)}}
Rank(p) ==
    /\ pc[p] = "rank"
    /\ rank_ff' = [rank_ff EXCEPT ![p] =
         [d \in Digits |->
            FoldSet(LAMBDA n, sum : sum + ranks[n][d],
                    IF d = 0 THEN 0 ELSE densities[MyNode(p)][d - 1], LeftSiblings(p))]]
    /\ Goto(p, "b_rank")
    /\ UNCHANGED <<input, loopnum, shift, wait, flag, key, rank_me, tree, final, spurious>>

-----------------------------------------------------------------------------
\* Where process p puts the key of slot i: after its earlier equal digits.
Target(p, i, loop) ==
    LET keys == key[From(loop)]
        d    == DigitOf(keys[i], loop)
    IN  rank_ff[p][d] + Cardinality({j \in Mine(p) : j < i /\ DigitOf(keys[j], loop) = d})

Permute(p) ==
    LET loop == loopnum[p]
    IN  /\ pc[p] = "permute"
        /\ key' = [key EXCEPT ![To(loop)] = [t \in Slots |->
                     IF \E i \in Mine(p) : Target(p, i, loop) = t
                     THEN key[From(loop)][CHOOSE i \in Mine(p) : Target(p, i, loop) = t]
                     ELSE @[t]]]
        /\ rank_ff' = [rank_ff EXCEPT ![p] =
                         Add(@, Histogram(key[From(loop)], Mine(p), loop))]
        /\ Goto(p, "b_permute")
        /\ UNCHANGED <<input, loopnum, shift, wait, flag, rank_me, tree, final, spurious>>

\* The last lines: process 0 says which array holds the result.
End(p) ==
    /\ pc[p] = "end"
    /\ final' = IF p = 0 THEN To(loopnum[p]) ELSE final
    /\ Goto(p, "done")
    /\ UNCHANGED <<input, loopnum, shift, wait, flag, key, rank_me, tree, rank_ff, spurious>>

-----------------------------------------------------------------------------
(* The barriers, and where they lead.                                      *)
AllAt(label) == \A p \in Procs : pc[p] = label

Open(label, next) ==
    /\ AllAt(label)
    /\ pc' = [p \in Procs |-> next]
    /\ UNCHANGED <<input, loopnum, shift, wait, flag, key, rank_me, tree, rank_ff, final,
                   spurious>>

OpenAfterPermute ==
    /\ AllAt("b_permute")
    /\ IF loopnum[0] < MaxDigits - 1
       THEN /\ pc' = [p \in Procs |-> "hist"]
            /\ loopnum' = [p \in Procs |-> loopnum[p] + 1]
       ELSE pc' = [p \in Procs |-> "b_end"] /\ UNCHANGED loopnum
    /\ UNCHANGED <<input, shift, wait, flag, key, rank_me, tree, rank_ff, final, spurious>>

Barriers ==
    \/ Open("b_key", "hist") \/ Open("b_hist", "leaf") \/ Open("b_up", "down")
    \/ Open("b_rank", "permute") \/ OpenAfterPermute \/ Open("b_end", "end")

Step(p) ==
    \/ Fill(p) \/ MakeHistogram(p)
    \/ Leaf(p) \/ UpWait(p) \/ UpCombine(p) \/ UpSet(p)
    \/ DownWait(p) \/ Down(p) \/ DownSet(p) \/ Rank(p)
    \/ Permute(p) \/ End(p)

Terminated == AllAt("done")

Next ==
    \/ Barriers
    \/ \E p \in Procs : Step(p) \/ SpuriousWakeup(p)
    \/ Terminated /\ UNCHANGED vars

Spec == Init /\ [][Next]_vars

(* A thread that can run does; no wakeup is owed to a waiting thread.      *)
FairSpec == Spec /\ WF_vars(Barriers) /\ \A p \in Procs : WF_vars(Step(p))

-----------------------------------------------------------------------------
(* Before the permutation (line 613) every process knows, for each digit,  *)
(* how many keys go before its own: those of smaller digits anywhere and   *)
(* those of the same digit of lower processes.  This is what the two       *)
(* sweeps of lines 514-607 compute together.  Types hold, and at the       *)
(* barriers around the sweeps no flag is left over that a later WAITPAUSE  *)
(* could take for its own; for node 2P-1, which the last process sets at   *)
(* the top of the up-sweep (line 546), nobody waits.                       *)
RanksExact ==
    /\ TypeOK
    /\ Undisturbed /\ (AllAt("b_hist") \/ AllAt("b_up") \/ AllAt("b_rank")) =>
        \A n \in Nodes \ {2 * P - 1} : flag[n] = 0
    /\ Undisturbed /\ AllAt("b_rank") =>
        \A p \in Procs, d \in Digits :
            LET D(i) == DigitOf(key[From(loopnum[p])][i], loopnum[p])
            IN  rank_ff[p][d] = Cardinality({i \in Slots : D(i) < d
                                             \/ (D(i) = d /\ i < KeyStart(p))})

(* test_sort (lines 806-829) finds no mistake in key[final], and the keys  *)
(* are those that init() produced.                                         *)
SortedAtEnd ==
    Undisturbed /\ Terminated =>
        LET result == key[final]
        IN  /\ \A i \in Slots \ {NumKeys - 1} : result[i] <= result[i + 1]
            /\ \A k \in 0 .. MaxKey :
                 Cardinality({i \in Slots : result[i] = k})
                   = Cardinality({i \in Slots : input[i] = k})

(* The sort is exact: the ranks of every pass, and what test_sort sees.   *)
SortExact == RanksExact /\ SortedAtEnd

(* Every process returns from slave_sort, so WAIT_FOR_END does.            *)
Termination == <>Terminated
=============================================================================
