----------------------------- MODULE MCCholesky -----------------------------
(***************************************************************************)
(* Instances of CholeskyFanOut for TLC: matrices that differ in the        *)
(* processes (a grid of 2 x 2, 1 x 3, 1 x 2, one), the block size and what *)
(* the analysis makes of them.  tenth is chosen so that every pivot is a   *)
(* square modulo Q.                                                        *)
(***************************************************************************)
EXTENDS CholeskyFanOut

\* Four domains, two blocked columns, a grid of processes.
FourDomains == [n |-> 7, P |-> 4, BS |-> 2, pps |-> 2, tenth |-> 12,
                row |-> Lower(<<{0, 5}, {1, 4}, {2, 6}, {3, 5}, {4, 5, 6}, {5}, {6}>>)]
\* Supernodes are joined and a head is a partial block.
Joined == [n |-> 10, P |-> 4, BS |-> 2, pps |-> 3, tenth |-> 3,
           row |-> Lower(<<{0, 6}, {1, 6}, {2, 5}, {3, 9}, {4, 5, 6}, {5, 6, 7, 9}, {6}, {7},
                           {8, 9}, {9}>>)]
\* Domains of several columns, blocks of one column.
Supernodes == [n |-> 10, P |-> 2, BS |-> 1, pps |-> 2, tenth |-> 4,
               row |-> Lower(<<{0, 1, 9}, {1, 7}, {2, 3, 4, 6}, {3, 4}, {4}, {5, 6, 7}, {6, 8},
                               {7, 8, 9}, {8}, {9}>>)]
\* Three processes.
Three == [n |-> 10, P |-> 3, BS |-> 2, pps |-> 3, tenth |-> 19,
          row |-> Lower(<<{0, 5}, {1, 4}, {2, 5}, {3, 7}, {4, 7, 9}, {5, 7}, {6, 7}, {7, 8},
                          {8}, {9}>>)]
\* One process and one domain, no blocks at all.
Alone == [n |-> 7, P |-> 1, BS |-> 4, pps |-> 1, tenth |-> 15,
          row |-> Lower(<<{0, 2}, {1, 5}, {2, 5}, {3, 5}, {4, 5}, {5, 6}, {6}>>)]

\* Blocks of one column, cut from supernodes of several.
Narrow == [n |-> 9, P |-> 2, BS |-> 1, pps |-> 2, tenth |-> 55,
              row |-> Lower(<<{0, 1, 6}, {1}, {2, 3}, {3, 4, 5}, {4, 7}, {5, 6, 7}, {6, 7}, {7, 8}, {8}>>)]
\* The scan for partitions runs into the domain after a supernode: the
\* program, with -p2 -B4 -C32, gives this layout and ends.
Overrun == [n |-> 6, P |-> 2, BS |-> 2, pps |-> 4, tenth |-> 12,
            row |-> Lower(<<{0, 3, 4}, {1, 4}, {2, 5}, {3}, {4, 5}, {5}>>)]

Matrices == {FourDomains, Joined, Supernodes, Three, Alone, Narrow, Overrun}
=============================================================================
