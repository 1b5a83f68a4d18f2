----------------------------- MODULE FftSixStep -----------------------------
(***************************************************************************)
(* fft: the six-step transform of N = 2^M complex numbers, which lie as    *)
(* rootN columns of rootN numbers.  A complex number is a number modulo Q, *)
(* exp(-2 pi i / N) is the root of unity w, and a conjugate its inverse.   *)
(***************************************************************************)
EXTENDS Modular, Sequences

CONSTANTS M, P, num_cache_lines,
          w,          \* a primitive N-th root of unity modulo Q
          input       \* what InitX draws: input[<<column, element>>]

N     == 2 ^ M
rootN == 2 ^ (M \div 2)
Procs == 0 .. P - 1
Index == 0 .. rootN - 1
Cells == Index \X Index

MyFirst(p) == (rootN * p) \div P
MyLast(p)  == (rootN * (p + 1)) \div P

\* u: cos and sin of 2 pi j / (2 n1) at base + j; u2: those of 2 pi i j / N.
\* With direction -1 the sine changes its sign.
Unity(direction, exponent) == Power(w, (direction * exponent) % N)
InitU[x \in 0 .. rootN - 2] ==
    LET n1 == CHOOSE k \in {2 ^ q : q \in 0 .. M} : k - 1 <= x /\ x < 2 * k - 1
    IN  (x - (n1 - 1)) * (N \div (2 * n1))
InitU2[c \in Cells] == c[1] * c[2]

BitReverse(bits, k) == Iterate(0, bits - 1, LAMBDA j, i : 2 * j + ((k \div 2 ^ i) % 2), 0)
Reverse(bits, x) == [k \in DOMAIN x |-> x[BitReverse(bits, k)]]

\* One stage of butterflies joins two halves of length Lstar.
Stage(direction, x, q) ==
    LET L == 2 ^ q
        Lstar == L \div 2
    IN  [e \in DOMAIN x |->
            LET j == e % L
                tau(k) == Unity(direction, InitU[Lstar - 1 + (k % Lstar)]) * x[(e - j) + Lstar + (k % Lstar)]
            IN  IF j < Lstar THEN (x[e] + tau(j)) % Q ELSE (x[e - Lstar] - tau(j)) % Q]
FFT1DOnce(direction, x) ==
    Iterate(1, M \div 2, LAMBDA y, q : Stage(direction, y, q), Reverse(M \div 2, x))

\* Transpose copies the rows of each process by square blocks.
Chunks(p)   == LET own == MyLast(p) - MyFirst(p)
               IN  (2 * own + num_cache_lines - 1) \div num_cache_lines
BlkSize(p)  == (MyLast(p) - MyFirst(p)) \div Chunks(p)
Covered(p)  == {MyFirst(p) + o : o \in 0 .. Chunks(p) * BlkSize(p) - 1}
FromRows(p) == UNION {{(l * (rootN \div P)) + o : o \in 0 .. Chunks(p) * BlkSize(p) - 1} : l \in Procs}
Transpose(src, dest, p) ==
    [c \in Cells |-> IF c[1] \in Covered(p) /\ c[2] \in FromRows(p) THEN src[<<c[2], c[1]>>] ELSE dest[c]]

Mine(p) == MyFirst(p) .. MyLast(p) - 1
Columns(x, p, f(_, _)) ==
    LET new == [j \in Mine(p) |-> f(j, [i \in Index |-> x[<<j, i>>]])]
    IN  [c \in Cells |-> IF c[1] \in Mine(p) THEN new[c[1]][c[2]] ELSE x[c]]
TwiddleOneCol(direction, j, x) == [i \in Index |-> (Unity(direction, InitU2[<<j, i>>]) * x[i]) % Q]
Scale(direction, x) == IF direction = -1 THEN [i \in Index |-> Over(x[i], N % Q)] ELSE x

BARRIER == [do |-> "BARRIER"]
FFT1D(direction) ==
    << BARRIER, [do |-> "to scratch"], [do |-> "twiddled", direction |-> direction],
       BARRIER, [do |-> "to x"], [do |-> "scaled", direction |-> direction],
       BARRIER, [do |-> "to scratch"], BARRIER, [do |-> "copy"], BARRIER >>
\* SlaveStart with the option -t: forward, and back again.
Code == <<BARRIER, BARRIER>> \o FFT1D(1) \o FFT1D(-1)

Start == [x |-> input, scratch |-> [c \in Cells |-> 0]]
Do(s, p, m) ==
    CASE s.do = "to scratch" -> [m EXCEPT !.scratch = Transpose(m.x, @, p)]
      [] s.do = "to x"       -> [m EXCEPT !.x = Transpose(m.scratch, @, p)]
      [] s.do = "twiddled"   -> [m EXCEPT !.scratch = Columns(@, p, LAMBDA j, x :
                                    TwiddleOneCol(s.direction, j, FFT1DOnce(s.direction, x)))]
      [] s.do = "scaled"     -> [m EXCEPT !.x = Columns(@, p, LAMBDA j, x :
                                    Scale(s.direction, FFT1DOnce(s.direction, x)))]
      [] s.do = "copy"       -> [m EXCEPT !.x = Columns(@, p, LAMBDA j, x : [i \in Index |-> m.scratch[<<j, i>>]])]

\* The discrete Fourier transform, term by term; number k lies at
\* <<k \div rootN, k % rootN>>.
Cell(k) == <<k \div rootN, k % rootN>>
DFT == [c \in Cells |-> SumOver(0, N - 1, LAMBDA k : Power(w, (k * (c[1] * rootN + c[2])) % N) * input[Cell(k)])]
=============================================================================
