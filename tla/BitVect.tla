------------------------------ MODULE BitVect ------------------------------
(***************************************************************************)
(* internal/util/bits*.go and bitvect*.go: bit operations on byte slices   *)
(* and the transposition of bit matrices, both split between goroutines.   *)
(*                                                                         *)
(* A byte slice is a row of bits, bit i being bit i % ByteBits of byte     *)
(* i / ByteBits (IsBitSet).  A bit is a formal sum over GF(2): the set of  *)
(* random bits that are XORed in it.  Two bits with the same sum are equal *)
(* whatever was drawn, so one run stands for all the random values.        *)
(*                                                                         *)
(* The goroutines of a call write disjoint parts of its result, which its  *)
(* WaitGroup returns complete: a call is a function of its arguments and   *)
(* of the number of goroutines, of which the shares are computed here as   *)
(* in the code.                                                            *)
(***************************************************************************)
EXTENDS Integers, Sequences, FiniteSets

CONSTANTS ByteBits,     \* 8 in the code
          WordBits,     \* bits of a word, 64 in the code
          WordsPerRow,  \* words in a row of a block, 8 in the code
          MinShare,     \* bytes per goroutine for which to start any, 16384
          Sizes         \* of the blocks each round swaps: 256, 128, ..., 1

bitVectWidth == WordBits * WordsPerRow

\* The size of the blocks that round i leaves in place, or swaps next.
Size(i) == IF i = 0 THEN bitVectWidth ELSE Sizes[i]

\* The rounds halve the blocks down to one bit.  A block that is swapped is a
\* number of whole words wide, or lies with its neighbour in one word.
ASSUME BitVectAssumption ==
    /\ {ByteBits, WordBits, WordsPerRow, MinShare} \subseteq Nat \ {0}
    /\ WordBits % ByteBits = 0
    /\ Sizes \in Seq(Nat \ {0}) /\ Size(Len(Sizes)) = 1
    /\ \A i \in 1..Len(Sizes) :
          /\ Size(i - 1) = 2 * Size(i)
          /\ Size(i) % WordBits = 0 \/ WordBits % Size(i - 1) = 0

----------------------------------------------------------------------------
(* Bits.                                                                   *)

Zero == {}
Plus(x, y) == (x \ y) \cup (y \ x)

\* x & 1 and x & 0.
AndBit(x, set) == IF set THEN x ELSE Zero

Row(n) == 0..(n - 1)
ZeroRow(n) == [i \in Row(n) |-> Zero]
Width(row) == Cardinality(DOMAIN row)

Pad(n, multiple) == IF n % multiple = 0 THEN n ELSE n + (multiple - (n % multiple))

----------------------------------------------------------------------------
(* Bit operations.                                                         *)

\* The visits of a bit operation on bytes from..to-1 to one of them: one for
\* each whole word it is in, one for each excess byte it is.
Visits(byte, from, to) ==
    LET len == to - from
        wordBytes == WordBits \div ByteBits
        words == {i \in 0..((len \div wordBytes) - 1) :
                     byte - from \in (i * wordBytes)..((i + 1) * wordBytes - 1)}
        excess == {j \in 0..((len % wordBytes) - 1) : byte = to - j - 1}
    IN ({"word"} \X words) \cup ({"excess"} \X excess)

\* The shares of a slice of len bytes, as <<from, to>>: one, or one for each
\* goroutine, the last of which also takes what the division leaves over.
Shares(len, nworkers) ==
    IF len < nworkers * MinShare THEN {<<0, len>>}
    ELSE LET blockSize == len \div nworkers
         IN {<<blockSize * w, IF w = nworkers - 1 THEN len ELSE blockSize * (w + 1)>> :
               w \in 0..(nworkers - 1)}

\* How often the goroutines together visit a byte of a slice of len bytes.
Times(byte, len, nworkers) ==
    Cardinality(UNION {{s} \X Visits(byte, s[1], s[2]) : s \in Shares(len, nworkers)})

\* ConcurrentBitOp and ConcurrentDoubleBitOp: f, which takes bit i of dst to
\* its new value, is applied as often as the goroutines visit its byte.
BitOp(f(_, _), dst, nworkers) ==
    LET New(i) == LET times == Times(i \div ByteBits, Width(dst) \div ByteBits, nworkers)
                  IN CASE times = 0 -> dst[i]
                       [] times = 1 -> f(i, dst[i])
                       [] OTHER     -> f(i, f(i, dst[i]))
    IN [i \in DOMAIN dst |-> New(i)]

Xor(dst, a, nworkers) == BitOp(LAMBDA i, x : Plus(x, a[i]), dst, nworkers)

DoubleXor(dst, a, b, nworkers) ==
    BitOp(LAMBDA i, x : Plus(Plus(x, a[i]), b[i]), dst, nworkers)

\* a holds bits that are known: TRUE or FALSE.
AndXor(dst, a, b, nworkers) ==
    BitOp(LAMBDA i, x : Plus(AndBit(x, a[i]), b[i]), dst, nworkers)

----------------------------------------------------------------------------
(* The transposition of one block: a BitVect is a function from positions  *)
(* to words, row by row, and a word one from bit numbers to bits.          *)

Odd(n, size) == (n \div size) % 2 = 1

\* Blocks of h words by h * WordBits rows change places about the diagonal.
SwapBlocks(set, h) ==
    LET far == (h * WordBits * WordsPerRow) - h
    IN [p \in DOMAIN set |->
          LET below == Odd(p \div WordsPerRow, h * WordBits)
              right == Odd(p % WordsPerRow, h)
          IN CASE ~below /\ right -> set[p + far]
               [] below /\ ~right -> set[p - far]
               [] OTHER           -> set[p]]

\* The masks of transpose64: of every two runs of width bits the upper one.
Masked(k, width) == Odd(k, width)

\* swap of every row a of a 64 by 64 block with row a + width:
\* t = (set[a] ^ (set[b] << width)) & mask, a ^= t and b ^= t >> width.
SwapBits(set, width) ==
    LET down == width * WordsPerRow
        t(a) == [k \in Row(WordBits) |-> AndBit(
                   Plus(set[a][k], IF k >= width THEN set[a + down][k - width] ELSE Zero),
                   Masked(k, width))]
    IN [p \in DOMAIN set |-> [k \in Row(WordBits) |-> Plus(set[p][k],
          IF ~Odd(p \div WordsPerRow, width) THEN t(p)[k]
          ELSE IF k + width < WordBits THEN t(p - down)[k + width] ELSE Zero)]]

\* Round i of transpose: blocks of whole words, then transpose64 of each 64 by
\* 64 block, the rounds of all of which are taken together.
Round(set, i) ==
    IF Sizes[i] >= WordBits THEN SwapBlocks(set, Sizes[i] \div WordBits)
                            ELSE SwapBits(set, Sizes[i])

Transpose(set) ==
    LET round[i \in 0..Len(Sizes)] == IF i = 0 THEN set ELSE Round(round[i - 1], i)
    IN round[Len(Sizes)]

\* The little-endian words of bits from.. of a row, and back.
Words(row, from) ==
    [j \in Row(WordsPerRow) |-> [k \in Row(WordBits) |-> row[from + j * WordBits + k]]]

\* unravelTall and unravelWide: block idx of a matrix.
UnravelTall(matrix, idx) ==
    [p \in Row(bitVectWidth * WordsPerRow) |->
       Words(matrix[(bitVectWidth * idx) + (p \div WordsPerRow)], 0)[p % WordsPerRow]]

UnravelWide(matrix, idx) ==
    [p \in Row(bitVectWidth * WordsPerRow) |->
       Words(matrix[p \div WordsPerRow], idx * bitVectWidth)[p % WordsPerRow]]

\* ravelToTall and ravelToWide put row i of a block into a row of the result:
\* its bit k.
Ravelled(set, i, k) == set[(i * WordsPerRow) + (k \div WordBits)][k % WordBits]

----------------------------------------------------------------------------
(* The transposition of a matrix.                                          *)

\* The blocks goroutine w transposes.  The mutant forgets the excess.
WorkerBlocks_NoExcess(w, nblks, nworkers) ==
    LET workerResp == nblks \div nworkers
        step == workerResp * w
    IN step..(step + workerResp - 1)

WorkerBlocks(w, nblks, nworkers) ==
    LET workerResp == nblks \div nworkers
        step == workerResp * w
    IN IF w = nworkers - 1 THEN step..(nblks - 1) ELSE step..(step + workerResp - 1)

AllBlocks(nblks, nworkers) ==
    UNION {WorkerBlocks(w, nblks, nworkers) : w \in 0..(nworkers - 1)}

\* From n rows of bitVectWidth bits to bitVectWidth rows of n bits; what no
\* goroutine writes stays zero.
ConcurrentTransposeTall(matrix, nworkers) ==
    LET n == Cardinality(DOMAIN matrix)
        blocks == AllBlocks(n \div bitVectWidth, nworkers)
        block == [idx \in blocks |-> Transpose(UnravelTall(matrix, idx))]
    IN [i \in Row(bitVectWidth) |-> [k \in Row(n) |->
          IF k \div bitVectWidth \in blocks
          THEN Ravelled(block[k \div bitVectWidth], i, k % bitVectWidth) ELSE Zero]]

\* From bitVectWidth rows of n bits to n rows of bitVectWidth bits.
ConcurrentTransposeWide(matrix, nworkers) ==
    LET n == Width(matrix[0])
        blocks == AllBlocks(n \div bitVectWidth, nworkers)
        block == [idx \in blocks |-> Transpose(UnravelWide(matrix, idx))]
    IN [i \in Row(n) |-> [k \in Row(bitVectWidth) |->
          IF i \div bitVectWidth \in blocks
          THEN Ravelled(block[i \div bitVectWidth], i % bitVectWidth, k) ELSE Zero]]
=============================================================================
