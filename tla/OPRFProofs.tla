----------------------------- MODULE OPRFProofs -----------------------------
(***************************************************************************)
(* Proofs about the OPRF, for every width, table, choice of the sender and *)
(* number of goroutines, and wherever the connection breaks:               *)
(*   - the operations on bit matrices compute what their names say         *)
(*     (TransposeMoves, TallTransposed, WideTransposed, OnceOver);         *)
(*   - the base OT gives the sender the seed of its choice bit in every    *)
(*     column (SeedCorrect);                                               *)
(*   - the encodings of the two parties agree on exactly the identifiers   *)
(*     the buckets hold (EncodingsCorrect).                                *)
(***************************************************************************)
EXTENDS OPRF, TLAPS, FiniteSetTheorems, WellFoundedInduction

----------------------------------------------------------------------------
(* Arithmetic, and bits.                                                   *)

\* Division undoes multiplication, and leaves what was added below the divisor.
LEMMA Divided ==
    ASSUME NEW d \in Nat \ {0}, NEW a \in Nat, NEW b \in 0..(d - 1)
    PROVE  /\ a * d + b \in Nat
           /\ (a * d + b) \div d = a /\ (a * d + b) % d = b
  OBVIOUS

\* A number is its quotient times the divisor, and a remainder below it.
LEMMA Division ==
    ASSUME NEW d \in Nat \ {0}, NEW x \in Nat
    PROVE  /\ x \div d \in Nat /\ x % d \in 0..(d - 1)
           /\ x = (x \div d) * d + (x % d)
  OBVIOUS

\* The quotient of a multiple.
LEMMA Multiple ==
    ASSUME NEW d \in Nat \ {0}, NEW x \in Nat \ {0}, x % d = 0
    PROVE  x \div d \in Nat \ {0} /\ x = (x \div d) * d
<1>1. x \div d \in Nat /\ x = (x \div d) * d + 0
  BY Division
<1>2. x \div d # 0
  BY <1>1
<1> QED BY <1>1, <1>2

\* A place in block a of size d comes before block n exactly if a does.
LEMMA Below ==
    ASSUME NEW d \in Nat \ {0}, NEW a \in Nat, NEW b \in 0..(d - 1), NEW n \in Nat
    PROVE  a * d + b < n * d <=> a < n
  OBVIOUS

\* Of two neighbouring blocks of size d the second one is odd.
LEMMA Parity ==
    ASSUME NEW d \in Nat \ {0}, NEW R \in Nat, NEW a \in {0, 1}, NEW p \in 0..(d - 1)
    PROVE  Odd((2 * R + a) * d + p, d) <=> a = 1
<1>1. 2 * R + a \in Nat
  OBVIOUS
<1>2. ((2 * R + a) * d + p) \div d = 2 * R + a
  BY <1>1, Divided
<1>3. (2 * R + a) % 2 = a
  OBVIOUS
<1> QED BY <1>2, <1>3 DEF Odd

\* Adding a bit twice cancels it, which is what the swap of transpose64 rests on.
LEMMA PlusFacts ==
    ASSUME NEW x, NEW y
    PROVE  /\ Plus(x, Zero) = x
           /\ Plus(x, Plus(x, y)) = y
           /\ Plus(x, Plus(y, x)) = y
  BY DEF Plus, Zero

\* The widths are positive, and a word is a number of bytes.
LEMMA Widths ==
    /\ ByteBits \in Nat \ {0} /\ WordBits \in Nat \ {0} /\ WordsPerRow \in Nat \ {0}
    /\ MinShare \in Nat \ {0}
    /\ bitVectWidth \in Nat \ {0} /\ bitVectWidth = WordBits * WordsPerRow
    /\ WordBits % ByteBits = 0
  BY BitVectAssumption DEF bitVectWidth

----------------------------------------------------------------------------
(* The rounds of a transposition.                                          *)

\* The positions of the words of a block.
Positions == Row(bitVectWidth * WordsPerRow)

\* Word j of row r of a block is at position r * WordsPerRow + j (bitvect.go, set).
LEMMA Place ==
    ASSUME NEW r \in Row(bitVectWidth), NEW j \in Row(WordsPerRow)
    PROVE  /\ r * WordsPerRow + j \in Positions
           /\ (r * WordsPerRow + j) \div WordsPerRow = r
           /\ (r * WordsPerRow + j) % WordsPerRow = j
<1>1. r \in Nat /\ r < bitVectWidth /\ j \in 0..(WordsPerRow - 1)
  BY Widths DEF Row
<1>2. r * WordsPerRow + j < bitVectWidth * WordsPerRow
  BY <1>1, Below, Widths
<1>3. r * WordsPerRow + j \in Nat
  BY <1>1, Divided, Widths
<1>4. bitVectWidth * WordsPerRow \in Nat
  BY Widths
<1> QED BY <1>1, <1>2, <1>3, <1>4, Divided, Widths DEF Row, Positions

\* Word j of row r.
Word(set, r, j) == set[r * WordsPerRow + j]

\* A bit of a row is a bit of the word it is in.
LEMMA BitOfWord ==
    ASSUME NEW set, NEW r \in Row(bitVectWidth), NEW j \in Row(WordsPerRow),
           NEW k \in Row(WordBits)
    PROVE  /\ j * WordBits + k \in Row(bitVectWidth)
           /\ Ravelled(set, r, j * WordBits + k) = Word(set, r, j)[k]
<1>1. j \in Nat /\ j < WordsPerRow /\ k \in 0..(WordBits - 1)
  BY Widths DEF Row
<1>2. j * WordBits + k < WordsPerRow * WordBits /\ j * WordBits + k \in Nat
  BY <1>1, Below, Divided, Widths
<1>3. (j * WordBits + k) \div WordBits = j /\ (j * WordBits + k) % WordBits = k
  BY <1>1, Divided, Widths
<1> QED BY <1>2, <1>3, Widths DEF Row, Ravelled, Word

\* Place p in one of the two halves of size h, the first or the second (x is 0 or 1),
\* of block B of size 2 * h.
Cell(B, x, h, p) == (2 * B + x) * h + p

\* A round on whole words: the halves of rows and words change roles, that is, of
\* every four blocks the two off the diagonal change places.
LEMMA SwapBlocksMoves ==
    ASSUME NEW set, DOMAIN set = Positions,
           NEW H \in Nat \ {0}, NEW h \in Nat \ {0}, H * WordBits = h,
           NEW R \in Nat, NEW C \in Nat, NEW a \in {0, 1}, NEW b \in {0, 1},
           NEW p \in 0..(h - 1), NEW u \in 0..(H - 1),
           Cell(R, 1, h, p) < bitVectWidth, Cell(C, 1, H, u) < WordsPerRow
    PROVE  Word(SwapBlocks(set, H), Cell(R, a, h, p), Cell(C, b, H, u))
             = Word(set, Cell(R, b, h, p), Cell(C, a, H, u))
<1> DEFINE row(x) == (2 * R + x) * h + p
           word(x) == (2 * C + x) * H + u
           far == (h * WordsPerRow) - H
           at == row(a) * WordsPerRow + word(b)
<1>1. row(1) < bitVectWidth /\ word(1) < WordsPerRow
  BY DEF Cell
<1>2. ASSUME NEW x \in {0, 1}
      PROVE  /\ row(x) \in Row(bitVectWidth)
             /\ row(x) = row(0) + x * h
             /\ row(0) \in Nat
             /\ Odd(row(x), h) <=> x = 1
  <2>1. row(x) = row(0) + x * h
    BY Widths
  <2>2. row(0) \in Nat /\ row(1) = row(0) + h
    BY Widths
  <2>3. row(x) \in Row(bitVectWidth)
    BY <1>1, <2>1, <2>2, Widths DEF Row
  <2>4. Odd(row(x), h) <=> x = 1
    BY Parity
  <2> QED BY <2>1, <2>2, <2>3, <2>4
<1>3. ASSUME NEW x \in {0, 1}
      PROVE  /\ word(x) \in Row(WordsPerRow)
             /\ word(x) = word(0) + x * H
             /\ word(0) \in Nat
             /\ Odd(word(x), H) <=> x = 1
  <2>1. word(x) = word(0) + x * H
    OBVIOUS
  <2>2. word(0) \in Nat /\ word(1) = word(0) + H
    OBVIOUS
  <2>3. word(x) \in Row(WordsPerRow)
    BY <1>1, <2>1, <2>2, Widths DEF Row
  <2>4. Odd(word(x), H) <=> x = 1
    BY Parity
  <2> QED BY <2>1, <2>2, <2>3, <2>4
<1> HIDE DEF row, word
<1>4. /\ at \in DOMAIN set /\ at \div WordsPerRow = row(a) /\ at % WordsPerRow = word(b)
  BY <1>2, <1>3, Place
<1>5. SwapBlocks(set, H)[at] =
        CASE a = 0 /\ b = 1 -> set[at + far]
          [] a = 1 /\ b = 0 -> set[at - far]
          [] OTHER -> set[at]
  BY <1>2, <1>3, <1>4 DEF SwapBlocks
<1>6. /\ (row(0) + h) * WordsPerRow = row(0) * WordsPerRow + h * WordsPerRow
      /\ row(0) * WordsPerRow \in Nat /\ h * WordsPerRow \in Nat
  BY <1>1, <1>2, Widths
<1>7. row(1) = row(0) + h /\ word(1) = word(0) + H /\ word(0) \in Nat
  BY <1>1, <1>2, <1>3
<1>8. /\ row(0) * WordsPerRow + word(1) + far = row(1) * WordsPerRow + word(0)
      /\ (row(1) * WordsPerRow + word(0)) - far = row(0) * WordsPerRow + word(1)
  BY <1>6, <1>7
<1>9. SwapBlocks(set, H)[at] = set[row(b) * WordsPerRow + word(a)]
  <2> HIDE DEF far
  <2>1. CASE a = 0 /\ b = 1
    BY <1>5, <1>8, <2>1
  <2>2. CASE a = 1 /\ b = 0
    BY <1>5, <1>8, <2>2
  <2>3. CASE a = b
    <3>1. SwapBlocks(set, H)[at] = set[at]
      BY <1>5, <2>3
    <3> QED BY <2>3, <3>1
  <2> QED BY <2>1, <2>2, <2>3
<1> QED BY <1>9 DEF row, word, Cell, Word

\* A round inside words: the three XORs of swap do the same to the bits of the
\* words of two rows, whatever the bits are.
LEMMA SwapBitsMoves ==
    ASSUME NEW set, DOMAIN set = Positions, NEW h \in Nat \ {0},
           NEW R \in Nat, NEW K \in Nat, NEW a \in {0, 1}, NEW b \in {0, 1},
           NEW p \in 0..(h - 1), NEW q \in 0..(h - 1), NEW j \in Row(WordsPerRow),
           Cell(R, 1, h, p) < bitVectWidth, Cell(K, 1, h, q) < WordBits
    PROVE  Word(SwapBits(set, h), Cell(R, a, h, p), j)[Cell(K, b, h, q)]
             = Word(set, Cell(R, b, h, p), j)[Cell(K, a, h, q)]
<1> DEFINE row(x) == (2 * R + x) * h + p
           bit(x) == (2 * K + x) * h + q
           at(x) == row(x) * WordsPerRow + j
           drop == h * WordsPerRow
           t(y) == [k \in Row(WordBits) |-> AndBit(
                   Plus(set[y][k], IF k >= h THEN set[y + drop][k - h] ELSE Zero),
                   Masked(k, h))]
<1>1. row(1) < bitVectWidth /\ bit(1) < WordBits
  BY DEF Cell
<1>2. ASSUME NEW x \in {0, 1}
      PROVE  /\ row(x) \in Row(bitVectWidth)
             /\ row(x) = row(0) + x * h
             /\ row(0) \in Nat
             /\ Odd(row(x), h) <=> x = 1
  <2>1. row(x) = row(0) + x * h
    OBVIOUS
  <2>2. row(0) \in Nat /\ row(1) = row(0) + h
    OBVIOUS
  <2>3. row(x) \in Row(bitVectWidth)
    BY <1>1, <2>1, <2>2, Widths DEF Row
  <2>4. Odd(row(x), h) <=> x = 1
    BY Parity
  <2> QED BY <2>1, <2>2, <2>3, <2>4
<1>3. ASSUME NEW x \in {0, 1}
      PROVE  /\ bit(x) \in Row(WordBits)
             /\ bit(x) = bit(0) + x * h
             /\ bit(0) \in Nat
             /\ Masked(bit(x), h) <=> x = 1
  <2>1. bit(x) = bit(0) + x * h
    OBVIOUS
  <2>2. bit(0) \in Nat /\ bit(1) = bit(0) + h
    OBVIOUS
  <2>3. bit(x) \in Row(WordBits)
    BY <1>1, <2>1, <2>2, Widths DEF Row
  <2>4. Masked(bit(x), h) <=> x = 1
    BY Parity DEF Masked
  <2> QED BY <2>1, <2>2, <2>3, <2>4
<1>4. bit(1) + h \in Nat /\ ~Masked(bit(1) + h, h)
  <2>1. bit(1) + h = (2 * (K + 1) + 0) * h + q
    OBVIOUS
  <2>2. ~Odd((2 * (K + 1) + 0) * h + q, h)
    <3>1. K + 1 \in Nat /\ 0 \in {0, 1} /\ 0 # 1
      OBVIOUS
    <3> QED BY <3>1, Parity
  <2> QED BY <1>3, <2>1, <2>2 DEF Masked
<1>5. row(1) = row(0) + h /\ bit(1) = bit(0) + h /\ bit(0) \in Nat /\ row(0) \in Nat
  BY <1>2, <1>3
<1> HIDE DEF row, bit
<1>6. /\ at(1) = at(0) + drop
      /\ at(1) - drop = at(0)
      /\ at(0) \in Nat /\ drop \in Nat
  <2>1. (row(0) + h) * WordsPerRow = row(0) * WordsPerRow + drop
    BY <1>5, Widths
  <2>2. row(0) * WordsPerRow \in Nat /\ drop \in Nat /\ j \in Nat
    BY <1>5, Widths DEF Row
  <2> QED BY <1>5, <2>1, <2>2
<1>7. \A x \in {0, 1} : at(x) \in DOMAIN set /\ at(x) \div WordsPerRow = row(x)
  BY <1>2, Place
<1> HIDE DEF at, drop
<1>8. /\ at(0) \in DOMAIN set /\ at(1) \in DOMAIN set
      /\ at(0) \div WordsPerRow = row(0) /\ at(1) \div WordsPerRow = row(1)
      /\ ~Odd(row(0), h) /\ Odd(row(1), h)
      /\ bit(0) \in Row(WordBits) /\ bit(1) \in Row(WordBits)
      /\ ~Masked(bit(0), h) /\ Masked(bit(1), h)
  <2>1. 0 \in {0, 1} /\ 1 \in {0, 1} /\ 0 # 1
    OBVIOUS
  <2> QED BY <1>2, <1>3, <1>7, <2>1
<1>9. ASSUME NEW k \in Row(WordBits)
      PROVE  /\ SwapBits(set, h)[at(0)][k] = Plus(set[at(0)][k], t(at(0))[k])
             /\ SwapBits(set, h)[at(1)][k] = Plus(set[at(1)][k],
                  IF k + h < WordBits THEN t(at(0))[k + h] ELSE Zero)
  <2>1. at(1) - drop = at(0)
    BY <1>6
  <2>2. SwapBits(set, h)[at(0)][k] = Plus(set[at(0)][k], t(at(0))[k])
    BY <1>8 DEF SwapBits, drop
  <2>3. SwapBits(set, h)[at(1)][k] = Plus(set[at(1)][k],
                  IF k + h < WordBits THEN t(at(1) - drop)[k + h] ELSE Zero)
    BY <1>8 DEF SwapBits, drop
  <2> QED BY <2>1, <2>2, <2>3
<1>10. t(at(0))[bit(0)] = Zero
  BY <1>8 DEF AndBit
<1>11. t(at(0))[bit(1)] = Plus(set[at(0)][bit(1)], set[at(1)][bit(0)])
  <2>1. bit(1) >= h /\ bit(1) - h = bit(0) /\ at(0) + drop = at(1)
    BY <1>5, <1>6
  <2> QED BY <1>8, <2>1 DEF AndBit
<1>12. bit(0) + h = bit(1) /\ bit(1) < WordBits
  BY <1>5, <1>8, Widths DEF Row
<1>13. bit(1) + h < WordBits => t(at(0))[bit(1) + h] = Zero
  <2>1. bit(1) + h < WordBits => bit(1) + h \in Row(WordBits)
    BY <1>4, Widths DEF Row
  <2> QED BY <1>4, <2>1 DEF AndBit
<1> HIDE DEF t
<1>14. /\ SwapBits(set, h)[at(0)][bit(0)] = set[at(0)][bit(0)]
       /\ SwapBits(set, h)[at(0)][bit(1)] = set[at(1)][bit(0)]
       /\ SwapBits(set, h)[at(1)][bit(0)] = set[at(0)][bit(1)]
       /\ SwapBits(set, h)[at(1)][bit(1)] = set[at(1)][bit(1)]
  <2>1. SwapBits(set, h)[at(0)][bit(0)] = set[at(0)][bit(0)]
    BY <1>8, <1>9, <1>10, PlusFacts
  <2>2. SwapBits(set, h)[at(0)][bit(1)] = set[at(1)][bit(0)]
    BY <1>8, <1>9, <1>11, PlusFacts
  <2>3. SwapBits(set, h)[at(1)][bit(0)] = set[at(0)][bit(1)]
    BY <1>8, <1>9, <1>11, <1>12, PlusFacts
  <2>4. SwapBits(set, h)[at(1)][bit(1)] = set[at(1)][bit(1)]
    BY <1>8, <1>9, <1>13, PlusFacts
  <2> QED BY <2>1, <2>2, <2>3, <2>4
<1>15. SwapBits(set, h)[at(a)][bit(b)] = set[at(b)][bit(a)]
  BY <1>14
<1> QED BY <1>15 DEF row, bit, at, Cell, Word

\* The sizes of a round, and on which side of the word width they are.
LEMMA SizeFacts ==
    ASSUME NEW i \in 1..Len(Sizes)
    PROVE  /\ Sizes[i] = Size(i) /\ Size(i) \in Nat \ {0}
           /\ Size(i - 1) = 2 * Size(i) /\ i - 1 \in 0..Len(Sizes) /\ i \in 0..Len(Sizes)
           /\ Sizes[i] >= WordBits => Size(i) % WordBits = 0
           /\ Sizes[i] < WordBits => WordBits % (2 * Size(i)) = 0
<1>1. Len(Sizes) \in Nat /\ i \in DOMAIN Sizes /\ i # 0
  BY BitVectAssumption
<1>2. Sizes[i] = Size(i) /\ Size(i) \in Nat \ {0}
  BY <1>1, BitVectAssumption DEF Size
<1>3. /\ Size(i - 1) = 2 * Size(i)
      /\ Size(i) % WordBits = 0 \/ WordBits % Size(i - 1) = 0
  BY BitVectAssumption
<1>4. ASSUME Size(i) >= WordBits, WordBits % (2 * Size(i)) = 0 PROVE FALSE
  <2>1. WordBits < 2 * Size(i)
    BY <1>2, <1>4, Widths
  <2>2. WordBits % (2 * Size(i)) = WordBits
    BY <1>2, <2>1, Widths
  <2> QED BY <1>4, <2>2, Widths
<1>5. ASSUME Size(i) < WordBits, Size(i) % WordBits = 0 PROVE FALSE
  <2>1. Size(i) % WordBits = Size(i)
    BY <1>2, <1>5, Widths
  <2> QED BY <1>2, <1>5, <2>1
<1> QED BY <1>1, <1>2, <1>3, <1>4, <1>5, Widths

\* A place below n in the second half of a block is one below n in the first half.
LEMMA CellRow ==
    ASSUME NEW B \in Nat, NEW h \in Nat \ {0}, NEW p \in 0..(h - 1), NEW n \in Nat,
           Cell(B, 1, h, p) < n, NEW x \in {0, 1}
    PROVE  Cell(B, x, h, p) \in Row(n)
<1>1. Cell(B, 0, h, p) \in Nat /\ Cell(B, 1, h, p) = Cell(B, 0, h, p) + h
  BY DEF Cell
<1> QED BY <1>1 DEF Row

\* With halves of H whole words, a place is a bit of a place of words.
LEMMA CellOfWords ==
    ASSUME NEW C \in Nat, NEW H \in Nat \ {0}, NEW h \in Nat \ {0}, H * WordBits = h,
           NEW q \in 0..(h - 1)
    PROVE  \E u \in 0..(H - 1), k \in Row(WordBits) : \A x \in {0, 1} :
             /\ Cell(C, x, H, u) \in Nat
             /\ Cell(C, x, h, q) = Cell(C, x, H, u) * WordBits + k
<1> DEFINE u == q \div WordBits
           k == q % WordBits
<1>1. q \in Nat /\ q < H * WordBits
  BY Widths
<1>2. u \in Nat /\ k \in 0..(WordBits - 1) /\ q = u * WordBits + k
  BY <1>1, Division, Widths
<1> HIDE DEF u, k
<1>3. u \in 0..(H - 1)
  BY <1>1, <1>2, Below, Widths
<1>4. ASSUME NEW x \in {0, 1}
      PROVE  /\ Cell(C, x, H, u) \in Nat
             /\ Cell(C, x, h, q) = Cell(C, x, H, u) * WordBits + k
  <2>4. Cell(C, x, H, u) \in Nat
    BY <1>3 DEF Cell
  <2>5. (2 * C + x) * (H * WordBits) = ((2 * C + x) * H) * WordBits
    BY Widths
  <2>6. ((2 * C + x) * H + u) * WordBits = ((2 * C + x) * H) * WordBits + u * WordBits
    BY <1>2, Widths
  <2>7. ((2 * C + x) * H) * WordBits \in Nat /\ u * WordBits \in Nat /\ k \in Nat
    BY <1>2, Widths
  <2> QED BY <1>2, <2>4, <2>5, <2>6, <2>7 DEF Cell
<1>5. k \in Row(WordBits)
  BY <1>2 DEF Row
<1> QED BY <1>3, <1>4, <1>5

\* The two halves lie in one word.
InWord(h) == WordBits % (2 * h) = 0

\* With halves in one word, a place is a place in a word.
LEMMA CellInWord ==
    ASSUME NEW C \in Nat, NEW h \in Nat \ {0}, InWord(h),
           NEW q \in 0..(h - 1), Cell(C, 1, h, q) < bitVectWidth
    PROVE  \E j \in Row(WordsPerRow), K \in Nat :
             /\ Cell(K, 1, h, q) < WordBits
             /\ \A x \in {0, 1} : Cell(C, x, h, q) = j * WordBits + Cell(K, x, h, q)
<1> DEFINE d == 2 * h
           N == WordBits \div d
           j == C \div N
           K == C % N
<1>0. d \in Nat \ {0} /\ WordBits % d = 0
  BY DEF InWord
<1> HIDE DEF d
<1>1. N \in Nat \ {0} /\ WordBits = N * d
  BY <1>0, Multiple, Widths
<1> HIDE DEF N
<1>2. j \in Nat /\ K \in 0..(N - 1) /\ C = j * N + K
  BY <1>1, Division
<1> HIDE DEF j, K
<1>3. Cell(K, 1, h, q) < WordBits
  <2>1. (2 * K + 1) * h + q < (K + 1) * (2 * h)
    BY <1>2
  <2>2. (K + 1) * (2 * h) <= N * (2 * h)
    BY <1>1, <1>2
  <2>3. (2 * K + 1) * h + q \in Nat /\ (K + 1) * (2 * h) \in Nat /\ N * (2 * h) \in Nat
    BY <1>1, <1>2
  <2> QED BY <1>1, <2>1, <2>2, <2>3 DEF Cell, d
<1>4. ASSUME NEW x \in {0, 1}
      PROVE  Cell(C, x, h, q) = j * WordBits + Cell(K, x, h, q)
  <2>4. j * (N * (2 * h)) = (2 * (j * N)) * h
    BY <1>1, <1>2
  <2>5. (2 * C + x) * h = (2 * (j * N)) * h + (2 * K + x) * h
    BY <1>1, <1>2
  <2>6. (2 * (j * N)) * h \in Nat /\ (2 * K + x) * h \in Nat
    BY <1>1, <1>2
  <2> QED BY <1>1, <2>4, <2>5, <2>6 DEF Cell, d
<1>5. j \in Row(WordsPerRow)
  <2>1. j * WordBits + Cell(K, 1, h, q) < WordsPerRow * WordBits
    BY <1>4, Widths
  <2>2. Cell(K, 1, h, q) \in 0..(WordBits - 1)
    BY <1>2, <1>3, CellRow, Widths DEF Row
  <2>3. j < WordsPerRow
    BY <1>2, <2>1, <2>2, Below, Widths
  <2> QED BY <1>2, <2>3, Widths DEF Row
<1> QED BY <1>2, <1>3, <1>4, <1>5

\* A round on whole words, bit by bit.
LEMMA BlocksMove ==
    ASSUME NEW set, DOMAIN set = Positions,
           NEW H \in Nat \ {0}, NEW h \in Nat \ {0}, H * WordBits = h,
           NEW R \in Nat, NEW C \in Nat, NEW a \in {0, 1}, NEW b \in {0, 1},
           NEW p \in 0..(h - 1), NEW q \in 0..(h - 1),
           Cell(R, 1, h, p) < bitVectWidth, Cell(C, 1, h, q) < bitVectWidth
    PROVE  Ravelled(SwapBlocks(set, H), Cell(R, a, h, p), Cell(C, b, h, q))
             = Ravelled(set, Cell(R, b, h, p), Cell(C, a, h, q))
<1>1. \A x \in {0, 1} : Cell(R, x, h, p) \in Row(bitVectWidth)
  BY CellRow, Widths
<1>2. PICK u \in 0..(H - 1), k \in Row(WordBits) : \A x \in {0, 1} :
        /\ Cell(C, x, H, u) \in Nat
        /\ Cell(C, x, h, q) = Cell(C, x, H, u) * WordBits + k
  BY CellOfWords
<1>3. Cell(C, 1, H, u) < WordsPerRow
  <2>1. Cell(C, 1, H, u) * WordBits + k < WordsPerRow * WordBits
    BY <1>2, Widths
  <2>2. k \in 0..(WordBits - 1) /\ Cell(C, 1, H, u) \in Nat
    BY <1>2 DEF Row
  <2> QED BY <2>1, <2>2, Below, Widths
<1>4. \A x \in {0, 1} : Cell(C, x, H, u) \in Row(WordsPerRow)
  BY <1>3, CellRow, Widths
<1>5. Word(SwapBlocks(set, H), Cell(R, a, h, p), Cell(C, b, H, u))
        = Word(set, Cell(R, b, h, p), Cell(C, a, H, u))
  BY <1>3, SwapBlocksMoves
<1>6. /\ Ravelled(SwapBlocks(set, H), Cell(R, a, h, p), Cell(C, b, H, u) * WordBits + k)
            = Word(SwapBlocks(set, H), Cell(R, a, h, p), Cell(C, b, H, u))[k]
      /\ Ravelled(set, Cell(R, b, h, p), Cell(C, a, H, u) * WordBits + k)
            = Word(set, Cell(R, b, h, p), Cell(C, a, H, u))[k]
  BY <1>1, <1>4, BitOfWord
<1> QED BY <1>2, <1>5, <1>6

\* A round inside words, bit by bit.
LEMMA BitsMove ==
    ASSUME NEW set, DOMAIN set = Positions, NEW h \in Nat \ {0}, InWord(h),
           NEW R \in Nat, NEW C \in Nat, NEW a \in {0, 1}, NEW b \in {0, 1},
           NEW p \in 0..(h - 1), NEW q \in 0..(h - 1),
           Cell(R, 1, h, p) < bitVectWidth, Cell(C, 1, h, q) < bitVectWidth
    PROVE  Ravelled(SwapBits(set, h), Cell(R, a, h, p), Cell(C, b, h, q))
             = Ravelled(set, Cell(R, b, h, p), Cell(C, a, h, q))
<1>1. \A x \in {0, 1} : Cell(R, x, h, p) \in Row(bitVectWidth)
  BY CellRow, Widths
<1>2. PICK j \in Row(WordsPerRow), K \in Nat :
        /\ Cell(K, 1, h, q) < WordBits
        /\ \A x \in {0, 1} : Cell(C, x, h, q) = j * WordBits + Cell(K, x, h, q)
  BY CellInWord
<1>3. \A x \in {0, 1} : Cell(K, x, h, q) \in Row(WordBits)
  BY <1>2, CellRow, Widths
<1>4. Cell(K, 1, h, q) < WordBits
  BY <1>2
<1>5. Word(SwapBits(set, h), Cell(R, a, h, p), j)[Cell(K, b, h, q)]
        = Word(set, Cell(R, b, h, p), j)[Cell(K, a, h, q)]
  BY <1>4, SwapBitsMoves
<1>6. /\ Ravelled(SwapBits(set, h), Cell(R, a, h, p), j * WordBits + Cell(K, b, h, q))
            = Word(SwapBits(set, h), Cell(R, a, h, p), j)[Cell(K, b, h, q)]
      /\ Ravelled(set, Cell(R, b, h, p), j * WordBits + Cell(K, a, h, q))
            = Word(set, Cell(R, b, h, p), j)[Cell(K, a, h, q)]
  BY <1>1, <1>3, BitOfWord
<1> QED BY <1>2, <1>5, <1>6

\* Every round moves the bits in the same way, whether it swaps words or bits.
LEMMA RoundMoves ==
    ASSUME NEW set, DOMAIN set = Positions, NEW i \in 1..Len(Sizes),
           NEW h \in Nat \ {0}, Size(i) = h,
           NEW R \in Nat, NEW C \in Nat, NEW a \in {0, 1}, NEW b \in {0, 1},
           NEW p \in 0..(h - 1), NEW q \in 0..(h - 1),
           Cell(R, 1, h, p) < bitVectWidth, Cell(C, 1, h, q) < bitVectWidth
    PROVE  Ravelled(Round(set, i), Cell(R, a, h, p), Cell(C, b, h, q))
             = Ravelled(set, Cell(R, b, h, p), Cell(C, a, h, q))
<1>1. Sizes[i] \in Nat /\ Sizes[i] = h
  BY SizeFacts
<1>2. CASE Sizes[i] >= WordBits
  <2>1. PICK H \in Nat \ {0} : H * WordBits = h /\ Round(set, i) = SwapBlocks(set, H)
    <3>1. h % WordBits = 0
      BY <1>2, SizeFacts
    <3>2. h \div WordBits \in Nat \ {0} /\ h = (h \div WordBits) * WordBits
      BY <3>1, Multiple, Widths
    <3>3. Round(set, i) = SwapBlocks(set, h \div WordBits)
      BY <1>2, SizeFacts DEF Round
    <3> QED BY <3>2, <3>3
  <2>2. Ravelled(SwapBlocks(set, H), Cell(R, a, h, p), Cell(C, b, h, q))
             = Ravelled(set, Cell(R, b, h, p), Cell(C, a, h, q))
    BY <2>1, BlocksMove
  <2> QED BY <2>1, <2>2
<1>3. CASE Sizes[i] < WordBits
  <2>1. InWord(h)
    BY <1>3, SizeFacts DEF InWord
  <2>2. Round(set, i) = SwapBits(set, h)
    BY <1>1, <1>3, Widths DEF Round
  <2>3. Ravelled(SwapBits(set, h), Cell(R, a, h, p), Cell(C, b, h, q))
             = Ravelled(set, Cell(R, b, h, p), Cell(C, a, h, q))
    BY <2>1, BitsMove
  <2> QED BY <2>2, <2>3
<1> QED BY <1>1, <1>2, <1>3, Widths

----------------------------------------------------------------------------
(* Induction over the rounds.                                              *)

\* A set of natural numbers that is not empty has a least element.
LEMMA LeastElement ==
    ASSUME NEW T, T \subseteq Nat, T # {}
    PROVE  \E x \in T : \A y \in T : x <= y
<1> DEFINE R == {ss \in Nat \X Nat : ss[1] < ss[2]}
<1>1. IsWellFoundedOn(R, Nat)
  BY NatLessThanWellFounded DEF OpToRel
<1> HIDE DEF R
<1>2. PICK x \in T : \A y \in T : ~ (<<y, x>> \in R)
  BY <1>1, WFMin
<1>3. \A y \in T : y \in Nat /\ x \in Nat /\ ~(y < x)
  BY <1>2 DEF R
<1> QED BY <1>3

\* Induction over the natural numbers, for a set.
LEMMA Induction ==
    ASSUME NEW S, S \subseteq Nat, 0 \in S, \A n \in S : n + 1 \in S
    PROVE  S = Nat
<1>1. SUFFICES ASSUME Nat \ S # {} PROVE FALSE
  OBVIOUS
<1>2. PICK x \in Nat \ S : \A y \in Nat \ S : x <= y
  BY <1>1, LeastElement
<1>3. x # 0
  OBVIOUS
<1>4. x - 1 \in Nat /\ x - 1 \in S
  BY <1>2, <1>3
<1> QED BY <1>4

\* f[i] is the block after i rounds.
IsRounds(f, set, n) == f = [i \in 0..n |-> IF i = 0 THEN set ELSE Round(f[i - 1], i)]

\* The rounds of transpose can be taken one after the other, so the recursive
\* function in Transpose is defined.
LEMMA RoundsExist ==
    ASSUME NEW set
    PROVE  \A n \in Nat : \E f : IsRounds(f, set, n)
<1> DEFINE S == {n \in Nat : \E f : IsRounds(f, set, n)}
<1>1. 0 \in S
  <2> DEFINE f == [i \in 0..0 |-> set]
  <2>1. f = [i \in 0..0 |-> IF i = 0 THEN set ELSE Round(f[i - 1], i)]
    OBVIOUS
  <2>2. IsRounds(f, set, 0)
    BY <2>1, Zenon DEF IsRounds
  <2> QED BY <2>2
<1>2. ASSUME NEW n \in S PROVE n + 1 \in S
  <2>1. PICK f : IsRounds(f, set, n)
    BY <1>2
  <2> DEFINE g == [i \in 0..(n + 1) |-> IF i = n + 1 THEN Round(f[n], n + 1) ELSE f[i]]
  <2>2. \A i \in 0..n : f[i] = IF i = 0 THEN set ELSE Round(f[i - 1], i)
    <3>1. f = [i \in 0..n |-> IF i = 0 THEN set ELSE Round(f[i - 1], i)]
      BY <2>1 DEF IsRounds
    <3> QED BY <3>1
  <2>3. ASSUME NEW i \in 0..(n + 1)
        PROVE  g[i] = IF i = 0 THEN set ELSE Round(g[i - 1], i)
    <3>1. CASE i = n + 1
      <4>1. i # 0 /\ i - 1 = n /\ n \in 0..(n + 1) /\ n # n + 1
        BY <3>1
      <4>2. g[i] = Round(f[n], n + 1) /\ g[n] = f[n]
        BY <3>1, <4>1
      <4> QED BY <3>1, <4>1, <4>2
    <3>2. CASE i # n + 1
      <4>1. i \in 0..n /\ (i # 0 => i - 1 \in 0..(n + 1) /\ i - 1 # n + 1)
        BY <3>2
      <4>2. g[i] = f[i] /\ (i # 0 => g[i - 1] = f[i - 1])
        BY <3>2, <4>1
      <4> QED BY <2>2, <4>1, <4>2
    <3> QED BY <3>1, <3>2
  <2>4. DOMAIN g = 0..(n + 1) /\ g = [i \in 0..(n + 1) |-> g[i]]
    OBVIOUS
  <2> HIDE DEF g
  <2>5. IsRounds(g, set, n + 1)
    BY <2>3, <2>4 DEF IsRounds
  <2> QED BY <2>5
<1> HIDE DEF S
<1>3. S = Nat
  <2>1. S \subseteq Nat
    BY DEF S
  <2> QED BY <1>1, <1>2, <2>1, Induction
<1> QED BY <1>3 DEF S

\* Transpose is the last of its rounds.
LEMMA TransposeRounds ==
    ASSUME NEW set
    PROVE  \E f : /\ f[0] = set /\ Transpose(set) = f[Len(Sizes)]
                  /\ \A i \in 1..Len(Sizes) : f[i] = Round(f[i - 1], i)
<1> DEFINE G == CHOOSE f : f = [i \in 0..Len(Sizes) |->
                                  IF i = 0 THEN set ELSE Round(f[i - 1], i)]
<1>1. Len(Sizes) \in Nat
  BY BitVectAssumption
<1>2. \E f : f = [i \in 0..Len(Sizes) |-> IF i = 0 THEN set ELSE Round(f[i - 1], i)]
  <2>1. \E f : IsRounds(f, set, Len(Sizes))
    BY <1>1, RoundsExist
  <2> QED BY <2>1, Zenon DEF IsRounds
<1>3. G = [i \in 0..Len(Sizes) |-> IF i = 0 THEN set ELSE Round(G[i - 1], i)]
  BY <1>2, Zenon
<1>4. Transpose(set) = G[Len(Sizes)]
  BY DEF Transpose
<1> HIDE DEF G
<1>5. G[0] = set /\ \A i \in 1..Len(Sizes) : G[i] = Round(G[i - 1], i)
  BY <1>1, <1>3
<1> QED BY <1>4, <1>5

\* Place p in block B of size s.
Pos(B, s, p) == B * s + p

\* Block B1 of size h is a half of a block of size 2 * h.
LEMMA CellPos ==
    ASSUME NEW B1 \in Nat, NEW h
    PROVE  \E B \in Nat, x \in {0, 1} : \A p : Cell(B, x, h, p) = Pos(B1, h, p)
<1>1. B1 \div 2 \in Nat /\ B1 % 2 \in {0, 1} /\ 2 * (B1 \div 2) + (B1 % 2) = B1
  OBVIOUS
<1>2. \A p : Cell(B1 \div 2, B1 % 2, h, p) = Pos(B1, h, p)
  BY <1>1 DEF Cell, Pos
<1> QED BY <1>1, <1>2

\* A place in a half is a place in the whole.
LEMMA CellHalf ==
    ASSUME NEW x \in {0, 1}, NEW h \in Nat \ {0}, NEW p \in 0..(h - 1)
    PROVE  \E p2 \in 0..(2 * h - 1) : \A B \in Nat : Cell(B, x, h, p) = Pos(B, 2 * h, p2)
<1>1. x * h + p \in 0..(2 * h - 1)
  OBVIOUS
<1>2. \A B \in Nat : Cell(B, x, h, p) = Pos(B, 2 * h, x * h + p)
  BY DEF Cell, Pos
<1> QED BY <1>1, <1>2

\* Blocks of size s fill a row.
Fills(s) == \E k \in Nat : bitVectWidth = k * s

\* With a half of a block its other half is in the row, too.
LEMMA CellFits ==
    ASSUME NEW B \in Nat, NEW x \in {0, 1}, NEW h \in Nat \ {0}, NEW p \in 0..(h - 1),
           Fills(2 * h), Cell(B, x, h, p) < bitVectWidth
    PROVE  Cell(B, 1, h, p) < bitVectWidth
<1> DEFINE s == 2 * h
<1>1. /\ Cell(B, x, h, p) = B * s + (x * h + p) /\ x * h + p \in 0..(s - 1)
      /\ Cell(B, 1, h, p) = B * s + (h + p) /\ h + p \in 0..(s - 1)
  BY DEF Cell
<1>2. s \in Nat \ {0} /\ Fills(s)
  OBVIOUS
<1> HIDE DEF s
<1>3. PICK k \in Nat : k * s = bitVectWidth
  BY <1>2 DEF Fills
<1>4. B < k
  <2>1. B * s + (x * h + p) < k * s
    BY <1>1, <1>3
  <2> QED BY <1>1, <1>2, <2>1, Below
<1>5. B * s + (h + p) < k * s
  BY <1>1, <1>2, <1>4, Below
<1> QED BY <1>1, <1>3, <1>5

\* After the rounds down to size s the blocks of size s are where they belong, and
\* their insides are as they were.
Halfway(new, old, s) ==
    /\ DOMAIN new = Positions
    /\ Fills(s)
    /\ \A R, C \in Nat, p, q \in 0..(s - 1) :
         Pos(R, s, p) < bitVectWidth /\ Pos(C, s, q) < bitVectWidth
           => Ravelled(new, Pos(R, s, p), Pos(C, s, q))
                = Ravelled(old, Pos(C, s, p), Pos(R, s, q))

\* A round halves the blocks that are in place.
LEMMA RoundHalfway ==
    ASSUME NEW new, NEW old, NEW i \in 1..Len(Sizes), Halfway(new, old, Size(i - 1))
    PROVE  Halfway(Round(new, i), old, Size(i))
<1>1. PICK h \in Nat \ {0} : Size(i) = h /\ Size(i - 1) = 2 * h
  BY SizeFacts
<1>2. DOMAIN new = Positions
  BY DEF Halfway
<1>3. DOMAIN Round(new, i) = Positions
  BY <1>2 DEF Round, SwapBlocks, SwapBits
<1>4. Fills(2 * h)
  BY <1>1 DEF Halfway
<1>5. Fills(h)
  <2>1. PICK k \in Nat : bitVectWidth = k * (2 * h)
    BY <1>4 DEF Fills
  <2>2. 2 * k \in Nat /\ bitVectWidth = (2 * k) * h
    BY <2>1
  <2> QED BY <2>2 DEF Fills
<1>6. ASSUME NEW R1 \in Nat, NEW C1 \in Nat, NEW p \in 0..(h - 1), NEW q \in 0..(h - 1),
             Pos(R1, h, p) < bitVectWidth, Pos(C1, h, q) < bitVectWidth
      PROVE  Ravelled(Round(new, i), Pos(R1, h, p), Pos(C1, h, q))
               = Ravelled(old, Pos(C1, h, p), Pos(R1, h, q))
  <2>1. PICK R \in Nat, a \in {0, 1} : \A x : Cell(R, a, h, x) = Pos(R1, h, x)
    BY CellPos
  <2>2. PICK C \in Nat, b \in {0, 1} : \A x : Cell(C, b, h, x) = Pos(C1, h, x)
    BY CellPos
  <2>3. /\ Cell(R, a, h, p) = Pos(R1, h, p) /\ Cell(C, b, h, q) = Pos(C1, h, q)
        /\ Cell(C, b, h, p) = Pos(C1, h, p) /\ Cell(R, a, h, q) = Pos(R1, h, q)
    BY <2>1, <2>2
  <2>4. Cell(R, 1, h, p) < bitVectWidth
    BY <1>4, <1>6, <2>3, CellFits
  <2>5. Cell(C, 1, h, q) < bitVectWidth
    BY <1>4, <1>6, <2>3, CellFits
  <2>6. Ravelled(Round(new, i), Cell(R, a, h, p), Cell(C, b, h, q))
          = Ravelled(new, Cell(R, b, h, p), Cell(C, a, h, q))
    BY <1>1, <1>2, <2>4, <2>5, RoundMoves
  <2>7. Ravelled(new, Cell(R, b, h, p), Cell(C, a, h, q))
          = Ravelled(old, Cell(C, b, h, p), Cell(R, a, h, q))
    <3> DEFINE s == 2 * h
    <3>0. PICK p2 \in 0..(s - 1) : \A B \in Nat : Cell(B, b, h, p) = Pos(B, s, p2)
      BY CellHalf
    <3>1. PICK q2 \in 0..(s - 1) : \A B \in Nat : Cell(B, a, h, q) = Pos(B, s, q2)
      BY CellHalf
    <3>2. Cell(R, b, h, p) < bitVectWidth /\ Cell(C, a, h, q) < bitVectWidth
      BY <2>4, <2>5, CellRow, Widths DEF Row
    <3>3. Halfway(new, old, s)
      BY <1>1
    <3> HIDE DEF s
    <3>4. Ravelled(new, Pos(R, s, p2), Pos(C, s, q2))
            = Ravelled(old, Pos(C, s, p2), Pos(R, s, q2))
      <4>1. Pos(R, s, p2) < bitVectWidth /\ Pos(C, s, q2) < bitVectWidth
        BY <3>0, <3>1, <3>2
      <4> QED BY <3>3, <4>1 DEF Halfway
    <3> QED BY <3>0, <3>1, <3>4
  <2> QED BY <2>3, <2>6, <2>7
<1>7. Halfway(Round(new, i), old, h)
  BY <1>3, <1>5, <1>6 DEF Halfway
<1> QED BY <1>1, <1>7

\* Transposing a block of bits in rounds, 256, 128, ..., 1 in the code, takes bit c
\* of row r to bit r of row c, for any block and any number of rounds that halve the
\* blocks down to one bit (bitvect.go, transpose and transpose64).
THEOREM TransposeMoves ==
    ASSUME NEW set, DOMAIN set = Positions,
           NEW r \in Row(bitVectWidth), NEW c \in Row(bitVectWidth)
    PROVE  Ravelled(Transpose(set), r, c) = Ravelled(set, c, r)
<1>1. PICK f : /\ f[0] = set /\ Transpose(set) = f[Len(Sizes)]
               /\ \A i \in 1..Len(Sizes) : f[i] = Round(f[i - 1], i)
  BY TransposeRounds
<1> DEFINE S == {n \in Nat : n <= Len(Sizes) => Halfway(f[n], set, Size(n))}
<1>2. 0 \in S
  <2>1. Size(0) = bitVectWidth /\ f[0] = set
    BY <1>1 DEF Size
  <2>2. Fills(bitVectWidth)
    BY Widths DEF Fills
  <2>3. ASSUME NEW R \in Nat, NEW p \in 0..(bitVectWidth - 1),
               Pos(R, bitVectWidth, p) < bitVectWidth
        PROVE  R = 0
    <3>1. R * bitVectWidth + p < 1 * bitVectWidth
      BY <2>3, Widths DEF Pos
    <3> QED BY <3>1, Below, Widths
  <2>4. Halfway(set, set, bitVectWidth)
    BY <2>2, <2>3 DEF Halfway
  <2> QED BY <2>1, <2>4
<1>3. ASSUME NEW n \in S PROVE n + 1 \in S
  <2>1. SUFFICES ASSUME n + 1 <= Len(Sizes) PROVE Halfway(f[n + 1], set, Size(n + 1))
    OBVIOUS
  <2>2. Len(Sizes) \in Nat
    BY BitVectAssumption
  <2>3. n + 1 \in 1..Len(Sizes) /\ n <= Len(Sizes) /\ (n + 1) - 1 = n
    BY <2>1, <2>2
  <2>4. Halfway(f[n], set, Size(n))
    BY <2>3
  <2>5. f[n + 1] = Round(f[n], n + 1)
    BY <1>1, <2>3
  <2> DEFINE i == n + 1
  <2>6. i \in 1..Len(Sizes) /\ i - 1 = n
    BY <2>3
  <2> HIDE DEF i
  <2>7. Halfway(Round(f[n], i), set, Size(i))
    BY <2>4, <2>6, RoundHalfway
  <2> QED BY <2>5, <2>7 DEF i
<1> HIDE DEF S
<1>4. S = Nat
  <2>1. S \subseteq Nat
    BY DEF S
  <2> QED BY <1>2, <1>3, <2>1, Induction
<1>5. Halfway(Transpose(set), set, 1)
  <2>1. Len(Sizes) \in Nat /\ Size(Len(Sizes)) = 1
    BY BitVectAssumption
  <2> QED BY <1>1, <1>4, <2>1 DEF S
<1>6. r \in Nat /\ r < bitVectWidth /\ c \in Nat /\ c < bitVectWidth /\ 0 \in 0..(1 - 1)
  BY Widths DEF Row
<1>7. \A x \in Nat : Pos(x, 1, 0) = x
  BY DEF Pos
<1>8. Ravelled(Transpose(set), Pos(r, 1, 0), Pos(c, 1, 0))
        = Ravelled(set, Pos(c, 1, 0), Pos(r, 1, 0))
  BY <1>5, <1>6, <1>7 DEF Halfway
<1> QED BY <1>6, <1>7, <1>8

----------------------------------------------------------------------------
(* The transposition of a matrix by several goroutines.                    *)

\* The number of entries of a row.
LEMMA RowWidth ==
    ASSUME NEW n \in Nat
    PROVE  Cardinality(Row(n)) = n
<1>1. Cardinality(0..(n - 1)) = IF 0 > n - 1 THEN 0 ELSE (n - 1) - 0 + 1
  BY FS_Interval
<1> QED BY <1>1 DEF Row

\* The shares of the goroutines cover the blocks of a matrix, with none left over
\* and none added, for any number of goroutines, more than blocks included.
LEMMA BlocksCovered ==
    ASSUME NEW nblks \in Nat, NEW nworkers \in Nat \ {0}
    PROVE  AllBlocks(nblks, nworkers) = Row(nblks)
<1> DEFINE resp == nblks \div nworkers
<1>1. /\ resp \in Nat /\ nblks % nworkers \in Nat
      /\ nblks = resp * nworkers + (nblks % nworkers)
  BY Division
<1> HIDE DEF resp
<1>2. \A w \in 0..(nworkers - 1) : WorkerBlocks(w, nblks, nworkers) =
        IF w = nworkers - 1 THEN (resp * w)..(nblks - 1)
        ELSE (resp * w)..(resp * w + resp - 1)
  BY DEF WorkerBlocks, resp
<1>3. ASSUME NEW w \in 0..(nworkers - 1), NEW idx \in WorkerBlocks(w, nblks, nworkers)
      PROVE  idx \in Row(nblks)
  <2>1. resp * w \in Nat /\ resp * w + resp = resp * (w + 1)
    BY <1>1
  <2>2. resp * (w + 1) <= resp * nworkers
    BY <1>1
  <2>3. resp * nworkers <= nblks /\ resp * nworkers \in Nat
    BY <1>1
  <2>4. nworkers - 1 \in Nat /\ w \in Nat /\ idx \in WorkerBlocks(w, nblks, nworkers)
    BY <1>3
  <2>5. CASE w = nworkers - 1
    <3>1. idx \in (resp * w)..(nblks - 1)
      BY <1>2, <2>4, <2>5
    <3> QED BY <2>1, <3>1 DEF Row
  <2>6. CASE w # nworkers - 1
    <3>1. idx \in (resp * w)..(resp * w + resp - 1)
      BY <1>2, <2>4, <2>6
    <3>2. resp * w + resp <= nblks
      BY <1>1, <2>1, <2>2, <2>3
    <3> HIDE DEF WorkerBlocks
    <3>3. ASSUME NEW s \in Nat, s = resp * w PROVE idx \in Row(nblks)
      <4>1. idx \in s..(s + resp - 1) /\ s + resp <= nblks
        BY <3>1, <3>2, <3>3
      <4> QED BY <1>1, <4>1 DEF Row
    <3> QED BY <2>1, <3>3
  <2> QED BY <2>5, <2>6
<1>4. ASSUME NEW idx \in Row(nblks)
      PROVE  \E w \in 0..(nworkers - 1) : idx \in WorkerBlocks(w, nblks, nworkers)
  <2>1. idx \in Nat /\ idx < nblks
    BY DEF Row
  <2>2. CASE idx >= resp * (nworkers - 1)
    <3>1. idx \in WorkerBlocks(nworkers - 1, nblks, nworkers)
      BY <1>1, <1>2, <2>1, <2>2
    <3> QED BY <3>1
  <2>3. CASE idx < resp * (nworkers - 1)
    <3>1. resp # 0
      BY <1>1, <2>1, <2>3
    <3> DEFINE w == idx \div resp
    <3>2. w \in Nat /\ idx % resp \in 0..(resp - 1) /\ idx = w * resp + (idx % resp)
      BY <1>1, <2>1, <3>1, Division
    <3> HIDE DEF w
    <3>3. w < nworkers - 1
      <4>1. w * resp + (idx % resp) < (nworkers - 1) * resp
        BY <1>1, <2>3, <3>2
      <4> QED BY <1>1, <3>1, <3>2, <4>1, Below
    <3>4. w \in 0..(nworkers - 1) /\ w # nworkers - 1
      BY <3>2, <3>3
    <3>5. idx \in (resp * w)..(resp * w + resp - 1)
      <4>1. w * resp = resp * w /\ resp * w \in Nat
        BY <1>1, <3>2
      <4> QED BY <1>1, <2>1, <3>2, <4>1
    <3> QED BY <1>2, <3>4, <3>5
  <2>4. resp * (nworkers - 1) \in Nat
    BY <1>1
  <2> QED BY <2>1, <2>2, <2>3, <2>4
<1> QED BY <1>3, <1>4 DEF AllBlocks

\* A bit of the words that a row is cut into.
LEMMA WordsBit ==
    ASSUME NEW row, NEW from \in Nat, NEW c \in Row(bitVectWidth)
    PROVE  /\ c \div WordBits \in Row(WordsPerRow) /\ c % WordBits \in Row(WordBits)
           /\ Words(row, from)[c \div WordBits][c % WordBits] = row[from + c]
<1> DEFINE j == c \div WordBits
           k == c % WordBits
<1>1. c \in Nat /\ c < WordsPerRow * WordBits
  BY Widths DEF Row
<1>2. j \in Nat /\ k \in 0..(WordBits - 1) /\ c = j * WordBits + k
  BY <1>1, Division, Widths
<1> HIDE DEF j, k
<1>3. j < WordsPerRow
  BY <1>1, <1>2, Below, Widths
<1>4. j \in Row(WordsPerRow) /\ k \in Row(WordBits)
  BY <1>2, <1>3, Widths DEF Row
<1>5. (from + j * WordBits) + k = from + c
  BY <1>2, Widths
<1>6. Words(row, from)[j][k] = row[from + j * WordBits + k]
  BY <1>4 DEF Words
<1> QED BY <1>4, <1>5, <1>6 DEF j, k

\* A block of a tall matrix holds rows of it (bitvect.go, unravelTall).
LEMMA TallBlock ==
    ASSUME NEW matrix, NEW idx, NEW r \in Row(bitVectWidth), NEW c \in Row(bitVectWidth)
    PROVE  Ravelled(UnravelTall(matrix, idx), r, c) = matrix[(bitVectWidth * idx) + r][c]
<1> DEFINE j == c \div WordBits
           at == r * WordsPerRow + j
<1>1. /\ j \in Row(WordsPerRow)
      /\ Words(matrix[(bitVectWidth * idx) + r], 0)[j][c % WordBits]
           = matrix[(bitVectWidth * idx) + r][0 + c]
  BY WordsBit
<1>2. at \in Positions /\ at \div WordsPerRow = r /\ at % WordsPerRow = j
  BY <1>1, Place
<1>3. 0 + c = c
  BY DEF Row
<1> HIDE DEF j
<1>4. UnravelTall(matrix, idx)[at] = Words(matrix[(bitVectWidth * idx) + r], 0)[j]
  BY <1>2 DEF UnravelTall, Positions
<1> QED BY <1>1, <1>3, <1>4 DEF Ravelled, j

\* A block of a wide matrix holds parts of its rows (bitvect.go, unravelWide).
LEMMA WideBlock ==
    ASSUME NEW matrix, NEW idx \in Nat,
           NEW r \in Row(bitVectWidth), NEW c \in Row(bitVectWidth)
    PROVE  Ravelled(UnravelWide(matrix, idx), r, c) = matrix[r][idx * bitVectWidth + c]
<1> DEFINE j == c \div WordBits
           at == r * WordsPerRow + j
           from == idx * bitVectWidth
<1>0. from \in Nat
  BY Widths
<1>1. j \in Row(WordsPerRow)
  BY WordsBit, <1>0
<1>2. at \in Positions /\ at \div WordsPerRow = r /\ at % WordsPerRow = j
  BY <1>1, Place
<1>3. UnravelWide(matrix, idx)[at] = Words(matrix[r], from)[j]
  BY <1>2 DEF UnravelWide, Positions
<1> HIDE DEF from
<1>4. Words(matrix[r], from)[j][c % WordBits] = matrix[r][from + c]
  BY <1>0, WordsBit
<1> QED BY <1>3, <1>4 DEF Ravelled, from

\* A place of a matrix is in one of its blocks.
LEMMA BlockOf ==
    ASSUME NEW n \in Nat, n % bitVectWidth = 0, NEW k \in Row(n)
    PROVE  /\ k \div bitVectWidth \in Row(n \div bitVectWidth)
           /\ k \div bitVectWidth \in Nat /\ k % bitVectWidth \in Row(bitVectWidth)
           /\ n \div bitVectWidth \in Nat
           /\ (k \div bitVectWidth) * bitVectWidth + (k % bitVectWidth) = k
           /\ (bitVectWidth * (k \div bitVectWidth)) + (k % bitVectWidth) = k
<1> DEFINE idx == k \div bitVectWidth
           c == k % bitVectWidth
           size == n \div bitVectWidth
<1>0. k \in Nat /\ k < n
  BY DEF Row
<1>1. idx \in Nat /\ c \in 0..(bitVectWidth - 1) /\ k = idx * bitVectWidth + c
  BY <1>0, Division, Widths
<1>2. size \in Nat /\ n = size * bitVectWidth
  <2>1. size \in Nat /\ n = size * bitVectWidth + (n % bitVectWidth)
    BY Division, Widths
  <2>2. size * bitVectWidth \in Nat
    BY <2>1, Widths
  <2> QED BY <2>1, <2>2
<1> HIDE DEF idx, c, size
<1>3. idx * bitVectWidth + c < size * bitVectWidth
  BY <1>0, <1>1, <1>2
<1>4. idx < size
  BY <1>1, <1>2, <1>3, Below, Widths
<1>5. idx * bitVectWidth = bitVectWidth * idx
  BY <1>1, Widths
<1>6. idx \in Row(size) /\ c \in Row(bitVectWidth)
  BY <1>1, <1>2, <1>4 DEF Row
<1> QED BY <1>1, <1>2, <1>5, <1>6 DEF idx, c, size

\* Transposing a tall matrix with any number of goroutines takes row k of it to
\* column k (bitvect.go, ConcurrentTransposeTall).
THEOREM TallTransposed ==
    ASSUME NEW n \in Nat, n % bitVectWidth = 0, NEW nworkers \in Nat \ {0},
           NEW matrix, DOMAIN matrix = Row(n)
    PROVE  ConcurrentTransposeTall(matrix, nworkers)
             = [i \in Row(bitVectWidth) |-> [k \in Row(n) |-> matrix[k][i]]]
<1> DEFINE blocks == AllBlocks(n \div bitVectWidth, nworkers)
           block == [idx \in blocks |-> Transpose(UnravelTall(matrix, idx))]
           bit(i, k) == IF k \div bitVectWidth \in blocks
                        THEN Ravelled(block[k \div bitVectWidth], i, k % bitVectWidth)
                        ELSE Zero
<1>1. ConcurrentTransposeTall(matrix, nworkers)
        = [i \in Row(bitVectWidth) |-> [k \in Row(n) |-> bit(i, k)]]
  BY RowWidth DEF ConcurrentTransposeTall
<1>2. ASSUME NEW i \in Row(bitVectWidth), NEW k \in Row(n)
      PROVE  bit(i, k) = matrix[k][i]
  <2> DEFINE idx == k \div bitVectWidth
             c == k % bitVectWidth
  <2>1. /\ idx \in Row(n \div bitVectWidth) /\ n \div bitVectWidth \in Nat
        /\ c \in Row(bitVectWidth) /\ (bitVectWidth * idx) + c = k
    BY BlockOf
  <2>2. idx \in blocks
    BY <2>1, BlocksCovered
  <2>3. bit(i, k) = Ravelled(Transpose(UnravelTall(matrix, idx)), i, c)
    BY <2>2
  <2> HIDE DEF idx, c, bit
  <2>4. DOMAIN UnravelTall(matrix, idx) = Positions
    BY DEF UnravelTall, Positions
  <2>5. bit(i, k) = Ravelled(UnravelTall(matrix, idx), c, i)
    BY <2>1, <2>3, <2>4, TransposeMoves
  <2>6. Ravelled(UnravelTall(matrix, idx), c, i) = matrix[(bitVectWidth * idx) + c][i]
    BY <2>1, TallBlock
  <2> QED BY <2>1, <2>5, <2>6
<1> HIDE DEF bit
<1> QED BY <1>1, <1>2

\* Transposing a wide matrix with any number of goroutines takes row k of it to
\* column k (bitvect.go, ConcurrentTransposeWide).
THEOREM WideTransposed ==
    ASSUME NEW n \in Nat, n % bitVectWidth = 0, NEW nworkers \in Nat \ {0},
           NEW matrix, DOMAIN matrix[0] = Row(n)
    PROVE  ConcurrentTransposeWide(matrix, nworkers)
             = [i \in Row(n) |-> [k \in Row(bitVectWidth) |-> matrix[k][i]]]
<1> DEFINE blocks == AllBlocks(n \div bitVectWidth, nworkers)
           block == [idx \in blocks |-> Transpose(UnravelWide(matrix, idx))]
           bit(i, k) == IF i \div bitVectWidth \in blocks
                        THEN Ravelled(block[i \div bitVectWidth], i % bitVectWidth, k)
                        ELSE Zero
<1>1. ConcurrentTransposeWide(matrix, nworkers)
        = [i \in Row(n) |-> [k \in Row(bitVectWidth) |-> bit(i, k)]]
  BY RowWidth DEF ConcurrentTransposeWide, Width
<1>2. ASSUME NEW i \in Row(n), NEW k \in Row(bitVectWidth)
      PROVE  bit(i, k) = matrix[k][i]
  <2> DEFINE idx == i \div bitVectWidth
             r == i % bitVectWidth
  <2>1. /\ idx \in Row(n \div bitVectWidth) /\ n \div bitVectWidth \in Nat /\ idx \in Nat
        /\ r \in Row(bitVectWidth) /\ idx * bitVectWidth + r = i
    BY BlockOf
  <2>2. idx \in blocks
    BY <2>1, BlocksCovered
  <2>3. bit(i, k) = Ravelled(Transpose(UnravelWide(matrix, idx)), r, k)
    BY <2>2
  <2> HIDE DEF idx, r, bit
  <2>4. DOMAIN UnravelWide(matrix, idx) = Positions
    BY DEF UnravelWide, Positions
  <2>5. bit(i, k) = Ravelled(UnravelWide(matrix, idx), k, r)
    BY <2>1, <2>3, <2>4, TransposeMoves
  <2>6. Ravelled(UnravelWide(matrix, idx), k, r) = matrix[k][idx * bitVectWidth + r]
    <3>1. idx \in Nat /\ r \in Row(bitVectWidth)
      BY <2>1
    <3> QED BY ONLY <1>2, <3>1, WideBlock
  <2> QED BY <2>1, <2>5, <2>6
<1> HIDE DEF bit
<1> QED BY <1>1, <1>2

----------------------------------------------------------------------------
(* Bit operations by several goroutines.                                   *)

\* The block of size d that a place is in is the quotient.
LEMMA Between ==
    ASSUME NEW d \in Nat \ {0}, NEW x \in Nat, NEW i \in Nat,
           x \in (i * d)..((i + 1) * d - 1)
    PROVE  i = x \div d
<1>1. i * d \in Nat /\ (i + 1) * d = i * d + d
  OBVIOUS
<1>2. PICK b \in 0..(d - 1) : x = i * d + b
  <2>1. x - i * d \in 0..(d - 1)
    <3>1. ASSUME NEW s \in Nat, NEW t \in Nat, s = i * d, t = (i + 1) * d
          PROVE  x - s \in 0..(d - 1)
      BY <1>1, <3>1
    <3> QED BY <1>1, <3>1
  <2>2. x = i * d + (x - i * d)
    BY <1>1
  <2> QED BY <2>1, <2>2
<1> QED BY <1>2, Divided

\* The whole words of a share that a byte is in: one, or none.
LEMMA WordsOf ==
    ASSUME NEW d \in Nat \ {0}, NEW q \in Nat, NEW x \in Int
    PROVE  {i \in 0..(q - 1) : x \in (i * d)..((i + 1) * d - 1)}
             = IF x >= 0 /\ x < q * d THEN {x \div d} ELSE {}
<1> DEFINE W == {i \in 0..(q - 1) : x \in (i * d)..((i + 1) * d - 1)}
<1>1. ASSUME NEW i \in W PROVE x >= 0 /\ x < q * d /\ i = x \div d
  <2>1. i \in Nat /\ i + 1 <= q /\ x \in (i * d)..((i + 1) * d - 1)
    OBVIOUS
  <2> HIDE DEF W
  <2>2. i * d \in Nat /\ (i + 1) * d \in Nat /\ (i + 1) * d <= q * d /\ q * d \in Nat
    BY <2>1
  <2>3. x >= 0 /\ x < q * d
    BY <2>1, <2>2
  <2>4. x \in Nat
    BY <2>3
  <2> QED BY <2>1, <2>3, <2>4, Between
<1>2. ASSUME x >= 0, x < q * d PROVE x \div d \in W
  <2>1. x \in Nat
    BY <1>2
  <2>2. x \div d \in Nat /\ x % d \in 0..(d - 1) /\ x = (x \div d) * d + (x % d)
    BY <2>1, Division
  <2>3. ASSUME NEW i \in Nat, NEW b \in 0..(d - 1), x = i * d + b PROVE i \in W
    <3>0. i * d + b < q * d
      BY <1>2, <2>3
    <3>1. i < q
      BY <3>0, Below
    <3>2. i * d \in Nat /\ (i + 1) * d = i * d + d
      OBVIOUS
    <3>3. x \in (i * d)..((i + 1) * d - 1)
      BY <2>1, <2>3, <3>2
    <3> QED BY <3>1, <3>3
  <2> QED BY <2>2, <2>3
<1> HIDE DEF W
<1>3. W = IF x >= 0 /\ x < q * d THEN {x \div d} ELSE {}
  BY <1>1, <1>2
<1> QED BY <1>3 DEF W

\* The excess bytes of a share that a byte is: one, or none.
LEMMA ExcessOf ==
    ASSUME NEW to \in Int, NEW e \in Nat, NEW byte \in Int
    PROVE  {j \in 0..(e - 1) : byte = to - j - 1}
             = IF byte >= to - e /\ byte < to THEN {to - byte - 1} ELSE {}
  OBVIOUS

\* A bit operation on a share visits each of its bytes once, and no other
\* (bits_generic.go: the words, then the excess).
LEMMA VisitedOnce ==
    ASSUME NEW from \in Nat, NEW to \in Nat, from <= to, NEW byte \in Nat
    PROVE  /\ byte \in from..(to - 1) => \E v : Visits(byte, from, to) = {v}
           /\ byte \notin from..(to - 1) => Visits(byte, from, to) = {}
<1> DEFINE d == WordBits \div ByteBits
           len == to - from
           q == len \div d
           e == len % d
           x == byte - from
           words == {i \in 0..(q - 1) : x \in (i * d)..((i + 1) * d - 1)}
           excess == {j \in 0..(e - 1) : byte = to - j - 1}
<1>1. d \in Nat \ {0}
  BY Widths, Multiple
<1>2. len \in Nat /\ x \in Int
  OBVIOUS
<1>3. Visits(byte, from, to) = ({"word"} \X words) \cup ({"excess"} \X excess)
  BY DEF Visits
<1> HIDE DEF d
<1>4. q \in Nat /\ e \in Nat /\ len = q * d + e
  <2> HIDE DEF len
  <2> QED BY <1>1, <1>2, Division
<1> HIDE DEF q, e
<1>5. words = IF x >= 0 /\ x < q * d THEN {x \div d} ELSE {}
  BY <1>1, <1>2, <1>4, WordsOf
<1>6. excess = IF byte >= to - e /\ byte < to THEN {to - byte - 1} ELSE {}
  BY <1>4, ExcessOf
<1>7. q * d \in Nat
  BY <1>1, <1>4
<1>8. ASSUME NEW z \in Nat, z = q * d
      PROVE  /\ (x >= 0 /\ x < z) <=> (byte >= from /\ byte < to - e)
             /\ from <= to - e /\ to - e <= to
  BY <1>4, <1>8
<1>9. /\ (x >= 0 /\ x < q * d) <=> (byte >= from /\ byte < to - e)
      /\ from <= to - e /\ to - e <= to
  BY <1>7, <1>8
<1> HIDE DEF words, excess
<1>10. CASE byte >= from /\ byte < to - e
  <2>1. words = {x \div d} /\ excess = {}
    BY <1>4, <1>5, <1>6, <1>9, <1>10
  <2>2. Visits(byte, from, to) = {<<"word", x \div d>>}
    BY <1>3, <2>1
  <2>3. byte \in from..(to - 1)
    BY <1>4, <1>9, <1>10
  <2> QED BY ONLY <2>2, <2>3
<1>11. CASE byte >= to - e /\ byte < to
  <2>1. words = {} /\ excess = {to - byte - 1}
    BY <1>4, <1>5, <1>6, <1>9, <1>11
  <2>2. Visits(byte, from, to) = {<<"excess", to - byte - 1>>}
    BY <1>3, <2>1
  <2>3. byte \in from..(to - 1)
    BY <1>4, <1>9, <1>11
  <2> QED BY ONLY <2>2, <2>3
<1>12. CASE byte < from \/ byte >= to
  <2>1. words = {} /\ excess = {}
    BY <1>4, <1>5, <1>6, <1>9, <1>12
  <2>2. Visits(byte, from, to) = {}
    BY <1>3, <2>1
  <2> QED BY <1>12, <2>2
<1>13. \/ byte >= from /\ byte < to - e
       \/ byte >= to - e /\ byte < to
       \/ byte < from \/ byte >= to
  BY <1>4, <1>9
<1> QED BY <1>10, <1>11, <1>12, <1>13

\* The shares of two goroutines have nothing in common.
LEMMA BlocksApart ==
    ASSUME NEW nblks \in Nat, NEW nworkers \in Nat \ {0},
           NEW w \in 0..(nworkers - 1), NEW v \in 0..(nworkers - 1), w < v,
           NEW idx \in WorkerBlocks(w, nblks, nworkers)
    PROVE  idx \notin WorkerBlocks(v, nblks, nworkers)
<1> DEFINE resp == nblks \div nworkers
<1>1. resp \in Nat
  BY Division
<1>2. /\ idx \in (resp * w)..(resp * w + resp - 1)
      /\ \A i \in WorkerBlocks(v, nblks, nworkers) : i >= resp * v
  BY DEF WorkerBlocks
<1> HIDE DEF resp
<1>3. /\ resp * w \in Nat /\ resp * w + resp = resp * (w + 1) /\ resp * v \in Nat
      /\ resp * (w + 1) <= resp * v
  BY <1>1
<1>4. idx \in Int /\ idx < resp * w + resp
  BY <1>1, <1>2, <1>3
<1>5. idx < resp * v
  BY <1>1, <1>3, <1>4
<1> QED BY <1>2, <1>3, <1>4, <1>5

\* A byte of a slice is in the share of exactly one goroutine.
LEMMA OneShare ==
    ASSUME NEW len \in Nat, NEW nworkers \in Nat \ {0}, NEW byte \in 0..(len - 1)
    PROVE  /\ \A s \in Shares(len, nworkers) : s[1] \in Nat /\ s[2] \in Nat /\ s[1] <= s[2]
           /\ \E s \in Shares(len, nworkers) :
                 /\ byte \in s[1]..(s[2] - 1)
                 /\ \A t \in Shares(len, nworkers) : byte \in t[1]..(t[2] - 1) => t = s
<1>1. CASE len < nworkers * MinShare
  <2>1. Shares(len, nworkers) = {<<0, len>>}
    BY <1>1 DEF Shares
  <2> QED BY <2>1
<1>2. CASE ~(len < nworkers * MinShare)
  <2> DEFINE size == len \div nworkers
             to(w) == IF w = nworkers - 1 THEN len ELSE size * (w + 1)
             share(w) == <<size * w, to(w)>>
  <2>1. Shares(len, nworkers) = {share(w) : w \in 0..(nworkers - 1)}
    BY <1>2 DEF Shares
  <2>2. size \in Nat /\ len = size * nworkers + (len % nworkers) /\ len % nworkers \in Nat
    BY Division
  <2>3. \A w \in 0..(nworkers - 1) : WorkerBlocks(w, len, nworkers) =
          IF w = nworkers - 1 THEN (size * w)..(len - 1)
          ELSE (size * w)..(size * w + size - 1)
    BY DEF WorkerBlocks
  <2> HIDE DEF size
  <2>4. ASSUME NEW w \in 0..(nworkers - 1)
        PROVE  /\ size * w \in Nat /\ to(w) \in Nat /\ size * w <= to(w)
               /\ (size * w)..(to(w) - 1) = WorkerBlocks(w, len, nworkers)
    <3>1. /\ size * w \in Nat /\ size * (w + 1) \in Nat /\ size * (w + 1) = size * w + size
          /\ size * w <= size * nworkers
      BY <2>2
    <3>2. size * nworkers <= len /\ size * nworkers \in Nat
      BY <2>2
    <3>3. size * w <= len
      BY <3>1, <3>2
    <3>4. CASE w = nworkers - 1
      BY <2>3, <3>1, <3>3, <3>4
    <3>5. CASE w # nworkers - 1
      <4>1. to(w) = size * w + size
        BY <3>1, <3>5
      <4>2. WorkerBlocks(w, len, nworkers) = (size * w)..(size * w + size - 1)
        BY <2>3, <3>5
      <4> QED BY <2>2, <3>1, <4>1, <4>2
    <3> QED BY <3>4, <3>5
  <2> HIDE DEF to
  <2>5. \A s \in Shares(len, nworkers) : s[1] \in Nat /\ s[2] \in Nat /\ s[1] <= s[2]
    BY <2>1, <2>4
  <2>6. byte \in AllBlocks(len, nworkers)
    BY BlocksCovered DEF Row
  <2>7. PICK w \in 0..(nworkers - 1) : byte \in WorkerBlocks(w, len, nworkers)
    BY <2>6 DEF AllBlocks
  <2>8. share(w) \in Shares(len, nworkers) /\ byte \in share(w)[1]..(share(w)[2] - 1)
    BY <2>1, <2>4, <2>7
  <2>9. ASSUME NEW t \in Shares(len, nworkers), byte \in t[1]..(t[2] - 1)
        PROVE  t = share(w)
    <3>1. PICK v \in 0..(nworkers - 1) : t = share(v)
      BY <2>1
    <3>2. byte \in WorkerBlocks(v, len, nworkers)
      BY <2>4, <2>9, <3>1
    <3>3. ~(w < v) /\ ~(v < w)
      BY <2>7, <3>2, BlocksApart
    <3>4. w = v
      BY <3>3
    <3> QED BY <3>1, <3>4
  <2> HIDE DEF share
  <2> QED BY <2>5, <2>8, <2>9
<1> QED BY <1>1, <1>2

\* The goroutines of a bit operation together visit every byte exactly once, for any
\* length, with and without a remainder, and any number of goroutines: no bit is
\* XORed twice, and none is left out (bits.go, ConcurrentBitOp).
THEOREM OnceOver ==
    ASSUME NEW len \in Nat, NEW nworkers \in Nat \ {0}, NEW byte \in 0..(len - 1)
    PROVE  Times(byte, len, nworkers) = 1
<1> DEFINE S == Shares(len, nworkers)
           V(s) == Visits(byte, s[1], s[2])
<1>1. /\ \A s \in S : s[1] \in Nat /\ s[2] \in Nat /\ s[1] <= s[2]
      /\ \E s \in S : /\ byte \in s[1]..(s[2] - 1)
                      /\ \A t \in S : byte \in t[1]..(t[2] - 1) => t = s
  BY OneShare
<1>2. PICK s \in S : /\ byte \in s[1]..(s[2] - 1)
                     /\ \A t \in S : byte \in t[1]..(t[2] - 1) => t = s
  BY <1>1
<1>3. byte \in Nat
  OBVIOUS
<1> HIDE DEF S
<1>4. \E v : V(s) = {v}
  BY <1>1, <1>2, <1>3, VisitedOnce
<1>5. PICK v : V(s) = {v}
  BY <1>4
<1>6. ASSUME NEW t \in S, t # s PROVE V(t) = {}
  <2>1. byte \notin t[1]..(t[2] - 1)
    BY <1>2, <1>6
  <2> QED BY <1>1, <1>3, <1>6, <2>1, VisitedOnce
<1> HIDE DEF V
<1>7. UNION {{t} \X V(t) : t \in S} = {<<s, v>>}
  <2>1. ASSUME NEW t \in S PROVE {t} \X V(t) = IF t = s THEN {<<s, v>>} ELSE {}
    BY <1>5, <1>6
  <2> QED BY <2>1, <1>2
<1>8. Times(byte, len, nworkers) = Cardinality({<<s, v>>})
  BY <1>7 DEF Times, S, V
<1> QED BY <1>8, FS_Singleton

\* Every bit is in a byte that is visited once.
LEMMA EachBitOnce ==
    ASSUME NEW n \in Nat, n % ByteBits = 0, NEW nworkers \in Nat \ {0},
           NEW dst, DOMAIN dst = Row(n), NEW i \in Row(n)
    PROVE  Times(i \div ByteBits, Width(dst) \div ByteBits, nworkers) = 1
<1> DEFINE byte == i \div ByteBits
           len == n \div ByteBits
<1>1. ByteBits \in Nat \ {0}
  BY Widths
<1>2. i \in Nat /\ i < n
  BY DEF Row
<1>3. byte \in Nat /\ i % ByteBits \in 0..(ByteBits - 1)
      /\ i = byte * ByteBits + (i % ByteBits)
  BY <1>1, <1>2, Division
<1>4. len \in Nat /\ n = len * ByteBits
  <2>1. len \in Nat /\ n = len * ByteBits + (n % ByteBits)
    BY <1>1, Division
  <2>2. len * ByteBits \in Nat
    BY <1>1, <2>1
  <2> QED BY <2>1, <2>2
<1> HIDE DEF byte, len
<1>5. byte * ByteBits + (i % ByteBits) < len * ByteBits
  BY <1>2, <1>3, <1>4
<1>6. byte < len
  BY <1>1, <1>3, <1>4, <1>5, Below
<1>7. Times(byte, len, nworkers) = 1
  BY <1>3, <1>4, <1>6, OnceOver
<1> QED BY <1>7, RowWidth DEF Width, byte, len

\* Xor adds bit by bit, whatever the goroutines.
LEMMA Xored ==
    ASSUME NEW n \in Nat, n % ByteBits = 0, NEW nworkers \in Nat \ {0},
           NEW dst, DOMAIN dst = Row(n), NEW a
    PROVE  Xor(dst, a, nworkers) = [i \in Row(n) |-> Plus(dst[i], a[i])]
<1>1. \A i \in Row(n) : Times(i \div ByteBits, Width(dst) \div ByteBits, nworkers) = 1
  BY EachBitOnce
<1> QED BY <1>1 DEF Xor, BitOp

\* DoubleXor adds two rows bit by bit, whatever the goroutines.
LEMMA DoubleXored ==
    ASSUME NEW n \in Nat, n % ByteBits = 0, NEW nworkers \in Nat \ {0},
           NEW dst, DOMAIN dst = Row(n), NEW a, NEW b
    PROVE  DoubleXor(dst, a, b, nworkers) = [i \in Row(n) |-> Plus(Plus(dst[i], a[i]), b[i])]
<1>1. \A i \in Row(n) : Times(i \div ByteBits, Width(dst) \div ByteBits, nworkers) = 1
  BY EachBitOnce
<1> QED BY <1>1 DEF DoubleXor, BitOp

\* AndXor masks and adds bit by bit, whatever the goroutines.
LEMMA AndXored ==
    ASSUME NEW n \in Nat, n % ByteBits = 0, NEW nworkers \in Nat \ {0},
           NEW dst, DOMAIN dst = Row(n), NEW a, NEW b
    PROVE  AndXor(dst, a, b, nworkers) = [i \in Row(n) |-> Plus(AndBit(dst[i], a[i]), b[i])]
<1>1. \A i \in Row(n) : Times(i \div ByteBits, Width(dst) \div ByteBits, nworkers) = 1
  BY EachBitOnce
<1> QED BY <1>1 DEF AndXor, BitOp

\* Padding to a multiple.
LEMMA Padding ==
    ASSUME NEW n \in Nat, NEW d \in Nat \ {0}
    PROVE  Pad(n, d) \in Nat /\ Pad(n, d) % d = 0 /\ n <= Pad(n, d)
<1> DEFINE q == n \div d
           e == n % d
<1>1. q \in Nat /\ e \in 0..(d - 1) /\ n = q * d + e
  BY Division
<1>2. Pad(n, d) = IF e = 0 THEN n ELSE n + (d - e)
  BY DEF Pad
<1> HIDE DEF q, e
<1>3. CASE e = 0
  <2>1. Pad(n, d) = q * d + 0
    BY <1>1, <1>2, <1>3
  <2>2. q * d + 0 \in Nat /\ (q * d + 0) % d = 0
    BY <1>1, Divided
  <2> QED BY <1>2, <1>3, <2>1, <2>2
<1>4. CASE e # 0
  <2>1. Pad(n, d) = (q + 1) * d + 0
    BY <1>1, <1>2, <1>4
  <2>2. (q + 1) * d + 0 \in Nat /\ ((q + 1) * d + 0) % d = 0
    BY <1>1, Divided
  <2>3. n <= Pad(n, d)
    BY <1>1, <1>2, <1>4
  <2> QED BY <2>1, <2>2, <2>3
<1> QED BY <1>3, <1>4

\* A whole number of rows is a whole number of bytes.
LEMMA WholeBytes ==
    ASSUME NEW n \in Nat, n % bitVectWidth = 0
    PROVE  n % ByteBits = 0
<1> DEFINE q == n \div bitVectWidth
           b == WordBits \div ByteBits
<1>1. q \in Nat /\ n = q * bitVectWidth
  <2>1. q \in Nat /\ n = q * bitVectWidth + (n % bitVectWidth)
    BY Division, Widths
  <2>2. q * bitVectWidth \in Nat
    BY <2>1, Widths
  <2> QED BY <2>1, <2>2
<1>2. b \in Nat /\ WordBits = b * ByteBits
  BY Multiple, Widths
<1> HIDE DEF q, b
<1>3. n = (q * (b * WordsPerRow)) * ByteBits + 0
  BY <1>1, <1>2, Widths
<1>4. q * (b * WordsPerRow) \in Nat
  BY <1>1, <1>2, Widths
<1>5. \A z \in Nat : (z * ByteBits + 0) % ByteBits = 0
  BY Divided, Widths
<1> QED BY ONLY <1>3, <1>4, <1>5

----------------------------------------------------------------------------
(* The algebra of a column.                                                *)

\* The key material of a choice, and the place of the chosen message.
Material(col) == KeyMaterial(col, pointA, secret[col])
Chosen(choice) == IF choice THEN 1 ELSE 0

\* Points differ when one of their coefficients does.
LEMMA Terms ==
    ASSUME NEW c \in Cols
    PROVE  /\ <<"A", 0>> \in Term /\ <<"R", 0>> \in Term /\ <<"rA", 0>> \in Term
           /\ <<"B", c>> \in Term /\ <<"rB", c>> \in Term
  BY DEF Term

\* The coefficients of the points that the parties send.
LEMMA Coefficients ==
    ASSUME NEW c \in Cols, NEW d \in Cols
    PROVE  /\ pointA[<<"A", 0>>] = 1 /\ pointA[<<"B", d>>] = 0
           /\ pointR[<<"R", 0>>] = 1
           /\ pointB(c)[<<"A", 0>>] = 0
           /\ pointB(c)[<<"B", d>>] = IF d = c THEN 1 ELSE 0
<1>1. /\ <<"A", 0>> # <<"B", d>> /\ <<"A", 0>> # <<"B", c>>
      /\ (<<"B", d>> = <<"B", c>>) <=> (d = c)
  OBVIOUS
<1> QED BY <1>1, Terms DEF pointA, pointR, pointB, Public

\* b R, the key the receiver of the base OT decrypts with, is r B.
LEMMA SharedKey ==
    ASSUME NEW c \in Cols, NEW choice \in BOOLEAN
    PROVE  LET K0 == MultR(KeyMaterial(c, pointA, choice))
           IN MultB(pointR, c) = IF choice THEN Sub(MultR(pointA), K0) ELSE K0
<1> DEFINE M == KeyMaterial(c, pointA, choice)
           K0 == MultR(M)
           key == IF choice THEN Sub(MultR(pointA), K0) ELSE K0
<1>1. \A t \in Term : MultB(pointR, c)[t] = IF t = <<"rB", c>> THEN 1 ELSE 0
  BY Coefficients DEF MultB
<1>2. \A t \in Term : key[t] = IF t = <<"rB", c>> THEN 1 ELSE 0
  <2> SUFFICES ASSUME NEW t \in Term
               PROVE  key[t] = IF t = <<"rB", c>> THEN 1 ELSE 0
    OBVIOUS
  <2>1. /\ M[<<"A", 0>>] = IF choice THEN 1 ELSE 0
        /\ \A d \in Cols : M[<<"B", d>>] = IF d = c THEN (IF choice THEN -1 ELSE 1) ELSE 0
    <3>1. CASE choice
      <4>1. M = Sub(pointA, pointB(c))
        BY <3>1 DEF KeyMaterial
      <4>2. M[<<"A", 0>>] = 1
        <5>1. M[<<"A", 0>>] = pointA[<<"A", 0>>] - pointB(c)[<<"A", 0>>]
          BY <4>1, Terms DEF Sub
        <5>2. pointA[<<"A", 0>>] = 1 /\ pointB(c)[<<"A", 0>>] = 0
          BY Coefficients
        <5> QED BY <5>1, <5>2
      <4>3. ASSUME NEW d \in Cols PROVE M[<<"B", d>>] = IF d = c THEN -1 ELSE 0
        <5>1. M[<<"B", d>>] = pointA[<<"B", d>>] - pointB(c)[<<"B", d>>]
          BY <4>1, Terms DEF Sub
        <5> QED BY <5>1, Coefficients
      <4> QED BY <3>1, <4>2, <4>3
    <3>2. CASE ~choice
      BY <3>2, Coefficients DEF KeyMaterial
    <3> QED BY <3>1, <3>2
  <2>2. CASE t[1] = "rA"
    <3>1. t # <<"rB", c>>
      BY <2>2
    <3>2. K0[t] = M[<<"A", 0>>] /\ MultR(pointA)[t] = 1
      BY <2>2, Coefficients DEF MultR
    <3> QED BY <2>1, <3>1, <3>2 DEF Sub
  <2>3. CASE t[1] = "rB"
    <3>1. PICK d \in Cols : t = <<"rB", d>>
      BY <2>3 DEF Term
    <3>2. K0[t] = M[<<"B", d>>] /\ MultR(pointA)[t] = 0 /\ (t = <<"rB", c>> <=> d = c)
      BY <3>1, Coefficients DEF MultR
    <3> QED BY <2>1, <3>2 DEF Sub
  <2>4. CASE t[1] \notin {"rA", "rB"}
    <3>1. t # <<"rB", c>> /\ K0[t] = 0 /\ MultR(pointA)[t] = 0
      BY <2>4 DEF MultR
    <3> QED BY <3>1 DEF Sub
  <2> QED BY <2>2, <2>3, <2>4
<1>3. MultB(pointR, c) = [t \in Term |-> MultB(pointR, c)[t]]
  BY DEF MultB
<1>4. key = [t \in Term |-> key[t]]
  BY DEF Sub, MultR
<1> HIDE DEF key
<1>5. MultB(pointR, c) = key
  BY <1>1, <1>2, <1>3, <1>4
<1> QED BY <1>5 DEF key

\* The cipher is its own inverse.
LEMMA CipherInverse ==
    ASSUME NEW key, NEW ind, NEW src
    PROVE  XorCipherWithBlake3(key, ind, XorCipherWithBlake3(key, ind, src)) = src
  BY DEF XorCipherWithBlake3

\* Decrypting gives the message of the choice, for any two messages.
LEMMA DecryptsChosen ==
    ASSUME NEW c \in Cols, NEW choice \in BOOLEAN, NEW msg
    PROVE  Decrypted(c, pointR, choice, Encrypted(KeyMaterial(c, pointA, choice), msg))
             = msg[Chosen(choice)]
<1> DEFINE K0 == MultR(KeyMaterial(c, pointA, choice))
           key == IF choice THEN Sub(MultR(pointA), K0) ELSE K0
           ind == Chosen(choice)
<1>1. key = MultB(pointR, c)
  BY SharedKey
<1>2. Encrypted(KeyMaterial(c, pointA, choice), msg)[ind]
        = XorCipherWithBlake3(DeriveKeyFromECPoint(key), ind, msg[ind])
  BY DEF Encrypted, Chosen
<1>3. Decrypted(c, pointR, choice, Encrypted(KeyMaterial(c, pointA, choice), msg))
        = XorCipherWithBlake3(DeriveKeyFromECPoint(MultB(pointR, c)), ind,
                              Encrypted(KeyMaterial(c, pointA, choice), msg)[ind])
  BY DEF Decrypted, Chosen
<1> HIDE DEF key, ind
<1> QED BY <1>1, <1>2, <1>3, CipherInverse DEF ind

----------------------------------------------------------------------------
(* The invariant.                                                          *)

\* Where the two parties are while the base OT runs.  A party that failed stays
\* where it was, and what it sent can still be read.
PointsPhase ==
    /\ spc = "points" /\ sCol = 0 /\ rCol = 0 /\ s2r = <<>>
    /\ \/ r2s = <<>> /\ rpc \in {"points", "error"}
       \/ r2s = <<<<pointA, pointR>>>> /\ rpc \in {"key", "error"}

\* The sender is about to write the key material of the column.
KeyPhase ==
    /\ spc = "key" /\ s2r = <<>> /\ r2s = <<>>
    /\ rCol = sCol /\ rpc \in {"key", "error"}

\* The key material is on its way, or has arrived.
MaterialPhase ==
    /\ spc = "ciphers" /\ r2s = <<>> /\ rCol = sCol
    /\ \/ s2r = <<Material(sCol)>> /\ rpc \in {"key", "error"}
       \/ /\ s2r = <<>> /\ rpc \in {"ciphers", "error"}
          /\ rpc = "ciphers" => keyMaterial = Material(sCol)

\* The ciphertexts are on their way, and the receiver is a column ahead.
CiphersPhase ==
    /\ spc = "ciphers" /\ s2r = <<>>
    /\ r2s = <<Encrypted(Material(sCol), BaseMsgs(sCol))>>
    /\ rCol = (sCol + 1) % Columns
    /\ rpc \in IF sCol + 1 = Columns THEN {"codes", "mask", "error"} ELSE {"key", "error"}

\* The base OT is over for the sender.
OtDone == spc \in {"mask", "nil", "error"}

Phases == OtDone \/ PointsPhase \/ KeyPhase \/ MaterialPhase \/ CiphersPhase

\* Only the order of the messages makes ChosenSeed inductive: the ciphertexts
\* the sender reads must be those of its column, made from its key material.
IInv ==
    /\ secret \in [Cols -> BOOLEAN] /\ sCol \in Cols
    /\ spc \in {"key", "ciphers"} => points = <<pointA, pointR>>
    /\ Phases
    /\ ChosenSeed

----------------------------------------------------------------------------
\* There is a column.
LEMMA SomeColumn == Columns \in Nat \ {0}
  BY OPRFAssumption, Widths

\* Nothing was sent yet.
LEMMA InitIInv == Init => IInv
<1> SUFFICES ASSUME Init PROVE IInv
  OBVIOUS
<1>1. secret \in [Cols -> BOOLEAN] /\ sCol \in Cols
  BY SomeColumn, OPRFAssumption DEF Init, Cols
<1>2. PointsPhase
  BY DEF Init, PointsPhase
<1>3. ChosenSeed
  BY DEF Init, Empty, ChosenSeed
<1> QED BY <1>1, <1>2, <1>3 DEF IInv, Phases, PointsPhase

\* The ciphertexts of a column: the seed of the choice bit is entered.
LEMMA OtReadCiphersStep ==
    ASSUME IInv, OtReadCiphers
    PROVE  IInv'
<1>1. /\ spc = "ciphers" /\ r2s # <<>> /\ r2s' = Tail(r2s)
      /\ seeds' = Put(seeds, sCol, Decrypted(sCol, points[2], secret[sCol], Head(r2s)))
      /\ sCol' = (sCol + 1) % Columns
      /\ spc' = IF sCol + 1 = Columns THEN "mask" ELSE "key"
      /\ secret' = secret /\ UNCHANGED <<points, rpc, rCol, keyMaterial, s2r>>
  BY DEF OtReadCiphers, CanRecv, input, receiver
<1>2. CiphersPhase
  BY <1>1 DEF IInv, Phases, OtDone, PointsPhase, KeyPhase, MaterialPhase
<1>3. points = <<pointA, pointR>> /\ secret[sCol] \in BOOLEAN /\ sCol \in Cols
  BY <1>1 DEF IInv
<1>4. Head(r2s) = Encrypted(Material(sCol), BaseMsgs(sCol)) /\ Tail(r2s) = <<>>
  BY <1>2 DEF CiphersPhase
<1>5. Decrypted(sCol, points[2], secret[sCol], Head(r2s))
        = BaseMsgs(sCol)[Chosen(secret[sCol])]
  BY <1>3, <1>4, DecryptsChosen DEF Material
<1>6. ChosenSeed'
  <2> SUFFICES ASSUME NEW col \in DOMAIN seeds'
               PROVE  seeds'[col] = BaseMsgs(col)[Chosen(secret[col])]
    BY <1>1 DEF ChosenSeed, Chosen, BaseMsgs
  <2> DEFINE seed == Decrypted(sCol, points[2], secret[sCol], Head(r2s))
  <2> HIDE DEF seed
  <2>0. /\ DOMAIN seeds' = DOMAIN seeds \cup {sCol} /\ seeds'[sCol] = seed
        /\ \A z \in DOMAIN seeds : z # sCol => seeds'[z] = seeds[z]
    <3>1. seeds' = Put(seeds, sCol, seed)
      BY <1>1 DEF seed
    <3> QED BY <3>1 DEF Put
  <2>1. CASE col = sCol
    BY <1>5, <2>0, <2>1 DEF seed
  <2>2. CASE col # sCol
    <3>1. col \in DOMAIN seeds /\ seeds'[col] = seeds[col]
      BY <2>0, <2>2
    <3> QED BY <3>1 DEF IInv, ChosenSeed, Chosen
  <2> QED BY <2>1, <2>2
<1>7. sCol' \in Cols
  BY <1>1, SomeColumn, <1>3 DEF Cols
<1>8. CASE sCol + 1 = Columns
  BY <1>1, <1>3, <1>6, <1>7, <1>8 DEF IInv, Phases, OtDone
<1>9. CASE sCol + 1 # Columns
  <2>1. KeyPhase'
    BY <1>1, <1>2, <1>4, <1>9 DEF CiphersPhase, KeyPhase
  <2> QED BY <1>1, <1>3, <1>6, <1>7, <1>9, <2>1 DEF IInv, Phases
<1> QED BY <1>8, <1>9

\* The other steps of Send leave the seeds alone.
LEMMA SendStep ==
    ASSUME IInv, Send
    PROVE  IInv'
<1>1. CASE OtReadPoints
  <2>1. /\ spc = "points" /\ r2s # <<>> /\ points' = Head(r2s) /\ r2s' = Tail(r2s)
        /\ spc' = "key" /\ UNCHANGED <<secret, sCol, seeds, rpc, rCol, keyMaterial, s2r>>
    BY <1>1 DEF OtReadPoints, CanRecv, input, receiver
  <2>2. PointsPhase
    BY <2>1 DEF IInv, Phases, OtDone, KeyPhase, MaterialPhase, CiphersPhase
  <2>3. r2s = <<<<pointA, pointR>>>> /\ rpc \in {"key", "error"}
    BY <2>1, <2>2 DEF PointsPhase
  <2>4. points' = <<pointA, pointR>> /\ r2s' = <<>>
    BY <2>1, <2>3
  <2>5. KeyPhase'
    BY <2>1, <2>2, <2>3, <2>4 DEF PointsPhase, KeyPhase
  <2> QED BY <2>1, <2>4, <2>5 DEF IInv, Phases, ChosenSeed, BaseMsgs
<1>2. CASE OtWriteKey
  <2>1. /\ spc = "key" /\ s2r' = <<KeyMaterial(sCol, points[1], secret[sCol])>>
        /\ spc' = "ciphers"
        /\ UNCHANGED <<secret, sCol, points, seeds, rpc, rCol, keyMaterial, r2s>>
    BY <1>2 DEF OtWriteKey, input, receiver
  <2>2. KeyPhase /\ points = <<pointA, pointR>>
    BY <2>1 DEF IInv, Phases, OtDone, PointsPhase, MaterialPhase, CiphersPhase
  <2>3. MaterialPhase'
    BY <2>1, <2>2 DEF KeyPhase, MaterialPhase, Material
  <2> QED BY <2>1, <2>2, <2>3 DEF IInv, Phases, ChosenSeed, BaseMsgs
<1>3. CASE OtReadCiphers
  BY <1>3, OtReadCiphersStep
<1>4. CASE ReadMask
  <2>1. /\ sCol' = (sCol + 1) % Columns /\ spc' \in {"nil", "mask"}
        /\ UNCHANGED <<secret, points, seeds>>
    BY <1>4 DEF ReadMask, input
  <2>2. sCol' \in Cols
    BY <2>1, SomeColumn DEF IInv, Cols
  <2> QED BY <2>1, <2>2 DEF IInv, Phases, OtDone, ChosenSeed, BaseMsgs
<1>5. CASE SendFails
  <2>1. spc' = "error" /\ UNCHANGED <<secret, sCol, points, seeds>>
    BY <1>5 DEF SendFails, input
  <2> QED BY <2>1 DEF IInv, Phases, OtDone, ChosenSeed, BaseMsgs
<1> QED BY <1>1, <1>2, <1>3, <1>4, <1>5 DEF Send

\* The steps of Receive keep the order of the messages.
LEMMA ReceiveStep ==
    ASSUME IInv, Receive
    PROVE  IInv'
<1>1. UNCHANGED <<secret, spc, sCol, points, seeds>>
  BY DEF Receive, OtWritePoints, OtReadKey, OtWriteCiphers, TakeCodes, WriteMask,
         ReceiveFails, input, sender
<1>2. SUFFICES Phases'
  BY <1>1, <1>2 DEF IInv, ChosenSeed, BaseMsgs
<1>3. CASE OtDone
  BY <1>1, <1>3 DEF Phases, OtDone
<1>4. SUFFICES ASSUME ~OtDone PROVE Phases'
  BY <1>3
<1>5. CASE OtWritePoints
  <2>1. /\ rpc = "points" /\ r2s' = <<<<pointA, pointR>>>>
        /\ rpc' = "key" /\ UNCHANGED <<rCol, s2r>>
    BY <1>5 DEF OtWritePoints
  <2>2. PointsPhase
    BY <1>4, <2>1 DEF IInv, Phases, KeyPhase, MaterialPhase, CiphersPhase
  <2> QED BY <1>1, <2>1, <2>2 DEF Phases, PointsPhase
<1>6. CASE OtReadKey
  <2>1. /\ rpc = "key" /\ s2r # <<>> /\ keyMaterial' = Head(s2r) /\ s2r' = Tail(s2r)
        /\ rpc' = "ciphers" /\ UNCHANGED <<rCol, r2s>>
    BY <1>6 DEF OtReadKey, CanRecv
  <2>2. MaterialPhase /\ s2r = <<Material(sCol)>>
    BY <1>4, <2>1 DEF IInv, Phases, PointsPhase, KeyPhase, MaterialPhase, CiphersPhase
  <2>3. keyMaterial' = Material(sCol) /\ s2r' = <<>>
    BY <2>1, <2>2
  <2> QED BY <1>1, <2>1, <2>2, <2>3 DEF Phases, MaterialPhase, Material
<1>7. CASE OtWriteCiphers
  <2>1. /\ rpc = "ciphers" /\ r2s' = <<Encrypted(keyMaterial, BaseMsgs(rCol))>>
        /\ rCol' = (rCol + 1) % Columns /\ s2r' = s2r
        /\ rpc' = IF rCol + 1 = Columns THEN "codes" ELSE "key"
    BY <1>7 DEF OtWriteCiphers
  <2>2. /\ spc = "ciphers" /\ s2r = <<>> /\ rCol = sCol /\ keyMaterial = Material(sCol)
    BY <1>4, <2>1 DEF IInv, Phases, PointsPhase, KeyPhase, MaterialPhase, CiphersPhase
  <2>3. CiphersPhase'
    BY <1>1, <2>1, <2>2 DEF CiphersPhase, Material, BaseMsgs
  <2> QED BY <2>3 DEF Phases
<1>8. CASE TakeCodes
  <2>1. rpc = "codes" /\ rpc' = "mask" /\ UNCHANGED <<rCol, s2r, r2s>>
    BY <1>8 DEF TakeCodes, net
  <2>2. CiphersPhase /\ sCol + 1 = Columns
    BY <1>4, <2>1 DEF IInv, Phases, PointsPhase, KeyPhase, MaterialPhase, CiphersPhase
  <2>3. CiphersPhase'
    BY <1>1, <2>1, <2>2 DEF CiphersPhase, Material, BaseMsgs
  <2> QED BY <2>3 DEF Phases
<1>9. CASE WriteMask
  <2>1. rpc = "mask" /\ r2s = <<>>
    BY <1>9 DEF WriteMask, CanSend
  <2> QED BY <1>4, <2>1 DEF IInv, Phases, PointsPhase, KeyPhase, MaterialPhase, CiphersPhase
<1>10. CASE ReceiveFails
  <2>1. rpc' = "error" /\ UNCHANGED <<rCol, keyMaterial, s2r, r2s>>
    BY <1>10 DEF ReceiveFails, net
  <2> QED BY <1>1, <1>4, <2>1 DEF IInv, Phases, PointsPhase, KeyPhase, MaterialPhase,
                                  CiphersPhase, Material, BaseMsgs
<1> QED BY <1>5, <1>6, <1>7, <1>8, <1>9, <1>10 DEF Receive

\* Every step keeps the invariant: the goroutine that computes the codes and a
\* connection that breaks touch nothing of it.
LEMMA NextIInv == IInv /\ [Next]_vars => IInv'
<1> SUFFICES ASSUME IInv, [Next]_vars PROVE IInv'
  OBVIOUS
<1>1. CASE Goroutine \/ Drop \/ UNCHANGED vars
  <2>1. UNCHANGED <<secret, spc, sCol, points, seeds, rpc, rCol, keyMaterial, s2r, r2s>>
    BY <1>1 DEF Goroutine, Worker, Rest, Drop, vars, input, sender, receiver, net
  <2> QED BY <2>1 DEF IInv, Phases, OtDone, PointsPhase, KeyPhase, MaterialPhase,
                      CiphersPhase, Material, ChosenSeed, BaseMsgs
<1> QED BY <1>1, SendStep, ReceiveStep DEF Next

----------------------------------------------------------------------------
\* The messages of the base OT alternate, column by column, and carry what the
\* column asks for, whichever call fails.
THEOREM Invariance == Spec => []IInv
<1> QED BY InitIInv, NextIInv, PTL DEF Spec

\* The base OT gives the sender the seed of its choice bit in every column,
\* whatever its choice bits are (ot/naor_pinkas.go, Send and Receive).
THEOREM SeedCorrect == Spec => []ChosenSeed
<1>1. IInv => ChosenSeed
  BY DEF IInv
<1> QED BY <1>1, Invariance, PTL

----------------------------------------------------------------------------
(* The values.                                                             *)

\* What the values of a column or a bucket are: the output of the generator for
\* a seed, the code of a bucket, zero for the padding, the masked column, and
\* the column of the sender's keys.
Generated(col, c) == PseudorandomGenerate(BaseMsgs(col)[c])

CodeAt(b) == IF b \in Row(m) THEN CodeOf(b) ELSE ZeroRow(Columns)

MaskedColumn(col) == [b \in Row(padded) |->
    Plus(Plus(Generated(col, 1)[b], Generated(col, 0)[b]), CodeAt(b)[col])]

KeyColumn(col) == [b \in Row(padded) |->
    IF secret[col] THEN Plus(Generated(col, 0)[b], CodeAt(b)[col]) ELSE Generated(col, 0)[b]]

\* The rows the two calls return.
EncodingRows == [b \in Row(padded) |->
    [col \in Row(bitVectWidth) |-> Generated(col, 0)[b]]]

KeyRows == [b \in Row(m) |-> [col \in Row(bitVectWidth) |-> KeyColumn(col)[b]]]

\* A table, and some goroutines on each side.
Inputs ==
    /\ table \in Tables
    /\ sProcs \in Nat \ {0} /\ rProcs \in Nat \ {0}

\* The buckets of worker j.
Share(j) == (stepSize * j)..(stepSize * (j + 1) - 1)

\* The goroutine of Receive: a worker that is done has filled in its share.
CodesHold ==
    /\ wg \subseteq 0..(rProcs - 1) /\ pre \in {"workers", "offer", "done"}
    /\ pre = "workers" => /\ DOMAIN codes \subseteq Row(m)
                          /\ \A b \in DOMAIN codes : codes[b] = CodeOf(b)
                          /\ \A j \in (0..(rProcs - 1)) \ wg : Share(j) \subseteq DOMAIN codes
    /\ pre # "workers" => wg = {}
    /\ pre = "offer" => codes = [b \in Row(padded) |-> CodeAt(b)]
    /\ pre = "done" => codes = [col \in Row(bitVectWidth) |->
                                  [b \in Row(padded) |-> CodeAt(b)[col]]]

\* The masked columns come one at a time and in order.
MaskOrder ==
    spc = "mask" =>
       \/ r2s = <<>> /\ rCol = sCol /\ rpc \in {"codes", "mask", "error"}
       \/ /\ r2s = <<MaskedColumn(sCol)>> /\ rCol = (sCol + 1) % Columns
          /\ rpc \in IF sCol + 1 = Columns THEN {"nil", "error"} ELSE {"mask", "error"}

\* The receiver: the columns of G(seed 0) up to its column, then their rows.
ReceiverHolds ==
    /\ rCol \in Cols
    /\ rpc \in {"points", "key", "ciphers", "codes"} => oprfEncodings = Empty
    /\ rpc = "codes" => rCol = 0
    /\ rpc \in {"mask", "nil"} => pre = "done"
    /\ rpc = "mask" => oprfEncodings = [col \in Row(rCol) |-> Generated(col, 0)]
    /\ rpc = "nil" => encodings = Indexed(EncodingRows)

\* The sender: a seed a column, the columns of the keys up to its column, then
\* their rows.
SenderHolds ==
    /\ spc \in {"points", "key", "ciphers"} => /\ DOMAIN seeds = Row(sCol)
                                               /\ oprfKeys = Empty
    /\ spc = "mask" => /\ DOMAIN seeds = Cols
                       /\ oprfKeys = [col \in Row(sCol) |-> KeyColumn(col)]
    /\ spc = "nil" => oprfKeys = KeyRows

\* EncodingsAgree speaks of the results only.  It follows from what every value on
\* the way to them is, of which the order of the masked columns is a part.
ValuesInv == Inputs /\ CodesHold /\ MaskOrder /\ ReceiverHolds /\ SenderHolds

----------------------------------------------------------------------------
(* The codes of the buckets.                                               *)

\* The number of buckets, and the padded one, which is a whole number of blocks.
LEMMA TableFacts ==
    ASSUME Inputs
    PROVE  /\ m \in Nat /\ DOMAIN table.bucketLookup = Row(m)
           /\ padded \in Nat /\ padded % bitVectWidth = 0 /\ padded % ByteBits = 0
           /\ m <= padded /\ Row(m) \subseteq Row(padded)
           /\ Columns = bitVectWidth /\ Cols = Row(bitVectWidth)
<1>1. m \in Nat /\ DOMAIN table.bucketLookup = Row(m)
  BY OPRFAssumption DEF Inputs, m, Width
<1>2. Columns = bitVectWidth
  BY OPRFAssumption
<1>3. padded \in Nat /\ padded % bitVectWidth = 0 /\ m <= padded
  BY <1>1, <1>2, Padding, Widths DEF padded
<1>4. padded % ByteBits = 0
  BY <1>3, WholeBytes
<1>5. Row(m) \subseteq Row(padded)
  BY <1>1, <1>3 DEF Row
<1> QED BY <1>1, <1>2, <1>3, <1>4, <1>5 DEF Cols, Row

\* The shares of the workers, with what the division leaves over, are the buckets.
LEMMA SharesOfTable ==
    ASSUME Inputs
    PROVE  /\ \A j \in 0..(rProcs - 1) : Share(j) \subseteq Row(m)
           /\ (stepSize * rProcs)..(m - 1) \subseteq Row(m)
           /\ \A b \in Row(m) : \/ b \in (stepSize * rProcs)..(m - 1)
                                \/ \E j \in 0..(rProcs - 1) : b \in Share(j)
<1>1. m \in Nat /\ rProcs \in Nat \ {0}
  BY TableFacts DEF Inputs
<1>2. stepSize \in Nat /\ m = stepSize * rProcs + (m % rProcs) /\ m % rProcs \in Nat
  BY <1>1, Division DEF stepSize
<1>3. stepSize * rProcs \in Nat /\ stepSize * rProcs <= m
  BY <1>1, <1>2
<1>4. ASSUME NEW j \in 0..(rProcs - 1) PROVE Share(j) \subseteq Row(m)
  <2>1. stepSize * j \in Nat /\ stepSize * (j + 1) \in Nat
        /\ stepSize * (j + 1) <= stepSize * rProcs
    BY <1>1, <1>2
  <2>2. stepSize * (j + 1) <= m
    BY <1>1, <1>3, <2>1
  <2> QED BY <1>1, <2>1, <2>2 DEF Share, Row
<1>5. ASSUME NEW b \in Row(m), b \notin (stepSize * rProcs)..(m - 1)
      PROVE  \E j \in 0..(rProcs - 1) : b \in Share(j)
  <2>1. b \in Nat /\ b < stepSize * rProcs
    BY <1>1, <1>3, <1>5 DEF Row
  <2>2. stepSize # 0
    BY <1>1, <1>2, <2>1
  <2> DEFINE j == b \div stepSize
             e == b % stepSize
  <2>3. j \in Nat /\ e \in 0..(stepSize - 1) /\ b = j * stepSize + e
    BY <1>2, <2>1, <2>2, Division
  <2> HIDE DEF j, e
  <2>4. j * stepSize + e < rProcs * stepSize
    BY <1>1, <1>2, <2>1, <2>3
  <2>5. j < rProcs
    BY <1>1, <1>2, <2>2, <2>3, <2>4, Below
  <2>6. stepSize * j \in Nat /\ j * stepSize = stepSize * j
        /\ stepSize * (j + 1) = stepSize * j + stepSize
    BY <1>2, <2>3
  <2>7. b \in (stepSize * j)..(stepSize * (j + 1) - 1)
    BY <1>2, <2>1, <2>3, <2>6
  <2> QED BY <1>1, <2>3, <2>5, <2>7 DEF Share
<1>6. (stepSize * rProcs)..(m - 1) \subseteq Row(m)
  BY <1>1, <1>3 DEF Row
<1> QED BY <1>4, <1>5, <1>6

\* A worker fills in its share with the codes of its buckets.
LEMMA WorkerCodes ==
    ASSUME Inputs, CodesHold, NEW j \in wg, Worker(j)
    PROVE  CodesHold'
<1>1. pre = "workers" /\ j \in 0..(rProcs - 1)
  BY DEF CodesHold
<1>2. /\ codes' = CodeRows(Share(j)) /\ wg' = wg \ {j}
      /\ pre' = pre /\ table' = table /\ rProcs' = rProcs
  BY DEF Worker, Share, input
<1>3. /\ DOMAIN codes' = DOMAIN codes \cup Share(j)
      /\ \A b \in DOMAIN codes' : codes'[b] = CodeOf(b)
  BY <1>1, <1>2 DEF CodeRows, CodesHold
<1>4. DOMAIN codes' \subseteq Row(m)
  BY <1>1, <1>3, SharesOfTable DEF CodesHold
<1>5. \A i \in (0..(rProcs - 1)) \ wg' : Share(i) \subseteq DOMAIN codes'
  BY <1>1, <1>2, <1>3 DEF CodesHold
<1>6. wg' \subseteq 0..(rProcs - 1)
  BY <1>2 DEF CodesHold
<1>7. /\ pre' = "workers" /\ DOMAIN codes' \subseteq Row(m)'
      /\ \A b \in DOMAIN codes' : codes'[b] = CodeOf(b)'
      /\ \A i \in (0..(rProcs' - 1)) \ wg' : Share(i)' \subseteq DOMAIN codes'
      /\ wg' \subseteq 0..(rProcs' - 1)
  <2>1. \A b : CodeOf(b)' = CodeOf(b)
    BY <1>2 DEF CodeOf, GetItemWithHash
  <2>2. \A i : Share(i)' = Share(i)
    BY <1>2 DEF Share, stepSize, m
  <2>3. Row(m)' = Row(m)
    BY <1>2 DEF m, Row
  <2> QED BY <1>1, <1>2, <1>3, <1>4, <1>5, <1>6, <2>1, <2>2, <2>3
<1> QED BY <1>7 DEF CodesHold

\* After the workers the rest is filled in and padded: no bucket is left out.
LEMMA RestCodes ==
    ASSUME Inputs, CodesHold, Rest
    PROVE  CodesHold'
<1> DEFINE all == CodeRows((stepSize * rProcs)..(m - 1))
<1>1. /\ pre = "workers" /\ wg = {} /\ pre' = "offer" /\ wg' = wg
      /\ codes' = [b \in Row(padded) |-> IF b \in DOMAIN all THEN all[b] ELSE ZeroRow(Columns)]
      /\ table' = table /\ rProcs' = rProcs
  BY DEF Rest, input
<1>2. DOMAIN all = DOMAIN codes \cup ((stepSize * rProcs)..(m - 1))
  BY DEF CodeRows
<1>3. \A b \in DOMAIN all : all[b] = CodeOf(b)
  BY <1>1 DEF CodeRows, CodesHold
<1> HIDE DEF all
<1>4. DOMAIN all \subseteq Row(m)
  BY <1>1, <1>2, SharesOfTable DEF CodesHold
<1>5. Row(m) \subseteq DOMAIN all
  <2>1. \A j \in 0..(rProcs - 1) : Share(j) \subseteq DOMAIN codes
    BY <1>1 DEF CodesHold
  <2> QED BY <1>2, <2>1, SharesOfTable
<1>6. codes' = [b \in Row(padded) |-> CodeAt(b)]
  BY <1>1, <1>3, <1>4, <1>5 DEF CodeAt
<1>7. codes' = [b \in Row(padded) |-> CodeAt(b)]'
  BY <1>1, <1>6 DEF CodeAt, padded, m, CodeOf, GetItemWithHash
<1> QED BY <1>1, <1>7 DEF CodesHold

\* The channel hands over the codes transposed.
LEMMA TakenCodes ==
    ASSUME Inputs, CodesHold, TakeCodes
    PROVE  CodesHold'
<1>1. /\ pre = "offer" /\ pre' = "done" /\ wg' = wg /\ wg = {}
      /\ codes' = ConcurrentTransposeTall(codes, rProcs)
      /\ table' = table /\ rProcs' = rProcs
  BY DEF TakeCodes, input, CodesHold
<1>2. codes = [b \in Row(padded) |-> CodeAt(b)]
  BY <1>1 DEF CodesHold
<1>3. DOMAIN codes = Row(padded) /\ \A b \in Row(padded) : codes[b] = CodeAt(b)
  BY <1>2
<1>4. rProcs \in Nat \ {0} /\ padded \in Nat /\ padded % bitVectWidth = 0
  BY TableFacts DEF Inputs
<1>5. ConcurrentTransposeTall(codes, rProcs)
        = [col \in Row(bitVectWidth) |-> [b \in Row(padded) |-> codes[b][col]]]
  BY <1>3, <1>4, TallTransposed
<1>6. codes' = [col \in Row(bitVectWidth) |-> [b \in Row(padded) |-> CodeAt(b)[col]]]
  BY <1>1, <1>3, <1>5
<1>7. codes' = [col \in Row(bitVectWidth) |-> [b \in Row(padded) |-> CodeAt(b)[col]]]'
  BY <1>1, <1>6 DEF CodeAt, padded, m, CodeOf, GetItemWithHash
<1> QED BY <1>1, <1>7 DEF CodesHold

\* The codes of the buckets are right and complete when they are used: only the
\* three steps of the goroutine of Receive touch them.
LEMMA CodesStep ==
    ASSUME Inputs, CodesHold, [Next]_vars
    PROVE  CodesHold'
<1>1. CASE Goroutine
  BY <1>1, WorkerCodes, RestCodes DEF Goroutine
<1>2. CASE TakeCodes
  BY <1>2, TakenCodes
<1>3. CASE UNCHANGED <<table, rProcs, wg, pre, codes>>
  BY <1>3 DEF CodesHold, CodeAt, Share, stepSize, padded, m, CodeOf, GetItemWithHash
<1>4. Send \/ Drop \/ UNCHANGED vars => UNCHANGED <<table, rProcs, wg, pre, codes>>
  BY DEF Send, OtReadPoints, OtWriteKey, OtReadCiphers, ReadMask, SendFails, Drop, vars,
         input, goroutine
<1>5. Receive => TakeCodes \/ UNCHANGED <<table, rProcs, wg, pre, codes>>
  BY DEF Receive, OtWritePoints, OtReadKey, OtWriteCiphers, WriteMask, ReceiveFails,
         input, goroutine
<1> QED BY <1>1, <1>2, <1>3, <1>4, <1>5 DEF Next

----------------------------------------------------------------------------
(* The columns of the receiver.                                            *)

\* The values depend on the inputs only.
LEMMA ValuesKept ==
    ASSUME UNCHANGED <<table, secret>>
    PROVE  /\ m' = m /\ padded' = padded
           /\ \A col, c : Generated(col, c)' = Generated(col, c)
           /\ EncodingRows' = EncodingRows /\ KeyRows' = KeyRows
           /\ \A col : MaskedColumn(col)' = MaskedColumn(col)
           /\ \A col : KeyColumn(col)' = KeyColumn(col)
           /\ Indexed(EncodingRows)' = Indexed(EncodingRows)
  BY DEF m, padded, Generated, EncodingRows, KeyRows, MaskedColumn, KeyColumn, CodeAt,
         CodeOf, GetItemWithHash, PseudorandomGenerate, BaseMsgs, Indexed

\* The columns of G(seed 0), transposed.
LEMMA EncodingsTransposed ==
    ASSUME Inputs, NEW columns, columns = [col \in Row(bitVectWidth) |-> Generated(col, 0)],
           NEW nworkers \in Nat \ {0}
    PROVE  ConcurrentTransposeWide(columns, nworkers) = EncodingRows
<1>1. padded \in Nat /\ padded % bitVectWidth = 0 /\ 0 \in Row(bitVectWidth)
  BY TableFacts, Widths DEF Row
<1>2. DOMAIN Generated(0, 0) = Row(padded)
  BY DEF Generated, PseudorandomGenerate
<1>3. DOMAIN columns[0] = Row(padded)
  BY <1>1, <1>2
<1>4. ConcurrentTransposeWide(columns, nworkers)
        = [i \in Row(padded) |-> [k \in Row(bitVectWidth) |-> columns[k][i]]]
  BY <1>1, <1>3, WideTransposed
<1> QED BY <1>4 DEF EncodingRows

\* A masked column: what it adds to the receiver's columns, and what it sends.
LEMMA WriteMaskValues ==
    ASSUME Inputs, CodesHold, ReceiverHolds, WriteMask
    PROVE  /\ r2s' = <<MaskedColumn(rCol)>>
           /\ rCol + 1 < Columns =>
                oprfEncodings' = [col \in Row(rCol + 1) |-> Generated(col, 0)]
           /\ rCol + 1 = Columns => encodings' = Indexed(EncodingRows)
<1> DEFINE column == Generated(rCol, 0)
           columns == Put(oprfEncodings, rCol, column)
<1>1. /\ rpc = "mask" /\ pre = "done" /\ rCol \in Cols
      /\ r2s' = <<DoubleXor(Generated(rCol, 1), column, codes[rCol], rProcs)>>
      /\ oprfEncodings' = columns
      /\ encodings' = IF rCol + 1 < Columns THEN encodings
                      ELSE Indexed(ConcurrentTransposeWide(columns, rProcs))
  BY DEF WriteMask, Generated, ReceiverHolds
<1>2. /\ rProcs \in Nat \ {0} /\ padded \in Nat /\ padded % ByteBits = 0
      /\ Columns = bitVectWidth /\ Cols = Row(bitVectWidth)
  BY TableFacts DEF Inputs
<1>3. rCol \in Nat /\ rCol \in Row(bitVectWidth)
  BY <1>1, <1>2 DEF Row
<1>4. r2s' = <<MaskedColumn(rCol)>>
  <2>1. DOMAIN Generated(rCol, 1) = Row(padded)
    BY DEF Generated, PseudorandomGenerate
  <2>2. codes[rCol] = [b \in Row(padded) |-> CodeAt(b)[rCol]]
    BY <1>1, <1>3 DEF CodesHold
  <2>3. DoubleXor(Generated(rCol, 1), column, codes[rCol], rProcs)
          = [b \in Row(padded) |->
               Plus(Plus(Generated(rCol, 1)[b], column[b]), codes[rCol][b])]
    BY <1>2, <2>1, DoubleXored
  <2> QED BY <1>1, <2>2, <2>3 DEF MaskedColumn
<1>5. columns = [col \in Row(rCol + 1) |-> Generated(col, 0)]
  <2>1. oprfEncodings = [col \in Row(rCol) |-> Generated(col, 0)]
    BY <1>1 DEF ReceiverHolds
  <2>2. Row(rCol + 1) = Row(rCol) \cup {rCol} /\ rCol \notin Row(rCol)
    BY <1>3 DEF Row
  <2> QED BY <2>1, <2>2 DEF Put
<1> HIDE DEF columns, column
<1>6. ASSUME rCol + 1 = Columns PROVE encodings' = Indexed(EncodingRows)
  <2>1. columns = [col \in Row(bitVectWidth) |-> Generated(col, 0)]
    BY <1>2, <1>5, <1>6
  <2>2. ConcurrentTransposeWide(columns, rProcs) = EncodingRows
    BY <1>2, <2>1, EncodingsTransposed
  <2>3. ~(rCol + 1 < Columns)
    BY <1>2, <1>6, Widths
  <2> QED BY <1>1, <2>2, <2>3
<1> QED BY <1>1, <1>4, <1>5, <1>6

\* The columns of the receiver, through every step.
LEMMA ReceiverStep ==
    ASSUME Inputs, CodesHold, ReceiverHolds, [Next]_vars
    PROVE  ReceiverHolds'
<1>1. UNCHANGED <<table, secret>>
  BY DEF Next, Send, OtReadPoints, OtWriteKey, OtReadCiphers, ReadMask, SendFails,
         Receive, OtWritePoints, OtReadKey, OtWriteCiphers, TakeCodes, WriteMask,
         ReceiveFails, Goroutine, Worker, Rest, Drop, vars, input
<1>2. /\ \A col : Generated(col, 0)' = Generated(col, 0)
      /\ Indexed(EncodingRows)' = Indexed(EncodingRows)
  BY <1>1, ValuesKept
<1>3. Columns \in Nat \ {0} /\ Cols = 0..(Columns - 1)
  BY SomeColumn DEF Cols
<1>4. CASE OtWritePoints \/ OtReadKey
  <2>1. rpc' \in {"key", "ciphers"} /\ rpc \in {"points", "key"}
        /\ UNCHANGED <<rCol, oprfEncodings>>
    BY <1>4 DEF OtWritePoints, OtReadKey
  <2> QED BY <2>1 DEF ReceiverHolds
<1>5. CASE OtWriteCiphers
  <2>1. /\ rpc = "ciphers" /\ rCol' = (rCol + 1) % Columns /\ oprfEncodings' = oprfEncodings
        /\ rpc' = IF rCol + 1 = Columns THEN "codes" ELSE "key"
    BY <1>5 DEF OtWriteCiphers
  <2>2. rCol' \in Cols /\ (rCol + 1 = Columns => rCol' = 0)
    BY <1>3, <2>1 DEF ReceiverHolds
  <2> QED BY <2>1, <2>2 DEF ReceiverHolds
<1>6. CASE TakeCodes
  <2>1. rpc = "codes" /\ rpc' = "mask" /\ pre' = "done" /\ UNCHANGED <<rCol, oprfEncodings>>
    BY <1>6 DEF TakeCodes
  <2>2. rCol' \in Cols /\ rCol' = 0 /\ oprfEncodings = Empty
    BY <2>1 DEF ReceiverHolds
  <2>3. oprfEncodings' = [col \in Row(rCol') |-> Generated(col, 0)']
    <3>1. Row(rCol') = {}
      BY <2>2 DEF Row
    <3> QED BY <2>1, <2>2, <3>1 DEF Empty
  <2> QED BY <2>1, <2>2, <2>3 DEF ReceiverHolds
<1>7. CASE WriteMask
  <2>1. /\ rpc = "mask" /\ rCol' = (rCol + 1) % Columns /\ UNCHANGED pre
        /\ rpc' = IF rCol + 1 = Columns THEN "nil" ELSE "mask"
    BY <1>7 DEF WriteMask, goroutine
  <2>2. rCol \in Cols /\ rCol' \in Cols /\ pre' = "done"
    BY <1>3, <2>1 DEF ReceiverHolds
  <2>3. CASE rCol + 1 = Columns
    BY <1>2, <1>7, <2>1, <2>2, <2>3, WriteMaskValues DEF ReceiverHolds
  <2>4. CASE rCol + 1 # Columns
    <3>1. rCol + 1 < Columns /\ rCol' = rCol + 1
      BY <1>3, <2>1, <2>2, <2>4
    <3>2. oprfEncodings' = [col \in Row(rCol') |-> Generated(col, 0)']
      BY <1>2, <1>7, <3>1, WriteMaskValues
    <3> QED BY <2>1, <2>2, <2>4, <3>2 DEF ReceiverHolds
  <2> QED BY <2>3, <2>4
<1>8. CASE ReceiveFails
  BY <1>8 DEF ReceiveFails, ReceiverHolds
<1>9. CASE Goroutine
  <2>1. UNCHANGED <<rpc, rCol, oprfEncodings, encodings>> /\ (pre = "done" => pre' = "done")
    BY <1>9 DEF Goroutine, Worker, Rest, receiver, CodesHold
  <2> QED BY <1>2, <2>1 DEF ReceiverHolds
<1>10. CASE Send \/ Drop \/ UNCHANGED vars
  <2>1. UNCHANGED <<rpc, rCol, oprfEncodings, encodings, pre>>
    BY <1>10 DEF Send, OtReadPoints, OtWriteKey, OtReadCiphers, ReadMask, SendFails, Drop,
                 vars, receiver, goroutine
  <2> QED BY <1>2, <2>1 DEF ReceiverHolds
<1> QED BY <1>4, <1>5, <1>6, <1>7, <1>8, <1>9, <1>10 DEF Next, Receive

----------------------------------------------------------------------------
(* The columns of the sender.                                              *)

\* What the sender makes of a masked column: the seed of the choice 1 cancels.
LEMMA ReadColumn ==
    ASSUME Inputs, IInv, MaskOrder, SenderHolds, ReadMask
    PROVE  LET generated == PseudorandomGenerate(seeds[sCol])
           IN (IF secret[sCol] THEN Xor(generated, Head(r2s), sProcs) ELSE generated)
                = KeyColumn(sCol)
<1> DEFINE generated == PseudorandomGenerate(seeds[sCol])
<1>1. spc = "mask" /\ r2s # <<>> /\ sCol \in Cols /\ secret[sCol] \in BOOLEAN
  BY DEF ReadMask, CanRecv, IInv
<1>2. Head(r2s) = MaskedColumn(sCol)
  <2>1. r2s = <<MaskedColumn(sCol)>>
    BY <1>1 DEF MaskOrder
  <2> QED BY <2>1
<1>3. seeds[sCol] = BaseMsgs(sCol)[IF secret[sCol] THEN 1 ELSE 0]
  BY <1>1 DEF SenderHolds, IInv, ChosenSeed
<1>4. CASE secret[sCol]
  <2>1. generated = Generated(sCol, 1)
    BY <1>3, <1>4 DEF Generated
  <2>2. DOMAIN generated = Row(padded)
    BY DEF PseudorandomGenerate
  <2> HIDE DEF generated
  <2>3. Xor(generated, Head(r2s), sProcs)
          = [b \in Row(padded) |-> Plus(generated[b], Head(r2s)[b])]
    <3>1. sProcs \in Nat \ {0} /\ padded \in Nat /\ padded % ByteBits = 0
      BY TableFacts DEF Inputs
    <3> QED BY ONLY <2>2, <3>1, Xored
  <2>4. ASSUME NEW b \in Row(padded)
        PROVE  Plus(generated[b], Head(r2s)[b]) = Plus(Generated(sCol, 0)[b], CodeAt(b)[sCol])
    <3>1. Head(r2s)[b] = Plus(Plus(Generated(sCol, 1)[b], Generated(sCol, 0)[b]),
                              CodeAt(b)[sCol])
      BY <1>2 DEF MaskedColumn
    <3>2. ASSUME NEW x, NEW y, NEW z PROVE Plus(x, Plus(Plus(x, y), z)) = Plus(y, z)
      BY DEF Plus
    <3> QED BY <2>1, <3>1, <3>2
  <2> QED BY <1>4, <2>3, <2>4 DEF KeyColumn, generated
<1>5. CASE ~secret[sCol]
  <2>1. generated = Generated(sCol, 0)
    BY <1>3, <1>5 DEF Generated
  <2>2. generated = [b \in Row(padded) |-> generated[b]]
    BY DEF PseudorandomGenerate
  <2> HIDE DEF generated
  <2>3. generated = KeyColumn(sCol)
    BY <1>5, <2>1, <2>2 DEF KeyColumn
  <2> QED BY <1>5, <2>3 DEF generated
<1> QED BY <1>1, <1>4, <1>5

\* The columns of the keys, transposed and cut to the buckets.
LEMMA KeysTransposed ==
    ASSUME Inputs, NEW columns, columns = [col \in Row(bitVectWidth) |-> KeyColumn(col)]
    PROVE  [b \in Row(m) |-> ConcurrentTransposeWide(columns, sProcs)[b]] = KeyRows
<1>1. padded \in Nat /\ padded % bitVectWidth = 0 /\ 0 \in Row(bitVectWidth)
  BY TableFacts, Widths DEF Row
<1>2. DOMAIN KeyColumn(0) = Row(padded)
  BY DEF KeyColumn
<1>3. DOMAIN columns[0] = Row(padded)
  BY <1>1, <1>2
<1>4. sProcs \in Nat \ {0} /\ Row(m) \subseteq Row(padded)
  BY TableFacts DEF Inputs
<1>5. ConcurrentTransposeWide(columns, sProcs)
        = [i \in Row(padded) |-> [k \in Row(bitVectWidth) |-> columns[k][i]]]
  BY ONLY <1>1, <1>3, <1>4, WideTransposed
<1> QED BY <1>4, <1>5 DEF KeyRows

\* A masked column: what it adds to the sender's columns.
LEMMA ReadMaskValues ==
    ASSUME Inputs, IInv, MaskOrder, SenderHolds, ReadMask
    PROVE  /\ sCol + 1 < Columns => oprfKeys' = [col \in Row(sCol + 1) |-> KeyColumn(col)]
           /\ sCol + 1 = Columns => oprfKeys' = KeyRows
<1> DEFINE generated == PseudorandomGenerate(seeds[sCol])
           column == IF secret[sCol] THEN Xor(generated, Head(r2s), sProcs) ELSE generated
           columns == Put(oprfKeys, sCol, column)
<1>1. column = KeyColumn(sCol)
  BY ReadColumn
<1>2. /\ spc = "mask" /\ sCol \in Cols
      /\ oprfKeys' = IF sCol + 1 < Columns THEN columns
                     ELSE [b \in Row(m) |-> ConcurrentTransposeWide(columns, sProcs)[b]]
  BY DEF ReadMask, IInv
<1> HIDE DEF column
<1>3. columns = [col \in Row(sCol + 1) |-> KeyColumn(col)]
  <2>1. oprfKeys = [col \in Row(sCol) |-> KeyColumn(col)]
    BY <1>2 DEF SenderHolds
  <2>2. Row(sCol + 1) = Row(sCol) \cup {sCol} /\ sCol \notin Row(sCol)
    BY <1>2, SomeColumn DEF Row, Cols
  <2> QED BY <1>1, <2>1, <2>2 DEF Put
<1> HIDE DEF columns
<1>4. ASSUME sCol + 1 = Columns PROVE oprfKeys' = KeyRows
  <2>1. columns = [col \in Row(bitVectWidth) |-> KeyColumn(col)]
    BY <1>3, <1>4, TableFacts
  <2>2. ~(sCol + 1 < Columns)
    BY <1>4, SomeColumn
  <2> QED BY <1>2, <2>1, <2>2, KeysTransposed
<1> QED BY <1>2, <1>3, <1>4

\* The columns of the sender, through every step.
LEMMA SenderStep ==
    ASSUME Inputs, IInv, MaskOrder, SenderHolds, [Next]_vars
    PROVE  SenderHolds'
<1>1. UNCHANGED <<table, secret>>
  BY DEF Next, Send, OtReadPoints, OtWriteKey, OtReadCiphers, ReadMask, SendFails,
         Receive, OtWritePoints, OtReadKey, OtWriteCiphers, TakeCodes, WriteMask,
         ReceiveFails, Goroutine, Worker, Rest, Drop, vars, input
<1>2. (\A col : KeyColumn(col)' = KeyColumn(col)) /\ KeyRows' = KeyRows
  BY <1>1, ValuesKept
<1>3. Columns \in Nat \ {0} /\ Cols = 0..(Columns - 1) /\ sCol \in Cols
  BY SomeColumn DEF Cols, IInv
<1>4. CASE OtReadPoints \/ OtWriteKey
  <2>1. spc' \in {"key", "ciphers"} /\ spc \in {"points", "key"}
        /\ UNCHANGED <<sCol, seeds, oprfKeys>>
    BY <1>4 DEF OtReadPoints, OtWriteKey
  <2> QED BY <2>1 DEF SenderHolds
<1>5. CASE OtReadCiphers
  <2>1. /\ spc = "ciphers" /\ sCol' = (sCol + 1) % Columns /\ oprfKeys' = oprfKeys
        /\ spc' = IF sCol + 1 = Columns THEN "mask" ELSE "key"
        /\ DOMAIN seeds' = DOMAIN seeds \cup {sCol}
    BY <1>5 DEF OtReadCiphers, Put
  <2>2. DOMAIN seeds' = Row(sCol + 1) /\ oprfKeys = Empty
    BY <1>3, <2>1 DEF SenderHolds, Row
  <2>3. CASE sCol + 1 = Columns
    <3>1. sCol' = 0 /\ DOMAIN seeds' = Cols /\ spc' = "mask"
      BY <1>3, <2>1, <2>2, <2>3 DEF Row
    <3>2. oprfKeys' = [col \in Row(sCol') |-> KeyColumn(col)']
      <4>1. Row(sCol') = {}
        BY <3>1 DEF Row
      <4> QED BY <2>1, <2>2, <4>1 DEF Empty
    <3> QED BY <3>1, <3>2 DEF SenderHolds
  <2>4. CASE sCol + 1 # Columns
    <3>1. sCol' = sCol + 1 /\ spc' = "key"
      BY <1>3, <2>1, <2>4
    <3> QED BY <2>1, <2>2, <3>1 DEF SenderHolds
  <2> QED BY <2>3, <2>4
<1>6. CASE ReadMask
  <2>1. /\ spc = "mask" /\ sCol' = (sCol + 1) % Columns /\ seeds' = seeds
        /\ spc' = IF sCol + 1 = Columns THEN "nil" ELSE "mask"
    BY <1>6 DEF ReadMask
  <2>2. CASE sCol + 1 = Columns
    BY <1>2, <1>6, <2>1, <2>2, ReadMaskValues DEF SenderHolds
  <2>3. CASE sCol + 1 # Columns
    <3>1. sCol' = sCol + 1 /\ sCol + 1 < Columns
      BY <1>3, <2>1, <2>3
    <3>2. oprfKeys' = [col \in Row(sCol') |-> KeyColumn(col)']
      BY <1>2, <1>6, <3>1, ReadMaskValues
    <3> QED BY <2>1, <2>3, <3>2 DEF SenderHolds
  <2> QED BY <2>2, <2>3
<1>7. CASE SendFails
  BY <1>7 DEF SendFails, SenderHolds
<1>8. CASE Receive \/ Goroutine \/ Drop \/ UNCHANGED vars
  <2>1. UNCHANGED <<spc, sCol, seeds, oprfKeys>>
    BY <1>8 DEF Receive, OtWritePoints, OtReadKey, OtWriteCiphers, TakeCodes, WriteMask,
                ReceiveFails, Goroutine, Worker, Rest, Drop, vars, sender
  <2> QED BY <1>2, <2>1 DEF SenderHolds
<1> QED BY <1>4, <1>5, <1>6, <1>7, <1>8 DEF Next, Send

----------------------------------------------------------------------------
(* The invariant of the values.                                            *)

\* The masked columns are read in the order in which they were sent, each with the
\* values of its column.
LEMMA MaskStep ==
    ASSUME Inputs, IInv, CodesHold, ReceiverHolds, MaskOrder, [Next]_vars
    PROVE  MaskOrder'
<1>1. UNCHANGED <<table, secret>>
  BY DEF Next, Send, OtReadPoints, OtWriteKey, OtReadCiphers, ReadMask, SendFails,
         Receive, OtWritePoints, OtReadKey, OtWriteCiphers, TakeCodes, WriteMask,
         ReceiveFails, Goroutine, Worker, Rest, Drop, vars, input
<1>2. \A col : MaskedColumn(col)' = MaskedColumn(col)
  BY <1>1, ValuesKept
<1>3. Columns \in Nat \ {0} /\ Cols = 0..(Columns - 1) /\ sCol \in Cols
  BY SomeColumn DEF Cols, IInv
<1>4. CASE OtReadPoints \/ OtWriteKey \/ SendFails
  <2>1. spc' # "mask"
    BY <1>4 DEF OtReadPoints, OtWriteKey, SendFails
  <2> QED BY <2>1 DEF MaskOrder
<1>5. CASE OtReadCiphers
  <2>1. /\ spc = "ciphers" /\ r2s # <<>> /\ r2s' = Tail(r2s) /\ sCol' = (sCol + 1) % Columns
        /\ spc' = IF sCol + 1 = Columns THEN "mask" ELSE "key"
        /\ UNCHANGED <<rpc, rCol>>
    BY <1>5 DEF OtReadCiphers, CanRecv, receiver
  <2>2. CiphersPhase
    BY <2>1 DEF IInv, Phases, OtDone, PointsPhase, KeyPhase, MaterialPhase
  <2>3. r2s' = <<>> /\ rCol' = sCol'
    BY <2>1, <2>2 DEF CiphersPhase
  <2>4. CASE sCol + 1 = Columns
    BY <2>1, <2>2, <2>3, <2>4 DEF CiphersPhase, MaskOrder
  <2>5. CASE sCol + 1 # Columns
    BY <2>1, <2>5 DEF MaskOrder
  <2> QED BY <2>4, <2>5
<1>6. CASE ReadMask
  <2>1. /\ spc = "mask" /\ r2s # <<>> /\ r2s' = Tail(r2s) /\ sCol' = (sCol + 1) % Columns
        /\ spc' = IF sCol + 1 = Columns THEN "nil" ELSE "mask"
        /\ UNCHANGED <<rpc, rCol>>
    BY <1>6 DEF ReadMask, CanRecv, receiver
  <2>2. /\ r2s = <<MaskedColumn(sCol)>> /\ rCol = (sCol + 1) % Columns
        /\ rpc \in IF sCol + 1 = Columns THEN {"nil", "error"} ELSE {"mask", "error"}
    BY <2>1 DEF MaskOrder
  <2>3. r2s' = <<>> /\ rCol' = sCol'
    BY <2>1, <2>2
  <2>4. CASE sCol + 1 = Columns
    BY <2>1, <2>4 DEF MaskOrder
  <2>5. CASE sCol + 1 # Columns
    BY <2>1, <2>2, <2>3, <2>5 DEF MaskOrder
  <2> QED BY <2>4, <2>5
<1>7. CASE Receive
  <2>1. UNCHANGED <<spc, sCol>>
    BY <1>7 DEF Receive, OtWritePoints, OtReadKey, OtWriteCiphers, TakeCodes, WriteMask,
                ReceiveFails, sender
  <2>2. CASE spc # "mask"
    BY <2>1, <2>2 DEF MaskOrder
  <2>3. CASE spc = "mask"
    <3>1. rpc \in {"codes", "mask", "nil", "error"}
      BY <2>3 DEF MaskOrder
    <3>2. ~OtWritePoints /\ ~OtReadKey /\ ~OtWriteCiphers
      BY <3>1 DEF OtWritePoints, OtReadKey, OtWriteCiphers
    <3>3. CASE TakeCodes
      <4>1. rpc = "codes" /\ rpc' = "mask" /\ UNCHANGED <<rCol, r2s>>
        BY <3>3 DEF TakeCodes, net
      <4> QED BY <2>1, <2>3, <4>1 DEF MaskOrder
    <3>4. CASE WriteMask
      <4>1. /\ rpc = "mask" /\ r2s = <<>> /\ rCol' = (rCol + 1) % Columns
            /\ rpc' = IF rCol + 1 = Columns THEN "nil" ELSE "mask"
        BY <3>4 DEF WriteMask, CanSend
      <4>2. rCol = sCol
        BY <2>3, <4>1 DEF MaskOrder
      <4>3. r2s' = <<MaskedColumn(rCol)>>
        BY <3>4, WriteMaskValues
      <4> QED BY <1>2, <2>1, <4>1, <4>2, <4>3 DEF MaskOrder
    <3>5. CASE ReceiveFails
      <4>1. rpc' = "error" /\ UNCHANGED <<rCol, r2s>>
        BY <3>5 DEF ReceiveFails, net
      <4> QED BY <1>2, <2>1, <2>3, <4>1 DEF MaskOrder
    <3> QED BY <1>7, <3>2, <3>3, <3>4, <3>5 DEF Receive
  <2> QED BY <2>2, <2>3
<1>8. CASE Goroutine \/ Drop \/ UNCHANGED vars
  <2>1. UNCHANGED <<spc, sCol, rpc, rCol, r2s>>
    BY <1>8 DEF Goroutine, Worker, Rest, Drop, vars, sender, receiver, net
  <2> QED BY <1>2, <2>1 DEF MaskOrder
<1> QED BY <1>4, <1>5, <1>6, <1>7, <1>8 DEF Next, Send

\* Nothing was computed yet.
LEMMA InitValues == Init => ValuesInv
<1> SUFFICES ASSUME Init PROVE ValuesInv
  OBVIOUS
<1>1. Inputs
  BY OPRFAssumption DEF Init, Inputs
<1>2. CodesHold
  BY DEF Init, CodesHold, Empty
<1>3. MaskOrder
  BY DEF Init, MaskOrder
<1>4. ReceiverHolds
  BY SomeColumn DEF Init, ReceiverHolds, Cols
<1>5. SenderHolds
  BY DEF Init, SenderHolds, Empty, Row
<1> QED BY <1>1, <1>2, <1>3, <1>4, <1>5 DEF ValuesInv

\* Every step keeps the values.
LEMMA NextValues == IInv /\ ValuesInv /\ [Next]_vars => ValuesInv'
<1> SUFFICES ASSUME IInv, ValuesInv, [Next]_vars PROVE ValuesInv'
  OBVIOUS
<1>1. Inputs'
  <2>1. UNCHANGED <<table, sProcs, rProcs>>
    BY DEF Next, Send, OtReadPoints, OtWriteKey, OtReadCiphers, ReadMask, SendFails,
           Receive, OtWritePoints, OtReadKey, OtWriteCiphers, TakeCodes, WriteMask,
           ReceiveFails, Goroutine, Worker, Rest, Drop, vars, input
  <2> QED BY <2>1 DEF ValuesInv, Inputs
<1> QED BY <1>1, CodesStep, ReceiverStep, SenderStep, MaskStep DEF ValuesInv

\* Whenever they are used, the codes, the masked columns, the keys and the encodings
\* have the values that the protocol means them to have, however the two parties,
\* the workers and the break of the connection interleave.
THEOREM ValuesInvariance == Spec => []ValuesInv
<1>1. IInv /\ ValuesInv /\ [Next]_vars => (IInv /\ ValuesInv)'
  BY NextIInv, NextValues
<1> QED BY InitIInv, InitValues, <1>1, PTL DEF Spec

----------------------------------------------------------------------------
(* What the two parties return.                                            *)

\* Bit col of the encoding of x under h for bucket b.
EncodedBit(b, x, h, col) ==
    Plus(AndBit({<<"C", <<x, h>>, col>>}, secret[col]), KeyColumn(col)[b])

\* The encoding of an identifier for a bucket, bit by bit (oprf.go, Key.Encode).
LEMMA EncodedBits ==
    ASSUME Inputs, oprfKeys = KeyRows, NEW b \in Row(m), NEW x, NEW h
    PROVE  Encode(b, PseudorandomCode(x, h)) =
             [col \in Row(bitVectWidth) |-> EncodedBit(b, x, h, col)]
<1> DEFINE code == PseudorandomCode(x, h)
<1>1. Cols = Row(bitVectWidth) /\ sProcs \in Nat \ {0}
  BY TableFacts DEF Inputs
<1>2. DOMAIN code = Row(bitVectWidth)
      /\ \A col \in Row(bitVectWidth) : code[col] = {<<"C", <<x, h>>, col>>}
  BY <1>1 DEF PseudorandomCode
<1>3. oprfKeys[b] = [col \in Row(bitVectWidth) |-> KeyColumn(col)[b]]
  BY DEF KeyRows
<1>4. bitVectWidth \in Nat /\ bitVectWidth % ByteBits = 0
  <2>1. bitVectWidth % bitVectWidth = 0
    BY Widths
  <2> QED BY <2>1, WholeBytes, Widths
<1> HIDE DEF code
<1>5. AndXor(code, secret, oprfKeys[b], sProcs)
        = [col \in Row(bitVectWidth) |->
             Plus(AndBit(code[col], secret[col]), oprfKeys[b][col])]
  BY ONLY <1>1, <1>2, <1>4, AndXored
<1>6. Encode(b, code) = AndXor(code, secret, oprfKeys[b], sProcs)
  BY DEF Encode
<1> QED BY <1>2, <1>3, <1>5, <1>6 DEF code, EncodedBit

\* A bit of an encoding of the sender is that of a row of the receiver if it is
\* the row of the bucket, and the code of the bucket cancels the one encoded.
LEMMA SameBit ==
    ASSUME Inputs, IInv, NEW b \in Row(m), NEW r \in Row(m), NEW x, NEW h,
           NEW col \in Row(bitVectWidth)
    PROVE  Generated(col, 0)[r] = EncodedBit(b, x, h, col)
           <=> b = r /\ (secret[col] => <<x, h>> = GetItemWithHash(b))
<1> DEFINE seed == BaseMsgs(col)[0]
           g(i) == <<"G", seed, i>>
           item == GetItemWithHash(b)
<1>1. Cols = Row(bitVectWidth) /\ b \in Row(padded) /\ r \in Row(padded)
  BY TableFacts
<1>2. secret[col] \in BOOLEAN
  BY <1>1 DEF IInv
<1>3. Generated(col, 0)[b] = {g(b)} /\ Generated(col, 0)[r] = {g(r)}
  BY <1>1 DEF Generated, PseudorandomGenerate
<1>4. CodeAt(b)[col] = {<<"C", item, col>>}
  <2>1. item = <<item[1], item[2]>>
    BY DEF GetItemWithHash
  <2>2. CodeAt(b)[col] = {<<"C", <<item[1], item[2]>>, col>>}
    BY <1>1 DEF CodeAt, CodeOf, PseudorandomCode
  <2> QED BY <2>1, <2>2
<1> HIDE DEF seed, item
<1>5. CASE secret[col]
  <2>1. KeyColumn(col)[b] = Plus({g(b)}, {<<"C", item, col>>})
    BY <1>1, <1>3, <1>4, <1>5 DEF KeyColumn
  <2>2. AndBit({<<"C", <<x, h>>, col>>}, secret[col]) = {<<"C", <<x, h>>, col>>}
    BY <1>5 DEF AndBit
  <2>3. \A i, p : g(i) # <<"C", p, col>>
    OBVIOUS
  <2>4. {g(r)} = Plus({<<"C", <<x, h>>, col>>}, Plus({g(b)}, {<<"C", item, col>>}))
          <=> g(b) = g(r) /\ <<"C", <<x, h>>, col>> = <<"C", item, col>>
    <3> DEFINE c == <<"C", <<x, h>>, col>>
               d == <<"C", item, col>>
    <3>1. g(b) # c /\ g(b) # d /\ g(r) # c /\ g(r) # d
      BY <2>3
    <3> HIDE DEF g, c, d
    <3>2. {g(r)} = Plus({c}, Plus({g(b)}, {d})) <=> g(b) = g(r) /\ c = d
      BY ONLY <3>1 DEF Plus
    <3> QED BY <3>2 DEF c, d
  <2>5. (g(b) = g(r) <=> b = r)
        /\ (<<"C", <<x, h>>, col>> = <<"C", item, col>> <=> <<x, h>> = item)
    OBVIOUS
  <2> HIDE DEF g
  <2> QED BY <1>3, <1>5, <2>1, <2>2, <2>4, <2>5 DEF item, EncodedBit
<1>6. CASE ~secret[col]
  <2>1. KeyColumn(col)[b] = {g(b)}
    BY <1>1, <1>3, <1>6 DEF KeyColumn
  <2>2. Plus(AndBit({<<"C", <<x, h>>, col>>}, secret[col]), {g(b)}) = {g(b)}
    BY <1>6 DEF AndBit, Plus, Zero
  <2>3. {g(b)} = {g(r)} <=> b = r
    <3>1. g(b) = g(r) <=> b = r
      OBVIOUS
    <3> HIDE DEF g
    <3> QED BY <3>1
  <2> QED BY <1>3, <1>6, <2>1, <2>2, <2>3 DEF EncodedBit
<1> QED BY <1>2, <1>5, <1>6

\* An encoding of the sender for a bucket is a row of the receiver exactly if it
\* is the row of the bucket, and the identifier and the hash index are those the
\* bucket holds; if the sender drew no choice bit 1 it does not depend on them.
LEMMA SameRow ==
    ASSUME Inputs, IInv, oprfKeys = KeyRows, NEW b \in Row(m), NEW r \in Row(m), NEW x, NEW h
    PROVE  EncodingRows[r] = Encode(b, PseudorandomCode(x, h))
           <=> b = r /\ ((\E col \in Cols : secret[col]) => <<x, h>> = GetItemWithHash(b))
<1> DEFINE bit(col) == EncodedBit(b, x, h, col)
           own == <<x, h>> = GetItemWithHash(b)
<1>1. Cols = Row(bitVectWidth) /\ r \in Row(padded) /\ 0 \in Row(bitVectWidth)
  BY TableFacts, Widths DEF Row
<1>2. Encode(b, PseudorandomCode(x, h)) = [col \in Row(bitVectWidth) |-> bit(col)]
  BY EncodedBits
<1>3. EncodingRows[r] = [col \in Row(bitVectWidth) |-> Generated(col, 0)[r]]
  BY <1>1 DEF EncodingRows
<1>4. \A col \in Row(bitVectWidth) :
        Generated(col, 0)[r] = bit(col) <=> b = r /\ (secret[col] => own)
  BY SameBit
<1> HIDE DEF bit, own
<1>5. EncodingRows[r] = Encode(b, PseudorandomCode(x, h))
        <=> \A col \in Row(bitVectWidth) : Generated(col, 0)[r] = bit(col)
  BY <1>2, <1>3
<1>6. EncodingRows[r] = Encode(b, PseudorandomCode(x, h))
        <=> b = r /\ ((\E col \in Cols : secret[col]) => own)
  BY <1>1, <1>4, <1>5
<1> QED BY <1>6 DEF own

\* The entries of the receiver's index are rows of buckets that hold an item.
LEMMA IndexedRows ==
    ASSUME NEW rows, NEW h \in HashIdx, NEW e
    PROVE  e \in Indexed(rows)[h] <=>
             \E r \in Row(m) : /\ table.bucketLookup[r] # 0 /\ GetItemWithHash(r)[2] = h
                               /\ e = <<rows[r], table.bucketLookup[r]>>
  BY DEF Indexed

\* What the two calls returned is related as KKRTPSI takes for granted.
LEMMA ReturnedAgree == IInv /\ ValuesInv => EncodingsAgree
<1> SUFFICES ASSUME IInv, ValuesInv, spc = "nil", rpc = "nil",
                    NEW b \in Row(m), NEW x \in Ids, NEW h \in HashIdx
             PROVE  LET found == {e \in encodings[h] :
                                    e[1] = Encode(b, PseudorandomCode(x, h))}
                        stored == {table.bucketLookup[b]} \cap {i \in DOMAIN table.items :
                                     table.items[i] = x /\ table.hashIndices[i] = h}
                    IN /\ stored \subseteq {e[2] : e \in found}
                       /\ (\E col \in Cols : secret[col]) => {e[2] : e \in found} = stored
  BY DEF EncodingsAgree
<1> DEFINE found == {e \in encodings[h] : e[1] = Encode(b, PseudorandomCode(x, h))}
           idx == table.bucketLookup[b]
           stored == {idx} \cap {i \in DOMAIN table.items :
                        table.items[i] = x /\ table.hashIndices[i] = h}
<1>1. Inputs /\ oprfKeys = KeyRows /\ encodings = Indexed(EncodingRows)
  BY DEF ValuesInv, SenderHolds, ReceiverHolds
<1>2. idx \in {0} \cup DOMAIN table.items /\ 0 \notin DOMAIN table.items
  <2>1. b \in DOMAIN table.bucketLookup /\ table \in Tables
    BY <1>1, TableFacts DEF Inputs
  <2> QED BY <2>1, OPRFAssumption
<1>3. GetItemWithHash(b) = IF idx = 0 THEN <<Nil, 0>>
                           ELSE <<table.items[idx], table.hashIndices[idx]>>
  BY DEF GetItemWithHash
<1>4. idx \in stored <=> idx # 0 /\ <<x, h>> = GetItemWithHash(b)
  BY <1>2, <1>3
<1> HIDE DEF found, idx
<1>5. ASSUME idx \in stored PROVE \E e \in found : e[2] = idx
  <2> DEFINE e == <<EncodingRows[b], idx>>
  <2>1. idx # 0 /\ <<x, h>> = GetItemWithHash(b) /\ GetItemWithHash(b)[2] = h
    BY <1>4, <1>5
  <2>2. e \in encodings[h]
    <3>1. table.bucketLookup[b] # 0 /\ e = <<EncodingRows[b], table.bucketLookup[b]>>
      BY <2>1 DEF idx
    <3> HIDE DEF e
    <3> QED BY <1>1, <2>1, <3>1, IndexedRows
  <2>3. EncodingRows[b] = Encode(b, PseudorandomCode(x, h))
    BY <1>1, <2>1, SameRow
  <2> QED BY <2>2, <2>3 DEF found
<1>6. ASSUME NEW e \in found, \E col \in Cols : secret[col] PROVE e[2] = idx /\ idx \in stored
  <2>1. e \in Indexed(EncodingRows)[h] /\ e[1] = Encode(b, PseudorandomCode(x, h))
    BY <1>1, <1>6 DEF found
  <2>2. PICK r \in Row(m) : /\ table.bucketLookup[r] # 0
                            /\ e = <<EncodingRows[r], table.bucketLookup[r]>>
    BY <2>1, IndexedRows
  <2>3. EncodingRows[r] = Encode(b, PseudorandomCode(x, h))
    BY <2>1, <2>2
  <2>4. b = r /\ <<x, h>> = GetItemWithHash(b)
    BY <1>1, <1>6, <2>3, SameRow
  <2> QED BY <1>4, <2>2, <2>4 DEF idx
<1>7. stored \subseteq {idx}
  OBVIOUS
<1> HIDE DEF stored
<1>8. /\ stored \subseteq {e[2] : e \in found}
      /\ (\E col \in Cols : secret[col]) => {e[2] : e \in found} = stored
  BY <1>5, <1>6, <1>7
<1> QED BY <1>8 DEF found, stored, idx

\* When both calls of the OPRF have returned nil, the sender's encoding of an
\* identifier for a bucket and a hash function is in the receiver's index exactly
\* when the bucket holds the identifier under it, for any table, choice bits with a 1
\* and numbers of goroutines (oprf.go, Send and Receive; kkrtpsi relies on it).
THEOREM EncodingsCorrect == Spec => []EncodingsAgree
<1> QED BY Invariance, ValuesInvariance, ReturnedAgree, PTL
=============================================================================
