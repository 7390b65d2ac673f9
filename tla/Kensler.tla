------------------------------- MODULE Kensler -------------------------------
(***************************************************************************)
(* internal/permutations/kensler.go: the hashed permutation that orders    *)
(* both DHPSI shuffles.  Shuffle scrambles an index within the next power  *)
(* of two and walks on until it lands below l.  The encoders call it once  *)
(* per index, and the receiver again to map a match back, so it has to be  *)
(* a permutation of 0..l-1.                                                *)
(*                                                                         *)
(* Every operation but the last keeps the low bits of i a function of its  *)
(* low bits, so all of them are computed within the mask w.  The final sum *)
(* is taken in a word of WordBits bits (32), which it can leave.           *)
(***************************************************************************)
EXTENDS Integers, Sequences

CONSTANTS MinL, MaxL,  \* the announced sizes to consider
          CanFail,     \* may the source of randomness fail?
          WordBits,    \* width of the unsigned word
          Factors      \* the odd numbers of the loop's body, in their order

VARIABLES size,  \* the size asked for
          l, p,  \* the fields of kensler
          w,     \* the mask of Shuffle
          n,     \* the index being shuffled
          i,     \* its value so far
          pc,    \* the statement of the loop's body to execute
          image  \* the results: index |-> place

vars == <<size, l, p, w, n, i, pc, image>>

\* All ones up to the highest bit of l - 1.
Mask(len) == (CHOOSE b \in {2 ^ k : k \in 0..WordBits} :
                 /\ len - 1 < b
                 /\ b = 1 \/ b \div 2 <= len - 1) - 1

\* NewKensler: at least 2, and a seed in 0..l-2.
NewKensler ==
    /\ size < 2 ^ WordBits
    /\ l = IF size < 2 THEN 2 ELSE size
    /\ p \in 0..(l - 2)
    /\ w = Mask(l)

\* It refuses a size that is no word, and fails without randomness.  Both
\* encoders ignore the error and go on with the zero value, of which the mask
\* l - 1 wraps around.
NewKenslerFails ==
    /\ size >= 2 ^ WordBits \/ CanFail
    /\ l = 0 /\ p = 0 /\ w = 2 ^ WordBits - 1

Init ==
    /\ size \in MinL..MaxL
    /\ NewKensler \/ NewKenslerFails
    /\ n = 0 /\ i = 0 /\ pc = 1
    /\ image = [k \in {} |-> 0]

Bit(x, j) == (x \div 2 ^ j) % 2

\* The exclusive or of two words of the mask.
Xor(x, y) == CHOOSE z \in 0..w :
    \A j \in 0..(WordBits - 1) : Bit(z, j) = (Bit(x, j) + Bit(y, j)) % 2

\* The three kinds of statement of the loop's body, within the mask.
XorSeed(s) == Xor(i, (p \div 2 ^ s) % (w + 1))
Mul(c) == (i * (c % (w + 1))) % (w + 1)
ShiftXor(s) == Xor(i, i \div 2 ^ s)

\* 1 | p >> 27: the seed's factor is odd.
SeedFactor_NotOdd == p \div 2 ^ 27
SeedFactor == LET shifted == p \div 2 ^ 27
              IN IF shifted % 2 = 1 THEN shifted ELSE shifted + 1

\* The body, statement by statement.
Body == <<"xor", "mul", "xor", "shift", "xor", "mul", "xor", "shift", "mul",
          "mul", "shift", "mul", "shift", "mul", "shift", "mul", "shift">>
Operand == <<0, Factors[1], 16, 4, 8, Factors[2], 23, 1, SeedFactor,
             Factors[3], 11, Factors[4], 2, Factors[5], 2, Factors[6], 5>>

Statement ==
    /\ n < size /\ pc <= Len(Body)
    /\ i' = CASE Body[pc] = "xor"   -> XorSeed(Operand[pc])
              [] Body[pc] = "mul"   -> Mul(Operand[pc])
              [] Body[pc] = "shift" -> ShiftXor(Operand[pc])
    /\ pc' = pc + 1
    /\ UNCHANGED <<size, l, p, w, n, image>>

\* The pass landed beyond l: go round again.  The mutant starts over from n.
WalkOn_Restart ==
    /\ n < size /\ pc > Len(Body) /\ i >= l
    /\ pc' = 1 /\ i' = n
    /\ UNCHANGED <<size, l, p, w, n, image>>

WalkOn ==
    /\ n < size /\ pc > Len(Body) /\ i >= l
    /\ pc' = 1
    /\ UNCHANGED <<size, l, p, w, n, i, image>>

\* The pass landed below l: Shuffle(n) returns the sum, which wraps around in
\* the word, modulo l; and the next index follows.
Return ==
    /\ n < size /\ pc > Len(Body) /\ i < l
    /\ image' = [k \in 0..n |-> IF k < n THEN image[k]
                                         ELSE ((i + p) % 2 ^ WordBits) % l]
    /\ n' = n + 1 /\ i' = n + 1 /\ pc' = 1
    /\ UNCHANGED <<size, l, p, w>>

Next == Statement \/ WalkOn \/ Return

Spec == Init /\ [][Next]_vars /\ WF_vars(Next)

----------------------------------------------------------------------------
\* No two indices get the same place and none leaves the range: the shuffle
\* loses no identifier and invents none.
Injective ==
    /\ \A k \in DOMAIN image : image[k] \in 0..(size - 1)
    /\ \A j, k \in DOMAIN image : j # k => image[j] # image[k]

\* The walk out of the gap between l and the next power of two always ends;
\* that of a generator that was not made never does, as nothing is below 0.
ShuffleReturns == l # 0 => <>(n = size)
=============================================================================
