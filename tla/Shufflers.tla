------------------------------ MODULE Shufflers ------------------------------
(***************************************************************************)
(* The shuffling encoders and the hashed permutation they take their order *)
(* from.  A behaviour of this module is a behaviour of an encoder or of    *)
(* the permutation, and the fields of the others keep their initial        *)
(* values.  The encoders are checked with every permutation, and the       *)
(* permutation on its own, for lengths the encoders' instances cannot      *)
(* reach: what it must be for them is Injective.                           *)
(***************************************************************************)
EXTENDS Encoders

CONSTANTS MinL, MaxL,       \* lengths to permute
          WordBits,         \* width of the permutation's unsigned word
          Factors           \* its odd multipliers

ASSUME KenslerAssumption ==
    /\ MinL \in Nat /\ MaxL \in Nat
    /\ WordBits \in Nat \ {0}
    /\ Factors \in [1..6 -> Nat] /\ \A c \in 1..6 : Factors[c] % 2 = 1

VARIABLES size, len, seed, mask, arg, val, at, image  \* permutation only

onlyPerm == <<size, len, seed, mask, arg, val, at, image>>
allVars == <<encoderVars, onlyPerm>>

Perm == INSTANCE Kensler
            WITH l <- len, p <- seed, w <- mask, n <- arg, i <- val, pc <- at

InitAll ==
    \/ InitEncoder /\ Perm!Init /\ size = 0 /\ len # 0
    \/ /\ kind = "permutation"
       /\ Perm!Init
       /\ Init /\ Par!Init /\ max = 0

Seq1(A) == SeqStep(A) /\ UNCHANGED onlyPerm
Par1(A) == ParStep(A) /\ UNCHANGED onlyPerm
Perm1(A) == kind = "permutation" /\ A /\ UNCHANGED encoderVars

NextAll == Seq1(Next) \/ Par1(Par!Next) \/ Perm1(Perm!Next)

\* The fairness of each one's own specification.
SpecAll ==
    /\ InitAll /\ [][NextAll]_allVars
    /\ WF_allVars(Seq1(Flush)) /\ WF_allVars(Seq1(FlushDone))
    /\ WF_allVars(Par1(Par!InCall))
    /\ \A w \in Workers : WF_allVars(Par1(Par!Worker(w)))
    /\ WF_allVars(Perm1(Perm!Next))

----------------------------------------------------------------------------
\* What kensler.go says of Shuffle: whatever the length up to the largest word,
\* and the seed, it gives no two indices the same place and none a place outside
\* the range.
Injective == kind = "permutation" => Perm!Injective

\* What Shuffle keeps of it: it is a permutation as long as the largest sum of a
\* value and the seed, (len - 1) + seed, is a word: for every length up to half
\* of the word and one, and beyond that for the small seeds.
InjectiveWithinWord == len + seed <= 2 ^ WordBits => Injective

\* Kensler.Shuffle returns for every index: its walk out of the gap between the
\* length and the next power of two always ends.  (Not that of a generator
\* whose making failed, an error that the encoders ignore.)
ShuffleReturns == kind = "permutation" => Perm!ShuffleReturns
=============================================================================
