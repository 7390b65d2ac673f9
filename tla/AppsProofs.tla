----------------------------- MODULE AppsProofs -----------------------------
(***************************************************************************)
(* The example programs, for any files and any number of senders: the out  *)
(* file holds the lines that the receiver's file and the sender's have in  *)
(* common.  The proof goes from the places of newlines in a file to the    *)
(* lines that are read from it and to the lines of a file being written.   *)
(***************************************************************************)
EXTENDS Apps, FiniteSetTheorems, SequenceTheorems, WellFoundedInduction, TLAPS

\* A set of natural numbers that is not empty has a least element.
LEMMA LeastElement ==
    ASSUME NEW T, T \subseteq Nat, T # {}
    PROVE  \E x \in T : \A y \in T : x <= y
<1> DEFINE R == {ss \in Nat \X Nat : ss[1] < ss[2]}
<1>1. IsWellFoundedOn(R, Nat)
  BY NatLessThanWellFounded DEF OpToRel
<1> HIDE DEF R
<1>2. PICK x \in T : \A y \in T : ~ (<<y, x>> \in R)
  BY <1>1, WFMin
<1>3. \A y \in T : y \in Nat /\ x \in Nat /\ ~(y < x)
  BY <1>2 DEF R
<1> QED BY <1>3

\* Induction over the natural numbers, for a set.
LEMMA Induction ==
    ASSUME NEW S, S \subseteq Nat, 0 \in S, \A i \in S : i + 1 \in S
    PROVE  S = Nat
<1>1. SUFFICES ASSUME Nat \ S # {} PROVE FALSE
  OBVIOUS
<1>2. PICK x \in Nat \ S : \A y \in Nat \ S : x <= y
  BY <1>1, LeastElement
<1>3. x # 0
  OBVIOUS
<1>4. x - 1 \in Nat /\ x - 1 \in S
  BY <1>2, <1>3
<1> QED BY <1>4

----------------------------------------------------------------------------
(* The places of a set in their order.                                     *)

\* How many places of S there are up to j.
UpTo(S, j) == {m \in S : m <= j}
Rank(S, j) == Cardinality(UpTo(S, j))

\* A finite set of places.
FinitePlaces(S) == S \subseteq Nat /\ IsFiniteSet(S)

LEMMA RankType ==
    ASSUME NEW S, FinitePlaces(S), NEW j \in Nat
    PROVE  /\ IsFiniteSet(UpTo(S, j)) /\ Rank(S, j) \in Nat
           /\ Cardinality(S) \in Nat /\ Rank(S, j) <= Cardinality(S)
<1>1. UpTo(S, j) \subseteq S
  BY DEF UpTo
<1> QED BY <1>1, FS_Subset, FS_CardinalityType DEF FinitePlaces, Rank

\* A later place has a higher rank.
LEMMA RankGrows ==
    ASSUME NEW S, FinitePlaces(S), NEW i \in Nat, NEW j \in S, i < j
    PROVE  Rank(S, i) < Rank(S, j)
<1>0. j \in Nat /\ \A m \in S : m \in Nat
  BY DEF FinitePlaces
<1>1. /\ IsFiniteSet(UpTo(S, i)) /\ IsFiniteSet(UpTo(S, j))
      /\ Rank(S, i) \in Nat /\ Rank(S, j) \in Nat
  BY <1>0, RankType
<1>2. UpTo(S, i) \subseteq UpTo(S, j) \ {j} /\ j \in UpTo(S, j)
  <2>1. ASSUME NEW m \in UpTo(S, i) PROVE m \in UpTo(S, j) /\ m # j
    BY <1>0 DEF UpTo
  <2>2. j \in UpTo(S, j)
    BY <1>0 DEF UpTo
  <2> QED BY <2>1, <2>2
<1>3. Cardinality(UpTo(S, j) \ {j}) = Rank(S, j) - 1 /\ IsFiniteSet(UpTo(S, j) \ {j})
  BY <1>1, <1>2, FS_RemoveElement DEF Rank
<1>4. Rank(S, i) <= Cardinality(UpTo(S, j) \ {j})
  BY <1>2, <1>3, FS_Subset DEF Rank
<1> QED BY <1>1, <1>3, <1>4

\* A place with none of S between it and the one before has the next rank.
LEMMA RankNext ==
    ASSUME NEW S, FinitePlaces(S), NEW i \in Nat, NEW j \in S, i < j,
           \A m \in S : m <= i \/ j <= m
    PROVE  Rank(S, j) = Rank(S, i) + 1
<1>0. j \in Nat /\ \A m \in S : m \in Nat
  BY DEF FinitePlaces
<1>1. UpTo(S, j) = UpTo(S, i) \cup {j} /\ ~(j \in UpTo(S, i))
  <2>1. \A m \in S : m <= j <=> (m <= i \/ m = j)
    BY <1>0
  <2>2. ~(j <= i)
    BY <1>0
  <2> QED BY <2>1, <2>2 DEF UpTo
<1>2. IsFiniteSet(UpTo(S, i))
  BY RankType
<1> QED BY <1>1, <1>2, FS_AddElement DEF Rank

\* Every rank up to the number of places is that of one.
LEMMA RankTaken ==
    ASSUME NEW S, FinitePlaces(S), NEW i \in 1..Cardinality(S)
    PROVE  \E j \in S : Rank(S, j) = i
<1>0. /\ Cardinality(S) \in Nat /\ S \subseteq Nat /\ IsFiniteSet(S)
      /\ \A m \in S : m \in Nat
  BY FS_CardinalityType DEF FinitePlaces
<1> DEFINE Taken(m) == \E j \in S : Rank(S, j) = m
           T == {m \in Nat : m + 1 <= Cardinality(S) => Taken(m + 1)}
<1>1. 0 \in T
  <2>1. SUFFICES ASSUME 1 <= Cardinality(S) PROVE Taken(1)
    BY <1>0
  <2>2. S # {}
    BY <2>1, FS_EmptySet
  <2>3. PICK x \in S : \A y \in S : x <= y
    BY <1>0, <2>2, LeastElement
  <2>4. UpTo(S, x) = {x}
    <3>1. \A m \in S : m <= x <=> m = x
      BY <1>0, <2>3
    <3> QED BY <3>1 DEF UpTo
  <2>5. Rank(S, x) = 1
    BY <2>4, FS_Singleton DEF Rank
  <2> QED BY <2>5
<1>2. ASSUME NEW m \in T PROVE m + 1 \in T
  <2>1. SUFFICES ASSUME (m + 1) + 1 <= Cardinality(S) PROVE Taken((m + 1) + 1)
    OBVIOUS
  <2>2. PICK j \in S : Rank(S, j) = m + 1
    BY <2>1, <1>0
  <2>3. PICK Above \in SUBSET Nat : Above = {y \in S : y > j}
    BY <1>0
  <2>4. Above # {}
    <3> SUFFICES ASSUME Above = {} PROVE FALSE
      OBVIOUS
    <3>1. UpTo(S, j) = S
      <4>1. \A y \in S : y <= j
        BY <1>0, <2>3
      <4> QED BY <4>1 DEF UpTo
    <3> QED BY <3>1, <2>1, <2>2, <1>0 DEF Rank
  <2>5. PICK x \in Above : \A y \in Above : x <= y
    BY <2>4, LeastElement
  <2>6. x \in S /\ x > j /\ \A y \in S : y <= j \/ x <= y
    BY <1>0, <2>3, <2>5
  <2>7. Rank(S, x) = Rank(S, j) + 1
    BY <1>0, <2>6, RankNext
  <2> QED BY <2>2, <2>6, <2>7
<1>3. T \subseteq Nat
  OBVIOUS
<1> HIDE DEF T, Taken
<1>4. T = Nat
  BY <1>1, <1>2, <1>3, Induction
<1>5. i - 1 \in T /\ (i - 1) + 1 = i
  BY <1>0, <1>4
<1> QED BY <1>0, <1>5 DEF T, Taken

\* Nth finds the place of a rank, and the rank of a place leads back to it.
LEMMA NthPlace ==
    ASSUME NEW S, FinitePlaces(S), NEW i \in 1..Cardinality(S)
    PROVE  Nth(S, i) \in S /\ Rank(S, Nth(S, i)) = i
<1>1. \E j \in S : Rank(S, j) = i
  BY RankTaken
<1>2. Nth(S, i) = CHOOSE j \in S : Rank(S, j) = i
  BY DEF Nth, Rank, UpTo
<1> QED BY <1>1, <1>2

LEMMA NthRank ==
    ASSUME NEW S, FinitePlaces(S), NEW j \in S
    PROVE  Rank(S, j) \in 1..Cardinality(S) /\ Nth(S, Rank(S, j)) = j
<1>0. j \in Nat
  BY DEF FinitePlaces
<1>1. Rank(S, j) \in Nat /\ Cardinality(S) \in Nat /\ Rank(S, j) <= Cardinality(S)
  BY <1>0, RankType
<1>2. Rank(S, j) # 0
  <2>1. j \in UpTo(S, j) /\ IsFiniteSet(UpTo(S, j))
    BY <1>0, RankType DEF UpTo
  <2> QED BY <2>1, FS_EmptySet DEF Rank
<1>3. PICK x \in S : x = Nth(S, Rank(S, j)) /\ Rank(S, x) = Rank(S, j)
  BY <1>1, <1>2, NthPlace
<1>4. x \in Nat
  BY DEF FinitePlaces
<1>5. ~(x < j) /\ ~(j < x)
  BY <1>0, <1>1, <1>3, <1>4, RankGrows
<1> QED BY <1>0, <1>1, <1>2, <1>3, <1>4, <1>5

\* What Selected holds.
LEMMA SelectedHolds ==
    ASSUME NEW s, NEW S, FinitePlaces(S)
    PROVE  /\ Selected(s, S) \in Seq({s[j] : j \in S})
           /\ Len(Selected(s, S)) = Cardinality(S)
           /\ Members(Selected(s, S)) = {s[j] : j \in S}
<1>1. Cardinality(S) \in Nat
  BY FS_CardinalityType DEF FinitePlaces
<1>2. Selected(s, S) \in [1..Cardinality(S) -> {s[j] : j \in S}]
  BY NthPlace DEF Selected
<1>3. Selected(s, S) \in Seq({s[j] : j \in S}) /\ Len(Selected(s, S)) = Cardinality(S)
  BY <1>1, <1>2
<1>4. ASSUME NEW j \in S PROVE s[j] \in Members(Selected(s, S))
  <2>1. PICK i \in 1..Cardinality(S) : Nth(S, i) = j
    BY NthRank
  <2>2. Selected(s, S)[i] = s[j] /\ i \in DOMAIN Selected(s, S)
    BY <2>1 DEF Selected
  <2> QED BY <2>2 DEF Members
<1>5. Members(Selected(s, S)) \subseteq {s[j] : j \in S}
  BY <1>2 DEF Members
<1> QED BY <1>3, <1>4, <1>5

----------------------------------------------------------------------------
(* Reading lines.                                                          *)

\* The bytes of files.
Byte == STRING \cup {NL, "0"}

LEMMA FilesAreBytes ==
    /\ NL \in Byte
    /\ \A g \in Seq(STRING) : g \in Seq(Byte)
<1>1. STRING \subseteq Byte
  BY DEF Byte
<1>2. \A g \in Seq(STRING) : g \in Seq(Byte)
  BY <1>1, SeqMonotonic
<1> QED BY <1>2 DEF Byte

\* The bytes of a file after j and before h.
Part(g, j, h) == SubSeq(g, j + 1, h - 1)

LEMMA PartOf ==
    ASSUME NEW g \in Seq(Byte), NEW j \in Nat, NEW h \in Nat, j < h, h <= Len(g) + 1
    PROVE  /\ Part(g, j, h) \in Seq(Byte)
           /\ Len(Part(g, j, h)) = (h - j) - 1
           /\ \A x \in 1..((h - j) - 1) : Part(g, j, h)[x] = g[j + x]
<1>1. Len(g) \in Nat /\ \A x \in 1..Len(g) : g[x] \in Byte
  BY LenProperties, ElementOfSeq
<1>2. j + 1 \in Int /\ h - 1 \in Int
  OBVIOUS
<1>3. \A x \in (j + 1)..(h - 1) : g[x] \in Byte
  BY <1>1
<1>4. /\ Part(g, j, h) \in Seq(Byte)
      /\ Len(Part(g, j, h)) = IF j + 1 <= h - 1 THEN (h - 1) - (j + 1) + 1 ELSE 0
      /\ \A x \in 1..((h - 1) - (j + 1) + 1) : Part(g, j, h)[x] = g[(j + 1) + x - 1]
  BY <1>2, <1>3, SubSeqProperties DEF Part
<1> QED BY <1>4

\* Two parts of the same length with the same bytes.
LEMMA PartsEqual ==
    ASSUME NEW s \in Seq(Byte), NEW t \in Seq(Byte), NEW len \in Nat,
           Len(s) = len, Len(t) = len, \A x \in 1..len : s[x] = t[x]
    PROVE  s = t
  BY SeqEqual

\* The newlines of a file are places in it.
LEMMA NewlineIn ==
    ASSUME NEW g \in Seq(Byte)
    PROVE  /\ Len(g) \in Nat /\ DOMAIN g = 1..Len(g)
           /\ \A m : m \in Newlines(g) <=> m \in 1..Len(g) /\ g[m] = NL
<1>1. Len(g) \in Nat /\ DOMAIN g = 1..Len(g)
  BY LenProperties
<1> QED BY <1>1 DEF Newlines

LEMMA NewlinePlaces ==
    ASSUME NEW g \in Seq(Byte)
    PROVE  /\ FinitePlaces(Newlines(g)) /\ FinitePlaces(Newlines(g) \cup {0})
           /\ Cardinality(Newlines(g)) \in 0..Len(g)
           /\ Cardinality(Newlines(g) \cup {0}) = Cardinality(Newlines(g)) + 1
           /\ \A j \in Nat : Rank(Newlines(g) \cup {0}, j) = Rank(Newlines(g), j) + 1
<1>1. Newlines(g) \subseteq 1..Len(g) /\ Len(g) \in Nat
  BY NewlineIn
<1>2. IsFiniteSet(1..Len(g)) /\ Cardinality(1..Len(g)) = Len(g)
  <2>1. 1 \in Int /\ Len(g) \in Int
    BY <1>1
  <2>2. /\ IsFiniteSet(1..Len(g))
        /\ Cardinality(1..Len(g)) = IF 1 > Len(g) THEN 0 ELSE Len(g) - 1 + 1
    BY <2>1, FS_Interval
  <2> QED BY <1>1, <2>2
<1>3. IsFiniteSet(Newlines(g)) /\ Cardinality(Newlines(g)) <= Len(g)
  BY <1>1, <1>2, FS_Subset
<1>4. Cardinality(Newlines(g)) \in Nat
  BY <1>3, FS_CardinalityType
<1>5. ~(0 \in Newlines(g)) /\ Newlines(g) \subseteq Nat
  BY <1>1
<1>6. /\ IsFiniteSet(Newlines(g) \cup {0})
      /\ Cardinality(Newlines(g) \cup {0}) = Cardinality(Newlines(g)) + 1
  BY <1>3, <1>5, FS_AddElement
<1>7. ASSUME NEW j \in Nat
      PROVE  Rank(Newlines(g) \cup {0}, j) = Rank(Newlines(g), j) + 1
  <2>1. UpTo(Newlines(g) \cup {0}, j) = UpTo(Newlines(g), j) \cup {0}
    BY DEF UpTo
  <2>2. IsFiniteSet(UpTo(Newlines(g), j)) /\ ~(0 \in UpTo(Newlines(g), j))
    BY <1>3, <1>5, RankType DEF FinitePlaces, UpTo
  <2> QED BY <2>1, <2>2, FS_AddElement DEF Rank
<1>8. Cardinality(Newlines(g)) \in 0..Len(g)
  BY <1>1, <1>3, <1>4
<1>9. FinitePlaces(Newlines(g)) /\ FinitePlaces(Newlines(g) \cup {0})
  BY <1>3, <1>5, <1>6 DEF FinitePlaces
<1> QED BY <1>6, <1>7, <1>8, <1>9

\* The line that starts after j ends with the newline h.
Spans(g, j, h) ==
    /\ j \in Newlines(g) \cup {0} /\ h \in Newlines(g) /\ j < h
    /\ \A m \in Newlines(g) : m <= j \/ h <= m

LEMMA SpansIn ==
    ASSUME NEW g \in Seq(Byte), NEW j, NEW h, Spans(g, j, h)
    PROVE  j \in Nat /\ h \in Nat /\ h \in 1..Len(g) /\ g[h] = NL /\ j < h /\ Len(g) \in Nat
  BY NewlineIn DEF Spans

\* A newline that is not the last is followed by a line.
LEMMA NextLine ==
    ASSUME NEW g \in Seq(Byte), NEW j \in Newlines(g) \cup {0},
           \E m \in Newlines(g) : m > j
    PROVE  \E h \in Newlines(g) : Spans(g, j, h)
<1>1. j \in Nat /\ \A m \in Newlines(g) : m \in Nat
  BY NewlineIn
<1> DEFINE T == {m \in Newlines(g) : m > j}
<1>2. T \subseteq Nat /\ T # {}
  BY <1>1
<1>3. PICK h \in T : \A m \in T : h <= m
  <2> HIDE DEF T
  <2> QED BY <1>2, LeastElement
<1>4. h \in Newlines(g) /\ j < h /\ h \in Nat
  BY <1>1
<1>5. ASSUME NEW m \in Newlines(g) PROVE m <= j \/ h <= m
  <2>1. CASE m > j
    BY <2>1, <1>3
  <2>2. CASE ~(m > j)
    BY <2>2, <1>1
  <2> QED BY <2>1, <2>2
<1> QED BY <1>4, <1>5 DEF Spans

\* The newline that ReadBytes stops at.
LEMMA ReadsTo ==
    ASSUME NEW g \in Seq(Byte), NEW j, NEW h, Spans(g, j, h)
    PROVE  ReadBytes(g, 1 + j) = [line |-> SubSeq(g, 1 + j, h), err |-> "nil"]
<1>1. j \in Nat /\ h \in Nat /\ h \in Newlines(g) /\ j < h /\ \A m \in Newlines(g) : m \in Nat
  BY NewlineIn, SpansIn DEF Spans
<1> DEFINE E == {m \in Newlines(g) : m >= 1 + j}
<1>2. h \in E
  BY <1>1
<1>3. \A m \in E : h <= m /\ m \in Nat
  BY <1>1 DEF Spans
<1>4. (CHOOSE m \in E : \A x \in E : m <= x) = h
  <2>1. \A m \in E : (\A x \in E : m <= x) => m = h
    BY <1>1, <1>2, <1>3
  <2> HIDE DEF E
  <2> QED BY <1>2, <1>3, <2>1
<1>5. E # {}
  BY <1>2
<1> QED BY <1>4, <1>5 DEF ReadBytes

\* The last byte of a longer line is cut off.
LEMMA CutsOff ==
    ASSUME NEW g, NEW from, NEW read, NEW e, ReadBytes(g, from) = [line |-> read, err |-> e]
    PROVE  SafeReadLine(g, from).line =
             IF Len(read) > 1 THEN SubSeq(read, 1, Len(read) - 1) ELSE read
<1>1. SafeReadLine(g, from) =
        [[line |-> read, err |-> e] EXCEPT
           !.line = IF Len(@) > 1 THEN SubSeq(@, 1, Len(@) - 1) ELSE @]
  BY DEF SafeReadLine
<1> QED BY <1>1

\* The line that SafeReadLine returns: a newline for a blank one.
LEMMA ReadsLine ==
    ASSUME NEW g \in Seq(Byte), NEW j, NEW h, Spans(g, j, h)
    PROVE  SafeReadLine(g, 1 + j).line = IF h = j + 1 THEN <<NL>> ELSE Part(g, j, h)
<1>1. /\ j \in Nat /\ h \in Nat /\ h \in 1..Len(g) /\ g[h] = NL /\ j < h /\ Len(g) \in Nat
  BY SpansIn
<1> DEFINE s == SubSeq(g, 1 + j, h)
<1>2. s = Part(g, j, h + 1)
  <2>1. (h + 1) - 1 = h /\ 1 + j = j + 1
    BY <1>1
  <2> QED BY <2>1 DEF Part
<1>3. s \in Seq(Byte) /\ Len(s) = h - j /\ \A x \in 1..(h - j) : s[x] = g[j + x]
  <2>1. h + 1 \in Nat /\ j < h + 1 /\ h + 1 <= Len(g) + 1 /\ (h + 1 - j) - 1 = h - j
    BY <1>1
  <2> QED BY <1>1, <1>2, <2>1, PartOf
<1>4. SafeReadLine(g, 1 + j).line = IF Len(s) > 1 THEN SubSeq(s, 1, Len(s) - 1) ELSE s
  <2>1. ReadBytes(g, 1 + j) = [line |-> s, err |-> "nil"]
    BY ReadsTo
  <2> HIDE DEF s
  <2> QED BY <2>1, CutsOff
<1> HIDE DEF s
<1>5. CASE h = j + 1
  <2>1. Len(s) = 1 /\ s[1] = NL
    BY <1>1, <1>3, <1>5
  <2>2. s = <<NL>>
    BY <2>1, <1>3
  <2> QED BY <1>4, <1>5, <2>1, <2>2
<1>6. CASE h # j + 1
  <2>1. Len(s) > 1 /\ Len(s) - 1 = (h - j) - 1 /\ Len(s) \in Nat
    BY <1>1, <1>3, <1>6
  <2>2. SubSeq(s, 1, Len(s) - 1) = Part(s, 0, Len(s))
    BY DEF Part
  <2>3. /\ Part(s, 0, Len(s)) \in Seq(Byte)
        /\ Len(Part(s, 0, Len(s))) = (Len(s) - 0) - 1
        /\ \A x \in 1..((Len(s) - 0) - 1) : Part(s, 0, Len(s))[x] = s[0 + x]
    <3>1. 0 \in Nat /\ 0 < Len(s) /\ Len(s) <= Len(s) + 1
      BY <2>1
    <3> QED BY <1>3, <2>1, <3>1, PartOf
  <2>4. /\ Part(g, j, h) \in Seq(Byte)
        /\ Len(Part(g, j, h)) = (h - j) - 1
        /\ \A x \in 1..((h - j) - 1) : Part(g, j, h)[x] = g[j + x]
    <3>1. h <= Len(g) + 1
      BY <1>1
    <3> QED BY <1>1, <3>1, PartOf
  <2>5. (h - j) - 1 \in Nat /\ (Len(s) - 0) - 1 = (h - j) - 1
    BY <1>1, <2>1
  <2>6. \A x \in 1..((h - j) - 1) : x \in 1..(h - j) /\ 0 + x = x
    BY <1>1
  <2>7. \A x \in 1..((h - j) - 1) : Part(s, 0, Len(s))[x] = Part(g, j, h)[x]
    BY <1>3, <2>3, <2>4, <2>5, <2>6
  <2>8. Part(s, 0, Len(s)) = Part(g, j, h)
    BY <2>3, <2>4, <2>5, <2>7, PartsEqual
  <2> QED BY <1>4, <1>6, <2>1, <2>2, <2>8
<1> QED BY <1>5, <1>6

\* Behind the last newline of a terminated file there is nothing to read.
LEMMA ReadsNothing ==
    ASSUME NEW g \in Seq(Byte), Terminated(g), NEW j \in Newlines(g) \cup {0},
           \A m \in Newlines(g) : m <= j
    PROVE  SafeReadLine(g, 1 + j).line = <<>>
<1>1. j \in Nat /\ Len(g) \in Nat /\ j <= Len(g) /\ \A m \in Newlines(g) : m \in Nat
  BY NewlineIn
<1>2. j = Len(g)
  <2>1. CASE g = <<>>
    <3>1. Len(g) = 0
      BY <2>1
    <3> QED BY <1>1, <3>1
  <2>2. CASE g # <<>>
    <3>1. Len(g) \in 1..Len(g)
      BY <2>2, <1>1, EmptySeq
    <3>2. Len(g) \in Newlines(g)
      BY <2>2, <3>1, NewlineIn DEF Terminated
    <3> QED BY <1>1, <3>2
  <2> QED BY <2>1, <2>2
<1>3. {m \in Newlines(g) : m >= 1 + j} = {}
  <2>1. \A m \in Newlines(g) : ~(m >= 1 + j)
    BY <1>1
  <2> QED BY <2>1
<1>4. ReadBytes(g, 1 + j) = [line |-> SubSeq(g, 1 + j, Len(g)), err |-> "EOF"]
  BY <1>3 DEF ReadBytes
<1>5. SubSeq(g, 1 + j, Len(g)) = <<>>
  BY <1>1, <1>2, SubSeqEmpty
<1>6. ~(Len(<<>>) > 1)
  OBVIOUS
<1>7. ReadBytes(g, 1 + j) = [line |-> <<>>, err |-> "EOF"]
  BY <1>4, <1>5
<1> QED BY <1>6, <1>7, CutsOff

----------------------------------------------------------------------------
(* What Exhaust delivers of a terminated file.                             *)

\* A line that is in a file, as Lines has it: not blank, and among the first m.
LEMMA LinesAre ==
    ASSUME NEW g \in Seq(Byte), NEW m \in Nat, NEW x
    PROVE  x \in Lines(g, m) <=>
             \E j \in Newlines(g) \cup {0}, h \in Newlines(g) :
                /\ Spans(g, j, h) /\ j + 1 < h /\ Rank(Newlines(g), h) <= m
                /\ x = Part(g, j, h)
<1> DEFINE Line(j, h) == /\ j + 1 < h
                         /\ \A y \in (j + 1)..(h - 1) : g[y] # NL
                         /\ Cardinality({y \in Newlines(g) : y <= h}) <= m
           At == {jk \in (Newlines(g) \cup {0}) \X Newlines(g) : Line(jk[1], jk[2])}
<1>1. ASSUME NEW j \in Newlines(g) \cup {0}, NEW h \in Newlines(g), j + 1 < h
      PROVE  Line(j, h) <=> Spans(g, j, h) /\ Rank(Newlines(g), h) <= m
  <2>1. j \in Nat /\ h \in Nat /\ h <= Len(g) /\ Len(g) \in Nat
    BY NewlineIn
  <2>2. (\A y \in (j + 1)..(h - 1) : g[y] # NL) <=> (\A y \in Newlines(g) : y <= j \/ h <= y)
    <3>1. ASSUME NEW y \in Newlines(g), ~(y <= j), ~(h <= y)
          PROVE  y \in (j + 1)..(h - 1) /\ g[y] = NL
      <4>1. y \in Nat /\ g[y] = NL
        BY NewlineIn
      <4> QED BY <2>1, <3>1, <4>1
    <3>2. ASSUME NEW y \in (j + 1)..(h - 1), g[y] = NL
          PROVE  y \in Newlines(g) /\ ~(y <= j) /\ ~(h <= y)
      <4>1. y \in 1..Len(g) /\ ~(y <= j) /\ ~(h <= y)
        BY <2>1, <3>2
      <4> QED BY <3>2, <4>1, NewlineIn
    <3> QED BY <3>1, <3>2
  <2>3. j < h
    BY <1>1, <2>1
  <2> QED BY <1>1, <2>2, <2>3 DEF Spans, Rank, UpTo
<1>2. Lines(g, m) = {SubSeq(g, line[1] + 1, line[2] - 1) : line \in At}
  BY DEF Lines
<1>3. x \in Lines(g, m) <=> \E line \in At : x = SubSeq(g, line[1] + 1, line[2] - 1)
  BY <1>2
<1>4. (\E line \in At : x = SubSeq(g, line[1] + 1, line[2] - 1)) <=>
        \E j \in Newlines(g) \cup {0}, h \in Newlines(g) :
           Line(j, h) /\ x = SubSeq(g, j + 1, h - 1)
  <2> HIDE DEF Line
  <2>1. ASSUME NEW line \in At, x = SubSeq(g, line[1] + 1, line[2] - 1)
        PROVE  \E j \in Newlines(g) \cup {0}, h \in Newlines(g) :
                 Line(j, h) /\ x = SubSeq(g, j + 1, h - 1)
    BY <2>1
  <2>2. ASSUME NEW j \in Newlines(g) \cup {0}, NEW h \in Newlines(g), Line(j, h),
               x = SubSeq(g, j + 1, h - 1)
        PROVE  \E line \in At : x = SubSeq(g, line[1] + 1, line[2] - 1)
    <3>1. <<j, h>> \in At
      BY <2>2
    <3> QED BY <2>2, <3>1
  <2> QED BY <2>1, <2>2
<1>5. \A j, h : Line(j, h) => j + 1 < h
  OBVIOUS
<1> HIDE DEF Line
<1> QED BY <1>1, <1>3, <1>4, <1>5 DEF Part

\* The rank of the newline that ends a line is that of the one before it.
LEMMA SpansRank ==
    ASSUME NEW g \in Seq(Byte), NEW j, NEW h, Spans(g, j, h)
    PROVE  Rank(Newlines(g) \cup {0}, j) = Rank(Newlines(g), h)
<1>1. j \in Nat /\ h \in Nat /\ j < h
  BY SpansIn
<1>2. Rank(Newlines(g), h) = Rank(Newlines(g), j) + 1
  BY <1>1, NewlinePlaces, RankNext DEF Spans
<1> QED BY <1>1, <1>2, NewlinePlaces

\* What a round of Exhaust reads.
Read(g, i) == SafeReadLine(g, 1 + Nth(Newlines(g) \cup {0}, i)).line

\* Where a round of Exhaust reads: a line, or nothing in the round behind them all.
LEMMA RoundReads ==
    ASSUME NEW g \in Seq(Byte), Terminated(g), NEW i \in 1..(Cardinality(Newlines(g)) + 1)
    PROVE  \/ /\ i = Cardinality(Newlines(g)) + 1
              /\ Read(g, i) = <<>>
           \/ \E j \in Newlines(g) \cup {0}, h \in Newlines(g) :
                /\ Spans(g, j, h) /\ Rank(Newlines(g), h) = i
                /\ Read(g, i) = IF h = j + 1 THEN <<NL>> ELSE Part(g, j, h)
<1> DEFINE S == Newlines(g) \cup {0}
<1>1. FinitePlaces(S) /\ Cardinality(S) = Cardinality(Newlines(g)) + 1 /\ Cardinality(S) \in Nat
  <2>1. Cardinality(Newlines(g)) \in 0..Len(g) /\ Len(g) \in Nat
    BY NewlinePlaces, NewlineIn
  <2>2. FinitePlaces(S) /\ Cardinality(S) = Cardinality(Newlines(g)) + 1
    BY NewlinePlaces
  <2> HIDE DEF S
  <2> QED BY <2>1, <2>2
<1>2. PICK j \in S : j = Nth(S, i) /\ Rank(S, j) = i
  <2> HIDE DEF S
  <2>1. i \in 1..Cardinality(S)
    BY <1>1
  <2> QED BY <1>1, <2>1, NthPlace
<1>3. Read(g, i) = SafeReadLine(g, 1 + j).line
  BY <1>2 DEF Read
<1>4. CASE \E m \in Newlines(g) : m > j
  <2>1. PICK h \in Newlines(g) : Spans(g, j, h)
    BY <1>4, NextLine
  <2>2. Rank(Newlines(g), h) = i
    BY <1>2, <2>1, SpansRank
  <2>3. Read(g, i) = IF h = j + 1 THEN <<NL>> ELSE Part(g, j, h)
    BY <1>3, <2>1, ReadsLine
  <2> QED BY <2>1, <2>2, <2>3
<1>5. CASE ~\E m \in Newlines(g) : m > j
  <2>1. j \in Nat /\ \A m \in Newlines(g) : m \in Nat
    BY NewlineIn
  <2>2. \A m \in Newlines(g) : m <= j
    BY <1>5, <2>1
  <2>3. \A m \in S : m <= j
    BY <2>1, <2>2
  <2>4. UpTo(S, j) = S
    BY <2>3 DEF UpTo
  <2>5. i = Cardinality(Newlines(g)) + 1
    BY <1>1, <1>2, <2>4 DEF Rank
  <2>6. Read(g, i) = <<>>
    BY <1>3, <2>2, ReadsNothing
  <2> QED BY <2>5, <2>6
<1> QED BY <1>4, <1>5

\* The round that reads a line.
LEMMA LineRead ==
    ASSUME NEW g \in Seq(Byte), NEW j, NEW h, Spans(g, j, h)
    PROVE  /\ Rank(Newlines(g), h) \in 1..Cardinality(Newlines(g))
           /\ Read(g, Rank(Newlines(g), h)) = IF h = j + 1 THEN <<NL>> ELSE Part(g, j, h)
<1> DEFINE S == Newlines(g) \cup {0}
<1>1. j \in S /\ h \in Newlines(g)
  BY DEF Spans
<1>2. FinitePlaces(S) /\ FinitePlaces(Newlines(g))
  BY NewlinePlaces
<1>3. Nth(S, Rank(S, j)) = j
  <2> HIDE DEF S
  <2> QED BY <1>1, <1>2, NthRank
<1>4. Rank(S, j) = Rank(Newlines(g), h)
  BY SpansRank
<1>5. Rank(Newlines(g), h) \in 1..Cardinality(Newlines(g))
  BY <1>1, <1>2, NthRank
<1>6. Read(g, Rank(Newlines(g), h)) = SafeReadLine(g, 1 + j).line
  BY <1>3, <1>4 DEF Read
<1> QED BY <1>5, <1>6, ReadsLine

\* The rounds of Exhaust that send something, and what they send.
SendingRounds(m, g) == {i \in 1..Rounds(m, g) : Read(g, i) # <<>>}

\* Exhaust delivers as many of the lines read as there are rounds that send.
LEMMA ExhaustIs ==
    ASSUME NEW g \in Seq(Byte), NEW m \in Nat
    PROVE  /\ Rounds(m, g) \in Nat /\ Rounds(m, g) <= Cardinality(Newlines(g)) + 1
           /\ IsFiniteSet(SendingRounds(m, g)) /\ Cardinality(SendingRounds(m, g)) \in Nat
           /\ Cardinality(SendingRounds(m, g)) <= Rounds(m, g)
           /\ DOMAIN Exhaust(m, g) = 1..Cardinality(SendingRounds(m, g))
           /\ \A i \in 1..Cardinality(SendingRounds(m, g)) : Exhaust(m, g)[i] = Read(g, i)
           /\ FinitePlaces(DOMAIN Exhaust(m, g))
<1>1. Cardinality(Newlines(g)) \in Nat
  <2>1. Cardinality(Newlines(g)) \in 0..Len(g) /\ Len(g) \in Nat
    BY NewlinePlaces, NewlineIn
  <2> QED BY <2>1
<1> DEFINE r == Rounds(m, g)
           lines == [i \in 1..r |-> Read(g, i)]
           sent == Cardinality(SendingRounds(m, g))
<1>2. r \in Nat /\ r <= Cardinality(Newlines(g)) + 1
  BY <1>1 DEF Rounds
<1>3. Exhaust(m, g) = SubSeq(lines, 1, Cardinality({i \in 1..r : lines[i] # <<>>}))
  BY DEF Exhaust, Rounds, Read
<1>4. {i \in 1..r : lines[i] # <<>>} = SendingRounds(m, g)
  BY DEF SendingRounds
<1>5. Exhaust(m, g) = SubSeq(lines, 1, sent)
  BY <1>3, <1>4
<1>6. IsFiniteSet(SendingRounds(m, g)) /\ sent \in Nat /\ sent <= r
  <2>1. SendingRounds(m, g) \subseteq 1..r
    BY DEF SendingRounds
  <2> HIDE DEF r
  <2>2. IsFiniteSet(1..r) /\ Cardinality(1..r) = r
    <3>1. 1 \in Int /\ r \in Int
      BY <1>2
    <3>2. IsFiniteSet(1..r) /\ Cardinality(1..r) = IF 1 > r THEN 0 ELSE r - 1 + 1
      BY <3>1, FS_Interval
    <3> QED BY <1>2, <3>2
  <2>3. IsFiniteSet(SendingRounds(m, g)) /\ Cardinality(SendingRounds(m, g)) <= r
    BY <2>1, <2>2, FS_Subset
  <2> QED BY <2>3, FS_CardinalityType
<1> HIDE DEF r, sent
<1>7. \A i \in 1..sent : i \in 1..r /\ lines[i] = Read(g, i)
  BY <1>2, <1>6
<1>8. sent \in Int /\ \A i \in 1..sent : lines[i] \in {Read(g, x) : x \in 1..r}
  BY <1>6, <1>7
<1> HIDE DEF lines
<1>9. /\ SubSeq(lines, 1, sent) \in Seq({Read(g, x) : x \in 1..r})
      /\ Len(SubSeq(lines, 1, sent)) = IF 1 <= sent THEN sent - 1 + 1 ELSE 0
      /\ \A i \in 1..(sent - 1 + 1) : SubSeq(lines, 1, sent)[i] = lines[1 + i - 1]
  BY <1>8, SubSeqProperties
<1>10. sent - 1 + 1 = sent /\ \A i \in 1..sent : 1 + i - 1 = i
  BY <1>6
<1>11. /\ Len(SubSeq(lines, 1, sent)) = sent
       /\ \A i \in 1..sent : SubSeq(lines, 1, sent)[i] = Read(g, i)
  BY <1>6, <1>7, <1>9, <1>10
<1>12. DOMAIN SubSeq(lines, 1, sent) = 1..sent
  BY <1>9, <1>11, LenProperties
<1>13. FinitePlaces(1..sent)
  <2>1. 1 \in Int /\ sent \in Int
    BY <1>6
  <2>2. IsFiniteSet(1..sent)
    BY <2>1, FS_Interval
  <2> QED BY <1>6, <2>2 DEF FinitePlaces
<1> QED BY <1>2, <1>5, <1>6, <1>11, <1>12, <1>13 DEF r, sent

\* Of a terminated file only the round behind all lines reads nothing.
LEMMA ExhaustSends ==
    ASSUME NEW g \in Seq(Byte), Terminated(g), NEW m \in Nat
    PROVE  Members(Exhaust(m, g)) = {Read(g, i) : i \in SendingRounds(m, g)}
<1> DEFINE r == Rounds(m, g)
           total == Cardinality(Newlines(g))
<1>0. total \in Nat
  <2>1. Cardinality(Newlines(g)) \in 0..Len(g) /\ Len(g) \in Nat
    BY NewlinePlaces, NewlineIn
  <2> QED BY <2>1
<1>1. /\ r \in Nat /\ r <= total + 1
      /\ DOMAIN Exhaust(m, g) = 1..Cardinality(SendingRounds(m, g))
      /\ \A i \in 1..Cardinality(SendingRounds(m, g)) : Exhaust(m, g)[i] = Read(g, i)
  BY ExhaustIs
<1>2. ASSUME NEW i \in 1..r, i # total + 1 PROVE Read(g, i) # <<>>
  <2>1. i \in 1..(total + 1)
    BY <1>0, <1>1
  <2>2. PICK j \in Newlines(g) \cup {0}, h \in Newlines(g) :
          /\ Spans(g, j, h)
          /\ Read(g, i) = IF h = j + 1 THEN <<NL>> ELSE Part(g, j, h)
    BY <1>2, <2>1, RoundReads
  <2>3. CASE h = j + 1
    BY <2>2, <2>3
  <2>4. CASE h # j + 1
    <3>1. j \in Nat /\ h \in Nat /\ j < h /\ h <= Len(g) + 1 /\ (h - j) - 1 > 0
      BY <2>2, <2>4, SpansIn
    <3>2. Len(Part(g, j, h)) = (h - j) - 1
      BY <3>1, PartOf
    <3>3. Part(g, j, h) # <<>>
      BY <3>1, <3>2
    <3> QED BY <2>2, <2>4, <3>3
  <2> QED BY <2>3, <2>4
<1>3. \E s \in Nat : SendingRounds(m, g) = 1..s
  <2>1. CASE r > 0 /\ Read(g, r) = <<>>
    <3>1. r = total + 1
      BY <1>1, <1>2, <2>1
    <3>2. \A i : i \in 1..r /\ Read(g, i) # <<>> <=> i \in 1..(r - 1)
      BY <1>0, <1>1, <1>2, <2>1, <3>1
    <3>3. SendingRounds(m, g) = 1..(r - 1) /\ r - 1 \in Nat
      BY <1>1, <2>1, <3>2 DEF SendingRounds
    <3> QED BY <3>3
  <2>2. CASE ~(r > 0 /\ Read(g, r) = <<>>)
    <3>1. \A i \in 1..r : Read(g, i) # <<>>
      BY <1>0, <1>1, <1>2, <2>2
    <3> QED BY <1>1, <3>1 DEF SendingRounds
  <2> QED BY <2>1, <2>2
<1>4. SendingRounds(m, g) = 1..Cardinality(SendingRounds(m, g))
  <2>1. PICK s \in Nat : SendingRounds(m, g) = 1..s
    BY <1>3
  <2>2. 1 \in Int /\ s \in Int
    OBVIOUS
  <2>3. Cardinality(1..s) = IF 1 > s THEN 0 ELSE s - 1 + 1
    BY <2>2, FS_Interval
  <2> QED BY <2>1, <2>3
<1> QED BY <1>1, <1>4 DEF Members

\* The identifiers that Exhaust delivers of a terminated file are the first m lines
\* of it, and blank ones.
LEMMA ExhaustLines ==
    ASSUME NEW g \in Seq(Byte), Terminated(g), NEW m \in Nat
    PROVE  Members(Exhaust(m, g)) \ {<<NL>>} = Lines(g, m)
<1>0. Cardinality(Newlines(g)) \in Nat
  <2>1. Cardinality(Newlines(g)) \in 0..Len(g) /\ Len(g) \in Nat
    BY NewlinePlaces, NewlineIn
  <2> QED BY <2>1
<1> DEFINE r == Rounds(m, g)
           total == Cardinality(Newlines(g))
<1>1. /\ r \in Nat /\ r <= total + 1
      /\ Members(Exhaust(m, g)) = {Read(g, i) : i \in SendingRounds(m, g)}
  BY ExhaustIs, ExhaustSends
<1>2. ASSUME NEW x \in Members(Exhaust(m, g)), x # <<NL>> PROVE x \in Lines(g, m)
  <2>1. PICK i \in SendingRounds(m, g) : x = Read(g, i)
    BY <1>1
  <2>2. i \in 1..(total + 1) /\ i <= r /\ i \in Nat /\ Read(g, i) # <<>>
    BY <1>1, <1>0 DEF SendingRounds
  <2>4. ASSUME NEW j \in Newlines(g) \cup {0}, NEW h \in Newlines(g),
               Spans(g, j, h), Rank(Newlines(g), h) = i,
               Read(g, i) = IF h = j + 1 THEN <<NL>> ELSE Part(g, j, h)
        PROVE  x \in Lines(g, m)
    <3>1. h # j + 1 /\ x = Part(g, j, h)
      BY <1>2, <2>1, <2>4
    <3>2. j + 1 < h
      BY <2>4, <3>1, SpansIn
    <3>3. i <= total
      <4>1. Rank(Newlines(g), h) \in 1..total
        BY <2>4, LineRead
      <4> QED BY <2>4, <4>1
    <3>4. i <= m
      BY <2>2, <3>3, <1>0 DEF Rounds
    <3> HIDE DEF total, r
    <3> QED BY <2>4, <3>1, <3>2, <3>4, LinesAre
  <2> QED BY <2>2, <2>4, RoundReads
<1>3. ASSUME NEW x \in Lines(g, m) PROVE x \in Members(Exhaust(m, g)) /\ x # <<NL>>
  <2>1. PICK j \in Newlines(g) \cup {0}, h \in Newlines(g) :
          /\ Spans(g, j, h) /\ j + 1 < h /\ Rank(Newlines(g), h) <= m
          /\ x = Part(g, j, h)
    BY LinesAre
  <2>2. PICK i \in 1..total : i = Rank(Newlines(g), h) /\ Read(g, i) = x
    <3>1. j \in Nat /\ h # j + 1
      BY <2>1, SpansIn
    <3> QED BY <2>1, <3>1, LineRead
  <2>3. i \in Nat /\ i <= r /\ i > 0
    BY <1>0, <2>1, <2>2 DEF Rounds
  <2>4. /\ j \in Nat /\ h \in Nat /\ h <= Len(g) /\ Len(g) \in Nat /\ j < h
        /\ \A y \in Newlines(g) : y <= j \/ h <= y
    BY <2>1, SpansIn DEF Spans
  <2>5. /\ x \in Seq(Byte) /\ Len(x) = (h - j) - 1
        /\ \A y \in 1..((h - j) - 1) : x[y] = g[j + y]
    <3>1. h <= Len(g) + 1
      BY <2>4
    <3> QED BY <2>1, <2>4, <3>1, PartOf
  <2>6. Len(x) >= 1 /\ x[1] = g[j + 1] /\ j + 1 \in 1..Len(g) /\ ~(j + 1 <= j) /\ ~(h <= j + 1)
    BY <2>1, <2>4, <2>5
  <2>7. g[j + 1] # NL
    BY <2>4, <2>6, NewlineIn
  <2>8. x # <<>> /\ x # <<NL>>
    BY <2>6, <2>7
  <2>9. i \in SendingRounds(m, g)
    BY <1>1, <2>2, <2>3, <2>8 DEF SendingRounds
  <2> QED BY <1>1, <2>2, <2>8, <2>9
<1> QED BY <1>2, <1>3

----------------------------------------------------------------------------
(* Writing lines.                                                          *)

\* What may be written as a line: a blank one, or bytes without a newline.
Writable(x) ==
    /\ x \in Seq(Byte) /\ Len(x) > 0
    /\ x = <<NL>> \/ \A i \in 1..Len(x) : x[i] # NL

\* The lines of a file can be written again.
LEMMA LinesWritable ==
    ASSUME NEW g \in Seq(Byte), NEW m \in Nat, NEW x \in Lines(g, m)
    PROVE  Writable(x)
<1>1. PICK j \in Newlines(g) \cup {0}, h \in Newlines(g) :
        /\ Spans(g, j, h) /\ j + 1 < h /\ Rank(Newlines(g), h) <= m
        /\ x = Part(g, j, h)
  BY LinesAre
<1>2. /\ j \in Nat /\ h \in Nat /\ h <= Len(g) /\ Len(g) \in Nat /\ j < h /\ h <= Len(g) + 1
      /\ \A y \in Newlines(g) : y <= j \/ h <= y
  BY <1>1, SpansIn DEF Spans
<1>3. /\ x \in Seq(Byte) /\ Len(x) = (h - j) - 1
      /\ \A y \in 1..((h - j) - 1) : x[y] = g[j + y]
  BY <1>1, <1>2, PartOf
<1>4. ASSUME NEW y \in 1..Len(x) PROVE x[y] # NL
  <2>1. x[y] = g[j + y] /\ j + y \in 1..Len(g) /\ ~(j + y <= j) /\ ~(h <= j + y)
    BY <1>2, <1>3
  <2> QED BY <1>2, <2>1, NewlineIn
<1>5. Len(x) > 0
  BY <1>1, <1>2, <1>3
<1> QED BY <1>3, <1>4, <1>5 DEF Writable

\* All lines of a file.
LEMMA AllLines ==
    ASSUME NEW g \in Seq(Byte), NEW x
    PROVE  x \in Lines(g, Len(g)) <=>
             \E j, h : Spans(g, j, h) /\ j + 1 < h /\ x = Part(g, j, h)
<1>1. Len(g) \in Nat
  BY NewlineIn
<1>2. ASSUME NEW j, NEW h, Spans(g, j, h)
      PROVE  /\ Rank(Newlines(g), h) <= Len(g)
             /\ j \in Newlines(g) \cup {0} /\ h \in Newlines(g)
  <2>1. Rank(Newlines(g), h) \in 1..Cardinality(Newlines(g))
    BY <1>2, LineRead
  <2>2. Cardinality(Newlines(g)) \in 0..Len(g)
    BY NewlinePlaces
  <2>3. Rank(Newlines(g), h) <= Len(g)
    BY <1>1, <2>1, <2>2
  <2> QED BY <1>2, <2>3 DEF Spans
<1> QED BY <1>1, <1>2, LinesAre

\* A file with one more line.
LineMore(new, old, x) ==
    /\ new \in Seq(Byte) /\ Len(new) = (Len(old) + Len(x)) + 1
    /\ \A i \in 1..Len(old) : new[i] = old[i]
    /\ \A i \in 1..Len(x) : new[Len(old) + i] = x[i]
    /\ new[(Len(old) + Len(x)) + 1] = NL

\* Writing at the end of a file adds the line to it.
LEMMA WritesLine ==
    ASSUME NEW old \in Seq(Byte), NEW x \in Seq(Byte)
    PROVE  LineMore(Overwritten(old, Len(old), Append(x, NL)), old, x)
<1> DEFINE s == Append(x, NL)
           L == Len(old)
           new == Overwritten(old, L, s)
<1>1. /\ L \in Nat /\ Len(x) \in Nat /\ s \in Seq(Byte) /\ Len(s) = Len(x) + 1
      /\ \A i \in 1..L : old[i] \in Byte
  <2>1. NL \in Byte
    BY FilesAreBytes
  <2>2. L \in Nat /\ Len(x) \in Nat /\ \A i \in 1..L : old[i] \in Byte
    BY LenProperties, ElementOfSeq
  <2>3. s \in Seq(Byte) /\ Len(s) = Len(x) + 1
    BY <2>1
  <2> QED BY <2>2, <2>3
<1>2. (\A i \in 1..Len(x) : s[i] = x[i]) /\ s[Len(x) + 1] = NL
  BY <1>1
<1>3. \A i \in 1..Len(s) : s[i] \in Byte
  BY <1>1, ElementOfSeq
<1>4. new = [i \in 1..((L + Len(x)) + 1) |->
               IF i > L /\ i <= L + Len(s) THEN s[i - L] ELSE IF i <= L THEN old[i] ELSE "0"]
  <2>1. (IF L + Len(s) > L THEN L + Len(s) ELSE L) = (L + Len(x)) + 1
    BY <1>1
  <2> QED BY <2>1 DEF Overwritten
<1> HIDE DEF s, new
<1>5. \A i \in 1..L : new[i] = old[i]
  BY <1>1, <1>4
<1>6. \A i \in 1..(Len(x) + 1) : new[L + i] = s[i]
  <2> SUFFICES ASSUME NEW i \in 1..(Len(x) + 1) PROVE new[L + i] = s[i]
    OBVIOUS
  <2>1. /\ L + i \in 1..((L + Len(x)) + 1) /\ L + i > L /\ L + i <= L + Len(s)
        /\ (L + i) - L = i
    BY <1>1
  <2> QED BY <1>4, <2>1
<1>7. ASSUME NEW i \in 1..((L + Len(x)) + 1) PROVE new[i] \in Byte
  <2>1. CASE i <= L
    BY <1>1, <1>5, <2>1
  <2>2. CASE i > L
    <3>1. i - L \in 1..(Len(x) + 1) /\ L + (i - L) = i
      BY <1>1, <2>2
    <3> QED BY <1>1, <1>3, <1>6, <3>1
  <2> QED BY <1>1, <2>1, <2>2
<1>8. new \in Seq(Byte) /\ Len(new) = (L + Len(x)) + 1
  <2>1. new \in [1..((L + Len(x)) + 1) -> Byte] /\ (L + Len(x)) + 1 \in Nat
    BY <1>1, <1>4, <1>7
  <2> QED BY <2>1
<1>9. new[(L + Len(x)) + 1] = NL
  <2>1. L + (Len(x) + 1) = (L + Len(x)) + 1 /\ Len(x) + 1 \in 1..(Len(x) + 1)
    BY <1>1
  <2> QED BY <1>2, <1>6, <2>1
<1>10. \A i \in 1..Len(x) : new[L + i] = x[i]
  <2>1. \A i \in 1..Len(x) : i \in 1..(Len(x) + 1)
    BY <1>1
  <2> QED BY <1>2, <1>6, <2>1
<1> QED BY <1>5, <1>8, <1>9, <1>10 DEF LineMore, new, s

\* The lines that were there are still there.
LEMMA OldLines ==
    ASSUME NEW old \in Seq(Byte), NEW x \in Seq(Byte), NEW new, LineMore(new, old, x),
           NEW j, NEW h, h <= Len(old)
    PROVE  /\ Spans(new, j, h) <=> Spans(old, j, h)
           /\ Spans(old, j, h) => Part(new, j, h) = Part(old, j, h)
<1>1. /\ new \in Seq(Byte) /\ Len(old) \in Nat /\ Len(x) \in Nat
      /\ Len(new) = (Len(old) + Len(x)) + 1 /\ Len(new) \in Nat
  BY LenProperties DEF LineMore
<1>2. ASSUME NEW m, m <= Len(old) PROVE m \in Newlines(new) <=> m \in Newlines(old)
  <2>1. m \in 1..Len(new) <=> m \in 1..Len(old)
    BY <1>1, <1>2
  <2>2. m \in 1..Len(old) => new[m] = old[m]
    BY DEF LineMore
  <2> QED BY <1>1, <2>1, <2>2, NewlineIn
<1>3. /\ \A m \in Newlines(old) : m \in Newlines(new) /\ m \in Nat /\ m <= Len(old)
      /\ \A m \in Newlines(new) : m \in Nat /\ (m \in Newlines(old) \/ Len(old) < m)
  <2>1. \A m \in Newlines(old) : m \in Nat /\ m <= Len(old)
    BY <1>1, NewlineIn
  <2>2. \A m \in Newlines(new) : m \in Nat
    BY <1>1, NewlineIn
  <2>3. \A m \in Newlines(new) : m <= Len(old) \/ Len(old) < m
    BY <1>1, <2>2
  <2> QED BY <1>2, <2>1, <2>2, <2>3
<1>4. Spans(new, j, h) => Spans(old, j, h)
  <2> SUFFICES ASSUME Spans(new, j, h) PROVE Spans(old, j, h)
    OBVIOUS
  <2>1. j \in Nat /\ h \in Nat /\ j < h /\ j <= Len(old)
    BY <1>1, SpansIn
  <2>2. h \in Newlines(old) /\ j \in Newlines(old) \cup {0}
    BY <1>2, <2>1 DEF Spans
  <2> QED BY <1>3, <2>1, <2>2 DEF Spans
<1>5. Spans(old, j, h) => Spans(new, j, h)
  <2> SUFFICES ASSUME Spans(old, j, h) PROVE Spans(new, j, h)
    OBVIOUS
  <2>1. j \in Nat /\ h \in Nat /\ j < h
    BY <1>1, SpansIn
  <2>2. ASSUME NEW m \in Newlines(new) PROVE m <= j \/ h <= m
    BY <1>1, <1>3, <2>1 DEF Spans
  <2> QED BY <1>3, <2>1, <2>2 DEF Spans
<1>6. Spans(old, j, h) => Part(new, j, h) = Part(old, j, h)
  <2> SUFFICES ASSUME Spans(old, j, h) PROVE Part(new, j, h) = Part(old, j, h)
    OBVIOUS
  <2>1. /\ j \in Nat /\ h \in Nat /\ j < h /\ h <= Len(old) + 1 /\ h <= Len(new) + 1
        /\ (h - j) - 1 \in Nat
    BY <1>1, SpansIn
  <2>2. /\ Part(old, j, h) \in Seq(Byte) /\ Len(Part(old, j, h)) = (h - j) - 1
        /\ \A y \in 1..((h - j) - 1) : Part(old, j, h)[y] = old[j + y]
    BY <2>1, PartOf
  <2>3. /\ Part(new, j, h) \in Seq(Byte) /\ Len(Part(new, j, h)) = (h - j) - 1
        /\ \A y \in 1..((h - j) - 1) : Part(new, j, h)[y] = new[j + y]
    BY <1>1, <2>1, PartOf
  <2>4. \A y \in 1..((h - j) - 1) : j + y \in 1..Len(old)
    BY <1>1, <2>1
  <2>5. \A y \in 1..((h - j) - 1) : Part(new, j, h)[y] = Part(old, j, h)[y]
    BY <2>2, <2>3, <2>4 DEF LineMore
  <2> QED BY <2>1, <2>2, <2>3, <2>5, PartsEqual
<1> QED BY <1>4, <1>5, <1>6

\* The only line that is new is the one written, unless it is blank.
LEMMA NewLine ==
    ASSUME NEW old \in Seq(Byte), Terminated(old), NEW x, Writable(x),
           NEW new, LineMore(new, old, x),
           NEW j, NEW h, Spans(new, j, h), j + 1 < h, Len(old) < h
    PROVE  j = Len(old) /\ h = Len(new) /\ x # <<NL>>
<1> DEFINE L == Len(old)
<1>1. /\ new \in Seq(Byte) /\ L \in Nat /\ Len(x) \in Nat /\ x \in Seq(Byte)
      /\ Len(new) = (L + Len(x)) + 1 /\ Len(new) \in Nat /\ Len(x) > 0
  BY LenProperties DEF LineMore, Writable
<1>2. /\ j \in Nat /\ h \in Nat /\ h <= Len(new) /\ new[h] = NL /\ j < h
      /\ \A m \in Newlines(new) : m <= j \/ h <= m
  BY <1>1, SpansIn DEF Spans
<1>3. L <= j
  <2>1. CASE L = 0
    BY <1>2, <2>1
  <2>2. CASE L # 0
    <3>1. L \in 1..L /\ old[L] = NL
      BY <1>1, <2>2 DEF Terminated
    <3>2. L \in 1..Len(new) /\ new[L] = NL
      <4>1. new[L] = old[L]
        BY <3>1 DEF LineMore
      <4> QED BY <1>1, <3>1, <4>1
    <3>3. L \in Newlines(new)
      BY <1>1, <3>2, NewlineIn
    <3> QED BY <1>1, <1>2, <3>3
  <2> QED BY <2>1, <2>2
<1>4. CASE x = <<NL>>
  <2>1. Len(x) = 1 /\ x[1] = NL
    BY <1>4
  <2>2. new[L + 1] = NL /\ L + 1 \in 1..Len(new)
    BY <1>1, <2>1 DEF LineMore
  <2>3. L + 1 \in Newlines(new)
    BY <1>1, <2>2, NewlineIn
  <2>4. L + 1 <= j \/ h <= L + 1
    BY <1>2, <2>3
  <2> QED BY <1>1, <1>2, <1>3, <2>1, <2>4
<1>5. CASE \A i \in 1..Len(x) : x[i] # NL
  <2>1. ASSUME NEW m \in Nat, L < m, m <= Len(new), m # Len(new) PROVE new[m] # NL
    <3>1. m - L \in 1..Len(x) /\ L + (m - L) = m
      BY <1>1, <2>1
    <3>2. new[L + (m - L)] = x[m - L]
      BY <3>1 DEF LineMore
    <3> QED BY <1>5, <3>1, <3>2
  <2>2. h = Len(new)
    BY <1>2, <2>1
  <2>3. j = L
    <3>1. SUFFICES ASSUME L < j PROVE FALSE
      BY <1>1, <1>2, <1>3
    <3>2. j \in Newlines(new)
      BY <1>1, <1>2, <3>1 DEF Spans
    <3>3. new[j] = NL
      BY <1>1, <3>2, NewlineIn
    <3>4. j <= Len(new) /\ j # Len(new)
      BY <1>1, <1>2
    <3> QED BY <1>2, <2>1, <3>1, <3>3, <3>4
  <2>4. x # <<NL>>
    <3>1. x[1] # NL
      BY <1>1, <1>5
    <3> QED BY <3>1
  <2> QED BY <2>2, <2>3, <2>4
<1> QED BY <1>4, <1>5 DEF Writable

\* The line written is there.
LEMMA LineThere ==
    ASSUME NEW old \in Seq(Byte), Terminated(old), NEW x, Writable(x), x # <<NL>>,
           NEW new, LineMore(new, old, x)
    PROVE  /\ Spans(new, Len(old), Len(new)) /\ Len(old) + 1 < Len(new)
           /\ x = Part(new, Len(old), Len(new))
<1> DEFINE L == Len(old)
           M == Len(new)
<1>1. /\ new \in Seq(Byte) /\ L \in Nat /\ Len(x) \in Nat /\ x \in Seq(Byte)
      /\ M = (L + Len(x)) + 1 /\ M \in Nat /\ Len(x) > 0
  BY LenProperties DEF LineMore, Writable
<1>2. M \in Newlines(new)
  <2>1. M \in 1..Len(new) /\ new[M] = NL
    BY <1>1 DEF LineMore
  <2> QED BY <1>1, <2>1, NewlineIn
<1>3. L \in Newlines(new) \cup {0}
  <2>1. CASE L = 0
    BY <2>1
  <2>2. CASE L # 0
    <3>1. L \in 1..L /\ old[L] = NL
      BY <1>1, <2>2 DEF Terminated
    <3>2. L \in 1..Len(new) /\ new[L] = NL
      <4>1. new[L] = old[L]
        BY <3>1 DEF LineMore
      <4> QED BY <1>1, <3>1, <4>1
    <3> QED BY <1>1, <3>2, NewlineIn
  <2> QED BY <2>1, <2>2
<1>4. ASSUME NEW m \in Newlines(new) PROVE m <= L \/ M <= m
  <2>1. m \in Nat /\ m <= M /\ new[m] = NL
    BY <1>1, NewlineIn
  <2>2. SUFFICES ASSUME L < m, m < M PROVE FALSE
    BY <1>1, <2>1
  <2>3. m - L \in 1..Len(x) /\ L + (m - L) = m
    BY <1>1, <2>1, <2>2
  <2>4. new[L + (m - L)] = x[m - L]
    BY <2>3 DEF LineMore
  <2> QED BY <2>1, <2>3, <2>4 DEF Writable
<1>5. L < M /\ L + 1 < M
  BY <1>1
<1>6. x = Part(new, L, M)
  <2>1. M <= Len(new) + 1 /\ (M - L) - 1 = Len(x)
    BY <1>1
  <2>2. /\ Part(new, L, M) \in Seq(Byte) /\ Len(Part(new, L, M)) = (M - L) - 1
        /\ \A y \in 1..((M - L) - 1) : Part(new, L, M)[y] = new[L + y]
    BY <1>1, <1>5, <2>1, PartOf
  <2>3. \A y \in 1..Len(x) : Part(new, L, M)[y] = x[y]
    BY <2>1, <2>2 DEF LineMore
  <2>4. Len(Part(new, L, M)) = Len(x)
    BY <2>1, <2>2
  <2> HIDE DEF L, M
  <2> QED BY <1>1, <2>2, <2>3, <2>4, PartsEqual
<1> QED BY <1>2, <1>3, <1>4, <1>5, <1>6 DEF Spans

\* Writing one more line adds it to the lines of a terminated file, which stays so.
LEMMA AppendLine ==
    ASSUME NEW old \in Seq(Byte), Terminated(old), NEW x, Writable(x),
           NEW new, new = Overwritten(old, Len(old), Append(x, NL))
    PROVE  /\ new \in Seq(Byte) /\ Terminated(new)
           /\ Len(new) = Len(old) + Len(Append(x, NL))
           /\ Lines(new, Len(new)) = Lines(old, Len(old)) \cup ({x} \ {<<NL>>})
<1>0. x \in Seq(Byte)
  BY DEF Writable
<1>1. LineMore(new, old, x)
  BY <1>0, WritesLine
<1>2. /\ new \in Seq(Byte) /\ Len(old) \in Nat /\ Len(x) \in Nat
      /\ Len(new) = (Len(old) + Len(x)) + 1 /\ Len(new) \in Nat
  BY <1>0, <1>1, LenProperties DEF LineMore
<1>3. Terminated(new)
  BY <1>1, <1>2 DEF LineMore, Terminated
<1>4. Len(new) = Len(old) + Len(Append(x, NL))
  <2>1. Len(Append(x, NL)) = Len(x) + 1
    BY <1>0
  <2> QED BY <1>2, <2>1
<1> HIDE DEF Terminated
<1>5. ASSUME NEW y \in Lines(new, Len(new))
      PROVE  y \in Lines(old, Len(old)) \cup ({x} \ {<<NL>>})
  <2>1. PICK j, h : Spans(new, j, h) /\ j + 1 < h /\ y = Part(new, j, h)
    BY <1>2, AllLines
  <2>2. CASE h <= Len(old)
    <3>1. Spans(old, j, h) /\ y = Part(old, j, h)
      BY <1>0, <1>1, <2>1, <2>2, OldLines
    <3> QED BY <2>1, <3>1, AllLines
  <2>3. CASE Len(old) < h
    <3>1. j = Len(old) /\ h = Len(new) /\ x # <<NL>>
      BY <1>1, <2>1, <2>3, NewLine
    <3>2. x = Part(new, Len(old), Len(new))
      BY <1>1, <3>1, LineThere
    <3> QED BY <2>1, <3>1, <3>2
  <2>4. h <= Len(old) \/ Len(old) < h
    <3>1. h \in Nat
      BY <1>2, <2>1, SpansIn
    <3> QED BY <1>2, <3>1
  <2> QED BY <2>2, <2>3, <2>4
<1>6. ASSUME NEW y \in Lines(old, Len(old)) PROVE y \in Lines(new, Len(new))
  <2>1. PICK j, h : Spans(old, j, h) /\ j + 1 < h /\ y = Part(old, j, h)
    BY AllLines
  <2>2. h <= Len(old)
    BY <1>2, <2>1, SpansIn
  <2>3. Spans(new, j, h) /\ y = Part(new, j, h)
    BY <1>0, <1>1, <2>1, <2>2, OldLines
  <2> QED BY <1>2, <2>1, <2>3, AllLines
<1>7. ASSUME x # <<NL>> PROVE x \in Lines(new, Len(new))
  BY <1>1, <1>2, <1>7, LineThere, AllLines
<1> QED BY <1>2, <1>3, <1>4, <1>5, <1>6, <1>7

----------------------------------------------------------------------------
(* The receiver, its handlers and the senders.                             *)

\* What is read of a file is bytes.
LEMMA ReadsBytes ==
    ASSUME NEW g \in Seq(Byte), NEW s \in Reads(g)
    PROVE  s \in Seq(Byte)
<1>1. CASE s = g
  BY <1>1
<1>2. CASE s # g
  <2>0. PICK r \in 0..(Len(g) - 1) : s = SubSeq(g, 1, r)
    BY <1>2, Zenon DEF Reads
  <2>1. r \in Nat /\ r < Len(g) /\ s = SubSeq(g, 1, r)
    BY <2>0
  <2>2. \A j \in 1..r : g[j] \in Byte
    BY <2>1
  <2> QED BY <2>1, <2>2
<1> QED BY <1>1, <1>2

AppTypes ==
    /\ n \in Nat /\ file \in Seq(Byte) /\ exit \in {-1, 0, 1}
    /\ DOMAIN hpc = Senders /\ DOMAIN f = Senders /\ DOMAIN ids = Senders
    /\ DOMAIN got = Senders /\ DOMAIN lost = Senders /\ DOMAIN sgot = Senders
    /\ DOMAIN result = Senders /\ DOMAIN off = Senders /\ DOMAIN k = Senders
    /\ DOMAIN spc = Senders /\ DOMAIN sf = Senders /\ DOMAIN sn = Senders
    /\ DOMAIN sids = Senders
    /\ \A c \in Senders : /\ sf[c] \in Seq(Byte) /\ sn[c] \in Nat
                          /\ hpc[c] \in {"none", "intersect", "create", "write", "done"}

\* The wait group counts the handlers at work, and main returns when there is none.
ActiveHandlers == {c \in Senders : hpc[c] \in {"intersect", "create", "write"}}
WgCounts == wg = Cardinality(ActiveHandlers) /\ (exit = 0 => ActiveHandlers = {})

\* What the two channels of an exchange deliver.
Dialled(c) == spc[c] \in {"send", "failed", "done"}
ChannelsOK(c) ==
    /\ hpc[c] # "none" => /\ rpc # "count" /\ Dialled(c)
                          /\ got[c] \in Seq(Byte) /\ got[c] \in Reads(f[c])
                          /\ ids[c] = Exhaust(n, got[c])
    /\ Dialled(c) => /\ sgot[c] \in Seq(Byte) /\ sgot[c] \in Reads(sf[c])
                     /\ sids[c] = Exhaust(sn[c], sgot[c])

\* What an exchange returned.
CommonIds(c) == Members(ids[c]) \cap Members(sids[c])
AnswerOK(c) ==
    hpc[c] \in {"create", "write", "done"} =>
        /\ result[c] \in Seq(Members(ids[c]))
        /\ ~lost[c] => CommonIds(c) \subseteq Members(result[c])
        /\ proto # "bpsi" => Members(result[c]) \subseteq CommonIds(c)

\* How far a handler has written.
WriteProgress(c) ==
    /\ k[c] \in Nat \ {0}
    /\ hpc[c] \in {"none", "intersect", "create"} => off[c] = 0 /\ k[c] = 1
    /\ hpc[c] \in {"write", "done"} => k[c] <= Len(result[c]) + 1
    /\ hpc[c] = "done" => k[c] = Len(result[c]) + 1

\* Who writes to the out file: unless it is mixed, only the one that created it last.
OutOwner ==
    /\ last = "nobody" => \A c \in Senders : hpc[c] \notin {"write", "done"}
    /\ last # "nobody" =>
          /\ last \in Senders /\ hpc[last] \in {"write", "done"}
          /\ ~mixed => \A d \in Senders : hpc[d] = "write" => d = last

\* The lines of the out file are those its owner has written.
OutWritten(c) ==
    last = c /\ ~mixed /\ Terminated(got[c]) =>
        /\ out \in Seq(Byte) /\ Terminated(out) /\ off[c] = Len(out)
        /\ Lines(out, Len(out)) = {result[c][i] : i \in 1..(k[c] - 1)} \ {<<NL>>}

PerHandler(c) == ChannelsOK(c) /\ AnswerOK(c) /\ WriteProgress(c) /\ OutWritten(c)
AppInv == AppTypes /\ WgCounts /\ OutOwner /\ \A c \in Senders : PerHandler(c)

LEMMA InitApp == Init => AppInv
<1> SUFFICES ASSUME Init PROVE AppInv
  OBVIOUS
<1>1. AppTypes
  <2>1. file \in Seq(Byte) /\ \A c \in Senders : sf[c] \in Seq(Byte)
    BY FilesAreBytes, AppsAssumption DEF Init
  <2>2. DOMAIN sf = Senders /\ DOMAIN spc = Senders
    BY AppsAssumption DEF Init
  <2> QED BY <2>1, <2>2 DEF Init, AppTypes, Each
<1>2. WgCounts
  <2>1. ActiveHandlers = {}
    BY DEF Init, ActiveHandlers, Each
  <2> QED BY <2>1, FS_EmptySet DEF Init, WgCounts
<1>3. OutOwner
  BY DEF Init, OutOwner, Each
<1>4. \A c \in Senders : PerHandler(c)
  <2> SUFFICES ASSUME NEW c \in Senders PROVE PerHandler(c)
    OBVIOUS
  <2>1. hpc[c] = "none" /\ spc[c] \in {"count", "gone"} /\ off[c] = 0 /\ k[c] = 1 /\ last # c
    BY AppsAssumption DEF Init, Each
  <2> QED BY <2>1 DEF PerHandler, ChannelsOK, Dialled, AnswerOK, WriteProgress, OutWritten
<1> QED BY <1>1, <1>2, <1>3, <1>4 DEF AppInv

LEMMA CountType ==
    ASSUME NEW g \in Seq(Byte)
    PROVE  Count(g) \in Nat
<1>1. Cardinality(Newlines(g)) \in Nat
  <2>1. Cardinality(Newlines(g)) \in 0..Len(g) /\ Len(g) \in Nat
    BY NewlinePlaces, NewlineIn
  <2> QED BY <2>1
<1> QED BY <1>1 DEF Count

LEMMA CountStep == ASSUME AppInv, CountLines PROVE AppInv'
<1>1. \A c \in Senders : hpc[c] = "none"
  BY DEF AppInv, PerHandler, ChannelsOK, CountLines
<1>2. AppTypes'
  BY CountType DEF AppInv, AppTypes, CountLines, flags, disk, input, writing, outFile,
                   senders
<1>3. WgCounts' /\ OutOwner'
  BY DEF AppInv, WgCounts, ActiveHandlers, OutOwner, CountLines, flags, disk, input,
         writing, outFile
<1>4. ASSUME NEW c \in Senders PROVE PerHandler(c)'
  BY <1>1 DEF AppInv, PerHandler, ChannelsOK, Dialled, AnswerOK, CommonIds, WriteProgress,
              OutWritten, CountLines, flags, disk, input, writing, outFile, senders
<1> QED BY <1>2, <1>3, <1>4 DEF AppInv

\* What a step leaves to a handler that it does not touch.
LEMMA SameHandler ==
    ASSUME NEW c \in Senders, PerHandler(c), UNCHANGED <<proto, n, out, last, mixed>>,
           rpc' = rpc \/ rpc' # "count",
           hpc'[c] = hpc[c], f'[c] = f[c], got'[c] = got[c], ids'[c] = ids[c],
           result'[c] = result[c], lost'[c] = lost[c],
           off'[c] = off[c], k'[c] = k[c], sf'[c] = sf[c], sn'[c] = sn[c],
           sgot'[c] = sgot[c], sids'[c] = sids[c], spc'[c] = spc[c]
    PROVE  PerHandler(c)'
<1>1. ChannelsOK(c)'
  BY DEF PerHandler, ChannelsOK, Dialled
<1>2. AnswerOK(c)'
  BY DEF PerHandler, AnswerOK, CommonIds
<1>3. WriteProgress(c)'
  BY DEF PerHandler, WriteProgress
<1>4. OutWritten(c)'
  BY DEF PerHandler, OutWritten
<1> QED BY <1>1, <1>2, <1>3, <1>4 DEF PerHandler

\* The steps that leave handlers, channels and files alone.
LEMMA QuietStep ==
    ASSUME AppInv,
           UNCHANGED <<proto, n, hpc, f, got, ids, result, lost, off, k, out, last, mixed>>,
           UNCHANGED <<spc, sf, sn, sgot, sids>>, rpc' = rpc, file' \in Seq(Byte),
           exit' \in {-1, 0, 1},
           wg' = wg, exit' = 0 => ActiveHandlers = {}
    PROVE  AppInv'
<1>1. AppTypes'
  BY DEF AppInv, AppTypes
<1>2. WgCounts' /\ OutOwner'
  BY DEF AppInv, WgCounts, ActiveHandlers, OutOwner
<1>3. ASSUME NEW c \in Senders PROVE PerHandler(c)'
  BY SameHandler DEF AppInv
<1> QED BY <1>1, <1>2, <1>3 DEF AppInv

LEMMA MainStep ==
    ASSUME AppInv,
           \/ Wait \/ ExitOnErr \/ ReplaceFile \/ UNCHANGED vars
           \/ \E c \in Senders : IntersectFails(c)
    PROVE  AppInv'
<1>1. file \in Seq(Byte) /\ exit \in {-1, 0, 1} /\ (exit = 0 => ActiveHandlers = {})
  BY DEF AppInv, AppTypes, WgCounts
<1>2. CASE Wait
  <2>1. IsFiniteSet(ActiveHandlers)
    <3>1. ActiveHandlers \subseteq Senders
      BY DEF ActiveHandlers
    <3> QED BY <3>1, FS_Subset, AppsAssumption
  <2>2. ActiveHandlers = {}
    BY <1>2, <2>1, FS_EmptySet DEF AppInv, WgCounts, Wait
  <2> QED BY <1>1, <1>2, <2>2, QuietStep
        DEF Wait, flags, disk, main, input, writing, outFile, senders
<1>3. CASE ExitOnErr
  BY <1>1, <1>3, QuietStep
     DEF ExitOnErr, flags, disk, main, input, writing, outFile, senders
<1>4. CASE ReplaceFile
  <2>1. file' \in Seq(Byte)
    BY <1>4, FilesAreBytes, AppsAssumption DEF ReplaceFile
  <2> QED BY <1>1, <1>4, <2>1, QuietStep
        DEF ReplaceFile, flags, main, input, writing, outFile, senders
<1>5. CASE \E c \in Senders : IntersectFails(c)
  BY <1>1, <1>5, QuietStep
     DEF IntersectFails, flags, disk, main, input, writing, outFile, senders
<1>6. CASE UNCHANGED vars
  BY <1>1, <1>6, QuietStep
     DEF vars, flags, disk, main, input, writing, outFile, senders
<1> QED BY <1>2, <1>3, <1>4, <1>5, <1>6

\* The wait group when a handler starts, and when one returns.
LEMMA ActiveMore ==
    ASSUME AppTypes, NEW c \in Senders, hpc[c] = "none",
           hpc' = [hpc EXCEPT ![c] = "intersect"]
    PROVE  Cardinality(ActiveHandlers') = Cardinality(ActiveHandlers) + 1
<1>1. ActiveHandlers' = ActiveHandlers \cup {c} /\ c \notin ActiveHandlers
  BY DEF AppTypes, ActiveHandlers
<1>2. IsFiniteSet(ActiveHandlers)
  <2>1. ActiveHandlers \subseteq Senders
    BY DEF ActiveHandlers
  <2> QED BY <2>1, FS_Subset, AppsAssumption
<1> QED BY <1>1, <1>2, FS_AddElement

LEMMA ActiveLess ==
    ASSUME AppTypes, NEW c \in Senders, hpc[c] = "write",
           hpc' = [hpc EXCEPT ![c] = "done"]
    PROVE  Cardinality(ActiveHandlers') = Cardinality(ActiveHandlers) - 1
<1>1. ActiveHandlers' = ActiveHandlers \ {c} /\ c \in ActiveHandlers
  BY DEF AppTypes, ActiveHandlers
<1>2. IsFiniteSet(ActiveHandlers)
  <2>1. ActiveHandlers \subseteq Senders
    BY DEF ActiveHandlers
  <2> QED BY <2>1, FS_Subset, AppsAssumption
<1> QED BY <1>1, <1>2, FS_RemoveElement

LEMMA AcceptStep == ASSUME AppInv, NEW c \in Senders, Accept(c) PROVE AppInv'
<1>0. AppTypes
  BY DEF AppInv
<1>1. CASE proto = "unsupported"
  BY <1>1, <1>0, QuietStep
     DEF Accept, Accepted, flags, disk, input, writing, outFile, senders, AppTypes
<1>2. CASE proto # "unsupported"
  <2>1. /\ exit = -1 /\ rpc = "accept" /\ hpc[c] = "none" /\ Dialled(c)
        /\ f' = [f EXCEPT ![c] = file]
        /\ \E g \in Reads(file) : /\ got' = [got EXCEPT ![c] = g]
                                  /\ ids' = [ids EXCEPT ![c] = Exhaust(n, g)]
        /\ wg' = wg + 1 /\ hpc' = [hpc EXCEPT ![c] = "intersect"] /\ exit' = exit
        /\ rpc' # "count"
        /\ UNCHANGED <<proto, file, n, result, lost, off, k, out, last, mixed>>
        /\ UNCHANGED <<spc, sf, sn, sgot, sids>>
    BY <1>2 DEF Accept, Accepted, Running, Dialled, flags, disk, writing, outFile, senders
  <2>g. PICK g \in Reads(file) : /\ got' = [got EXCEPT ![c] = g]
                                 /\ ids' = [ids EXCEPT ![c] = Exhaust(n, g)]
    BY <2>1
  <2>r. g \in Seq(Byte)
    BY <1>0, ReadsBytes DEF AppTypes
  <2>2. AppTypes'
    BY <1>0, <2>1, <2>g DEF AppTypes
  <2>3. WgCounts'
    <3>1. Cardinality(ActiveHandlers') = Cardinality(ActiveHandlers) + 1
      BY <1>0, <2>1, ActiveMore
    <3>2. wg = Cardinality(ActiveHandlers) /\ ~(exit' = 0)
      BY <2>1 DEF AppInv, WgCounts
    <3> QED BY <2>1, <3>1, <3>2 DEF WgCounts
  <2>4. OutOwner'
    BY <1>0, <2>1 DEF AppInv, OutOwner, AppTypes
  <2>5. last # c
    BY <2>1, AppsAssumption DEF AppInv, OutOwner
  <2>6. PerHandler(c)'
    <3>0. PerHandler(c)
      BY DEF AppInv
    <3>1. /\ hpc'[c] = "intersect" /\ f'[c] = file /\ got'[c] = g /\ ids'[c] = Exhaust(n, g)
      BY <1>0, <2>1, <2>g DEF AppTypes
    <3>2. ChannelsOK(c)'
      <4>1. Reads(f[c])' = Reads(file) /\ Reads(sf[c])' = Reads(sf[c])
        BY <2>1, <3>1 DEF Reads
      <4>2. Dialled(c)'
        BY <2>1 DEF Dialled
      <4> QED BY <2>1, <2>g, <2>r, <3>0, <3>1, <4>1, <4>2 DEF PerHandler, ChannelsOK
    <3>3. AnswerOK(c)' /\ WriteProgress(c)' /\ OutWritten(c)'
      BY <2>1, <2>5, <3>0, <3>1 DEF PerHandler, AnswerOK, WriteProgress, OutWritten
    <3> QED BY <3>2, <3>3 DEF PerHandler
  <2>7. ASSUME NEW d \in Senders, d # c PROVE PerHandler(d)'
    <3>1. PerHandler(d)
      BY DEF AppInv
    <3>2. hpc'[d] = hpc[d] /\ f'[d] = f[d] /\ got'[d] = got[d] /\ ids'[d] = ids[d]
      BY <1>0, <2>1, <2>g, <2>7 DEF AppTypes
    <3> QED BY <2>1, <3>1, <3>2, SameHandler
  <2> QED BY <2>2, <2>3, <2>4, <2>6, <2>7 DEF AppInv
<1> QED BY <1>1, <1>2

\* The identifiers found, in the order of the file.
LEMMA SelectedFound ==
    ASSUME NEW s, FinitePlaces(DOMAIN s), NEW found \in SUBSET Members(s)
    PROVE  /\ Selected(s, {j \in DOMAIN s : s[j] \in found}) \in Seq(Members(s))
           /\ Members(Selected(s, {j \in DOMAIN s : s[j] \in found})) = found
<1> DEFINE S == {j \in DOMAIN s : s[j] \in found}
<1>1. FinitePlaces(S)
  <2>1. S \subseteq DOMAIN s
    OBVIOUS
  <2> HIDE DEF S
  <2> QED BY <2>1, FS_Subset DEF FinitePlaces
<1>2. {s[j] : j \in S} = found
  BY DEF Members
<1> HIDE DEF S
<1>3. Selected(s, S) \in Seq({s[j] : j \in S}) /\ Members(Selected(s, S)) = {s[j] : j \in S}
  BY <1>1, SelectedHolds
<1>4. Selected(s, S) \in Seq(found) /\ Members(Selected(s, S)) = found
  BY <1>2, <1>3
<1>5. Selected(s, S) \in Seq(Members(s))
  BY <1>4, SeqMonotonic
<1> QED BY <1>4, <1>5 DEF S

LEMMA ReturnsStep == ASSUME AppInv, NEW c \in Senders, IntersectReturns(c) PROVE AppInv'
<1>0. AppTypes /\ PerHandler(c)
  BY DEF AppInv
<1>1. PICK found \in SUBSET Members(ids[c]) :
        /\ lost' = lost \/ lost' = [lost EXCEPT ![c] = TRUE]
        /\ ~lost'[c] => CommonIds(c) \subseteq found
        /\ proto # "bpsi" => found \subseteq CommonIds(c)
        /\ result' = [result EXCEPT ![c] =
                        Selected(ids[c], {j \in DOMAIN ids[c] : ids[c][j] \in found})]
  <2>1. PICK found \in SUBSET Members(ids[c]) :
          /\ \/ /\ IF proto = "bpsi" THEN CommonIds(c) \subseteq found
                   ELSE found = CommonIds(c)
                /\ UNCHANGED lost
             \/ /\ proto = "npsi" /\ found \subseteq CommonIds(c)
                /\ lost' = [lost EXCEPT ![c] = TRUE]
          /\ result' = [result EXCEPT ![c] =
                          Selected(ids[c], {j \in DOMAIN ids[c] : ids[c][j] \in found})]
    BY DEF IntersectReturns, CommonIds
  <2>2. lost' = [lost EXCEPT ![c] = TRUE] => lost'[c] = TRUE
    BY <1>0 DEF AppTypes
  <2>3. /\ ~lost'[c] => CommonIds(c) \subseteq found
        /\ proto # "bpsi" => found \subseteq CommonIds(c)
    BY <2>1, <2>2
  <2> QED BY <2>1, <2>3
<1>2. /\ hpc[c] = "intersect" /\ hpc' = [hpc EXCEPT ![c] = "create"]
      /\ UNCHANGED <<proto, file, rpc, n, wg, exit, f, got, ids, off, k>>
      /\ UNCHANGED <<out, last, mixed>>
      /\ UNCHANGED <<spc, sf, sn, sgot, sids>>
  BY DEF IntersectReturns, flags, disk, main, input, outFile, senders
<1>3. AppTypes'
  BY <1>0, <1>1, <1>2 DEF AppTypes
<1>4. WgCounts'
  <2>1. ActiveHandlers' = ActiveHandlers
    BY <1>0, <1>2 DEF ActiveHandlers, AppTypes
  <2> QED BY <1>2, <2>1 DEF AppInv, WgCounts
<1>5. OutOwner'
  BY <1>0, <1>2 DEF AppInv, OutOwner, AppTypes
<1>6. last # c
  BY <1>2, AppsAssumption DEF AppInv, OutOwner
<1> DEFINE r == Selected(ids[c], {j \in DOMAIN ids[c] : ids[c][j] \in found})
<1>8. r \in Seq(Members(ids[c])) /\ Members(r) = found
  <2>1. FinitePlaces(DOMAIN ids[c])
    BY <1>0, <1>2, ExhaustIs DEF AppTypes, PerHandler, ChannelsOK
  <2> QED BY <2>1, SelectedFound
<1>9. hpc'[c] = "create" /\ result'[c] = r
  BY <1>0, <1>1, <1>2 DEF AppTypes
<1> HIDE DEF r
<1>10. PerHandler(c)'
  <2>1. ChannelsOK(c)'
    BY <1>0, <1>2, <1>9 DEF PerHandler, ChannelsOK, Dialled
  <2>2. AnswerOK(c)'
    <3>1. CommonIds(c)' = CommonIds(c)
      BY <1>2 DEF CommonIds
    <3> QED BY <1>1, <1>2, <1>8, <1>9, <3>1 DEF AnswerOK
  <2>3. WriteProgress(c)' /\ OutWritten(c)'
    BY <1>0, <1>2, <1>6, <1>9 DEF PerHandler, WriteProgress, OutWritten
  <2> QED BY <2>1, <2>2, <2>3 DEF PerHandler
<1>11. ASSUME NEW d \in Senders, d # c PROVE PerHandler(d)'
  <2>1. hpc'[d] = hpc[d] /\ result'[d] = result[d] /\ lost'[d] = lost[d]
    BY <1>0, <1>1, <1>2, <1>11 DEF AppTypes
  <2> QED BY <1>2, <2>1, SameHandler DEF AppInv
<1> QED BY <1>3, <1>4, <1>5, <1>10, <1>11 DEF AppInv

\* An empty file has no lines.
LEMMA NoLines == <<>> \in Seq(Byte) /\ Lines(<<>>, Len(<<>>)) = {}
<1>1. <<>> \in Seq(Byte) /\ Len(<<>>) = 0
  BY EmptySeq
<1>2. Newlines(<<>>) = {}
  <2>1. \A m : ~(m \in 1..0)
    OBVIOUS
  <2> QED BY <1>1, <2>1, NewlineIn
<1>3. \A j, h : ~Spans(<<>>, j, h)
  BY <1>2 DEF Spans
<1> QED BY <1>1, <1>3, AllLines

LEMMA CreateStep == ASSUME AppInv, NEW c \in Senders, Create(c) PROVE AppInv'
<1>0. AppTypes /\ PerHandler(c)
  BY DEF AppInv
<1>1. /\ hpc[c] = "create" /\ hpc' = [hpc EXCEPT ![c] = "write"]
      /\ out' = <<>> /\ last' = c /\ mixed' = \E d \in Senders : hpc[d] = "write"
      /\ UNCHANGED <<proto, file, rpc, n, wg, exit, f, got, ids, result, lost, off, k>>
      /\ UNCHANGED <<spc, sf, sn, sgot, sids>>
  BY DEF Create, flags, disk, main, input, writing, senders
<1>2. AppTypes'
  BY <1>0, <1>1 DEF AppTypes
<1>3. WgCounts'
  <2>1. ActiveHandlers' = ActiveHandlers
    BY <1>0, <1>1 DEF ActiveHandlers, AppTypes
  <2> QED BY <1>1, <2>1 DEF AppInv, WgCounts
<1>4. hpc'[c] = "write" /\ \A d \in Senders : d # c => hpc'[d] = hpc[d]
  BY <1>0, <1>1 DEF AppTypes
<1>5. OutOwner'
  <2>1. ~(mixed') => \A d \in Senders : hpc[d] # "write"
    BY <1>1
  <2>2. c # "nobody"
    BY AppsAssumption
  <2> QED BY <1>1, <1>4, <2>1, <2>2 DEF OutOwner
<1>6. PerHandler(c)'
  <2>1. ChannelsOK(c)'
    BY <1>0, <1>1, <1>4 DEF PerHandler, ChannelsOK, Dialled
  <2>2. AnswerOK(c)'
    BY <1>0, <1>1, <1>4 DEF PerHandler, AnswerOK, CommonIds
  <2>3. WriteProgress(c)'
    <3>1. Len(result[c]) \in Nat
      BY <1>0, <1>1, LenProperties DEF PerHandler, AnswerOK
    <3> QED BY <1>0, <1>1, <1>4, <3>1 DEF PerHandler, WriteProgress
  <2>4. OutWritten(c)'
    <3>1. off[c] = 0 /\ k[c] = 1
      BY <1>0, <1>1 DEF PerHandler, WriteProgress
    <3>2. {result[c][i] : i \in 1..(k[c] - 1)} = {}
      BY <3>1
    <3>3. Terminated(<<>>) /\ Len(<<>>) = 0
      BY DEF Terminated
    <3> QED BY <1>1, <3>1, <3>2, <3>3, NoLines DEF OutWritten
  <2> QED BY <2>1, <2>2, <2>3, <2>4 DEF PerHandler
<1>7. ASSUME NEW d \in Senders, d # c PROVE PerHandler(d)'
  <2>0. PerHandler(d)
    BY DEF AppInv
  <2>1. ChannelsOK(d)'
    BY <1>1, <1>4, <1>7, <2>0 DEF PerHandler, ChannelsOK, Dialled
  <2>2. AnswerOK(d)'
    BY <1>1, <1>4, <1>7, <2>0 DEF PerHandler, AnswerOK, CommonIds
  <2>3. WriteProgress(d)'
    BY <1>1, <1>4, <1>7, <2>0 DEF PerHandler, WriteProgress
  <2>4. OutWritten(d)'
    BY <1>1, <1>7 DEF OutWritten
  <2> QED BY <2>1, <2>2, <2>3, <2>4 DEF PerHandler
<1> QED BY <1>2, <1>3, <1>5, <1>6, <1>7 DEF AppInv

\* One more entry of a sequence.
LEMMA OneMore ==
    ASSUME NEW s, NEW i \in Nat \ {0}
    PROVE  {s[j] : j \in 1..i} = {s[j] : j \in 1..(i - 1)} \cup {s[i]}
<1>1. \A j : j \in 1..i <=> (j \in 1..(i - 1) \/ j = i)
  OBVIOUS
<1> QED BY <1>1

LEMMA WriteStep == ASSUME AppInv, NEW c \in Senders, WriteId(c) PROVE AppInv'
<1>0. AppTypes /\ PerHandler(c) /\ OutOwner
  BY DEF AppInv
<1> DEFINE x == result[c][k[c]]
<1>1. /\ hpc[c] = "write" /\ k[c] <= Len(result[c])
      /\ out' = Overwritten(out, off[c], Append(x, NL))
      /\ off' = [off EXCEPT ![c] = off[c] + Len(Append(x, NL))]
      /\ k' = [k EXCEPT ![c] = k[c] + 1]
      /\ UNCHANGED <<proto, file, rpc, n, wg, exit, hpc, f, got, ids, result, lost, last, mixed>>
      /\ UNCHANGED <<spc, sf, sn, sgot, sids>>
  BY DEF WriteId, flags, disk, main, input, senders
<1>2. AppTypes' /\ WgCounts' /\ OutOwner'
  BY <1>0, <1>1 DEF AppInv, AppTypes, WgCounts, ActiveHandlers, OutOwner
<1>3. /\ k'[c] = k[c] + 1 /\ off'[c] = off[c] + Len(Append(x, NL))
      /\ \A d \in Senders : d # c => k'[d] = k[d] /\ off'[d] = off[d]
  BY <1>0, <1>1 DEF AppTypes
<1>4. /\ result[c] \in Seq(Members(ids[c])) /\ Len(result[c]) \in Nat /\ k[c] \in Nat \ {0}
      /\ k[c] \in 1..Len(result[c])
  <2>1. result[c] \in Seq(Members(ids[c])) /\ k[c] \in Nat \ {0}
    BY <1>0, <1>1 DEF PerHandler, AnswerOK, WriteProgress
  <2>2. Len(result[c]) \in Nat
    BY <2>1, LenProperties
  <2> QED BY <1>1, <2>1, <2>2
<1>5. x \in Members(ids[c])
  BY <1>4, ElementOfSeq
<1> HIDE DEF x
<1>6. PerHandler(c)'
  <2>1. ChannelsOK(c)'
    BY <1>0, <1>1 DEF PerHandler, ChannelsOK, Dialled
  <2>2. AnswerOK(c)'
    BY <1>0, <1>1 DEF PerHandler, AnswerOK, CommonIds
  <2>3. WriteProgress(c)'
    BY <1>0, <1>1, <1>3, <1>4 DEF PerHandler, WriteProgress
  <2>4. ASSUME last = c, ~mixed, Terminated(got[c])
        PROVE  /\ out' \in Seq(Byte) /\ Terminated(out') /\ off'[c] = Len(out')
               /\ Lines(out', Len(out')) = {result[c][i] : i \in 1..k[c]} \ {<<NL>>}
    <3>1. /\ out \in Seq(Byte) /\ Terminated(out) /\ off[c] = Len(out)
          /\ Lines(out, Len(out)) = {result[c][i] : i \in 1..(k[c] - 1)} \ {<<NL>>}
      BY <1>0, <2>4 DEF PerHandler, OutWritten
    <3>2. Writable(x)
      <4>1. got[c] \in Seq(Byte) /\ ids[c] = Exhaust(n, got[c]) /\ n \in Nat
        BY <1>0, <1>1 DEF PerHandler, ChannelsOK, AppTypes
      <4>2. CASE x = <<NL>>
        <5>1. <<NL>> \in Seq(Byte) /\ Len(<<NL>>) > 0
          BY FilesAreBytes
        <5> QED BY <4>2, <5>1 DEF Writable
      <4>3. CASE x # <<NL>>
        <5>1. x \in Lines(got[c], n)
          BY <1>5, <2>4, <4>1, <4>3, ExhaustLines
        <5> QED BY <4>1, <5>1, LinesWritable
      <4> QED BY <4>2, <4>3
    <3>3. /\ out' \in Seq(Byte) /\ Terminated(out')
          /\ Len(out') = Len(out) + Len(Append(x, NL))
          /\ Lines(out', Len(out')) = Lines(out, Len(out)) \cup ({x} \ {<<NL>>})
      BY <1>1, <3>1, <3>2, AppendLine
    <3>4. {result[c][i] : i \in 1..k[c]} = {result[c][i] : i \in 1..(k[c] - 1)} \cup {x}
      BY <1>4, OneMore DEF x
    <3> QED BY <1>3, <3>1, <3>3, <3>4
  <2>5. OutWritten(c)'
    <3>1. k'[c] - 1 = k[c]
      BY <1>3, <1>4
    <3> QED BY <1>1, <2>4, <3>1 DEF OutWritten
  <2> QED BY <2>1, <2>2, <2>3, <2>5 DEF PerHandler
<1>7. ASSUME NEW d \in Senders, d # c PROVE PerHandler(d)'
  <2>0. PerHandler(d)
    BY DEF AppInv
  <2>1. ChannelsOK(d)'
    BY <1>1, <2>0 DEF PerHandler, ChannelsOK, Dialled
  <2>2. AnswerOK(d)'
    BY <1>1, <2>0 DEF PerHandler, AnswerOK, CommonIds
  <2>3. WriteProgress(d)'
    BY <1>1, <1>3, <1>7, <2>0 DEF PerHandler, WriteProgress
  <2>4. OutWritten(d)'
    <3>1. ~(last = d /\ ~mixed)
      BY <1>0, <1>1, <1>7, AppsAssumption DEF OutOwner
    <3> QED BY <1>1, <3>1 DEF OutWritten
  <2> QED BY <2>1, <2>2, <2>3, <2>4 DEF PerHandler
<1> QED BY <1>2, <1>6, <1>7 DEF AppInv

LEMMA HandledStep == ASSUME AppInv, NEW c \in Senders, Handled(c) PROVE AppInv'
<1>0. AppTypes /\ PerHandler(c) /\ OutOwner
  BY DEF AppInv
<1>1. /\ exit = -1 /\ hpc[c] = "write" /\ k[c] > Len(result[c])
      /\ hpc' = [hpc EXCEPT ![c] = "done"] /\ wg' = wg - 1
      /\ UNCHANGED <<proto, file, rpc, n, exit, f, got, ids, result, lost, off, k>>
      /\ UNCHANGED <<out, last, mixed>>
      /\ UNCHANGED <<spc, sf, sn, sgot, sids>>
  BY DEF Handled, Running, flags, disk, main, input, writing, outFile, senders
<1>2. AppTypes'
  BY <1>0, <1>1 DEF AppTypes
<1>3. WgCounts'
  <2>1. Cardinality(ActiveHandlers') = Cardinality(ActiveHandlers) - 1
    BY <1>0, <1>1, ActiveLess
  <2>2. wg = Cardinality(ActiveHandlers) /\ ~(exit' = 0)
    BY <1>1 DEF AppInv, WgCounts
  <2> QED BY <1>1, <2>1, <2>2 DEF WgCounts
<1>4. hpc'[c] = "done" /\ \A d \in Senders : d # c => hpc'[d] = hpc[d]
  BY <1>0, <1>1 DEF AppTypes
<1>5. OutOwner'
  BY <1>0, <1>1, <1>4 DEF OutOwner
<1>6. PerHandler(c)'
  <2>1. ChannelsOK(c)'
    BY <1>0, <1>1, <1>4 DEF PerHandler, ChannelsOK, Dialled
  <2>2. AnswerOK(c)'
    BY <1>0, <1>1, <1>4 DEF PerHandler, AnswerOK, CommonIds
  <2>3. WriteProgress(c)'
    <3>1. Len(result[c]) \in Nat
      BY <1>0, <1>1, LenProperties DEF PerHandler, AnswerOK
    <3> QED BY <1>0, <1>1, <1>4, <3>1 DEF PerHandler, WriteProgress
  <2>4. OutWritten(c)'
    BY <1>0, <1>1 DEF PerHandler, OutWritten
  <2> QED BY <2>1, <2>2, <2>3, <2>4 DEF PerHandler
<1>7. ASSUME NEW d \in Senders, d # c PROVE PerHandler(d)'
  BY <1>1, <1>4, <1>7, SameHandler DEF AppInv
<1> QED BY <1>2, <1>3, <1>5, <1>6, <1>7 DEF AppInv

LEMMA SenderStep == ASSUME AppInv, NEW c \in Senders, Sender(c) PROVE AppInv'
<1>0. AppTypes /\ PerHandler(c)
  BY DEF AppInv
<1>1. /\ UNCHANGED <<proto, file, rpc, n, wg, exit, hpc, f, got, ids, result>>
      /\ UNCHANGED <<lost, off, k, out, last, mixed, sf>>
  BY DEF Sender, Dial, SendReturns, DialFails, SenderFails, receiver, flags, disk,
         main, input, writing, outFile
<1>2. /\ DOMAIN spc' = Senders /\ DOMAIN sn' = Senders /\ DOMAIN sids' = Senders
      /\ DOMAIN sgot' = Senders
      /\ \A d \in Senders :
           d # c => /\ spc'[d] = spc[d] /\ sn'[d] = sn[d]
                    /\ sgot'[d] = sgot[d] /\ sids'[d] = sids[d]
  BY <1>0 DEF AppTypes, Sender, Dial, SendReturns, DialFails, SenderFails
<1>3. \/ /\ spc[c] = "count" /\ spc'[c] = "send"
         /\ sgot'[c] \in Seq(Byte) /\ sgot'[c] \in Reads(sf[c])
         /\ sn'[c] \in Nat /\ sids'[c] = Exhaust(sn'[c], sgot'[c])
      \/ /\ sn'[c] = sn[c] /\ sgot'[c] = sgot[c] /\ sids'[c] = sids[c]
         /\ \/ spc[c] = "count" /\ spc'[c] = "gone"
            \/ spc[c] = "send" /\ spc'[c] \in {"done", "failed"}
  <2>1. CASE Dial(c)
    <3>1. Count(sf[c]) \in Nat
      BY <1>0, CountType DEF AppTypes
    <3>2. PICK g \in Reads(sf[c]) :
             /\ sgot' = [sgot EXCEPT ![c] = g]
             /\ sids' = [sids EXCEPT ![c] = Exhaust(Count(sf[c]), g)]
      BY <2>1 DEF Dial
    <3>3. g \in Seq(Byte)
      BY <1>0, ReadsBytes DEF AppTypes
    <3> QED BY <1>0, <2>1, <3>1, <3>2, <3>3 DEF AppTypes, Dial
  <2>2. CASE SendReturns(c) \/ DialFails(c) \/ SenderFails(c)
    BY <1>0, <2>2 DEF AppTypes, SendReturns, DialFails, SenderFails
  <2> QED BY <2>1, <2>2 DEF Sender
<1>4. AppTypes' /\ WgCounts' /\ OutOwner'
  <2>1. AppTypes'
    <3>1. \A d \in Senders : sn'[d] \in Nat
      BY <1>0, <1>2, <1>3 DEF AppTypes
    <3> QED BY <1>0, <1>1, <1>2, <3>1 DEF AppTypes
  <2>2. WgCounts' /\ OutOwner'
    BY <1>1 DEF AppInv, WgCounts, ActiveHandlers, OutOwner
  <2> QED BY <2>1, <2>2
<1>5. PerHandler(c)'
  <2>1. ChannelsOK(c)'
    <3>1. Reads(f[c])' = Reads(f[c]) /\ Reads(sf[c])' = Reads(sf[c])
      BY <1>1 DEF Reads
    <3> QED BY <1>0, <1>1, <1>3, <3>1 DEF PerHandler, ChannelsOK, Dialled
  <2>2. AnswerOK(c)'
    <3>1. CASE hpc[c] = "none"
      BY <1>1, <3>1 DEF AnswerOK
    <3>2. CASE hpc[c] # "none"
      <4>1. sids'[c] = sids[c]
        BY <1>0, <1>3, <3>2 DEF PerHandler, ChannelsOK, Dialled
      <4> QED BY <1>0, <1>1, <4>1 DEF PerHandler, AnswerOK, CommonIds
    <3> QED BY <3>1, <3>2
  <2>3. WriteProgress(c)'
    BY <1>0, <1>1 DEF PerHandler, WriteProgress
  <2>4. OutWritten(c)'
    BY <1>0, <1>1 DEF PerHandler, OutWritten
  <2> QED BY <2>1, <2>2, <2>3, <2>4 DEF PerHandler
<1>6. ASSUME NEW d \in Senders, d # c PROVE PerHandler(d)'
  BY <1>1, <1>2, <1>6, SameHandler DEF AppInv
<1> QED BY <1>4, <1>5, <1>6 DEF AppInv

----------------------------------------------------------------------------
\* The files, the channels, the wait group and the out file of the example programs
\* agree in every state, whatever fails, reading the files in the middle included,
\* and whoever replaces the receiver's file: what a channel delivers is counted from
\* what was read, and a result of NPSI may be a part only if its connection was lost.
THEOREM AppInvariance ==
    Spec => []AppInv
<1>0. Init => AppInv
  BY InitApp
<1>1. AppInv /\ [Next]_(vars) => AppInv'
  <2> SUFFICES ASSUME AppInv, [Next]_(vars) PROVE AppInv'
    OBVIOUS
  <2>1. CASE Next
    <3>1. CASE CountLines
      BY <3>1, CountStep
    <3>2. CASE Wait \/ ExitOnErr \/ ReplaceFile \/ \E c \in Senders : IntersectFails(c)
      BY <3>2, MainStep
    <3>3. CASE \E c \in Senders : Accept(c) \/ Handler(c) \/ Sender(c)
      BY <3>3, AcceptStep, ReturnsStep, CreateStep, WriteStep, HandledStep, SenderStep
         DEF Handler
    <3> QED BY <2>1, <3>1, <3>2, <3>3 DEF Next
  <2>2. CASE UNCHANGED vars
    BY <2>2, MainStep
  <2> QED BY <2>1, <2>2
<1> QED BY <1>0, <1>1, PTL DEF Spec

\* Once everybody accepted was handled, the out file holds the intersection.
LEMMA SettledOut == AppInv => OutIsTheIntersection
<1> SUFFICES ASSUME AppInv, Settled
             PROVE  /\ last = "nobody" => \A c \in Senders : hpc[c] = "none"
                    /\ \A c \in Senders :
                         last = c /\ ~mixed /\ Terminated(got[c]) /\ Terminated(sgot[c])
                         => Holds(c, Lines(got[c], n) \cap Lines(sgot[c], sn[c]))
  BY DEF OutIsTheIntersection
<1>1. \A c \in Senders : hpc[c] \in {"none", "done"}
  <2>1. CASE exit = 0
    BY <2>1 DEF AppInv, WgCounts, ActiveHandlers, AppTypes
  <2>2. CASE ~(exit = 0)
    BY <2>2 DEF Settled
  <2> QED BY <2>1, <2>2
<1>2. last = "nobody" => \A c \in Senders : hpc[c] = "none"
  BY <1>1 DEF AppInv, OutOwner
<1>3. ASSUME NEW c \in Senders, last = c, ~mixed, Terminated(got[c]), Terminated(sgot[c])
      PROVE  Holds(c, Lines(got[c], n) \cap Lines(sgot[c], sn[c]))
  <2>0. AppTypes /\ OutOwner /\ PerHandler(c)
    BY DEF AppInv
  <2>1. hpc[c] = "done"
    BY <1>1, <1>3, <2>0, AppsAssumption DEF OutOwner
  <2>2. /\ result[c] \in Seq(Members(ids[c])) /\ k[c] = Len(result[c]) + 1
        /\ Lines(out, Len(out)) = {result[c][i] : i \in 1..(k[c] - 1)} \ {<<NL>>}
        /\ ~lost[c] => CommonIds(c) \subseteq Members(result[c])
        /\ proto # "bpsi" => Members(result[c]) \subseteq CommonIds(c)
        /\ ids[c] = Exhaust(n, got[c]) /\ sids[c] = Exhaust(sn[c], sgot[c])
        /\ got[c] \in Seq(Byte) /\ sgot[c] \in Seq(Byte) /\ n \in Nat /\ sn[c] \in Nat
    BY <1>3, <2>0, <2>1 DEF PerHandler, AnswerOK, WriteProgress, OutWritten, ChannelsOK, AppTypes
  <2>3. {result[c][i] : i \in 1..(k[c] - 1)} = Members(result[c])
    <3>1. Len(result[c]) \in Nat /\ DOMAIN result[c] = 1..Len(result[c])
      BY <2>2, LenProperties
    <3>2. k[c] - 1 = Len(result[c])
      BY <2>2, <3>1
    <3> QED BY <3>1, <3>2 DEF Members
  <2>4. Lines(got[c], n) \cap Lines(sgot[c], sn[c]) = CommonIds(c) \ {<<NL>>}
    <3>1. Members(ids[c]) \ {<<NL>>} = Lines(got[c], n)
      BY <1>3, <2>2, ExhaustLines
    <3>2. Members(sids[c]) \ {<<NL>>} = Lines(sgot[c], sn[c])
      BY <1>3, <2>2, ExhaustLines
    <3> QED BY <3>1, <3>2 DEF CommonIds
  <2>5. Lines(out, Len(out)) = Members(result[c]) \ {<<NL>>}
    BY <2>2, <2>3
  <2> QED BY <2>2, <2>4, <2>5 DEF Holds, OutLines
<1> QED BY <1>2, <1>3

\* When the receiver has ended well or handled everybody it accepted, the out file
\* holds the lines that what was read of its file and of the sender's have in common,
\* if these are terminated and no two handlers wrote to it at once; all of them,
\* unless NPSI took a lost connection for the end (receiver/main.go, handle).
THEOREM OutCorrect ==
    Spec => []OutIsTheIntersection
<1>1. AppInv => OutIsTheIntersection
  BY SettledOut
<1>2. Spec => []AppInv
  BY AppInvariance
<1> QED BY <1>1, <1>2, PTL
=============================================================================
