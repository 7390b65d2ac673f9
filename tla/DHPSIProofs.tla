----------------------------- MODULE DHPSIProofs -----------------------------
(***************************************************************************)
(* The DHPSI exchange, for inputs of any length, any two shuffles and any  *)
(* capacity of the connection: what is reported is common to both parties  *)
(* and reported once, a nil result is the intersection, and a party that   *)
(* announced more than it had makes nobody return nil.                     *)
(***************************************************************************)
EXTENDS DHPSI, FiniteSetTheorems, TLAPS

\* The messages the parties exchange.
Message == [max : Nat] \cup [id : Ids, exp : [Keys -> Nat]]

\* The points the parties derive, in the order of their shuffles, and the
\* point that both scalars have multiplied.
SPoint(i) == DeriveMultiply(kS, sIds[sPerm[i] + 1])
RPoint(i) == DeriveMultiply(kR, rIds[rPerm[i] + 1])
Both(x) == [id |-> x, exp |-> [k \in Keys |-> 1]]

\* Message number k from the sender to the receiver, and back.
SMsg(k) == IF k = 1 THEN Header(sN)
           ELSE IF k <= sN + 1 THEN SPoint(k - 2)
           ELSE IF k = sN + 2 THEN Header(rN)
           ELSE Both(rIds[rPerm[k - sN - 3] + 1])
RMsg(k) == IF k = 1 THEN Header(rN) ELSE RPoint(k - 2)

InputOK ==
    /\ sIds \in Seq(Ids) /\ rIds \in Seq(Ids) /\ sN \in Nat /\ rN \in Nat
    /\ sPerm \in Permutation(sN) /\ rPerm \in Permutation(rN)

TypeOK ==
    /\ spc \in {"header", "take", "write", "readHeader", "writeHeader", "relay",
                "relayWrite", "nil", "error"}
    /\ sTaken \in Nat /\ sOut \in Nat /\ sMax \in Nat /\ sSeq \in Nat
    /\ rpc \in {"stage1Header", "stage1", "loop", "nil", "error", "panicked"}
    /\ rMax \in Nat /\ rSeq \in Nat
    /\ apc \in {"off", "header", "index", "shuffle", "write", "nil", "error"}
    /\ aTaken \in Nat /\ aOut \in Nat
    /\ bpc \in {"off", "header", "read", "matched", "nil", "error"}
    /\ bMax \in Nat /\ bSeq \in Nat
    /\ s2r \in Seq(Message) /\ r2s \in Seq(Message)

\* Where the sender is: it writes after it took everything it announced, and
\* it relays only when it had exactly that.
SenderOK ==
    /\ sTaken <= sN /\ sTaken <= Len(sIds) /\ sOut <= sN
    /\ sOut > 0 => sTaken = sN
    /\ spc = "header" => sTaken = 0 /\ sOut = 0
    /\ spc = "write" => sTaken = sN /\ sOut < sN
    /\ spc \in {"take", "readHeader"} => (sTaken = sN => sOut = sN)
    /\ spc = "readHeader" => sTaken = Len(sIds)
    /\ spc \in {"header", "take", "write", "readHeader"} => sSeq = 0
    /\ spc \in {"writeHeader", "relay", "relayWrite", "nil"} =>
          Len(sIds) = sN /\ sOut = sN /\ sMax = rN /\ sSeq <= rN
    /\ spc = "writeHeader" => sSeq = 0
    /\ spc = "relayWrite" => sSeq < rN /\ sSeq < aOut /\ sPt = Both(rIds[rPerm[sSeq] + 1])
    /\ spc = "nil" => sSeq = rN

\* Where the receiver's first two stages are.
ReceiverOK ==
    /\ rSeq <= sOut
    /\ rpc = "stage1Header" => rSeq = 0
    /\ rpc = "stage1" => rMax = sN /\ rSeq <= sN
    /\ rpc \in {"stage1Header", "stage1"} => apc = "off" /\ bpc = "off" /\ intersection = <<>>
    /\ apc # "off" => rMax = sN /\ rSeq = sN
    /\ rpc = "loop" => apc # "off" /\ bpc # "off"
    /\ rpc = "nil" => apc = "nil" /\ bpc = "nil"
    /\ apc \in {"off", "header"} => aTaken = 0 /\ aOut = 0
    /\ aTaken <= rN /\ aTaken <= Len(rIds) /\ aOut <= rN
    /\ aOut > 0 => aTaken = rN
    /\ apc = "shuffle" => aTaken < rN /\ aTaken < Len(rIds)
    /\ apc = "write" => aTaken = rN /\ aOut < rN
    /\ apc \in {"index", "nil"} => (aTaken = rN => aOut = rN)
    /\ apc = "nil" => aTaken = Len(rIds)
    /\ localIDs \in [0..(rN - 1) -> Ids \cup {NoId}]
    /\ \A i \in 0..(aTaken - 1) : localIDs[i] = rIds[i + 1]
    /\ apc = "shuffle" => localIDs[aTaken] = rIds[aTaken + 1]

\* Where its third stage is: a point that came back was relayed by a sender
\* that is neither short nor over, and written by a receiver that has stored
\* all its identifiers.
MatchOK ==
    /\ sSeq <= aOut /\ bSeq <= sSeq
    /\ bpc \in {"off", "header"} => bSeq = 0
    /\ bpc \in {"read", "matched", "nil"} => Len(sIds) = sN /\ bMax = rN /\ bSeq <= rN
    /\ bpc = "matched" => /\ bSeq < rN /\ bSeq < sSeq
                          /\ bPt = Both(rIds[rPerm[bSeq] + 1]) /\ bPt \in remoteIDs
    /\ bpc = "nil" => bSeq = rN

\* Who still reads, and how many messages it has read.
Receiving == rpc \in {"stage1Header", "stage1"}
               \/ (rpc = "loop" /\ bpc \in {"header", "read", "matched"})
GotBack == IF bpc = "read" THEN 1 + bSeq ELSE IF bpc = "matched" THEN 2 + bSeq ELSE 0
GotByR == IF rpc = "stage1Header" THEN 0
          ELSE IF rpc = "stage1" THEN 1 + rSeq ELSE 1 + sN + GotBack
Sending == spc \notin {"nil", "error"}
GotByS == IF spc \in {"writeHeader", "relay"} THEN 1 + sSeq
          ELSE IF spc = "relayWrite" THEN 2 + sSeq ELSE 0
SentByS == IF spc = "header" THEN 0
           ELSE IF spc \in {"relay", "relayWrite"} THEN 2 + sOut + sSeq ELSE 1 + sOut

\* What is on its way to the receiver is the sender's messages from there on.
ToReceiver ==
    Receiving =>
        /\ \A j \in 1..Len(s2r) : s2r[j] = SMsg(GotByR + j)
        /\ Sending => GotByR + Len(s2r) = SentByS
        /\ GotByR + Len(s2r) <= 2 + sOut + sSeq
        /\ sOut < sN => GotByR + Len(s2r) <= 1 + sOut
        /\ GotByR + Len(s2r) > 1 + sN => Len(sIds) = sN

\* What is on its way to the sender is the receiver's messages from there on.
ToSender ==
    Sending =>
        /\ \A j \in 1..Len(r2s) : r2s[j] = RMsg(GotByS + j)
        /\ apc \in {"off", "header"} => GotByS + Len(r2s) = 0
        /\ (apc \in {"index", "shuffle", "write"}) => GotByS + Len(r2s) = 1 + aOut
        /\ GotByS + Len(r2s) <= 1 + aOut

\* The index and the result: a point indexed belongs to an identifier of the
\* sender; it stays until its identifier is reported, and then it is gone.
Reported == {intersection[k] : k \in 1..Len(intersection)}

IndexOK ==
    /\ remoteIDs \subseteq {Both(sIds[k]) : k \in 1..Len(sIds)}
    /\ \A i \in 0..(rSeq - 1) : \/ Both(sIds[sPerm[i] + 1]) \in remoteIDs
                                \/ sIds[sPerm[i] + 1] \in Reported
    /\ apc # "off" => \A i \in 0..(bSeq - 1) : Both(rIds[rPerm[i] + 1]) \notin remoteIDs
    /\ intersection \in Seq(Ids)
    /\ \A k \in 1..Len(intersection) :
          /\ intersection[k] \in Common /\ Both(intersection[k]) \notin remoteIDs
          /\ \A j \in 1..Len(intersection) : j # k => intersection[j] # intersection[k]

IInv == InputOK /\ TypeOK /\ SenderOK /\ ReceiverOK /\ MatchOK /\ ToReceiver /\ ToSender
          /\ IndexOK

----------------------------------------------------------------------------
(* The points, the shuffles and the two connections.                       *)

\* Whichever scalar comes first, the point both multiplied is the same.
LEMMA Commute ==
    \A x : Multiply(kS, DeriveMultiply(kR, x)) = Both(x) /\ Multiply(kR, DeriveMultiply(kS, x)) = Both(x)
<1>1. Keys = {kS, kR} /\ kS # kR
  BY DHPSIAssumption
<1>2. ASSUME NEW x, NEW a \in Keys, NEW b \in Keys, a # b, Keys = {a, b}
      PROVE  Multiply(a, DeriveMultiply(b, x)) = Both(x)
  <2> DEFINE e == [k \in Keys |-> IF k = b THEN 1 ELSE 0]
           p == [id |-> x, exp |-> e]
           c == [e EXCEPT ![a] = @ + 1]
  <2>1. c \in [Keys -> Nat] /\ \A k \in Keys : c[k] = 1
    BY <1>2
  <2>2. c = [k \in Keys |-> 1]
    <3> HIDE DEF c
    <3> QED BY <2>1
  <2>3. [p EXCEPT !.exp[a] = @ + 1] = [p EXCEPT !.exp = c]
    OBVIOUS
  <2>4. [p EXCEPT !.exp = c] = [id |-> x, exp |-> c]
    <3> HIDE DEF c, e
    <3> QED OBVIOUS
  <2> QED BY <2>2, <2>3, <2>4 DEF Both, Multiply, DeriveMultiply
<1>3. kS \in Keys /\ kR \in Keys /\ Keys = {kR, kS}
  BY <1>1
<1> QED BY <1>1, <1>2, <1>3

LEMMA BothInjective ==
    \A x, y : Both(x) = Both(y) => x = y
  BY DEF Both

\* What the parties send are messages.
LEMMA MessageType ==
    /\ \A n \in Nat : Header(n) \in Message /\ Header(n).max = n
    /\ \A x \in Ids : /\ DeriveMultiply(kS, x) \in Message /\ DeriveMultiply(kR, x) \in Message
                      /\ Both(x) \in Message
<1>1. \A x \in Ids : \A key : DeriveMultiply(key, x) \in [id : Ids, exp : [Keys -> Nat]]
  BY DEF DeriveMultiply
<1>2. \A x \in Ids : Both(x) \in [id : Ids, exp : [Keys -> Nat]]
  BY DEF Both
<1> QED BY <1>1, <1>2 DEF Message, Header

\* Writing to a connection and reading from it.
LEMMA Appended ==
    ASSUME NEW S, NEW q \in Seq(S), NEW m \in S
    PROVE  /\ Append(q, m) \in Seq(S) /\ Len(Append(q, m)) = Len(q) + 1 /\ Len(q) \in Nat
           /\ \A j \in 1..Len(q) : Append(q, m)[j] = q[j]
           /\ Append(q, m)[Len(q) + 1] = m
  OBVIOUS

LEMMA Taken ==
    ASSUME NEW S, NEW q \in Seq(S), q # <<>>
    PROVE  /\ Tail(q) \in Seq(S) /\ Len(Tail(q)) = Len(q) - 1 /\ Len(q) \in Nat \ {0}
           /\ \A j \in 1..Len(Tail(q)) : Tail(q)[j] = q[j + 1]
           /\ Head(q) = q[1] /\ Head(q) \in S
  OBVIOUS

\* A shuffle places an identifier of the party, and leaves no place out.
LEMMA PermutationRange ==
    ASSUME NEW n \in Nat, NEW f \in Permutation(n), NEW i \in 0..(n - 1)
    PROVE  f[i] \in 0..(n - 1)
  BY DEF Permutation

LEMMA PermutationOnto ==
    ASSUME NEW n \in Nat, NEW f \in Permutation(n), NEW k \in 0..(n - 1)
    PROVE  \E i \in 0..(n - 1) : f[i] = k
<1> DEFINE S == 0..(n - 1)
<1>1. IsFiniteSet(S)
  BY FS_Interval
<1>2. f \in Injection(S, S)
  BY DEF Permutation, Injection, IsInjective
<1>3. f \in Surjection(S, S)
  BY <1>1, <1>2, FS_Injection, FS_Surjection
<1> QED BY <1>3 DEF Surjection

\* What a party that wrote a point had: all the identifiers it announced.
LEMMA PointsInRange ==
    ASSUME InputOK
    PROVE  /\ \A i \in 0..(sN - 1) : sN <= Len(sIds) =>
                 sPerm[i] + 1 \in 1..Len(sIds) /\ sIds[sPerm[i] + 1] \in Ids
           /\ \A i \in 0..(rN - 1) : rN <= Len(rIds) =>
                 rPerm[i] + 1 \in 1..Len(rIds) /\ rIds[rPerm[i] + 1] \in Ids /\ rPerm[i] \in 0..(rN - 1)
<1>1. /\ sIds \in Seq(Ids) /\ rIds \in Seq(Ids) /\ sN \in Nat /\ rN \in Nat
      /\ sPerm \in Permutation(sN) /\ rPerm \in Permutation(rN)
      /\ Len(sIds) \in Nat /\ Len(rIds) \in Nat
  BY DEF InputOK
<1>2. \A i \in 0..(sN - 1) : sPerm[i] \in 0..(sN - 1)
  BY <1>1, PermutationRange
<1>3. \A i \in 0..(rN - 1) : rPerm[i] \in 0..(rN - 1)
  BY <1>1, PermutationRange
<1>4. \A k \in 1..Len(sIds) : sIds[k] \in Ids
  BY <1>1
<1>5. \A k \in 1..Len(rIds) : rIds[k] \in Ids
  BY <1>1
<1>6. ASSUME NEW i \in 0..(sN - 1), sN <= Len(sIds) PROVE sPerm[i] + 1 \in 1..Len(sIds)
  BY <1>1, <1>2, <1>6
<1>7. ASSUME NEW i \in 0..(rN - 1), rN <= Len(rIds) PROVE rPerm[i] + 1 \in 1..Len(rIds)
  BY <1>1, <1>3, <1>7
<1> QED BY <1>3, <1>4, <1>5, <1>6, <1>7

\* The messages of the two streams, one by one.
LEMMA Streams ==
    ASSUME InputOK
    PROVE  /\ SMsg(1) = Header(sN) /\ \A i \in 0..(sN - 1) : SMsg(i + 2) = SPoint(i)
           /\ SMsg(sN + 2) = Header(rN)
           /\ \A i \in Nat : SMsg(sN + 3 + i) = Both(rIds[rPerm[i] + 1])
           /\ RMsg(1) = Header(rN) /\ \A i \in Nat : RMsg(i + 2) = RPoint(i)
<1>1. sN \in Nat
  BY DEF InputOK
<1>2. ASSUME NEW i \in 0..(sN - 1) PROVE SMsg(i + 2) = SPoint(i)
  <2>1. i + 2 # 1 /\ i + 2 <= sN + 1 /\ (i + 2) - 2 = i
    BY <1>1
  <2> HIDE DEF SPoint
  <2> QED BY <2>1 DEF SMsg
<1>3. ASSUME NEW i \in Nat PROVE SMsg(sN + 3 + i) = Both(rIds[rPerm[i] + 1])
  <2>1. sN + 3 + i # 1 /\ ~(sN + 3 + i <= sN + 1) /\ sN + 3 + i # sN + 2 /\ (sN + 3 + i) - sN - 3 = i
    BY <1>1
  <2> QED BY <2>1 DEF SMsg
<1>4. ASSUME NEW i \in Nat PROVE RMsg(i + 2) = RPoint(i)
  <2>1. i + 2 # 1 /\ (i + 2) - 2 = i
    OBVIOUS
  <2> QED BY <2>1 DEF RMsg
<1> QED BY <1>1, <1>2, <1>3, <1>4 DEF SMsg, RMsg

\* The inputs never change, and so neither do the messages to be sent.
LEMMA InputFrame ==
    ASSUME InputOK, UNCHANGED input
    PROVE  /\ sIds' = sIds /\ sN' = sN /\ sPerm' = sPerm /\ rIds' = rIds /\ rN' = rN /\ rPerm' = rPerm
           /\ InputOK' /\ Common' = Common
           /\ \A k : SMsg(k)' = SMsg(k) /\ RMsg(k)' = RMsg(k)
<1>1. sIds' = sIds /\ sN' = sN /\ sPerm' = sPerm /\ rIds' = rIds /\ rN' = rN /\ rPerm' = rPerm
  BY DEF input
<1> QED BY <1>1 DEF InputOK, Common, SMsg, RMsg, SPoint, RPoint

LEMMA IndexFrame ==
    ASSUME InputOK, IndexOK, UNCHANGED input,
           remoteIDs' = remoteIDs, intersection' = intersection,
           apc' # "off" => apc # "off", rSeq' = rSeq, bSeq' = bSeq
    PROVE  IndexOK'
<1>1. Reported' = Reported
  BY DEF Reported
<1>2. sIds' = sIds /\ sPerm' = sPerm /\ rIds' = rIds /\ rPerm' = rPerm /\ Common' = Common
  BY InputFrame
<1> QED BY <1>1, <1>2 DEF IndexOK

----------------------------------------------------------------------------
(* The initial states.                                                     *)

LEMMA InitInput ==
    ASSUME Init PROVE InputOK
<1>1. \A b \in Nat : \A s : s \in Inputs(b) => s \in Seq(Ids) /\ Len(s) \in Nat
  BY DEF Inputs
<1>2. sIds \in Seq(Ids) /\ rIds \in Seq(Ids) /\ sN \in Nat /\ rN \in Nat
  BY <1>1, DHPSIAssumption DEF Init
<1>3. ASSUME NEW n \in Nat, NEW h, NEW f \in Order(n, h) PROVE f \in Permutation(n)
  <2>1. [k \in 0..(n - 1) |-> k] \in Permutation(n)
    BY DEF Permutation
  <2> QED BY <1>3, <2>1 DEF Order
<1>4. sPerm \in Order(sN, Len(sIds)) /\ rPerm \in Order(rN, Len(rIds))
  BY DEF Init
<1> QED BY <1>2, <1>3, <1>4 DEF InputOK

LEMMA InitIInv ==
    ASSUME Init PROVE IInv
<1>1. InputOK
  BY InitInput
<1>2. TypeOK
  BY DEF Init, TypeOK
<1>3. Len(sIds) \in Nat /\ Len(rIds) \in Nat /\ sN \in Nat /\ rN \in Nat
  BY <1>1 DEF InputOK
<1>4. SenderOK
  BY <1>3 DEF Init, SenderOK
<1>5. ReceiverOK
  <2>1. localIDs \in [0..(rN - 1) -> Ids \cup {NoId}]
    BY DEF Init
  <2>2. rSeq = 0 /\ sOut = 0 /\ rpc = "stage1Header" /\ apc = "off" /\ bpc = "off"
        /\ aTaken = 0 /\ aOut = 0 /\ intersection = <<>>
    BY DEF Init
  <2> QED BY <1>3, <2>1, <2>2 DEF ReceiverOK
<1>6. MatchOK
  BY DEF Init, MatchOK
<1>7. ToReceiver
  <2>1. Len(s2r) = 0 /\ GotByR = 0 /\ SentByS = 0 /\ sOut = 0 /\ sSeq = 0
    BY DEF Init, GotByR, SentByS
  <2> QED BY <1>3, <2>1 DEF ToReceiver
<1>8. ToSender
  <2>1. Len(r2s) = 0 /\ GotByS = 0 /\ aOut = 0 /\ apc = "off"
    BY DEF Init, GotByS
  <2> QED BY <2>1 DEF ToSender
<1>9. IndexOK
  <2>1. remoteIDs = {} /\ rSeq = 0 /\ apc = "off" /\ intersection = <<>>
    BY DEF Init
  <2> QED BY <2>1 DEF IndexOK
<1> QED BY <1>1, <1>2, <1>4, <1>5, <1>6, <1>7, <1>8, <1>9 DEF IInv

----------------------------------------------------------------------------
(* The steps of the sender preserve the invariant.                         *)

LEMMA Numbers ==
    ASSUME InputOK, TypeOK
    PROVE  /\ Len(sIds) \in Nat /\ Len(rIds) \in Nat /\ sN \in Nat /\ rN \in Nat
           /\ sTaken \in Nat /\ sOut \in Nat /\ sMax \in Nat /\ sSeq \in Nat
           /\ rMax \in Nat /\ rSeq \in Nat /\ aTaken \in Nat /\ aOut \in Nat
           /\ bMax \in Nat /\ bSeq \in Nat /\ Len(s2r) \in Nat /\ Len(r2s) \in Nat
           /\ GotByR \in Nat /\ GotByS \in Nat /\ SentByS \in Nat
<1>1. /\ Len(sIds) \in Nat /\ Len(rIds) \in Nat /\ sN \in Nat /\ rN \in Nat
      /\ sTaken \in Nat /\ sOut \in Nat /\ sMax \in Nat /\ sSeq \in Nat
      /\ rMax \in Nat /\ rSeq \in Nat /\ aTaken \in Nat /\ aOut \in Nat
      /\ bMax \in Nat /\ bSeq \in Nat /\ Len(s2r) \in Nat /\ Len(r2s) \in Nat
  BY DEF InputOK, TypeOK
<1>2. GotByS \in Nat /\ SentByS \in Nat
  BY <1>1 DEF GotByS, SentByS
<1>3. GotByR \in Nat
  <2>1. GotBack \in Nat
    BY <1>1 DEF GotBack
  <2> QED BY <1>1, <2>1 DEF GotByR
<1> QED BY <1>1, <1>2, <1>3

\* A step of the sender leaves the receiver where it was.
LEMMA SenderFrame ==
    ASSUME IInv, UNCHANGED input, UNCHANGED receiver,
           sOut' \in Nat, sOut <= sOut', sSeq' \in Nat, sSeq <= sSeq', sSeq' <= aOut
    PROVE  /\ sIds' = sIds /\ sN' = sN /\ sPerm' = sPerm /\ rIds' = rIds /\ rN' = rN /\ rPerm' = rPerm
           /\ rpc' = rpc /\ rMax' = rMax /\ rSeq' = rSeq /\ apc' = apc /\ aTaken' = aTaken
           /\ aOut' = aOut /\ bpc' = bpc /\ bMax' = bMax /\ bSeq' = bSeq
           /\ Receiving' = Receiving /\ GotByR' = GotByR
           /\ InputOK' /\ ReceiverOK' /\ MatchOK' /\ IndexOK'
           /\ \A k : SMsg(k)' = SMsg(k) /\ RMsg(k)' = RMsg(k)
<1>1. /\ sIds' = sIds /\ sN' = sN /\ sPerm' = sPerm /\ rIds' = rIds /\ rN' = rN /\ rPerm' = rPerm
      /\ InputOK' /\ \A k : SMsg(k)' = SMsg(k) /\ RMsg(k)' = RMsg(k)
  BY InputFrame DEF IInv
<1>2. /\ rpc' = rpc /\ rMax' = rMax /\ rSeq' = rSeq /\ apc' = apc /\ aTaken' = aTaken
      /\ aOut' = aOut /\ bpc' = bpc /\ bMax' = bMax /\ bSeq' = bSeq /\ bPt' = bPt
      /\ remoteIDs' = remoteIDs /\ localIDs' = localIDs /\ intersection' = intersection
  BY DEF receiver, stage1, stage21, stage22, mainLoop
<1>3. Receiving' = Receiving /\ GotByR' = GotByR
  BY <1>1, <1>2 DEF Receiving, GotByR, GotBack
<1>4. IndexOK'
  BY <1>2, IndexFrame DEF IInv
<1>5. ReceiverOK'
  <2>1. rSeq <= sOut
    BY DEF IInv, ReceiverOK
  <2>2. rSeq \in Nat /\ sOut \in Nat
    BY Numbers DEF IInv
  <2>3. rSeq <= sOut'
    BY <2>1, <2>2
  <2> QED BY <1>1, <1>2, <2>3 DEF IInv, ReceiverOK
<1>6. MatchOK'
  <2>1. bSeq \in Nat /\ sSeq \in Nat
    BY Numbers DEF IInv
  <2>2. bSeq <= sSeq
    BY DEF IInv, MatchOK
  <2>3. bSeq <= sSeq' /\ (bSeq < sSeq => bSeq < sSeq')
    BY <2>1, <2>2
  <2> QED BY <1>1, <1>2, <2>3 DEF IInv, MatchOK
<1> QED BY <1>1, <1>2, <1>3, <1>4, <1>5, <1>6

\* The two streams after a step, for messages that do not change.
LEMMA StreamFrame ==
    ASSUME InputOK, UNCHANGED input
    PROVE  /\ (Receiving' =>
                 /\ \A j \in 1..Len(s2r') : s2r'[j] = SMsg(GotByR' + j)
                 /\ Sending' => GotByR' + Len(s2r') = SentByS'
                 /\ GotByR' + Len(s2r') <= 2 + sOut' + sSeq'
                 /\ sOut' < sN => GotByR' + Len(s2r') <= 1 + sOut'
                 /\ GotByR' + Len(s2r') > 1 + sN => Len(sIds) = sN) => ToReceiver'
           /\ (Sending' =>
                 /\ \A j \in 1..Len(r2s') : r2s'[j] = RMsg(GotByS' + j)
                 /\ apc' \in {"off", "header"} => GotByS' + Len(r2s') = 0
                 /\ apc' \in {"index", "shuffle", "write"} => GotByS' + Len(r2s') = 1 + aOut'
                 /\ GotByS' + Len(r2s') <= 1 + aOut') => ToSender'
<1>1. sIds' = sIds /\ sN' = sN /\ sPerm' = sPerm /\ rIds' = rIds /\ rN' = rN /\ rPerm' = rPerm
  BY InputFrame
<1> QED BY <1>1 DEF ToReceiver, ToSender, SMsg, RMsg, SPoint, RPoint

\* A message the sender writes lengthens the stream the receiver reads.
LEMMA SenderWrites ==
    ASSUME IInv, NEW m \in Message, s2r' = Append(s2r, m), m = SMsg(SentByS + 1), Sending,
           Receiving' = Receiving, GotByR' = GotByR
    PROVE  /\ s2r' \in Seq(Message) /\ Len(s2r') = Len(s2r) + 1
           /\ Receiving => /\ \A j \in 1..Len(s2r') : s2r'[j] = SMsg(GotByR' + j)
                           /\ GotByR' + Len(s2r') = SentByS + 1
<1>1. s2r \in Seq(Message) /\ Len(s2r) \in Nat /\ GotByR \in Nat /\ SentByS \in Nat
  BY Numbers DEF IInv, TypeOK
<1>2. /\ s2r' \in Seq(Message) /\ Len(s2r') = Len(s2r) + 1
      /\ \A j \in 1..Len(s2r) : s2r'[j] = s2r[j]
      /\ s2r'[Len(s2r) + 1] = m
  BY <1>1, Appended
<1>3. ASSUME Receiving
      PROVE  GotByR + Len(s2r) = SentByS /\ \A j \in 1..Len(s2r) : s2r[j] = SMsg(GotByR + j)
  BY <1>3 DEF IInv, ToReceiver
<1>4. ASSUME Receiving, NEW j \in 1..Len(s2r') PROVE s2r'[j] = SMsg(GotByR + j)
  <2>1. CASE j = Len(s2r) + 1
    <3>1. GotByR + j = SentByS + 1
      BY <1>1, <1>3, <1>4, <2>1
    <3> QED BY <1>2, <2>1, <3>1
  <2>2. CASE j # Len(s2r) + 1
    <3>1. j \in 1..Len(s2r)
      BY <1>1, <1>2, <2>2
    <3> QED BY <1>2, <1>3, <1>4, <3>1
  <2> QED BY <2>1, <2>2
<1>5. Receiving => GotByR' + Len(s2r') = SentByS + 1
  BY <1>1, <1>2, <1>3
<1> QED BY <1>2, <1>4, <1>5

\* A message the sender reads.
LEMMA SenderReads ==
    ASSUME IInv, CanRecv(r2s), r2s' = Tail(r2s), Sending
    PROVE  /\ r2s' \in Seq(Message) /\ Len(r2s') = Len(r2s) - 1 /\ Len(r2s) \in Nat \ {0}
           /\ Head(r2s) = RMsg(GotByS + 1)
           /\ \A j \in 1..Len(r2s') : r2s'[j] = RMsg(GotByS + 1 + j)
           /\ GotByS + Len(r2s) <= 1 + aOut /\ apc \notin {"off", "header"}
<1>1. r2s \in Seq(Message) /\ r2s # <<>> /\ Len(r2s) \in Nat /\ GotByS \in Nat
  BY Numbers DEF CanRecv, IInv, TypeOK
<1>2. /\ r2s' \in Seq(Message) /\ Len(r2s') = Len(r2s) - 1 /\ Len(r2s) \in Nat \ {0}
      /\ \A j \in 1..Len(r2s') : r2s'[j] = r2s[j + 1]
      /\ Head(r2s) = r2s[1]
  BY <1>1, Taken
<1>3. \A j \in 1..Len(r2s) : r2s[j] = RMsg(GotByS + j)
  BY DEF IInv, ToSender
<1>4. ASSUME NEW j \in 1..Len(r2s') PROVE r2s'[j] = RMsg(GotByS + 1 + j)
  <2>1. j + 1 \in 1..Len(r2s) /\ GotByS + (j + 1) = GotByS + 1 + j
    BY <1>1, <1>2
  <2> QED BY <1>2, <1>3, <2>1
<1>5. Head(r2s) = RMsg(GotByS + 1)
  BY <1>2, <1>3
<1>6. GotByS + Len(r2s) <= 1 + aOut /\ apc \notin {"off", "header"}
  BY <1>1, <1>2 DEF IInv, ToSender
<1> QED BY <1>2, <1>4, <1>5, <1>6

\* Steps of the sender that write and read nothing.
LEMMA SenderQuiet ==
    ASSUME IInv, UNCHANGED <<input, sOut, sMax, sSeq, sPt, receiver, net>>,
           spc' \in {"header", "take", "write", "readHeader", "writeHeader", "relay",
                     "relayWrite", "nil", "error"},
           sTaken' \in Nat, SenderOK',
           Sending' => Sending /\ SentByS' = SentByS /\ GotByS' = GotByS
    PROVE  IInv'
<1>1. /\ UNCHANGED input /\ UNCHANGED receiver
      /\ sOut' = sOut /\ sMax' = sMax /\ sSeq' = sSeq /\ s2r' = s2r /\ r2s' = r2s
  BY DEF net
<1>2. sSeq <= aOut /\ sOut \in Nat /\ sSeq \in Nat
  BY DEF IInv, MatchOK, TypeOK
<1>3. sOut <= sOut' /\ sSeq <= sSeq' /\ sOut' \in Nat /\ sSeq' \in Nat /\ sSeq' <= aOut
  BY <1>1, <1>2
<1>4. /\ rpc' = rpc /\ rMax' = rMax /\ rSeq' = rSeq /\ apc' = apc /\ aTaken' = aTaken
      /\ aOut' = aOut /\ bpc' = bpc /\ bMax' = bMax /\ bSeq' = bSeq
      /\ Receiving' = Receiving /\ GotByR' = GotByR
      /\ InputOK' /\ ReceiverOK' /\ MatchOK' /\ IndexOK'
  BY <1>1, <1>3, SenderFrame
<1>5. TypeOK'
  BY <1>1, <1>4 DEF IInv, TypeOK
<1>6. ToReceiver'
  <2>1. Receiving' =>
          /\ \A j \in 1..Len(s2r') : s2r'[j] = SMsg(GotByR' + j)
          /\ Sending' => GotByR' + Len(s2r') = SentByS'
          /\ GotByR' + Len(s2r') <= 2 + sOut' + sSeq'
          /\ sOut' < sN => GotByR' + Len(s2r') <= 1 + sOut'
          /\ GotByR' + Len(s2r') > 1 + sN => Len(sIds) = sN
    BY <1>1, <1>4 DEF IInv, ToReceiver
  <2> QED BY <1>1, <2>1, StreamFrame DEF IInv
<1>7. ToSender'
  <2>1. Sending' =>
          /\ \A j \in 1..Len(r2s') : r2s'[j] = RMsg(GotByS' + j)
          /\ apc' \in {"off", "header"} => GotByS' + Len(r2s') = 0
          /\ apc' \in {"index", "shuffle", "write"} => GotByS' + Len(r2s') = 1 + aOut'
          /\ GotByS' + Len(r2s') <= 1 + aOut'
    BY <1>1, <1>4 DEF IInv, ToSender
  <2> QED BY <1>1, <2>1, StreamFrame DEF IInv
<1> QED BY <1>4, <1>5, <1>6, <1>7 DEF IInv

LEMMA SendTakeStep ==
    ASSUME IInv, SendTake PROVE IInv'
<1>1. /\ UNCHANGED <<input, sOut, sMax, sSeq, sPt, receiver, net>>
      /\ sOut' = sOut /\ sSeq' = sSeq /\ sMax' = sMax /\ spc = "take"
      /\ sTaken < Len(sIds) /\ sTaken < sN /\ sTaken' = sTaken + 1
      /\ spc' = IF sTaken + 1 = sN THEN "write" ELSE "take"
  BY DEF SendTake
<1>2. sIds' = sIds /\ sN' = sN /\ sTaken \in Nat /\ sOut \in Nat /\ sN \in Nat /\ Len(sIds) \in Nat
  BY <1>1, InputFrame, Numbers DEF IInv
<1>3. spc' \in {"write", "take"} /\ sTaken' \in Nat
  BY <1>1, <1>2
<1>4. /\ sOut <= sN /\ (sOut > 0 => sTaken = sN) /\ sSeq = 0
  BY <1>1 DEF IInv, SenderOK
<1>5. SenderOK'
  BY <1>1, <1>2, <1>4 DEF SenderOK
<1>6. Sending' /\ Sending /\ SentByS' = SentByS /\ GotByS' = GotByS
  BY <1>1, <1>3 DEF Sending, SentByS, GotByS
<1> QED BY <1>1, <1>3, <1>5, <1>6, SenderQuiet

LEMMA SendStage1DoneStep ==
    ASSUME IInv, SendStage1Done PROVE IInv'
<1>1. /\ UNCHANGED <<input, sOut, sMax, sSeq, sPt, receiver, net>>
      /\ sOut' = sOut /\ sSeq' = sSeq /\ sMax' = sMax /\ spc = "take"
      /\ sTaken = Len(sIds) /\ sTaken' = sTaken /\ spc' = "readHeader"
  BY DEF SendStage1Done
<1>2. sIds' = sIds /\ sN' = sN /\ sTaken \in Nat
  BY <1>1, InputFrame, Numbers DEF IInv
<1>3. SenderOK'
  BY <1>1, <1>2 DEF IInv, SenderOK
<1>4. Sending' /\ Sending /\ SentByS' = SentByS /\ GotByS' = GotByS
  BY <1>1 DEF Sending, SentByS, GotByS
<1> QED BY <1>1, <1>2, <1>3, <1>4, SenderQuiet

LEMMA SenderEndStep ==
    ASSUME IInv, SendTooMany \/ RelayDone \/ SenderFails \/ SenderCancel PROVE IInv'
<1>1. /\ UNCHANGED <<input, sOut, sMax, sSeq, sPt, receiver, net>>
      /\ sOut' = sOut /\ sSeq' = sSeq /\ sMax' = sMax /\ sTaken' = sTaken
      /\ \/ spc' = "error"
         \/ spc' = "nil" /\ spc = "relay" /\ sSeq = sMax
  BY DEF SendTooMany, RelayDone, SenderFails, SenderCancel
<1>2. sIds' = sIds /\ sN' = sN /\ rN' = rN /\ sTaken \in Nat
  BY <1>1, InputFrame, Numbers DEF IInv
<1>3. SenderOK'
  BY <1>1, <1>2 DEF IInv, SenderOK
<1>4. ~Sending'
  BY <1>1 DEF Sending
<1> QED BY <1>1, <1>2, <1>3, <1>4, SenderQuiet

\* Steps of the sender that write the next message of the stream.
LEMMA SenderPut ==
    ASSUME IInv, UNCHANGED <<input, sTaken, sMax, receiver, r2s>>,
           NEW m \in Message, s2r' = Append(s2r, m), m = SMsg(SentByS + 1), Sending,
           spc' \in {"take", "write", "relay"}, SenderOK',
           sOut' \in Nat, sOut <= sOut', sSeq' \in Nat, sSeq <= sSeq', sSeq' <= aOut,
           SentByS' = SentByS + 1, GotByS' = GotByS,
           SentByS + 1 <= 2 + sOut' + sSeq', sOut' < sN => SentByS + 1 <= 1 + sOut',
           SentByS + 1 > 1 + sN => Len(sIds) = sN
    PROVE  IInv'
<1>1. /\ UNCHANGED input /\ UNCHANGED receiver
      /\ sTaken' = sTaken /\ sMax' = sMax /\ r2s' = r2s
  OBVIOUS
<1>2. /\ rpc' = rpc /\ rMax' = rMax /\ rSeq' = rSeq /\ apc' = apc /\ aTaken' = aTaken
      /\ aOut' = aOut /\ bpc' = bpc /\ bMax' = bMax /\ bSeq' = bSeq
      /\ Receiving' = Receiving /\ GotByR' = GotByR
      /\ InputOK' /\ ReceiverOK' /\ MatchOK' /\ IndexOK'
  BY <1>1, SenderFrame
<1>3. /\ s2r' \in Seq(Message) /\ Len(s2r') = Len(s2r) + 1
      /\ Receiving => /\ \A j \in 1..Len(s2r') : s2r'[j] = SMsg(GotByR' + j)
                      /\ GotByR' + Len(s2r') = SentByS + 1
  BY <1>2, SenderWrites
<1>4. TypeOK'
  BY <1>1, <1>2, <1>3 DEF IInv, TypeOK
<1>5. ToReceiver'
  <2>1. Receiving' =>
          /\ \A j \in 1..Len(s2r') : s2r'[j] = SMsg(GotByR' + j)
          /\ Sending' => GotByR' + Len(s2r') = SentByS'
          /\ GotByR' + Len(s2r') <= 2 + sOut' + sSeq'
          /\ sOut' < sN => GotByR' + Len(s2r') <= 1 + sOut'
          /\ GotByR' + Len(s2r') > 1 + sN => Len(sIds) = sN
    BY <1>2, <1>3
  <2> QED BY <1>1, <2>1, StreamFrame DEF IInv
<1>6. ToSender'
  <2>1. Sending' =>
          /\ \A j \in 1..Len(r2s') : r2s'[j] = RMsg(GotByS' + j)
          /\ apc' \in {"off", "header"} => GotByS' + Len(r2s') = 0
          /\ apc' \in {"index", "shuffle", "write"} => GotByS' + Len(r2s') = 1 + aOut'
          /\ GotByS' + Len(r2s') <= 1 + aOut'
    BY <1>1, <1>2 DEF IInv, ToSender
  <2> QED BY <1>1, <2>1, StreamFrame DEF IInv
<1> QED BY <1>2, <1>4, <1>5, <1>6 DEF IInv

LEMMA SendHeaderStep ==
    ASSUME IInv, SendHeader PROVE IInv'
<1>1. /\ UNCHANGED <<input, sTaken, sMax, receiver, r2s>>
      /\ sTaken' = sTaken /\ sOut' = sOut /\ sMax' = sMax /\ sSeq' = sSeq
      /\ spc = "header" /\ spc' = "take" /\ s2r' = Append(s2r, Header(sN))
  BY DEF SendHeader
<1>2. sIds' = sIds /\ sN' = sN
  BY <1>1, InputFrame DEF IInv
<1>3. /\ sN \in Nat /\ sOut = 0 /\ sSeq = 0 /\ sTaken = 0 /\ aOut \in Nat /\ Len(sIds) \in Nat
  <2>1. sN \in Nat /\ aOut \in Nat /\ Len(sIds) \in Nat
    BY Numbers DEF IInv
  <2> QED BY <1>1, <2>1 DEF IInv, SenderOK
<1>4. Sending /\ SentByS = 0 /\ SentByS' = 1 /\ GotByS' = GotByS
  BY <1>1, <1>3 DEF Sending, SentByS, GotByS
<1>5. Header(sN) \in Message /\ Header(sN) = SMsg(SentByS + 1)
  BY <1>3, <1>4, MessageType DEF SMsg
<1>6. SenderOK'
  <2>1. CASE sN = 0
    BY <1>1, <1>2, <1>3, <2>1 DEF SenderOK
  <2>2. CASE sN # 0
    BY <1>1, <1>2, <1>3, <2>2 DEF SenderOK
  <2> QED BY <2>1, <2>2
<1> QED BY <1>1, <1>3, <1>4, <1>5, <1>6, SenderPut

LEMMA SendWriteStep ==
    ASSUME IInv, SendWrite PROVE IInv'
<1>1. /\ UNCHANGED <<input, sTaken, sMax, receiver, r2s>>
      /\ sTaken' = sTaken /\ sOut' = sOut + 1 /\ sMax' = sMax /\ sSeq' = sSeq
      /\ spc = "write" /\ spc' = (IF sOut + 1 = sN THEN "take" ELSE "write")
      /\ s2r' = Append(s2r, SPoint(sOut))
  BY DEF SendWrite, SPoint
<1>2. sIds' = sIds /\ sN' = sN
  BY <1>1, InputFrame DEF IInv
<1>3. /\ sN \in Nat /\ sOut \in Nat /\ sTaken \in Nat /\ aOut \in Nat /\ Len(sIds) \in Nat
  BY Numbers DEF IInv
<1>4. sTaken = sN /\ sOut < sN /\ sTaken <= Len(sIds) /\ sSeq = 0
  BY <1>1 DEF IInv, SenderOK
<1>5. Sending /\ SentByS = 1 + sOut /\ SentByS' = 2 + sOut /\ GotByS' = GotByS
  BY <1>1, <1>3, <1>4 DEF Sending, SentByS, GotByS
<1>6. SPoint(sOut) \in Message
  <2>1. sOut \in 0..(sN - 1)
    BY <1>3, <1>4
  <2>2. sIds[sPerm[sOut] + 1] \in Ids
    BY <1>4, <2>1, PointsInRange DEF IInv
  <2> QED BY <2>2, MessageType DEF SPoint
<1>7. SPoint(sOut) = SMsg(SentByS + 1)
  <2>1. SentByS + 1 = sOut + 2 /\ sOut \in 0..(sN - 1)
    BY <1>3, <1>4, <1>5
  <2> QED BY <2>1, Streams DEF IInv
<1>8. SenderOK'
  BY <1>1, <1>2, <1>3, <1>4 DEF SenderOK
<1>9. /\ sOut' \in Nat /\ sOut <= sOut' /\ sSeq' \in Nat /\ sSeq <= sSeq' /\ sSeq' <= aOut
      /\ SentByS' = SentByS + 1 /\ SentByS + 1 <= 2 + sOut' + sSeq'
      /\ (sOut' < sN => SentByS + 1 <= 1 + sOut') /\ ~(SentByS + 1 > 1 + sN)
      /\ spc' \in {"take", "write", "relay"}
  BY <1>1, <1>3, <1>4, <1>5
<1> QED BY <1>1, <1>5, <1>6, <1>7, <1>8, <1>9, SenderPut

LEMMA RelayWriteHeaderStep ==
    ASSUME IInv, RelayWriteHeader PROVE IInv'
<1>1. /\ UNCHANGED <<input, sTaken, sMax, receiver, r2s>>
      /\ sTaken' = sTaken /\ sOut' = sOut /\ sMax' = sMax /\ sSeq' = sSeq
      /\ spc = "writeHeader" /\ spc' = "relay" /\ s2r' = Append(s2r, Header(sMax))
  BY DEF RelayWriteHeader
<1>2. sIds' = sIds /\ sN' = sN /\ rN' = rN
  BY <1>1, InputFrame DEF IInv
<1>3. /\ sN \in Nat /\ rN \in Nat /\ sOut \in Nat /\ aOut \in Nat /\ Len(sIds) \in Nat
  BY Numbers DEF IInv
<1>4. sOut = sN /\ sMax = rN /\ Len(sIds) = sN /\ sSeq = 0
  BY <1>1 DEF IInv, SenderOK
<1>5. Sending /\ SentByS = 1 + sN /\ SentByS' = 2 + sN /\ GotByS' = GotByS
  BY <1>1, <1>3, <1>4 DEF Sending, SentByS, GotByS
<1>6. Header(sMax) \in Message /\ Header(sMax) = SMsg(SentByS + 1)
  BY <1>3, <1>4, <1>5, MessageType DEF SMsg
<1>7. SenderOK'
  BY <1>1, <1>2, <1>4 DEF IInv, SenderOK
<1>8. /\ sOut' \in Nat /\ sOut <= sOut' /\ sSeq' \in Nat /\ sSeq <= sSeq' /\ sSeq' <= aOut
      /\ SentByS' = SentByS + 1 /\ SentByS + 1 <= 2 + sOut' + sSeq' /\ ~(sOut' < sN)
  BY <1>1, <1>3, <1>4, <1>5
<1> QED BY <1>1, <1>4, <1>5, <1>6, <1>7, <1>8, SenderPut

LEMMA RelayWriteStep ==
    ASSUME IInv, RelayWrite PROVE IInv'
<1>1. /\ UNCHANGED <<input, sTaken, sMax, receiver, r2s>>
      /\ sTaken' = sTaken /\ sOut' = sOut /\ sMax' = sMax /\ sSeq' = sSeq + 1
      /\ spc = "relayWrite" /\ spc' = "relay" /\ s2r' = Append(s2r, sPt)
  BY DEF RelayWrite
<1>2. sIds' = sIds /\ sN' = sN /\ rN' = rN
  BY <1>1, InputFrame DEF IInv
<1>3. /\ sN \in Nat /\ rN \in Nat /\ sOut \in Nat /\ aOut \in Nat /\ Len(sIds) \in Nat /\ sSeq \in Nat
      /\ aTaken \in Nat /\ Len(rIds) \in Nat
  BY Numbers DEF IInv
<1>4. /\ sOut = sN /\ sMax = rN /\ Len(sIds) = sN /\ sSeq < rN /\ sSeq < aOut
      /\ sPt = Both(rIds[rPerm[sSeq] + 1])
  BY <1>1 DEF IInv, SenderOK
<1>5. Sending /\ SentByS = 2 + sN + sSeq /\ SentByS' = 3 + sN + sSeq /\ GotByS' = GotByS
  BY <1>1, <1>3, <1>4 DEF Sending, SentByS, GotByS
<1>6. sPt \in Message
  <2>1. (aOut > 0 => aTaken = rN) /\ aTaken <= Len(rIds)
    BY DEF IInv, ReceiverOK
  <2>2. sSeq \in 0..(rN - 1) /\ rN <= Len(rIds)
    BY <1>3, <1>4, <2>1
  <2>3. rIds[rPerm[sSeq] + 1] \in Ids
    BY <2>2, PointsInRange DEF IInv
  <2> QED BY <1>4, <2>3, MessageType
<1>7. sPt = SMsg(SentByS + 1)
  <2>1. SentByS + 1 = sN + 3 + sSeq
    BY <1>3, <1>5
  <2> QED BY <1>3, <1>4, <2>1, Streams DEF IInv
<1>8. SenderOK'
  <2>1. sSeq + 1 <= rN
    BY <1>3, <1>4
  <2> QED BY <1>1, <1>2, <1>4, <2>1 DEF IInv, SenderOK
<1>9. /\ sOut' \in Nat /\ sOut <= sOut' /\ sSeq' \in Nat /\ sSeq <= sSeq' /\ sSeq' <= aOut
      /\ SentByS' = SentByS + 1 /\ SentByS + 1 <= 2 + sOut' + sSeq' /\ ~(sOut' < sN)
  BY <1>1, <1>3, <1>4, <1>5
<1> QED BY <1>1, <1>4, <1>5, <1>6, <1>7, <1>8, <1>9, SenderPut

\* Steps of the sender that read the next message of the receiver.
LEMMA SenderGet ==
    ASSUME IInv, UNCHANGED <<input, sTaken, sOut, sSeq, receiver, s2r>>,
           CanRecv(r2s), r2s' = Tail(r2s), Sending, SenderOK', sMax' \in Nat,
           spc' \in {"writeHeader", "relayWrite"},
           SentByS' = SentByS, GotByS' = GotByS + 1
    PROVE  IInv'
<1>1. /\ UNCHANGED input /\ UNCHANGED receiver
      /\ sTaken' = sTaken /\ sOut' = sOut /\ sSeq' = sSeq /\ s2r' = s2r
  OBVIOUS
<1>2. sSeq <= aOut /\ sOut \in Nat /\ sSeq \in Nat
  BY DEF IInv, MatchOK, TypeOK
<1>3. sOut <= sOut' /\ sSeq <= sSeq' /\ sOut' \in Nat /\ sSeq' \in Nat /\ sSeq' <= aOut
  BY <1>1, <1>2
<1>4. /\ rpc' = rpc /\ rMax' = rMax /\ rSeq' = rSeq /\ apc' = apc /\ aTaken' = aTaken
      /\ aOut' = aOut /\ bpc' = bpc /\ bMax' = bMax /\ bSeq' = bSeq
      /\ Receiving' = Receiving /\ GotByR' = GotByR
      /\ InputOK' /\ ReceiverOK' /\ MatchOK' /\ IndexOK'
  BY <1>1, <1>3, SenderFrame
<1>5. /\ r2s' \in Seq(Message) /\ Len(r2s') = Len(r2s) - 1 /\ Len(r2s) \in Nat \ {0}
      /\ \A j \in 1..Len(r2s') : r2s'[j] = RMsg(GotByS + 1 + j)
      /\ apc \notin {"off", "header"}
  BY SenderReads
<1>6. TypeOK'
  BY <1>1, <1>4, <1>5 DEF IInv, TypeOK
<1>7. ToReceiver'
  <2>1. Receiving' =>
          /\ \A j \in 1..Len(s2r') : s2r'[j] = SMsg(GotByR' + j)
          /\ Sending' => GotByR' + Len(s2r') = SentByS'
          /\ GotByR' + Len(s2r') <= 2 + sOut' + sSeq'
          /\ sOut' < sN => GotByR' + Len(s2r') <= 1 + sOut'
          /\ GotByR' + Len(s2r') > 1 + sN => Len(sIds) = sN
    BY <1>1, <1>4 DEF IInv, ToReceiver
  <2> QED BY <1>1, <2>1, StreamFrame DEF IInv
<1>8. ToSender'
  <2>1. GotByS \in Nat
    BY Numbers DEF IInv
  <2>2. GotByS' + Len(r2s') = GotByS + Len(r2s)
    BY <1>5, <2>1
  <2>3. /\ apc \in {"index", "shuffle", "write"} => GotByS + Len(r2s) = 1 + aOut
        /\ GotByS + Len(r2s) <= 1 + aOut
    BY DEF IInv, ToSender
  <2>4. /\ \A j \in 1..Len(r2s') : r2s'[j] = RMsg(GotByS' + j)
        /\ apc' \in {"off", "header"} => GotByS' + Len(r2s') = 0
        /\ apc' \in {"index", "shuffle", "write"} => GotByS' + Len(r2s') = 1 + aOut'
        /\ GotByS' + Len(r2s') <= 1 + aOut'
    BY <1>4, <1>5, <2>2, <2>3
  <2> QED BY <1>1, <2>4, StreamFrame DEF IInv
<1> QED BY <1>4, <1>6, <1>7, <1>8 DEF IInv

\* The receiver writes only after it has read all that was announced to it:
\* the sender it answers is neither short nor over.
LEMMA RelayReadHeaderStep ==
    ASSUME IInv, RelayReadHeader PROVE IInv'
<1>1. /\ UNCHANGED <<input, sTaken, sOut, sSeq, receiver, s2r>>
      /\ sTaken' = sTaken /\ sOut' = sOut /\ sSeq' = sSeq
      /\ spc = "readHeader" /\ spc' = "writeHeader" /\ CanRecv(r2s) /\ r2s' = Tail(r2s)
      /\ sMax' = Head(r2s).max
  BY DEF RelayReadHeader
<1>2. sIds' = sIds /\ sN' = sN /\ rN' = rN
  BY <1>1, InputFrame DEF IInv
<1>3. /\ sN \in Nat /\ rN \in Nat /\ sOut \in Nat /\ sTaken \in Nat /\ Len(sIds) \in Nat
      /\ rSeq \in Nat
  BY Numbers DEF IInv
<1>4. Sending /\ GotByS = 0 /\ SentByS = 1 + sOut /\ SentByS' = 1 + sOut
  BY <1>1 DEF Sending, SentByS, GotByS
<1>5. sSeq = 0 /\ sTaken = Len(sIds) /\ sTaken <= sN /\ sOut <= sN /\ (sOut > 0 => sTaken = sN)
  BY <1>1 DEF IInv, SenderOK
<1>6. Head(r2s) = RMsg(GotByS + 1) /\ apc \notin {"off", "header"}
  BY <1>1, <1>4, SenderReads
<1>7. sMax' = rN
  <2>1. Head(r2s) = Header(rN)
    BY <1>4, <1>6, Streams DEF IInv
  <2> QED BY <1>1, <1>3, <2>1, MessageType
<1>8. sOut = sN /\ Len(sIds) = sN
  <2>1. rSeq = sN /\ rSeq <= sOut
    BY <1>6 DEF IInv, ReceiverOK
  <2> QED BY <1>3, <1>5, <2>1
<1>9. SenderOK'
  BY <1>1, <1>2, <1>3, <1>5, <1>7, <1>8 DEF IInv, SenderOK
<1>10. GotByS' = GotByS + 1
  BY <1>1, <1>4, <1>5 DEF GotByS
<1> QED BY <1>1, <1>3, <1>4, <1>7, <1>9, <1>10, SenderGet

LEMMA RelayReadStep ==
    ASSUME IInv, RelayRead PROVE IInv'
<1>1. /\ UNCHANGED <<input, sTaken, sOut, sSeq, receiver, s2r>>
      /\ sTaken' = sTaken /\ sOut' = sOut /\ sSeq' = sSeq /\ sMax' = sMax
      /\ spc = "relay" /\ spc' = "relayWrite" /\ CanRecv(r2s) /\ r2s' = Tail(r2s)
      /\ sPt' = Multiply(kS, Head(r2s)) /\ sSeq < sMax
  BY DEF RelayRead
<1>2. sIds' = sIds /\ sN' = sN /\ rN' = rN /\ rIds' = rIds /\ rPerm' = rPerm
  BY <1>1, InputFrame DEF IInv
<1>3. rN \in Nat /\ sMax \in Nat /\ aOut \in Nat /\ sSeq \in Nat /\ Len(r2s) \in Nat
  BY Numbers DEF IInv
<1>4. Sending /\ GotByS = 1 + sSeq /\ GotByS' = 2 + sSeq /\ SentByS' = SentByS
  BY <1>1 DEF Sending, SentByS, GotByS
<1>5. /\ Head(r2s) = RMsg(GotByS + 1) /\ GotByS + Len(r2s) <= 1 + aOut
      /\ Len(r2s) \in Nat \ {0}
  BY <1>1, <1>4, SenderReads
<1>6. sMax = rN
  BY <1>1 DEF IInv, SenderOK
<1>7. sSeq < rN /\ sSeq < aOut
  BY <1>1, <1>3, <1>4, <1>5, <1>6
<1>8. sPt' = Both(rIds[rPerm[sSeq] + 1])
  <2>1. GotByS + 1 = sSeq + 2
    BY <1>3, <1>4
  <2>2. Head(r2s) = RPoint(sSeq)
    BY <1>3, <1>5, <2>1, Streams DEF IInv
  <2> QED BY <1>1, <2>2, Commute DEF RPoint
<1>9. SenderOK'
  <2>1. aOut' = aOut
    BY <1>1 DEF receiver, stage21
  <2>2. /\ Len(sIds') = sN' /\ sOut' = sN' /\ sMax' = rN' /\ sSeq' <= rN'
        /\ sSeq' < rN' /\ sSeq' < aOut' /\ sPt' = Both(rIds'[rPerm'[sSeq'] + 1])
    BY <1>1, <1>2, <1>7, <1>8, <2>1 DEF IInv, SenderOK
  <2>3. /\ sTaken' <= sN' /\ sTaken' <= Len(sIds') /\ sOut' <= sN'
        /\ sOut' > 0 => sTaken' = sN'
    BY <1>1, <1>2 DEF IInv, SenderOK
  <2> QED BY <1>1, <2>2, <2>3 DEF SenderOK, Both
<1> QED BY <1>1, <1>3, <1>4, <1>9, SenderGet

----------------------------------------------------------------------------
(* The steps of the receiver preserve the invariant.                       *)

\* A step of the receiver leaves the sender where it was.
LEMMA ReceiverFrame ==
    ASSUME IInv, UNCHANGED <<input, sender>>, aOut' \in Nat, aOut <= aOut'
    PROVE  /\ UNCHANGED input
           /\ sIds' = sIds /\ sN' = sN /\ sPerm' = sPerm /\ rIds' = rIds /\ rN' = rN /\ rPerm' = rPerm
           /\ spc' = spc /\ sTaken' = sTaken /\ sOut' = sOut /\ sMax' = sMax /\ sSeq' = sSeq
           /\ Sending' = Sending /\ GotByS' = GotByS /\ SentByS' = SentByS
           /\ InputOK' /\ SenderOK'
<1>1. /\ sIds' = sIds /\ sN' = sN /\ sPerm' = sPerm /\ rIds' = rIds /\ rN' = rN /\ rPerm' = rPerm
      /\ InputOK'
  BY InputFrame DEF IInv
<1>2. /\ spc' = spc /\ sTaken' = sTaken /\ sOut' = sOut /\ sMax' = sMax /\ sSeq' = sSeq
      /\ sPt' = sPt
  BY DEF sender
<1>3. SenderOK'
  <2>1. sSeq \in Nat /\ aOut \in Nat
    BY Numbers DEF IInv
  <2>2. sSeq < aOut => sSeq < aOut'
    BY <2>1
  <2> QED BY <1>1, <1>2, <2>2 DEF IInv, SenderOK, Both
<1>4. Sending' = Sending /\ GotByS' = GotByS /\ SentByS' = SentByS
  BY <1>2 DEF Sending, GotByS, SentByS
<1> QED BY <1>1, <1>2, <1>3, <1>4

\* A message the receiver reads.
LEMMA ReceiverReads ==
    ASSUME IInv, CanRecv(s2r), s2r' = Tail(s2r), Receiving
    PROVE  /\ s2r' \in Seq(Message) /\ Len(s2r') = Len(s2r) - 1 /\ Len(s2r) \in Nat \ {0}
           /\ Head(s2r) = SMsg(GotByR + 1)
           /\ \A j \in 1..Len(s2r') : s2r'[j] = SMsg(GotByR + 1 + j)
<1>1. s2r \in Seq(Message) /\ s2r # <<>> /\ Len(s2r) \in Nat /\ GotByR \in Nat
  BY Numbers DEF CanRecv, IInv, TypeOK
<1>2. /\ s2r' \in Seq(Message) /\ Len(s2r') = Len(s2r) - 1 /\ Len(s2r) \in Nat \ {0}
      /\ \A j \in 1..Len(s2r') : s2r'[j] = s2r[j + 1]
      /\ Head(s2r) = s2r[1]
  BY <1>1, Taken
<1>3. \A j \in 1..Len(s2r) : s2r[j] = SMsg(GotByR + j)
  BY DEF IInv, ToReceiver
<1>4. ASSUME NEW j \in 1..Len(s2r') PROVE s2r'[j] = SMsg(GotByR + 1 + j)
  <2>1. j + 1 \in 1..Len(s2r) /\ GotByR + (j + 1) = GotByR + 1 + j
    BY <1>1, <1>2
  <2> QED BY <1>2, <1>3, <2>1
<1> QED BY <1>2, <1>3, <1>4

\* The counters and control states of the receiver have their types.
ReceiverType ==
    /\ rpc \in {"stage1Header", "stage1", "loop", "nil", "error", "panicked"}
    /\ apc \in {"off", "header", "index", "shuffle", "write", "nil", "error"}
    /\ bpc \in {"off", "header", "read", "matched", "nil", "error"}
    /\ rMax \in Nat /\ rSeq \in Nat /\ aTaken \in Nat /\ aOut \in Nat
    /\ bMax \in Nat /\ bSeq \in Nat

\* Steps of the receiver that read the next message of the sender.
LEMMA ReceiverGet ==
    ASSUME IInv, UNCHANGED <<input, sender, stage21, r2s>>,
           CanRecv(s2r), s2r' = Tail(s2r), Receiving, GotByR' = GotByR + 1, ReceiverType'
    PROVE  InputOK' /\ TypeOK' /\ SenderOK' /\ ToReceiver' /\ ToSender'
<1>1. UNCHANGED <<input, sender>> /\ apc' = apc /\ aTaken' = aTaken /\ aOut' = aOut /\ r2s' = r2s
  BY DEF stage21
<1>2. aOut \in Nat /\ aOut' \in Nat /\ aOut <= aOut'
  BY <1>1, Numbers DEF IInv
<1>3. /\ UNCHANGED input /\ spc' = spc /\ sTaken' = sTaken /\ sOut' = sOut /\ sMax' = sMax /\ sSeq' = sSeq
      /\ Sending' = Sending /\ GotByS' = GotByS /\ SentByS' = SentByS
      /\ InputOK' /\ SenderOK'
  BY <1>1, <1>2, ReceiverFrame
<1>4. /\ s2r' \in Seq(Message) /\ Len(s2r') = Len(s2r) - 1 /\ Len(s2r) \in Nat \ {0}
      /\ \A j \in 1..Len(s2r') : s2r'[j] = SMsg(GotByR + 1 + j)
  BY ReceiverReads
<1>5. TypeOK'
  BY <1>1, <1>3, <1>4 DEF IInv, TypeOK, ReceiverType
<1>6. ToReceiver'
  <2>1. GotByR \in Nat
    BY Numbers DEF IInv
  <2>2. GotByR' + Len(s2r') = GotByR + Len(s2r)
    BY <1>4, <2>1
  <2>3. /\ Sending => GotByR + Len(s2r) = SentByS
        /\ GotByR + Len(s2r) <= 2 + sOut + sSeq
        /\ sOut < sN => GotByR + Len(s2r) <= 1 + sOut
        /\ GotByR + Len(s2r) > 1 + sN => Len(sIds) = sN
    BY DEF IInv, ToReceiver
  <2>4. /\ \A j \in 1..Len(s2r') : s2r'[j] = SMsg(GotByR' + j)
        /\ Sending' => GotByR' + Len(s2r') = SentByS'
        /\ GotByR' + Len(s2r') <= 2 + sOut' + sSeq'
        /\ sOut' < sN => GotByR' + Len(s2r') <= 1 + sOut'
        /\ GotByR' + Len(s2r') > 1 + sN => Len(sIds) = sN
    BY <1>3, <1>4, <2>2, <2>3
  <2> QED BY <1>3, <2>4, StreamFrame DEF IInv
<1>7. ToSender'
  <2>1. Sending' =>
          /\ \A j \in 1..Len(r2s') : r2s'[j] = RMsg(GotByS' + j)
          /\ apc' \in {"off", "header"} => GotByS' + Len(r2s') = 0
          /\ apc' \in {"index", "shuffle", "write"} => GotByS' + Len(r2s') = 1 + aOut'
          /\ GotByS' + Len(r2s') <= 1 + aOut'
    BY <1>1, <1>3 DEF IInv, ToSender
  <2> QED BY <1>3, <2>1, StreamFrame DEF IInv
<1> QED BY <1>3, <1>5, <1>6, <1>7

\* Steps of the receiver that write and read nothing.
LEMMA ReceiverQuiet ==
    ASSUME IInv, UNCHANGED <<input, sender, s2r, r2s, aOut>>, ReceiverType',
           Receiving' => Receiving /\ GotByR' = GotByR,
           apc' \in {"off", "header"} => apc \in {"off", "header"},
           apc' \in {"index", "shuffle", "write"} => apc \in {"index", "shuffle", "write"}
    PROVE  InputOK' /\ TypeOK' /\ SenderOK' /\ ToReceiver' /\ ToSender'
<1>1. UNCHANGED <<input, sender>> /\ aOut' = aOut /\ s2r' = s2r /\ r2s' = r2s
  OBVIOUS
<1>2. aOut \in Nat /\ aOut' \in Nat /\ aOut <= aOut'
  BY <1>1, Numbers DEF IInv
<1>3. /\ UNCHANGED input /\ spc' = spc /\ sTaken' = sTaken /\ sOut' = sOut /\ sMax' = sMax /\ sSeq' = sSeq
      /\ Sending' = Sending /\ GotByS' = GotByS /\ SentByS' = SentByS
      /\ InputOK' /\ SenderOK'
  BY <1>1, <1>2, ReceiverFrame
<1>4. TypeOK'
  BY <1>1, <1>3 DEF IInv, TypeOK, ReceiverType
<1>5. ToReceiver'
  <2>1. Receiving' =>
          /\ \A j \in 1..Len(s2r') : s2r'[j] = SMsg(GotByR' + j)
          /\ Sending' => GotByR' + Len(s2r') = SentByS'
          /\ GotByR' + Len(s2r') <= 2 + sOut' + sSeq'
          /\ sOut' < sN => GotByR' + Len(s2r') <= 1 + sOut'
          /\ GotByR' + Len(s2r') > 1 + sN => Len(sIds) = sN
    BY <1>1, <1>3 DEF IInv, ToReceiver
  <2> QED BY <1>3, <2>1, StreamFrame DEF IInv
<1>6. ToSender'
  <2>1. Sending' =>
          /\ \A j \in 1..Len(r2s') : r2s'[j] = RMsg(GotByS' + j)
          /\ apc' \in {"off", "header"} => GotByS' + Len(r2s') = 0
          /\ apc' \in {"index", "shuffle", "write"} => GotByS' + Len(r2s') = 1 + aOut'
          /\ GotByS' + Len(r2s') <= 1 + aOut'
    BY <1>1, <1>3 DEF IInv, ToSender
  <2> QED BY <1>3, <2>1, StreamFrame DEF IInv
<1> QED BY <1>3, <1>4, <1>5, <1>6

\* Steps of stage21 that write the next message to the sender.
LEMMA ReceiverPut ==
    ASSUME IInv, UNCHANGED <<input, sender, stage1, stage22, mainLoop, aTaken, s2r>>,
           NEW m \in Message, r2s' = Append(r2s, m), ReceiverType', aOut' \in Nat, aOut <= aOut',
           Sending => m = RMsg(GotByS + Len(r2s) + 1) /\ GotByS + Len(r2s) = aOut',
           apc' \in {"index", "write"}
    PROVE  InputOK' /\ TypeOK' /\ SenderOK' /\ ToReceiver' /\ ToSender'
<1>1. /\ UNCHANGED <<input, sender>> /\ s2r' = s2r
      /\ rpc' = rpc /\ bpc' = bpc /\ rSeq' = rSeq /\ bSeq' = bSeq
  BY DEF stage1, stage22, mainLoop
<1>2. /\ UNCHANGED input /\ spc' = spc /\ sTaken' = sTaken /\ sOut' = sOut /\ sMax' = sMax /\ sSeq' = sSeq
      /\ Sending' = Sending /\ GotByS' = GotByS /\ SentByS' = SentByS
      /\ InputOK' /\ SenderOK' /\ sN' = sN
  BY <1>1, ReceiverFrame
<1>3. r2s \in Seq(Message) /\ Len(r2s) \in Nat /\ GotByS \in Nat
  BY Numbers DEF IInv, TypeOK
<1>4. /\ r2s' \in Seq(Message) /\ Len(r2s') = Len(r2s) + 1
      /\ \A j \in 1..Len(r2s) : r2s'[j] = r2s[j]
      /\ r2s'[Len(r2s) + 1] = m
  BY <1>3, Appended
<1>5. TypeOK'
  BY <1>1, <1>2, <1>4 DEF IInv, TypeOK, ReceiverType
<1>6. ToReceiver'
  <2>1. Receiving' = Receiving /\ GotByR' = GotByR
    BY <1>1, <1>2 DEF Receiving, GotByR, GotBack
  <2>2. Receiving' =>
          /\ \A j \in 1..Len(s2r') : s2r'[j] = SMsg(GotByR' + j)
          /\ Sending' => GotByR' + Len(s2r') = SentByS'
          /\ GotByR' + Len(s2r') <= 2 + sOut' + sSeq'
          /\ sOut' < sN => GotByR' + Len(s2r') <= 1 + sOut'
          /\ GotByR' + Len(s2r') > 1 + sN => Len(sIds) = sN
    BY <1>1, <1>2, <2>1 DEF IInv, ToReceiver
  <2> QED BY <1>2, <2>2, StreamFrame DEF IInv
<1>7. ToSender'
  <2>1. ASSUME Sending, NEW j \in 1..Len(r2s') PROVE r2s'[j] = RMsg(GotByS + j)
    <3>1. CASE j = Len(r2s) + 1
      <4>1. GotByS + j = GotByS + Len(r2s) + 1
        BY <1>3, <3>1
      <4> QED BY <1>4, <2>1, <3>1, <4>1
    <3>2. CASE j # Len(r2s) + 1
      <4>1. j \in 1..Len(r2s)
        BY <1>3, <1>4, <3>2
      <4> QED BY <1>4, <2>1, <4>1 DEF IInv, ToSender
    <3> QED BY <3>1, <3>2
  <2>2. Sending => GotByS + Len(r2s') = 1 + aOut'
    BY <1>3, <1>4
  <2>3. Sending' =>
          /\ \A j \in 1..Len(r2s') : r2s'[j] = RMsg(GotByS' + j)
          /\ apc' \in {"off", "header"} => GotByS' + Len(r2s') = 0
          /\ apc' \in {"index", "shuffle", "write"} => GotByS' + Len(r2s') = 1 + aOut'
          /\ GotByS' + Len(r2s') <= 1 + aOut'
    BY <1>2, <2>1, <2>2
  <2> QED BY <1>2, <2>3, StreamFrame DEF IInv
<1> QED BY <1>2, <1>5, <1>6, <1>7

LEMMA IndexHeaderStep ==
    ASSUME IInv, IndexHeader PROVE IInv'
<1>1. /\ UNCHANGED <<input, sender, stage21, r2s>>
      /\ rpc = "stage1Header" /\ rpc' = "stage1" /\ CanRecv(s2r) /\ s2r' = Tail(s2r)
      /\ rMax' = Head(s2r).max
  BY DEF IndexHeader
<1>2. /\ rSeq' = rSeq /\ remoteIDs' = remoteIDs /\ localIDs' = localIDs /\ apc' = apc
      /\ aTaken' = aTaken /\ aOut' = aOut /\ bpc' = bpc /\ bMax' = bMax /\ bSeq' = bSeq
      /\ bPt' = bPt /\ intersection' = intersection
  BY DEF IndexHeader, stage21, stage22
<1>3. /\ UNCHANGED input /\ sIds' = sIds /\ sN' = sN /\ sPerm' = sPerm /\ rIds' = rIds
      /\ rN' = rN /\ rPerm' = rPerm /\ sOut' = sOut /\ sSeq' = sSeq
  BY <1>1, InputFrame DEF IInv, sender
<1>4. rSeq = 0 /\ apc = "off" /\ bpc = "off" /\ rSeq \in Nat /\ sN \in Nat
  BY <1>1, Numbers DEF IInv, ReceiverOK
<1>5. Receiving /\ GotByR = 0 /\ GotByR' = 1
  BY <1>1, <1>2, <1>4 DEF Receiving, GotByR
<1>6. rMax' = sN
  <2>1. Head(s2r) = SMsg(GotByR + 1)
    BY <1>1, <1>5, ReceiverReads
  <2>2. Head(s2r) = Header(sN)
    BY <1>5, <2>1, Streams DEF IInv
  <2> QED BY <1>1, <1>4, <2>2, MessageType
<1>7. ReceiverType'
  BY <1>1, <1>2, <1>4, <1>6 DEF IInv, TypeOK, ReceiverType
<1>8. InputOK' /\ TypeOK' /\ SenderOK' /\ ToReceiver' /\ ToSender'
  BY <1>1, <1>5, <1>7, ReceiverGet
<1>9. ReceiverOK'
  BY <1>1, <1>2, <1>3, <1>4, <1>6 DEF IInv, ReceiverOK
<1>10. MatchOK'
  BY <1>2, <1>3, <1>4 DEF IInv, MatchOK
<1>11. IndexOK'
  BY <1>2, <1>3, IndexFrame DEF IInv
<1> QED BY <1>8, <1>9, <1>10, <1>11 DEF IInv

\* A point that is indexed was derived from an identifier of the sender.
LEMMA IndexPointStep ==
    ASSUME IInv, IndexPoint PROVE IInv'
<1>1. /\ UNCHANGED <<input, sender, stage21, r2s>>
      /\ rpc = "stage1" /\ CanRecv(s2r) /\ s2r' = Tail(s2r) /\ rSeq < rMax /\ rSeq' = rSeq + 1
      /\ remoteIDs' = remoteIDs \cup {Multiply(kR, Head(s2r))}
  BY DEF IndexPoint
<1>2. /\ rpc' = rpc /\ rMax' = rMax /\ localIDs' = localIDs /\ apc' = apc
      /\ aTaken' = aTaken /\ aOut' = aOut /\ bpc' = bpc /\ bMax' = bMax /\ bSeq' = bSeq
      /\ bPt' = bPt /\ intersection' = intersection
  BY DEF IndexPoint, stage21, stage22, mainLoop
<1>3. /\ UNCHANGED input /\ sIds' = sIds /\ sN' = sN /\ sPerm' = sPerm /\ rIds' = rIds
      /\ rN' = rN /\ rPerm' = rPerm /\ sOut' = sOut /\ sSeq' = sSeq /\ Common' = Common
  BY <1>1, InputFrame DEF IInv, sender
<1>4. /\ rSeq \in Nat /\ sN \in Nat /\ sOut \in Nat /\ Len(s2r) \in Nat /\ sTaken \in Nat
      /\ Len(sIds) \in Nat /\ GotByR \in Nat
  BY Numbers DEF IInv
<1>5. rMax = sN /\ apc = "off" /\ bpc = "off" /\ intersection = <<>>
  BY <1>1 DEF IInv, ReceiverOK
<1>6. Receiving /\ GotByR = 1 + rSeq /\ GotByR' = GotByR + 1
  BY <1>1, <1>2, <1>4 DEF Receiving, GotByR
<1>7. Head(s2r) = SMsg(GotByR + 1) /\ Len(s2r) \in Nat \ {0}
  BY <1>1, <1>6, ReceiverReads
<1>8. rSeq < sOut /\ rSeq \in 0..(sN - 1)
  <2>1. sOut < sN => GotByR + Len(s2r) <= 1 + sOut
    BY <1>6 DEF IInv, ToReceiver
  <2>2. sOut <= sN
    BY DEF IInv, SenderOK
  <2> QED BY <1>1, <1>4, <1>5, <1>6, <1>7, <2>1, <2>2
<1>9. sPerm[rSeq] + 1 \in 1..Len(sIds)
  <2>1. (sOut > 0 => sTaken = sN) /\ sTaken <= Len(sIds)
    BY DEF IInv, SenderOK
  <2>2. sN <= Len(sIds)
    BY <1>4, <1>8, <2>1
  <2> QED BY <1>8, <2>2, PointsInRange DEF IInv
<1>10. remoteIDs' = remoteIDs \cup {Both(sIds[sPerm[rSeq] + 1])}
  <2>1. GotByR + 1 = rSeq + 2
    BY <1>4, <1>6
  <2>2. Head(s2r) = SPoint(rSeq)
    BY <1>7, <1>8, <2>1, Streams DEF IInv
  <2> QED BY <1>1, <2>2, Commute DEF SPoint
<1>11. ReceiverType'
  BY <1>1, <1>2 DEF IInv, TypeOK, ReceiverType
<1>12. InputOK' /\ TypeOK' /\ SenderOK' /\ ToReceiver' /\ ToSender'
  BY <1>1, <1>6, <1>11, ReceiverGet
<1>13. ReceiverOK'
  <2>1. rSeq' <= sOut /\ rSeq' <= sN
    BY <1>1, <1>4, <1>8
  <2> QED BY <1>1, <1>2, <1>3, <1>5, <2>1 DEF IInv, ReceiverOK
<1>14. MatchOK'
  BY <1>2, <1>3, <1>5 DEF IInv, MatchOK
<1>15. IndexOK'
  <2>1. remoteIDs' \subseteq {Both(sIds[k]) : k \in 1..Len(sIds)}
    BY <1>9, <1>10 DEF IInv, IndexOK
  <2>2. ASSUME NEW i \in 0..(rSeq' - 1)
        PROVE  Both(sIds[sPerm[i] + 1]) \in remoteIDs' \/ sIds[sPerm[i] + 1] \in Reported
    <3>1. CASE i = rSeq
      BY <1>10, <3>1
    <3>2. CASE i # rSeq
      <4>1. i \in 0..(rSeq - 1)
        BY <1>1, <1>4, <3>2
      <4> QED BY <1>10, <4>1 DEF IInv, IndexOK
    <3> QED BY <3>1, <3>2
  <2>3. Reported' = Reported
    BY <1>2 DEF Reported
  <2>4. intersection' = <<>> /\ apc' = "off"
    BY <1>2, <1>5
  <2> QED BY <1>3, <2>1, <2>2, <2>3, <2>4 DEF IndexOK
<1> QED BY <1>12, <1>13, <1>14, <1>15 DEF IInv

LEMMA IndexDoneStep ==
    ASSUME IInv, IndexDone PROVE IInv'
<1>1. /\ UNCHANGED <<input, sender, s2r, r2s, aOut>>
      /\ rpc = "stage1" /\ rpc' = "loop" /\ rSeq = rMax /\ apc' = "header" /\ bpc' = "header"
  BY DEF IndexDone, net
<1>2. /\ rMax' = rMax /\ rSeq' = rSeq /\ remoteIDs' = remoteIDs /\ localIDs' = localIDs
      /\ aTaken' = aTaken /\ aOut' = aOut /\ bMax' = bMax /\ bSeq' = bSeq
      /\ bPt' = bPt /\ intersection' = intersection
  BY DEF IndexDone, stage1
<1>3. /\ UNCHANGED input /\ sIds' = sIds /\ sN' = sN /\ sPerm' = sPerm /\ rIds' = rIds
      /\ rN' = rN /\ rPerm' = rPerm /\ sOut' = sOut /\ sSeq' = sSeq /\ Common' = Common
  BY <1>1, InputFrame DEF IInv, sender
<1>4. rMax = sN /\ apc = "off" /\ bpc = "off" /\ intersection = <<>> /\ aTaken = 0 /\ aOut = 0
  BY <1>1 DEF IInv, ReceiverOK
<1>5. bSeq = 0 /\ rSeq \in Nat /\ sN \in Nat
  BY <1>4, Numbers DEF IInv, MatchOK
<1>6. Receiving /\ GotByR = 1 + sN /\ GotByR' = 1 + sN
  BY <1>1, <1>3, <1>4, <1>5 DEF Receiving, GotByR, GotBack
<1>7. ReceiverType'
  BY <1>1, <1>2 DEF IInv, TypeOK, ReceiverType
<1>8. InputOK' /\ TypeOK' /\ SenderOK' /\ ToReceiver' /\ ToSender'
  BY <1>1, <1>4, <1>6, <1>7, ReceiverQuiet
<1>9. ReceiverOK'
  BY <1>1, <1>2, <1>3, <1>4 DEF IInv, ReceiverOK
<1>10. MatchOK'
  BY <1>1, <1>2, <1>3, <1>5 DEF IInv, MatchOK
<1>11. IndexOK'
  <2>1. Reported' = Reported /\ bSeq' = 0
    BY <1>2, <1>5 DEF Reported
  <2> QED BY <1>2, <1>3, <2>1 DEF IInv, IndexOK
<1> QED BY <1>8, <1>9, <1>10, <1>11 DEF IInv

\* Steps in which Intersect returns.
LEMMA ReceiverEndStep ==
    ASSUME IInv, Stage1Fails \/ IntersectDone \/ IntersectFails \/ ReceiverCancel PROVE IInv'
<1>1. /\ UNCHANGED <<input, sender, s2r, r2s, aOut>>
      /\ rpc' \in {"error", "nil"} /\ (rpc' = "nil" => apc = "nil" /\ bpc = "nil")
  BY DEF Stage1Fails, IntersectDone, IntersectFails, ReceiverCancel, net, stage21
<1>2. /\ rMax' = rMax /\ rSeq' = rSeq /\ remoteIDs' = remoteIDs /\ localIDs' = localIDs
      /\ apc' = apc /\ aTaken' = aTaken /\ aOut' = aOut /\ bpc' = bpc /\ bMax' = bMax
      /\ bSeq' = bSeq /\ bPt' = bPt /\ intersection' = intersection
  BY DEF Stage1Fails, IntersectDone, IntersectFails, ReceiverCancel, stage1, stage21, stage22
<1>3. /\ UNCHANGED input /\ sIds' = sIds /\ sN' = sN /\ sPerm' = sPerm /\ rIds' = rIds
      /\ rN' = rN /\ rPerm' = rPerm /\ sOut' = sOut /\ sSeq' = sSeq
  BY <1>1, InputFrame DEF IInv, sender
<1>4. ReceiverType' /\ ~Receiving'
  BY <1>1, <1>2 DEF IInv, TypeOK, ReceiverType, Receiving
<1>5. InputOK' /\ TypeOK' /\ SenderOK' /\ ToReceiver' /\ ToSender'
  BY <1>1, <1>2, <1>4, ReceiverQuiet
<1>6. ReceiverOK'
  BY <1>1, <1>2, <1>3 DEF IInv, ReceiverOK
<1>7. MatchOK'
  BY <1>2, <1>3 DEF IInv, MatchOK, Both
<1>8. IndexOK'
  BY <1>2, <1>3, IndexFrame DEF IInv
<1> QED BY <1>5, <1>6, <1>7, <1>8 DEF IInv

LEMMA ShuffleHeaderStep ==
    ASSUME IInv, ShuffleHeader PROVE IInv'
<1>1. /\ UNCHANGED <<input, sender, stage1, stage22, mainLoop, aTaken, s2r>>
      /\ rpc = "loop" /\ apc = "header" /\ apc' = "index" /\ aTaken' = aTaken /\ aOut' = aOut
      /\ r2s' = Append(r2s, Header(rN))
  BY DEF ShuffleHeader, Looping
<1>2. /\ rpc' = rpc /\ rMax' = rMax /\ rSeq' = rSeq /\ remoteIDs' = remoteIDs /\ localIDs' = localIDs
      /\ bpc' = bpc /\ bMax' = bMax /\ bSeq' = bSeq /\ bPt' = bPt /\ intersection' = intersection
  BY <1>1 DEF stage1, stage22, mainLoop
<1>3. /\ UNCHANGED input /\ sIds' = sIds /\ sN' = sN /\ sPerm' = sPerm /\ rIds' = rIds
      /\ rN' = rN /\ rPerm' = rPerm /\ sOut' = sOut /\ sSeq' = sSeq
  BY <1>1, InputFrame DEF IInv, sender
<1>4. rN \in Nat /\ Len(rIds) \in Nat /\ GotByS \in Nat /\ Len(r2s) \in Nat
  BY Numbers DEF IInv
<1>5. aTaken = 0 /\ aOut = 0
  BY <1>1 DEF IInv, ReceiverOK
<1>6. Header(rN) \in Message /\ Header(rN) = RMsg(1)
  BY <1>4, MessageType, Streams DEF IInv
<1>7. Sending => GotByS + Len(r2s) = 0
  BY <1>1 DEF IInv, ToSender
<1>8. ReceiverType'
  BY <1>1, <1>2 DEF IInv, TypeOK, ReceiverType
<1>9. InputOK' /\ TypeOK' /\ SenderOK' /\ ToReceiver' /\ ToSender'
  <2>1. Sending => Header(rN) = RMsg(GotByS + Len(r2s) + 1) /\ GotByS + Len(r2s) = aOut'
    BY <1>1, <1>5, <1>6, <1>7
  <2> QED BY <1>1, <1>5, <1>6, <1>8, <2>1, ReceiverPut
<1>10. ReceiverOK'
  <2>1. CASE rN = 0
    BY <1>1, <1>2, <1>3, <1>4, <1>5, <2>1 DEF IInv, ReceiverOK
  <2>2. CASE rN # 0
    BY <1>1, <1>2, <1>3, <1>4, <1>5, <2>2 DEF IInv, ReceiverOK
  <2> QED BY <2>1, <2>2
<1>11. MatchOK'
  BY <1>1, <1>2, <1>3 DEF IInv, MatchOK, Both
<1>12. IndexOK'
  BY <1>1, <1>2, <1>3, IndexFrame DEF IInv
<1> QED BY <1>9, <1>10, <1>11, <1>12 DEF IInv

\* The identifier is stored before its point is on its way.
LEMMA IndexLocalStep ==
    ASSUME IInv, IndexLocal PROVE IInv'
<1>1. /\ UNCHANGED <<input, sender, s2r, r2s, aOut>>
      /\ rpc = "loop" /\ apc = "index" /\ aTaken' = aTaken /\ aOut' = aOut /\ aTaken < Len(rIds)
  BY DEF IndexLocal, Looping, net
<1>2. /\ rMax' = rMax /\ rSeq' = rSeq /\ remoteIDs' = remoteIDs
      /\ bpc' = bpc /\ bMax' = bMax /\ bSeq' = bSeq /\ bPt' = bPt /\ intersection' = intersection
  BY DEF IndexLocal, stage1, stage22
<1>3. /\ UNCHANGED input /\ sIds' = sIds /\ sN' = sN /\ sPerm' = sPerm /\ rIds' = rIds
      /\ rN' = rN /\ rPerm' = rPerm /\ sOut' = sOut /\ sSeq' = sSeq
  BY <1>1, InputFrame DEF IInv, sender
<1>4. rN \in Nat /\ Len(rIds) \in Nat /\ aTaken \in Nat /\ aOut \in Nat
  BY Numbers DEF IInv
<1>5. CASE aTaken < rN
  <2>1. rpc' = rpc /\ apc' = "shuffle" /\ localIDs' = [localIDs EXCEPT ![aTaken] = rIds[aTaken + 1]]
    BY <1>5 DEF IndexLocal
  <2>2. /\ localIDs \in [0..(rN - 1) -> Ids \cup {NoId}] /\ rIds[aTaken + 1] \in Ids
        /\ aTaken \in 0..(rN - 1) /\ \A i \in 0..(aTaken - 1) : localIDs[i] = rIds[i + 1]
    <3>1. aTaken + 1 \in 1..Len(rIds) /\ aTaken \in 0..(rN - 1)
      BY <1>1, <1>4, <1>5
    <3>2. rIds[aTaken + 1] \in Ids
      BY <3>1 DEF IInv, InputOK
    <3> QED BY <3>1, <3>2 DEF IInv, ReceiverOK
  <2>3. /\ localIDs' \in [0..(rN - 1) -> Ids \cup {NoId}] /\ localIDs'[aTaken] = rIds[aTaken + 1]
        /\ \A i \in 0..(rN - 1) : i # aTaken => localIDs'[i] = localIDs[i]
    BY <2>1, <2>2
  <2>4. \A i \in 0..(aTaken - 1) : localIDs'[i] = rIds[i + 1]
    BY <1>4, <1>5, <2>2, <2>3
  <2>5. ReceiverType'
    BY <1>1, <1>2, <2>1 DEF IInv, TypeOK, ReceiverType
  <2>6. Receiving' = Receiving /\ GotByR' = GotByR
    BY <1>2, <1>3, <2>1 DEF Receiving, GotByR, GotBack
  <2>7. InputOK' /\ TypeOK' /\ SenderOK' /\ ToReceiver' /\ ToSender'
    BY <1>1, <2>1, <2>5, <2>6, ReceiverQuiet
  <2>8. ReceiverOK'
    <3>1. (aOut > 0 => aTaken = rN) /\ rSeq <= sOut /\ rMax = sN /\ rSeq = sN /\ bpc # "off"
          /\ aTaken <= Len(rIds) /\ aTaken <= rN /\ aOut <= rN
      BY <1>1 DEF IInv, ReceiverOK
    <3> QED BY <1>1, <1>2, <1>3, <1>5, <2>1, <2>3, <2>4, <3>1 DEF ReceiverOK
  <2>9. MatchOK'
    BY <1>1, <1>2, <1>3 DEF IInv, MatchOK, Both
  <2>10. IndexOK'
    BY <1>1, <1>2, <1>3, IndexFrame DEF IInv
  <2> QED BY <2>7, <2>8, <2>9, <2>10 DEF IInv
<1>6. CASE ~(aTaken < rN)
  <2>1. rpc' = "panicked" /\ apc' = apc /\ localIDs' = localIDs
    BY <1>6 DEF IndexLocal
  <2>2. ReceiverType' /\ ~Receiving'
    BY <1>1, <1>2, <2>1 DEF IInv, TypeOK, ReceiverType, Receiving
  <2>3. InputOK' /\ TypeOK' /\ SenderOK' /\ ToReceiver' /\ ToSender'
    BY <1>1, <2>1, <2>2, ReceiverQuiet
  <2>4. ReceiverOK'
    BY <1>1, <1>2, <1>3, <2>1 DEF IInv, ReceiverOK
  <2>5. MatchOK'
    BY <1>1, <1>2, <1>3 DEF IInv, MatchOK, Both
  <2>6. IndexOK'
    BY <1>1, <1>2, <1>3, <2>1, IndexFrame DEF IInv
  <2> QED BY <2>3, <2>4, <2>5, <2>6 DEF IInv
<1> QED BY <1>5, <1>6

LEMMA ShuffleTakeStep ==
    ASSUME IInv, ShuffleTake PROVE IInv'
<1>1. /\ UNCHANGED <<input, sender, s2r, r2s, aOut>> /\ UNCHANGED mainLoop
      /\ rpc = "loop" /\ apc = "shuffle" /\ aTaken' = aTaken + 1 /\ aOut' = aOut
      /\ apc' = IF aTaken + 1 = rN THEN "write" ELSE "index"
  BY DEF ShuffleTake, Looping, net
<1>2. /\ rpc' = rpc /\ rMax' = rMax /\ rSeq' = rSeq /\ remoteIDs' = remoteIDs /\ localIDs' = localIDs
      /\ bpc' = bpc /\ bMax' = bMax /\ bSeq' = bSeq /\ bPt' = bPt /\ intersection' = intersection
  BY DEF ShuffleTake, stage1, stage22, mainLoop
<1>3. /\ UNCHANGED input /\ sIds' = sIds /\ sN' = sN /\ sPerm' = sPerm /\ rIds' = rIds
      /\ rN' = rN /\ rPerm' = rPerm /\ sOut' = sOut /\ sSeq' = sSeq
  BY <1>1, InputFrame DEF IInv, sender
<1>4. rN \in Nat /\ Len(rIds) \in Nat /\ aTaken \in Nat /\ aOut \in Nat
  BY Numbers DEF IInv
<1>5. apc' \in {"write", "index"}
  BY <1>1
<1>6. ReceiverType'
  BY <1>1, <1>2, <1>4, <1>5 DEF IInv, TypeOK, ReceiverType
<1>7. Receiving' = Receiving /\ GotByR' = GotByR
  BY <1>2, <1>3 DEF Receiving, GotByR, GotBack
<1>8. InputOK' /\ TypeOK' /\ SenderOK' /\ ToReceiver' /\ ToSender'
  BY <1>1, <1>5, <1>6, <1>7, ReceiverQuiet
<1>9. ReceiverOK'
  <2>1. /\ aTaken < rN /\ aTaken < Len(rIds) /\ (aOut > 0 => aTaken = rN) /\ rSeq <= sOut
        /\ rMax = sN /\ rSeq = sN /\ bpc # "off"
        /\ localIDs \in [0..(rN - 1) -> Ids \cup {NoId}]
        /\ \A i \in 0..(aTaken - 1) : localIDs[i] = rIds[i + 1]
        /\ localIDs[aTaken] = rIds[aTaken + 1]
    BY <1>1 DEF IInv, ReceiverOK
  <2>2. \A i \in 0..(aTaken' - 1) : localIDs[i] = rIds[i + 1]
    BY <1>1, <1>4, <2>1
  <2>3. aOut = 0 /\ aTaken + 1 <= rN /\ aTaken + 1 <= Len(rIds)
    BY <1>4, <2>1
  <2> QED BY <1>1, <1>2, <1>3, <1>4, <2>1, <2>2, <2>3 DEF ReceiverOK
<1>10. MatchOK'
  BY <1>1, <1>2, <1>3 DEF IInv, MatchOK, Both
<1>11. IndexOK'
  BY <1>1, <1>2, <1>3, IndexFrame DEF IInv
<1> QED BY <1>8, <1>9, <1>10, <1>11 DEF IInv

LEMMA ShuffleWriteStep ==
    ASSUME IInv, ShuffleWrite PROVE IInv'
<1>1. /\ UNCHANGED <<input, sender, stage1, stage22, mainLoop, aTaken, s2r>>
      /\ rpc = "loop" /\ apc = "write" /\ aTaken' = aTaken /\ aOut' = aOut + 1
      /\ apc' = (IF aOut + 1 = rN THEN "index" ELSE "write")
      /\ r2s' = Append(r2s, RPoint(aOut))
  BY DEF ShuffleWrite, Looping, RPoint
<1>2. /\ rpc' = rpc /\ rMax' = rMax /\ rSeq' = rSeq /\ remoteIDs' = remoteIDs /\ localIDs' = localIDs
      /\ bpc' = bpc /\ bMax' = bMax /\ bSeq' = bSeq /\ bPt' = bPt /\ intersection' = intersection
  BY <1>1 DEF stage1, stage22, mainLoop
<1>3. /\ UNCHANGED input /\ sIds' = sIds /\ sN' = sN /\ sPerm' = sPerm /\ rIds' = rIds
      /\ rN' = rN /\ rPerm' = rPerm /\ sOut' = sOut /\ sSeq' = sSeq
  BY <1>1, InputFrame DEF IInv, sender
<1>4. /\ rN \in Nat /\ Len(rIds) \in Nat /\ GotByS \in Nat /\ Len(r2s) \in Nat /\ aTaken \in Nat
      /\ aOut \in Nat /\ sSeq \in Nat
  BY Numbers DEF IInv
<1>5. aTaken = rN /\ aOut < rN /\ aTaken <= Len(rIds)
  BY <1>1 DEF IInv, ReceiverOK
<1>6. RPoint(aOut) \in Message
  <2>1. aOut \in 0..(rN - 1) /\ rN <= Len(rIds)
    BY <1>4, <1>5
  <2>2. rIds[rPerm[aOut] + 1] \in Ids
    BY <2>1, PointsInRange DEF IInv
  <2> QED BY <2>2, MessageType DEF RPoint
<1>7. Sending => GotByS + Len(r2s) = 1 + aOut
  BY <1>1 DEF IInv, ToSender
<1>8. apc' \in {"index", "write"} /\ aOut' \in Nat /\ aOut <= aOut'
  BY <1>1, <1>4
<1>9. ReceiverType'
  BY <1>1, <1>2, <1>8 DEF IInv, TypeOK, ReceiverType
<1>10. InputOK' /\ TypeOK' /\ SenderOK' /\ ToReceiver' /\ ToSender'
  <2>1. RMsg(aOut + 2) = RPoint(aOut)
    BY <1>4, Streams DEF IInv
  <2>2. ASSUME Sending PROVE GotByS + Len(r2s) + 1 = aOut + 2 /\ GotByS + Len(r2s) = aOut'
    BY <1>1, <1>4, <1>7, <2>2
  <2>3. Sending => RPoint(aOut) = RMsg(GotByS + Len(r2s) + 1) /\ GotByS + Len(r2s) = aOut'
    BY <2>1, <2>2
  <2> QED BY <1>1, <1>6, <1>8, <1>9, <2>3, ReceiverPut
<1>11. ReceiverOK'
  <2>1. aOut + 1 <= rN /\ (aOut + 1 # rN => aOut + 1 < rN)
    BY <1>4, <1>5
  <2> QED BY <1>1, <1>2, <1>3, <1>5, <2>1 DEF IInv, ReceiverOK
<1>12. MatchOK'
  <2>1. sSeq <= aOut'
    <3>1. sSeq <= aOut
      BY DEF IInv, MatchOK
    <3> QED BY <1>1, <1>4, <3>1
  <2> QED BY <1>2, <1>3, <2>1 DEF IInv, MatchOK, Both
<1>13. IndexOK'
  BY <1>1, <1>2, <1>3, IndexFrame DEF IInv
<1> QED BY <1>10, <1>11, <1>12, <1>13 DEF IInv

\* Steps in which stage21 returns.
LEMMA ShuffleEndStep ==
    ASSUME IInv, ShuffleDone \/ ShuffleFails PROVE IInv'
<1>1. /\ UNCHANGED <<input, sender, s2r, r2s, aOut>> /\ UNCHANGED mainLoop
      /\ rpc = "loop" /\ apc # "off" /\ aTaken' = aTaken /\ aOut' = aOut
      /\ \/ apc' = "error"
         \/ apc' = "nil" /\ apc = "index" /\ aTaken = Len(rIds)
  BY DEF ShuffleDone, ShuffleFails, Looping, net
<1>2. /\ rpc' = rpc /\ rMax' = rMax /\ rSeq' = rSeq /\ remoteIDs' = remoteIDs /\ localIDs' = localIDs
      /\ bpc' = bpc /\ bMax' = bMax /\ bSeq' = bSeq /\ bPt' = bPt /\ intersection' = intersection
  BY DEF ShuffleDone, ShuffleFails, stage1, stage22, mainLoop
<1>3. /\ UNCHANGED input /\ sIds' = sIds /\ sN' = sN /\ sPerm' = sPerm /\ rIds' = rIds
      /\ rN' = rN /\ rPerm' = rPerm /\ sOut' = sOut /\ sSeq' = sSeq
  BY <1>1, InputFrame DEF IInv, sender
<1>4. ReceiverType'
  BY <1>1, <1>2 DEF IInv, TypeOK, ReceiverType
<1>5. Receiving' = Receiving /\ GotByR' = GotByR
  BY <1>2, <1>3 DEF Receiving, GotByR, GotBack
<1>6. InputOK' /\ TypeOK' /\ SenderOK' /\ ToReceiver' /\ ToSender'
  BY <1>1, <1>4, <1>5, ReceiverQuiet
<1>7. ReceiverOK'
  BY <1>1, <1>2, <1>3 DEF IInv, ReceiverOK
<1>8. MatchOK'
  BY <1>1, <1>2, <1>3 DEF IInv, MatchOK, Both
<1>9. IndexOK'
  BY <1>1, <1>2, <1>3, IndexFrame DEF IInv
<1> QED BY <1>6, <1>7, <1>8, <1>9 DEF IInv

\* A header that follows the sender's points is the relayed length.
LEMMA MatchHeaderStep ==
    ASSUME IInv, MatchHeader PROVE IInv'
<1>1. /\ UNCHANGED <<input, sender, stage21, r2s>> /\ UNCHANGED <<stage1, mainLoop, bSeq, bPt>>
      /\ rpc = "loop" /\ bpc = "header" /\ bpc' = "read" /\ CanRecv(s2r) /\ s2r' = Tail(s2r)
      /\ bMax' = Head(s2r).max
  BY DEF MatchHeader, Looping
<1>2. /\ rpc' = rpc /\ rMax' = rMax /\ rSeq' = rSeq /\ remoteIDs' = remoteIDs /\ localIDs' = localIDs
      /\ apc' = apc /\ aTaken' = aTaken /\ aOut' = aOut /\ bSeq' = bSeq /\ bPt' = bPt
      /\ intersection' = intersection
  BY <1>1 DEF stage1, stage21, mainLoop
<1>3. /\ UNCHANGED input /\ sIds' = sIds /\ sN' = sN /\ sPerm' = sPerm /\ rIds' = rIds
      /\ rN' = rN /\ rPerm' = rPerm /\ sOut' = sOut /\ sSeq' = sSeq
  BY <1>1, InputFrame DEF IInv, sender
<1>4. sN \in Nat /\ rN \in Nat /\ Len(s2r) \in Nat
  BY Numbers DEF IInv
<1>5. bSeq = 0
  BY <1>1 DEF IInv, MatchOK
<1>6. Receiving /\ GotByR = 1 + sN /\ GotByR' = GotByR + 1
  BY <1>1, <1>2, <1>3, <1>4, <1>5 DEF Receiving, GotByR, GotBack
<1>7. Head(s2r) = SMsg(GotByR + 1) /\ Len(s2r) \in Nat \ {0}
  BY <1>1, <1>6, ReceiverReads
<1>8. bMax' = rN
  <2>1. GotByR + 1 = sN + 2
    BY <1>4, <1>6
  <2>2. Head(s2r) = Header(rN)
    BY <1>7, <2>1, Streams DEF IInv
  <2> QED BY <1>1, <1>4, <2>2, MessageType
<1>9. Len(sIds) = sN
  <2>1. GotByR + Len(s2r) > 1 + sN
    BY <1>4, <1>6, <1>7
  <2> QED BY <1>6, <2>1 DEF IInv, ToReceiver
<1>10. ReceiverType'
  BY <1>1, <1>2, <1>4, <1>8 DEF IInv, TypeOK, ReceiverType
<1>11. InputOK' /\ TypeOK' /\ SenderOK' /\ ToReceiver' /\ ToSender'
  BY <1>1, <1>6, <1>10, ReceiverGet
<1>12. ReceiverOK'
  BY <1>1, <1>2, <1>3 DEF IInv, ReceiverOK
<1>13. MatchOK'
  BY <1>1, <1>2, <1>3, <1>4, <1>5, <1>8, <1>9 DEF IInv, MatchOK
<1>14. IndexOK'
  BY <1>2, <1>3, IndexFrame DEF IInv
<1> QED BY <1>11, <1>12, <1>13, <1>14 DEF IInv

\* A point that comes back is that of the identifier at its place.
LEMMA MatchReadStep ==
    ASSUME IInv, MatchRead PROVE IInv'
<1>1. /\ UNCHANGED <<input, sender, stage21, r2s>> /\ UNCHANGED <<stage1, mainLoop, bMax>>
      /\ rpc = "loop" /\ bpc = "read" /\ bSeq < bMax /\ CanRecv(s2r) /\ s2r' = Tail(s2r)
      /\ IF Head(s2r) \in remoteIDs
         THEN bpc' = "matched" /\ bPt' = Head(s2r) /\ bSeq' = bSeq
         ELSE bSeq' = bSeq + 1 /\ bpc' = bpc /\ bPt' = bPt
  BY DEF MatchRead, Looping
<1>2. /\ rpc' = rpc /\ rMax' = rMax /\ rSeq' = rSeq /\ remoteIDs' = remoteIDs /\ localIDs' = localIDs
      /\ apc' = apc /\ aTaken' = aTaken /\ aOut' = aOut /\ bMax' = bMax
      /\ intersection' = intersection
  BY <1>1 DEF stage1, stage21, mainLoop
<1>3. /\ UNCHANGED input /\ sIds' = sIds /\ sN' = sN /\ sPerm' = sPerm /\ rIds' = rIds
      /\ rN' = rN /\ rPerm' = rPerm /\ sOut' = sOut /\ sSeq' = sSeq /\ Common' = Common
  BY <1>1, InputFrame DEF IInv, sender
<1>4. /\ sN \in Nat /\ rN \in Nat /\ Len(s2r) \in Nat /\ bSeq \in Nat /\ sOut \in Nat /\ sSeq \in Nat
      /\ bMax \in Nat
  BY Numbers DEF IInv
<1>5. bMax = rN /\ Len(sIds) = sN
  BY <1>1 DEF IInv, MatchOK
<1>6. Receiving /\ GotByR = 2 + sN + bSeq /\ GotByR' = GotByR + 1
  <2>1. GotByR = 2 + sN + bSeq
    BY <1>1, <1>4 DEF GotByR, GotBack
  <2>2. GotByR' = 3 + sN + bSeq
    BY <1>1, <1>2, <1>3, <1>4 DEF GotByR, GotBack
  <2> QED BY <1>1, <1>4, <2>1, <2>2 DEF Receiving
<1>7. Head(s2r) = SMsg(GotByR + 1) /\ Len(s2r) \in Nat \ {0}
  BY <1>1, <1>6, ReceiverReads
<1>8. Head(s2r) = Both(rIds[rPerm[bSeq] + 1])
  <2>1. GotByR + 1 = sN + 3 + bSeq
    BY <1>4, <1>6
  <2> QED BY <1>4, <1>7, <2>1, Streams DEF IInv
<1>9. bSeq < rN /\ bSeq < sSeq
  <2>1. GotByR + Len(s2r) <= 2 + sOut + sSeq
    BY <1>6 DEF IInv, ToReceiver
  <2>2. sOut <= sN
    BY DEF IInv, SenderOK
  <2> QED BY <1>1, <1>4, <1>5, <1>6, <1>7, <2>1, <2>2
<1>10. ReceiverType'
  BY <1>1, <1>2, <1>4 DEF IInv, TypeOK, ReceiverType
<1>11. InputOK' /\ TypeOK' /\ SenderOK' /\ ToReceiver' /\ ToSender'
  BY <1>1, <1>6, <1>10, ReceiverGet
<1>12. ReceiverOK'
  <2>1. bpc' # "off"
    BY <1>1
  <2> QED BY <1>1, <1>2, <1>3, <2>1 DEF IInv, ReceiverOK
<1>13. MatchOK'
  <2>1. CASE Head(s2r) \in remoteIDs
    <3>1. bpc' = "matched" /\ bPt' = Both(rIds[rPerm[bSeq] + 1]) /\ bSeq' = bSeq /\ bPt' \in remoteIDs
      BY <1>1, <1>8, <2>1
    <3>2. bSeq <= rN /\ bSeq <= sSeq /\ sSeq <= aOut
      BY <1>4, <1>9 DEF IInv, MatchOK
    <3> QED BY <1>2, <1>3, <1>5, <1>9, <3>1, <3>2 DEF MatchOK, Both
  <2>2. CASE Head(s2r) \notin remoteIDs
    <3>1. bpc' = "read" /\ bSeq' = bSeq + 1
      BY <1>1, <2>2
    <3>2. bSeq + 1 <= rN /\ bSeq + 1 <= sSeq /\ sSeq <= aOut
      BY <1>4, <1>9 DEF IInv, MatchOK
    <3> QED BY <1>2, <1>3, <1>5, <3>1, <3>2 DEF MatchOK
  <2> QED BY <2>1, <2>2
<1>14. IndexOK'
  <2>1. CASE Head(s2r) \in remoteIDs
    BY <1>1, <1>2, <1>3, <2>1, IndexFrame DEF IInv
  <2>2. CASE Head(s2r) \notin remoteIDs
    <3>1. bSeq' = bSeq + 1
      BY <1>1, <2>2
    <3>2. ASSUME apc # "off", NEW i \in 0..(bSeq' - 1)
          PROVE  Both(rIds[rPerm[i] + 1]) \notin remoteIDs
      <4>1. CASE i = bSeq
        BY <1>8, <2>2, <4>1
      <4>2. CASE i # bSeq
        <5>1. i \in 0..(bSeq - 1)
          BY <1>4, <3>1, <4>2
        <5> QED BY <3>2, <5>1 DEF IInv, IndexOK
      <4> QED BY <4>1, <4>2
    <3>3. Reported' = Reported
      BY <1>2 DEF Reported
    <3> QED BY <1>2, <1>3, <3>2, <3>3 DEF IInv, IndexOK
  <2> QED BY <2>1, <2>2
<1> QED BY <1>11, <1>12, <1>13, <1>14 DEF IInv

\* A match is looked up under the place of its point in the shuffle, where the
\* identifier has been stored; it is common to both parties, and new.
LEMMA MatchedStep ==
    ASSUME IInv, Matched PROVE IInv'
<1> DEFINE x == rIds[rPerm[bSeq] + 1]
<1>1. /\ UNCHANGED <<input, sender, s2r, r2s, aOut>> /\ UNCHANGED stage21
      /\ rpc = "loop" /\ bpc = "matched" /\ bpc' = "read" /\ bSeq' = bSeq + 1
      /\ intersection' = Append(intersection, localIDs[rPerm[bSeq]])
      /\ remoteIDs' = remoteIDs \ {bPt}
  BY DEF Matched, Looping, net, stage21
<1>2. /\ rpc' = rpc /\ rMax' = rMax /\ rSeq' = rSeq /\ localIDs' = localIDs
      /\ apc' = apc /\ aTaken' = aTaken /\ aOut' = aOut /\ bMax' = bMax /\ bPt' = bPt
  BY <1>1 DEF Matched, stage21
<1>3. /\ UNCHANGED input /\ sIds' = sIds /\ sN' = sN /\ sPerm' = sPerm /\ rIds' = rIds
      /\ rN' = rN /\ rPerm' = rPerm /\ sOut' = sOut /\ sSeq' = sSeq /\ Common' = Common
  BY <1>1, InputFrame DEF IInv, sender
<1>4. /\ rN \in Nat /\ sN \in Nat /\ bSeq \in Nat /\ sSeq \in Nat /\ aOut \in Nat /\ aTaken \in Nat
      /\ Len(rIds) \in Nat /\ rSeq \in Nat
  BY Numbers DEF IInv
<1>5. /\ bSeq < rN /\ bSeq < sSeq /\ sSeq <= aOut /\ bMax = rN /\ Len(sIds) = sN
      /\ bPt = Both(x) /\ bPt \in remoteIDs
  BY <1>1 DEF IInv, MatchOK
<1>6. rPerm[bSeq] \in 0..(rN - 1) /\ rPerm[bSeq] + 1 \in 1..Len(rIds) /\ x \in Ids /\ aTaken = rN
  <2>1. (aOut > 0 => aTaken = rN) /\ aTaken <= Len(rIds)
    BY DEF IInv, ReceiverOK
  <2>2. bSeq \in 0..(rN - 1) /\ rN <= Len(rIds) /\ aTaken = rN
    BY <1>4, <1>5, <2>1
  <2> QED BY <2>2, PointsInRange DEF IInv
<1>7. localIDs[rPerm[bSeq]] = x
  BY <1>6 DEF IInv, ReceiverOK
<1>8. x \in Common
  <2>1. PICK k \in 1..Len(sIds) : bPt = Both(sIds[k])
    BY <1>5 DEF IInv, IndexOK
  <2>2. x = sIds[k]
    BY <1>5, <2>1, BothInjective
  <2>3. DOMAIN sIds = 1..Len(sIds) /\ DOMAIN rIds = 1..Len(rIds)
    BY DEF IInv, InputOK
  <2>4. x \in ToSet(sIds) /\ x \in ToSet(rIds)
    BY <1>6, <2>2, <2>3 DEF ToSet
  <2> QED BY <2>4 DEF Common
<1>9. /\ intersection \in Seq(Ids) /\ Len(intersection) \in Nat
      /\ \A k \in 1..Len(intersection) :
            /\ intersection[k] \in Common /\ Both(intersection[k]) \notin remoteIDs
            /\ \A j \in 1..Len(intersection) : j # k => intersection[j] # intersection[k]
  BY DEF IInv, IndexOK
<1>10. /\ intersection' \in Seq(Ids) /\ Len(intersection') = Len(intersection) + 1
       /\ \A j \in 1..Len(intersection) : intersection'[j] = intersection[j]
       /\ intersection'[Len(intersection) + 1] = x
  <2> HIDE DEF x
  <2> QED BY <1>1, <1>6, <1>7, <1>9, Appended
<1>11. remoteIDs' = remoteIDs \ {Both(x)} /\ Both(x) \in remoteIDs
  BY <1>1, <1>5
<1>12. ReceiverType'
  BY <1>1, <1>2, <1>4 DEF IInv, TypeOK, ReceiverType
<1>13. Receiving' /\ Receiving /\ GotByR' = GotByR
  BY <1>1, <1>2, <1>3, <1>4 DEF Receiving, GotByR, GotBack
<1>14. InputOK' /\ TypeOK' /\ SenderOK' /\ ToReceiver' /\ ToSender'
  BY <1>1, <1>2, <1>12, <1>13, ReceiverQuiet
<1>15. ReceiverOK'
  BY <1>1, <1>2, <1>3 DEF IInv, ReceiverOK
<1>16. MatchOK'
  <2>1. bSeq + 1 <= rN /\ bSeq + 1 <= sSeq
    BY <1>4, <1>5
  <2> QED BY <1>1, <1>2, <1>3, <1>5, <2>1 DEF MatchOK
<1> HIDE DEF x
<1>17. x \in Reported' /\ Reported \subseteq Reported'
  BY <1>9, <1>10 DEF Reported
<1>18. IndexOK'
  <2>1. remoteIDs' \subseteq {Both(sIds[k]) : k \in 1..Len(sIds)}
    BY <1>11 DEF IInv, IndexOK
  <2>2. ASSUME NEW i \in 0..(rSeq - 1)
        PROVE  Both(sIds[sPerm[i] + 1]) \in remoteIDs' \/ sIds[sPerm[i] + 1] \in Reported'
    <3>1. Both(sIds[sPerm[i] + 1]) \in remoteIDs \/ sIds[sPerm[i] + 1] \in Reported
      BY DEF IInv, IndexOK
    <3>2. CASE Both(sIds[sPerm[i] + 1]) = Both(x)
      BY <1>17, <3>2, BothInjective
    <3>3. CASE Both(sIds[sPerm[i] + 1]) # Both(x)
      BY <1>11, <1>17, <3>1, <3>3
    <3> QED BY <3>2, <3>3
  <2>3. ASSUME apc # "off", NEW i \in 0..(bSeq' - 1)
        PROVE  Both(rIds[rPerm[i] + 1]) \notin remoteIDs'
    <3>1. CASE i = bSeq
      BY <1>11, <3>1 DEF x
    <3>2. CASE i # bSeq
      <4>1. i \in 0..(bSeq - 1)
        BY <1>1, <1>4, <3>2
      <4> QED BY <1>11, <2>3, <4>1 DEF IInv, IndexOK
    <3> QED BY <3>1, <3>2
  <2>4. \A k \in 1..Len(intersection) : intersection[k] # x
    BY <1>9, <1>11
  <2>5. \A k \in 1..Len(intersection') :
            k = Len(intersection) + 1 \/ k \in 1..Len(intersection)
    BY <1>9, <1>10
  <2>6. ASSUME NEW k \in 1..Len(intersection')
        PROVE  /\ intersection'[k] \in Common /\ Both(intersection'[k]) \notin remoteIDs'
               /\ \A j \in 1..Len(intersection') : j # k => intersection'[j] # intersection'[k]
    <3>1. CASE k = Len(intersection) + 1
      BY <1>8, <1>10, <1>11, <2>4, <2>5, <3>1
    <3>2. CASE k \in 1..Len(intersection)
      BY <1>9, <1>10, <1>11, <2>4, <2>5, <3>2
    <3> QED BY <2>5, <3>1, <3>2
  <2> QED BY <1>2, <1>3, <1>10, <2>1, <2>2, <2>3, <2>6 DEF IndexOK
<1> QED BY <1>14, <1>15, <1>16, <1>18 DEF IInv

\* Steps in which stage22 returns.
LEMMA MatchEndStep ==
    ASSUME IInv, MatchDone \/ MatchFails PROVE IInv'
<1>1. /\ UNCHANGED <<input, sender, s2r, r2s, aOut>> /\ UNCHANGED <<stage1, stage21, mainLoop>>
      /\ rpc = "loop" /\ bMax' = bMax /\ bSeq' = bSeq /\ bPt' = bPt
      /\ \/ bpc' = "error"
         \/ bpc' = "nil" /\ bpc = "read" /\ bSeq = bMax
  BY DEF MatchDone, MatchFails, Looping, net, stage21
<1>2. /\ rpc' = rpc /\ rMax' = rMax /\ rSeq' = rSeq /\ remoteIDs' = remoteIDs /\ localIDs' = localIDs
      /\ apc' = apc /\ aTaken' = aTaken /\ aOut' = aOut /\ intersection' = intersection
  BY <1>1 DEF stage1, stage21, mainLoop
<1>3. /\ UNCHANGED input /\ sIds' = sIds /\ sN' = sN /\ sPerm' = sPerm /\ rIds' = rIds
      /\ rN' = rN /\ rPerm' = rPerm /\ sOut' = sOut /\ sSeq' = sSeq
  BY <1>1, InputFrame DEF IInv, sender
<1>4. ReceiverType' /\ ~Receiving'
  BY <1>1, <1>2 DEF IInv, TypeOK, ReceiverType, Receiving
<1>5. InputOK' /\ TypeOK' /\ SenderOK' /\ ToReceiver' /\ ToSender'
  BY <1>1, <1>2, <1>4, ReceiverQuiet
<1>6. ReceiverOK'
  BY <1>1, <1>2, <1>3 DEF IInv, ReceiverOK
<1>7. MatchOK'
  BY <1>1, <1>2, <1>3 DEF IInv, MatchOK
<1>8. IndexOK'
  BY <1>1, <1>2, <1>3, IndexFrame DEF IInv
<1> QED BY <1>5, <1>6, <1>7, <1>8 DEF IInv

\* A connection that breaks, and a step in which nothing happens.
LEMMA OtherStep ==
    ASSUME IInv, Drop \/ UNCHANGED vars PROVE IInv'
<1>1. UNCHANGED <<input, sender, receiver, s2r, r2s>>
  BY DEF Drop, vars, net
<1>2. /\ spc' = spc /\ sTaken' = sTaken /\ sOut' = sOut /\ sMax' = sMax /\ sSeq' = sSeq /\ sPt' = sPt
      /\ rpc' = rpc /\ rMax' = rMax /\ rSeq' = rSeq /\ remoteIDs' = remoteIDs /\ localIDs' = localIDs
      /\ apc' = apc /\ aTaken' = aTaken /\ aOut' = aOut /\ bpc' = bpc /\ bMax' = bMax /\ bSeq' = bSeq
      /\ bPt' = bPt /\ intersection' = intersection /\ s2r' = s2r /\ r2s' = r2s
  BY <1>1 DEF sender, receiver, stage1, stage21, stage22, mainLoop
<1>3. ReceiverType' /\ Receiving' = Receiving /\ GotByR' = GotByR
  <2>1. sN' = sN
    BY <1>1 DEF input
  <2> QED BY <1>2, <2>1 DEF IInv, TypeOK, ReceiverType, Receiving, GotByR, GotBack
<1>4. InputOK' /\ TypeOK' /\ SenderOK' /\ ToReceiver' /\ ToSender'
  BY <1>1, <1>2, <1>3, ReceiverQuiet
<1>5. /\ UNCHANGED input /\ sIds' = sIds /\ sN' = sN /\ sPerm' = sPerm /\ rIds' = rIds
      /\ rN' = rN /\ rPerm' = rPerm
  BY <1>1, InputFrame DEF IInv
<1>6. ReceiverOK'
  BY <1>2, <1>5 DEF IInv, ReceiverOK
<1>7. MatchOK'
  BY <1>2, <1>5 DEF IInv, MatchOK, Both
<1>8. IndexOK'
  BY <1>2, <1>5, IndexFrame DEF IInv
<1> QED BY <1>4, <1>6, <1>7, <1>8 DEF IInv

LEMMA NextIInv ==
    ASSUME IInv, [Next]_vars PROVE IInv'
<1>1. CASE Sender
  BY <1>1, SendHeaderStep, SendTakeStep, SendWriteStep, SendStage1DoneStep, RelayReadHeaderStep,
     RelayWriteHeaderStep, RelayReadStep, RelayWriteStep, SenderEndStep DEF Sender
<1>2. CASE SenderCancel
  BY <1>2, SenderEndStep
<1>3. CASE ReceiverMain
  BY <1>3, IndexHeaderStep, IndexPointStep, IndexDoneStep, ReceiverEndStep DEF ReceiverMain
<1>4. CASE Stage21
  BY <1>4, ShuffleHeaderStep, IndexLocalStep, ShuffleTakeStep, ShuffleWriteStep, ShuffleEndStep
     DEF Stage21
<1>5. CASE Stage22
  BY <1>5, MatchHeaderStep, MatchReadStep, MatchedStep, MatchEndStep DEF Stage22
<1>6. CASE ReceiverCancel
  BY <1>6, ReceiverEndStep
<1>7. CASE Drop \/ UNCHANGED vars
  BY <1>7, OtherStep
<1> QED BY <1>1, <1>2, <1>3, <1>4, <1>5, <1>6, <1>7 DEF Next

----------------------------------------------------------------------------
(* What the invariant says of the results.                                 *)

\* As many entries as identifiers: none is reported twice.
LEMMA SoundPart ==
    ASSUME IInv PROVE PartialIsSound
<1> DEFINE n == Len(intersection)
           S == ToSet(intersection)
<1>1. /\ intersection \in Seq(Ids) /\ n \in Nat /\ DOMAIN intersection = 1..n
      /\ \A k \in 1..n : /\ intersection[k] \in Common
                         /\ \A j \in 1..n : j # k => intersection[j] # intersection[k]
  BY DEF IInv, IndexOK
<1>2. S = {intersection[k] : k \in 1..n}
  BY <1>1 DEF ToSet
<1>3. S \subseteq Common
  BY <1>1, <1>2
<1>4. ExistsBijection(1..n, S)
  <2>1. [k \in 1..n |-> intersection[k]] \in Bijection(1..n, S)
    BY <1>1, <1>2 DEF Bijection, Injection, Surjection, IsInjective
  <2> QED BY <2>1 DEF ExistsBijection
<1>5. IsFiniteSet(1..n) /\ Cardinality(1..n) = n
  <2>1. \A m \in Nat : IsFiniteSet(1..m) /\ Cardinality(1..m) = m
    BY FS_Interval
  <2> QED BY <1>1, <2>1
<1>6. Cardinality(S) = n
  BY <1>4, <1>5, FS_Bijection
<1> QED BY <1>3, <1>6 DEF PartialIsSound

\* A nil result takes every point the receiver announced through both streams,
\* so neither party had fewer identifiers than it announced.
LEMMA NotShort ==
    ASSUME IInv PROVE ShortIsNeverNil
<1>1. /\ rN \in Nat /\ sN \in Nat /\ bSeq \in Nat /\ sSeq \in Nat /\ aOut \in Nat /\ aTaken \in Nat
      /\ Len(rIds) \in Nat /\ Len(sIds) \in Nat
  BY Numbers DEF IInv
<1>2. (aOut > 0 => aTaken = rN) /\ aTaken <= Len(rIds)
  BY DEF IInv, ReceiverOK
<1>3. sSeq <= aOut /\ bSeq <= sSeq
  BY DEF IInv, MatchOK
<1>4. ASSUME spc = "nil" PROVE ~Short
  <2>1. Len(sIds) = sN /\ sSeq = rN
    BY <1>4 DEF IInv, SenderOK
  <2> QED BY <1>1, <1>2, <1>3, <2>1 DEF Short
<1>5. ASSUME rpc = "nil" PROVE ~Short
  <2>1. bpc = "nil"
    BY <1>5 DEF IInv, ReceiverOK
  <2>2. Len(sIds) = sN /\ bSeq = rN
    BY <2>1 DEF IInv, MatchOK
  <2> QED BY <1>1, <1>2, <1>3, <2>2 DEF Short
<1> QED BY <1>4, <1>5 DEF ShortIsNeverNil

\* With every point read back, a common identifier whose point is no longer
\* indexed has been reported.
LEMMA WholeResult ==
    ASSUME IInv PROVE ExactIntersection
<1> SUFFICES ASSUME rpc = "nil"
             PROVE  ToSet(intersection) = Common /\ Len(intersection) = Cardinality(Common)
  BY DEF ExactIntersection
<1>1. /\ rN \in Nat /\ sN \in Nat /\ bSeq \in Nat /\ sSeq \in Nat /\ aOut \in Nat /\ aTaken \in Nat
      /\ Len(rIds) \in Nat /\ Len(sIds) \in Nat
  BY Numbers DEF IInv
<1>2. /\ apc = "nil" /\ bpc = "nil" /\ rSeq = sN /\ aTaken = Len(rIds) /\ aTaken <= rN
      /\ (aOut > 0 => aTaken = rN)
  BY DEF IInv, ReceiverOK
<1>3. Len(sIds) = sN /\ bSeq = rN /\ sSeq <= aOut /\ bSeq <= sSeq
  BY <1>2 DEF IInv, MatchOK
<1>4. Len(rIds) = rN
  BY <1>1, <1>2, <1>3
<1>5. ASSUME NEW x \in Common PROVE x \in ToSet(intersection)
  <2>1. DOMAIN sIds = 1..Len(sIds) /\ DOMAIN rIds = 1..Len(rIds) /\ sPerm \in Permutation(sN)
        /\ rPerm \in Permutation(rN)
    BY DEF IInv, InputOK
  <2>2. PICK k \in 1..sN : x = sIds[k]
    BY <1>3, <2>1 DEF Common, ToSet
  <2>3. PICK l \in 1..rN : x = rIds[l]
    BY <1>4, <2>1 DEF Common, ToSet
  <2>4. k - 1 \in 0..(sN - 1) /\ (k - 1) + 1 = k /\ l - 1 \in 0..(rN - 1) /\ (l - 1) + 1 = l
    BY <1>1
  <2>5. PICK i \in 0..(sN - 1) : sPerm[i] = k - 1
    BY <1>1, <2>1, <2>4, PermutationOnto
  <2>6. PICK j \in 0..(rN - 1) : rPerm[j] = l - 1
    BY <1>1, <2>1, <2>4, PermutationOnto
  <2>7. sIds[sPerm[i] + 1] = x /\ rIds[rPerm[j] + 1] = x
    BY <2>2, <2>3, <2>4, <2>5, <2>6
  <2>8. Both(x) \in remoteIDs \/ x \in Reported
    BY <1>2, <2>7 DEF IInv, IndexOK
  <2>9. Both(x) \notin remoteIDs
    BY <1>2, <1>3, <2>7 DEF IInv, IndexOK
  <2>10. DOMAIN intersection = 1..Len(intersection)
    BY DEF IInv, IndexOK
  <2> QED BY <2>8, <2>9, <2>10 DEF Reported, ToSet
<1>6. ToSet(intersection) \subseteq Common /\ Len(intersection) = Cardinality(ToSet(intersection))
  BY SoundPart DEF PartialIsSound
<1>7. ToSet(intersection) = Common
  BY <1>5, <1>6
<1> QED BY <1>6, <1>7

----------------------------------------------------------------------------
(* Theorems.                                                               *)

\* Both streams carry what the parties wrote, in order and in full, and the
\* receiver's index and result agree on what has been matched, for inputs of
\* any length: the inductive invariant of the exchange.
THEOREM Invariance == Spec => []IInv
<1>1. Init => IInv
  BY InitIInv
<1>2. IInv /\ [Next]_vars => IInv'
  BY NextIInv
<1> QED BY <1>1, <1>2, PTL DEF Spec

\* Whatever fails, what Intersect has reported so far is common to both
\* parties and reported once (receiver.go, the main loop of Intersect).
THEOREM SoundCorrect == Spec => []PartialIsSound
<1>1. IInv => PartialIsSound
  BY SoundPart
<1> QED BY <1>1, Invariance, PTL

\* A nil result of Intersect is the intersection, each identifier once, for
\* every input, shuffle, capacity and interleaving.
THEOREM ResultCorrect == Spec => []ExactIntersection
<1>1. IInv => ExactIntersection
  BY WholeResult
<1> QED BY <1>1, Invariance, PTL

\* A party that announces more identifiers than it has makes neither Send nor
\* Intersect return nil.
THEOREM ShortCorrect == Spec => []ShortIsNeverNil
<1>1. IInv => ShortIsNeverNil
  BY NotShort
<1> QED BY <1>1, Invariance, PTL
==============================================================================
