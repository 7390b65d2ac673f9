------------------------------ MODULE PSIProofs ------------------------------
(***************************************************************************)
(* The exchanges behind the factory, for inputs of any length and any      *)
(* capacity of the connection.                                             *)
(***************************************************************************)
EXTENDS PSI, FiniteSetTheorems, TLAPS

----------------------------------------------------------------------------
(* BPSI.                                                                   *)

\* The filter on its way and the filter read are the sender's, and complete:
\* the sender writes when every identifier is in it, and adds no more.
FilterOK ==
    /\ spc \in {"add", "write", "nil", "error"} /\ rpc \in {"read", "check", "nil", "error"}
    /\ sIds \in Seq(Ids) /\ rIds \in Seq(Ids)
    /\ sTaken \in Nat /\ sTaken <= Len(sIds) /\ rTaken \in Nat /\ rTaken <= Len(rIds)
    /\ rGot \in Nat
    /\ \A k \in 1..sTaken : bits[sIds[k]] \subseteq bf
    /\ s2r \in Seq({bf})
    /\ spc = "add" => s2r = <<>> /\ rGot = 0
    /\ (spc = "write" \/ s2r # <<>> \/ rGot > 0) => sTaken = Len(sIds)
    /\ rGot > 0 => rbf = bf
    /\ rpc \in {"check", "nil"} => rGot = 3
    /\ rpc = "nil" => rTaken = Len(rIds)

\* Every identifier of the sender that was checked is in the result.
CheckedOK ==
    /\ intersection \in Seq(Ids)
    /\ \A k \in 1..rTaken : (\E l \in 1..Len(sIds) : sIds[l] = rIds[k]) =>
          \E j \in 1..Len(intersection) : intersection[j] = rIds[k]

BInv == protocol = "bpsi" => FilterOK /\ CheckedOK

LEMMA InputsAreSeqs ==
    \A in \in Inputs : /\ in.sIds \in Seq(Ids) /\ in.rIds \in Seq(Ids)
                       /\ in.sN \in Nat /\ in.rN \in Nat
  BY KKRTAssumption

LEMMA InitBInv ==
    ASSUME NewPSI PROVE BInv
<1> SUFFICES ASSUME protocol = "bpsi" PROVE FilterOK /\ CheckedOK
  BY DEF BInv
<1>1. B!Init
  BY DEF NewPSI
<1>2. sIds \in Seq(Ids) /\ rIds \in Seq(Ids) /\ Len(sIds) \in Nat /\ Len(rIds) \in Nat
  BY <1>1, InputsAreSeqs DEF B!Init
<1>3. /\ spc = "add" /\ rpc = "read" /\ sTaken = 0 /\ rTaken = 0 /\ rGot = 0 /\ s2r = <<>>
      /\ intersection = <<>>
  BY <1>1 DEF B!Init, B!InitState
<1> QED BY <1>2, <1>3 DEF FilterOK, CheckedOK

\* Steps that do not touch the filter, what was checked or the connection.
LEMMA FilterControl ==
    ASSUME FilterOK, CheckedOK,
           sIds' = sIds, rIds' = rIds, bits' = bits, sTaken' = sTaken, bf' = bf, rGot' = rGot,
           rbf' = rbf, rTaken' = rTaken, intersection' = intersection, s2r' = s2r,
           \/ spc' = spc
           \/ spc' \in {"nil", "error"}
           \/ spc' = "write" /\ sTaken = Len(sIds),
           \/ rpc' = rpc
           \/ rpc' = "error"
           \/ rpc' = "nil" /\ rpc = "check" /\ rTaken = Len(rIds)
    PROVE  FilterOK' /\ CheckedOK'
<1>1. FilterOK'
  BY DEF FilterOK
<1>2. CheckedOK'
  BY DEF CheckedOK
<1> QED BY <1>1, <1>2

LEMMA AddStep ==
    ASSUME FilterOK, CheckedOK, B!Add PROVE FilterOK' /\ CheckedOK'
<1>1. /\ sIds' = sIds /\ rIds' = rIds /\ bits' = bits /\ spc' = spc /\ rpc' = rpc /\ rGot' = rGot
      /\ rbf' = rbf /\ rTaken' = rTaken /\ intersection' = intersection /\ s2r' = s2r
      /\ spc = "add" /\ sTaken < Len(sIds) /\ sTaken' = sTaken + 1
      /\ bf' = bf \cup bits[sIds[sTaken + 1]]
  BY DEF B!Add, B!Added, B!input, B!receiver
<1>2. s2r = <<>> /\ rGot = 0 /\ sTaken \in Nat /\ Len(sIds) \in Nat
  BY <1>1 DEF FilterOK
<1>3. \A k \in 1..sTaken' : bits[sIds[k]] \subseteq bf'
  <2> TAKE k \in 1..sTaken'
  <2>1. CASE k = sTaken + 1
    BY <1>1, <2>1
  <2>2. CASE k # sTaken + 1
    <3>1. k \in 1..sTaken
      BY <1>1, <1>2, <2>2
    <3> QED BY <1>1, <3>1 DEF FilterOK
  <2> QED BY <2>1, <2>2
<1>4. s2r' \in Seq({bf'}) /\ s2r' = <<>> /\ rGot' = 0
  BY <1>1, <1>2
<1>5. FilterOK'
  BY <1>1, <1>2, <1>3, <1>4 DEF FilterOK
<1>6. CheckedOK'
  BY <1>1 DEF CheckedOK
<1> QED BY <1>5, <1>6

LEMMA WritePartStep ==
    ASSUME FilterOK, CheckedOK, B!WritePart PROVE FilterOK' /\ CheckedOK'
<1>1. /\ sIds' = sIds /\ rIds' = rIds /\ bits' = bits /\ sTaken' = sTaken /\ bf' = bf
      /\ rpc' = rpc /\ rGot' = rGot /\ rbf' = rbf /\ rTaken' = rTaken
      /\ intersection' = intersection
      /\ spc = "write" /\ spc' \in {"nil", "write"} /\ s2r' = Append(s2r, bf)
  BY DEF B!WritePart, B!input, B!receiver
<1>2. s2r' \in Seq({bf'}) /\ sTaken = Len(sIds)
  BY <1>1 DEF FilterOK
<1>3. FilterOK'
  BY <1>1, <1>2 DEF FilterOK
<1>4. CheckedOK'
  BY <1>1 DEF CheckedOK
<1> QED BY <1>3, <1>4

LEMMA ReadPartStep ==
    ASSUME FilterOK, CheckedOK, B!ReadPart PROVE FilterOK' /\ CheckedOK'
<1>1. /\ sIds' = sIds /\ rIds' = rIds /\ bits' = bits /\ sTaken' = sTaken /\ bf' = bf
      /\ spc' = spc /\ rTaken' = rTaken /\ intersection' = intersection
      /\ rpc = "read" /\ s2r # <<>> /\ rGot' = rGot + 1 /\ rbf' = Head(s2r) /\ s2r' = Tail(s2r)
      /\ rpc' = IF rGot + 1 = 3 THEN "check" ELSE "read"
  BY DEF B!ReadPart, B!input, B!sender, B!Parts
<1>2. rbf' = bf /\ s2r' \in Seq({bf'}) /\ sTaken = Len(sIds) /\ rGot' \in Nat /\ spc # "add"
  BY <1>1 DEF FilterOK
<1>3. FilterOK'
  BY <1>1, <1>2 DEF FilterOK
<1>4. CheckedOK'
  BY <1>1 DEF CheckedOK
<1> QED BY <1>3, <1>4

\* The filter the receiver checks has all bits of an identifier of the sender.
LEMMA CheckOneStep ==
    ASSUME FilterOK, CheckedOK, B!CheckOne PROVE FilterOK' /\ CheckedOK'
<1> DEFINE x == rIds[rTaken + 1]
<1>1. /\ sIds' = sIds /\ rIds' = rIds /\ bits' = bits /\ sTaken' = sTaken /\ bf' = bf
      /\ spc' = spc /\ rpc' = rpc /\ rGot' = rGot /\ rbf' = rbf /\ s2r' = s2r
      /\ rpc = "check" /\ rTaken < Len(rIds) /\ rTaken' = rTaken + 1
      /\ intersection' = IF bits[x] \subseteq rbf THEN Append(intersection, x) ELSE intersection
  BY DEF B!CheckOne, B!Check, B!input, B!sender
<1>2. /\ rTaken \in Nat /\ Len(rIds) \in Nat /\ rTaken' <= Len(rIds) /\ x \in Ids
      /\ Len(sIds) \in Nat /\ sTaken = Len(sIds) /\ rbf = bf
  BY <1>1 DEF FilterOK
<1>3. FilterOK'
  BY <1>1, <1>2 DEF FilterOK
<1>4. /\ intersection \in Seq(Ids) /\ Len(intersection) \in Nat /\ intersection' \in Seq(Ids)
      /\ Len(intersection') \in Nat /\ Len(intersection) <= Len(intersection')
      /\ \A j \in 1..Len(intersection) : intersection'[j] = intersection[j]
  <2> HIDE DEF x
  <2>1. intersection \in Seq(Ids)
    BY DEF CheckedOK
  <2> QED BY <1>1, <1>2, <2>1
<1>5. ASSUME NEW l \in 1..Len(sIds), sIds[l] = x
      PROVE  \E j \in 1..Len(intersection') : intersection'[j] = x
  <2>1. bits[x] \subseteq rbf
    BY <1>2, <1>5 DEF FilterOK
  <2>2. intersection' = Append(intersection, x)
    BY <1>1, <2>1
  <2>3. Len(intersection) + 1 \in 1..Len(intersection') /\ intersection'[Len(intersection) + 1] = x
    <3> HIDE DEF x
    <3> QED BY <1>2, <1>4, <2>2
  <2> QED BY <2>3
<1>6. ASSUME NEW k \in 1..rTaken', \E l \in 1..Len(sIds) : sIds[l] = rIds[k]
      PROVE  \E j \in 1..Len(intersection') : intersection'[j] = rIds[k]
  <2>1. CASE k = rTaken + 1
    BY <1>5, <1>6, <2>1
  <2>2. CASE k # rTaken + 1
    <3>1. k \in 1..rTaken
      BY <1>1, <1>2, <2>2
    <3>2. PICK j \in 1..Len(intersection) : intersection[j] = rIds[k]
      BY <1>6, <3>1 DEF CheckedOK
    <3>3. j \in 1..Len(intersection') /\ intersection'[j] = rIds[k]
      BY <1>4, <3>2
    <3> QED BY <3>3
  <2> QED BY <2>1, <2>2
<1>7. CheckedOK'
  BY <1>1, <1>4, <1>6 DEF CheckedOK
<1> QED BY <1>3, <1>7

LEMMA NextBInv ==
    ASSUME BInv, [NextPSI]_allVars PROVE BInv'
<1> SUFFICES ASSUME protocol' = "bpsi" PROVE FilterOK' /\ CheckedOK'
  BY DEF BInv
<1>1. protocol = "bpsi" /\ (B!Next \/ UNCHANGED allVars)
  BY DEF NextPSI, K1, N1, B1, allVars
<1>2. FilterOK /\ CheckedOK
  BY <1>1 DEF BInv
<1>3. CASE B!Add
  BY <1>2, <1>3, AddStep
<1>4. CASE B!WritePart
  BY <1>2, <1>4, WritePartStep
<1>5. CASE B!ReadPart
  BY <1>2, <1>5, ReadPartStep
<1>6. CASE B!CheckOne
  BY <1>2, <1>6, CheckOneStep
<1>7. CASE B!AddDone \/ B!WriteFails \/ B!ReadFails \/ B!CheckDone \/ B!Cancel \/ B!Drop
  <2>1. /\ sIds' = sIds /\ rIds' = rIds /\ bits' = bits /\ sTaken' = sTaken /\ bf' = bf
        /\ rGot' = rGot /\ rbf' = rbf /\ rTaken' = rTaken /\ intersection' = intersection
        /\ s2r' = s2r
    BY <1>7 DEF B!AddDone, B!WriteFails, B!ReadFails, B!CheckDone, B!Cancel, B!Drop, B!input,
                B!sender, B!receiver
  <2>2. \/ spc' = spc
        \/ spc' \in {"nil", "error"}
        \/ spc' = "write" /\ sTaken = Len(sIds)
    BY <1>7 DEF B!AddDone, B!WriteFails, B!ReadFails, B!CheckDone, B!Cancel, B!Drop, B!sender
  <2>3. \/ rpc' = rpc
        \/ rpc' = "error"
        \/ rpc' = "nil" /\ rpc = "check" /\ rTaken = Len(rIds)
    BY <1>7 DEF B!AddDone, B!WriteFails, B!ReadFails, B!CheckDone, B!Cancel, B!Drop, B!receiver
  <2> QED BY <1>2, <2>1, <2>2, <2>3, FilterControl
<1>8. CASE UNCHANGED allVars
  <2>1. /\ sIds' = sIds /\ rIds' = rIds /\ bits' = bits /\ sTaken' = sTaken /\ bf' = bf
        /\ rGot' = rGot /\ rbf' = rbf /\ rTaken' = rTaken /\ intersection' = intersection
        /\ s2r' = s2r /\ spc' = spc /\ rpc' = rpc
    BY <1>8 DEF allVars, vars, onlyB, input, sender, receiver, output, net, compute
  <2> QED BY <1>2, <2>1, FilterControl
<1> QED BY <1>1, <1>3, <1>4, <1>5, <1>6, <1>7, <1>8 DEF B!Next, B!Sender, B!Receiver

\* BPSI never misses a match: a nil result of Intersect contains every common
\* identifier, for filters, inputs and interleavings of any size, also when the
\* connection broke or the sender was cancelled (bpsi.go, sender.go,
\* receiver.go).
THEOREM FilterCorrect == SpecPSI => []FilterMissesNothing
<1>1. NewPSI => BInv
  BY InitBInv
<1>2. BInv /\ [NextPSI]_allVars => BInv'
  BY NextBInv
<1>3. ASSUME BInv PROVE FilterMissesNothing
  <2> SUFFICES ASSUME protocol = "bpsi", rpc = "nil",
                      NEW x \in B!ToSet(sIds) \cap B!ToSet(rIds)
               PROVE  x \in B!ToSet(intersection)
    BY DEF FilterMissesNothing, B!NoMissedMatch
  <2>1. FilterOK /\ CheckedOK
    BY <1>3 DEF BInv
  <2>2. DOMAIN sIds = 1..Len(sIds) /\ DOMAIN rIds = 1..Len(rIds) /\ rTaken = Len(rIds)
    BY <2>1 DEF FilterOK
  <2>3. DOMAIN intersection = 1..Len(intersection)
    BY <2>1 DEF CheckedOK
  <2>4. PICK k \in 1..rTaken : x = rIds[k]
    BY <2>2 DEF B!ToSet
  <2>5. \E l \in 1..Len(sIds) : sIds[l] = rIds[k]
    BY <2>2, <2>4 DEF B!ToSet
  <2>6. \E j \in 1..Len(intersection) : intersection[j] = rIds[k]
    BY <2>1, <2>5 DEF CheckedOK
  <2> QED BY <2>3, <2>4, <2>6 DEF B!ToSet
<1> QED BY <1>1, <1>2, <1>3, PTL DEF SpecPSI
----------------------------------------------------------------------------
(* NPSI.                                                                   *)

InSeq(m, q) == \E j \in 1..Len(q) : q[j] = m

\* What the sender writes, and what the receiver makes of its own identifiers.
HashMsgs == {N!Hash(sIds[k]) : k \in 1..Len(sIds)}
Entry(k) == [h |-> N!Hash(rIds[k]), x |-> rIds[k]]

NType ==
    /\ spc \in {"salt", "header", "hash", "flush", "nil", "error"}
    /\ rpc \in {"salt", "header", "index", "match", "nil", "error"}
    /\ sIds \in Seq(Ids) /\ rIds \in Seq(Ids) /\ sN \in Nat
    /\ sLeft \subseteq 1..Len(sIds) /\ rLeft \subseteq 1..Len(rIds) /\ rRead \in Nat
    /\ sCtx \in {"live", "returned", "closed"} /\ rCtx \in {"live", "returned", "closed"}
    /\ sBuf \in Seq(HashMsgs \cup {N!Header(sN)}) /\ s2r \in Seq(HashMsgs \cup {N!Header(sN)})

\* Whatever fails: what is indexed was sent, and what is matched is common.
NSound ==
    /\ remoteIDs \subseteq HashMsgs \cup {N!Header(sN)}
    /\ localIDs \subseteq {Entry(k) : k \in 1..Len(rIds)} /\ toMatch \subseteq localIDs
    /\ intersected \subseteq N!Common
    /\ N!ResultIsSound

\* Nothing failed and no context ended.
Fine == N!Undisturbed /\ rpc # "error" /\ rCtx = "live"

\* The messages that have not been read: the header before all hashes, and
\* with the identifiers to hash and the hashes read, as many as there are.
Begins(q) == \A j \in 1..Len(q) : IF j = 1 THEN q[j] = N!Header(sN) ELSE q[j] \in HashMsgs

Streams ==
    /\ spc \in {"salt", "header"} =>
          s2r = <<>> /\ sBuf = <<>> /\ sLeft = 1..Len(sIds) /\ rpc # "index"
    /\ rpc \in {"salt", "header"} =>
          /\ rRead = 0 /\ remoteDone = FALSE
          /\ IF s2r = <<>> THEN Begins(sBuf) ELSE Begins(s2r) /\ sBuf \in Seq(HashMsgs)
    /\ rpc = "index" => rN = sN /\ s2r \in Seq(HashMsgs) /\ sBuf \in Seq(HashMsgs)
    /\ spc \in {"hash", "flush", "nil"} =>
          (IF rpc = "index" THEN 1 ELSE 0) + rRead + Len(s2r) + Len(sBuf) + Cardinality(sLeft)
             = Len(sIds) + 1
    /\ spc \in {"flush", "nil"} => sLeft = {}
    /\ spc = "nil" => sBuf = <<>>
    /\ \A k \in 1..Len(sIds) :
          \/ k \in sLeft \/ InSeq(N!Hash(sIds[k]), sBuf) \/ InSeq(N!Hash(sIds[k]), s2r)
          \/ N!Hash(sIds[k]) \in remoteIDs

\* While nothing fails, no hash and no identifier is lost on its way.
NWhole ==
    Fine =>
        /\ rpc \in {"salt", "header", "index"} => Streams
        /\ (rpc = "index" /\ remoteDone) \/ rpc \in {"match", "nil"} => HashMsgs \subseteq remoteIDs
        /\ \A k \in 1..Len(rIds) : k \in rLeft \/ Entry(k) \in localIDs
        /\ rpc \in {"match", "nil"} =>
              /\ rLeft = {}
              /\ \A e \in localIDs : e \in toMatch \/ (e.h \in remoteIDs => e.x \in intersected)
        /\ rpc = "nil" => toMatch = {} /\ result = intersected

NInv == protocol = "npsi" => NType /\ NSound /\ NWhole

NAll == NType /\ NSound /\ NWhole

\* Messages in a queue that is written to or read from.
LEMMA QueueAppend ==
    ASSUME NEW S, NEW q \in Seq(S), NEW m \in S
    PROVE  /\ Append(q, m) \in Seq(S) /\ Len(Append(q, m)) = Len(q) + 1 /\ Len(q) \in Nat
           /\ \A j \in 1..Len(q) : Append(q, m)[j] = q[j]
           /\ Append(q, m)[Len(q) + 1] = m
           /\ InSeq(m, Append(q, m)) /\ \A y : InSeq(y, q) => InSeq(y, Append(q, m))
           /\ Append(q, m) # <<>>
<1>1. /\ Append(q, m) \in Seq(S) /\ Len(Append(q, m)) = Len(q) + 1 /\ Len(q) \in Nat
      /\ \A j \in 1..Len(q) : Append(q, m)[j] = q[j]
      /\ Append(q, m)[Len(q) + 1] = m /\ Append(q, m) # <<>>
  OBVIOUS
<1>2. Len(q) + 1 \in 1..Len(Append(q, m)) /\ \A j \in 1..Len(q) : j \in 1..Len(Append(q, m))
  BY <1>1
<1> QED BY <1>1, <1>2 DEF InSeq

LEMMA QueueTail ==
    ASSUME NEW S, NEW q \in Seq(S), q # <<>>
    PROVE  /\ Tail(q) \in Seq(S) /\ Len(Tail(q)) = Len(q) - 1 /\ Len(q) \in Nat \ {0}
           /\ \A j \in 1..Len(Tail(q)) : j + 1 \in 1..Len(q) /\ Tail(q)[j] = q[j + 1]
           /\ Head(q) = q[1] /\ Head(q) \in S
           /\ \A y : InSeq(y, q) => y = Head(q) \/ InSeq(y, Tail(q))
<1>1. /\ Tail(q) \in Seq(S) /\ Len(Tail(q)) = Len(q) - 1 /\ Len(q) \in Nat \ {0}
      /\ \A j \in 1..Len(Tail(q)) : Tail(q)[j] = q[j + 1]
      /\ Head(q) = q[1] /\ Head(q) \in S
  OBVIOUS
<1>2. \A j \in 1..Len(Tail(q)) : j + 1 \in 1..Len(q)
  BY <1>1
<1>3. ASSUME NEW y, NEW j \in 1..Len(q), q[j] = y PROVE y = Head(q) \/ InSeq(y, Tail(q))
  <2>1. CASE j = 1
    BY <1>1, <1>3, <2>1
  <2>2. CASE j # 1
    <3>1. j - 1 \in 1..Len(Tail(q)) /\ (j - 1) + 1 = j
      BY <1>1, <2>2
    <3>2. Tail(q)[j - 1] = y
      BY <1>1, <1>3, <3>1
    <3> QED BY <3>1, <3>2 DEF InSeq
  <2> QED BY <2>1, <2>2
<1> QED BY <1>1, <1>2, <1>3 DEF InSeq

\* The inputs never change.
LEMMA NInput ==
    ASSUME sIds' = sIds, rIds' = rIds, sN' = sN
    PROVE  /\ HashMsgs' = HashMsgs /\ N!Common' = N!Common /\ N!Header(sN)' = N!Header(sN)
           /\ \A k : Entry(k)' = Entry(k)
  BY DEF HashMsgs, Entry, N!Common, N!ToSet, N!Header, N!Hash

LEMMA InitNInv ==
    ASSUME NewPSI PROVE NInv
<1> SUFFICES ASSUME protocol = "npsi" PROVE NType /\ NSound /\ NWhole
  BY DEF NInv
<1>1. N!Init
  BY DEF NewPSI
<1>2. /\ sIds \in Seq(Ids) /\ rIds \in Seq(Ids) /\ Len(sIds) \in Nat /\ Len(rIds) \in Nat
      /\ DOMAIN sIds = 1..Len(sIds) /\ DOMAIN rIds = 1..Len(rIds) /\ sN \in Nat
  BY <1>1, InputsAreSeqs DEF N!Init
<1>3. /\ spc = "salt" /\ rpc = "salt" /\ sLeft = 1..Len(sIds) /\ sBuf = <<>>
      /\ rLeft = 1..Len(rIds) /\ rRead = 0 /\ remoteDone = FALSE /\ remoteIDs = {} /\ localIDs = {}
      /\ toMatch = {} /\ intersected = {} /\ result = {} /\ sCtx = "live" /\ rCtx = "live"
      /\ s2r = <<>>
  BY <1>1, <1>2 DEF N!Init, N!InitState
<1>4. NType
  BY <1>2, <1>3 DEF NType
<1>5. NSound
  BY <1>3 DEF NSound, N!ResultIsSound
<1>6. Streams
  BY <1>3 DEF Streams, Begins
<1>7. NWhole
  BY <1>3, <1>6 DEF NWhole
<1> QED BY <1>4, <1>5, <1>7

\* A step after which something has failed.
LEMMA NFailStep ==
    ASSUME NAll, sIds' = sIds, rIds' = rIds, sN' = sN, sLeft' = sLeft, sBuf' = sBuf,
           rLeft' = rLeft, rRead' = rRead, remoteIDs' = remoteIDs, localIDs' = localIDs,
           toMatch' = toMatch, intersected' = intersected, s2r' = s2r,
           spc' \in {spc, "error"}, rpc' \in {rpc, "error"},
           sCtx' \in {"live", "returned", "closed"}, rCtx' \in {"live", "returned", "closed"},
           N!ResultIsSound', ~Fine'
    PROVE  NAll'
<1>1. HashMsgs' = HashMsgs /\ N!Common' = N!Common /\ N!Header(sN)' = N!Header(sN)
      /\ \A k : Entry(k)' = Entry(k)
  BY NInput
<1>2. NType'
  BY <1>1 DEF NAll, NType
<1>3. NSound'
  BY <1>1 DEF NAll, NSound
<1> QED BY <1>2, <1>3 DEF NAll, NWhole

\* A step of the sender that does not fail.
LEMMA NSendStep ==
    ASSUME NAll, sIds' = sIds, rIds' = rIds, sN' = sN, rpc' = rpc, rLeft' = rLeft,
           rRead' = rRead, remoteDone' = remoteDone, remoteIDs' = remoteIDs,
           localIDs' = localIDs, toMatch' = toMatch, intersected' = intersected,
           result' = result, sCtx' = sCtx, rCtx' = rCtx, down' = down,
           NType', spc # "error",
           Fine /\ spc' # "error" /\ rpc \in {"salt", "header", "index"} /\ Streams => Streams'
    PROVE  NAll'
<1>1. HashMsgs' = HashMsgs /\ N!Common' = N!Common /\ N!Header(sN)' = N!Header(sN)
      /\ \A k : Entry(k)' = Entry(k)
  BY NInput
<1>2. NSound'
  BY <1>1 DEF NAll, NSound, N!ResultIsSound
<1>3. Fine' => Fine /\ spc' # "error"
  BY DEF Fine, N!Undisturbed
<1>4. NWhole'
  <2> SUFFICES ASSUME Fine'
               PROVE  /\ rpc \in {"salt", "header", "index"} => Streams'
                      /\ (rpc = "index" /\ remoteDone) \/ rpc \in {"match", "nil"} => HashMsgs \subseteq remoteIDs
                      /\ \A k \in 1..Len(rIds) : k \in rLeft \/ Entry(k) \in localIDs
                      /\ rpc \in {"match", "nil"} =>
                            /\ rLeft = {}
                            /\ \A e \in localIDs : e \in toMatch \/ (e.h \in remoteIDs => e.x \in intersected)
                      /\ rpc = "nil" => toMatch = {} /\ result = intersected
    BY <1>1 DEF NWhole
  <2> QED BY <1>3 DEF NAll, NWhole
<1> QED BY <1>2, <1>4 DEF NAll

\* Places in a sequence of length n.
LEMMA Places ==
    ASSUME NEW n \in Nat, NEW S \in SUBSET (1..n)
    PROVE  /\ IsFiniteSet(S) /\ Cardinality(S) \in Nat /\ Cardinality(S) <= n
           /\ Cardinality(1..n) = n /\ (Cardinality(S) = 0 <=> S = {})
           /\ \A k \in S : Cardinality(S \ {k}) = Cardinality(S) - 1
           /\ \A k \in (1..n) \ S : Cardinality(S \cup {k}) = Cardinality(S) + 1
           /\ Cardinality(S) = n => S = 1..n
<1>1. IsFiniteSet(1..n) /\ Cardinality(1..n) = n
  BY FS_Interval, n >= 0
<1>2. IsFiniteSet(S) /\ Cardinality(S) <= n /\ (Cardinality(S) = n => S = 1..n)
  BY <1>1, FS_Subset
<1>3. Cardinality(S) \in Nat
  BY <1>2, FS_CardinalityType
<1>4. Cardinality(S) = 0 <=> S = {}
  BY <1>2, FS_EmptySet
<1>5. \A k \in S : Cardinality(S \ {k}) = Cardinality(S) - 1
  BY <1>2, FS_RemoveElement
<1>6. \A k \in (1..n) \ S : Cardinality(S \cup {k}) = Cardinality(S) + 1
  BY <1>2, FS_AddElement
<1> QED BY <1>1, <1>2, <1>3, <1>4, <1>5, <1>6

\* A hash is not the header, and names its identifier.
LEMMA HashFacts ==
    /\ \A x : N!Hash(x) # N!Header(sN)
    /\ \A x, y : N!Hash(x) = N!Hash(y) => x = y
    /\ N!Header(sN).max = sN
    /\ \A k : Entry(k).h = N!Hash(rIds[k]) /\ Entry(k).x = rIds[k]
<1>1. \A x : N!Hash(x) # N!Header(sN)
  <2>1. \A x : DOMAIN N!Hash(x) = {"hash"}
    BY DEF N!Hash
  <2>2. DOMAIN N!Header(sN) = {"max"}
    BY DEF N!Header
  <2> QED BY <2>1, <2>2
<1>2. \A x, y : N!Hash(x) = N!Hash(y) => x = y
  <2>1. \A x : N!Hash(x).hash = x
    BY DEF N!Hash
  <2> QED BY <2>1
<1>3. N!Header(sN).max = sN /\ \A k : Entry(k).h = N!Hash(rIds[k]) /\ Entry(k).x = rIds[k]
  BY DEF N!Header, Entry
<1> QED BY <1>1, <1>2, <1>3

\* The steps that fail, cancel, close and drop.
LEMMA NFailures ==
    ASSUME NAll,
           \/ N!ReadSaltFails \/ N!HashWriteFails \/ N!ReadHeaderFails \/ N!SenderCancel
           \/ N!SenderCloses \/ N!ReceiverCancel \/ N!ReceiverCloses \/ N!Drop
    PROVE  NAll'
<1>1. /\ sIds' = sIds /\ rIds' = rIds /\ sN' = sN /\ sLeft' = sLeft /\ sBuf' = sBuf
      /\ rLeft' = rLeft /\ rRead' = rRead /\ remoteIDs' = remoteIDs /\ localIDs' = localIDs
      /\ toMatch' = toMatch /\ intersected' = intersected /\ s2r' = s2r
  BY DEF N!ReadSaltFails, N!HashWriteFails, N!ReadHeaderFails, N!SenderCancel, N!SenderCloses,
         N!ReceiverCancel, N!ReceiverCloses, N!Drop, N!input, N!sender, N!receiver, N!index,
         N!matches, N!net
<1>2. /\ spc' \in {spc, "error"} /\ rpc' \in {rpc, "error"}
      /\ sCtx' \in {sCtx, "returned", "closed"} /\ rCtx' \in {rCtx, "returned", "closed"}
      /\ \/ spc' = "error" \/ rpc' = "error" \/ sCtx' \in {"returned", "closed"}
         \/ rCtx' \in {"returned", "closed"} \/ down' = TRUE
  BY DEF N!ReadSaltFails, N!HashWriteFails, N!ReadHeaderFails, N!SenderCancel, N!SenderCloses,
         N!ReceiverCancel, N!ReceiverCloses, N!Drop, N!input, N!sender, N!receiver, N!net
<1>3. \/ result' = result /\ rCtx' = rCtx
      \/ result' \in {result, intersected, N!Torn} /\ rCtx' # "live"
  BY DEF N!ReadSaltFails, N!HashWriteFails, N!ReadHeaderFails, N!SenderCancel, N!SenderCloses,
         N!ReceiverCancel, N!ReceiverCloses, N!Drop, N!input, N!sender, N!receiver, N!index,
         N!matches, N!net
<1>4. N!Common' = N!Common
  BY <1>1, NInput
<1>5. N!ResultIsSound'
  BY <1>3, <1>4 DEF NAll, NSound, N!ResultIsSound, N!Torn
<1>6. ~Fine'
  BY <1>2 DEF Fine, N!Undisturbed
<1>7. sCtx' \in {"live", "returned", "closed"} /\ rCtx' \in {"live", "returned", "closed"}
  BY <1>2 DEF NAll, NType
<1> QED BY <1>1, <1>2, <1>5, <1>6, <1>7, NFailStep

\* The sender's steps that move no message.
LEMMA NSenderControl ==
    ASSUME NAll, N!ReadSalt \/ N!StartFlush \/ N!FlushReturns PROVE NAll'
<1>1. /\ sIds' = sIds /\ rIds' = rIds /\ sN' = sN /\ sLeft' = sLeft /\ sBuf' = sBuf
      /\ rpc' = rpc /\ rLeft' = rLeft /\ rRead' = rRead /\ remoteDone' = remoteDone
      /\ remoteIDs' = remoteIDs /\ localIDs' = localIDs /\ toMatch' = toMatch
      /\ intersected' = intersected /\ result' = result /\ sCtx' = sCtx /\ rCtx' = rCtx
      /\ down' = down /\ s2r' = s2r /\ rN' = rN
  BY DEF N!ReadSalt, N!StartFlush, N!FlushReturns, N!input, N!receiver, N!index, N!matches, N!net
<1>2. /\ HashMsgs' = HashMsgs /\ N!Header(sN)' = N!Header(sN)
  BY <1>1, NInput
<1>3. \/ spc = "salt" /\ spc' = IF sCtx = "live" THEN "header" ELSE "nil"
      \/ spc = "hash" /\ spc' = "flush" /\ sLeft = {}
      \/ spc = "flush" /\ spc' = "nil" /\ (sBuf = <<>> \/ N!TransmitFails)
  BY DEF N!ReadSalt, N!StartFlush, N!FlushReturns
<1>4. NType'
  BY <1>1, <1>2, <1>3 DEF NAll, NType
<1>5. ASSUME Fine, rpc \in {"salt", "header", "index"}, Streams PROVE Streams'
  <2>1. ~N!TransmitFails /\ sCtx = "live"
    BY <1>5 DEF Fine, N!Undisturbed, N!TransmitFails, N!ReceiverGone, N!ReceiverRests
  <2>2. Begins(sBuf)' = Begins(sBuf) /\ Begins(s2r)' = Begins(s2r)
    BY <1>1, <1>2 DEF Begins
  <2>3. \A k : N!Hash(sIds[k])' = N!Hash(sIds[k])
    BY <1>1 DEF N!Hash
  <2>4. \/ spc = "salt" /\ spc' = "header"
        \/ spc = "hash" /\ spc' = "flush" /\ sLeft = {}
        \/ spc = "flush" /\ spc' = "nil" /\ sBuf = <<>>
    BY <1>3, <2>1
  <2> QED BY <1>1, <1>2, <1>5, <2>2, <2>3, <2>4 DEF Streams, InSeq
<1> QED BY <1>1, <1>3, <1>4, <1>5, NSendStep

LEMMA NWriteHeader ==
    ASSUME NAll, N!WriteHeader PROVE NAll'
<1>1. /\ sIds' = sIds /\ rIds' = rIds /\ sN' = sN /\ sLeft' = sLeft
      /\ rpc' = rpc /\ rLeft' = rLeft /\ rRead' = rRead /\ remoteDone' = remoteDone
      /\ remoteIDs' = remoteIDs /\ localIDs' = localIDs /\ toMatch' = toMatch
      /\ intersected' = intersected /\ result' = result /\ sCtx' = sCtx /\ rCtx' = rCtx
      /\ down' = down /\ s2r' = s2r /\ rN' = rN
      /\ spc = "header" /\ spc' = "hash" /\ sBuf' = Append(sBuf, N!Header(sN))
  BY DEF N!WriteHeader, N!input, N!receiver, N!index, N!matches, N!net
<1>2. /\ HashMsgs' = HashMsgs /\ N!Header(sN)' = N!Header(sN)
  BY <1>1, NInput
<1>3. NType'
  <2>1. sBuf' \in Seq(HashMsgs \cup {N!Header(sN)})
    BY <1>1, QueueAppend DEF NAll, NType
  <2> QED BY <1>1, <1>2, <2>1 DEF NAll, NType
<1>4. ASSUME Fine, rpc \in {"salt", "header", "index"}, Streams PROVE Streams'
  <2>1. /\ s2r = <<>> /\ sBuf = <<>> /\ sLeft = 1..Len(sIds) /\ rpc # "index" /\ rRead = 0
        /\ remoteDone = FALSE /\ Len(sIds) \in Nat
    BY <1>1, <1>4 DEF Streams, NAll, NType
  <2>2. Len(sBuf') = 1 /\ sBuf'[1] = N!Header(sN)
    BY <1>1, <2>1
  <2>3. Begins(sBuf)'
    BY <1>2, <2>2 DEF Begins
  <2>4. Cardinality(sLeft) = Len(sIds)
    BY <2>1, Places
  <2>5. Len(s2r') = 0 /\ s2r' = <<>>
    BY <1>1, <2>1
  <2> HIDE DEF NAll
  <2> QED BY <1>1, <1>4, <2>1, <2>2, <2>3, <2>4, <2>5 DEF Streams
<1> QED BY <1>1, <1>3, <1>4, NSendStep

LEMMA NWriteHash ==
    ASSUME NAll, N!WriteHash PROVE NAll'
<1>1. /\ sIds' = sIds /\ rIds' = rIds /\ sN' = sN /\ spc' = spc
      /\ rpc' = rpc /\ rLeft' = rLeft /\ rRead' = rRead /\ remoteDone' = remoteDone
      /\ remoteIDs' = remoteIDs /\ localIDs' = localIDs /\ toMatch' = toMatch
      /\ intersected' = intersected /\ result' = result /\ sCtx' = sCtx /\ rCtx' = rCtx
      /\ down' = down /\ s2r' = s2r /\ rN' = rN /\ spc = "hash"
  BY DEF N!WriteHash, N!input, N!receiver, N!index, N!matches, N!net
<1>2. PICK k \in sLeft : sBuf' = Append(sBuf, N!Hash(sIds[k])) /\ sLeft' = sLeft \ {k}
  BY DEF N!WriteHash
<1>3. /\ HashMsgs' = HashMsgs /\ N!Header(sN)' = N!Header(sN)
  BY <1>1, NInput
<1>4. /\ sLeft \subseteq 1..Len(sIds) /\ Len(sIds) \in Nat /\ N!Hash(sIds[k]) \in HashMsgs
      /\ sBuf \in Seq(HashMsgs \cup {N!Header(sN)}) /\ s2r \in Seq(HashMsgs \cup {N!Header(sN)})
      /\ rRead \in Nat
  BY DEF NAll, NType, HashMsgs
<1>5. NType'
  <2>1. sBuf' \in Seq(HashMsgs \cup {N!Header(sN)})
    BY <1>2, <1>4, QueueAppend
  <2> QED BY <1>1, <1>2, <1>3, <2>1 DEF NAll, NType
<1>6. ASSUME Fine, rpc \in {"salt", "header", "index"}, Streams PROVE Streams'
  <2>1. /\ IsFiniteSet(sLeft) /\ Cardinality(sLeft) \in Nat /\ Cardinality(sLeft) <= Len(sIds)
        /\ Cardinality(sLeft') = Cardinality(sLeft) - 1
    BY <1>2, <1>4, Places
  <2>2. /\ Len(sBuf') = Len(sBuf) + 1 /\ Len(sBuf) \in Nat /\ sBuf' # <<>>
        /\ \A j \in 1..Len(sBuf) : sBuf'[j] = sBuf[j]
        /\ sBuf'[Len(sBuf) + 1] = N!Hash(sIds[k])
        /\ InSeq(N!Hash(sIds[k]), sBuf') /\ \A y : InSeq(y, sBuf) => InSeq(y, sBuf')
    BY <1>2, <1>4, QueueAppend
  <2>3. sBuf \in Seq(HashMsgs) => sBuf' \in Seq(HashMsgs)
    BY <1>2, <1>4, QueueAppend
  <2>4. (rpc \in {"salt", "header"} /\ s2r = <<>>) => Begins(sBuf)'
    <3> SUFFICES ASSUME rpc \in {"salt", "header"}, s2r = <<>>, NEW j \in 1..(Len(sBuf) + 1)
                 PROVE  IF j = 1 THEN sBuf'[j] = N!Header(sN) ELSE sBuf'[j] \in HashMsgs
      BY <1>3, <2>2 DEF Begins
    <3>1. Begins(sBuf) /\ Len(sBuf) > 0
      BY <1>1, <1>6, <2>1, <2>2 DEF Streams
    <3>2. CASE j = Len(sBuf) + 1
      BY <1>4, <2>2, <3>1, <3>2
    <3>3. CASE j # Len(sBuf) + 1
      <4>1. j \in 1..Len(sBuf)
        BY <2>2, <3>3
      <4> QED BY <2>2, <3>1, <4>1 DEF Begins
    <3> QED BY <3>2, <3>3
  <2>5. Begins(s2r)' = Begins(s2r)
    BY <1>1, <1>3 DEF Begins
  <2>6. ASSUME NEW l \in 1..Len(sIds)
        PROVE  \/ l \in sLeft' \/ InSeq(N!Hash(sIds[l]), sBuf') \/ InSeq(N!Hash(sIds[l]), s2r')
               \/ N!Hash(sIds[l]) \in remoteIDs'
    BY <1>1, <1>2, <1>6, <2>2 DEF Streams
  <2>7. \A l : N!Hash(sIds[l])' = N!Hash(sIds[l])
    BY <1>1 DEF N!Hash
  <2> HIDE DEF NAll
  <2>8. (IF rpc' = "index" THEN 1 ELSE 0) + rRead' + Len(s2r') + Len(sBuf') + Cardinality(sLeft')
             = Len(sIds') + 1
    <3>1. (IF rpc = "index" THEN 1 ELSE 0) + rRead + Len(s2r) + Len(sBuf) + Cardinality(sLeft)
             = Len(sIds) + 1
      BY <1>1, <1>6 DEF Streams
    <3>2. rpc' = rpc /\ rRead' = rRead /\ Len(sIds') = Len(sIds) /\ Len(s2r') = Len(s2r)
      BY <1>1
    <3>3. Len(s2r) \in Nat /\ Len(sIds) \in Nat
      BY <1>4
    <3>4. /\ Len(sBuf') = Len(sBuf) + 1 /\ Cardinality(sLeft') = Cardinality(sLeft) - 1
          /\ Len(sBuf) \in Nat /\ Cardinality(sLeft) \in Nat /\ rRead \in Nat
      BY <1>4, <2>1, <2>2
    <3>5. CASE rpc = "index"
      BY <3>1, <3>2, <3>3, <3>4, <3>5
    <3>6. CASE rpc # "index"
      BY <3>1, <3>2, <3>3, <3>4, <3>6
    <3> QED BY <3>5, <3>6
  <2>9. /\ rpc' \in {"salt", "header"} =>
          /\ rRead' = 0 /\ remoteDone' = FALSE
          /\ IF s2r' = <<>> THEN Begins(sBuf)' ELSE Begins(s2r)' /\ sBuf' \in Seq(HashMsgs')
        /\ rpc' = "index" => rN' = sN' /\ s2r' \in Seq(HashMsgs') /\ sBuf' \in Seq(HashMsgs')
    BY <1>1, <1>3, <1>6, <2>3, <2>4, <2>5 DEF Streams
  <2> QED BY <1>1, <2>6, <2>7, <2>8, <2>9 DEF Streams
<1> QED BY <1>1, <1>5, <1>6, NSendStep

LEMMA NTransmit ==
    ASSUME NAll, N!Transmit PROVE NAll'
<1>1. /\ sIds' = sIds /\ rIds' = rIds /\ sN' = sN /\ spc' = spc /\ sLeft' = sLeft
      /\ rpc' = rpc /\ rLeft' = rLeft /\ rRead' = rRead /\ remoteDone' = remoteDone
      /\ remoteIDs' = remoteIDs /\ localIDs' = localIDs /\ toMatch' = toMatch
      /\ intersected' = intersected /\ result' = result /\ sCtx' = sCtx /\ rCtx' = rCtx
      /\ down' = down /\ rN' = rN /\ spc \in {"hash", "flush"} /\ sBuf # <<>>
      /\ s2r' = Append(s2r, Head(sBuf)) /\ sBuf' = Tail(sBuf)
  BY DEF N!Transmit, N!input, N!receiver, N!index, N!matches, N!net
<1>2. /\ HashMsgs' = HashMsgs /\ N!Header(sN)' = N!Header(sN)
  BY <1>1, NInput
<1> DEFINE M == HashMsgs \cup {N!Header(sN)}
<1>3. /\ Len(sIds) \in Nat /\ sBuf \in Seq(M) /\ s2r \in Seq(M) /\ rRead \in Nat
      /\ sLeft \subseteq 1..Len(sIds)
  BY DEF NAll, NType
<1>4. /\ sBuf' \in Seq(M) /\ Len(sBuf') = Len(sBuf) - 1 /\ Len(sBuf) \in Nat \ {0}
      /\ \A j \in 1..Len(sBuf') : j + 1 \in 1..Len(sBuf) /\ sBuf'[j] = sBuf[j + 1]
      /\ Head(sBuf) = sBuf[1] /\ Head(sBuf) \in M
      /\ \A y : InSeq(y, sBuf) => y = Head(sBuf) \/ InSeq(y, sBuf')
  <2> HIDE DEF M
  <2> QED BY <1>1, <1>3, QueueTail
<1>5. /\ s2r' \in Seq(M) /\ Len(s2r') = Len(s2r) + 1 /\ Len(s2r) \in Nat /\ s2r' # <<>>
      /\ \A j \in 1..Len(s2r) : s2r'[j] = s2r[j]
      /\ s2r'[Len(s2r) + 1] = Head(sBuf)
      /\ InSeq(Head(sBuf), s2r') /\ \A y : InSeq(y, s2r) => InSeq(y, s2r')
  <2> HIDE DEF M
  <2> QED BY <1>1, <1>3, <1>4, QueueAppend
<1>6. NType'
  BY <1>1, <1>2, <1>4, <1>5 DEF NAll, NType
<1>7. ASSUME Fine, rpc \in {"salt", "header", "index"}, Streams PROVE Streams'
  <2>1. sBuf \in Seq(HashMsgs) => sBuf' \in Seq(HashMsgs) /\ Head(sBuf) \in HashMsgs
    BY <1>1, QueueTail
  <2>2. (sBuf \in Seq(HashMsgs) /\ s2r \in Seq(HashMsgs)) => s2r' \in Seq(HashMsgs)
    BY <1>1, <2>1, QueueAppend
  <2>3. ASSUME rpc \in {"salt", "header"} PROVE Begins(s2r)' /\ sBuf' \in Seq(HashMsgs)
    <3>1. CASE s2r = <<>>
      <4>1. Begins(sBuf) /\ Len(s2r) = 0
        BY <1>7, <2>3, <3>1 DEF Streams
      <4>2. \A j \in 1..Len(sBuf') : sBuf'[j] \in HashMsgs
        <5> TAKE j \in 1..Len(sBuf')
        <5>1. j + 1 \in 1..Len(sBuf) /\ sBuf'[j] = sBuf[j + 1] /\ j + 1 # 1
          BY <1>4
        <5> QED BY <4>1, <5>1 DEF Begins
      <4>3. sBuf' \in Seq(HashMsgs)
        BY <1>4, <4>2
      <4>4. Len(s2r') = 1 /\ s2r'[1] = N!Header(sN)
        BY <1>4, <1>5, <4>1 DEF Begins
      <4>5. Begins(s2r)'
        BY <1>2, <4>4 DEF Begins
      <4> QED BY <4>3, <4>5
    <3>2. CASE s2r # <<>>
      <4>1. Begins(s2r) /\ sBuf \in Seq(HashMsgs) /\ Len(s2r) > 0
        BY <1>3, <1>5, <1>7, <2>3, <3>2 DEF Streams
      <4>2. \A j \in 1..Len(s2r') : IF j = 1 THEN s2r'[j] = N!Header(sN) ELSE s2r'[j] \in HashMsgs
        <5> TAKE j \in 1..Len(s2r')
        <5>1. CASE j = Len(s2r) + 1
          BY <1>5, <2>1, <4>1, <5>1
        <5>2. CASE j # Len(s2r) + 1
          <6>1. j \in 1..Len(s2r)
            BY <1>5, <5>2
          <6> QED BY <1>5, <4>1, <6>1 DEF Begins
        <5> QED BY <5>1, <5>2
      <4>3. Begins(s2r)'
        BY <1>2, <4>2 DEF Begins
      <4> QED BY <2>1, <4>1, <4>3
    <3> QED BY <3>1, <3>2
  <2>4. ASSUME NEW l \in 1..Len(sIds)
        PROVE  \/ l \in sLeft' \/ InSeq(N!Hash(sIds[l]), sBuf') \/ InSeq(N!Hash(sIds[l]), s2r')
               \/ N!Hash(sIds[l]) \in remoteIDs'
    BY <1>1, <1>4, <1>5, <1>7 DEF Streams
  <2>5. \A l : N!Hash(sIds[l])' = N!Hash(sIds[l])
    BY <1>1 DEF N!Hash
  <2> HIDE DEF NAll
  <2>6. Cardinality(sLeft) \in Nat
    BY <1>3, Places
  <2>7. (IF rpc' = "index" THEN 1 ELSE 0) + rRead' + Len(s2r') + Len(sBuf') + Cardinality(sLeft')
             = Len(sIds') + 1
    <3>1. (IF rpc = "index" THEN 1 ELSE 0) + rRead + Len(s2r) + Len(sBuf) + Cardinality(sLeft)
             = Len(sIds) + 1
      BY <1>1, <1>7 DEF Streams
    <3>2. rpc' = rpc /\ rRead' = rRead /\ Len(sIds') = Len(sIds) /\ Cardinality(sLeft') = Cardinality(sLeft)
      BY <1>1
    <3>3. Len(s2r) \in Nat /\ Len(sIds) \in Nat
      BY <1>3
    <3>4. /\ Len(sBuf') = Len(sBuf) - 1 /\ Len(s2r') = Len(s2r) + 1
          /\ Len(sBuf) \in Nat /\ Cardinality(sLeft) \in Nat /\ rRead \in Nat
      BY <1>3, <1>4, <1>5, <2>6
    <3> QED BY <3>1, <3>2, <3>3, <3>4
  <2>8. /\ rpc' \in {"salt", "header"} =>
          /\ rRead' = 0 /\ remoteDone' = FALSE
          /\ IF s2r' = <<>> THEN Begins(sBuf)' ELSE Begins(s2r)' /\ sBuf' \in Seq(HashMsgs')
        /\ rpc' = "index" => rN' = sN' /\ s2r' \in Seq(HashMsgs') /\ sBuf' \in Seq(HashMsgs')
    BY <1>1, <1>2, <1>5, <1>7, <2>1, <2>2, <2>3 DEF Streams
  <2> QED BY <1>1, <1>7, <2>4, <2>5, <2>7, <2>8 DEF Streams
<1> QED BY <1>1, <1>6, <1>7, NSendStep

\* A step of the receiver before it matches, that returns nothing.
LEMMA NReadStep ==
    ASSUME NAll, sIds' = sIds, rIds' = rIds, sN' = sN, spc' = spc, sLeft' = sLeft,
           sBuf' = sBuf, toMatch' = toMatch, intersected' = intersected, result' = result,
           sCtx' = sCtx, rCtx' = rCtx, down' = down,
           rpc \in {"salt", "header", "index"}, rpc' \in {"header", "index"},
           rRead' \in Nat, rLeft' \subseteq rLeft, s2r' \in {s2r, Tail(s2r)}, s2r' # s2r => s2r # <<>>,
           remoteIDs' \subseteq remoteIDs \cup HashMsgs \cup {N!Header(sN)},
           localIDs \subseteq localIDs', localIDs' \subseteq localIDs \cup {Entry(k) : k \in rLeft},
           \A k \in rLeft : k \in rLeft' \/ Entry(k) \in localIDs',
           Fine /\ Streams =>
               Streams' /\ (rpc' = "index" /\ remoteDone' => HashMsgs \subseteq remoteIDs')
    PROVE  NAll'
<1>1. HashMsgs' = HashMsgs /\ N!Common' = N!Common /\ N!Header(sN)' = N!Header(sN)
      /\ \A k : Entry(k)' = Entry(k)
  BY NInput
<1>2. s2r' \in Seq(HashMsgs \cup {N!Header(sN)})
  <2>1. CASE s2r' = s2r
    BY <2>1 DEF NAll, NType
  <2>2. CASE s2r' # s2r
    <3> DEFINE M == HashMsgs \cup {N!Header(sN)}
    <3>1. s2r \in Seq(M) /\ s2r' = Tail(s2r) /\ s2r # <<>>
      BY <2>2 DEF NAll, NType
    <3>2. Tail(s2r) \in Seq(M)
      <4> HIDE DEF M
      <4> QED BY <3>1, QueueTail
    <3> QED BY <3>1, <3>2
  <2> QED BY <2>1, <2>2
<1>3. NType'
  BY <1>1, <1>2 DEF NAll, NType
<1>4. NSound'
  <2>1. rLeft \subseteq 1..Len(rIds)
    BY DEF NAll, NType
  <2> QED BY <1>1, <2>1 DEF NAll, NSound, N!ResultIsSound
<1>5. NWhole'
  <2> SUFFICES ASSUME Fine'
               PROVE  /\ Streams'
                      /\ (rpc' = "index" /\ remoteDone') => HashMsgs \subseteq remoteIDs'
                      /\ \A k \in 1..Len(rIds) : k \in rLeft' \/ Entry(k) \in localIDs'
    BY <1>1 DEF NWhole
  <2>1. Fine
    BY DEF Fine, N!Undisturbed
  <2> QED BY <2>1 DEF NAll, NWhole
<1> QED BY <1>3, <1>4, <1>5 DEF NAll

LEMMA NWriteSalt ==
    ASSUME NAll, N!WriteSalt PROVE NAll'
<1>1. /\ sIds' = sIds /\ rIds' = rIds /\ sN' = sN /\ spc' = spc /\ sLeft' = sLeft /\ sBuf' = sBuf
      /\ rLeft' = rLeft /\ rRead' = rRead /\ remoteDone' = remoteDone /\ rN' = rN
      /\ remoteIDs' = remoteIDs /\ localIDs' = localIDs /\ toMatch' = toMatch
      /\ intersected' = intersected /\ result' = result /\ sCtx' = sCtx /\ rCtx' = rCtx
      /\ down' = down /\ s2r' = s2r /\ rpc = "salt"
      /\ rpc' = IF rCtx = "live" THEN "header" ELSE "nil"
  BY DEF N!WriteSalt, N!input, N!sender, N!index, N!matches
<1>2. HashMsgs' = HashMsgs /\ N!Common' = N!Common /\ N!Header(sN)' = N!Header(sN)
      /\ \A k : Entry(k)' = Entry(k)
  BY <1>1, NInput
<1>3. CASE rCtx = "live"
  <2>1. rpc' = "header" /\ rRead \in Nat
    BY <1>1, <1>3 DEF NAll, NType
  <2>2. ASSUME Streams PROVE Streams'
    <3>1. Begins(sBuf)' = Begins(sBuf) /\ Begins(s2r)' = Begins(s2r)
      BY <1>1, <1>2 DEF Begins
    <3>2. \A k : N!Hash(sIds[k])' = N!Hash(sIds[k])
      BY <1>1 DEF N!Hash
    <3> QED BY <1>1, <1>2, <2>1, <2>2, <3>1, <3>2 DEF Streams, InSeq
  <2> QED BY <1>1, <2>1, <2>2, NReadStep
<1>4. CASE rCtx # "live"
  <2>1. NType'
    BY <1>1, <1>2, <1>4 DEF NAll, NType
  <2>2. NSound'
    BY <1>1, <1>2 DEF NAll, NSound, N!ResultIsSound
  <2> QED BY <1>1, <1>4, <2>1, <2>2 DEF NAll, NWhole, Fine
<1> QED BY <1>3, <1>4

LEMMA NReadHeader ==
    ASSUME NAll, N!ReadHeader PROVE NAll'
<1>1. /\ sIds' = sIds /\ rIds' = rIds /\ sN' = sN /\ spc' = spc /\ sLeft' = sLeft /\ sBuf' = sBuf
      /\ rLeft' = rLeft /\ rRead' = rRead /\ remoteDone' = remoteDone
      /\ remoteIDs' = remoteIDs /\ localIDs' = localIDs /\ toMatch' = toMatch
      /\ intersected' = intersected /\ result' = result /\ sCtx' = sCtx /\ rCtx' = rCtx
      /\ down' = down /\ rpc = "header" /\ rpc' = "index" /\ s2r # <<>>
      /\ rN' = Head(s2r).max /\ s2r' = Tail(s2r)
  BY DEF N!ReadHeader, N!CanRecv, N!input, N!sender, N!matches
<1>2. HashMsgs' = HashMsgs /\ N!Header(sN)' = N!Header(sN)
  BY <1>1, NInput
<1> DEFINE M == HashMsgs \cup {N!Header(sN)}
<1>3. /\ Len(sIds) \in Nat /\ sBuf \in Seq(M) /\ s2r \in Seq(M) /\ rRead \in Nat
      /\ sLeft \subseteq 1..Len(sIds) /\ Len(sBuf) \in Nat
      /\ spc \in {"salt", "header", "hash", "flush", "nil", "error"}
  BY DEF NAll, NType
<1>4. /\ s2r' \in Seq(M) /\ Len(s2r') = Len(s2r) - 1 /\ Len(s2r) \in Nat \ {0}
      /\ \A j \in 1..Len(s2r') : j + 1 \in 1..Len(s2r) /\ s2r'[j] = s2r[j + 1]
      /\ Head(s2r) = s2r[1]
      /\ \A y : InSeq(y, s2r) => y = Head(s2r) \/ InSeq(y, s2r')
  <2> HIDE DEF M
  <2> QED BY <1>1, <1>3, QueueTail
<1>5. ASSUME Fine, Streams PROVE Streams' /\ remoteDone' = FALSE
  <2>1. /\ Begins(s2r) /\ sBuf \in Seq(HashMsgs) /\ spc \notin {"salt", "header"}
        /\ remoteDone = FALSE
    BY <1>1, <1>5 DEF Streams
  <2>2. Head(s2r) = N!Header(sN)
    BY <1>4, <2>1 DEF Begins
  <2>3. rN' = sN
    BY <1>1, <2>2, HashFacts
  <2>4. \A j \in 1..Len(s2r') : s2r'[j] \in HashMsgs
    <3> TAKE j \in 1..Len(s2r')
    <3>1. j + 1 \in 1..Len(s2r) /\ s2r'[j] = s2r[j + 1] /\ j + 1 # 1
      BY <1>4
    <3> QED BY <2>1, <3>1 DEF Begins
  <2>5. s2r' \in Seq(HashMsgs)
    BY <1>4, <2>4
  <2>6. \A l : N!Hash(sIds[l])' = N!Hash(sIds[l])
    BY <1>1 DEF N!Hash
  <2>7. ASSUME NEW l \in 1..Len(sIds)
        PROVE  \/ l \in sLeft' \/ InSeq(N!Hash(sIds[l]), sBuf') \/ InSeq(N!Hash(sIds[l]), s2r')
               \/ N!Hash(sIds[l]) \in remoteIDs'
    <3>1. N!Hash(sIds[l]) # Head(s2r)
      BY <2>2, HashFacts
    <3> QED BY <1>1, <1>4, <1>5, <3>1 DEF Streams
  <2>8. spc \in {"hash", "flush", "nil"} =>
          1 + rRead' + Len(s2r') + Len(sBuf') + Cardinality(sLeft') = Len(sIds') + 1
    <3> SUFFICES ASSUME spc \in {"hash", "flush", "nil"}
                 PROVE  1 + rRead' + Len(s2r') + Len(sBuf') + Cardinality(sLeft') = Len(sIds') + 1
      OBVIOUS
    <3>1. 0 + rRead + Len(s2r) + Len(sBuf) + Cardinality(sLeft) = Len(sIds) + 1
      BY <1>1, <1>5 DEF Streams
    <3>2. /\ rRead' = rRead /\ Len(sIds') = Len(sIds) /\ Len(sBuf') = Len(sBuf)
          /\ Cardinality(sLeft') = Cardinality(sLeft) /\ Len(s2r') = Len(s2r) - 1
      BY <1>1, <1>4
    <3>3. /\ Len(s2r) \in Nat /\ Len(sBuf) \in Nat /\ Len(sIds) \in Nat /\ rRead \in Nat
          /\ Cardinality(sLeft) \in Nat
      BY <1>3, <1>4, Places
    <3> QED BY <3>1, <3>2, <3>3
  <2> QED BY <1>1, <1>2, <1>5, <2>1, <2>3, <2>5, <2>6, <2>7, <2>8 DEF Streams
<1> QED BY <1>1, <1>3, <1>5, NReadStep

LEMMA NIndexRemote ==
    ASSUME NAll, N!IndexRemote PROVE NAll'
<1>1. /\ sIds' = sIds /\ rIds' = rIds /\ sN' = sN /\ spc' = spc /\ sLeft' = sLeft /\ sBuf' = sBuf
      /\ rLeft' = rLeft /\ rRead' = rRead + 1 /\ remoteDone' = remoteDone /\ rN' = rN
      /\ remoteIDs' = remoteIDs \cup {Head(s2r)} /\ localIDs' = localIDs /\ toMatch' = toMatch
      /\ intersected' = intersected /\ result' = result /\ sCtx' = sCtx /\ rCtx' = rCtx
      /\ down' = down /\ rpc = "index" /\ rpc' = rpc /\ s2r # <<>> /\ s2r' = Tail(s2r) /\ ~remoteDone
  BY DEF N!IndexRemote, N!CanRecv, N!input, N!sender, N!matches
<1>2. HashMsgs' = HashMsgs /\ N!Header(sN)' = N!Header(sN)
  BY <1>1, NInput
<1> DEFINE M == HashMsgs \cup {N!Header(sN)}
<1>3. /\ Len(sIds) \in Nat /\ sBuf \in Seq(M) /\ s2r \in Seq(M) /\ rRead \in Nat
      /\ sLeft \subseteq 1..Len(sIds) /\ Len(sBuf) \in Nat
      /\ spc \in {"salt", "header", "hash", "flush", "nil", "error"}
  BY DEF NAll, NType
<1>4. /\ s2r' \in Seq(M) /\ Len(s2r') = Len(s2r) - 1 /\ Len(s2r) \in Nat \ {0}
      /\ Head(s2r) \in M
      /\ \A y : InSeq(y, s2r) => y = Head(s2r) \/ InSeq(y, s2r')
  <2> HIDE DEF M
  <2> QED BY <1>1, <1>3, QueueTail
<1>5. ASSUME Fine, Streams PROVE Streams'
  <2>1. /\ sBuf \in Seq(HashMsgs) /\ spc \notin {"salt", "header"} /\ rN = sN
        /\ s2r \in Seq(HashMsgs)
    BY <1>1, <1>5 DEF Streams
  <2>2. s2r' \in Seq(HashMsgs)
    BY <1>1, <2>1, QueueTail
  <2>3. \A l : N!Hash(sIds[l])' = N!Hash(sIds[l])
    BY <1>1 DEF N!Hash
  <2>4. ASSUME NEW l \in 1..Len(sIds)
        PROVE  \/ l \in sLeft' \/ InSeq(N!Hash(sIds[l]), sBuf') \/ InSeq(N!Hash(sIds[l]), s2r')
               \/ N!Hash(sIds[l]) \in remoteIDs'
    BY <1>1, <1>4, <1>5 DEF Streams
  <2>5. spc \in {"hash", "flush", "nil"} =>
          1 + rRead' + Len(s2r') + Len(sBuf') + Cardinality(sLeft') = Len(sIds') + 1
    <3> SUFFICES ASSUME spc \in {"hash", "flush", "nil"}
                 PROVE  1 + rRead' + Len(s2r') + Len(sBuf') + Cardinality(sLeft') = Len(sIds') + 1
      OBVIOUS
    <3>1. 1 + rRead + Len(s2r) + Len(sBuf) + Cardinality(sLeft) = Len(sIds) + 1
      BY <1>1, <1>5 DEF Streams
    <3>2. /\ rRead' = rRead + 1 /\ Len(sIds') = Len(sIds) /\ Len(sBuf') = Len(sBuf)
          /\ Cardinality(sLeft') = Cardinality(sLeft) /\ Len(s2r') = Len(s2r) - 1
      BY <1>1, <1>4
    <3>3. /\ Len(s2r) \in Nat /\ Len(sBuf) \in Nat /\ Len(sIds) \in Nat /\ rRead \in Nat
          /\ Cardinality(sLeft) \in Nat
      BY <1>3, <1>4, Places
    <3> QED BY <3>1, <3>2, <3>3
  <2> QED BY <1>1, <1>2, <1>5, <2>1, <2>2, <2>3, <2>4, <2>5 DEF Streams
<1>6. rRead' \in Nat /\ remoteIDs' \subseteq remoteIDs \cup HashMsgs \cup {N!Header(sN)}
  BY <1>1, <1>3, <1>4
<1> QED BY <1>1, <1>5, <1>6, NReadStep

\* ReadAll stops short of nothing: it has read all hashes, or the sender that
\* returned nil has sent them all.
LEMMA NRemoteDone ==
    ASSUME NAll, N!RemoteDone PROVE NAll'
<1>1. /\ sIds' = sIds /\ rIds' = rIds /\ sN' = sN /\ spc' = spc /\ sLeft' = sLeft /\ sBuf' = sBuf
      /\ rLeft' = rLeft /\ rRead' = rRead /\ rN' = rN
      /\ remoteIDs' = remoteIDs /\ localIDs' = localIDs /\ toMatch' = toMatch
      /\ intersected' = intersected /\ result' = result /\ sCtx' = sCtx /\ rCtx' = rCtx
      /\ down' = down /\ rpc = "index" /\ rpc' = rpc /\ s2r' = s2r
      /\ rRead = rN \/ N!RecvFails(s2r, rCtx, N!SenderGone)
  BY DEF N!RemoteDone, N!input, N!sender, N!matches, N!net
<1>2. HashMsgs' = HashMsgs /\ N!Header(sN)' = N!Header(sN)
  BY <1>1, NInput
<1>3. /\ Len(sIds) \in Nat /\ Len(sBuf) \in Nat /\ Len(s2r) \in Nat /\ rRead \in Nat /\ sN \in Nat
      /\ sLeft \subseteq 1..Len(sIds) /\ sBuf \in Seq(HashMsgs \cup {N!Header(sN)})
      /\ s2r \in Seq(HashMsgs \cup {N!Header(sN)})
      /\ spc \in {"salt", "header", "hash", "flush", "nil", "error"}
  BY DEF NAll, NType
<1>4. ASSUME Fine, Streams PROVE Streams'
  <2>1. \A l : N!Hash(sIds[l])' = N!Hash(sIds[l])
    BY <1>1 DEF N!Hash
  <2> QED BY <1>1, <1>2, <1>4, <2>1 DEF Streams, InSeq
<1>5. ASSUME Fine, Streams PROVE HashMsgs \subseteq remoteIDs
  <2>1. spc \in {"hash", "flush", "nil"} /\ rN = sN /\ Len(sIds) <= sN
    BY <1>1, <1>3, <1>4, <1>5 DEF Streams, Fine, N!Undisturbed
  <2>2. 1 + rRead + Len(s2r) + Len(sBuf) + Cardinality(sLeft) = Len(sIds) + 1
    BY <1>1, <1>5, <2>1 DEF Streams
  <2>3. Cardinality(sLeft) \in Nat /\ (Cardinality(sLeft) = 0 <=> sLeft = {})
    BY <1>3, Places
  <2>4. sLeft = {} /\ Len(sBuf) = 0 /\ Len(s2r) = 0
    <3>1. CASE rRead = rN
      BY <1>3, <2>1, <2>2, <2>3, <3>1
    <3>2. CASE rRead # rN
      <4>1. s2r = <<>> /\ spc = "nil"
        BY <1>1, <1>5, <2>1, <3>2 DEF N!RecvFails, N!SenderGone, N!SenderRests, Fine, N!Undisturbed
      <4>2. sLeft = {} /\ sBuf = <<>>
        BY <1>5, <4>1 DEF Streams
      <4> QED BY <4>1, <4>2
    <3> QED BY <3>1, <3>2
  <2>5. \A k \in 1..Len(sIds) : N!Hash(sIds[k]) \in remoteIDs
    BY <1>5, <2>4 DEF Streams, InSeq
  <2> QED BY <2>5 DEF HashMsgs
<1> QED BY <1>1, <1>3, <1>4, <1>5, NReadStep

LEMMA NIndexLocal ==
    ASSUME NAll, N!IndexLocal PROVE NAll'
<1>1. /\ sIds' = sIds /\ rIds' = rIds /\ sN' = sN /\ spc' = spc /\ sLeft' = sLeft /\ sBuf' = sBuf
      /\ rRead' = rRead /\ rN' = rN /\ remoteDone' = remoteDone
      /\ remoteIDs' = remoteIDs /\ toMatch' = toMatch
      /\ intersected' = intersected /\ result' = result /\ sCtx' = sCtx /\ rCtx' = rCtx
      /\ down' = down /\ rpc = "index" /\ rpc' = rpc /\ s2r' = s2r
  BY DEF N!IndexLocal, N!input, N!sender, N!matches, N!net
<1>2. PICK k \in rLeft : localIDs' = localIDs \cup {Entry(k)} /\ rLeft' = rLeft \ {k}
  BY DEF N!IndexLocal, Entry
<1>3. HashMsgs' = HashMsgs /\ N!Header(sN)' = N!Header(sN)
  BY <1>1, NInput
<1>4. ASSUME Streams PROVE Streams'
  <2>1. \A l : N!Hash(sIds[l])' = N!Hash(sIds[l])
    BY <1>1 DEF N!Hash
  <2> QED BY <1>1, <1>3, <1>4, <2>1 DEF Streams, InSeq
<1>5. Fine => (rpc' = "index" /\ remoteDone' => HashMsgs \subseteq remoteIDs')
  BY <1>1 DEF NAll, NWhole
<1>6. rRead \in Nat
  BY DEF NAll, NType
<1> QED BY <1>1, <1>2, <1>4, <1>5, <1>6, NReadStep

\* A step once both sides are indexed.
LEMMA NMatchStep ==
    ASSUME NAll, sIds' = sIds, rIds' = rIds, sN' = sN, spc' = spc, sLeft' = sLeft,
           sBuf' = sBuf, rLeft' = rLeft, rRead' = rRead, remoteIDs' = remoteIDs,
           localIDs' = localIDs, s2r' = s2r, sCtx' = sCtx, rCtx' = rCtx, down' = down,
           rpc \in {"index", "match"}, rpc' \in {"match", "nil"},
           toMatch' \subseteq localIDs, intersected' \subseteq N!Common, N!ResultIsSound',
           rpc = "index" => remoteDone /\ rLeft = {} /\ toMatch' = localIDs,
           rpc = "match" =>
               \A e \in localIDs : e \in toMatch' \/ (e.h \in remoteIDs => e.x \in intersected')
                                      \/ (e \notin toMatch /\ intersected \subseteq intersected'),
           rpc' = "nil" => toMatch' = {} /\ (rCtx = "live" => result' = intersected')
    PROVE  NAll'
<1>1. HashMsgs' = HashMsgs /\ N!Common' = N!Common /\ N!Header(sN)' = N!Header(sN)
      /\ \A k : Entry(k)' = Entry(k)
  BY NInput
<1>2. NType'
  BY <1>1 DEF NAll, NType
<1>3. NSound'
  BY <1>1 DEF NAll, NSound
<1>4. NWhole'
  <2> SUFFICES ASSUME Fine'
               PROVE  /\ HashMsgs \subseteq remoteIDs
                      /\ \A k \in 1..Len(rIds) : k \in rLeft \/ Entry(k) \in localIDs
                      /\ rLeft = {}
                      /\ \A e \in localIDs : e \in toMatch' \/ (e.h \in remoteIDs => e.x \in intersected')
                      /\ rpc' = "nil" => toMatch' = {} /\ result' = intersected'
    BY <1>1 DEF NWhole
  <2>1. Fine /\ rCtx = "live"
    BY DEF Fine, N!Undisturbed
  <2> QED BY <2>1 DEF NAll, NWhole
<1> QED BY <1>2, <1>3, <1>4 DEF NAll

LEMMA NMatching ==
    ASSUME NAll, N!Indexed \/ N!Match \/ N!Intersected PROVE NAll'
<1>1. /\ sIds' = sIds /\ rIds' = rIds /\ sN' = sN /\ spc' = spc /\ sLeft' = sLeft /\ sBuf' = sBuf
      /\ rLeft' = rLeft /\ rRead' = rRead /\ remoteIDs' = remoteIDs /\ localIDs' = localIDs
      /\ s2r' = s2r /\ sCtx' = sCtx /\ rCtx' = rCtx /\ down' = down
  BY DEF N!Indexed, N!Match, N!Intersected, N!input, N!sender, N!index, N!net
<1>2. N!Common' = N!Common
  BY <1>1, NInput
<1>3. CASE N!Indexed
  <2>1. /\ rpc = "index" /\ rpc' = "match" /\ remoteDone /\ rLeft = {} /\ toMatch' = localIDs
        /\ intersected' = intersected /\ result' = result
    BY <1>3 DEF N!Indexed
  <2>2. intersected' \subseteq N!Common /\ N!ResultIsSound'
    BY <1>1, <1>2, <2>1 DEF NAll, NSound, N!ResultIsSound
  <2> QED BY <1>1, <2>1, <2>2, NMatchStep
<1>4. CASE N!Match
  <2>1. PICK e \in toMatch :
          /\ toMatch' = toMatch \ {e}
          /\ intersected' = IF e.h \in remoteIDs THEN intersected \cup {e.x} ELSE intersected
    BY <1>4 DEF N!Match
  <2>2. rpc = "match" /\ rpc' = "match" /\ result' = result
    BY <1>4 DEF N!Match
  <2>3. N!ResultIsSound'
    BY <1>1, <1>2, <2>2 DEF NAll, NSound, N!ResultIsSound
  <2>4. e.h \in remoteIDs => e.x \in N!Common
    <3> SUFFICES ASSUME e.h \in remoteIDs PROVE e.x \in N!Common
      OBVIOUS
    <3>1. PICK k \in 1..Len(rIds) : e = Entry(k)
      BY <2>1 DEF NAll, NSound
    <3>2. e.h = N!Hash(rIds[k]) /\ e.x = rIds[k]
      BY <3>1, HashFacts
    <3>3. N!Hash(rIds[k]) \in HashMsgs
      BY <3>2, HashFacts DEF NAll, NSound
    <3>4. PICK l \in 1..Len(sIds) : N!Hash(rIds[k]) = N!Hash(sIds[l])
      BY <3>3 DEF HashMsgs
    <3>5. rIds[k] = sIds[l]
      BY <3>4, HashFacts
    <3>6. DOMAIN sIds = 1..Len(sIds) /\ DOMAIN rIds = 1..Len(rIds)
      BY DEF NAll, NType
    <3> QED BY <3>2, <3>5, <3>6 DEF N!Common, N!ToSet
  <2>5. /\ intersected \subseteq intersected' /\ intersected' \subseteq N!Common
        /\ toMatch' \subseteq localIDs
        /\ e.h \in remoteIDs => e.x \in intersected'
        /\ toMatch \subseteq toMatch' \cup {e}
    BY <2>1, <2>4 DEF NAll, NSound
  <2> QED BY <1>1, <2>2, <2>3, <2>5, NMatchStep
<1>5. CASE N!Intersected
  <2>1. /\ rpc = "match" /\ rpc' = "nil" /\ toMatch = {} /\ toMatch' = toMatch
        /\ intersected' = intersected /\ result' = IF rCtx = "live" THEN intersected ELSE result
    BY <1>5 DEF N!Intersected
  <2>2. intersected' \subseteq N!Common /\ N!ResultIsSound'
    BY <1>1, <1>2, <2>1 DEF NAll, NSound, N!ResultIsSound
  <2> QED BY <1>1, <2>1, <2>2, NMatchStep
<1> QED BY <1>3, <1>4, <1>5

LEMMA NStutter ==
    ASSUME NAll, UNCHANGED allVars PROVE NAll'
<1>1. /\ sIds' = sIds /\ rIds' = rIds /\ sN' = sN /\ spc' = spc /\ sLeft' = sLeft /\ sBuf' = sBuf
      /\ rpc' = rpc /\ rN' = rN /\ rLeft' = rLeft /\ rRead' = rRead /\ remoteDone' = remoteDone
      /\ remoteIDs' = remoteIDs /\ localIDs' = localIDs /\ toMatch' = toMatch
      /\ intersected' = intersected /\ result' = result /\ sCtx' = sCtx /\ rCtx' = rCtx
      /\ s2r' = s2r /\ down' = down
  BY DEF allVars, vars, onlyN, input, sender, receiver, output, net, compute
<1>2. HashMsgs' = HashMsgs /\ N!Common' = N!Common /\ N!Header(sN)' = N!Header(sN)
      /\ \A k : Entry(k)' = Entry(k)
  BY <1>1, NInput
<1>3. NType'
  BY <1>1, <1>2 DEF NAll, NType
<1>4. NSound'
  BY <1>1, <1>2 DEF NAll, NSound, N!ResultIsSound
<1>5. Streams => Streams'
  <2>1. Begins(sBuf)' = Begins(sBuf) /\ Begins(s2r)' = Begins(s2r)
    BY <1>1, <1>2 DEF Begins
  <2>2. \A l : N!Hash(sIds[l])' = N!Hash(sIds[l])
    BY <1>1 DEF N!Hash
  <2> QED BY <1>1, <1>2, <2>1, <2>2 DEF Streams, InSeq
<1>6. Fine' => Fine
  BY <1>1 DEF Fine, N!Undisturbed
<1>7. NWhole'
  BY <1>1, <1>2, <1>5, <1>6 DEF NAll, NWhole
<1> QED BY <1>3, <1>4, <1>7 DEF NAll

LEMMA NextNInv ==
    ASSUME NInv, [NextPSI]_allVars PROVE NInv'
<1> SUFFICES ASSUME protocol' = "npsi" PROVE NAll'
  BY DEF NInv, NAll
<1>1. protocol = "npsi" /\ (N!Next \/ UNCHANGED allVars)
  BY DEF NextPSI, K1, N1, B1, allVars
<1>2. NAll
  BY <1>1 DEF NInv, NAll
<1>3. CASE UNCHANGED allVars
  BY <1>2, <1>3, NStutter
<1>4. CASE \/ N!ReadSaltFails \/ N!HashWriteFails \/ N!ReadHeaderFails \/ N!SenderCancel
           \/ N!SenderCloses \/ N!ReceiverCancel \/ N!ReceiverCloses \/ N!Drop
  BY <1>2, <1>4, NFailures
<1>5. CASE N!ReadSalt \/ N!StartFlush \/ N!FlushReturns
  BY <1>2, <1>5, NSenderControl
<1>6. CASE N!WriteHeader
  BY <1>2, <1>6, NWriteHeader
<1>7. CASE N!WriteHash
  BY <1>2, <1>7, NWriteHash
<1>8. CASE N!Transmit
  BY <1>2, <1>8, NTransmit
<1>9. CASE N!WriteSalt
  BY <1>2, <1>9, NWriteSalt
<1>10. CASE N!ReadHeader
  BY <1>2, <1>10, NReadHeader
<1>11. CASE N!IndexRemote
  BY <1>2, <1>11, NIndexRemote
<1>12. CASE N!RemoteDone
  BY <1>2, <1>12, NRemoteDone
<1>13. CASE N!IndexLocal
  BY <1>2, <1>13, NIndexLocal
<1>14. CASE N!Indexed \/ N!Match \/ N!Intersected
  BY <1>2, <1>14, NMatching
<1> QED BY <1>1, <1>3, <1>4, <1>5, <1>6, <1>7, <1>8, <1>9, <1>10, <1>11, <1>12, <1>13, <1>14
        DEF N!Next, N!Sender, N!Receiver, N!ReceiverMain, N!Closes

\* What the invariant says of the results of NPSI.
LEMMA NResults ==
    ASSUME NAll PROVE N!ResultIsSound /\ N!ExactIntersection
<1>1. N!ResultIsSound
  BY DEF NAll, NSound
<1>2. ASSUME rpc = "nil", rCtx = "live", N!Undisturbed PROVE result = N!Common
  <2>1. Fine
    BY <1>2 DEF Fine
  <2>2. /\ HashMsgs \subseteq remoteIDs /\ result = intersected /\ intersected \subseteq N!Common
        /\ \A k \in 1..Len(rIds) : Entry(k) \in localIDs
        /\ \A e \in localIDs : e.h \in remoteIDs => e.x \in intersected
    BY <1>2, <2>1 DEF NAll, NWhole, NSound
  <2>3. DOMAIN sIds = 1..Len(sIds) /\ DOMAIN rIds = 1..Len(rIds)
    BY DEF NAll, NType
  <2>4. ASSUME NEW x \in N!Common PROVE x \in intersected
    <3>1. PICK l \in 1..Len(sIds) : x = sIds[l]
      BY <2>3 DEF N!Common, N!ToSet
    <3>2. PICK k \in 1..Len(rIds) : x = rIds[k]
      BY <2>3 DEF N!Common, N!ToSet
    <3>3. N!Hash(x) \in remoteIDs
      BY <2>2, <3>1 DEF HashMsgs
    <3>4. Entry(k) \in localIDs /\ Entry(k).h = N!Hash(x) /\ Entry(k).x = x
      BY <2>2, <3>2, HashFacts
    <3> QED BY <2>2, <3>3, <3>4
  <2> QED BY <2>2, <2>4
<1> QED BY <1>1, <1>2 DEF N!ExactIntersection

----------------------------------------------------------------------------
(* KKRTPSI.                                                                *)

\* The encodings of an identifier for the receiver's buckets.
Enc(x) == [h \in HashIdx |-> Encoding(RBucket(x, h), x, h)]
Encs == {Enc(sIds[k]) : k \in 1..Len(sIds)}
Msgs == {"seeds", "key", "keyMaterial", sN} \cup Encs
Replies == Nat \cup {"points", "ciphers", "mask"}

Ended == {"nil", "error", "panicked"}
USE DEF Ended

KType ==
    /\ spc \in {"seeds", "size", "key", "otPoints", "otKey", "otCiphers", "mask", "announce",
                "inputs", "encode", "nil", "error", "panicked"}
    /\ rpc \in {"seeds", "size", "insert", "key", "otPoints", "otKey", "otCiphers", "mask",
                "announce", "intersect", "nil", "error", "panicked"}
    /\ sIds \in Seq(Ids) /\ rIds \in Seq(Ids) /\ sN \in Nat /\ rSize \in Nat
    /\ seeds \in [Ids -> [HashIdx -> Nat]]
    /\ sOt \in 0..(Columns - 1) /\ rOt \in 0..(Columns - 1) /\ left \subseteq 1..sN
    /\ spc \in {"seeds", "size", "key", "otPoints"} => sOt = 0
    /\ rpc \in {"seeds", "size", "insert", "key", "otPoints"} => rOt = 0
    /\ rRead \in Nat /\ s2r \in Seq(Msgs) /\ r2s \in Seq(Replies)

\* The receiver's size is the first thing it writes, and the sender reads it
\* before it derives its keys.
SizeOK ==
    /\ spc \in {"seeds", "size"} =>
          /\ rpc \in {"seeds", "size"} => r2s = <<>>
          /\ rpc \notin {"seeds", "size"} \cup Ended => r2s # <<>>
          /\ r2s # <<>> => r2s[1] = rSize
    /\ spc \notin {"seeds", "size", "error", "panicked"} => remoteN = rSize
    /\ spc \in {"announce", "inputs", "encode", "nil"} => rows = BucketSize(remoteN)

\* The sender's number of keys and the number of buckets are computed by two
\* formulas that agree.
LEMMA KeysAsBuckets ==
    \A m \in Nat : OprfInputSize(m) = BucketSize(m) /\ BucketSize(m) \in Nat \ {0}
  BY DEF OprfInputSize, BucketSize

\* How many messages the receiver has read and the sender has written: those
\* up to the announced length are Before + 1.
Before == Columns + 2
Got ==
    IF rpc = "seeds" THEN 0
    ELSE IF rpc \in {"size", "insert", "key"} THEN 1
    ELSE IF rpc \in {"otPoints", "otKey"} THEN 2 + rOt
    ELSE IF rpc = "otCiphers" THEN 3 + rOt
    ELSE IF rpc \in {"mask", "announce"} THEN Before ELSE Before + 1 + rRead
Written ==
    IF spc = "seeds" THEN 0
    ELSE IF spc \in {"size", "key"} THEN 1
    ELSE IF spc \in {"otPoints", "otKey"} THEN 2 + sOt
    ELSE IF spc = "otCiphers" THEN 3 + sOt
    ELSE IF spc \in {"mask", "announce"} THEN Before
    ELSE IF spc = "inputs" THEN Before + 1
    ELSE Before + 1 + Cardinality((1..sN) \ left)

\* An identifier has been dealt with when it is reported, not the receiver's,
\* or empty.
Matches == {intersection[j] : j \in 1..Len(intersection)}
Dealt(k) == sIds[k] \in Items \ {Empty} => sIds[k] \in Matches
Coming(k) == \E j \in 1..Len(s2r) : Got + j > Before + 1 /\ s2r[j] = Enc(sIds[k])

\* What the receiver has yet to read.
QueueOK ==
    /\ \A j \in 1..Len(s2r) : /\ Got + j = Before + 1 => s2r[j] = sN
                              /\ Got + j > Before + 1 => s2r[j] \in Encs
    /\ ~SenderReturned => Got + Len(s2r) = Written

\* W are the inputs whose encodings have been sent.
Sent(W) ==
    /\ spc = "encode" => W = (1..sN) \ left
    /\ Got + Len(s2r) > Before => Cardinality(W) = Got + Len(s2r) - (Before + 1)
    /\ Got + Len(s2r) <= Before => W = {}
    /\ \A k \in W : k <= Len(sIds) /\ (Coming(k) \/ Dealt(k))

EncodingsOK == rpc \notin Ended => QueueOK /\ \E W \in SUBSET (1..sN) : Sent(W)

\* The table has every item, but the empty identifier perhaps.
TableOK ==
    /\ table \in [DOMAIN table -> HashIdx]
    /\ DOMAIN table \subseteq Items /\ Items \ {Empty} \subseteq DOMAIN table

\* An item's encoding is under its hash index until the item is reported.
OutputOK ==
    /\ rpc \notin {"seeds", "size", "insert", "error", "panicked"} => TableOK
    /\ rpc \in {"announce", "intersect"} =>
          /\ \A h \in HashIdx :
                oprfOutput[h] \subseteq {Enc(x)[h] : x \in {y \in DOMAIN table : table[y] = h}}
          /\ \A x \in DOMAIN table : Enc(x)[table[x]] \in oprfOutput[table[x]] <=> x \notin Matches
    /\ rpc = "intersect" => rMax = sN
    /\ rpc \notin {"intersect"} \cup Ended => intersection = <<>> /\ rRead = 0

ResultOK ==
    /\ intersection \in Seq(Ids) /\ Matches \subseteq Common
    /\ \A i, j \in 1..Len(intersection) : i # j => intersection[i] # intersection[j]
    /\ (rpc = "nil" /\ Len(sIds) <= sN) => Common \ {Empty} \subseteq Matches

KAll == KType /\ SizeOK /\ EncodingsOK /\ OutputOK /\ ResultOK

KInv == protocol = "kkrtpsi" => KAll

LEMMA ModStep ==
    ASSUME NEW c \in 0..(Columns - 1)
    PROVE  /\ c + 1 = Columns => (c + 1) % Columns = 0
           /\ c + 1 # Columns => (c + 1) % Columns = c + 1
           /\ (c + 1) % Columns \in 0..(Columns - 1)
  BY KKRTAssumption

LEMMA KInput ==
    ASSUME sIds' = sIds, rIds' = rIds, rSize' = rSize, sN' = sN, seeds' = seeds
    PROVE  /\ \A x : Enc(x)' = Enc(x)
           /\ Encs' = Encs /\ Msgs' = Msgs /\ Items' = Items /\ Common' = Common
<1>1. \A x : Enc(x)' = Enc(x)
  BY DEF Enc, RBucket, Bucket, Encoding, BucketSize
<1> QED BY <1>1 DEF Encs, Msgs, Items, Common, ToSet

LEMMA KNumbers ==
    ASSUME KType
    PROVE  /\ Got \in Nat /\ Before \in Nat /\ Len(s2r) \in Nat /\ Len(r2s) \in Nat
           /\ Len(sIds) \in Nat /\ Len(rIds) \in Nat /\ Written \in Nat
           /\ Cardinality((1..sN) \ left) \in Nat
<1>1. Before \in Nat /\ rOt \in Nat /\ sOt \in Nat
  BY KKRTAssumption DEF Before, KType
<1>2. Cardinality((1..sN) \ left) \in Nat
  <2>1. (1..sN) \ left \in SUBSET (1..sN) /\ sN \in Nat
    BY DEF KType
  <2> QED BY <2>1, Places
<1>3. Got \in Nat
  BY <1>1 DEF Got, KType
<1>4. Written \in Nat
  BY <1>1, <1>2 DEF Written, KType
<1> QED BY <1>1, <1>2, <1>3, <1>4 DEF KType

\* A step that moves no message from the sender.
LEMMA EncQuiet ==
    ASSUME EncodingsOK, sIds' = sIds, rIds' = rIds, rSize' = rSize, sN' = sN, seeds' = seeds,
           s2r' = s2r,
           intersection' = intersection,
           rpc' \notin Ended => rpc \notin Ended /\ Got' = Got,
           ~SenderReturned' => ~SenderReturned /\ Written' = Written,
           spc' = "encode" => spc = "encode" /\ left' = left
    PROVE  EncodingsOK'
<1> SUFFICES ASSUME rpc' \notin Ended
             PROVE  QueueOK' /\ \E W \in SUBSET (1..sN) : Sent(W)'
  BY DEF EncodingsOK
<1>1. /\ \A x : Enc(x)' = Enc(x)
      /\ Encs' = Encs /\ Items' = Items /\ Matches' = Matches /\ Before' = Before
  BY KInput DEF Matches, Before
<1>2. QueueOK /\ Got' = Got
  BY DEF EncodingsOK
<1>3. PICK W \in SUBSET (1..sN) : Sent(W)
  BY DEF EncodingsOK
<1>4. QueueOK'
  BY <1>1, <1>2 DEF QueueOK
<1>5. \A k : (Coming(k) => Coming(k)') /\ (Dealt(k) => Dealt(k)')
  BY <1>1, <1>2 DEF Coming, Dealt
<1>6. Sent(W)'
  BY <1>1, <1>2, <1>3, <1>5 DEF Sent
<1> QED BY <1>3, <1>4, <1>6

\* The sender writes a message of the first two stages, or the length.
LEMMA EncWrite ==
    ASSUME KType, EncodingsOK, sIds' = sIds, rIds' = rIds, rSize' = rSize, sN' = sN, seeds' = seeds,
           intersection' = intersection, rpc' = rpc, Got' = Got,
           NEW m \in Msgs, s2r' = Append(s2r, m), ~SenderReturned, spc' # "encode",
           Written <= Before, Written' = Written + 1, Written = Before => m = sN
    PROVE  EncodingsOK'
<1> SUFFICES ASSUME rpc \notin Ended
             PROVE  QueueOK' /\ \E W \in SUBSET (1..sN) : Sent(W)'
  BY DEF EncodingsOK
<1>1. /\ \A x : Enc(x)' = Enc(x)
      /\ Encs' = Encs /\ Items' = Items /\ Matches' = Matches /\ Before' = Before
  BY KInput DEF Matches, Before
<1>2. QueueOK /\ Got + Len(s2r) = Written
  BY DEF EncodingsOK, QueueOK
<1>3. /\ Len(s2r') = Len(s2r) + 1 /\ s2r'[Len(s2r) + 1] = m
      /\ \A j \in 1..Len(s2r) : s2r'[j] = s2r[j]
  BY QueueAppend DEF KType
<1>4. Got \in Nat /\ Before \in Nat /\ Len(s2r) \in Nat /\ Written \in Nat
  BY KNumbers
<1>5. ASSUME NEW j \in 1..Len(s2r')
      PROVE  (Got + j = Before + 1 => s2r'[j] = sN) /\ Got + j <= Before + 1
  <2>1. CASE j = Len(s2r) + 1
    BY <1>2, <1>3, <1>4, <2>1
  <2>2. CASE j # Len(s2r) + 1
    <3>1. j \in 1..Len(s2r)
      BY <1>3, <1>4, <2>2
    <3> QED BY <1>2, <1>3, <1>4, <3>1 DEF QueueOK
  <2> QED BY <2>1, <2>2
<1>6. QueueOK'
  <2>1. Got' + Len(s2r') = Written'
    BY <1>2, <1>3, <1>4
  <2> QED BY <1>1, <1>3, <1>4, <1>5, <2>1 DEF QueueOK
<1>7. Sent({})'
  <2>1. Cardinality({}) = 0
    BY FS_EmptySet
  <2> QED BY <1>1, <1>2, <1>3, <1>4, <2>1 DEF Sent
<1> QED BY <1>6, <1>7

\* The receiver reads a message before the encodings.
LEMMA EncRead ==
    ASSUME KType, EncodingsOK, sIds' = sIds, rIds' = rIds, rSize' = rSize, sN' = sN, seeds' = seeds,
           intersection' = intersection, spc' = spc, left' = left, Written' = Written,
           s2r # <<>>, s2r' = Tail(s2r), rpc \notin Ended,
           Got' = Got + 1, Got <= Before
    PROVE  EncodingsOK'
<1> SUFFICES QueueOK' /\ \E W \in SUBSET (1..sN) : Sent(W)'
  BY DEF EncodingsOK
<1>1. /\ \A x : Enc(x)' = Enc(x)
      /\ Encs' = Encs /\ Items' = Items /\ Matches' = Matches /\ Before' = Before
  BY KInput DEF Matches, Before
<1>2. QueueOK
  BY DEF EncodingsOK
<1>3. PICK W \in SUBSET (1..sN) : Sent(W)
  BY DEF EncodingsOK
<1>4. /\ Len(s2r') = Len(s2r) - 1 /\ Len(s2r) > 0
      /\ \A j \in 1..Len(s2r') : j + 1 \in 1..Len(s2r) /\ s2r'[j] = s2r[j + 1]
  BY QueueTail DEF KType
<1>5. Got \in Nat /\ Before \in Nat /\ Len(s2r) \in Nat
  BY KNumbers
<1>6. Got' + Len(s2r') = Got + Len(s2r)
  BY <1>4, <1>5
<1>7. QueueOK'
  <2>1. ASSUME NEW j \in 1..Len(s2r')
        PROVE  /\ Got' + j = Before + 1 => s2r'[j] = sN
               /\ Got' + j > Before + 1 => s2r'[j] \in Encs
    <3>1. j + 1 \in 1..Len(s2r) /\ s2r'[j] = s2r[j + 1] /\ Got' + j = Got + (j + 1)
      BY <1>4, <1>5
    <3> QED BY <1>2, <3>1 DEF QueueOK
  <2>2. ~SenderReturned' => Got' + Len(s2r') = Written'
    BY <1>2, <1>6 DEF QueueOK, SenderReturned
  <2> QED BY <1>1, <2>1, <2>2 DEF QueueOK
<1>8. ASSUME NEW k, Coming(k) PROVE Coming(k)'
  <2>1. PICK j \in 1..Len(s2r) : Got + j > Before + 1 /\ s2r[j] = Enc(sIds[k])
    BY <1>8 DEF Coming
  <2>2. j - 1 \in 1..Len(s2r') /\ (j - 1) + 1 = j /\ Got' + (j - 1) > Before + 1
    BY <1>4, <1>5, <2>1
  <2>3. s2r'[j - 1] = Enc(sIds[k])
    BY <1>4, <2>1, <2>2
  <2> QED BY <1>1, <2>2, <2>3 DEF Coming
<1>9. \A k : Dealt(k) => Dealt(k)'
  BY <1>1 DEF Dealt
<1>10. Sent(W)'
  <2>1. \A k \in W : k <= Len(sIds) /\ (Coming(k)' \/ Dealt(k)')
    BY <1>3, <1>8, <1>9 DEF Sent
  <2>2. /\ Got' + Len(s2r') > Before' => Cardinality(W) = Got' + Len(s2r') - (Before' + 1)
        /\ Got' + Len(s2r') <= Before' => W = {}
    BY <1>1, <1>3, <1>4, <1>5 DEF Sent
  <2>3. spc' = "encode" => W = (1..sN') \ left'
    BY <1>3 DEF Sent
  <2> QED BY <2>1, <2>2, <2>3 DEF Sent
<1> QED BY <1>3, <1>7, <1>10

LEMMA InitKInv ==
    ASSUME NewPSI PROVE KInv
<1> SUFFICES ASSUME protocol = "kkrtpsi" PROVE KAll
  BY DEF KInv
<1>1. Init
  BY DEF NewPSI
<1>2. /\ sIds \in Seq(Ids) /\ rIds \in Seq(Ids) /\ Len(sIds) \in Nat /\ Len(rIds) \in Nat
      /\ sN \in Nat /\ rSize \in Nat /\ seeds \in [Ids -> [HashIdx -> Nat]]
  BY <1>1, InputsAreSeqs, KKRTAssumption DEF Init
<1>3. /\ spc = "seeds" /\ rpc = "seeds" /\ sOt = 0 /\ rOt = 0 /\ left = {} /\ rRead = 0
      /\ intersection = <<>> /\ s2r = <<>> /\ r2s = <<>> /\ Len(s2r) = 0 /\ Len(intersection) = 0
  BY <1>1 DEF Init, InitState
<1>4. KType
  BY <1>2, <1>3, KKRTAssumption DEF KType
<1>5. SizeOK
  BY <1>3 DEF SizeOK
<1>6. QueueOK
  BY <1>3 DEF QueueOK, Got, Written
<1>7. Sent({})
  <2>1. Got = 0 /\ Before \in Nat
    BY <1>3, KKRTAssumption DEF Got, Before
  <2> QED BY <1>3, <2>1 DEF Sent
<1>8. EncodingsOK
  BY <1>6, <1>7 DEF EncodingsOK
<1>9. OutputOK
  BY <1>3 DEF OutputOK, TableOK
<1>10. ResultOK
  BY <1>3 DEF ResultOK, Matches
<1> QED BY <1>4, <1>5, <1>8, <1>9, <1>10 DEF KAll

\* What a step of the sender leaves alone.
LEMMA KReceiverFrame ==
    ASSUME OutputOK, ResultOK, sIds' = sIds, rIds' = rIds, rSize' = rSize, sN' = sN, seeds' = seeds,
           rpc' = rpc,
           table' = table, oprfOutput' = oprfOutput, rMax' = rMax, rRead' = rRead,
           intersection' = intersection
    PROVE  OutputOK' /\ ResultOK'
<1>1. /\ \A x : Enc(x)' = Enc(x)
      /\ Items' = Items /\ Common' = Common /\ Matches' = Matches
  BY KInput DEF Matches
<1>2. OutputOK'
  BY <1>1 DEF OutputOK, TableOK
<1>3. ResultOK'
  BY <1>1 DEF ResultOK
<1> QED BY <1>2, <1>3

\* The messages of the first two stages, and the length.
LEMMA KSenderWrites ==
    ASSUME KAll, WriteSeeds \/ WriteKey \/ OtWriteKey \/ Announce PROVE KAll'
<1>1. /\ sIds' = sIds /\ rIds' = rIds /\ rSize' = rSize /\ sN' = sN /\ seeds' = seeds
      /\ rpc' = rpc /\ rOt' = rOt
      /\ table' = table /\ oprfOutput' = oprfOutput /\ rMax' = rMax /\ rRead' = rRead
      /\ intersection' = intersection /\ r2s' = r2s /\ sOt' = sOt /\ remoteN' = remoteN
      /\ rows' = rows /\ left' = left
  BY DEF WriteSeeds, WriteKey, OtWriteKey, Announce, SendStep, input, receiver, output, keys
<1>2. PICK m \in {"seeds", "key", "keyMaterial", sN} :
        /\ s2r' = Append(s2r, m)
        /\ \/ spc = "seeds" /\ spc' = "size"
           \/ spc = "key" /\ spc' = "otPoints"
           \/ spc = "otKey" /\ spc' = "otCiphers"
           \/ spc = "announce" /\ spc' = "inputs" /\ m = sN
  BY DEF WriteSeeds, WriteKey, OtWriteKey, Announce, SendStep
<1>3. KType /\ SizeOK /\ EncodingsOK /\ OutputOK /\ ResultOK
  BY DEF KAll
<1>4. m \in Msgs /\ Msgs' = Msgs
  BY <1>1, KInput DEF Msgs
<1>5. s2r' \in Seq(Msgs')
  BY <1>2, <1>3, <1>4, QueueAppend DEF KType
<1>6. KType'
  BY <1>1, <1>2, <1>3, <1>5 DEF KType
<1>7. SizeOK'
  BY <1>1, <1>2, <1>3 DEF SizeOK, BucketSize
<1>8. /\ Written <= Before /\ Written' = Written + 1 /\ (Written = Before => m = sN)
      /\ ~SenderReturned /\ spc' # "encode" /\ Got' = Got
  <2>1. sOt \in 0..(Columns - 1) /\ Columns \in Nat \ {0} /\ (spc = "key" => sOt = 0)
    BY <1>3, KKRTAssumption DEF KType
  <2>2. /\ Written <= Before /\ Written' = Written + 1 /\ (Written = Before => m = sN)
    BY <1>1, <1>2, <2>1 DEF Written, Before
  <2>3. Got' = Got
    BY <1>1 DEF Got, Before
  <2> QED BY <1>2, <2>2, <2>3 DEF SenderReturned
<1>9. EncodingsOK'
  BY <1>1, <1>2, <1>3, <1>4, <1>8, EncWrite
<1>10. OutputOK' /\ ResultOK'
  BY <1>1, <1>3, KReceiverFrame
<1> QED BY <1>6, <1>7, <1>9, <1>10 DEF KAll

\* The sender reads the receiver's replies: its size first.
LEMMA KSenderReads ==
    ASSUME KAll, ReadSize \/ OtReadPoints \/ OtReadCiphers \/ ReadMask PROVE KAll'
<1>1. /\ sIds' = sIds /\ rIds' = rIds /\ rSize' = rSize /\ sN' = sN /\ seeds' = seeds
      /\ rpc' = rpc /\ rOt' = rOt
      /\ table' = table /\ oprfOutput' = oprfOutput /\ rMax' = rMax /\ rRead' = rRead
      /\ intersection' = intersection /\ s2r' = s2r /\ left' = left
      /\ r2s' = Tail(r2s) /\ r2s # <<>>
  BY DEF ReadSize, OtReadPoints, OtReadCiphers, ReadMask, CanRecv, input, receiver, output, keys
<1>2. \/ /\ spc = "size" /\ spc' = "key" /\ remoteN' = Head(r2s) /\ rows' = rows /\ sOt' = sOt
      \/ /\ spc = "otPoints" /\ spc' = "otKey" /\ remoteN' = remoteN /\ rows' = rows /\ sOt' = sOt
      \/ /\ spc = "otCiphers" /\ remoteN' = remoteN /\ rows' = rows /\ sOt' = (sOt + 1) % Columns
         /\ spc' = IF sOt + 1 = Columns THEN "mask" ELSE "otKey"
      \/ /\ spc = "mask" /\ remoteN' = remoteN /\ sOt' = (sOt + 1) % Columns
         /\ spc' = IF sOt + 1 = Columns THEN "announce" ELSE "mask"
         /\ rows' = IF sOt + 1 = Columns THEN OprfInputSize(remoteN) ELSE rows
  BY DEF ReadSize, OtReadPoints, OtReadCiphers, ReadMask, keys
<1>3. KType /\ SizeOK /\ EncodingsOK /\ OutputOK /\ ResultOK
  BY DEF KAll
<1>4. /\ sOt \in 0..(Columns - 1) /\ Columns \in Nat \ {0}
      /\ sOt + 1 = Columns => (sOt + 1) % Columns = 0
      /\ sOt + 1 # Columns => (sOt + 1) % Columns = sOt + 1
      /\ (sOt + 1) % Columns \in 0..(Columns - 1)
  BY <1>3, ModStep, KKRTAssumption DEF KType
<1>5. r2s' \in Seq(Replies) /\ Head(r2s) = r2s[1]
  BY <1>1, <1>3, QueueTail DEF KType
<1>6. Msgs' = Msgs
  BY <1>1, KInput
<1>7. KType'
  <2>1. sOt' \in 0..(Columns - 1) /\ (spc' \in {"seeds", "size", "key", "otPoints"} => sOt' = 0)
    BY <1>2, <1>3, <1>4 DEF KType
  <2>2. spc' \in {"key", "otKey", "mask", "announce"}
    BY <1>2
  <2> QED BY <1>1, <1>3, <1>5, <1>6, <2>1, <2>2 DEF KType
<1>8. SizeOK'
  <2>1. CASE spc = "size"
    <3>1. remoteN' = rSize /\ spc' = "key"
      BY <1>1, <1>2, <1>3, <1>5, <2>1 DEF SizeOK
    <3> QED BY <1>1, <3>1 DEF SizeOK
  <2>2. CASE spc # "size"
    <3>1. /\ remoteN' = remoteN /\ remoteN = rSize /\ spc' \in {"otKey", "mask", "announce"}
          /\ spc' = "announce" => rows' = BucketSize(remoteN)
      <4>1. remoteN = rSize /\ rSize \in Nat
        BY <1>2, <1>3, <2>2 DEF SizeOK, KType
      <4> QED BY <1>2, <2>2, <4>1, KeysAsBuckets
    <3> QED BY <1>1, <3>1 DEF SizeOK, BucketSize
  <2> QED BY <2>1, <2>2
<1>9. EncodingsOK'
  <2>1. Got' = Got
    BY <1>1 DEF Got, Before
  <2>2. Written' = Written
    <3>1. spc = "otPoints" => sOt = 0
      BY <1>3 DEF KType
    <3> QED BY <1>2, <1>4, <3>1 DEF Written, Before
  <2>3. ~SenderReturned /\ spc' # "encode"
    BY <1>2 DEF SenderReturned
  <2> QED BY <1>1, <1>3, <2>1, <2>2, <2>3, EncQuiet
<1>10. OutputOK' /\ ResultOK'
  BY <1>1, <1>3, KReceiverFrame
<1> QED BY <1>7, <1>8, <1>9, <1>10 DEF KAll

\* The precompute goroutine, the ends of the sender, and a broken connection.
LEMMA KSenderControl ==
    ASSUME KAll, PreTake \/ PreDone \/ SendDone \/ SenderFails \/ SenderCancel \/ Drop
    PROVE  KAll'
<1>1. /\ sIds' = sIds /\ rIds' = rIds /\ rSize' = rSize /\ sN' = sN /\ seeds' = seeds
      /\ rpc' = rpc /\ rOt' = rOt
      /\ table' = table /\ oprfOutput' = oprfOutput /\ rMax' = rMax /\ rRead' = rRead
      /\ intersection' = intersection /\ s2r' = s2r /\ left' = left /\ r2s' = r2s
      /\ sOt' = sOt /\ remoteN' = remoteN /\ rows' = rows
  BY DEF PreTake, PreDone, SendDone, SenderFails, SenderCancel, Drop, input, receiver, output,
         keys, net, sender
<1>2. spc' = spc \/ spc' \in {"error", "panicked"} \/ (spc = "encode" /\ spc' = "nil")
  BY DEF PreTake, PreDone, SendDone, SenderFails, SenderCancel, Drop, sender
<1>3. KType /\ SizeOK /\ EncodingsOK /\ OutputOK /\ ResultOK
  BY DEF KAll
<1>4. Msgs' = Msgs
  BY <1>1, KInput
<1>5. KType'
  BY <1>1, <1>2, <1>3, <1>4 DEF KType
<1>6. SizeOK'
  BY <1>1, <1>2, <1>3 DEF SizeOK, BucketSize
<1>7. EncodingsOK'
  <2>1. Got' = Got
    BY <1>1 DEF Got, Before
  <2>2. ~SenderReturned' => spc' = spc
    BY <1>2 DEF SenderReturned
  <2>3. spc' = spc => Written' = Written
    BY <1>1 DEF Written, Before
  <2> QED BY <1>1, <1>2, <1>3, <2>1, <2>2, <2>3, EncQuiet DEF SenderReturned
<1>8. OutputOK' /\ ResultOK'
  BY <1>1, <1>3, KReceiverFrame
<1> QED BY <1>5, <1>6, <1>7, <1>8 DEF KAll

LEMMA KTakeInputs ==
    ASSUME KAll, TakeInputs PROVE KAll'
<1>1. /\ sIds' = sIds /\ rIds' = rIds /\ rSize' = rSize /\ sN' = sN /\ seeds' = seeds
      /\ rpc' = rpc /\ rOt' = rOt
      /\ table' = table /\ oprfOutput' = oprfOutput /\ rMax' = rMax /\ rRead' = rRead
      /\ intersection' = intersection /\ s2r' = s2r /\ left' = 1..sN /\ r2s' = r2s
      /\ sOt' = sOt /\ remoteN' = remoteN /\ rows' = rows /\ spc = "inputs" /\ spc' = "encode"
  BY DEF TakeInputs, input, receiver, output, keys, net
<1>2. KType /\ SizeOK /\ EncodingsOK /\ OutputOK /\ ResultOK
  BY DEF KAll
<1>3. /\ \A x : Enc(x)' = Enc(x)
      /\ Encs' = Encs /\ Msgs' = Msgs /\ Items' = Items /\ Matches' = Matches /\ Before' = Before
      /\ Got' = Got
  BY <1>1, KInput DEF Matches, Before, Got
<1>4. KType'
  BY <1>1, <1>2, <1>3 DEF KType
<1>5. SizeOK'
  BY <1>1, <1>2 DEF SizeOK, BucketSize
<1>6. ASSUME rpc \notin Ended PROVE QueueOK' /\ Sent({})'
  <2>1. Cardinality({}) = 0 /\ (1..sN) \ left' = {}
    BY <1>1, FS_EmptySet
  <2>2. QueueOK /\ Got + Len(s2r) = Before + 1 /\ Got \in Nat /\ Before \in Nat /\ Len(s2r) \in Nat
    BY <1>1, <1>2, <1>6, KNumbers DEF EncodingsOK, QueueOK, SenderReturned, Written
  <2>3. Written' = Before + 1
    <3>1. Written' = Before' + 1 + Cardinality((1..sN') \ left')
      BY <1>1 DEF Written
    <3>2. (1..sN') \ left' = {}
      BY <1>1
    <3>3. Cardinality((1..sN') \ left') = 0
      BY <2>1, <3>2
    <3> QED BY <1>3, <2>2, <3>1, <3>3
  <2>4. QueueOK'
    BY <1>1, <1>3, <2>2, <2>3 DEF QueueOK
  <2>5. Sent({})'
    BY <1>1, <1>3, <2>1, <2>2 DEF Sent
  <2> QED BY <2>4, <2>5
<1>7. EncodingsOK'
  BY <1>1, <1>6 DEF EncodingsOK
<1>8. OutputOK' /\ ResultOK'
  BY <1>1, <1>2, KReceiverFrame
<1> QED BY <1>4, <1>5, <1>7, <1>8 DEF KAll

\* One more input's encodings are sent, for the receiver's buckets; an input
\* no identifier filled panics.
LEMMA KWriteEncodings ==
    ASSUME KAll, WriteEncodings PROVE KAll'
<1>1. /\ sIds' = sIds /\ rIds' = rIds /\ rSize' = rSize /\ sN' = sN /\ seeds' = seeds
      /\ rpc' = rpc /\ rOt' = rOt
      /\ table' = table /\ oprfOutput' = oprfOutput /\ rMax' = rMax /\ rRead' = rRead
      /\ intersection' = intersection /\ r2s' = r2s
      /\ sOt' = sOt /\ remoteN' = remoteN /\ rows' = rows /\ spc = "encode"
  BY DEF WriteEncodings, input, receiver, output, keys
<1>2. PICK k \in left :
        /\ left' = left \ {k}
        /\ spc' = IF k > Len(sIds) THEN "panicked" ELSE spc
        /\ s2r' = IF k > Len(sIds) THEN s2r ELSE Append(s2r, Encodings(sIds[k]))
  BY DEF WriteEncodings
<1>3. KType /\ SizeOK /\ EncodingsOK /\ OutputOK /\ ResultOK
  BY DEF KAll
<1>4. /\ \A x : Enc(x)' = Enc(x)
      /\ Encs' = Encs /\ Msgs' = Msgs /\ Items' = Items /\ Matches' = Matches /\ Before' = Before
      /\ Got' = Got
  BY <1>1, KInput DEF Matches, Before, Got
<1>5. /\ Got \in Nat /\ Before \in Nat /\ Len(s2r) \in Nat /\ Len(sIds) \in Nat
      /\ k \in 1..sN /\ sN \in Nat /\ left \subseteq 1..sN
  BY <1>2, <1>3, KNumbers DEF KType
<1>6. OutputOK' /\ ResultOK'
  BY <1>1, <1>3, KReceiverFrame
<1>7. CASE k > Len(sIds)
  <2>1. spc' = "panicked" /\ s2r' = s2r
    BY <1>2, <1>7
  <2>2. KType'
    BY <1>1, <1>2, <1>3, <1>4, <2>1 DEF KType
  <2>3. SizeOK'
    BY <2>1 DEF SizeOK
  <2>4. EncodingsOK'
    BY <1>1, <1>3, <1>4, <2>1, EncQuiet DEF SenderReturned
  <2> QED BY <1>6, <2>2, <2>3, <2>4 DEF KAll
<1>8. CASE ~(k > Len(sIds))
  <2> DEFINE m == Enc(sIds[k])
  <2>1. spc' = "encode" /\ s2r' = Append(s2r, m)
    <3>1. remoteN = rSize
      BY <1>1, <1>3 DEF SizeOK
    <3>2. Encodings(sIds[k]) = Enc(sIds[k])
      BY <3>1 DEF Encodings, Enc, RBucket
    <3> QED BY <1>1, <1>2, <1>8, <3>2
  <2>2. m \in Encs /\ m \in Msgs /\ k <= Len(sIds)
    BY <1>5, <1>8 DEF Encs, Msgs
  <2> HIDE DEF m
  <2>3. /\ s2r' \in Seq(Msgs) /\ Len(s2r') = Len(s2r) + 1 /\ s2r'[Len(s2r) + 1] = m
        /\ \A j \in 1..Len(s2r) : s2r'[j] = s2r[j]
    BY <1>3, <2>1, <2>2, QueueAppend DEF KType
  <2>4. KType'
    BY <1>1, <1>2, <1>3, <1>4, <2>1, <2>3 DEF KType
  <2>5. SizeOK'
    BY <1>1, <1>3, <2>1 DEF SizeOK, BucketSize
  <2>6. ASSUME rpc \notin Ended
        PROVE  QueueOK' /\ \E W \in SUBSET (1..sN) : Sent(W)'
    <3>1. QueueOK /\ \E W \in SUBSET (1..sN) : Sent(W)
      BY <1>3, <2>6 DEF EncodingsOK
    <3>2. PICK V \in SUBSET (1..sN) : Sent(V) /\ V = (1..sN) \ left
      BY <1>1, <3>1 DEF Sent
    <3>3. PICK U \in SUBSET (1..sN) : U = V \cup {k} /\ U = (1..sN) \ left'
      BY <1>2, <1>5, <3>2
    <3>4. Cardinality(U) = Cardinality(V) + 1 /\ Cardinality(V) \in Nat
      <4>1. k \in (1..sN) \ V
        BY <1>5, <3>2
      <4> QED BY <1>5, <3>3, <4>1, Places
    <3>5. Got + Len(s2r) = Before + 1 + Cardinality(V)
      BY <1>1, <3>1, <3>2 DEF QueueOK, SenderReturned, Written
    <3>6. Got' + Len(s2r') = Written' /\ Written' = Before + 1 + Cardinality(U)
      <4>1. Written' = Before' + 1 + Cardinality((1..sN') \ left')
        BY <2>1 DEF Written
      <4>2. Written' = Before + 1 + Cardinality(U)
        BY <1>1, <1>4, <3>3, <4>1
      <4>3. Got' = Got /\ Len(s2r') = Len(s2r) + 1 /\ Got \in Nat /\ Len(s2r) \in Nat /\ Before \in Nat
        BY <1>4, <1>5, <2>3
      <4> QED BY <3>4, <3>5, <4>2, <4>3
    <3>7. ASSUME NEW j \in 1..Len(s2r')
          PROVE  /\ Got + j = Before + 1 => s2r'[j] = sN
                 /\ Got + j > Before + 1 => s2r'[j] \in Encs
      <4>1. CASE j = Len(s2r) + 1
        BY <1>5, <2>2, <2>3, <3>4, <3>5, <4>1
      <4>2. CASE j # Len(s2r) + 1
        <5>1. j \in 1..Len(s2r)
          BY <1>5, <2>3, <4>2
        <5> QED BY <2>3, <3>1, <5>1 DEF QueueOK
      <4> QED BY <4>1, <4>2
    <3>8. QueueOK'
      BY <1>1, <1>4, <3>6, <3>7 DEF QueueOK
    <3>9. ASSUME NEW l, Coming(l) PROVE Coming(l)'
      <4>1. PICK j \in 1..Len(s2r) : Got + j > Before + 1 /\ s2r[j] = Enc(sIds[l])
        BY <3>9 DEF Coming
      <4>2. j \in 1..Len(s2r') /\ s2r'[j] = s2r[j]
        BY <1>5, <2>3
      <4> QED BY <1>1, <1>4, <4>1, <4>2 DEF Coming
    <3>10. Coming(k)'
      <4>1. Len(s2r) + 1 \in 1..Len(s2r') /\ Got + (Len(s2r) + 1) > Before + 1
        BY <1>5, <2>3, <3>4, <3>5
      <4> QED BY <1>1, <1>4, <2>3, <4>1 DEF Coming, m
    <3>11. \A l : Dealt(l) => Dealt(l)'
      BY <1>1, <1>4 DEF Dealt
    <3>12. \A l \in U : l <= Len(sIds) /\ (Coming(l)' \/ Dealt(l)')
      BY <2>2, <3>2, <3>3, <3>9, <3>10, <3>11 DEF Sent
    <3>13. /\ Got' + Len(s2r') > Before' /\ ~(Got' + Len(s2r') <= Before')
           /\ Cardinality(U) = Got' + Len(s2r') - (Before' + 1)
      BY <1>4, <1>5, <3>4, <3>6
    <3>14. Sent(U)'
      <4>1. spc' = "encode" => U = (1..sN') \ left'
        BY <1>1, <3>3
      <4>2. \A l \in U : l <= Len(sIds') /\ (Coming(l)' \/ Dealt(l)')
        BY <1>1, <3>12
      <4> QED BY <3>13, <4>1, <4>2 DEF Sent
    <3> QED BY <3>8, <3>14
  <2>7. EncodingsOK'
    BY <1>1, <2>6 DEF EncodingsOK
  <2> QED BY <1>6, <2>4, <2>5, <2>7 DEF KAll
<1> QED BY <1>7, <1>8

\* The receiver reads a message of the first two stages.
LEMMA KReceiverReads ==
    ASSUME KAll, ReadSeeds \/ ReadKey \/ OtReadKey PROVE KAll'
<1>1. /\ sIds' = sIds /\ rIds' = rIds /\ rSize' = rSize /\ sN' = sN /\ seeds' = seeds
      /\ rOt' = rOt
      /\ table' = table /\ oprfOutput' = oprfOutput /\ rMax' = rMax /\ rRead' = rRead
      /\ intersection' = intersection /\ r2s' = r2s /\ spc' = spc /\ left' = left
      /\ sOt' = sOt /\ remoteN' = remoteN /\ rows' = rows /\ s2r # <<>> /\ s2r' = Tail(s2r)
      /\ \/ rpc = "seeds" /\ rpc' = "size"
         \/ rpc = "key" /\ rpc' = "otPoints"
         \/ rpc = "otKey" /\ rpc' = "otCiphers"
  BY DEF ReadSeeds, ReadKey, OtReadKey, RecvStep, CanRecv, input, sender, output, keys
<1>2. KType /\ SizeOK /\ EncodingsOK /\ OutputOK /\ ResultOK
  BY DEF KAll
<1>3. /\ \A x : Enc(x)' = Enc(x)
      /\ Msgs' = Msgs /\ Items' = Items /\ Common' = Common /\ Matches' = Matches
  BY <1>1, KInput DEF Matches
<1>4. KType'
  <2>1. s2r' \in Seq(Msgs)
    BY <1>1, <1>2, QueueTail DEF KType
  <2> QED BY <1>1, <1>2, <1>3, <2>1 DEF KType
<1>5. SizeOK'
  BY <1>1, <1>2 DEF SizeOK, BucketSize
<1>6. EncodingsOK'
  <2>1. rOt \in 0..(Columns - 1) /\ Columns \in Nat \ {0} /\ (rpc = "key" => rOt = 0)
    BY <1>2, KKRTAssumption DEF KType
  <2>2. Got' = Got + 1 /\ Got <= Before
    BY <1>1, <2>1 DEF Got, Before
  <2>3. Written' = Written
    BY <1>1 DEF Written, Before
  <2> QED BY <1>1, <1>2, <2>2, <2>3, EncRead
<1>7. OutputOK'
  BY <1>1, <1>2, <1>3 DEF OutputOK, TableOK
<1>8. ResultOK'
  BY <1>1, <1>2, <1>3 DEF ResultOK
<1> QED BY <1>4, <1>5, <1>6, <1>7, <1>8 DEF KAll

\* The receiver writes; with the last masked column it indexes its encodings.
LEMMA KReceiverWrites ==
    ASSUME KAll, WriteSize \/ OtWritePoints \/ OtWriteCiphers \/ WriteMask PROVE KAll'
<1>1. /\ sIds' = sIds /\ rIds' = rIds /\ rSize' = rSize /\ sN' = sN /\ seeds' = seeds
      /\ table' = table /\ rMax' = rMax /\ rRead' = rRead
      /\ intersection' = intersection /\ s2r' = s2r /\ spc' = spc /\ left' = left
      /\ sOt' = sOt /\ remoteN' = remoteN /\ rows' = rows
  BY DEF WriteSize, OtWritePoints, OtWriteCiphers, WriteMask, ReplyStep, input, sender, output, keys
<1>2. PICK m \in {rSize, "points", "ciphers", "mask"} :
      /\ r2s' = Append(r2s, m)
      /\ \/ rpc = "size" /\ rpc' = "insert" /\ rOt' = rOt /\ m = rSize
         \/ rpc = "otPoints" /\ rpc' = "otKey" /\ rOt' = rOt
         \/ /\ rpc = "otCiphers" /\ rpc' = IF rOt + 1 = Columns THEN "mask" ELSE "otKey"
            /\ rOt' = (rOt + 1) % Columns
         \/ /\ rpc = "mask" /\ rpc' = IF rOt + 1 = Columns THEN "announce" ELSE "mask"
            /\ rOt' = (rOt + 1) % Columns
            /\ oprfOutput' = IF rOt + 1 = Columns THEN IndexAll ELSE oprfOutput
  BY DEF WriteSize, OtWritePoints, OtWriteCiphers, WriteMask, ReplyStep
<1>3. KType /\ SizeOK /\ EncodingsOK /\ OutputOK /\ ResultOK
  BY DEF KAll
<1>4. /\ rOt \in 0..(Columns - 1) /\ Columns \in Nat \ {0}
      /\ rOt + 1 = Columns => (rOt + 1) % Columns = 0
      /\ rOt + 1 # Columns => (rOt + 1) % Columns = rOt + 1
      /\ (rOt + 1) % Columns \in 0..(Columns - 1)
  BY <1>3, ModStep, KKRTAssumption DEF KType
<1>5. /\ \A x : Enc(x)' = Enc(x)
      /\ Msgs' = Msgs /\ Items' = Items /\ Common' = Common /\ Matches' = Matches
  BY <1>1, KInput DEF Matches
<1>6. m \in Replies /\ rSize \in Nat /\ r2s \in Seq(Replies)
  BY <1>3, KNumbers DEF Replies, KType
<1>7. /\ r2s' \in Seq(Replies) /\ r2s' # <<>> /\ Len(r2s) \in Nat
      /\ \A j \in 1..Len(r2s) : r2s'[j] = r2s[j]
      /\ r2s'[Len(r2s) + 1] = m
  BY <1>2, <1>6, QueueAppend
<1>8. rpc' \in {"insert", "otKey", "mask", "announce"}
  BY <1>2
<1>9. KType'
  <2>1. rOt' \in 0..(Columns - 1) /\ (rpc' = "insert" => rOt' = 0)
    BY <1>2, <1>3, <1>4 DEF KType
  <2> QED BY <1>1, <1>3, <1>5, <1>7, <1>8, <2>1 DEF KType
<1>10. SizeOK'
  <2>1. ASSUME spc \in {"seeds", "size"} PROVE r2s'[1] = rSize
    <3>1. CASE rpc = "size"
      <4>1. r2s = <<>> /\ m = rSize
        BY <1>2, <1>3, <2>1, <3>1 DEF SizeOK
      <4> QED BY <1>7, <4>1
    <3>2. CASE rpc # "size"
      <4>1. r2s # <<>> /\ r2s[1] = rSize
        BY <1>2, <1>3, <2>1, <3>2 DEF SizeOK
      <4>2. 1 \in 1..Len(r2s)
        BY <1>6, <4>1
      <4> QED BY <1>7, <4>1, <4>2
    <3> QED BY <3>1, <3>2
  <2> QED BY <1>1, <1>3, <1>7, <1>8, <2>1 DEF SizeOK, BucketSize
<1>11. EncodingsOK'
  <2>1. Got' = Got
    <3>1. rpc = "otPoints" => rOt = 0
      BY <1>3 DEF KType
    <3> QED BY <1>2, <1>4, <3>1 DEF Got, Before
  <2>2. Written' = Written
    BY <1>1 DEF Written, Before
  <2>3. rpc \notin Ended
    BY <1>2
  <2> QED BY <1>1, <1>3, <2>1, <2>2, <2>3, EncQuiet DEF SenderReturned
<1>12. OutputOK'
  <2>1. intersection' = <<>> /\ rRead' = 0
    BY <1>1, <1>2, <1>3 DEF OutputOK, TableOK
  <2>2. rpc' # "insert" => TableOK'
    BY <1>1, <1>2, <1>3, <1>5 DEF OutputOK, TableOK
  <2>3. ASSUME rpc' = "announce"
        PROVE  /\ \A h \in HashIdx :
                     oprfOutput'[h] \subseteq {Enc(x)[h] : x \in {y \in DOMAIN table : table[y] = h}}
               /\ \A x \in DOMAIN table : Enc(x)[table[x]] \in oprfOutput'[table[x]] /\ x \notin Matches
    <3>1. oprfOutput' = IndexAll /\ TableOK /\ intersection = <<>>
      BY <1>2, <1>3, <2>3 DEF OutputOK, TableOK
    <3>2. \A h \in HashIdx : IndexAll[h] = {Enc(x)[h] : x \in {y \in DOMAIN table : table[y] = h}}
      BY DEF IndexAll, Enc
    <3>3. \A x : x \notin Matches
      BY <3>1 DEF Matches
    <3>4. \A x \in DOMAIN table : table[x] \in HashIdx
      BY <3>1 DEF TableOK
    <3> QED BY <3>1, <3>2, <3>3, <3>4
  <2> QED BY <1>1, <1>5, <1>8, <2>1, <2>2, <2>3 DEF OutputOK, TableOK
<1>13. ResultOK'
  BY <1>1, <1>3, <1>5, <1>8 DEF ResultOK
<1> QED BY <1>9, <1>10, <1>11, <1>12, <1>13 DEF KAll

\* Every identifier is inserted, but the empty one perhaps.
LEMMA InsertedAll ==
    ASSUME rIds \in Seq(Ids), NEW e
    PROVE  /\ Inserted(Len(rIds) + 1, e) \subseteq Items
           /\ Items \ {Empty} \subseteq Inserted(Len(rIds) + 1, e)
<1>1. DOMAIN rIds = 1..Len(rIds) /\ (Len(rIds) + 1) - 1 = Len(rIds)
  OBVIOUS
<1> QED BY <1>1 DEF Inserted, Items, ToSet

\* The cuckoo table is built, and the receiver fails.
LEMMA KReceiverControl ==
    ASSUME KAll, Insert \/ InsertPanics \/ InsertFails \/ ReceiverFails \/ ReceiverCancel PROVE KAll'
<1>1. /\ sIds' = sIds /\ rIds' = rIds /\ rSize' = rSize /\ sN' = sN /\ seeds' = seeds
      /\ rOt' = rOt
      /\ oprfOutput' = oprfOutput /\ rMax' = rMax /\ rRead' = rRead
      /\ intersection' = intersection /\ r2s' = r2s /\ s2r' = s2r /\ spc' = spc /\ left' = left
      /\ sOt' = sOt /\ remoteN' = remoteN /\ rows' = rows
      /\ \/ rpc = "insert" /\ rpc' = "key" /\ Insert
         \/ rpc' \in {"error", "panicked"}
  BY DEF Insert, InsertPanics, InsertFails, ReceiverFails, ReceiverCancel, input, sender, output,
         keys, net
<1>2. KType /\ SizeOK /\ EncodingsOK /\ OutputOK /\ ResultOK
  BY DEF KAll
<1>3. Msgs' = Msgs /\ Items' = Items /\ Common' = Common /\ Matches' = Matches
  BY <1>1, KInput DEF Matches
<1>4. ASSUME Insert PROVE TableOK'
  <2>1. PICK e : table' \in Tables(Inserted(Len(rIds) + 1, e))
    BY <1>4 DEF Insert
  <2> DEFINE D == Inserted(Len(rIds) + 1, e)
  <2>2. D \subseteq Items /\ Items \ {Empty} \subseteq D
    BY <1>2, InsertedAll DEF KType
  <2> HIDE DEF D
  <2>3. table' \in [D -> HashIdx]
    BY <2>1 DEF Tables, D
  <2> QED BY <1>3, <2>2, <2>3 DEF TableOK
<1>5. KType'
  BY <1>1, <1>2, <1>3 DEF KType
<1>6. SizeOK'
  BY <1>1, <1>2 DEF SizeOK, BucketSize
<1>7. EncodingsOK'
  <2>1. rpc' \notin Ended => Got' = Got /\ rpc \notin Ended
    BY <1>1 DEF Got
  <2>2. Written' = Written
    BY <1>1 DEF Written, Before
  <2> QED BY <1>1, <1>2, <2>1, <2>2, EncQuiet DEF SenderReturned
<1>8. OutputOK'
  <2>1. CASE rpc' \in {"error", "panicked"}
    BY <2>1 DEF OutputOK
  <2>2. CASE rpc = "insert" /\ rpc' = "key" /\ Insert
    <3>1. intersection' = <<>> /\ rRead' = 0
      BY <1>1, <1>2, <2>2 DEF OutputOK
    <3>2. TableOK'
      BY <1>4, <2>2
    <3>3. rpc' = "key"
      BY <2>2
    <3> QED BY <3>1, <3>2, <3>3 DEF OutputOK
  <2> QED BY <1>1, <2>1, <2>2
<1>9. ResultOK'
  BY <1>1, <1>2, <1>3 DEF ResultOK
<1> QED BY <1>5, <1>6, <1>7, <1>8, <1>9 DEF KAll

LEMMA KReadAnnounced ==
    ASSUME KAll, ReadAnnounced PROVE KAll'
<1>1. /\ sIds' = sIds /\ rIds' = rIds /\ rSize' = rSize /\ sN' = sN /\ seeds' = seeds
      /\ rOt' = rOt
      /\ table' = table /\ oprfOutput' = oprfOutput /\ rMax' = Head(s2r) /\ rRead' = rRead
      /\ intersection' = intersection /\ r2s' = r2s /\ spc' = spc /\ left' = left
      /\ sOt' = sOt /\ remoteN' = remoteN /\ rows' = rows /\ s2r # <<>> /\ s2r' = Tail(s2r)
      /\ rpc = "announce" /\ rpc' = "intersect"
  BY DEF ReadAnnounced, RecvStep, CanRecv, input, sender, keys
<1>2. KType /\ SizeOK /\ EncodingsOK /\ OutputOK /\ ResultOK
  BY DEF KAll
<1>3. /\ \A x : Enc(x)' = Enc(x)
      /\ Msgs' = Msgs /\ Items' = Items /\ Common' = Common /\ Matches' = Matches
  BY <1>1, KInput DEF Matches
<1>4. s2r' \in Seq(Msgs) /\ Head(s2r) = s2r[1] /\ Len(s2r) \in Nat \ {0}
  BY <1>1, <1>2, QueueTail DEF KType
<1>5. KType'
  BY <1>1, <1>2, <1>3, <1>4 DEF KType
<1>6. SizeOK'
  BY <1>1, <1>2 DEF SizeOK, BucketSize
<1>7. rRead = 0 /\ Before \in Nat /\ Got = Before
  BY <1>1, <1>2, KNumbers DEF OutputOK, TableOK, Got
<1>8. EncodingsOK'
  <2>1. Got' = Got + 1 /\ Got <= Before
    BY <1>1, <1>7 DEF Got, Before
  <2>2. Written' = Written
    BY <1>1 DEF Written, Before
  <2> QED BY <1>1, <1>2, <2>1, <2>2, EncRead
<1>9. rMax' = sN
  <2>1. QueueOK /\ 1 \in 1..Len(s2r) /\ Got + 1 = Before + 1
    BY <1>1, <1>2, <1>4, <1>7 DEF EncodingsOK
  <2> QED BY <1>1, <1>4, <2>1 DEF QueueOK
<1>10. OutputOK'
  BY <1>1, <1>2, <1>3, <1>9 DEF OutputOK, TableOK
<1>11. ResultOK'
  BY <1>1, <1>2, <1>3 DEF ResultOK
<1> QED BY <1>5, <1>6, <1>8, <1>10, <1>11 DEF KAll

\* An encoding tells the identifier it is of.
LEMMA EncInjective ==
    /\ \A x, y, h : h \in HashIdx /\ Enc(x)[h] = Enc(y)[h] => x = y
    /\ \A x, h : h \in HashIdx => Enc(x)[h].id = x
<1>1. \A x, h : h \in HashIdx => Enc(x)[h].id = x
  BY DEF Enc, Encoding
<1> QED BY <1>1

\* Of the three encodings of an identifier only the one of the item's hash
\* index can be found, and only once.
LEMMA FoundOne ==
    ASSUME KAll, rpc = "intersect", NEW y
    PROVE  IF y \in DOMAIN table /\ y \notin Matches
           THEN intersection \o Found(Enc(y), 0) \o Found(Enc(y), 1) \o Found(Enc(y), 2)
                   = Append(intersection, y)
           ELSE intersection \o Found(Enc(y), 0) \o Found(Enc(y), 1) \o Found(Enc(y), 2)
                   = intersection
<1>1. /\ TableOK
      /\ \A h \in HashIdx :
            oprfOutput[h] \subseteq {Enc(x)[h] : x \in {z \in DOMAIN table : table[z] = h}}
      /\ \A x \in DOMAIN table : Enc(x)[table[x]] \in oprfOutput[table[x]] <=> x \notin Matches
  BY DEF KAll, OutputOK, TableOK
<1>2. ASSUME NEW h \in HashIdx, Enc(y)[h] \in oprfOutput[h]
      PROVE  y \in DOMAIN table /\ table[y] = h /\ y \notin Matches
  <2>1. PICK x \in DOMAIN table : table[x] = h /\ Enc(y)[h] = Enc(x)[h]
    BY <1>1, <1>2
  <2>2. x = y
    BY <2>1, EncInjective
  <2> QED BY <1>1, <1>2, <2>1, <2>2
<1>3. ASSUME NEW h \in HashIdx
      PROVE  Found(Enc(y), h) = IF y \in DOMAIN table /\ y \notin Matches /\ table[y] = h
                                THEN <<y>> ELSE <<>>
  <2>1. Enc(y)[h].id = y
    BY EncInjective
  <2>2. Enc(y)[h] \in oprfOutput[h] <=> (y \in DOMAIN table /\ y \notin Matches /\ table[y] = h)
    BY <1>1, <1>2
  <2> QED BY <2>1, <2>2 DEF Found
<1>4. intersection \in Seq(Ids) /\ 0 \in HashIdx /\ 1 \in HashIdx /\ 2 \in HashIdx
  BY DEF KAll, ResultOK, HashIdx
<1>5. CASE y \in DOMAIN table /\ y \notin Matches
  <2>1. y \in Ids
    <3>1. rIds \in Seq(Ids) /\ DOMAIN rIds = 1..Len(rIds)
      BY DEF KAll, KType
    <3> QED BY <1>1, <1>5, <3>1 DEF TableOK, Items, ToSet
  <2>2. table[y] = 0 \/ table[y] = 1 \/ table[y] = 2
    BY <1>1, <1>5 DEF HashIdx, TableOK
  <2>3. /\ intersection \o <<>> = intersection
        /\ intersection \o <<y>> = Append(intersection, y)
        /\ Append(intersection, y) \o <<>> = Append(intersection, y)
    BY <1>4, <2>1
  <2>4. CASE table[y] = 0
    <3>1. Found(Enc(y), 0) = <<y>> /\ Found(Enc(y), 1) = <<>> /\ Found(Enc(y), 2) = <<>>
      BY <1>3, <1>4, <1>5, <2>4
    <3> QED BY <1>5, <2>3, <3>1
  <2>5. CASE table[y] = 1
    <3>1. Found(Enc(y), 0) = <<>> /\ Found(Enc(y), 1) = <<y>> /\ Found(Enc(y), 2) = <<>>
      BY <1>3, <1>4, <1>5, <2>5
    <3> QED BY <1>5, <2>3, <3>1
  <2>6. CASE table[y] = 2
    <3>1. Found(Enc(y), 0) = <<>> /\ Found(Enc(y), 1) = <<>> /\ Found(Enc(y), 2) = <<y>>
      BY <1>3, <1>4, <1>5, <2>6
    <3> QED BY <1>5, <2>3, <3>1
  <2> QED BY <2>2, <2>4, <2>5, <2>6
<1>6. CASE ~(y \in DOMAIN table /\ y \notin Matches)
  <2>1. Found(Enc(y), 0) = <<>> /\ Found(Enc(y), 1) = <<>> /\ Found(Enc(y), 2) = <<>>
    BY <1>3, <1>4, <1>6
  <2>2. intersection \o <<>> = intersection
    BY <1>4
  <2> QED BY <1>6, <2>1, <2>2
<1> QED BY <1>5, <1>6

\* The encodings of one identifier are looked up: it is reported if it is an
\* item that has not been reported.
LEMMA KReadEncodings ==
    ASSUME KAll, ReadEncodings PROVE KAll'
<1> DEFINE enc == Head(s2r)
<1>1. /\ sIds' = sIds /\ rIds' = rIds /\ rSize' = rSize /\ sN' = sN /\ seeds' = seeds
      /\ rOt' = rOt
      /\ table' = table /\ rMax' = rMax /\ rRead' = rRead + 1
      /\ r2s' = r2s /\ spc' = spc /\ left' = left /\ sOt' = sOt /\ remoteN' = remoteN
      /\ rows' = rows /\ s2r # <<>> /\ s2r' = Tail(s2r)
      /\ rpc = "intersect" /\ rpc' = "intersect" /\ rRead < rMax
  BY DEF ReadEncodings, RecvStep, CanRecv, input, sender, keys
<1>2. /\ intersection' = intersection \o Found(enc, 0) \o Found(enc, 1) \o Found(enc, 2)
      /\ oprfOutput' = [h \in HashIdx |-> oprfOutput[h] \ {enc[h]}]
  BY DEF ReadEncodings
<1>3. KType /\ SizeOK /\ EncodingsOK /\ OutputOK /\ ResultOK
  BY DEF KAll
<1>4. /\ \A x : Enc(x)' = Enc(x)
      /\ Encs' = Encs /\ Msgs' = Msgs /\ Items' = Items /\ Common' = Common /\ Before' = Before
  BY <1>1, KInput DEF Before
<1>5. /\ s2r' \in Seq(Msgs) /\ Len(s2r') = Len(s2r) - 1 /\ Len(s2r) \in Nat \ {0}
      /\ \A j \in 1..Len(s2r') : j + 1 \in 1..Len(s2r) /\ s2r'[j] = s2r[j + 1]
      /\ enc = s2r[1]
  BY <1>1, <1>3, QueueTail DEF KType
<1>6. /\ Got \in Nat /\ Before \in Nat /\ rRead \in Nat /\ Got = Before + 1 + rRead
      /\ Got' = Got + 1 /\ Len(sIds) \in Nat
  <2>1. Got \in Nat /\ Before \in Nat /\ rRead \in Nat /\ Len(sIds) \in Nat
    BY <1>3, KNumbers DEF KType
  <2> QED BY <1>1, <1>4, <2>1 DEF Got
<1>7. QueueOK
  BY <1>1, <1>3 DEF EncodingsOK
<1>8. PICK l \in 1..Len(sIds) : enc = Enc(sIds[l])
  <2>1. 1 \in 1..Len(s2r) /\ Got + 1 > Before + 1
    BY <1>5, <1>6
  <2>2. enc \in Encs
    BY <1>5, <1>7, <2>1 DEF QueueOK
  <2> QED BY <2>2 DEF Encs
<1> DEFINE y == sIds[l]
<1>9. /\ y \in DOMAIN table /\ y \notin Matches => intersection' = Append(intersection, y)
      /\ ~(y \in DOMAIN table /\ y \notin Matches) => intersection' = intersection
  BY <1>1, <1>2, <1>8, FoundOne
<1>10. y \in Ids /\ (y \in DOMAIN table => y \in Common)
        /\ (y \in Items \ {Empty} => y \in DOMAIN table)
  <2>1. sIds \in Seq(Ids) /\ DOMAIN sIds = 1..Len(sIds)
    BY <1>3 DEF KType
  <2>2. TableOK
    BY <1>1, <1>3 DEF OutputOK, TableOK
  <2> QED BY <2>1, <2>2 DEF TableOK, Common, ToSet, Items
<1> HIDE DEF y, enc
<1>11. /\ intersection \in Seq(Ids) /\ Len(intersection) \in Nat /\ intersection' \in Seq(Ids)
  BY <1>3, <1>9, <1>10 DEF ResultOK
<1>12. Matches' = IF y \in DOMAIN table THEN Matches \cup {y} ELSE Matches
  <2>1. CASE y \in DOMAIN table /\ y \notin Matches
    <3>1. /\ Len(intersection') = Len(intersection) + 1
          /\ intersection'[Len(intersection) + 1] = y
          /\ \A j \in 1..Len(intersection) : intersection'[j] = intersection[j]
      BY <1>9, <1>10, <1>11, <2>1
    <3>2. 1..Len(intersection') = (1..Len(intersection)) \cup {Len(intersection) + 1}
      BY <1>11, <3>1
    <3>3. \A z : z \in Matches' <=> z \in Matches \/ z = y
      BY <3>1, <3>2 DEF Matches
    <3> QED BY <2>1, <3>3
  <2>2. CASE ~(y \in DOMAIN table /\ y \notin Matches)
    <3>1. Matches' = Matches
      BY <1>9, <2>2 DEF Matches
    <3> QED BY <2>2, <3>1
  <2> QED BY <2>1, <2>2
<1>13. KType'
  BY <1>1, <1>3, <1>4, <1>5, <1>6 DEF KType
<1>14. SizeOK'
  BY <1>1, <1>3 DEF SizeOK, BucketSize
<1>15. EncodingsOK'
  <2>1. Got' + Len(s2r') = Got + Len(s2r)
    BY <1>5, <1>6
  <2>2. QueueOK'
    <3>1. ASSUME NEW j \in 1..Len(s2r')
          PROVE  /\ Got' + j = Before + 1 => s2r'[j] = sN
                 /\ Got' + j > Before + 1 => s2r'[j] \in Encs
      <4>1. j + 1 \in 1..Len(s2r) /\ s2r'[j] = s2r[j + 1] /\ Got' + j = Got + (j + 1)
        BY <1>5, <1>6
      <4> QED BY <1>7, <4>1 DEF QueueOK
    <3>2. ~SenderReturned' => Got' + Len(s2r') = Written'
      <4>1. Written' = Written
        BY <1>1, <1>4 DEF Written
      <4> QED BY <1>1, <1>7, <2>1, <4>1 DEF QueueOK, SenderReturned
    <3> QED BY <1>1, <1>4, <3>1, <3>2 DEF QueueOK
  <2>3. PICK W \in SUBSET (1..sN) : Sent(W)
    BY <1>1, <1>3 DEF EncodingsOK
  <2>4. ASSUME NEW k, Dealt(k) PROVE Dealt(k)'
    BY <1>1, <1>4, <1>12, <2>4 DEF Dealt
  <2>5. ASSUME NEW k, Coming(k) PROVE Coming(k)' \/ Dealt(k)'
    <3>1. PICK j \in 1..Len(s2r) : s2r[j] = Enc(sIds[k])
      BY <2>5 DEF Coming
    <3>2. CASE j = 1
      <4>1. Enc(sIds[k]) = Enc(y)
        BY <1>5, <1>8, <3>1, <3>2 DEF y
      <4>2. 0 \in HashIdx /\ Enc(sIds[k])[0] = Enc(y)[0]
        BY <4>1 DEF HashIdx
      <4>3. sIds[k] = y
        BY <4>2, EncInjective
      <4> QED BY <1>1, <1>4, <1>10, <1>12, <4>3 DEF Dealt
    <3>3. CASE j # 1
      <4>1. j - 1 \in 1..Len(s2r') /\ (j - 1) + 1 = j /\ Got' + (j - 1) > Before + 1
        <5>1. Len(s2r') = Len(s2r) - 1 /\ Len(s2r) \in Nat \ {0} /\ j \in 1..Len(s2r)
          BY <1>5
        <5>2. Got' = Before + 1 + rRead + 1 /\ Before \in Nat /\ rRead \in Nat
          BY <1>6
        <5> QED BY <3>3, <5>1, <5>2
      <4>2. s2r'[j - 1] = Enc(sIds[k])
        BY <1>5, <3>1, <4>1
      <4> QED BY <1>1, <1>4, <4>1, <4>2 DEF Coming
    <3> QED BY <3>2, <3>3
  <2>6. Sent(W)'
    <3>1. \A k \in W : k <= Len(sIds') /\ (Coming(k)' \/ Dealt(k)')
      BY <1>1, <2>3, <2>4, <2>5 DEF Sent
    <3>2. /\ Got' + Len(s2r') > Before' => Cardinality(W) = Got' + Len(s2r') - (Before' + 1)
          /\ Got' + Len(s2r') <= Before' => W = {}
      BY <1>4, <1>5, <1>6, <2>3 DEF Sent
    <3>3. spc' = "encode" => W = (1..sN') \ left'
      BY <1>1, <2>3 DEF Sent
    <3> QED BY <3>1, <3>2, <3>3 DEF Sent
  <2> QED BY <1>1, <2>2, <2>3, <2>6 DEF EncodingsOK
<1>16. OutputOK'
  <2>1. /\ TableOK /\ rMax = sN
        /\ \A h \in HashIdx :
              oprfOutput[h] \subseteq {Enc(x)[h] : x \in {z \in DOMAIN table : table[z] = h}}
        /\ \A x \in DOMAIN table : Enc(x)[table[x]] \in oprfOutput[table[x]] <=> x \notin Matches
    BY <1>1, <1>3 DEF OutputOK, TableOK
  <2>2. \A h \in HashIdx : oprfOutput'[h] = oprfOutput[h] \ {Enc(y)[h]}
    BY <1>2, <1>8 DEF y
  <2>3. \A x \in DOMAIN table : Enc(x)[table[x]] \in oprfOutput'[table[x]] <=> x \notin Matches'
    <3> TAKE x \in DOMAIN table
    <3>1. table[x] \in HashIdx
      BY <2>1 DEF TableOK
    <3>2. Enc(x)[table[x]] = Enc(y)[table[x]] <=> x = y
      BY <3>1, EncInjective
    <3>3. Enc(x)[table[x]] \in oprfOutput'[table[x]] <=> (x \notin Matches /\ x # y)
      BY <2>1, <2>2, <3>1, <3>2
    <3> QED BY <1>12, <3>3
  <2>4. \A h \in HashIdx :
           oprfOutput'[h] \subseteq {Enc(x)[h] : x \in {z \in DOMAIN table : table[z] = h}}
    BY <2>1, <2>2
  <2> QED BY <1>1, <1>4, <2>1, <2>3, <2>4 DEF OutputOK, TableOK
<1>17. ResultOK'
  <2>1. Matches' \subseteq Common
    BY <1>3, <1>10, <1>12 DEF ResultOK
  <2>2. ASSUME NEW i \in 1..Len(intersection'), NEW j \in 1..Len(intersection'), i # j
        PROVE  intersection'[i] # intersection'[j]
    <3>1. CASE ~(y \in DOMAIN table /\ y \notin Matches)
      <4>1. intersection' = intersection
        BY <1>9, <3>1
      <4> QED BY <1>3, <2>2, <4>1 DEF ResultOK
    <3>2. CASE y \in DOMAIN table /\ y \notin Matches
      <4>1. /\ Len(intersection') = Len(intersection) + 1
            /\ intersection'[Len(intersection) + 1] = y
            /\ \A k \in 1..Len(intersection) : intersection'[k] = intersection[k]
        BY <1>9, <1>10, <1>11, <3>2
      <4>2. \A k \in 1..Len(intersection) : intersection[k] # y
        BY <3>2 DEF Matches
      <4>3. /\ i \in 1..Len(intersection) \/ i = Len(intersection) + 1
            /\ j \in 1..Len(intersection) \/ j = Len(intersection) + 1
        BY <1>11, <4>1
      <4> QED BY <1>3, <2>2, <4>1, <4>2, <4>3 DEF ResultOK
    <3> QED BY <3>1, <3>2
  <2> QED BY <1>1, <1>4, <1>11, <2>1, <2>2 DEF ResultOK
<1> QED BY <1>13, <1>14, <1>15, <1>16, <1>17 DEF KAll

\* After as many encodings as were announced, every identifier of a sender
\* that announced enough has been looked up.
LEMMA KIntersectDone ==
    ASSUME KAll, IntersectDone PROVE KAll'
<1>1. /\ sIds' = sIds /\ rIds' = rIds /\ rSize' = rSize /\ sN' = sN /\ seeds' = seeds
      /\ rOt' = rOt
      /\ table' = table /\ oprfOutput' = oprfOutput /\ rMax' = rMax /\ rRead' = rRead
      /\ intersection' = intersection /\ r2s' = r2s /\ s2r' = s2r /\ spc' = spc /\ left' = left
      /\ sOt' = sOt /\ remoteN' = remoteN /\ rows' = rows
      /\ rpc = "intersect" /\ rpc' = "nil" /\ rRead = rMax
  BY DEF IntersectDone, input, sender, output, keys, net
<1>2. KType /\ SizeOK /\ EncodingsOK /\ OutputOK /\ ResultOK
  BY DEF KAll
<1>3. /\ Msgs' = Msgs /\ Items' = Items /\ Common' = Common /\ Matches' = Matches
  BY <1>1, KInput DEF Matches
<1>4. KType'
  BY <1>1, <1>2, <1>3 DEF KType
<1>5. SizeOK'
  BY <1>1, <1>2 DEF SizeOK, BucketSize
<1>6. EncodingsOK'
  BY <1>1 DEF EncodingsOK
<1>7. OutputOK'
  BY <1>1, <1>2, <1>3 DEF OutputOK, TableOK
<1>8. ASSUME Len(sIds) <= sN PROVE Common \ {Empty} \subseteq Matches
  <2>1. PICK W \in SUBSET (1..sN) : Sent(W)
    BY <1>1, <1>2 DEF EncodingsOK
  <2>2. /\ Got = Before + 1 + sN /\ Before \in Nat /\ Len(s2r) \in Nat /\ sN \in Nat
        /\ Len(sIds) \in Nat
    BY <1>1, <1>2, KNumbers DEF Got, OutputOK, TableOK, KType
  <2>3. Cardinality(W) \in Nat /\ Cardinality(W) <= sN /\ (Cardinality(W) = sN => W = 1..sN)
    BY <2>1, <2>2, Places
  <2>4. Cardinality(W) = Got + Len(s2r) - (Before + 1)
    BY <2>1, <2>2 DEF Sent
  <2>5. Len(s2r) = 0 /\ W = 1..sN
    BY <2>2, <2>3, <2>4
  <2>6. \A k \in 1..Len(sIds) : k \in W
    BY <1>8, <2>2, <2>5
  <2>7. \A k : ~Coming(k)
    BY <2>5 DEF Coming
  <2>8. \A k \in 1..Len(sIds) : Dealt(k)
    BY <2>1, <2>6, <2>7 DEF Sent
  <2>9. DOMAIN sIds = 1..Len(sIds)
    BY <1>2 DEF KType
  <2> QED BY <2>8, <2>9 DEF Dealt, Common, ToSet, Items
<1>9. ResultOK'
  BY <1>1, <1>2, <1>3, <1>8 DEF ResultOK
<1> QED BY <1>4, <1>5, <1>6, <1>7, <1>9 DEF KAll

LEMMA KStutter ==
    ASSUME KAll, UNCHANGED allVars PROVE KAll'
<1>1. /\ sIds' = sIds /\ rIds' = rIds /\ rSize' = rSize /\ sN' = sN /\ seeds' = seeds
      /\ rpc' = rpc /\ rOt' = rOt
      /\ table' = table /\ oprfOutput' = oprfOutput /\ rMax' = rMax /\ rRead' = rRead
      /\ intersection' = intersection /\ r2s' = r2s /\ s2r' = s2r /\ spc' = spc /\ left' = left
      /\ sOt' = sOt /\ remoteN' = remoteN /\ rows' = rows
  BY DEF allVars, vars, input, sender, keys, receiver, output, net
<1>2. KType /\ SizeOK /\ EncodingsOK /\ OutputOK /\ ResultOK
  BY DEF KAll
<1>3. Msgs' = Msgs /\ Got' = Got /\ Written' = Written
  BY <1>1, KInput DEF Got, Written, Before
<1>4. KType'
  BY <1>1, <1>2, <1>3 DEF KType
<1>5. SizeOK'
  BY <1>1, <1>2 DEF SizeOK, BucketSize
<1>6. EncodingsOK'
  BY <1>1, <1>2, <1>3, EncQuiet DEF SenderReturned
<1>7. OutputOK' /\ ResultOK'
  BY <1>1, <1>2, KReceiverFrame
<1> QED BY <1>4, <1>5, <1>6, <1>7 DEF KAll

LEMMA NextKInv ==
    ASSUME KInv, [NextPSI]_allVars PROVE KInv'
<1> SUFFICES ASSUME protocol' = "kkrtpsi" PROVE KAll'
  BY DEF KInv
<1>1. protocol = "kkrtpsi" /\ (Next \/ UNCHANGED allVars)
  BY DEF NextPSI, K1, N1, B1, allVars
<1>2. KAll
  BY <1>1 DEF KInv
<1>3. CASE UNCHANGED allVars
  BY <1>2, <1>3, KStutter
<1>4. CASE WriteSeeds \/ WriteKey \/ OtWriteKey \/ Announce
  BY <1>2, <1>4, KSenderWrites
<1>5. CASE ReadSize \/ OtReadPoints \/ OtReadCiphers \/ ReadMask
  BY <1>2, <1>5, KSenderReads
<1>6. CASE PreTake \/ PreDone \/ SendDone \/ SenderFails \/ SenderCancel \/ Drop
  BY <1>2, <1>6, KSenderControl
<1>7. CASE TakeInputs
  BY <1>2, <1>7, KTakeInputs
<1>8. CASE WriteEncodings
  BY <1>2, <1>8, KWriteEncodings
<1>9. CASE ReadSeeds \/ ReadKey \/ OtReadKey
  BY <1>2, <1>9, KReceiverReads
<1>10. CASE WriteSize \/ OtWritePoints \/ OtWriteCiphers \/ WriteMask
  BY <1>2, <1>10, KReceiverWrites
<1>11. CASE Insert \/ InsertPanics \/ InsertFails \/ ReceiverFails \/ ReceiverCancel
  BY <1>2, <1>11, KReceiverControl
<1>12. CASE ReadAnnounced
  BY <1>2, <1>12, KReadAnnounced
<1>13. CASE ReadEncodings
  BY <1>2, <1>13, KReadEncodings
<1>14. CASE IntersectDone
  BY <1>2, <1>14, KIntersectDone
<1> QED BY <1>1, <1>3, <1>4, <1>5, <1>6, <1>7, <1>8, <1>9, <1>10, <1>11, <1>12, <1>13, <1>14
        DEF Next, SenderMain, Precompute, Receiver

\* What the invariant says of the results of KKRTPSI.
LEMMA KResults ==
    ASSUME KAll PROVE PartialIsSound /\ ExactIntersection /\ KeysCoverBuckets
<1>1. KType /\ SizeOK /\ ResultOK
  BY DEF KAll
<1> DEFINE n == Len(intersection)
<1>2. /\ n \in Nat /\ DOMAIN intersection = 1..n /\ ToSet(intersection) = Matches
      /\ Matches \subseteq Common
  BY <1>1 DEF ResultOK, ToSet, Matches
<1>3. Cardinality(Matches) = n
  <2>1. [k \in 1..n |-> intersection[k]] \in Bijection(1..n, Matches)
    BY <1>1, <1>2 DEF ResultOK, Matches, Bijection, Injection, Surjection, IsInjective
  <2>2. ExistsBijection(1..n, Matches)
    BY <2>1 DEF ExistsBijection
  <2>3. 1..n \in SUBSET (1..n) /\ n \in Nat
    BY <1>2
  <2> HIDE DEF n
  <2>4. IsFiniteSet(1..n) /\ Cardinality(1..n) = n
    BY <2>3, Places
  <2> QED BY <2>2, <2>4, FS_Bijection
<1>4. PartialIsSound
  BY <1>2, <1>3 DEF PartialIsSound
<1>5. ExactIntersection
  <2> SUFFICES ASSUME rpc = "nil", Len(sIds) <= sN PROVE Common \ {Empty} \subseteq Matches
    BY <1>2, <1>3 DEF ExactIntersection
  <2> QED BY <1>1, <1>2 DEF ResultOK
<1>6. KeysCoverBuckets
  <2> SUFFICES ASSUME spc = "encode"
               PROVE  /\ rows = BucketSize(rSize)
                      /\ \A x \in ToSet(sIds), h \in HashIdx : Bucket(x, h, remoteN) < rows
    BY DEF KeysCoverBuckets
  <2>1. rows = BucketSize(rSize) /\ remoteN = rSize /\ rSize \in Nat
    BY <1>1 DEF SizeOK, KType
  <2>2. \A m \in Nat : BucketSize(m) \in Nat \ {0}
    BY KeysAsBuckets
  <2>3. rows \in Nat \ {0} /\ rows = BucketSize(remoteN)
    BY <2>1, <2>2
  <2>4. ToSet(sIds) \subseteq Ids
    BY <1>1 DEF KType, ToSet
  <2>5. ASSUME NEW x \in ToSet(sIds), NEW h \in HashIdx PROVE Bucket(x, h, remoteN) < rows
    <3>1. seeds[x][h] \in Nat
      BY <1>1, <2>4 DEF KType
    <3>2. \A a \in Nat, c \in Nat \ {0} : a % c < c
      OBVIOUS
    <3> QED BY <2>3, <3>1, <3>2 DEF Bucket
  <2> QED BY <2>1, <2>5
<1> QED BY <1>4, <1>5, <1>6

\* The invariants of the three protocols hold whatever protocol was made.
THEOREM Invariance == SpecPSI => [](KInv /\ NInv /\ BInv)
<1>1. NewPSI => KInv /\ NInv /\ BInv
  BY InitKInv, InitNInv, InitBInv
<1>2. KInv /\ NInv /\ BInv /\ [NextPSI]_allVars => KInv' /\ NInv' /\ BInv'
  BY NextKInv, NextNInv, NextBInv
<1> QED BY <1>1, <1>2, PTL DEF SpecPSI

\* The nil result of Intersect is the whole intersection, in KKRTPSI with each
\* identifier once: it has read the encodings of all identifiers, and the
\* sender tried the hash index and the bucket that the cuckoo table had chosen
\* (kkrtpsi/receiver.go; the empty identifier only if the table has it),
\* whatever size the receiver announced; in NPSI unless something was lost on the way, for
\* every order in which hashes were pumped, buffered, sent and indexed
\* (npsi/receiver.go).
THEOREM NilCorrect == SpecPSI => []NilIsComplete
<1>1. KInv /\ NInv => NilIsComplete
  BY KResults, NResults DEF KInv, NInv, NAll, NilIsComplete
<1> QED BY <1>1, Invariance, PTL

\* Whatever Intersect returns is common to both parties, also the part that
\* comes with an error or after a context ended; KKRTPSI, which deletes what it
\* has found, returns it once.
THEOREM SoundCorrect == SpecPSI => []PartIsSound
<1>1. KInv /\ NInv => PartIsSound
  BY KResults, NResults DEF KInv, NInv, NAll, PartIsSound
<1> QED BY <1>1, Invariance, PTL

\* KKRTPSI's sender holds an OPRF key for every bucket it encodes for: the
\* size it reads is the receiver's, and the number of keys it computes from it
\* is the number of buckets that the table's own formula gives, also for a
\* receiver that announces 0 (kkrtpsi/sender.go, cuckoo.go).
THEOREM KeysCorrect == SpecPSI => []KeysForAllBuckets
<1>1. KInv => KeysForAllBuckets
  BY KResults DEF KInv, KeysForAllBuckets
<1> QED BY <1>1, Invariance, PTL
=============================================================================
