-------------------------------- MODULE DHPSI --------------------------------
(***************************************************************************)
(* pkg/dhpsi/sender.go and receiver.go: the Diffie-Hellman PSI exchange.   *)
(*                                                                         *)
(*   sender    stage1   derive, shuffle, send its identifiers              *)
(*             stage2   read the receiver's points, multiply, send back    *)
(*   receiver  stage1   read the sender's points, multiply, index them     *)
(*             stage21  derive, shuffle, send its own identifiers          *)
(*             stage22  read them back, look them up, report matches       *)
(*             main     select loop fed by stage21 and stage22             *)
(*                                                                         *)
(* The encoders and readers the stages use have modules of their own; here *)
(* an encoder takes its n identifiers and then writes them in the order of *)
(* a permutation, and a reader returns the points of its stream in order.  *)
(* The connection is one bounded FIFO per direction.  A party that returns *)
(* closes its end: what it sent can still be read, then reads fail.        *)
(***************************************************************************)
EXTENDS Integers, Sequences, FiniteSets, Ristretto

CONSTANTS Ids,           \* the identifiers
          MaxS, MaxR,    \* bounds on the sender's and receiver's identifiers
          kS, kR,        \* the parties' scalars
          NoId, NoPoint, \* an identifier or point not there yet
          Cap,           \* messages the connection buffers per direction
          SenderHas,     \* has the sender "exact", "more" or "fewer"
                         \* identifiers than it announces? (a set of these)
          ReceiverHas,   \* the same for the receiver
          CanCancel,     \* may a context be cancelled?
          CanDrop        \* may the connection break?

ASSUME DHPSIAssumption ==
    /\ Keys = {kS, kR} /\ kS # kR
    /\ MaxS \in Nat /\ MaxR \in Nat /\ Cap \in Nat \ {0}
    /\ SenderHas \subseteq {"exact", "more", "fewer"}
    /\ ReceiverHas \subseteq {"exact", "more", "fewer"}
    /\ CanCancel \in BOOLEAN /\ CanDrop \in BOOLEAN

VARIABLES
    sIds, sN, sPerm,    \* sender: identifiers, announced number, permutation
    spc, sTaken, sOut,  \* sender: control; identifiers taken; points written
    sMax, sSeq, sPt,    \* sender, stage2: announced points, relayed, in hand
    rIds, rN, rPerm,    \* receiver: identifiers, announced number, permutation
    rpc, rMax, rSeq,    \* receiver, main: control; stage1 points due and read
    remoteIDs,          \* receiver: index of the sender's points
    localIDs,           \* receiver: identifiers by order of arrival
    apc, aTaken, aOut,  \* receiver, stage21: control, taken, written
    bpc, bMax, bSeq,    \* receiver, stage22: control, points due, points read
    bPt,                \* receiver, stage22: the point that matched
    intersection,       \* receiver: the result so far
    s2r, r2s, down      \* the connection

input    == <<sIds, sN, sPerm, rIds, rN, rPerm>>
sender   == <<spc, sTaken, sOut, sMax, sSeq, sPt>>
stage1   == <<rMax, rSeq, remoteIDs>>
stage21  == <<apc, aTaken, aOut>>
stage22  == <<bpc, bMax, bSeq, bPt>>
mainLoop == <<rpc, localIDs, intersection>>
receiver == <<stage1, stage21, stage22, mainLoop>>
net      == <<s2r, r2s, down>>
vars     == <<input, sender, receiver, net>>

----------------------------------------------------------------------------
Permutation(m) ==
    {f \in [0..(m - 1) -> 0..(m - 1)] :
        \A i, j \in 0..(m - 1) : i # j => f[i] # f[j]}

\* The orders a party may draw for n points.  With fewer identifiers it never
\* comes to use it, and one order stands for all.
Order(n, has) == IF has < n THEN {[k \in 0..(n - 1) |-> k]} ELSE Permutation(n)

Inputs(bound) == UNION {[1..m -> Ids] : m \in 0..bound}

\* The length a party announces for m identifiers.
Announced(m, has) ==
    CASE has = "exact" -> m [] has = "more" -> m - 1 [] has = "fewer" -> m + 1

Init ==
    /\ sIds \in Inputs(MaxS) /\ rIds \in Inputs(MaxR)
    /\ sN \in {Announced(Len(sIds), has) : has \in SenderHas} \cap Nat
    /\ rN \in {Announced(Len(rIds), has) : has \in ReceiverHas} \cap Nat
    /\ sPerm \in Order(sN, Len(sIds)) /\ rPerm \in Order(rN, Len(rIds))
    /\ spc = "header" /\ sTaken = 0 /\ sOut = 0
    /\ sMax = 0 /\ sSeq = 0 /\ sPt = NoPoint
    /\ rpc = "stage1Header" /\ rMax = 0 /\ rSeq = 0
    /\ remoteIDs = {} /\ localIDs = [k \in 0..(rN - 1) |-> NoId]
    /\ apc = "off" /\ aTaken = 0 /\ aOut = 0
    /\ bpc = "off" /\ bMax = 0 /\ bSeq = 0 /\ bPt = NoPoint
    /\ intersection = <<>>
    /\ s2r = <<>> /\ r2s = <<>> /\ down = FALSE

SenderReturned == spc \in {"nil", "error"}
ReceiverReturned == rpc \in {"nil", "error", "panicked"}

Header(m) == [max |-> m]

\* A write that the connection takes, or one that fails.
CanSend(chan) == ~down /\ Len(chan) < Cap
SendFails(peerReturned) == down \/ peerReturned

\* A read that finds something, or one that fails.
CanRecv(chan) == ~down /\ chan # <<>>
RecvFails(chan, peerReturned) == down \/ (peerReturned /\ chan = <<>>)

----------------------------------------------------------------------------
(* Sender.                                                                 *)

\* stage1: NewDeriveMultiplyParallelShuffler announces n.
SendHeader ==
    /\ spc = "header" /\ CanSend(s2r)
    /\ s2r' = Append(s2r, Header(sN))
    /\ spc' = "take"
    /\ UNCHANGED <<input, sTaken, sOut, sMax, sSeq, sPt, receiver, r2s, down>>

\* stage1: Shuffle takes one identifier; the last one triggers the writes.
SendTake ==
    /\ spc = "take" /\ sTaken < Len(sIds) /\ sTaken < sN
    /\ sTaken' = sTaken + 1
    /\ spc' = IF sTaken + 1 = sN THEN "write" ELSE "take"
    /\ UNCHANGED <<input, sOut, sMax, sSeq, sPt, receiver, net>>

\* stage1: Shuffle returns ErrUnexpectedPoint, and so does Send.
SendTooMany ==
    /\ spc = "take" /\ sTaken < Len(sIds) /\ sTaken = sN
    /\ spc' = "error"
    /\ UNCHANGED <<input, sTaken, sOut, sMax, sSeq, sPt, receiver, net>>

SendWrite ==
    /\ spc = "write" /\ CanSend(s2r)
    /\ s2r' = Append(s2r, DeriveMultiply(kS, sIds[sPerm[sOut] + 1]))
    /\ sOut' = sOut + 1
    /\ spc' = IF sOut + 1 = sN THEN "take" ELSE "write"
    /\ UNCHANGED <<input, sTaken, sMax, sSeq, sPt, receiver, r2s, down>>

\* identifiers is closed: stage1 is over, stage2 begins.
SendStage1Done ==
    /\ spc = "take" /\ sTaken = Len(sIds)
    /\ spc' = "readHeader"
    /\ UNCHANGED <<input, sTaken, sOut, sMax, sSeq, sPt, receiver, net>>

\* stage2: NewMultiplyParallelReader, then NewWriter.
RelayReadHeader ==
    /\ spc = "readHeader" /\ CanRecv(r2s)
    /\ sMax' = Head(r2s).max
    /\ r2s' = Tail(r2s)
    /\ spc' = "writeHeader"
    /\ UNCHANGED <<input, sTaken, sOut, sSeq, sPt, receiver, s2r, down>>

RelayWriteHeader ==
    /\ spc = "writeHeader" /\ CanSend(s2r)
    /\ s2r' = Append(s2r, Header(sMax))
    /\ spc' = "relay"
    /\ UNCHANGED <<input, sTaken, sOut, sMax, sSeq, sPt, receiver, r2s, down>>

RelayRead ==
    /\ spc = "relay" /\ sSeq < sMax /\ CanRecv(r2s)
    /\ sPt' = Multiply(kS, Head(r2s))
    /\ r2s' = Tail(r2s)
    /\ spc' = "relayWrite"
    /\ UNCHANGED <<input, sTaken, sOut, sMax, sSeq, receiver, s2r, down>>

RelayWrite ==
    /\ spc = "relayWrite" /\ CanSend(s2r)
    /\ s2r' = Append(s2r, sPt)
    /\ sSeq' = sSeq + 1
    /\ spc' = "relay"
    /\ UNCHANGED <<input, sTaken, sOut, sMax, sPt, receiver, r2s, down>>

\* The mutant returns one point early.
RelayDone_Early ==
    /\ spc = "relay" /\ sSeq + 1 >= sMax
    /\ spc' = "nil"
    /\ UNCHANGED <<input, sTaken, sOut, sMax, sSeq, sPt, receiver, net>>

RelayDone ==
    /\ spc = "relay" /\ sSeq = sMax
    /\ spc' = "nil"
    /\ UNCHANGED <<input, sTaken, sOut, sMax, sSeq, sPt, receiver, net>>

\* A read or write of the stage fails, and Send returns its error.
SenderFails ==
    /\ \/ /\ spc \in {"header", "write", "writeHeader", "relayWrite"}
          /\ SendFails(ReceiverReturned)
       \/ /\ spc = "readHeader" \/ (spc = "relay" /\ sSeq < sMax)
          /\ RecvFails(r2s, ReceiverReturned)
    /\ spc' = "error"
    /\ UNCHANGED <<input, sTaken, sOut, sMax, sSeq, sPt, receiver, net>>

Sender == \/ SendHeader \/ SendTake \/ SendTooMany \/ SendWrite \/ SendStage1Done
          \/ RelayReadHeader \/ RelayWriteHeader \/ RelayRead \/ RelayWrite
          \/ RelayDone \/ SenderFails

\* util.Sel: the context ends before the stage does.
SenderCancel ==
    /\ CanCancel /\ ~SenderReturned
    /\ spc' = "error"
    /\ UNCHANGED <<input, sTaken, sOut, sMax, sSeq, sPt, receiver, net>>

----------------------------------------------------------------------------
(* Receiver, stage1.                                                       *)

IndexHeader ==
    /\ rpc = "stage1Header" /\ CanRecv(s2r)
    /\ rMax' = Head(s2r).max
    /\ s2r' = Tail(s2r)
    /\ rpc' = "stage1"
    /\ UNCHANGED <<input, sender, rSeq, remoteIDs, localIDs, stage21, stage22,
                   intersection, r2s, down>>

IndexPoint ==
    /\ rpc = "stage1" /\ rSeq < rMax /\ CanRecv(s2r)
    /\ remoteIDs' = remoteIDs \cup {Multiply(kR, Head(s2r))}
    /\ s2r' = Tail(s2r)
    /\ rSeq' = rSeq + 1
    /\ UNCHANGED <<input, sender, rMax, mainLoop, stage21, stage22, r2s, down>>

\* io.EOF ends stage1; util.Sels starts the other two stages together.
IndexDone ==
    /\ rpc = "stage1" /\ rSeq = rMax
    /\ rpc' = "loop"
    /\ apc' = "header" /\ bpc' = "header"
    /\ UNCHANGED <<input, sender, stage1, localIDs, aTaken, aOut, bMax, bSeq,
                   bPt, intersection, net>>

Stage1Fails ==
    /\ \/ rpc = "stage1Header"
       \/ rpc = "stage1" /\ rSeq < rMax
    /\ RecvFails(s2r, SenderReturned)
    /\ rpc' = "error"
    /\ UNCHANGED <<input, sender, stage1, localIDs, stage21, stage22,
                   intersection, net>>

----------------------------------------------------------------------------
(* Receiver, stage21.                                                      *)

Looping == rpc = "loop"

ShuffleHeader ==
    /\ Looping /\ apc = "header" /\ CanSend(r2s)
    /\ r2s' = Append(r2s, Header(rN))
    /\ apc' = "index"
    /\ UNCHANGED <<input, sender, stage1, mainLoop, aTaken, aOut, stage22, s2r,
                   down>>

\* receiverIDs <- permuted{i, identifier}, met by the main loop, which stores
\* it; an index past the announced length panics.
IndexLocal ==
    /\ Looping /\ apc = "index" /\ aTaken < Len(rIds)
    /\ IF aTaken < rN
       THEN /\ localIDs' = [localIDs EXCEPT ![aTaken] = rIds[aTaken + 1]]
            /\ apc' = "shuffle"
            /\ UNCHANGED rpc
       ELSE rpc' = "panicked" /\ UNCHANGED <<localIDs, apc>>
    /\ UNCHANGED <<input, sender, stage1, aTaken, aOut, stage22, intersection,
                   net>>

\* Shuffle takes the identifier; the last one triggers the writes.
ShuffleTake ==
    /\ Looping /\ apc = "shuffle"
    /\ aTaken' = aTaken + 1
    /\ apc' = IF aTaken + 1 = rN THEN "write" ELSE "index"
    /\ UNCHANGED <<input, sender, stage1, mainLoop, aOut, stage22, net>>

ShuffleWrite ==
    /\ Looping /\ apc = "write" /\ CanSend(r2s)
    /\ r2s' = Append(r2s, DeriveMultiply(kR, rIds[rPerm[aOut] + 1]))
    /\ aOut' = aOut + 1
    /\ apc' = IF aOut + 1 = rN THEN "index" ELSE "write"
    /\ UNCHANGED <<input, sender, stage1, mainLoop, aTaken, stage22, s2r, down>>

\* identifiers is closed; the buffered errs channel takes the result.
ShuffleDone ==
    /\ Looping /\ apc = "index" /\ aTaken = Len(rIds)
    /\ apc' = "nil"
    /\ UNCHANGED <<input, sender, stage1, mainLoop, aTaken, aOut, stage22, net>>

ShuffleFails ==
    /\ Looping /\ apc \in {"header", "write"}
    /\ SendFails(SenderReturned)
    /\ apc' = "error"
    /\ UNCHANGED <<input, sender, stage1, mainLoop, aTaken, aOut, stage22, net>>

Stage21 == \/ ShuffleHeader \/ IndexLocal \/ ShuffleTake \/ ShuffleWrite
           \/ ShuffleDone \/ ShuffleFails

----------------------------------------------------------------------------
(* Receiver, stage22.                                                      *)

\* The mutant waits for stage21, as if util.Sels ran its stages in turn.
MatchHeader_InTurn ==
    /\ Looping /\ bpc = "header" /\ CanRecv(s2r)
    /\ apc = "nil"
    /\ bMax' = Head(s2r).max
    /\ s2r' = Tail(s2r)
    /\ bpc' = "read"
    /\ UNCHANGED <<input, sender, stage1, stage21, mainLoop, bSeq, bPt, r2s, down>>

MatchHeader ==
    /\ Looping /\ bpc = "header" /\ CanRecv(s2r)
    /\ bMax' = Head(s2r).max
    /\ s2r' = Tail(s2r)
    /\ bpc' = "read"
    /\ UNCHANGED <<input, sender, stage1, stage21, mainLoop, bSeq, bPt, r2s, down>>

\* Read a point; a known one is reported, any other is skipped.
MatchRead ==
    /\ Looping /\ bpc = "read" /\ bSeq < bMax /\ CanRecv(s2r)
    /\ s2r' = Tail(s2r)
    /\ IF Head(s2r) \in remoteIDs
       THEN bpc' = "matched" /\ bPt' = Head(s2r) /\ UNCHANGED bSeq
       ELSE bSeq' = bSeq + 1 /\ UNCHANGED <<bpc, bPt>>
    /\ UNCHANGED <<input, sender, stage1, stage21, mainLoop, bMax, r2s, down>>

\* matchedIDs <- i, met by the main loop, which looks the identifier up; then
\* the point is deleted from the index.  The first mutant takes the place in
\* the stream for the place in the input, the second keeps the point.
Matched_NoPermutation ==
    /\ Looping /\ bpc = "matched"
    /\ intersection' = Append(intersection, localIDs[bSeq])
    /\ remoteIDs' = remoteIDs \ {bPt}
    /\ bSeq' = bSeq + 1
    /\ bpc' = "read"
    /\ UNCHANGED <<input, sender, rpc, rMax, rSeq, localIDs, stage21, bMax, bPt, net>>

Matched_NoDelete ==
    /\ Looping /\ bpc = "matched"
    /\ intersection' = Append(intersection, localIDs[rPerm[bSeq]])
    /\ bSeq' = bSeq + 1
    /\ bpc' = "read"
    /\ UNCHANGED <<input, sender, rpc, stage1, localIDs, stage21, bMax, bPt, net>>

Matched ==
    /\ Looping /\ bpc = "matched"
    /\ intersection' = Append(intersection, localIDs[rPerm[bSeq]])
    /\ remoteIDs' = remoteIDs \ {bPt}
    /\ bSeq' = bSeq + 1
    /\ bpc' = "read"
    /\ UNCHANGED <<input, sender, rpc, rMax, rSeq, localIDs, stage21, bMax, bPt, net>>

MatchDone ==
    /\ Looping /\ bpc = "read" /\ bSeq = bMax
    /\ bpc' = "nil"
    /\ UNCHANGED <<input, sender, stage1, stage21, mainLoop, bMax, bSeq, bPt, net>>

MatchFails ==
    /\ Looping
    /\ bpc = "header" \/ (bpc = "read" /\ bSeq < bMax)
    /\ RecvFails(s2r, SenderReturned)
    /\ bpc' = "error"
    /\ UNCHANGED <<input, sender, stage1, stage21, mainLoop, bMax, bSeq, bPt, net>>

Stage22 == MatchHeader \/ MatchRead \/ Matched \/ MatchDone \/ MatchFails

----------------------------------------------------------------------------
(* Receiver, main.                                                         *)

\* Both stages returned nil.
IntersectDone ==
    /\ Looping /\ apc = "nil" /\ bpc = "nil"
    /\ rpc' = "nil"
    /\ UNCHANGED <<input, sender, stage1, localIDs, stage21, stage22,
                   intersection, net>>

\* The first error of a stage is returned, with the matches found so far.
IntersectFails ==
    /\ Looping /\ "error" \in {apc, bpc}
    /\ rpc' = "error"
    /\ UNCHANGED <<input, sender, stage1, localIDs, stage21, stage22,
                   intersection, net>>

ReceiverMain == IndexHeader \/ IndexPoint \/ IndexDone \/ Stage1Fails
                  \/ IntersectDone \/ IntersectFails

ReceiverCancel ==
    /\ CanCancel /\ ~ReceiverReturned
    /\ rpc' = "error"
    /\ UNCHANGED <<input, sender, stage1, localIDs, stage21, stage22,
                   intersection, net>>

Drop ==
    /\ CanDrop /\ ~down
    /\ down' = TRUE
    /\ UNCHANGED <<input, sender, receiver, s2r, r2s>>

----------------------------------------------------------------------------
Next == \/ Sender \/ SenderCancel
        \/ ReceiverMain \/ Stage21 \/ Stage22 \/ ReceiverCancel
        \/ Drop

\* Every goroutine is scheduled; the connection delivers; nobody has to cancel
\* and the connection does not have to break.
Fairness == WF_vars(Sender) /\ WF_vars(ReceiverMain) /\ WF_vars(Stage21)
              /\ WF_vars(Stage22)

Spec == Init /\ [][Next]_vars /\ Fairness

----------------------------------------------------------------------------
(* Properties.                                                             *)

ToSet(s) == {s[i] : i \in DOMAIN s}
Common == ToSet(sIds) \cap ToSet(rIds)

\* When Intersect returns nil, its result is the intersection of the two
\* inputs, each common identifier once, whatever repeats the inputs hold and
\* however the two shuffles and the five goroutines interleave.
ExactIntersection ==
    rpc = "nil" => /\ ToSet(intersection) = Common
                   /\ Len(intersection) = Cardinality(Common)

\* At any moment, and in the partial result an error returns, only common
\* identifiers have been reported, none of them twice and none of them blank:
\* the match was looked up after its identifier was stored.
PartialIsSound ==
    /\ ToSet(intersection) \subseteq Common
    /\ Len(intersection) = Cardinality(ToSet(intersection))

\* A party with fewer identifiers than it announced: its shuffler never flushes.
Short == Len(sIds) < sN \/ Len(rIds) < rN

\* A party that announced more than it had makes nobody report success: neither
\* call returns nil, so a result is never taken for complete.
ShortIsNeverNil == Short => spc # "nil" /\ rpc # "nil"

\* The exchange comes to an end on both sides, however little the connection
\* buffers: the receiver reads replies while it is still sending.  Only when a
\* party is short do both wait for each other, and then too both get out once
\* one of them is cancelled or the connection breaks.
BothReturn ==
    (~Short \/ SenderReturned \/ ReceiverReturned \/ down)
        ~> (SenderReturned /\ ReceiverReturned)

\* A sender that returned nil has relayed everything the receiver waits for:
\* the receiver ends with the intersection unless it was cancelled, the
\* connection broke, or it had more identifiers than it announced.
SenderNilSuffices ==
    (spc = "nil" /\ Looping) ~>
        \/ rpc = "nil"
        \/ down \/ Len(rIds) > rN
        \/ rpc = "error" /\ "error" \notin {apc, bpc}
=============================================================================
