------------------------------- MODULE KKRTPSI -------------------------------
(***************************************************************************)
(* pkg/kkrtpsi/sender.go and receiver.go over internal/oprf and            *)
(* internal/ot: the batched-OPRF PSI exchange.                             *)
(*                                                                         *)
(*   stage 1  seeds, receiver's size and AES key are exchanged; the        *)
(*            receiver fills its cuckoo table, the sender's precompute     *)
(*            goroutine lists the possible buckets of its identifiers      *)
(*   stage 2  base OT (the receiver acts as OT sender), then the masked    *)
(*            columns: the sender holds one OPRF key per bucket, the       *)
(*            receiver the encoding of each of its items                   *)
(*   stage 3  the sender sends every identifier's encodings, one per hash  *)
(*            function, in the order its workers produce them              *)
(*                                                                         *)
(* The hash of an OPRF encoding is named by what determines it: the bucket *)
(* (the key), the identifier and the hash index (the pseudorandom code).   *)
(* The table is any one that module Cuckoo's invariants allow.  A party    *)
(* that returns closes its end of the connection.                          *)
(***************************************************************************)
EXTENDS Integers, Sequences, FiniteSets

CONSTANTS Ids,        \* the identifiers
          Inputs,     \* what the parties are given: identifiers, announced lengths
          Hashes,     \* families of hash functions: Ids -> HashIdx -> Nat
          Columns,    \* baseOTCount, 512 in the code
          Cap,        \* messages the connection buffers per direction
          Empty,      \* the empty identifier, a member of Ids or not
          CanCancel,  \* may a context be cancelled?
          CanDrop     \* may the connection break?

HashIdx == 0..2

ASSUME KKRTAssumption ==
    /\ Inputs \subseteq [sIds : Seq(Ids), sN : Nat, rIds : Seq(Ids), rN : Nat]
    /\ Hashes \subseteq [Ids -> [HashIdx -> Nat]]
    /\ Columns \in Nat \ {0} /\ Cap \in Nat \ {0}
    /\ CanCancel \in BOOLEAN /\ CanDrop \in BOOLEAN

VARIABLES
    sIds, sN, rIds, rSize,  \* the inputs and the lengths announced
    seeds,                  \* the hash functions of the cuckoo table
    spc, sOt,               \* sender: control, OT columns done
    remoteN, rows,          \* sender: receiver's size, OPRF keys held
    pre, sTaken,            \* sender's precompute: control, identifiers listed
    left,                   \* sender: inputs whose encodings are to be sent
    rpc, rOt,               \* receiver: control, OT columns done
    table,                  \* receiver: item |-> hash index, its cuckoo table
    oprfOutput,             \* receiver: hash index |-> its items' encodings
    rMax, rRead,            \* receiver: encodings announced and read
    intersection,           \* receiver: the result
    s2r, r2s, down          \* the connection

input    == <<sIds, sN, rIds, rSize, seeds>>
keys     == <<sOt, remoteN, rows>>
compute  == <<pre, sTaken>>
sender   == <<spc, keys, compute, left>>
output   == <<oprfOutput, rMax, rRead, intersection>>
receiver == <<rpc, rOt, table, output>>
net      == <<s2r, r2s, down>>
vars     == <<input, sender, receiver, net>>

ToSet(s) == {s[k] : k \in DOMAIN s}

\* What neither party has received as an argument, before the first step.
InitState ==
    /\ sOt = 0 /\ remoteN = 0 /\ rows = 0
    /\ pre = "off" /\ sTaken = 0 /\ left = {}
    /\ rOt = 0 /\ table = [x \in {} |-> 0]
    /\ oprfOutput = [h \in HashIdx |-> {}]
    /\ rMax = 0 /\ rRead = 0 /\ intersection = <<>>
    /\ s2r = <<>> /\ r2s = <<>> /\ down = FALSE

Init ==
    /\ \E in \in Inputs : /\ sIds = in.sIds /\ sN = in.sN
                          /\ rIds = in.rIds /\ rSize = in.rN
    /\ seeds \in Hashes
    /\ spc = "seeds" /\ rpc = "seeds"
    /\ InitState

SenderReturned == spc \in {"nil", "error", "panicked"}
ReceiverReturned == rpc \in {"nil", "error", "panicked"}

CanSend(chan) == ~down /\ Len(chan) < Cap
CanRecv(chan) == ~down /\ chan # <<>>
RecvFails(chan, peerReturned) == down \/ (peerReturned /\ chan = <<>>)

\* NewCuckooHasher, of both parties: the number of buckets for size items.
BucketSize(size) ==
    LET capacity == (14 * size) \div 10 IN IF 1 > capacity THEN 1 ELSE capacity

Bucket(x, h, size) == seeds[x][h] % BucketSize(size)

\* Hash64 of the OPRF encoding of x by hash function h under the bucket's key.
Encoding(bucket, x, h) == [bucket |-> bucket, id |-> x, h |-> h]

----------------------------------------------------------------------------
(* Sender.                                                                 *)

SendStep(from, to, msg) ==
    /\ spc = from /\ CanSend(s2r)
    /\ s2r' = Append(s2r, msg)
    /\ spc' = to
    /\ UNCHANGED <<input, receiver, r2s, down>>

\* stage1: the hash seeds.
WriteSeeds == SendStep("seeds", "size", "seeds")
                /\ UNCHANGED <<keys, compute, left>>

\* stage1: the receiver's size, which fixes the number of OPRF keys.
ReadSize ==
    /\ spc = "size" /\ CanRecv(r2s)
    /\ remoteN' = Head(r2s)
    /\ r2s' = Tail(r2s)
    /\ spc' = "key"
    /\ UNCHANGED <<input, sOt, rows, compute, left, receiver, s2r, down>>

\* stage1: the AES key; then the precompute goroutine starts.
WriteKey ==
    /\ SendStep("key", "otPoints", "key")
    /\ pre' = "running"
    /\ UNCHANGED <<keys, sTaken, left>>

\* Precompute: one identifier; one too many is out of range and panics.
PreTake ==
    /\ pre = "running" /\ ~SenderReturned /\ sTaken < Len(sIds)
    /\ sTaken' = sTaken + 1
    /\ spc' = IF sTaken = sN THEN "panicked" ELSE spc
    /\ UNCHANGED <<input, keys, pre, left, receiver, net>>

\* identifiers is closed: the goroutine offers its list.
PreDone ==
    /\ pre = "running" /\ sTaken = Len(sIds)
    /\ pre' = "done"
    /\ UNCHANGED <<input, spc, keys, sTaken, left, receiver, net>>

\* stage2, base OT as receiver: points A and R, then a key material out and
\* two ciphertexts in for every column.
OtReadPoints ==
    /\ spc = "otPoints" /\ CanRecv(r2s)
    /\ r2s' = Tail(r2s)
    /\ spc' = "otKey"
    /\ UNCHANGED <<input, keys, compute, left, receiver, s2r, down>>

OtWriteKey == SendStep("otKey", "otCiphers", "keyMaterial")
                /\ UNCHANGED <<keys, compute, left>>

OtReadCiphers ==
    /\ spc = "otCiphers" /\ CanRecv(r2s)
    /\ r2s' = Tail(r2s)
    /\ sOt' = (sOt + 1) % Columns
    /\ spc' = IF sOt + 1 = Columns THEN "mask" ELSE "otKey"
    /\ UNCHANGED <<input, remoteN, rows, compute, left, receiver, s2r, down>>

\* stage2: a masked column for each seed; the last one completes the keys.
\* The sender computes their number by itself: its mutant holds no key for an
\* empty receiver; the mutant of ReadMask sizes them by the wrong party.
OprfInputSize_NoFloor(n) == (14 * n) \div 10

OprfInputSize(n) ==
    LET oprfInputSize == (14 * n) \div 10
    IN IF 1 > oprfInputSize THEN 1 ELSE oprfInputSize

ReadMask_OwnSize ==
    /\ spc = "mask" /\ CanRecv(r2s)
    /\ r2s' = Tail(r2s)
    /\ sOt' = (sOt + 1) % Columns
    /\ spc' = IF sOt + 1 = Columns THEN "announce" ELSE "mask"
    /\ rows' = IF sOt + 1 = Columns THEN OprfInputSize(sN) ELSE rows
    /\ UNCHANGED <<input, remoteN, compute, left, receiver, s2r, down>>

ReadMask ==
    /\ spc = "mask" /\ CanRecv(r2s)
    /\ r2s' = Tail(r2s)
    /\ sOt' = (sOt + 1) % Columns
    /\ spc' = IF sOt + 1 = Columns THEN "announce" ELSE "mask"
    /\ rows' = IF sOt + 1 = Columns THEN OprfInputSize(remoteN) ELSE rows
    /\ UNCHANGED <<input, remoteN, compute, left, receiver, s2r, down>>

\* stage3: n, and then the list of the precompute goroutine.
Announce == SendStep("announce", "inputs", sN)
              /\ UNCHANGED <<keys, compute, left>>

TakeInputs ==
    /\ spc = "inputs" /\ pre = "done"
    /\ pre' = "off"
    /\ left' = 1..sN
    /\ spc' = "encode"
    /\ UNCHANGED <<input, keys, sTaken, receiver, net>>

\* encodeAndHash and EncodingsWrite of input k, if it is there: the encoding
\* of an entry that no identifier filled panics on the lengths.
Encodings(x) == [h \in HashIdx |-> Encoding(Bucket(x, h, remoteN), x, h)]

WriteEncodings ==
    /\ spc = "encode" /\ CanSend(s2r)
    /\ \E k \in left :
         /\ left' = left \ {k}
         /\ spc' = IF k > Len(sIds) THEN "panicked" ELSE spc
         /\ s2r' = IF k > Len(sIds) THEN s2r ELSE Append(s2r, Encodings(sIds[k]))
    /\ UNCHANGED <<input, keys, compute, receiver, r2s, down>>

SendDone ==
    /\ spc = "encode" /\ left = {}
    /\ spc' = "nil"
    /\ UNCHANGED <<input, keys, compute, left, receiver, net>>

\* A read or write fails; in stage3 it may be the final flush, whose error is
\* dropped.
SenderFails ==
    /\ \/ /\ spc \in {"seeds", "key", "otKey", "announce", "encode"}
          /\ down \/ ReceiverReturned
       \/ /\ spc \in {"size", "otPoints", "otCiphers", "mask"}
          /\ RecvFails(r2s, ReceiverReturned)
    /\ spc' \in IF spc = "encode" THEN {"error", "nil"} ELSE {"error"}
    /\ UNCHANGED <<input, keys, compute, left, receiver, net>>

SenderMain == \/ WriteSeeds \/ ReadSize \/ WriteKey \/ OtReadPoints \/ OtWriteKey
              \/ OtReadCiphers \/ ReadMask \/ Announce \/ TakeInputs
              \/ WriteEncodings \/ SendDone \/ SenderFails

Precompute == PreTake \/ PreDone

SenderCancel ==
    /\ CanCancel /\ ~SenderReturned
    /\ spc' = "error"
    /\ UNCHANGED <<input, keys, compute, left, receiver, net>>

----------------------------------------------------------------------------
(* Receiver.                                                               *)

RecvStep(from, to) ==
    /\ rpc = from /\ CanRecv(s2r)
    /\ s2r' = Tail(s2r)
    /\ rpc' = to
    /\ UNCHANGED <<input, sender, r2s, down>>

ReplyStep(from, to, msg) ==
    /\ rpc = from /\ CanSend(r2s)
    /\ r2s' = Append(r2s, msg)
    /\ rpc' = to
    /\ UNCHANGED <<input, sender, s2r, down>>

ReadSeeds == RecvStep("seeds", "size") /\ UNCHANGED <<rOt, table, output>>

WriteSize == ReplyStep("size", "insert", rSize) /\ UNCHANGED <<rOt, table, output>>

Items == ToSet(rIds)
RBucket(x, h) == Bucket(x, h, rSize)

\* The items before the jth identifier if the empty one is stored from the
\* eth on.  It passes for one that is there while one of its buckets is empty,
\* and is stored when other items fill them all.
Inserted(j, e) == {rIds[k] : k \in {i \in 1..(j - 1) : rIds[i] # Empty \/ i >= e}}

StoredFrom ==
    {Len(rIds) + 1} \cup
    {e \in 1..Len(rIds) : /\ rIds[e] = Empty
                          /\ Cardinality({RBucket(Empty, h) : h \in HashIdx})
                               <= Cardinality(Inserted(e, e))}

\* Any table in which each item is in the bucket of its hash index and no two
\* share one.
Tables(items) ==
    {t \in [items -> HashIdx] :
        \A x, y \in items : x # y => RBucket(x, t[x]) # RBucket(y, t[y])}

\* stage1: Insert of every identifier, while there is a place for one more.
Insert ==
    /\ rpc = "insert"
    /\ \E e \in StoredFrom :
         /\ \A j \in DOMAIN rIds : Cardinality(Inserted(j, e)) < rSize
         /\ table' \in Tables(Inserted(Len(rIds) + 1, e))
    /\ rpc' = "key"
    /\ UNCHANGED <<input, sender, rOt, output, net>>

\* An identifier after size items, a repeated one too, is out of range.
InsertPanics ==
    /\ rpc = "insert"
    /\ \E e \in StoredFrom, j \in DOMAIN rIds :
         /\ Cardinality(Inserted(j, e)) = rSize
         /\ Tables(Inserted(j, e)) # {}
    /\ rpc' = "panicked"
    /\ UNCHANGED <<input, sender, rOt, table, output, net>>

\* An insertion can give up only if the others can fill all buckets of an item.
InsertFails ==
    /\ rpc = "insert"
    /\ \E x \in Items : Cardinality({RBucket(x, h) : h \in HashIdx})
                          < Cardinality(Items)
    /\ rpc' = "error"
    /\ UNCHANGED <<input, sender, rOt, table, output, net>>

ReadKey == RecvStep("key", "otPoints") /\ UNCHANGED <<rOt, table, output>>

\* stage2, base OT as sender.
OtWritePoints == ReplyStep("otPoints", "otKey", "points")
                   /\ UNCHANGED <<rOt, table, output>>

OtReadKey == RecvStep("otKey", "otCiphers") /\ UNCHANGED <<rOt, table, output>>

OtWriteCiphers ==
    /\ ReplyStep("otCiphers", IF rOt + 1 = Columns THEN "mask" ELSE "otKey", "ciphers")
    /\ rOt' = (rOt + 1) % Columns
    /\ UNCHANGED <<table, output>>

\* stage2: a masked column; after the last one the encodings of the items are
\* indexed by their hash index.  The mutants put them all under the first, and
\* stop a column early.
IndexAll_OneMap == [h \in HashIdx |->
    IF h = 0 THEN {Encoding(RBucket(x, table[x]), x, table[x]) : x \in DOMAIN table} ELSE {}]

IndexAll == [h \in HashIdx |->
    {Encoding(RBucket(x, h), x, h) : x \in {y \in DOMAIN table : table[y] = h}}]

WriteMask_OneLess ==
    /\ ReplyStep("mask", IF rOt + 2 = Columns THEN "announce" ELSE "mask", "mask")
    /\ rOt' = (rOt + 1) % Columns
    /\ oprfOutput' = IF rOt + 2 = Columns THEN IndexAll ELSE oprfOutput
    /\ UNCHANGED <<table, rMax, rRead, intersection>>

WriteMask ==
    /\ ReplyStep("mask", IF rOt + 1 = Columns THEN "announce" ELSE "mask", "mask")
    /\ rOt' = (rOt + 1) % Columns
    /\ oprfOutput' = IF rOt + 1 = Columns THEN IndexAll ELSE oprfOutput
    /\ UNCHANGED <<table, rMax, rRead, intersection>>

\* stage3: n, and then n times the encodings of an identifier.
ReadAnnounced ==
    /\ RecvStep("announce", "intersect")
    /\ rMax' = Head(s2r)
    /\ UNCHANGED <<rOt, table, oprfOutput, rRead, intersection>>

\* What the encoding of each hash index finds, in their order; a find is
\* reported and deleted.  The mutant does not delete.
Found(enc, h) == IF enc[h] \in oprfOutput[h] THEN <<enc[h].id>> ELSE <<>>

ReadEncodings_NoDelete ==
    /\ rRead < rMax
    /\ RecvStep("intersect", "intersect")
    /\ rRead' = rRead + 1
    /\ LET enc == Head(s2r) IN
         intersection' = intersection \o Found(enc, 0) \o Found(enc, 1) \o Found(enc, 2)
    /\ UNCHANGED <<rOt, table, oprfOutput, rMax>>

ReadEncodings ==
    /\ rRead < rMax
    /\ RecvStep("intersect", "intersect")
    /\ rRead' = rRead + 1
    /\ LET enc == Head(s2r) IN
         /\ intersection' = intersection \o Found(enc, 0) \o Found(enc, 1) \o Found(enc, 2)
         /\ oprfOutput' = [h \in HashIdx |-> oprfOutput[h] \ {enc[h]}]
    /\ UNCHANGED <<rOt, table, rMax>>

\* Every announced encoding was read.
IntersectDone ==
    /\ rpc = "intersect" /\ rRead = rMax
    /\ rpc' = "nil"
    /\ UNCHANGED <<input, sender, rOt, table, output, net>>

\* A read or write of the receiver fails.
ReceiverFails ==
    /\ \/ /\ rpc \in {"size", "otPoints", "otCiphers", "mask"}
          /\ down \/ SenderReturned
       \/ /\ \/ rpc \in {"seeds", "key", "otKey", "announce"}
             \/ rpc = "intersect" /\ rRead < rMax
          /\ RecvFails(s2r, SenderReturned)
    /\ rpc' = "error"
    /\ UNCHANGED <<input, sender, rOt, table, output, net>>

Receiver == \/ ReadSeeds \/ WriteSize \/ Insert \/ InsertPanics \/ InsertFails
            \/ ReadKey \/ OtWritePoints \/ OtReadKey \/ OtWriteCiphers \/ WriteMask
            \/ ReadAnnounced \/ ReadEncodings \/ IntersectDone \/ ReceiverFails

ReceiverCancel ==
    /\ CanCancel /\ ~ReceiverReturned
    /\ rpc' = "error"
    /\ UNCHANGED <<input, sender, rOt, table, output, net>>

Drop ==
    /\ CanDrop /\ ~down
    /\ down' = TRUE
    /\ UNCHANGED <<input, sender, receiver, s2r, r2s>>

----------------------------------------------------------------------------
Next == SenderMain \/ Precompute \/ SenderCancel \/ Receiver \/ ReceiverCancel
          \/ Drop

\* Every goroutine is scheduled and the connection delivers.
Spec == Init /\ [][Next]_vars /\ WF_vars(SenderMain) /\ WF_vars(Precompute)
          /\ WF_vars(Receiver)

----------------------------------------------------------------------------
(* Properties.                                                             *)

Common == ToSet(sIds) \cap ToSet(rIds)

\* When Intersect returns nil, it has found each common identifier once: the
\* sender tried the hash function and the bucket the cuckoo table had chosen.
\* (Of a sender that announced too little it can only find a part, and the
\* empty identifier it finds only if the table has it.)
ExactIntersection ==
    (rpc = "nil" /\ Len(sIds) <= sN) =>
        /\ Common \ {Empty} \subseteq ToSet(intersection)
        /\ ToSet(intersection) \subseteq Common
        /\ Len(intersection) = Cardinality(ToSet(intersection))

\* Only common identifiers are reported, none twice, also in the partial
\* result that an error returns.
PartialIsSound ==
    /\ ToSet(intersection) \subseteq Common
    /\ Len(intersection) = Cardinality(ToSet(intersection))

\* The number of OPRF keys the sender computes from the receiver's size is the
\* number of buckets of the receiver's table, computed elsewhere from the same
\* size: every bucket the sender encodes for has a key.
KeysCoverBuckets ==
    spc = "encode" => /\ rows = BucketSize(rSize)
                      /\ \A x \in ToSet(sIds), h \in HashIdx :
                            Bucket(x, h, remoteN) < rows
==============================================================================
