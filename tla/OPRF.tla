-------------------------------- MODULE OPRF --------------------------------
(***************************************************************************)
(* internal/oprf/oprf.go: Send and Receive over one connection, with the   *)
(* base OT of NaorPinkas and the matrices of BitVect.  The receiver has a  *)
(* cuckoo table of m buckets; the sender ends with a key for each bucket,  *)
(* the receiver with the encoding of each of its items.                    *)
(*                                                                         *)
(* A column is a row of bits of the padded number of buckets.  Values that *)
(* are random or pseudorandom are symbols: a seed, the output of the       *)
(* generator for a seed, the code of an item under a hash index.  The      *)
(* length checks of Receive and of the base OT compare numbers that        *)
(* NewOPRF's only caller takes from the same table and constant.           *)
(***************************************************************************)
EXTENDS BitVect, NaorPinkas

CONSTANTS Ids, Nil,  \* identifiers; the item of an empty bucket
          Tables,    \* tables: items, their hash indices, the index per bucket
          Secrets,   \* choice bits the sender may draw
          Procs,     \* values of GOMAXPROCS of the sender and of the receiver
          CanDrop    \* may the connection break?

HashIdx == 0..2

ASSUME OPRFAssumption ==
    /\ Columns = bitVectWidth
    /\ \A t \in Tables : /\ Width(t.bucketLookup) \in Nat
                         /\ DOMAIN t.bucketLookup = Row(Width(t.bucketLookup))
                         /\ \A b \in DOMAIN t.bucketLookup :
                               t.bucketLookup[b] \in {0} \cup DOMAIN t.items
                         /\ 0 \notin DOMAIN t.items
    /\ Secrets \subseteq [Cols -> BOOLEAN]
    /\ Procs \subseteq (Nat \ {0}) \X (Nat \ {0}) /\ CanDrop \in BOOLEAN

VARIABLES table, secret, sProcs, rProcs,  \* the inputs
          spc, sCol, points,   \* sender: control, column, the points A and R
          seeds, oprfKeys,     \* sender: a seed a column; columns, then rows
          rpc, rCol,           \* receiver: control, column
          keyMaterial,         \* receiver: the point it read last
          oprfEncodings,       \* receiver: columns
          encodings,           \* receiver: result, hash index |-> {<<row, index>>}
          pre, wg, codes,      \* Receive's goroutine: control, its workers, the codes
          s2r, r2s, down       \* the connection

input    == <<table, secret, sProcs, rProcs>>
sender   == <<spc, sCol, points, seeds, oprfKeys>>
goroutine == <<pre, wg, codes>>
receiver == <<rpc, rCol, keyMaterial, oprfEncodings, encodings>>
net      == <<s2r, r2s, down>>
vars     == <<input, sender, receiver, goroutine, net>>

m == Cardinality(DOMAIN table.bucketLookup)
padded == Pad(m, Columns)

\* Functions that are filled an entry at a time.
Empty == [x \in {} |-> x]
Put(f, x, y) == [z \in DOMAIN f \cup {x} |-> IF z = x THEN y ELSE f[z]]

Init ==
    /\ table \in Tables /\ secret \in Secrets
    /\ \E p \in Procs : sProcs = p[1] /\ rProcs = p[2]
    /\ spc = "points" /\ sCol = 0 /\ points = <<>> /\ seeds = Empty /\ oprfKeys = Empty
    /\ rpc = "points" /\ rCol = 0 /\ keyMaterial = pointA
    /\ oprfEncodings = Empty /\ encodings = Empty
    /\ pre = "workers" /\ wg = 0..(rProcs - 1) /\ codes = Empty
    /\ s2r = <<>> /\ r2s = <<>> /\ down = FALSE

SenderReturned == spc \in {"nil", "error"}
ReceiverReturned == rpc \in {"nil", "error"}

\* The connection buffers a message in each direction.
CanSend(chan) == ~down /\ chan = <<>>
CanRecv(chan) == ~down /\ chan # <<>>
RecvFails(chan, peerReturned) == down \/ (peerReturned /\ chan = <<>>)

----------------------------------------------------------------------------
(* Values.                                                                 *)

\* sampleRandomOTMessages: two seeds a column.
BaseMsgs(col) == [c \in {0, 1} |-> {<<"seed", <<col, c>>, 0>>}]

\* PseudorandomGenerate: padded bits from a seed.
PseudorandomGenerate(seed) == [i \in Row(padded) |-> {<<"G", seed, i>>}]

PseudorandomCode(x, h) == [i \in Cols |-> {<<"C", <<x, h>>, i>>}]

GetItemWithHash(b) ==
    LET idx == table.bucketLookup[b]
    IN IF idx = 0 THEN <<Nil, 0>> ELSE <<table.items[idx], table.hashIndices[idx]>>

CodeOf(b) == PseudorandomCode(GetItemWithHash(b)[1], GetItemWithHash(b)[2])

\* Encode: the encoding of a code under the key of bucket b.
Encode(b, code) == AndXor(code, secret, oprfKeys[b], sProcs)

----------------------------------------------------------------------------
(* Send.                                                                   *)

\* Base OT, Receive: points A and R.
OtReadPoints ==
    /\ spc = "points" /\ CanRecv(r2s)
    /\ points' = Head(r2s) /\ r2s' = Tail(r2s)
    /\ spc' = "key"
    /\ UNCHANGED <<input, sCol, seeds, oprfKeys, receiver, goroutine, s2r, down>>

\* Base OT, Receive: the key material of a column.
OtWriteKey ==
    /\ spc = "key" /\ CanSend(s2r)
    /\ s2r' = <<KeyMaterial(sCol, points[1], secret[sCol])>>
    /\ spc' = "ciphers"
    /\ UNCHANGED <<input, sCol, points, seeds, oprfKeys, receiver, goroutine, r2s, down>>

\* Base OT, Receive: both ciphertexts, one of which is decrypted.
OtReadCiphers ==
    /\ spc = "ciphers" /\ CanRecv(r2s)
    /\ seeds' = Put(seeds, sCol, Decrypted(sCol, points[2], secret[sCol], Head(r2s)))
    /\ r2s' = Tail(r2s)
    /\ sCol' = (sCol + 1) % Columns
    /\ spc' = IF sCol + 1 = Columns THEN "mask" ELSE "key"
    /\ UNCHANGED <<input, points, oprfKeys, receiver, goroutine, s2r, down>>

\* A masked column, added for a choice of 1; after the last one the matrix is
\* transposed and cut to m rows.
ReadMask ==
    /\ spc = "mask" /\ CanRecv(r2s)
    /\ LET generated == PseudorandomGenerate(seeds[sCol])
           column == IF secret[sCol] THEN Xor(generated, Head(r2s), sProcs) ELSE generated
           columns == Put(oprfKeys, sCol, column)
       IN oprfKeys' = IF sCol + 1 < Columns THEN columns
                      ELSE LET rows == ConcurrentTransposeWide(columns, sProcs)
                           IN [b \in Row(m) |-> rows[b]]
    /\ r2s' = Tail(r2s)
    /\ sCol' = (sCol + 1) % Columns
    /\ spc' = IF sCol + 1 = Columns THEN "nil" ELSE "mask"
    /\ UNCHANGED <<input, points, seeds, receiver, goroutine, s2r, down>>

SendFails ==
    /\ \/ spc = "key" /\ (down \/ ReceiverReturned)
       \/ spc \in {"points", "ciphers", "mask"} /\ RecvFails(r2s, ReceiverReturned)
    /\ spc' = "error"
    /\ UNCHANGED <<input, sCol, points, seeds, oprfKeys, receiver, goroutine, net>>

Send == OtReadPoints \/ OtWriteKey \/ OtReadCiphers \/ ReadMask \/ SendFails

----------------------------------------------------------------------------
(* Receive: its goroutine computes the codes of all buckets.               *)

stepSize == m \div rProcs

CodeRows(rows) == [b \in DOMAIN codes \cup rows |->
                     IF b \in rows THEN CodeOf(b) ELSE codes[b]]

\* Worker j computes its share.  The mutant does not tell the WaitGroup.
Worker_NoDone(j) ==
    /\ j \in wg
    /\ codes' = CodeRows((stepSize * j)..(stepSize * (j + 1) - 1))
    /\ UNCHANGED <<input, sender, receiver, pre, wg, net>>

Worker(j) ==
    /\ j \in wg
    /\ codes' = CodeRows((stepSize * j)..(stepSize * (j + 1) - 1))
    /\ wg' = wg \ {j}
    /\ UNCHANGED <<input, sender, receiver, pre, net>>

\* After Wait: what the division left over, then padding.
Rest ==
    /\ pre = "workers" /\ wg = {}
    /\ codes' = LET all == CodeRows((stepSize * rProcs)..(m - 1))
                IN [b \in Row(padded) |-> IF b \in DOMAIN all THEN all[b]
                                          ELSE ZeroRow(Columns)]
    /\ pre' = "offer"
    /\ UNCHANGED <<input, sender, receiver, wg, net>>

(* Receive itself.                                                         *)

\* Base OT, Send: points A and R.
OtWritePoints ==
    /\ rpc = "points" /\ CanSend(r2s)
    /\ r2s' = <<<<pointA, pointR>>>>
    /\ rpc' = "key"
    /\ UNCHANGED <<input, sender, rCol, keyMaterial, oprfEncodings, encodings,
                   goroutine, s2r, down>>

\* Base OT, Send: the key material of a column.
OtReadKey ==
    /\ rpc = "key" /\ CanRecv(s2r)
    /\ keyMaterial' = Head(s2r) /\ s2r' = Tail(s2r)
    /\ rpc' = "ciphers"
    /\ UNCHANGED <<input, sender, rCol, oprfEncodings, encodings, goroutine, r2s, down>>

\* Base OT, Send: both messages of a column, encrypted.
OtWriteCiphers ==
    /\ rpc = "ciphers" /\ CanSend(r2s)
    /\ r2s' = <<Encrypted(keyMaterial, BaseMsgs(rCol))>>
    /\ rCol' = (rCol + 1) % Columns
    /\ rpc' = IF rCol + 1 = Columns THEN "codes" ELSE "key"
    /\ UNCHANGED <<input, sender, keyMaterial, oprfEncodings, encodings, goroutine,
                   s2r, down>>

\* The codes, which the goroutine transposes and sends over its channel.
TakeCodes ==
    /\ rpc = "codes" /\ pre = "offer"
    /\ codes' = ConcurrentTransposeTall(codes, rProcs)
    /\ pre' = "done" /\ rpc' = "mask"
    /\ UNCHANGED <<input, sender, rCol, keyMaterial, oprfEncodings, encodings, wg, net>>

\* The encodings of the buckets that are not empty, under their hash index.
Indexed(rows) ==
    [h \in HashIdx |-> {<<rows[b], table.bucketLookup[b]>> :
        b \in {b \in Row(m) : table.bucketLookup[b] # 0 /\ GetItemWithHash(b)[2] = h}}]

\* A masked column: G(seed 1) ^ G(seed 0) ^ codes.  After the last one the
\* columns G(seed 0) are transposed and indexed.
WriteMask ==
    /\ rpc = "mask" /\ CanSend(r2s)
    /\ LET column == PseudorandomGenerate(BaseMsgs(rCol)[0])
           columns == Put(oprfEncodings, rCol, column)
       IN /\ r2s' = <<DoubleXor(PseudorandomGenerate(BaseMsgs(rCol)[1]), column,
                                codes[rCol], rProcs)>>
          /\ oprfEncodings' = columns
          /\ encodings' = IF rCol + 1 < Columns THEN encodings
                          ELSE Indexed(ConcurrentTransposeWide(columns, rProcs))
    /\ rCol' = (rCol + 1) % Columns
    /\ rpc' = IF rCol + 1 = Columns THEN "nil" ELSE "mask"
    /\ UNCHANGED <<input, sender, keyMaterial, goroutine, s2r, down>>

ReceiveFails ==
    /\ \/ rpc \in {"points", "ciphers", "mask"} /\ (down \/ SenderReturned)
       \/ rpc = "key" /\ RecvFails(s2r, SenderReturned)
    /\ rpc' = "error"
    /\ UNCHANGED <<input, sender, rCol, keyMaterial, oprfEncodings, encodings,
                   goroutine, net>>

Receive == \/ OtWritePoints \/ OtReadKey \/ OtWriteCiphers \/ TakeCodes
           \/ WriteMask \/ ReceiveFails

Drop ==
    /\ CanDrop /\ ~down
    /\ down' = TRUE
    /\ UNCHANGED <<input, sender, receiver, goroutine, s2r, r2s>>

----------------------------------------------------------------------------
Goroutine == (\E j \in wg : Worker(j)) \/ Rest

Next == Send \/ Receive \/ Goroutine \/ Drop

\* Every goroutine is scheduled and the connection delivers.
Spec == Init /\ [][Next]_vars /\ WF_vars(Send) /\ WF_vars(Receive) /\ WF_vars(Goroutine)

----------------------------------------------------------------------------
(* Properties.                                                             *)

\* The base OT gives the sender the seed of its choice bit in every column.
ChosenSeed ==
    \A col \in DOMAIN seeds : seeds[col] = BaseMsgs(col)[IF secret[col] THEN 1 ELSE 0]

\* What KKRTPSI takes for granted: when both calls have returned nil, the
\* sender's encoding of an identifier for a bucket and a hash function is in
\* the receiver's index of that hash function exactly when the bucket holds
\* the identifier under it, and leads to its item.  (With all choice bits 0 the
\* keys do not depend on the identifiers, and only one direction holds.)
EncodingsAgree ==
    (spc = "nil" /\ rpc = "nil") =>
       \A b \in Row(m), x \in Ids, h \in HashIdx :
          LET found == {e \in encodings[h] : e[1] = Encode(b, PseudorandomCode(x, h))}
              stored == {table.bucketLookup[b]} \cap {i \in DOMAIN table.items :
                            table.items[i] = x /\ table.hashIndices[i] = h}
          IN /\ stored \subseteq {e[2] : e \in found}
             /\ (\E col \in Cols : secret[col]) => {e[2] : e \in found} = stored

\* Both calls return, and the goroutine of Receive ends, unless Receive failed
\* before it took the codes.
CallsReturn == <>(SenderReturned /\ ReceiverReturned /\ (pre = "done" \/ rpc = "error"))
=============================================================================
