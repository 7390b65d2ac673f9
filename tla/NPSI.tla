-------------------------------- MODULE NPSI --------------------------------
(***************************************************************************)
(* pkg/npsi/sender.go, receiver.go and npsi.go: the naive PSI exchange.    *)
(* The receiver sends a salt; the sender announces n and sends the salted  *)
(* hashes of its identifiers, in whatever order HashAllParallel pumps      *)
(* them; the receiver indexes both sides concurrently and intersects.      *)
(*                                                                         *)
(* Both parties write through a bufio.Writer: what they write travels when *)
(* the buffer is full or flushed, and a failed write surfaces at a later   *)
(* one.  A salted hash is named by its identifier (no 64-bit collisions).  *)
(* A party that returns closes its end of the connection.                  *)
(*                                                                         *)
(* Each stage runs in a goroutine of its own (internal/util/select.go): a  *)
(* call whose context ends returns at once and leaves its stage running,   *)
(* on a connection the caller has yet to close.                            *)
(***************************************************************************)
EXTENDS Integers, Sequences, FiniteSets

CONSTANTS Ids,        \* the identifiers
          Inputs,     \* what the parties are given, as in KKRTPSI
          Cap,        \* messages the connection buffers per direction
          BufSize,    \* messages a bufio.Writer holds
          CanCancel,  \* may a context be cancelled?
          CanDrop     \* may the connection break?

VARIABLES sIds, rIds, sN,    \* the inputs; the length the sender announces
          spc, sLeft, sBuf,  \* sender: control, places to hash, bufio
          rpc, rN, rLeft,    \* receiver: control, announced, places to hash
          rRead, remoteDone, \* receiver: hashes read; sender's channel closed
          remoteIDs,         \* receiver: the sender's hashes
          localIDs,          \* receiver: hash -> identifier
          toMatch,           \* receiver: local entries still to look up
          intersected,       \* receiver: the captured slice of matches
          result,            \* receiver: what Intersect returned
          sCtx, rCtx,        \* "live"; call "returned" early; connection "closed"
          s2r, r2s, down     \* the connection

input    == <<sIds, rIds, sN>>
sender   == <<spc, sLeft, sBuf, sCtx>>
index    == <<rN, rLeft, rRead, remoteDone, remoteIDs, localIDs>>
matches  == <<toMatch, intersected, result>>
receiver == <<rpc, index, matches, rCtx>>
net      == <<s2r, r2s, down>>
vars     == <<input, sender, receiver, net>>


\* Hash64 of a MetroHasher seeded with the salt.
Hash(id) == [hash |-> id]
Header(m) == [max |-> m]
Salt == "salt"

InitState ==
    /\ sLeft = DOMAIN sIds /\ sBuf = <<>> /\ rLeft = DOMAIN rIds
    /\ rN = 0 /\ rRead = 0 /\ remoteDone = FALSE
    /\ remoteIDs = {} /\ localIDs = {} /\ toMatch = {} /\ intersected = {}
    /\ result = {} /\ sCtx = "live" /\ rCtx = "live"
    /\ s2r = <<>> /\ r2s = <<>> /\ down = FALSE

Init ==
    /\ \E in \in Inputs : sIds = in.sIds /\ sN = in.sN /\ rIds = in.rIds
    /\ spc = "salt" /\ rpc = "salt"
    /\ InitState

\* Where a stage comes to rest: it is over, or it is abandoned and blocks on
\* the channel that nobody reads.
SenderRests == spc \in {"nil", "error"}
ReceiverRests == rpc \in {"nil", "error"}

\* The party's end of the connection is closed.
SenderGone == sCtx = "closed" \/ (sCtx = "live" /\ SenderRests)
ReceiverGone == rCtx = "closed" \/ (rCtx = "live" /\ ReceiverRests)

CanRecv(chan, ctx) == ~down /\ ctx # "closed" /\ chan # <<>>
RecvFails(chan, ctx, peerGone) == down \/ ctx = "closed" \/ (peerGone /\ chan = <<>>)

----------------------------------------------------------------------------
(* Sender.                                                                 *)

\* stage1: read the salt.  An abandoned stage is not followed by stage2.
ReadSalt ==
    /\ spc = "salt" /\ CanRecv(r2s, sCtx)
    /\ r2s' = Tail(r2s)
    /\ spc' = IF sCtx = "live" THEN "header" ELSE "nil"
    /\ UNCHANGED <<input, sLeft, sBuf, sCtx, receiver, s2r, down>>

\* The read fails, or gets a part of the salt only.
ReadSaltFails ==
    /\ spc = "salt"
    /\ RecvFails(r2s, sCtx, ReceiverGone) \/ CanRecv(r2s, sCtx)
    /\ spc' = "error"
    /\ UNCHANGED <<input, sLeft, sBuf, sCtx, receiver, net>>

\* stage2: announce n.
WriteHeader ==
    /\ spc = "header"
    /\ sBuf' = Append(sBuf, Header(sN))
    /\ spc' = "hash"
    /\ UNCHANGED <<input, sLeft, sCtx, receiver, net>>

\* stage2: one pair off HashAllParallel is written.
WriteHash ==
    /\ spc = "hash" /\ Len(sBuf) < BufSize
    /\ \E k \in sLeft :
         /\ sBuf' = Append(sBuf, Hash(sIds[k]))
         /\ sLeft' = sLeft \ {k}
    /\ UNCHANGED <<input, spc, sCtx, receiver, net>>

\* The pairs are exhausted: rw.Flush().
StartFlush ==
    /\ spc = "hash" /\ sLeft = {}
    /\ spc' = "flush"
    /\ UNCHANGED <<input, sLeft, sBuf, sCtx, receiver, net>>

\* A full buffer, or the final flush, goes onto the connection, a message at
\* a time.
Transmit ==
    /\ ~down /\ sCtx # "closed" /\ sBuf # <<>> /\ Len(s2r) < Cap
    /\ spc = "flush" \/ (spc = "hash" /\ Len(sBuf) = BufSize)
    /\ s2r' = Append(s2r, Head(sBuf))
    /\ sBuf' = Tail(sBuf)
    /\ UNCHANGED <<input, spc, sLeft, sCtx, receiver, r2s, down>>

TransmitFails == down \/ sCtx = "closed" \/ ReceiverGone

\* The connection fails under a full buffer: HashWrite returns the error.
HashWriteFails ==
    /\ spc = "hash" /\ Len(sBuf) = BufSize /\ sLeft # {}
    /\ TransmitFails
    /\ spc' = "error"
    /\ UNCHANGED <<input, sLeft, sBuf, sCtx, receiver, net>>

\* The final flush is over; its error, if any, is not looked at.
FlushReturns ==
    /\ spc = "flush"
    /\ sBuf = <<>> \/ TransmitFails
    /\ spc' = "nil"
    /\ UNCHANGED <<input, sLeft, sBuf, sCtx, receiver, net>>

Sender == ReadSalt \/ ReadSaltFails \/ WriteHeader \/ WriteHash \/ StartFlush
            \/ Transmit \/ HashWriteFails \/ FlushReturns

\* The context ends and Sel returns its error; later the caller closes.
SenderCancel ==
    /\ CanCancel /\ sCtx = "live" /\ ~SenderRests
    /\ sCtx' = "returned"
    /\ UNCHANGED <<input, spc, sLeft, sBuf, receiver, net>>

SenderCloses ==
    /\ sCtx = "returned"
    /\ sCtx' = "closed"
    /\ UNCHANGED <<input, spc, sLeft, sBuf, receiver, net>>

----------------------------------------------------------------------------
(* Receiver.                                                               *)

\* stage1: write the salt and flush it; the flush may be lost unnoticed.
WriteSalt ==
    /\ rpc = "salt"
    /\ r2s' = IF down \/ rCtx = "closed" \/ SenderGone THEN r2s ELSE Append(r2s, Salt)
    /\ rpc' = IF rCtx = "live" THEN "header" ELSE "nil"
    /\ UNCHANGED <<input, sender, index, matches, rCtx, s2r, down>>

\* stage2: read n, then start reading and hashing at the same time.
ReadHeader ==
    /\ rpc = "header" /\ CanRecv(s2r, rCtx)
    /\ rN' = Head(s2r).max
    /\ s2r' = Tail(s2r)
    /\ rpc' = "index"
    /\ UNCHANGED <<input, sender, rLeft, rRead, remoteDone, remoteIDs, localIDs,
                   matches, rCtx, r2s, down>>

ReadHeaderFails ==
    /\ rpc = "header" /\ RecvFails(s2r, rCtx, SenderGone)
    /\ rpc' = "error"
    /\ UNCHANGED <<input, sender, index, matches, rCtx, net>>

\* ReadAll: one hash off the connection, into remoteIDs.
IndexRemote ==
    /\ rpc = "index" /\ ~remoteDone /\ rRead < rN /\ CanRecv(s2r, rCtx)
    /\ remoteIDs' = remoteIDs \cup {Head(s2r)}
    /\ s2r' = Tail(s2r)
    /\ rRead' = rRead + 1
    /\ UNCHANGED <<input, sender, rpc, rN, rLeft, remoteDone, localIDs, matches,
                   rCtx, r2s, down>>

\* ReadAll closes its channel after n hashes, or at the first read error.
\* The mutant has it wait for a hash that never comes.
RemoteDone_NoError ==
    /\ rpc = "index" /\ ~remoteDone
    /\ rRead = rN
    /\ remoteDone' = TRUE
    /\ UNCHANGED <<input, sender, rpc, rN, rLeft, rRead, remoteIDs, localIDs,
                   matches, rCtx, net>>

RemoteDone ==
    /\ rpc = "index" /\ ~remoteDone
    /\ rRead = rN \/ RecvFails(s2r, rCtx, SenderGone)
    /\ remoteDone' = TRUE
    /\ UNCHANGED <<input, sender, rpc, rN, rLeft, rRead, remoteIDs, localIDs,
                   matches, rCtx, net>>

\* One local pair off HashAllParallel, into localIDs.
IndexLocal ==
    /\ rpc = "index"
    /\ \E k \in rLeft :
         /\ localIDs' = localIDs \cup {[h |-> Hash(rIds[k]), x |-> rIds[k]]}
         /\ rLeft' = rLeft \ {k}
    /\ UNCHANGED <<input, sender, rpc, rN, rRead, remoteDone, remoteIDs, matches,
                   rCtx, net>>

\* wg.Wait() for both indexers.
Indexed ==
    /\ rpc = "index" /\ remoteDone /\ rLeft = {}
    /\ toMatch' = localIDs
    /\ rpc' = "match"
    /\ UNCHANGED <<input, sender, index, intersected, result, rCtx, net>>

\* One entry of localIDs, in the order of a map.
Match ==
    /\ rpc = "match"
    /\ \E e \in toMatch :
         /\ toMatch' = toMatch \ {e}
         /\ intersected' = IF e.h \in remoteIDs THEN intersected \cup {e.x} ELSE intersected
    /\ UNCHANGED <<input, sender, rpc, index, result, rCtx, net>>

Intersected ==
    /\ rpc = "match" /\ toMatch = {}
    /\ rpc' = "nil"
    /\ result' = IF rCtx = "live" THEN intersected ELSE result
    /\ UNCHANGED <<input, sender, index, toMatch, intersected, rCtx, net>>

ReceiverMain == \/ WriteSalt \/ ReadHeader \/ ReadHeaderFails
                \/ Indexed \/ Match \/ Intersected

Receiver == ReceiverMain \/ IndexRemote \/ RemoteDone \/ IndexLocal

\* The context ends: Intersect returns the slice its stage may be appending to.
\* Copying the slice then is a data race that may tear it.
Torn == {"torn"}

ReceiverCancel ==
    /\ CanCancel /\ rCtx = "live" /\ ~ReceiverRests
    /\ rCtx' = "returned"
    /\ result' \in {intersected} \cup (IF rpc = "match" THEN {Torn} ELSE {})
    /\ UNCHANGED <<input, sender, rpc, index, toMatch, intersected, net>>

ReceiverCloses ==
    /\ rCtx = "returned"
    /\ rCtx' = "closed"
    /\ UNCHANGED <<input, sender, rpc, index, matches, net>>

Drop ==
    /\ CanDrop /\ ~down
    /\ down' = TRUE
    /\ UNCHANGED <<input, sender, receiver, s2r, r2s>>

----------------------------------------------------------------------------
Closes == SenderCloses \/ ReceiverCloses

Next == \/ Sender \/ SenderCancel \/ Receiver \/ ReceiverCancel \/ Closes \/ Drop

\* Every goroutine is scheduled and the connection delivers; the identifier
\* channels close in the end, and so does the connection of a call that returned.
Spec ==
    /\ Init /\ [][Next]_vars
    /\ WF_vars(Sender) /\ WF_vars(SenderCloses) /\ WF_vars(ReceiverCloses)
    /\ WF_vars(ReceiverMain) /\ WF_vars(IndexRemote \/ RemoteDone) /\ WF_vars(IndexLocal)

----------------------------------------------------------------------------
(* Properties.                                                             *)

ToSet(s) == {s[k] : k \in DOMAIN s}
Common == ToSet(sIds) \cap ToSet(rIds)

\* Nothing went wrong on the way: the connection holds, neither call failed or
\* was cancelled, and there were not more identifiers than announced.
Undisturbed == ~down /\ spc # "error" /\ sCtx = "live" /\ Len(sIds) <= sN

\* When nothing was lost on the way, Intersect returns nil only with the whole
\* intersection, in whatever order the hashes were pumped, buffered and indexed.
ExactIntersection == (rpc = "nil" /\ rCtx = "live" /\ Undisturbed) => result = Common

\* What is returned, complete or not, is common to both parties, also when
\* the connection breaks, a context ends or n was wrong; only a call that is
\* cancelled while its stage appends may return a torn slice.
ResultIsSound == result \subseteq Common \/ (result = Torn /\ rCtx # "live")
=============================================================================
