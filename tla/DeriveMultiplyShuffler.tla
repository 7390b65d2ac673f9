----------------------- MODULE DeriveMultiplyShuffler -----------------------
(***************************************************************************)
(* pkg/dhpsi/dhpsi.go: DeriveMultiplyShuffler, the sequential encoder.  An *)
(* identifier whose turn it is goes straight to the writer; any other is   *)
(* cached, and the last Shuffle flushes the cache.  Identifiers and their  *)
(* points are named by the order of the Shuffle calls, 0..max-1.           *)
(***************************************************************************)
EXTENDS Integers, Sequences

CONSTANTS MaxN,      \* bound on the announced number of identifiers
          MaxCalls,  \* bound on the calls of Shuffle
          CanFail    \* may a write fail?

ASSUME ShufflerAssumption ==
    /\ MaxN \in Nat
    /\ MaxCalls \in Nat
    /\ CanFail \in BOOLEAN

VARIABLES max, p,     \* announced identifiers; the order to send them in
          seq, sent,  \* identifiers taken; points sent directly
          b,          \* keys of the cache
          i,          \* index of the flush loop
          pc,         \* "ready" between two calls, "flush" in the last one
          err,        \* what the call in progress, or the last one, returns
          calls,      \* calls of Shuffle so far
          wire        \* the points the writer accepted

vars == <<max, p, seq, sent, b, i, pc, err, calls, wire>>

\* The zero value a missing key of the cache yields: 32 zero bytes.
ZeroPoint == -1

Positions == 0..(max - 1)

Permutation(m) ==
    {f \in [0..(m - 1) -> 0..(m - 1)] :
        \A j, k \in 0..(m - 1) : j # k => f[j] # f[k]}

Init ==
    /\ max \in 0..MaxN
    /\ p \in Permutation(max)
    /\ seq = 0 /\ sent = 0 /\ b = {} /\ i = 0
    /\ pc = "ready" /\ err = "nil" /\ calls = 0 /\ wire = <<>>

\* The caller stops at the first error (as the sender's stage 1 does).
Called == pc = "ready" /\ err = "nil" /\ calls < MaxCalls

\* A call past the announced number of identifiers.
Reject ==
    /\ Called /\ seq = max
    /\ err' = "unexpectedPoint"
    /\ calls' = calls + 1
    /\ UNCHANGED <<max, p, seq, sent, b, i, pc, wire>>

\* Write(pt) either puts a point on the wire or fails, and sets err to what it
\* returns.  A stream that failed once (the last write left its error in err)
\* fails every later write.
Write(pt) ==
    \/ err # "writeError" /\ wire' = Append(wire, pt) /\ err' = "nil"
    \/ CanFail /\ err' = "writeError" /\ UNCHANGED wire

\* A Shuffle up to its flush: send the point if it is due, cache it if not.
\* The mutant compares with the permutation at the number of calls, not of
\* points sent.
Shuffle_BySeq ==
    /\ Called /\ seq < max
    /\ IF p[seq] = seq
       THEN Write(seq) /\ sent' = sent + 1 /\ UNCHANGED b
       ELSE b' = b \cup {seq} /\ UNCHANGED <<sent, err, wire>>
    /\ seq' = seq + 1
    /\ calls' = calls + 1
    /\ pc' = IF seq' = max THEN "flush" ELSE "ready"
    /\ i' = sent'
    /\ UNCHANGED <<max, p>>

Shuffle ==
    /\ Called /\ seq < max
    /\ IF p[sent] = seq
       THEN Write(seq) /\ sent' = sent + 1 /\ UNCHANGED b
       ELSE b' = b \cup {seq} /\ UNCHANGED <<sent, err, wire>>
    /\ seq' = seq + 1
    /\ calls' = calls + 1
    /\ pc' = IF seq' = max THEN "flush" ELSE "ready"
    /\ i' = sent'
    /\ UNCHANGED <<max, p>>

\* One round of the flush loop; a failed write returns.  The mutant drops the
\* last round.
Flush_Short ==
    /\ pc = "flush" /\ i < max - 1
    /\ Write(IF p[i] \in b THEN p[i] ELSE ZeroPoint)
    /\ IF err' = "nil" THEN i' = i + 1 /\ UNCHANGED pc
                       ELSE pc' = "ready" /\ UNCHANGED i
    /\ UNCHANGED <<max, p, seq, sent, b, calls>>

Flush ==
    /\ pc = "flush" /\ i < max
    /\ Write(IF p[i] \in b THEN p[i] ELSE ZeroPoint)
    /\ IF err' = "nil" THEN i' = i + 1 /\ UNCHANGED pc
                       ELSE pc' = "ready" /\ UNCHANGED i
    /\ UNCHANGED <<max, p, seq, sent, b, calls>>

\* The loop is over and the last Shuffle returns err.
FlushDone ==
    /\ pc = "flush" /\ i = max
    /\ pc' = "ready"
    /\ UNCHANGED <<max, p, seq, sent, b, i, err, calls, wire>>

Next == Reject \/ Shuffle \/ Flush \/ FlushDone

Safety == Init /\ [][Next]_vars

\* A call that was made runs to its end; whether there is another one is up
\* to the caller.
Spec == Safety /\ WF_vars(Flush) /\ WF_vars(FlushDone)

----------------------------------------------------------------------------
TypeOK ==
    /\ max \in 0..MaxN
    /\ p \in Permutation(max)
    /\ seq \in 0..max
    /\ sent \in 0..max
    /\ b \subseteq Positions
    /\ i \in 0..max
    /\ pc \in {"ready", "flush"}
    /\ err \in {"nil", "writeError", "unexpectedPoint"}
    /\ calls \in 0..MaxCalls
    /\ wire \in Seq(Positions \cup {ZeroPoint})

\* The points leave in the order of the permutation, with no hole and no
\* zero point among them: the direct sends and the flush of the cache mesh.
FollowsPermutation ==
    \A k \in 1..Len(wire) : k <= max /\ wire[k] = p[k - 1]

\* Every identifier taken is either on the wire or waiting in the cache.
NothingLost ==
    \A s \in 0..(seq - 1) : s \in b \/ \E k \in 0..(sent - 1) : p[k] = s

\* When the call that took the last identifier returns nil, every point is on
\* the wire.
NilMeansAllSent ==
    (pc = "ready" /\ seq = max /\ err = "nil") => Len(wire) = max

\* Seen from outside, the encoder is a shuffling writer that sends whatever
\* the permutation lets it send.
Abstract == INSTANCE ShuffledWriter
    WITH n <- max, accepted <- seq, written <- wire,
         failed <- (err = "writeError")
ImplementsShuffledWriter == Abstract!Spec
=============================================================================
