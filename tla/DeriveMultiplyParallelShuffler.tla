------------------- MODULE DeriveMultiplyParallelShuffler -------------------
(***************************************************************************)
(* pkg/dhpsi/dhpsi_parallel.go: DeriveMultiplyParallelShuffler, on the     *)
(* worker pool of dhpsi_parallel_types.go.  Shuffle fills a batch and      *)
(* hands full ones to the pool; workers store the points into a shared     *)
(* array; the call that takes the last identifier waits on a WaitGroup for *)
(* every batch, then writes the array out in the order of the permutation. *)
(* Identifiers and points are named by the order of the calls, 0..max-1.   *)
(***************************************************************************)
EXTENDS Integers, Sequences, FiniteSets

CONSTANTS Workers,    \* goroutines of the pool
          BatchSize,  \* 512 in the code
          MaxN,       \* bound on the announced number of identifiers
          MaxCalls,   \* bound on the calls of Shuffle
          CanFail     \* may a write fail?

VARIABLES max, p,     \* announced identifiers; the order to send them in
          seq,        \* identifiers taken
          b,          \* the batch being filled: [seq, s], start and size
          wg,         \* counter of the WaitGroup
          points,     \* post-processing buffer
          i,          \* index of the write loop
          pc, err,    \* where the current call is; what calls returned
          calls,      \* calls of Shuffle so far
          wpc, wb,    \* per worker: control state; the batch it holds
          wire        \* the points the writer accepted

enc  == <<seq, b, i, pc, err, calls>>
pool == <<wpc, wb>>
vars == <<max, p, enc, wg, points, pool, wire>>

ZeroPoint == -1
Positions == 0..(max - 1)

Permutation(m) ==
    {f \in [0..(m - 1) -> 0..(m - 1)] :
        \A j, k \in 0..(m - 1) : j # k => f[j] # f[k]}

MinOf(x, y) == IF x < y THEN x ELSE y

\* Identifiers a batch holds.
Content(batch) == batch.seq..(batch.seq + batch.s - 1)

\* NewDeriveMultiplyParallelShuffler: the first batch is counted right away.
Init ==
    /\ max \in 0..MaxN
    /\ p \in Permutation(max)
    /\ seq = 0
    /\ b = [seq |-> 0, s |-> MinOf(BatchSize, max)]
    /\ wg = 1
    /\ points = [k \in Positions |-> ZeroPoint]
    /\ i = 0 /\ pc = "ready" /\ err = "nil" /\ calls = 0
    /\ wpc = [w \in Workers |-> "idle"]
    /\ wb = [w \in Workers |-> [seq |-> 0, s |-> 0]]
    /\ wire = <<>>

\* The caller stops at the first error.
Called == pc = "ready" /\ err = "nil" /\ calls < MaxCalls

\* A call past the announced number of identifiers.
Reject ==
    /\ Called /\ seq = max
    /\ err' = "unexpectedPoint"
    /\ calls' = calls + 1
    /\ UNCHANGED <<max, p, seq, b, i, pc, wg, points, pool, wire>>

\* Put the identifier into the batch; a full batch goes to the pool.
Accept ==
    /\ Called /\ seq < max
    /\ seq' = seq + 1
    /\ calls' = calls + 1
    /\ pc' = IF seq % BatchSize = b.s - 1 THEN "submit" ELSE "ready"
    /\ UNCHANGED <<max, p, b, i, err, wg, points, pool, wire>>

\* dmBus <- op: blocks until a worker is free.
Submit(w) ==
    /\ pc = "submit" /\ wpc[w] = "idle"
    /\ wpc' = [wpc EXCEPT ![w] = "store"]
    /\ wb' = [wb EXCEPT ![w] = b]
    /\ pc' = "nextBatch"
    /\ UNCHANGED <<max, p, seq, b, i, err, calls, wg, points, wire>>

\* Start the next batch, unless that was the last one.  The mutant forgets
\* to count it.
NextBatch_NoAdd ==
    /\ pc = "nextBatch"
    /\ LET s == MinOf(BatchSize, max - seq) IN
         IF s # 0
         THEN b' = [seq |-> seq, s |-> s] /\ pc' = "ready" /\ wg' = wg
         ELSE pc' = "wait" /\ UNCHANGED <<b, wg>>
    /\ UNCHANGED <<max, p, seq, i, err, calls, points, pool, wire>>

NextBatch ==
    /\ pc = "nextBatch"
    /\ LET s == MinOf(BatchSize, max - seq) IN
         IF s # 0
         THEN b' = [seq |-> seq, s |-> s] /\ pc' = "ready" /\ wg' = wg + 1
         ELSE pc' = "wait" /\ UNCHANGED <<b, wg>>
    /\ UNCHANGED <<max, p, seq, i, err, calls, points, pool, wire>>

\* The worker derives the batch and runs the closure: store the points ...
Store(w) ==
    /\ wpc[w] = "store"
    /\ points' = [k \in Positions |->
                    IF k \in Content(wb[w]) THEN k ELSE points[k]]
    /\ wpc' = [wpc EXCEPT ![w] = "done"]
    /\ UNCHANGED <<max, p, enc, wg, wb, wire>>

\* ... then wg.Done().
Done(w) ==
    /\ wpc[w] = "done"
    /\ wg' = wg - 1
    /\ wpc' = [wpc EXCEPT ![w] = "idle"]
    /\ UNCHANGED <<max, p, enc, points, wb, wire>>

Worker(w) == Store(w) \/ Done(w)

\* wg.Wait().
Wait ==
    /\ pc = "wait" /\ wg = 0
    /\ pc' = "write" /\ i' = 0
    /\ UNCHANGED <<max, p, seq, b, err, calls, wg, points, pool, wire>>

\* One round of the write loop.
Write ==
    /\ pc = "write" /\ i < max
    /\ wire' = Append(wire, points[p[i]])
    /\ i' = i + 1
    /\ UNCHANGED <<max, p, seq, b, pc, err, calls, wg, points, pool>>

\* The write fails: the last Shuffle returns its error.  The mutant returns
\* from the loop without it.
WriteFail_Swallowed ==
    /\ CanFail
    /\ pc = "write" /\ i < max
    /\ pc' = "ready"
    /\ UNCHANGED <<max, p, seq, b, i, err, calls, wg, points, pool, wire>>

WriteFail ==
    /\ CanFail
    /\ pc = "write" /\ i < max
    /\ pc' = "ready" /\ err' = "writeError"
    /\ UNCHANGED <<max, p, seq, b, i, calls, wg, points, pool, wire>>

WriteDone ==
    /\ pc = "write" /\ i = max
    /\ pc' = "ready"
    /\ UNCHANGED <<max, p, seq, b, i, err, calls, wg, points, pool, wire>>

\* What a call of Shuffle does after it took its identifier.
InCall == \/ NextBatch \/ Wait \/ Write \/ WriteFail \/ WriteDone
          \/ \E w \in Workers : Submit(w)

Next == Reject \/ Accept \/ InCall \/ \E w \in Workers : Worker(w)

Safety == Init /\ [][Next]_vars

\* The goroutine inside Shuffle and the workers are scheduled fairly; whether
\* there is another call is up to the caller.
Fairness ==
    /\ WF_vars(InCall)
    /\ \A w \in Workers : WF_vars(Worker(w))

Spec == Safety /\ Fairness

----------------------------------------------------------------------------
Busy == {w \in Workers : wpc[w] # "idle"}

\* Wait waits for the right thing: the wait group counts exactly the batches
\* whose points are not all in the array yet, which are the ones on workers and
\* the one being filled, counted until it is full (an announced length of 0 is
\* never flushed); and when the write loop reads the array, no worker still
\* stores into it and no entry is missing.
WaitedForAll ==
    /\ wg = Cardinality(Busy)
              + (IF pc \in {"ready", "submit"} /\ (seq < max \/ pc = "submit" \/ max = 0)
                 THEN 1 ELSE 0)
    /\ pc = "write" => Busy = {} /\ \A k \in Positions : points[k] = k
=============================================================================
