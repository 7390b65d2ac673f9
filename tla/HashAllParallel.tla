-------------------------- MODULE HashAllParallel --------------------------
(***************************************************************************)
(* pkg/npsi/npsi_parallel.go: HashAllParallel on the package's pool of     *)
(* handlers.  A batcher goroutine groups the identifiers, the handlers     *)
(* hash a group and pump its pairs into one channel, and a closer closes   *)
(* that channel when the WaitGroup says that all of them are through.      *)
(* Identifiers are named by their place in the input, 1..total; a pair     *)
(* carries the name of its identifier.                                     *)
(*                                                                         *)
(* The consumer is stage 2 of the sender (pkg/npsi/sender.go), which puts  *)
(* the hashes into a bufio.Writer on a connection that may break; the      *)
(* receiver's consumer, which fills a map, is one whose writes never fail. *)
(***************************************************************************)
EXTENDS Integers, Sequences, FiniteSets

CONSTANTS Handlers,   \* the goroutines of the pool
          BatchSize,  \* 512 in the code
          MaxIds,     \* bound on the number of identifiers
          BufSize,    \* hashes the bufio.Writer holds
          CanBreak    \* may the connection break?

ASSUME HashAllAssumption ==
    /\ BatchSize \in Nat \ {0}
    /\ MaxIds \in Nat /\ BufSize \in Nat \ {0} /\ CanBreak \in BOOLEAN
    /\ IsFiniteSet(Handlers) /\ Handlers # {}

VARIABLES total,          \* identifiers before the input channel closes
          bpc, taken, i,  \* batcher: control, identifiers taken, batch fill
          hpc, op,        \* per handler: control; its batch, [lo, hi]
          wg,             \* counter of the WaitGroup
          pairsClosed,    \* channel pairs is closed
          received,       \* the pairs the consumer ranged over
          cpc,            \* consumer: "range", "write", "flush", "nil", "error"
          buffered, sent, \* hashes in its bufio.Writer, and on the connection
          broken,         \* the connection is broken
          panicked        \* a send on the closed channel

batcher == <<bpc, taken, i>>
handler == <<hpc, op>>
consumer == <<cpc, buffered, sent, broken>>
vars == <<total, batcher, handler, wg, pairsClosed, received, consumer, panicked>>

NoOp == [lo |-> 1, hi |-> 0]

\* One wg.Add for the batcher, before it starts.  The mutant leaves it out.
Init_NoAdd ==
    /\ total \in 0..MaxIds
    /\ bpc = "range" /\ taken = 0 /\ i = 0
    /\ hpc = [w \in Handlers |-> "idle"] /\ op = [w \in Handlers |-> NoOp]
    /\ wg = 0
    /\ pairsClosed = FALSE /\ received = <<>> /\ panicked = FALSE
    /\ cpc = "range" /\ buffered = 0 /\ sent = 0 /\ broken = FALSE

Init ==
    /\ total \in 0..MaxIds
    /\ bpc = "range" /\ taken = 0 /\ i = 0
    /\ hpc = [w \in Handlers |-> "idle"] /\ op = [w \in Handlers |-> NoOp]
    /\ wg = 1
    /\ pairsClosed = FALSE /\ received = <<>> /\ panicked = FALSE
    /\ cpc = "range" /\ buffered = 0 /\ sent = 0 /\ broken = FALSE

----------------------------------------------------------------------------
(* Batcher.                                                                *)

\* Accumulate; a full batch is counted before it is submitted.  The mutant
\* leaves the counting out.
Take_NoAdd ==
    /\ ~panicked
    /\ bpc = "range" /\ taken < total
    /\ taken' = taken + 1 /\ i' = i + 1
    /\ bpc' = IF i + 1 = BatchSize THEN "submit" ELSE "range"
    /\ UNCHANGED <<total, handler, wg, pairsClosed, received, consumer, panicked>>

Take ==
    /\ ~panicked
    /\ bpc = "range" /\ taken < total
    /\ taken' = taken + 1 /\ i' = i + 1
    /\ IF i + 1 = BatchSize
       THEN bpc' = "submit" /\ wg' = wg + 1
       ELSE UNCHANGED <<bpc, wg>>
    /\ UNCHANGED <<total, handler, pairsClosed, received, consumer, panicked>>

\* identifiers closed: a partial batch goes out too.  The mutant drops it.
InputClosed_DropRest ==
    /\ ~panicked
    /\ bpc = "range" /\ taken = total
    /\ bpc' = "exit"
    /\ UNCHANGED <<total, taken, i, handler, wg, pairsClosed, received, consumer, panicked>>

InputClosed ==
    /\ ~panicked
    /\ bpc = "range" /\ taken = total
    /\ IF i # 0
       THEN bpc' = "submitRest" /\ wg' = wg + 1
       ELSE bpc' = "exit" /\ UNCHANGED wg
    /\ UNCHANGED <<total, taken, i, handler, pairsClosed, received, consumer, panicked>>

\* hOpBus <- batch: blocks until a handler is free.
Submit(w) ==
    /\ ~panicked
    /\ bpc \in {"submit", "submitRest"} /\ hpc[w] = "idle"
    /\ hpc' = [hpc EXCEPT ![w] = "pump"]
    /\ op' = [op EXCEPT ![w] = [lo |-> taken - i + 1, hi |-> taken]]
    /\ i' = 0
    /\ bpc' = IF bpc = "submit" THEN "range" ELSE "exit"
    /\ UNCHANGED <<total, taken, wg, pairsClosed, received, consumer, panicked>>

\* The batcher's deferred wg.Done().
BatcherDone ==
    /\ ~panicked
    /\ bpc = "exit"
    /\ bpc' = "exited"
    /\ wg' = wg - 1
    /\ UNCHANGED <<total, taken, i, handler, pairsClosed, received, consumer, panicked>>

Batcher == Take \/ InputClosed \/ BatcherDone \/ \E w \in Handlers : Submit(w)

----------------------------------------------------------------------------
(* Handlers and closer.                                                    *)

\* pairs <- hashPair, met by the consumer's range loop; a send on the closed
\* channel panics.
Pump(w) ==
    /\ ~panicked
    /\ hpc[w] = "pump" /\ op[w].lo <= op[w].hi
    /\ pairsClosed \/ cpc = "range"
    /\ IF pairsClosed
       THEN panicked' = TRUE /\ UNCHANGED <<op, received, cpc>>
       ELSE /\ received' = Append(received, op[w].lo)
            /\ op' = [op EXCEPT ![w].lo = @ + 1]
            /\ cpc' = "write"
            /\ UNCHANGED panicked
    /\ UNCHANGED <<total, batcher, hpc, wg, pairsClosed, buffered, sent, broken>>

\* wg.Done() after the whole batch.  The mutant forgets it.
PumpDone_NoDone(w) ==
    /\ ~panicked
    /\ hpc[w] = "pump" /\ op[w].lo > op[w].hi
    /\ hpc' = [hpc EXCEPT ![w] = "idle"]
    /\ UNCHANGED <<total, batcher, op, wg, pairsClosed, received, consumer, panicked>>

PumpDone(w) ==
    /\ ~panicked
    /\ hpc[w] = "pump" /\ op[w].lo > op[w].hi
    /\ hpc' = [hpc EXCEPT ![w] = "idle"]
    /\ wg' = wg - 1
    /\ UNCHANGED <<total, batcher, op, pairsClosed, received, consumer, panicked>>

Handler(w) == Pump(w) \/ PumpDone(w)

\* wg.Wait(), then close(pairs).
Close ==
    /\ ~panicked
    /\ wg = 0 /\ ~pairsClosed
    /\ pairsClosed' = TRUE
    /\ UNCHANGED <<total, batcher, handler, wg, received, consumer, panicked>>

----------------------------------------------------------------------------
(* Consumer: stage 2 of the sender.                                        *)

Unchanged == UNCHANGED <<total, batcher, handler, wg, pairsClosed, received, panicked>>

\* HashWrite: into the buffer, which is written out first when it is full.
HashWrite ==
    /\ ~panicked /\ cpc = "write"
    /\ IF buffered < BufSize
       THEN buffered' = buffered + 1 /\ UNCHANGED sent
       ELSE ~broken /\ sent' = sent + buffered /\ buffered' = 1
    /\ cpc' = "range"
    /\ Unchanged /\ UNCHANGED broken

\* The stage returns the error, and nobody reads pairs any more.  The mutant
\* goes on with the next pair.
WriteFails_GoOn ==
    /\ ~panicked /\ cpc = "write" /\ buffered = BufSize /\ broken
    /\ cpc' = "range"
    /\ Unchanged /\ UNCHANGED <<buffered, sent, broken>>

WriteFails ==
    /\ ~panicked /\ cpc = "write" /\ buffered = BufSize /\ broken
    /\ cpc' = "error"
    /\ Unchanged /\ UNCHANGED <<buffered, sent, broken>>

\* The range loop ends with the channel; Flush, whose error is dropped.
FinalFlush ==
    /\ ~panicked /\ cpc = "range" /\ pairsClosed
    /\ sent' = IF broken THEN sent ELSE sent + buffered
    /\ buffered' = IF broken THEN buffered ELSE 0
    /\ cpc' = "nil"
    /\ Unchanged /\ UNCHANGED broken

Consumer == HashWrite \/ WriteFails \/ FinalFlush

Break ==
    /\ CanBreak /\ ~broken
    /\ broken' = TRUE
    /\ Unchanged /\ UNCHANGED <<cpc, buffered, sent>>

Next == Batcher \/ Close \/ Consumer \/ Break \/ \E w \in Handlers : Handler(w)

\* The goroutines are scheduled fairly and the input closes in the end.
Spec == /\ Init /\ [][Next]_vars
        /\ WF_vars(Batcher) /\ WF_vars(Close) /\ WF_vars(Consumer)
        /\ \A w \in Handlers : WF_vars(Handler(w))

----------------------------------------------------------------------------
Busy == {w \in Handlers : hpc[w] = "pump"}

\* The wait group stands for the goroutines that may still send: the batcher,
\* the batch it is about to submit, and the busy handlers.  It reaches zero
\* once, at the very end.
WgCountsSenders ==
    wg = Cardinality(Busy)
           + (IF bpc # "exited" THEN 1 ELSE 0)
           + (IF bpc \in {"submit", "submitRest"} THEN 1 ELSE 0)

\* The channel is never closed under a handler that still pumps.
NoSendOnClosed == ~panicked

\* A consumer whose range loop ends has seen every identifier exactly once.
ClosedMeansAll ==
    pairsClosed => /\ Len(received) = total
                   /\ \A x \in 1..total : \E k \in 1..total : received[k] = x

\* The errors of the buffered writer surface late, and that of the last Flush
\* never: behind a nil result at most one buffer of hashes is missing.
NilMissesAtMostABuffer == cpc = "nil" => total - sent <= BufSize

\* The stage returns, and the handlers it used are back in the pool that all
\* exchanges of the process share, unless it returned an error and left them
\* with pairs that nobody reads.
StageReturns == <>(\/ cpc = "nil" /\ Busy = {} /\ bpc = "exited"
                   \/ cpc = "error")
=============================================================================
