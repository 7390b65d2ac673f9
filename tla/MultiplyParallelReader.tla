----------------------- MODULE MultiplyParallelReader -----------------------
(***************************************************************************)
(* pkg/dhpsi/dhpsi_parallel.go: MultiplyParallelReader and fill.           *)
(*                                                                         *)
(* Five kinds of goroutine meet on unbuffered channels:                    *)
(*   filler     reads whole batches off the stream and submits them;       *)
(*   workers    the global pool; each multiplies a batch, hands it to the  *)
(*              collector and draws a ticket to learn whether it was last; *)
(*   counter    issues the tickets, and closes the ticket channel;         *)
(*   collector  puts finished batches back in stream order;                *)
(*   reader     the protocol stage that calls Read.                        *)
(*                                                                         *)
(* Points are named by their place in the stream (1..max) and a batch by   *)
(* its number; a worker multiplies every point of its batch, which leaves  *)
(* those names alone.  A send meets its receive in one step.               *)
(***************************************************************************)
EXTENDS Integers, Sequences, FiniteSets

CONSTANTS Workers,     \* the goroutines of the pool (parallelism of them)
          BatchSize,   \* points in a full batch (512 in the code)
          MaxPoints,   \* bound on the announced number of points
          CanFail,     \* may a read of the stream fail?
          CanAbandon   \* may the consumer stop reading and close the sockets?

ASSUME ReaderAssumption ==
    /\ BatchSize \in Nat \ {0}
    /\ MaxPoints \in Nat
    /\ CanFail \in BOOLEAN /\ CanAbandon \in BOOLEAN
    /\ IsFiniteSet(Workers) /\ Workers # {}

VARIABLES
    max,            \* points announced by the stream's header
    fpc, next,      \* filler: control state; number of the batch it is on
    wpc, wb,        \* per worker: control state; number of the batch it holds
    counting, left, \* counter: still running? ; the ticket it offers
    batchesClosed,  \* channel batches is closed
    closed,         \* channel closed is closed
    kpc, cur, ck,   \* collector: control state; batch copied out; points copied
    ring, sent,     \* collector: early batches; next batch due
    flushed,        \* collector: index of the final flush loop
    out, rst,       \* points returned by Read; how reading ended
    panicked        \* a goroutine panicked and took the process down

filler    == <<fpc, next>>
worker    == <<wpc, wb>>
counter   == <<counting, left>>
collector == <<kpc, cur, ck, ring, sent, flushed>>
reader    == <<out, rst>>
vars == <<max, filler, worker, counter, batchesClosed, closed, collector,
          reader, panicked>>

----------------------------------------------------------------------------
(* Arithmetic of batches.                                                  *)

MinOf(a, b) == IF a < b THEN a ELSE b

TotalBatches ==
    max \div BatchSize + (IF max % BatchSize # 0 THEN 1 ELSE 0)

\* The points of batch n, in stream order; the last batch may be short.
BatchPoints(n) ==
    [j \in 1..MinOf(BatchSize, max - n * BatchSize) |-> n * BatchSize + j]

Init ==
    /\ max \in 0..MaxPoints
    /\ fpc = "read" /\ next = 0
    /\ wpc = [w \in Workers |-> "idle"] /\ wb = [w \in Workers |-> -1]
    /\ counting = TRUE /\ left = TotalBatches - 1
    /\ batchesClosed = FALSE /\ closed = FALSE
    /\ kpc = "recv" /\ cur = -1 /\ ck = 0
    /\ ring = {} /\ sent = 0 /\ flushed = 0
    /\ out = <<>> /\ rst = "reading"
    /\ panicked = FALSE

\* Every goroutine stops when one panics.
Running == ~panicked

----------------------------------------------------------------------------
(* Filler.                                                                 *)

\* Reads every point of the next batch.
FillRead ==
    /\ Running
    /\ fpc = "read" /\ next < TotalBatches
    /\ rst # "abandoned"
    /\ fpc' = "submit"
    /\ UNCHANGED <<max, next, worker, counter, batchesClosed, closed,
                   collector, reader, panicked>>

\* Forgets the first of the two closes of the error path.
FillFail_NoClose ==
    /\ Running
    /\ CanFail \/ rst = "abandoned"
    /\ fpc = "read" /\ next < TotalBatches
    /\ fpc' = "cancel"
    /\ UNCHANGED <<max, next, worker, counter, batchesClosed, closed,
                   collector, reader, panicked>>

\* A read fails somewhere in the batch: "cancel everything", first batches...
FillFail ==
    /\ Running
    /\ CanFail \/ rst = "abandoned"
    /\ fpc = "read" /\ next < TotalBatches
    /\ fpc' = "cancel"
    /\ IF batchesClosed
       THEN panicked' = TRUE /\ UNCHANGED batchesClosed
       ELSE batchesClosed' = TRUE /\ UNCHANGED panicked
    /\ UNCHANGED <<max, next, worker, counter, closed, collector, reader>>

\* ... then closed.
FillCancel ==
    /\ Running
    /\ fpc = "cancel"
    /\ fpc' = "exited"
    /\ closed' = TRUE
    /\ UNCHANGED <<max, next, worker, counter, batchesClosed, collector,
                   reader, panicked>>

\* mBus <- op: blocks until a worker of the pool is free.
Submit(w) ==
    /\ Running
    /\ fpc = "submit" /\ wpc[w] = "idle"
    /\ fpc' = "read" /\ next' = next + 1
    /\ wpc' = [wpc EXCEPT ![w] = "deliver"]
    /\ wb' = [wb EXCEPT ![w] = next]
    /\ UNCHANGED <<max, counter, batchesClosed, closed, collector, reader,
                   panicked>>

FillExit ==
    /\ Running
    /\ fpc = "read" /\ next = TotalBatches
    /\ fpc' = "exited"
    /\ UNCHANGED <<max, next, worker, counter, batchesClosed, closed,
                   collector, reader, panicked>>

Filler == FillRead \/ FillFail \/ FillCancel \/ FillExit
            \/ \E w \in Workers : Submit(w)

----------------------------------------------------------------------------
(* Workers and the ticket counter.                                         *)

\* Head of the collector's loop body: the batch due is copied out, another
\* one is buffered, and then a buffered batch that is now due is copied out.
\* The mutant copies every batch out as it comes.
Receive_AsTheyCome(n) == kpc' = "head" /\ cur' = n /\ UNCHANGED ring

Receive(n) ==
    IF n = sent
    THEN kpc' = "head" /\ cur' = n /\ UNCHANGED ring
    ELSE /\ ring' = ring \cup {n}
         /\ IF sent \in ring'
            THEN kpc' = "ring" /\ cur' = sent
            ELSE UNCHANGED <<kpc, cur>>

\* batches <- m, met by the collector's range loop.
Deliver(w) ==
    /\ Running
    /\ wpc[w] = "deliver"
    /\ kpc = "recv" /\ ~batchesClosed
    /\ wpc' = [wpc EXCEPT ![w] = "ticket"]
    /\ Receive(wb[w])
    /\ ck' = 0
    /\ UNCHANGED <<max, filler, wb, counter, batchesClosed, closed, sent,
                   flushed, reader, panicked>>

\* A send on the closed channel batches panics.
DeliverPanic(w) ==
    /\ Running
    /\ wpc[w] = "deliver" /\ batchesClosed
    /\ panicked' = TRUE
    /\ UNCHANGED <<max, filler, worker, counter, batchesClosed, closed,
                   collector, reader>>

\* The worker that draws the last-but-one ticket already believes it is last.
Ticket_OffByOne(w) ==
    /\ Running
    /\ wpc[w] = "ticket"
    /\ counting
    /\ left' = left - 1
    /\ counting' = (left # 1)
    /\ wpc' = [wpc EXCEPT ![w] = IF left <= 1 THEN "close" ELSE "idle"]
    /\ UNCHANGED <<max, filler, wb, batchesClosed, closed, collector, reader,
                   panicked>>

\* left := <-lb, while the counter runs; it closes lb after ticket 1.
Ticket(w) ==
    /\ Running
    /\ wpc[w] = "ticket"
    /\ counting
    /\ left' = left - 1
    /\ counting' = (left # 1)
    /\ wpc' = [wpc EXCEPT ![w] = IF left = 0 THEN "close" ELSE "idle"]
    /\ UNCHANGED <<max, filler, wb, batchesClosed, closed, collector, reader,
                   panicked>>

\* left := <-lb after lb was closed reads the zero value: the last ticket.
\* In the mutant the counter returns without closing lb, and the worker waits.
TicketClosed_LbLeftOpen(w) ==
    /\ Running
    /\ wpc[w] = "ticket"
    /\ ~counting /\ closed
    /\ wpc' = [wpc EXCEPT ![w] = "close"]
    /\ UNCHANGED <<max, filler, wb, counter, batchesClosed, closed, collector,
                   reader, panicked>>

TicketClosed(w) ==
    /\ Running
    /\ wpc[w] = "ticket"
    /\ ~counting
    /\ wpc' = [wpc EXCEPT ![w] = "close"]
    /\ UNCHANGED <<max, filler, wb, counter, batchesClosed, closed, collector,
                   reader, panicked>>

\* The counter's other case: closed is closed, so it returns and closes lb.
CounterCancel ==
    /\ Running
    /\ counting /\ closed
    /\ counting' = FALSE
    /\ UNCHANGED <<max, filler, worker, left, batchesClosed, closed, collector,
                   reader, panicked>>

\* close(batches) by the worker that saw ticket 0; a second close panics.
CloseBatches(w) ==
    /\ Running
    /\ wpc[w] = "close"
    /\ wpc' = [wpc EXCEPT ![w] = "idle"]
    /\ IF batchesClosed
       THEN panicked' = TRUE /\ UNCHANGED batchesClosed
       ELSE batchesClosed' = TRUE /\ UNCHANGED panicked
    /\ UNCHANGED <<max, filler, wb, counter, closed, collector, reader>>

Worker(w) == Deliver(w) \/ DeliverPanic(w) \/ Ticket(w) \/ TicketClosed(w)
               \/ CloseBatches(w)

----------------------------------------------------------------------------
(* Collector.                                                              *)

Copying == kpc \in {"head", "ring", "flush"}

\* The points copied out.  The final flush reads the map entries from sent on,
\* and one that is missing, after a failure, is a batch without points.
CurPoints ==
    IF kpc = "flush" /\ cur \notin ring THEN <<>> ELSE BatchPoints(cur)

\* The end of a copyOut.  After the batch that was due, a buffered successor
\* follows; after a buffered one the loop goes back to the channel.
AfterCopy ==
    \/ /\ kpc = "head"
       /\ sent' = sent + 1
       /\ IF sent + 1 \in ring THEN kpc' = "ring" /\ cur' = sent + 1
                               ELSE kpc' = "recv" /\ UNCHANGED cur
       /\ UNCHANGED <<ring, flushed>>
    \/ /\ kpc = "ring"
       /\ ring' = ring \ {sent}
       /\ sent' = sent + 1
       /\ kpc' = "recv"
       /\ UNCHANGED <<cur, flushed>>
    \/ /\ kpc = "flush"
       /\ flushed' = flushed + 1
       /\ IF flushed + 1 < Cardinality(ring)
          THEN cur' = sent + flushed + 1 /\ UNCHANGED kpc
          ELSE kpc' = "exited" /\ UNCHANGED cur
       /\ UNCHANGED <<ring, sent>>

\* c <- point, met by a Read.
CopyPoint ==
    /\ Running
    /\ Copying /\ ck < Len(CurPoints)
    /\ rst = "reading" /\ Len(out) < max
    /\ out' = Append(out, CurPoints[ck + 1])
    /\ ck' = ck + 1
    /\ UNCHANGED <<max, filler, worker, counter, batchesClosed, closed, kpc,
                   cur, ring, sent, flushed, rst, panicked>>

\* copyOut returns: the batch is out, or its other case saw closed.
CopyReturn ==
    /\ Running
    /\ Copying
    /\ ck = Len(CurPoints) \/ closed
    /\ AfterCopy
    /\ ck' = 0
    /\ UNCHANGED <<max, filler, worker, counter, batchesClosed, closed,
                   reader, panicked>>

\* The range loop ends; what is still buffered is flushed, then c is closed.
StartFlush ==
    /\ Running
    /\ kpc = "recv" /\ batchesClosed
    /\ IF ring = {} THEN kpc' = "exited" /\ UNCHANGED cur
                    ELSE kpc' = "flush" /\ cur' = sent
    /\ ck' = 0
    /\ UNCHANGED <<max, filler, worker, counter, batchesClosed, closed, ring,
                   sent, flushed, reader, panicked>>

Collector == CopyPoint \/ CopyReturn \/ StartFlush

----------------------------------------------------------------------------
(* Reader.                                                                 *)

\* Read once all the announced points were returned.
ReadEOF ==
    /\ Running
    /\ rst = "reading" /\ Len(out) = max
    /\ rst' = "eof"
    /\ UNCHANGED <<max, filler, worker, counter, batchesClosed, closed,
                   collector, out, panicked>>

\* Read finds the bus closed early.
ReadUnexpectedEOF ==
    /\ Running
    /\ rst = "reading" /\ Len(out) < max
    /\ kpc = "exited"
    /\ rst' = "unexpectedEOF"
    /\ UNCHANGED <<max, filler, worker, counter, batchesClosed, closed,
                   collector, out, panicked>>

Reader == ReadEOF \/ ReadUnexpectedEOF

\* The stage calling Read returns (a write failed, or the context was
\* cancelled) and its caller closes the sockets: no later read succeeds.
Abandon ==
    /\ Running
    /\ CanAbandon
    /\ rst = "reading"
    /\ rst' = "abandoned"
    /\ UNCHANGED <<max, filler, worker, counter, batchesClosed, closed,
                   collector, out, panicked>>

----------------------------------------------------------------------------
Next ==
    \/ Filler
    \/ \E w \in Workers : Worker(w)
    \/ CounterCancel
    \/ Collector
    \/ Reader
    \/ Abandon

Safety == Init /\ [][Next]_vars

\* The Go scheduler runs every runnable goroutine again and again, and the
\* peer keeps the stream coming until it ends or fails.  Nothing makes the
\* consumer walk away.
Fairness ==
    /\ WF_vars(Filler)
    /\ \A w \in Workers : WF_vars(Worker(w))
    /\ WF_vars(CounterCancel)
    /\ WF_vars(Collector)
    /\ WF_vars(Reader)

Spec == Safety /\ Fairness

----------------------------------------------------------------------------
(* Properties.                                                             *)

\* No goroutine of fill sends on a channel that another one closed, or closes
\* it twice: the two closes of batches (last worker, filler's error path) and
\* the workers' sends on it never collide.
NoPanic == ~panicked

\* The filler met an error: a read of the stream failed.
Failed == fpc = "cancel" \/ closed

\* A panic needs a read that failed: on a stream that does not fail the last
\* worker, the counter and the filler agree on who closes what.
PanicNeedsFailure == panicked => Failed

\* Until a read of the stream fails, the points Read returned are the first
\* points of the stream, in order, none skipped: the collector's ring undoes
\* the workers' reordering.
InOrder == ~Failed => out = [i \in 1..Len(out) |-> i]

AllIdle == \A w \in Workers : wpc[w] = "idle"

\* The pool is shared by every protocol run of the process, so a stream that
\* ended or failed must give all its workers back for good.  Only a consumer
\* that walks away without the filler noticing may keep them.
PoolReturned ==
    <>[](AllIdle \/ panicked \/ (rst = "abandoned" /\ ~closed))

\* The pipeline is an ordered reader: as seen from Read, the batches, workers
\* and ring are invisible.  Also while it is shut down after a failed read, Read
\* never returns an older point after a newer one or the same one twice, returns
\* io.EOF only over the complete stream, and never leaves its caller blocked.
Ordered == INSTANCE OrderedReader
    WITH failed <- Failed, rst <- IF panicked THEN "panicked" ELSE rst
ImplementsOrderedReader == Ordered!Spec
=============================================================================
