---------------------------- MODULE ReaderProofs ----------------------------
(***************************************************************************)
(* The parallel reader of DHPSI, for every number of points, batch size    *)
(* and pool: on a stream that does not fail no goroutine panics and Read   *)
(* returns the points in order, and whatever fails, what Read returns is   *)
(* what OrderedReader allows.                                              *)
(***************************************************************************)
EXTENDS MultiplyParallelReader, FiniteSetTheorems, TLAPS

TypeOK ==
    /\ max \in 0..MaxPoints
    /\ fpc \in {"read", "submit", "cancel", "exited"} /\ next \in 0..TotalBatches
    /\ wpc \in [Workers -> {"idle", "deliver", "ticket", "close"}]
    /\ wb \in [Workers -> Int]
    /\ counting \in BOOLEAN /\ left \in Int
    /\ batchesClosed \in BOOLEAN /\ closed \in BOOLEAN
    /\ kpc \in {"recv", "head", "ring", "flush", "exited"}
    /\ cur \in Int /\ ck \in Nat /\ ring \subseteq Nat /\ sent \in Nat /\ flushed \in Nat
    /\ out \in Seq(Nat)
    /\ rst \in {"reading", "eof", "unexpectedEOF", "abandoned"}
    /\ panicked \in BOOLEAN

\* The last point of the stream that may have been returned.
Mark == IF kpc = "recv" THEN sent * BatchSize ELSE cur * BatchSize + ck

\* What holds whether or not a read failed: where the collector is, and that
\* it has returned nothing beyond that.
Progress ==
    /\ fpc = "submit" => next < TotalBatches
    /\ closed => fpc = "exited"
    /\ kpc \in {"head", "ring"} => cur = sent
    /\ kpc = "flush" => cur = sent + flushed
    /\ kpc \in {"recv", "head", "ring"} => flushed = 0
    /\ Copying => ck <= BatchSize
    /\ \A w \in Workers : wpc[w] = "deliver" => wb[w] \in Nat
    /\ kpc # "exited" => \A i \in 1..Len(out) : out[i] <= Mark

\* Workers that have not drawn the ticket of their batch yet.
Busy == {w \in Workers : wpc[w] \in {"deliver", "ticket"}}
Drawn == next - Cardinality(Busy)

\* While no read failed, the tickets count the batches: the worker that closes
\* the channel is the only one, and every batch was delivered before.
Tickets ==
    /\ counting => left = TotalBatches - 1 - Drawn
    /\ ~counting => Drawn \in {TotalBatches - 1, TotalBatches}
    /\ batchesClosed => Drawn = TotalBatches /\ \A w \in Workers : wpc[w] # "close"
    /\ \A w \in Workers : wpc[w] = "close" =>
          /\ Drawn = TotalBatches
          /\ \A v \in Workers \ {w} : wpc[v] # "close"

\* While no read failed, a batch that was submitted is copied out, in the
\* ring, being copied out, or still with one worker.
Batches ==
    /\ \A n \in 0..(next - 1) :
          \/ n < sent \/ n \in ring \/ (kpc = "head" /\ n = sent)
          \/ \E w \in Workers : wpc[w] = "deliver" /\ wb[w] = n
    /\ sent <= next /\ ring \subseteq sent..(next - 1)
    /\ kpc = "head" => sent < next /\ sent \notin ring
    /\ kpc = "ring" => sent \in ring
    /\ \A w \in Workers : wpc[w] = "deliver" =>
          /\ wb[w] \in sent..(next - 1) /\ wb[w] \notin ring
          /\ kpc = "head" => wb[w] # sent
          /\ \A v \in Workers \ {w} : wpc[v] = "deliver" => wb[v] # wb[w]
    /\ kpc = "flush" => ring = sent..(TotalBatches - 1) /\ cur < TotalBatches

\* While no read failed, Read returned exactly the points up to the mark.
Returned ==
    /\ out = [i \in 1..Len(out) |-> i]
    /\ kpc = "recv" => Len(out) = MinOf(max, Mark)
    /\ Copying => Len(out) = Mark /\ ck <= Len(BatchPoints(cur))
    /\ kpc = "exited" => Len(out) = max

Healthy == ~Failed => Tickets /\ Batches /\ Returned

IInv == TypeOK /\ Progress /\ PanicNeedsFailure /\ Healthy

----------------------------------------------------------------------------
(* Batches of points.                                                      *)

\* The batches before TotalBatches are those that begin within the stream.
LEMMA BatchArith ==
    ASSUME max \in Nat
    PROVE  /\ TotalBatches \in Nat
           /\ \A n \in Nat : n * BatchSize \in Nat /\ (n < TotalBatches <=> n * BatchSize < max)
<1> DEFINE q == max \div BatchSize
           r == max % BatchSize
<1>1. BatchSize \in Nat \ {0}
  BY ReaderAssumption
<1>2. q \in Nat /\ r \in 0..(BatchSize - 1) /\ max = BatchSize * q + r
  BY <1>1
<1>3. TotalBatches = q + (IF r # 0 THEN 1 ELSE 0)
  BY DEF TotalBatches
<1> HIDE DEF q, r
<1>4. ASSUME NEW n \in Nat
      PROVE  n * BatchSize \in Nat /\ (n < TotalBatches <=> n * BatchSize < max)
  <2>0. n * BatchSize \in Nat /\ BatchSize * q = q * BatchSize /\ q * BatchSize \in Nat
    BY <1>1, <1>2
  <2>1. CASE n < q
    <3>1. n * BatchSize + BatchSize <= q * BatchSize
      BY <1>1, <1>2, <2>1
    <3> QED BY <1>1, <1>2, <1>3, <2>0, <2>1, <3>1
  <2>2. CASE n = q
    BY <1>1, <1>2, <1>3, <2>0, <2>2
  <2>3. CASE n > q
    <3>1. q * BatchSize + BatchSize <= n * BatchSize
      BY <1>1, <1>2, <2>3
    <3> QED BY <1>1, <1>2, <1>3, <2>0, <2>3, <3>1
  <2> QED BY <1>2, <2>1, <2>2, <2>3
<1> QED BY <1>2, <1>3, <1>4

\* The points of a batch.
LEMMA Points ==
    ASSUME max \in Nat, NEW n \in Nat
    PROVE  /\ Len(BatchPoints(n)) \in Nat /\ Len(BatchPoints(n)) <= BatchSize
           /\ \A j \in 1..Len(BatchPoints(n)) :
                 BatchPoints(n)[j] = n * BatchSize + j /\ n * BatchSize + j \in 1..max
           /\ n < TotalBatches =>
                 /\ n * BatchSize + Len(BatchPoints(n)) = MinOf(max, (n + 1) * BatchSize)
                 /\ n * BatchSize < max
<1> DEFINE m == MinOf(BatchSize, max - n * BatchSize)
           l == IF m >= 0 THEN m ELSE 0
           s == [j \in 1..l |-> n * BatchSize + j]
<1>1. BatchSize \in Nat \ {0} /\ n * BatchSize \in Nat
  BY ReaderAssumption, BatchArith
<1>2. m \in Int /\ l \in Nat /\ m <= BatchSize /\ m <= max - n * BatchSize
      /\ (max - n * BatchSize >= 0 => l = m) /\ l <= BatchSize
  BY <1>1 DEF MinOf
<1>3. 1..m = 1..l
  <2> HIDE DEF m
  <2> QED BY <1>2
<1>4. BatchPoints(n) = s
  BY <1>3 DEF BatchPoints
<1>5. s \in Seq(Nat) /\ Len(s) = l /\ \A j \in 1..l : s[j] = n * BatchSize + j
  <2> HIDE DEF m
  <2>1. \A j \in 1..l : n * BatchSize + j \in Nat
    BY <1>1, <1>2
  <2> HIDE DEF l
  <2> QED BY <1>2, <2>1
<1>6. \A j \in 1..l : n * BatchSize + j \in 1..max
  <2> HIDE DEF m
  <2> QED BY <1>1, <1>2
<1>7. ASSUME n < TotalBatches
      PROVE  n * BatchSize + l = MinOf(max, (n + 1) * BatchSize) /\ n * BatchSize < max
  <2>1. n * BatchSize < max
    BY <1>7, BatchArith
  <2>2. (n + 1) * BatchSize = n * BatchSize + BatchSize
    BY <1>1
  <2> QED BY <1>1, <2>1, <2>2 DEF MinOf
<1> HIDE DEF m, l, s
<1> QED BY <1>2, <1>4, <1>5, <1>6, <1>7

\* The arithmetic depends on max only.
LEMMA SameBatches ==
    ASSUME max' = max
    PROVE  TotalBatches' = TotalBatches /\ \A n : BatchPoints(n)' = BatchPoints(n)
  BY DEF TotalBatches, BatchPoints

\* The tickets drawn: never more than the batches submitted.
LEMMA BusyCard ==
    ASSUME TypeOK
    PROVE  /\ IsFiniteSet(Busy) /\ Cardinality(Busy) \in Nat /\ Drawn \in Int /\ Drawn <= next
           /\ (\E w \in Workers : w \in Busy) => Drawn < next
           /\ Drawn = next => Busy = {}
<1>1. IsFiniteSet(Busy)
  BY FS_Subset, ReaderAssumption DEF Busy
<1>2. Cardinality(Busy) \in Nat /\ (Cardinality(Busy) = 0 <=> Busy = {})
  BY <1>1, FS_CardinalityType, FS_EmptySet
<1>3. max \in Nat /\ next \in Int
  BY BatchArith, ReaderAssumption DEF TypeOK
<1> QED BY <1>1, <1>2, <1>3 DEF Drawn

----------------------------------------------------------------------------
(* Each action preserves the invariant.                                    *)

LEMMA Basics ==
    ASSUME TypeOK
    PROVE  /\ max \in Nat /\ TotalBatches \in Nat /\ next \in Nat /\ next <= TotalBatches
           /\ BatchSize \in Nat \ {0}
  BY BatchArith, ReaderAssumption DEF TypeOK

LEMMA InitIInv ==
    ASSUME Init PROVE IInv
<1>1. max \in Nat /\ TotalBatches \in Nat /\ max \in 0..MaxPoints /\ BatchSize \in Nat \ {0}
  BY BatchArith, ReaderAssumption DEF Init
<1>2. TypeOK
  <2>1. /\ fpc = "read" /\ next \in 0..TotalBatches /\ cur \in Int /\ ck \in Nat /\ ring \subseteq Nat
        /\ sent \in Nat /\ flushed \in Nat /\ kpc = "recv" /\ rst = "reading" /\ left \in Int
    BY <1>1 DEF Init
  <2>2. /\ wpc \in [Workers -> {"idle", "deliver", "ticket", "close"}] /\ wb \in [Workers -> Int]
        /\ out \in Seq(Nat)
    BY DEF Init
  <2>3. /\ counting \in BOOLEAN /\ batchesClosed \in BOOLEAN /\ closed \in BOOLEAN
        /\ panicked \in BOOLEAN
    BY DEF Init
  <2> QED BY <1>1, <2>1, <2>2, <2>3 DEF TypeOK
<1>3. Len(out) = 0 /\ out = <<>>
  BY DEF Init
<1>4. Progress
  BY <1>3 DEF Init, Progress, Copying
<1>5. Tickets
  <2>1. Busy = {}
    BY DEF Init, Busy
  <2>2. Drawn = 0
    BY <2>1, FS_EmptySet DEF Drawn, Init
  <2> QED BY <1>1, <2>2 DEF Tickets, Init
<1>6. Batches
  BY DEF Batches, Init
<1>7. Returned
  <2>1. out = [i \in 1..Len(out) |-> i]
    BY <1>3
  <2>2. Mark = 0
    BY <1>1 DEF Mark, Init
  <2>3. MinOf(max, 0) = 0
    BY <1>1 DEF MinOf
  <2> QED BY <1>3, <2>1, <2>2, <2>3 DEF Returned, Init, Copying
<1>8. PanicNeedsFailure
  BY DEF PanicNeedsFailure, Init
<1> QED BY <1>2, <1>4, <1>5, <1>6, <1>7, <1>8 DEF IInv, Healthy

\* Steps that leave the collector alone.
LEMMA CollectorFrame ==
    ASSUME IInv, max' = max, UNCHANGED collector, out' = out
    PROVE  /\ TotalBatches' = TotalBatches
           /\ Mark' = Mark /\ (Returned => Returned')
           /\ kpc' = kpc /\ cur' = cur /\ ck' = ck /\ ring' = ring /\ sent' = sent
           /\ flushed' = flushed /\ Copying' = Copying
<1>1. kpc' = kpc /\ cur' = cur /\ ck' = ck /\ ring' = ring /\ sent' = sent /\ flushed' = flushed
  BY DEF collector
<1>2. TotalBatches' = TotalBatches /\ \A n : BatchPoints(n)' = BatchPoints(n)
  BY SameBatches
<1>3. Mark' = Mark /\ Copying' = Copying
  BY <1>1 DEF Mark, Copying
<1> QED BY <1>1, <1>2, <1>3 DEF Returned

\* Steps that leave the workers and the tickets alone.
LEMMA WorkerFrame ==
    ASSUME IInv, max' = max, next' = next, UNCHANGED <<worker, counter>>
    PROVE  /\ Busy' = Busy /\ Drawn' = Drawn /\ wpc' = wpc /\ wb' = wb
           /\ counting' = counting /\ left' = left
  BY DEF worker, counter, Busy, Drawn

\* The filler alone, no failure.
LEMMA FillStep ==
    ASSUME IInv, FillRead \/ FillExit PROVE IInv'
<1>1. /\ max' = max /\ next' = next /\ UNCHANGED <<worker, counter>> /\ UNCHANGED collector
      /\ batchesClosed' = batchesClosed /\ closed' = closed /\ out' = out /\ rst' = rst
      /\ panicked' = panicked /\ fpc = "read" /\ fpc' \in {"submit", "exited"}
      /\ (fpc' = "submit" => next < TotalBatches)
  BY DEF FillRead, FillExit, reader
<1>2. /\ Busy' = Busy /\ Drawn' = Drawn /\ wpc' = wpc /\ wb' = wb
      /\ counting' = counting /\ left' = left
  BY <1>1, WorkerFrame
<1>3. /\ TotalBatches' = TotalBatches /\ Mark' = Mark /\ (Returned => Returned')
      /\ kpc' = kpc /\ cur' = cur /\ ck' = ck /\ ring' = ring /\ sent' = sent
      /\ flushed' = flushed /\ Copying' = Copying
  BY <1>1, CollectorFrame
<1>4. TypeOK'
  BY <1>1, <1>2, <1>3 DEF IInv, TypeOK
<1>5. Progress'
  BY <1>1, <1>2, <1>3 DEF IInv, Progress
<1>6. Failed' <=> Failed
  BY <1>1 DEF Failed
<1>7. (Tickets => Tickets') /\ (Batches => Batches')
  BY <1>1, <1>2, <1>3 DEF Tickets, Batches
<1> QED BY <1>1, <1>3, <1>4, <1>5, <1>6, <1>7 DEF IInv, Healthy, PanicNeedsFailure

\* A failed read: the filler is the first to close batches.
LEMMA FillFailStep ==
    ASSUME IInv, FillFail PROVE IInv' /\ ~Failed /\ Failed' /\ ~panicked'
<1>1. /\ max' = max /\ next' = next /\ UNCHANGED <<worker, counter>> /\ UNCHANGED collector
      /\ closed' = closed /\ out' = out /\ rst' = rst
      /\ ~panicked /\ fpc = "read" /\ fpc' = "cancel" /\ next < TotalBatches
  BY DEF FillFail, reader, Running
<1>2. ~Failed /\ ~closed
  BY <1>1 DEF Failed, IInv, Progress
<1>3. ~batchesClosed
  <2>1. Drawn <= next /\ Drawn \in Int
    BY BusyCard DEF IInv
  <2>2. Drawn # TotalBatches
    BY <1>1, <2>1, Basics DEF IInv
  <2> QED BY <1>2, <2>2 DEF IInv, Healthy, Tickets
<1>4. batchesClosed' = TRUE /\ panicked' = panicked
  BY <1>3 DEF FillFail
<1>5. /\ TotalBatches' = TotalBatches /\ Mark' = Mark
      /\ kpc' = kpc /\ cur' = cur /\ ck' = ck /\ ring' = ring /\ sent' = sent
      /\ flushed' = flushed /\ Copying' = Copying
  BY <1>1, CollectorFrame
<1>6. wpc' = wpc /\ wb' = wb /\ counting' = counting /\ left' = left
  BY <1>1, WorkerFrame
<1>7. TypeOK'
  BY <1>1, <1>4, <1>5, <1>6 DEF IInv, TypeOK
<1>8. Progress'
  BY <1>1, <1>2, <1>5, <1>6 DEF IInv, Progress
<1>9. Failed'
  BY <1>1 DEF Failed
<1> QED BY <1>1, <1>2, <1>4, <1>7, <1>8, <1>9 DEF IInv, Healthy, PanicNeedsFailure

LEMMA FillCancelStep ==
    ASSUME IInv, FillCancel PROVE IInv' /\ Failed /\ Failed'
<1>1. /\ max' = max /\ next' = next /\ UNCHANGED <<worker, counter>> /\ UNCHANGED collector
      /\ batchesClosed' = batchesClosed /\ closed' = TRUE /\ out' = out /\ rst' = rst
      /\ panicked' = panicked /\ fpc = "cancel" /\ fpc' = "exited"
  BY DEF FillCancel, reader
<1>2. /\ TotalBatches' = TotalBatches /\ Mark' = Mark
      /\ kpc' = kpc /\ cur' = cur /\ ck' = ck /\ ring' = ring /\ sent' = sent
      /\ flushed' = flushed /\ Copying' = Copying
  BY <1>1, CollectorFrame
<1>3. wpc' = wpc /\ wb' = wb /\ counting' = counting /\ left' = left
  BY <1>1, WorkerFrame
<1>4. TypeOK'
  BY <1>1, <1>2, <1>3 DEF IInv, TypeOK
<1>5. Progress'
  BY <1>1, <1>2, <1>3 DEF IInv, Progress
<1>6. Failed /\ Failed'
  BY <1>1 DEF Failed
<1> QED BY <1>4, <1>5, <1>6 DEF IInv, Healthy, PanicNeedsFailure

\* One batch to one idle worker.
LEMMA SubmitStep ==
    ASSUME IInv, NEW w \in Workers, Submit(w) PROVE IInv' /\ (Failed' <=> Failed)
<1>1. /\ max' = max /\ next' = next + 1 /\ UNCHANGED collector
      /\ counting' = counting /\ left' = left
      /\ batchesClosed' = batchesClosed /\ closed' = closed /\ out' = out /\ rst' = rst
      /\ panicked' = panicked /\ fpc = "submit" /\ fpc' = "read" /\ wpc[w] = "idle"
      /\ wpc' = [wpc EXCEPT ![w] = "deliver"] /\ wb' = [wb EXCEPT ![w] = next]
      /\ next < TotalBatches
  BY DEF Submit, reader, counter, IInv, Progress
<1>2. /\ TotalBatches' = TotalBatches /\ Mark' = Mark /\ (Returned => Returned')
      /\ kpc' = kpc /\ cur' = cur /\ ck' = ck /\ ring' = ring /\ sent' = sent
      /\ flushed' = flushed /\ Copying' = Copying
  BY <1>1, CollectorFrame
<1>3. /\ wpc' \in [Workers -> {"idle", "deliver", "ticket", "close"}] /\ wb' \in [Workers -> Int]
      /\ wpc'[w] = "deliver" /\ wb'[w] = next
      /\ \A v \in Workers \ {w} : wpc'[v] = wpc[v] /\ wb'[v] = wb[v]
  BY <1>1, Basics DEF IInv, TypeOK
<1>4. TypeOK'
  <2>1. next' \in 0..TotalBatches
    BY <1>1, Basics DEF IInv
  <2> QED BY <1>1, <1>2, <1>3, <2>1 DEF IInv, TypeOK
<1>5. Progress'
  <2>1. \A v \in Workers : wpc'[v] = "deliver" => wb'[v] \in Nat
    BY <1>3, Basics DEF IInv, Progress
  <2> QED BY <1>1, <1>2, <2>1 DEF IInv, Progress
<1>6. Failed' <=> Failed
  BY <1>1 DEF Failed
<1>7. Drawn' = Drawn
  <2>1. Busy' = Busy \cup {w} /\ w \notin Busy
    BY <1>1, <1>3 DEF Busy
  <2>2. Cardinality(Busy') = Cardinality(Busy) + 1
    BY <2>1, FS_AddElement, BusyCard DEF IInv
  <2>3. Cardinality(Busy) \in Nat /\ next \in Nat
    BY BusyCard, Basics DEF IInv
  <2> QED BY <1>1, <2>2, <2>3 DEF Drawn
<1>8. Tickets => Tickets'
  BY <1>1, <1>2, <1>3, <1>7 DEF Tickets
<1>9. Batches => Batches'
  <2> SUFFICES ASSUME Batches PROVE Batches'
    OBVIOUS
  <2>1. next \in Nat /\ sent \in Nat
    BY Basics DEF IInv, TypeOK
  <2>2. \A n \in 0..(next' - 1) :
          \/ n < sent' \/ n \in ring' \/ (kpc' = "head" /\ n = sent')
          \/ \E v \in Workers : wpc'[v] = "deliver" /\ wb'[v] = n
    <3> TAKE n \in 0..(next' - 1)
    <3>1. CASE n = next
      BY <1>3, <3>1
    <3>2. CASE n # next
      <4>1. n \in 0..(next - 1)
        BY <1>1, <2>1, <3>2
      <4> QED BY <1>1, <1>2, <1>3, <4>1 DEF Batches
    <3> QED BY <3>1, <3>2
  <2>3. sent <= next' /\ ring \subseteq sent..(next' - 1) /\ next \notin ring
    BY <1>1, <2>1 DEF Batches
  <2>4. \A v \in Workers : wpc'[v] = "deliver" =>
          /\ wb'[v] \in sent..(next' - 1) /\ wb'[v] \notin ring
          /\ kpc = "head" => wb'[v] # sent
          /\ \A u \in Workers \ {v} : wpc'[u] = "deliver" => wb'[u] # wb'[v]
    <3> SUFFICES ASSUME NEW v \in Workers, wpc'[v] = "deliver"
                 PROVE  /\ wb'[v] \in sent..(next' - 1) /\ wb'[v] \notin ring
                        /\ kpc = "head" => wb'[v] # sent
                        /\ \A u \in Workers \ {v} : wpc'[u] = "deliver" => wb'[u] # wb'[v]
      OBVIOUS
    <3>1. \A u \in Workers \ {w} : wpc'[u] = "deliver" =>
             wb'[u] \in sent..(next - 1) /\ wb'[u] # next
      BY <1>3, <2>1 DEF Batches
    <3>2. CASE v = w
      BY <1>1, <1>3, <2>1, <2>3, <3>1, <3>2 DEF Batches
    <3>3. CASE v # w
      <4>1. wpc[v] = "deliver" /\ wb'[v] = wb[v] /\ wb[v] \in sent..(next - 1)
        BY <1>3, <3>3 DEF Batches
      <4>2. wb[v] \in sent..(next' - 1)
        BY <1>1, <2>1, <4>1
      <4> QED BY <1>3, <3>1, <3>3, <4>1, <4>2 DEF Batches
    <3> QED BY <3>2, <3>3
  <2>5. kpc' = "head" => sent' < next' /\ sent' \notin ring'
    BY <1>1, <1>2, <2>1 DEF Batches
  <2>6. kpc' = "flush" => ring' = sent'..(TotalBatches' - 1) /\ cur' < TotalBatches'
    BY <1>2 DEF Batches
  <2> QED BY <1>2, <2>2, <2>3, <2>4, <2>5, <2>6 DEF Batches
<1> QED BY <1>1, <1>2, <1>4, <1>5, <1>6, <1>8, <1>9 DEF IInv, Healthy, PanicNeedsFailure

\* A batch reaches the collector.
LEMMA DeliverStep ==
    ASSUME IInv, NEW w \in Workers, Deliver(w) PROVE IInv' /\ (Failed' <=> Failed)
<1> DEFINE n == wb[w]
<1>1. /\ max' = max /\ fpc' = fpc /\ next' = next /\ wb' = wb /\ counting' = counting
      /\ left' = left /\ batchesClosed' = batchesClosed /\ closed' = closed /\ sent' = sent
      /\ flushed' = flushed /\ out' = out /\ rst' = rst /\ panicked' = panicked
      /\ wpc[w] = "deliver" /\ wpc' = [wpc EXCEPT ![w] = "ticket"] /\ kpc = "recv" /\ ck' = 0
      /\ Receive(n)
  BY DEF Deliver, filler, counter, reader
<1>2. /\ wpc' \in [Workers -> {"idle", "deliver", "ticket", "close"}] /\ wpc'[w] = "ticket"
      /\ \A v \in Workers \ {w} : wpc'[v] = wpc[v]
      /\ n \in Int
  BY <1>1 DEF IInv, TypeOK
<1>3. TotalBatches' = TotalBatches /\ \A k : BatchPoints(k)' = BatchPoints(k)
  BY <1>1, SameBatches
<1>4. /\ max \in Nat /\ TotalBatches \in Nat /\ next \in Nat /\ next <= TotalBatches
      /\ sent \in Nat /\ BatchSize \in Nat \ {0} /\ sent * BatchSize \in Nat
      /\ TypeOK
  BY Basics, BatchArith DEF IInv, TypeOK
<1>5. \/ n = sent /\ kpc' = "head" /\ cur' = sent /\ ring' = ring
      \/ n # sent /\ ring' = ring \cup {n} /\ sent \in ring /\ kpc' = "ring" /\ cur' = sent
      \/ n # sent /\ ring' = ring \cup {n} /\ sent \notin ring' /\ kpc' = "recv" /\ cur' = cur
  BY <1>1 DEF Receive
<1>6. Mark = sent * BatchSize /\ Mark' = sent * BatchSize
  <2>1. sent * BatchSize + 0 = sent * BatchSize
    BY <1>4
  <2> QED BY <1>1, <1>5, <2>1 DEF Mark
<1>7. Failed' <=> Failed
  BY <1>1 DEF Failed
<1>8. Progress'
  BY <1>1, <1>3, <1>4, <1>5, <1>6 DEF IInv, Progress, Copying
<1>9. n \in Nat => TypeOK'
  <2>1. n \in Nat => ring' \subseteq Nat
    BY <1>5 DEF IInv, TypeOK
  <2>2. cur' \in Int /\ ck' \in Nat /\ kpc' \in {"recv", "head", "ring", "flush", "exited"}
    BY <1>1, <1>4, <1>5 DEF TypeOK
  <2> QED BY <1>1, <1>2, <1>3, <2>1, <2>2 DEF IInv, TypeOK
<1>10. Tickets => Tickets'
  <2>1. Busy' = Busy
    BY <1>1, <1>2 DEF Busy
  <2>2. Drawn' = Drawn
    BY <1>1, <2>1 DEF Drawn
  <2> QED BY <1>1, <1>2, <1>3, <2>2 DEF Tickets
<1>11. Batches => Batches'
  <2> SUFFICES ASSUME Batches PROVE Batches'
    OBVIOUS
  <2>1. n \in sent..(next - 1) /\ n \notin ring
    BY <1>1 DEF Batches
  <2>2. ring \subseteq sent..(next - 1)
    BY DEF Batches
  <2>3. ring' \subseteq sent..(next - 1)
    BY <1>5, <2>1, <2>2
  <2>4. sent \in ring => sent < next
    BY <1>4, <2>2
  <2>5. \A k \in 0..(next - 1) :
          \/ k < sent \/ k \in ring' \/ (kpc' = "head" /\ k = sent)
          \/ \E v \in Workers : wpc'[v] = "deliver" /\ wb[v] = k
    <3> TAKE k \in 0..(next - 1)
    <3>1. CASE k = n
      BY <1>5, <3>1
    <3>2. CASE k # n
      <4>1. \/ k < sent \/ k \in ring \/ \E v \in Workers : wpc[v] = "deliver" /\ wb[v] = k
        BY <1>1 DEF Batches
      <4> QED BY <1>2, <1>5, <3>2, <4>1
    <3> QED BY <3>1, <3>2
  <2>6. \A v \in Workers : wpc'[v] = "deliver" =>
          /\ wb[v] \in sent..(next - 1) /\ wb[v] \notin ring'
          /\ kpc' = "head" => wb[v] # sent
          /\ \A u \in Workers \ {v} : wpc'[u] = "deliver" => wb[u] # wb[v]
    <3> SUFFICES ASSUME NEW v \in Workers, wpc'[v] = "deliver"
                 PROVE  /\ wb[v] \in sent..(next - 1) /\ wb[v] \notin ring'
                        /\ kpc' = "head" => wb[v] # sent
                        /\ \A u \in Workers \ {v} : wpc'[u] = "deliver" => wb[u] # wb[v]
      OBVIOUS
    <3>1. v # w /\ wpc[v] = "deliver"
      BY <1>2
    <3>2. wb[v] # n /\ wb[v] \in sent..(next - 1) /\ wb[v] \notin ring
      BY <1>1, <3>1 DEF Batches
    <3>3. \A u \in Workers \ {v} : wpc'[u] = "deliver" => wb[u] # wb[v]
      BY <1>2, <3>1 DEF Batches
    <3> QED BY <1>5, <3>2, <3>3
  <2>7. kpc' = "head" => sent < next /\ sent \notin ring'
    BY <1>4, <1>5, <2>1
  <2>8. (kpc' = "ring" => sent \in ring') /\ kpc' # "flush"
    BY <1>5
  <2>9. sent <= next
    BY DEF Batches
  <2> QED BY <1>1, <2>3, <2>5, <2>6, <2>7, <2>8, <2>9 DEF Batches
<1>12. Batches /\ Returned => Returned'
  <2> SUFFICES ASSUME Batches, Returned PROVE Returned'
    OBVIOUS
  <2>1. Len(out) = MinOf(max, sent * BatchSize) /\ out = [i \in 1..Len(out) |-> i]
    BY <1>1, <1>6 DEF Returned
  <2>2. kpc' # "recv" => sent < TotalBatches
    <3>1. n \in sent..(next - 1) /\ ring \subseteq sent..(next - 1)
      BY <1>1 DEF Batches
    <3> QED BY <1>4, <1>5, <3>1
  <2>3. kpc' # "recv" => Len(out) = sent * BatchSize
    <3>1. kpc' # "recv" => sent * BatchSize < max
      BY <1>4, <2>2, BatchArith
    <3> QED BY <1>4, <2>1, <3>1 DEF MinOf
  <2>4. Len(BatchPoints(sent)) \in Nat
    BY <1>4, Points
  <2>5. kpc' # "recv" => ck' <= Len(BatchPoints(cur)')
    <3>1. kpc' # "recv" => cur' = sent
      BY <1>5
    <3>2. \A k : k = sent => Len(BatchPoints(k)') \in Nat
      BY <1>3, <2>4
    <3>3. BatchPoints(cur)' = [j \in 1..MinOf(BatchSize, max' - cur' * BatchSize) |-> cur' * BatchSize + j]
      BY DEF BatchPoints
    <3>4. kpc' # "recv" => BatchPoints(cur)' = BatchPoints(sent)
      BY <1>1, <3>1, <3>3 DEF BatchPoints
    <3> QED BY <1>1, <2>4, <3>4
  <2>6. kpc' # "exited"
    BY <1>5
  <2> QED BY <1>1, <1>6, <2>1, <2>3, <2>5, <2>6 DEF Returned, Copying
<1>13. n \in Nat
  BY <1>1 DEF IInv, Progress
<1> QED BY <1>1, <1>7, <1>8, <1>9, <1>10, <1>11, <1>12, <1>13 DEF IInv, Healthy, PanicNeedsFailure

\* A send on the closed channel: only after a failed read.
LEMMA DeliverPanicStep ==
    ASSUME IInv, NEW w \in Workers, DeliverPanic(w) PROVE IInv' /\ Failed /\ Failed'
<1>1. /\ max' = max /\ fpc' = fpc /\ next' = next /\ UNCHANGED <<worker, counter>>
      /\ UNCHANGED collector /\ batchesClosed' = batchesClosed /\ closed' = closed /\ out' = out
      /\ rst' = rst /\ panicked' = TRUE /\ wpc[w] = "deliver" /\ batchesClosed
  BY DEF DeliverPanic, filler, reader
<1>2. Failed
  <2>1. Drawn < next /\ Drawn \in Int
    BY <1>1, BusyCard DEF IInv, Busy
  <2>2. Drawn # TotalBatches
    BY <2>1, Basics DEF IInv
  <2> QED BY <1>1, <2>2 DEF IInv, Healthy, Tickets
<1>3. Failed'
  BY <1>1, <1>2 DEF Failed
<1>4. wpc' = wpc /\ wb' = wb /\ counting' = counting /\ left' = left
  BY <1>1, WorkerFrame
<1>5. /\ TotalBatches' = TotalBatches /\ Mark' = Mark
      /\ kpc' = kpc /\ cur' = cur /\ ck' = ck /\ ring' = ring /\ sent' = sent
      /\ flushed' = flushed /\ Copying' = Copying
  BY <1>1, CollectorFrame
<1>6. TypeOK'
  BY <1>1, <1>4, <1>5 DEF IInv, TypeOK
<1>7. Progress'
  BY <1>1, <1>4, <1>5 DEF IInv, Progress
<1> QED BY <1>2, <1>3, <1>6, <1>7 DEF IInv, Healthy, PanicNeedsFailure

\* A ticket is drawn, or the counter has gone and it reads as the last one.
LEMMA TicketStep ==
    ASSUME IInv, NEW w \in Workers, Ticket(w) \/ TicketClosed(w)
    PROVE  IInv' /\ (Failed' <=> Failed)
<1>1. /\ max' = max /\ fpc' = fpc /\ next' = next /\ wb' = wb /\ UNCHANGED collector
      /\ batchesClosed' = batchesClosed /\ closed' = closed /\ out' = out
      /\ rst' = rst /\ panicked' = panicked /\ wpc[w] = "ticket"
  BY DEF Ticket, TicketClosed, filler, counter, reader
<1>2. \/ /\ counting /\ left' = left - 1 /\ counting' = (left # 1)
         /\ wpc' = [wpc EXCEPT ![w] = IF left = 0 THEN "close" ELSE "idle"]
      \/ /\ ~counting /\ left' = left /\ counting' = counting
         /\ wpc' = [wpc EXCEPT ![w] = "close"]
  BY DEF Ticket, TicketClosed, counter
<1>3. /\ wpc' \in [Workers -> {"idle", "deliver", "ticket", "close"}]
      /\ wpc'[w] = (IF ~counting \/ left = 0 THEN "close" ELSE "idle")
      /\ \A v \in Workers \ {w} : wpc'[v] = wpc[v]
  BY <1>2 DEF IInv, TypeOK
<1>4. /\ TotalBatches' = TotalBatches /\ Mark' = Mark /\ (Returned => Returned')
      /\ kpc' = kpc /\ cur' = cur /\ ck' = ck /\ ring' = ring /\ sent' = sent
      /\ flushed' = flushed /\ Copying' = Copying
  BY <1>1, CollectorFrame
<1>5. TypeOK'
  <2>1. left' \in Int
    BY <1>2 DEF IInv, TypeOK
  <2>2. counting' \in BOOLEAN
    BY <1>2 DEF IInv, TypeOK
  <2> QED BY <1>1, <1>3, <1>4, <2>1, <2>2 DEF IInv, TypeOK
<1>6. \A v \in Workers : wpc'[v] = "deliver" <=> wpc[v] = "deliver"
  BY <1>1, <1>3
<1>7. Progress'
  BY <1>1, <1>4, <1>6 DEF IInv, Progress
<1>8. Failed' <=> Failed
  BY <1>1 DEF Failed
<1>9. /\ Drawn' = Drawn + 1 /\ Drawn < next /\ Drawn \in Int /\ next \in Nat
      /\ TotalBatches \in Nat /\ next <= TotalBatches
  <2>1. Busy' = Busy \ {w} /\ w \in Busy
    BY <1>1, <1>3 DEF Busy
  <2>2. IsFiniteSet(Busy) /\ Cardinality(Busy') = Cardinality(Busy) - 1
    BY <2>1, FS_RemoveElement, BusyCard DEF IInv
  <2>3. Cardinality(Busy) \in Nat /\ next \in Nat /\ Drawn < next /\ Drawn \in Int
    BY <2>1, BusyCard, Basics DEF IInv
  <2> QED BY <1>1, <2>2, <2>3, Basics DEF IInv, Drawn
<1>10. Tickets => Tickets'
  <2> SUFFICES ASSUME Tickets PROVE Tickets'
    OBVIOUS
  <2>1. ~batchesClosed /\ \A v \in Workers : wpc[v] # "close"
    BY <1>9 DEF Tickets
  <2>2. left \in Int /\ counting \in BOOLEAN
    BY DEF IInv, TypeOK
  <2>3. counting' => left' = TotalBatches - 1 - Drawn'
    <3>1. CASE counting
      <4>1. left = TotalBatches - 1 - Drawn /\ left' = left - 1
        BY <1>2, <3>1 DEF Tickets
      <4> QED BY <1>9, <4>1
    <3>2. CASE ~counting
      BY <1>2, <3>2
    <3> QED BY <3>1, <3>2
  <2>4. ~counting' => Drawn' \in {TotalBatches - 1, TotalBatches}
    BY <1>2, <1>9, <2>2 DEF Tickets
  <2>5. wpc'[w] = "close" => Drawn' = TotalBatches
    BY <1>3, <1>9, <2>2 DEF Tickets
  <2>6. \A v \in Workers : wpc'[v] = "close" => v = w
    BY <1>3, <2>1
  <2> QED BY <1>1, <1>4, <2>1, <2>3, <2>4, <2>5, <2>6 DEF Tickets
<1>11. Batches => Batches'
  BY <1>1, <1>4, <1>6 DEF Batches
<1> QED BY <1>1, <1>4, <1>5, <1>7, <1>8, <1>10, <1>11 DEF IInv, Healthy, PanicNeedsFailure

LEMMA CounterCancelStep ==
    ASSUME IInv, CounterCancel PROVE IInv' /\ (Failed' <=> Failed)
<1>1. /\ max' = max /\ fpc' = fpc /\ next' = next /\ wpc' = wpc /\ wb' = wb /\ UNCHANGED collector
      /\ batchesClosed' = batchesClosed /\ closed' = closed /\ out' = out /\ left' = left
      /\ rst' = rst /\ panicked' = panicked /\ counting' = FALSE /\ closed
  BY DEF CounterCancel, filler, worker, reader
<1>2. Failed /\ Failed'
  BY <1>1 DEF Failed
<1>3. /\ TotalBatches' = TotalBatches /\ Mark' = Mark
      /\ kpc' = kpc /\ cur' = cur /\ ck' = ck /\ ring' = ring /\ sent' = sent
      /\ flushed' = flushed /\ Copying' = Copying
  BY <1>1, CollectorFrame
<1>4. TypeOK'
  BY <1>1, <1>3 DEF IInv, TypeOK
<1>5. Progress'
  BY <1>1, <1>3 DEF IInv, Progress
<1> QED BY <1>1, <1>2, <1>4, <1>5 DEF IInv, Healthy, PanicNeedsFailure

\* The last worker closes the channel; that it was closed before needs a
\* failed read.
LEMMA CloseBatchesStep ==
    ASSUME IInv, NEW w \in Workers, CloseBatches(w)
    PROVE  IInv' /\ (Failed' <=> Failed) /\ (panicked' => Failed)
<1>1. /\ max' = max /\ fpc' = fpc /\ next' = next /\ wb' = wb /\ UNCHANGED collector
      /\ counting' = counting /\ left' = left /\ closed' = closed /\ out' = out
      /\ rst' = rst /\ ~panicked /\ wpc[w] = "close" /\ wpc' = [wpc EXCEPT ![w] = "idle"]
  BY DEF CloseBatches, filler, counter, reader, Running
<1>2. /\ wpc' \in [Workers -> {"idle", "deliver", "ticket", "close"}] /\ wpc'[w] = "idle"
      /\ \A v \in Workers \ {w} : wpc'[v] = wpc[v]
  BY <1>1 DEF IInv, TypeOK
<1>3. /\ batchesClosed' = TRUE /\ panicked' \in BOOLEAN
      /\ panicked' => batchesClosed
  BY <1>1 DEF CloseBatches, IInv, TypeOK
<1>4. ~Failed => ~batchesClosed
  BY <1>1 DEF IInv, Healthy, Tickets
<1>5. Failed' <=> Failed
  BY <1>1 DEF Failed
<1>6. /\ TotalBatches' = TotalBatches /\ Mark' = Mark /\ (Returned => Returned')
      /\ kpc' = kpc /\ cur' = cur /\ ck' = ck /\ ring' = ring /\ sent' = sent
      /\ flushed' = flushed /\ Copying' = Copying
  BY <1>1, CollectorFrame
<1>7. TypeOK'
  BY <1>1, <1>2, <1>3, <1>6 DEF IInv, TypeOK
<1>8. \A v \in Workers : wpc'[v] = "deliver" <=> wpc[v] = "deliver"
  BY <1>1, <1>2
<1>9. Progress'
  BY <1>1, <1>6, <1>8 DEF IInv, Progress
<1>10. Drawn' = Drawn
  <2>1. Busy' = Busy
    BY <1>1, <1>2 DEF Busy
  <2> QED BY <1>1, <2>1 DEF Drawn
<1>11. Tickets => Tickets'
  <2> SUFFICES ASSUME Tickets PROVE Tickets'
    OBVIOUS
  <2>1. Drawn = TotalBatches /\ \A v \in Workers \ {w} : wpc[v] # "close"
    BY <1>1 DEF Tickets
  <2>2. \A v \in Workers : wpc'[v] # "close"
    BY <1>2, <2>1
  <2> QED BY <1>1, <1>6, <1>10, <2>1, <2>2 DEF Tickets
<1>12. Batches => Batches'
  BY <1>1, <1>6, <1>8 DEF Batches
<1> QED BY <1>3, <1>4, <1>5, <1>6, <1>7, <1>9, <1>11, <1>12 DEF IInv, Healthy, PanicNeedsFailure

\* Read's own steps.
LEMMA ReadStep ==
    ASSUME IInv, ReadEOF \/ ReadUnexpectedEOF \/ Abandon \/ UNCHANGED vars
    PROVE  IInv' /\ (Failed' <=> Failed)
<1>1. /\ max' = max /\ fpc' = fpc /\ next' = next /\ UNCHANGED <<worker, counter>>
      /\ UNCHANGED collector /\ batchesClosed' = batchesClosed /\ closed' = closed /\ out' = out
      /\ panicked' = panicked
  BY DEF ReadEOF, ReadUnexpectedEOF, Abandon, vars, filler, reader
<1>2. rst' \in {"reading", "eof", "unexpectedEOF", "abandoned"}
  BY DEF ReadEOF, ReadUnexpectedEOF, Abandon, vars, reader, IInv, TypeOK
<1>3. /\ Busy' = Busy /\ Drawn' = Drawn /\ wpc' = wpc /\ wb' = wb
      /\ counting' = counting /\ left' = left
  BY <1>1, WorkerFrame
<1>4. /\ TotalBatches' = TotalBatches /\ Mark' = Mark /\ (Returned => Returned')
      /\ kpc' = kpc /\ cur' = cur /\ ck' = ck /\ ring' = ring /\ sent' = sent
      /\ flushed' = flushed /\ Copying' = Copying
  BY <1>1, CollectorFrame
<1>5. TypeOK'
  BY <1>1, <1>2, <1>3, <1>4 DEF IInv, TypeOK
<1>6. Progress'
  BY <1>1, <1>3, <1>4 DEF IInv, Progress
<1>7. Failed' <=> Failed
  BY <1>1 DEF Failed
<1>8. (Tickets => Tickets') /\ (Batches => Batches')
  BY <1>1, <1>3, <1>4 DEF Tickets, Batches
<1> QED BY <1>1, <1>4, <1>5, <1>6, <1>7, <1>8 DEF IInv, Healthy, PanicNeedsFailure

\* The point that Read gets next.
LEMMA NextPoint ==
    ASSUME IInv, CopyPoint
    PROVE  /\ CurPoints[ck + 1] = Mark + 1 /\ Mark + 1 \in 1..max /\ Mark \in Nat
           /\ ck + 1 <= Len(BatchPoints(cur)) /\ ck + 1 <= BatchSize
<1>1. Copying /\ ck < Len(CurPoints) /\ ck \in Nat /\ max \in Nat
  BY Basics DEF CopyPoint, IInv, TypeOK
<1>2. cur \in Nat /\ cur * BatchSize \in Nat
  <2>1. sent \in Nat /\ flushed \in Nat /\ (cur = sent \/ cur = sent + flushed)
    BY <1>1 DEF IInv, TypeOK, Progress, Copying
  <2>2. cur \in Nat
    BY <2>1
  <2> QED BY <1>1, <2>2, BatchArith
<1>3. CurPoints = BatchPoints(cur)
  <2>1. CASE kpc = "flush" /\ cur \notin ring
    <3>1. Len(CurPoints) = 0
      BY <2>1 DEF CurPoints
    <3> QED BY <1>1, <3>1
  <2> QED BY <2>1 DEF CurPoints
<1>4. /\ Len(BatchPoints(cur)) \in Nat /\ Len(BatchPoints(cur)) <= BatchSize
      /\ \A j \in 1..Len(BatchPoints(cur)) :
           BatchPoints(cur)[j] = cur * BatchSize + j /\ cur * BatchSize + j \in 1..max
  BY <1>1, <1>2, Points
<1>5. Mark = cur * BatchSize + ck
  BY <1>1 DEF Mark, Copying
<1>6. ck + 1 \in 1..Len(BatchPoints(cur)) /\ BatchSize \in Nat
  BY <1>1, <1>3, <1>4, Basics DEF IInv
<1>7. cur * BatchSize + (ck + 1) = Mark + 1
  BY <1>1, <1>2, <1>5
<1> QED BY <1>1, <1>2, <1>3, <1>4, <1>5, <1>6, <1>7

LEMMA CopyPointStep ==
    ASSUME IInv, CopyPoint PROVE IInv' /\ (Failed' <=> Failed)
<1>1. /\ max' = max /\ fpc' = fpc /\ next' = next /\ UNCHANGED <<worker, counter>>
      /\ batchesClosed' = batchesClosed /\ closed' = closed /\ kpc' = kpc /\ cur' = cur
      /\ ring' = ring /\ sent' = sent /\ flushed' = flushed /\ rst' = rst /\ panicked' = panicked
      /\ out' = Append(out, CurPoints[ck + 1]) /\ ck' = ck + 1 /\ Copying
  BY DEF CopyPoint, filler
<1>2. /\ CurPoints[ck + 1] = Mark + 1 /\ Mark + 1 \in 1..max /\ Mark \in Nat
      /\ ck + 1 <= Len(BatchPoints(cur)) /\ ck + 1 <= BatchSize
  BY NextPoint
<1>3. /\ Busy' = Busy /\ Drawn' = Drawn /\ wpc' = wpc /\ wb' = wb
      /\ counting' = counting /\ left' = left
  BY <1>1, WorkerFrame
<1>4. TotalBatches' = TotalBatches /\ BatchPoints(cur)' = BatchPoints(cur)
  BY <1>1 DEF TotalBatches, BatchPoints
<1>5. /\ ck \in Nat /\ out \in Seq(Nat) /\ Len(out) \in Nat /\ out' \in Seq(Nat)
      /\ Len(out') = Len(out) + 1
      /\ \A i \in 1..Len(out') : out'[i] = IF i = Len(out) + 1 THEN Mark + 1 ELSE out[i]
  BY <1>1, <1>2 DEF IInv, TypeOK
<1>6. Mark' = Mark + 1 /\ (Copying' <=> Copying) /\ kpc # "recv" /\ kpc # "exited"
  <2>1. kpc # "recv" /\ kpc # "exited"
    BY <1>1 DEF Copying
  <2>2. Mark = cur * BatchSize + ck /\ Mark' = cur * BatchSize + (ck + 1)
    BY <1>1, <2>1 DEF Mark
  <2>3. cur * BatchSize \in Int
    BY Basics DEF IInv, TypeOK
  <2> QED BY <1>1, <1>5, <2>1, <2>2, <2>3 DEF Copying
<1>7. TypeOK'
  BY <1>1, <1>3, <1>4, <1>5 DEF IInv, TypeOK
<1>8. Progress'
  <2>1. \A i \in 1..Len(out') : out'[i] <= Mark'
    <3> TAKE i \in 1..Len(out')
    <3>1. CASE i = Len(out) + 1
      BY <1>2, <1>5, <1>6, <3>1
    <3>2. CASE i # Len(out) + 1
      <4>1. i \in 1..Len(out) /\ out[i] \in Nat /\ out'[i] = out[i]
        BY <1>5, <3>2
      <4>2. out[i] <= Mark
        BY <1>6, <4>1 DEF IInv, Progress
      <4> QED BY <1>2, <1>6, <4>1, <4>2
    <3> QED BY <3>1, <3>2
  <2> QED BY <1>1, <1>2, <1>3, <1>4, <1>6, <2>1 DEF IInv, Progress
<1>9. Failed' <=> Failed
  BY <1>1 DEF Failed
<1>10. (Tickets => Tickets') /\ (Batches => Batches')
  BY <1>1, <1>3, <1>4 DEF Tickets, Batches
<1>11. Returned => Returned'
  <2> SUFFICES ASSUME Returned PROVE Returned'
    OBVIOUS
  <2>1. Len(out) = Mark /\ out = [i \in 1..Len(out) |-> i]
    BY <1>1 DEF Returned
  <2>2. \A i \in 1..Len(out') : out'[i] = i
    BY <1>5, <2>1
  <2>3. out' = [i \in 1..Len(out') |-> i]
    BY <1>5, <2>2
  <2> QED BY <1>1, <1>2, <1>4, <1>5, <1>6, <2>1, <2>3 DEF Returned
<1> QED BY <1>1, <1>7, <1>8, <1>9, <1>10, <1>11 DEF IInv, Healthy, PanicNeedsFailure

\* What a complete copyOut of a batch of the stream has returned.
LEMMA CopiedAll ==
    ASSUME TypeOK, Progress, ~Failed, Batches, Returned, CopyReturn
    PROVE  /\ cur \in Nat /\ cur < TotalBatches
           /\ Len(out) = MinOf(max, (cur + 1) * BatchSize)
<1>1. Copying /\ ck = Len(CurPoints)
  BY DEF CopyReturn, Failed
<1>2. max \in Nat /\ next \in Nat /\ next <= TotalBatches /\ TotalBatches \in Nat /\ sent \in Nat
  BY Basics DEF TypeOK
<1>3. cur \in Nat /\ cur < TotalBatches /\ CurPoints = BatchPoints(cur)
  <2>1. CASE kpc = "head"
    BY <1>2, <2>1 DEF Progress, Batches, CurPoints
  <2>2. CASE kpc = "ring"
    <3>1. sent \in sent..(next - 1) /\ cur = sent
      BY <2>2 DEF Progress, Batches
    <3> QED BY <1>2, <2>2, <3>1 DEF CurPoints
  <2>3. CASE kpc = "flush"
    <3>1. cur = sent + flushed /\ flushed \in Nat /\ cur < TotalBatches
          /\ ring = sent..(TotalBatches - 1)
      BY <2>3 DEF Progress, Batches, TypeOK
    <3>2. cur \in ring
      BY <1>2, <3>1
    <3> QED BY <1>2, <3>1, <3>2 DEF CurPoints
  <2> QED BY <1>1, <2>1, <2>2, <2>3 DEF Copying
<1>4. Len(out) = cur * BatchSize + Len(BatchPoints(cur))
  BY <1>1, <1>3 DEF Returned, Mark, Copying
<1> QED BY <1>2, <1>3, <1>4, Points

\* The bookkeeping after a copyOut keeps the batches in their places.
LEMMA CopyReturnStep ==
    ASSUME IInv, CopyReturn PROVE IInv' /\ (Failed' <=> Failed)
<1>1. /\ max' = max /\ fpc' = fpc /\ next' = next /\ UNCHANGED <<worker, counter>>
      /\ batchesClosed' = batchesClosed /\ closed' = closed /\ rst' = rst /\ panicked' = panicked
      /\ out' = out /\ ck' = 0 /\ Copying /\ AfterCopy
  BY DEF CopyReturn, filler, reader
<1>2. /\ Busy' = Busy /\ Drawn' = Drawn /\ wpc' = wpc /\ wb' = wb
      /\ counting' = counting /\ left' = left
  BY <1>1, WorkerFrame
<1>3. TotalBatches' = TotalBatches
  BY <1>1, SameBatches
<1>4. /\ max \in Nat /\ TotalBatches \in Nat /\ next \in Nat /\ next <= TotalBatches
      /\ BatchSize \in Nat \ {0} /\ sent \in Nat /\ flushed \in Nat /\ cur \in Nat /\ ck \in Nat
      /\ ck <= BatchSize /\ ring \subseteq Nat /\ Len(out) \in Nat /\ TypeOK /\ Progress
  BY <1>1, Basics DEF IInv, TypeOK, Progress, Copying
<1>5. Failed' <=> Failed
  BY <1>1 DEF Failed
<1>6. Tickets => Tickets'
  BY <1>1, <1>2, <1>3 DEF Tickets
<1>7. (cur + 1) * BatchSize = cur * BatchSize + BatchSize /\ cur * BatchSize \in Nat
      /\ Mark = cur * BatchSize + ck
  BY <1>1, <1>4 DEF Mark, Copying
<1>8. \A i \in 1..Len(out) : out[i] \in Nat /\ out[i] <= (cur + 1) * BatchSize
  <2> TAKE i \in 1..Len(out)
  <2>1. out[i] \in Nat
    BY DEF IInv, TypeOK
  <2>2. out[i] <= Mark
    BY <1>1 DEF IInv, Progress, Copying
  <2> QED BY <1>4, <1>7, <2>1, <2>2
<1>9. ~Failed => Batches /\ Returned
  BY DEF IInv, Healthy
<1>10. ~Failed => cur < TotalBatches /\ Len(out) = MinOf(max, (cur + 1) * BatchSize)
  BY <1>4, <1>9, CopiedAll
<1>11. CASE kpc \in {"head", "ring"}
  <2>1. /\ sent' = sent + 1 /\ flushed' = flushed /\ cur = sent
        /\ \/ kpc' = "recv" /\ cur' = cur
           \/ kpc' = "ring" /\ cur' = sent + 1 /\ kpc = "head" /\ sent + 1 \in ring'
        /\ ring' = IF kpc = "ring" THEN ring \ {sent} ELSE ring
    BY <1>1, <1>11 DEF AfterCopy, IInv, Progress
  <2>2. Mark' = (cur + 1) * BatchSize
    <3>1. (sent + 1) * BatchSize + 0 = (sent + 1) * BatchSize
      BY <1>4
    <3> QED BY <1>1, <2>1, <3>1 DEF Mark
  <2>3. TypeOK'
    <3>1. /\ sent' \in Nat /\ flushed' \in Nat /\ cur' \in Int /\ ck' \in Nat /\ ring' \subseteq Nat
          /\ kpc' \in {"recv", "head", "ring", "flush", "exited"}
      BY <1>1, <1>4, <2>1
    <3> QED BY <1>1, <1>2, <1>3, <3>1 DEF IInv, TypeOK
  <2>4. Progress'
    <3>1. \A i \in 1..Len(out') : out'[i] <= Mark'
      BY <1>1, <1>8, <2>2
    <3>2. flushed' = 0
      <4>1. flushed = 0
        BY <1>11 DEF IInv, Progress
      <4> QED BY <2>1, <4>1
    <3>3. ck' <= BatchSize
      BY <1>1, <1>4
    <3> QED BY <1>1, <1>2, <1>3, <2>1, <3>1, <3>2, <3>3 DEF IInv, Progress
  <2>5. Batches => Batches'
    <3> SUFFICES ASSUME Batches PROVE Batches'
      OBVIOUS
    <3>1. /\ sent < next /\ ring \subseteq sent..(next - 1)
          /\ ring' = ring \ {sent}
          /\ \A v \in Workers : wpc[v] = "deliver" => wb[v] # sent
      <4>1. CASE kpc = "head"
        BY <1>4, <2>1, <4>1 DEF Batches
      <4>2. CASE kpc = "ring"
        <5>1. sent \in ring /\ ring \subseteq sent..(next - 1)
          BY <4>2 DEF Batches
        <5> QED BY <1>4, <2>1, <4>2, <5>1 DEF Batches
      <4> QED BY <1>11, <4>1, <4>2
    <3>2. sent' <= next /\ ring' \subseteq sent'..(next - 1)
      BY <1>4, <2>1, <3>1
    <3>3. \A k \in 0..(next - 1) :
            \/ k < sent' \/ k \in ring'
            \/ \E v \in Workers : wpc[v] = "deliver" /\ wb[v] = k
      <4> TAKE k \in 0..(next - 1)
      <4>1. \/ k < sent \/ k \in ring \/ k = sent
            \/ \E v \in Workers : wpc[v] = "deliver" /\ wb[v] = k
        BY DEF Batches
      <4> QED BY <1>4, <2>1, <3>1, <4>1
    <3>4. \A v \in Workers : wpc[v] = "deliver" =>
            /\ wb[v] \in sent'..(next - 1) /\ wb[v] \notin ring'
            /\ \A u \in Workers \ {v} : wpc[u] = "deliver" => wb[u] # wb[v]
      <4> SUFFICES ASSUME NEW v \in Workers, wpc[v] = "deliver"
                   PROVE  /\ wb[v] \in sent'..(next - 1) /\ wb[v] \notin ring'
                          /\ \A u \in Workers \ {v} : wpc[u] = "deliver" => wb[u] # wb[v]
        OBVIOUS
      <4>1. wb[v] \in sent..(next - 1) /\ wb[v] \notin ring /\ wb[v] # sent
        BY <3>1 DEF Batches
      <4>2. wb[v] \in sent'..(next - 1)
        BY <1>4, <2>1, <4>1
      <4> QED BY <3>1, <4>1, <4>2 DEF Batches
    <3>5. kpc' \in {"recv", "ring"} /\ (kpc' = "ring" => sent' \in ring')
      BY <2>1
    <3> QED BY <1>1, <1>2, <1>3, <3>2, <3>3, <3>4, <3>5 DEF Batches
  <2>6. ~Failed => Returned'
    <3> SUFFICES ASSUME ~Failed PROVE Returned'
      OBVIOUS
    <3>1. Len(out) = MinOf(max, Mark')
      BY <1>10, <2>2
    <3>2. out' = [i \in 1..Len(out') |-> i]
      BY <1>1, <1>9 DEF Returned
    <3>3. kpc' = "ring" => Mark' < max
      <4>1. kpc' = "ring" => cur' \in Nat /\ cur' < TotalBatches /\ cur' = cur + 1
        <5>1. kpc' = "ring" => cur' \in ring /\ cur' = sent + 1
          BY <2>1
        <5>2. ring \subseteq sent..(next - 1)
          BY <1>9 DEF Batches
        <5> QED BY <1>4, <2>1, <5>1, <5>2
      <4> QED BY <1>4, <2>2, <4>1, BatchArith
    <3>4. kpc' = "ring" => Len(out) = Mark'
      BY <1>4, <1>7, <2>2, <3>1, <3>3 DEF MinOf
    <3>5. kpc' = "ring" => 0 <= Len(BatchPoints(cur)')
      <4>1. kpc' = "ring" => cur' = cur + 1 /\ cur + 1 \in Nat
        BY <1>4, <2>1
      <4>2. kpc' = "ring" => BatchPoints(cur)' = BatchPoints(cur + 1)
        BY <1>1, <4>1 DEF BatchPoints
      <4>3. cur + 1 \in Nat => Len(BatchPoints(cur + 1)) \in Nat
        BY <1>4, Points
      <4> QED BY <4>1, <4>2, <4>3
    <3>6. kpc' \in {"recv", "ring"}
      BY <2>1
    <3> QED BY <1>1, <3>1, <3>2, <3>4, <3>5, <3>6 DEF Returned, Copying
  <2> QED BY <1>1, <1>5, <1>6, <1>9, <2>3, <2>4, <2>5, <2>6 DEF IInv, Healthy, PanicNeedsFailure
<1>12. CASE kpc = "flush"
  <2>1. /\ sent' = sent /\ flushed' = flushed + 1 /\ cur = sent + flushed /\ ring' = ring
        /\ IF flushed + 1 < Cardinality(ring)
           THEN cur' = sent + flushed + 1 /\ kpc' = "flush"
           ELSE kpc' = "exited" /\ cur' = cur
    BY <1>1, <1>12 DEF AfterCopy, IInv, Progress
  <2>2. kpc' = "flush" => Mark' = (cur + 1) * BatchSize /\ cur' = cur + 1
    <3>1. kpc' = "flush" => cur' = cur + 1
      BY <1>4, <2>1
    <3>2. (cur + 1) * BatchSize + 0 = (cur + 1) * BatchSize
      BY <1>4
    <3> QED BY <1>1, <3>1, <3>2 DEF Mark
  <2>3. TypeOK'
    <3>1. /\ sent' \in Nat /\ flushed' \in Nat /\ cur' \in Int /\ ck' \in Nat /\ ring' \subseteq Nat
          /\ kpc' \in {"recv", "head", "ring", "flush", "exited"}
      BY <1>1, <1>4, <2>1
    <3> QED BY <1>1, <1>2, <1>3, <3>1 DEF IInv, TypeOK
  <2>4. Progress'
    <3>1. kpc' # "exited" => \A i \in 1..Len(out') : out'[i] <= Mark'
      BY <1>1, <1>8, <2>1, <2>2
    <3>2. kpc' = "flush" => cur' = sent' + flushed'
      BY <1>4, <2>1
    <3>3. ck' <= BatchSize /\ kpc' \in {"flush", "exited"}
      BY <1>1, <1>4, <2>1
    <3> QED BY <1>1, <1>2, <1>3, <3>1, <3>2, <3>3 DEF IInv, Progress
  <2>5. ASSUME ~Failed
        PROVE  /\ ring = sent..(TotalBatches - 1) /\ Cardinality(ring) = TotalBatches - sent
               /\ cur < TotalBatches
    <3>1. ring = sent..(TotalBatches - 1) /\ cur < TotalBatches
      BY <1>9, <1>12, <2>5 DEF Batches
    <3>2. sent < TotalBatches
      BY <1>4, <2>1, <3>1
    <3>3. \A a, b \in Nat : a < b => Cardinality(a..(b - 1)) = b - a
      <4> SUFFICES ASSUME NEW a \in Nat, NEW b \in Nat, a < b
                   PROVE  Cardinality(a..(b - 1)) = b - a
        OBVIOUS
      <4>1. a \in Int /\ b - 1 \in Int
        OBVIOUS
      <4>2. Cardinality(a..(b - 1)) = IF a > b - 1 THEN 0 ELSE (b - 1) - a + 1
        BY <4>1, FS_Interval
      <4> QED BY <4>2
    <3> QED BY <1>4, <3>1, <3>2, <3>3
  <2>6. ~Failed => Batches'
    <3> SUFFICES ASSUME ~Failed PROVE Batches'
      OBVIOUS
    <3>1. kpc' = "flush" => cur' < TotalBatches
      BY <1>4, <2>1, <2>5
    <3>2. kpc' \in {"flush", "exited"} /\ Batches
      BY <1>9, <2>1
    <3> QED BY <1>1, <1>2, <1>3, <1>12, <2>1, <2>5, <3>1, <3>2 DEF Batches
  <2>7. ~Failed => Returned'
    <3> SUFFICES ASSUME ~Failed PROVE Returned'
      OBVIOUS
    <3>1. out' = [i \in 1..Len(out') |-> i]
      BY <1>1, <1>9 DEF Returned
    <3>2. (cur + 1) \in Nat /\ ((cur + 1) < TotalBatches <=> (cur + 1) * BatchSize < max)
      <4>1. \A n \in Nat : n < TotalBatches <=> n * BatchSize < max
        BY <1>4, BatchArith
      <4>2. cur + 1 \in Nat
        BY <1>4
      <4> QED BY <4>1, <4>2
    <3>3. kpc' = "flush" => Len(out) = Mark'
      <4>1. kpc' = "flush" => cur + 1 < TotalBatches
        BY <1>4, <2>1, <2>5
      <4> QED BY <1>4, <1>7, <1>10, <2>2, <3>2, <4>1 DEF MinOf
    <3>4. kpc' = "exited" => Len(out) = max
      <4>1. kpc' = "exited" => ~(cur + 1 < TotalBatches)
        BY <1>4, <2>1, <2>5
      <4> QED BY <1>4, <1>7, <1>10, <3>2, <4>1 DEF MinOf
    <3>5. kpc' = "flush" => 0 <= Len(BatchPoints(cur)')
      <4>1. kpc' = "flush" => BatchPoints(cur)' = BatchPoints(cur + 1)
        BY <1>1, <2>2 DEF BatchPoints
      <4>2. Len(BatchPoints(cur + 1)) \in Nat
        BY <1>4, <3>2, Points
      <4> QED BY <4>1, <4>2
    <3>6. kpc' \in {"flush", "exited"}
      BY <2>1
    <3> QED BY <1>1, <3>1, <3>3, <3>4, <3>5, <3>6 DEF Returned, Copying
  <2> QED BY <1>1, <1>5, <1>6, <2>3, <2>4, <2>6, <2>7 DEF IInv, Healthy, PanicNeedsFailure
<1> QED BY <1>1, <1>11, <1>12 DEF Copying

\* The final flush: on a stream that did not fail the ring holds exactly the
\* batches that are left.
LEMMA StartFlushStep ==
    ASSUME IInv, StartFlush PROVE IInv' /\ (Failed' <=> Failed)
<1>1. /\ max' = max /\ fpc' = fpc /\ next' = next /\ UNCHANGED <<worker, counter>>
      /\ batchesClosed' = batchesClosed /\ closed' = closed /\ rst' = rst /\ panicked' = panicked
      /\ out' = out /\ ck' = 0 /\ kpc = "recv" /\ batchesClosed
      /\ ring' = ring /\ sent' = sent /\ flushed' = flushed
      /\ IF ring = {} THEN kpc' = "exited" /\ cur' = cur ELSE kpc' = "flush" /\ cur' = sent
  BY DEF StartFlush, filler, reader
<1>2. /\ Busy' = Busy /\ Drawn' = Drawn /\ wpc' = wpc /\ wb' = wb
      /\ counting' = counting /\ left' = left
  BY <1>1, WorkerFrame
<1>3. TotalBatches' = TotalBatches
  BY <1>1, SameBatches
<1>4. /\ max \in Nat /\ TotalBatches \in Nat /\ next \in Nat /\ next <= TotalBatches
      /\ BatchSize \in Nat \ {0} /\ sent \in Nat /\ flushed = 0 /\ sent * BatchSize \in Nat
      /\ (sent < TotalBatches <=> sent * BatchSize < max)
  BY <1>1, Basics, BatchArith DEF IInv, TypeOK, Progress
<1>5. Mark = sent * BatchSize /\ (kpc' = "flush" => Mark' = sent * BatchSize)
  <2>1. sent * BatchSize + 0 = sent * BatchSize
    BY <1>4
  <2> QED BY <1>1, <2>1 DEF Mark
<1>6. TypeOK'
  <2>1. cur' \in Int /\ ck' \in Nat /\ kpc' \in {"recv", "head", "ring", "flush", "exited"}
    BY <1>1, <1>4 DEF IInv, TypeOK
  <2> QED BY <1>1, <1>2, <1>3, <2>1 DEF IInv, TypeOK
<1>7. Progress'
  <2>1. kpc' = "flush" => cur' = sent' + flushed'
    BY <1>1, <1>4
  <2>2. kpc' \in {"flush", "exited"} /\ ck' <= BatchSize
    BY <1>1, <1>4
  <2>3. kpc' = "flush" => Mark' = Mark
    BY <1>5
  <2> QED BY <1>1, <1>2, <1>3, <2>1, <2>2, <2>3 DEF IInv, Progress
<1>8. Failed' <=> Failed
  BY <1>1 DEF Failed
<1>9. Tickets => Tickets'
  BY <1>1, <1>2, <1>3 DEF Tickets
<1>10. ASSUME ~Failed PROVE Batches' /\ Returned'
  <2>1. Tickets /\ Batches /\ Returned
    BY <1>10 DEF IInv, Healthy
  <2>2. next = TotalBatches /\ Busy = {}
    <3>1. Drawn = TotalBatches
      BY <1>1, <2>1 DEF Tickets
    <3> QED BY <1>4, <3>1, BusyCard DEF IInv
  <2>3. \A v \in Workers : wpc[v] # "deliver"
    BY <2>2 DEF Busy
  <2>4. ring = sent..(TotalBatches - 1) /\ sent <= TotalBatches
    <3>1. ring \subseteq sent..(TotalBatches - 1) /\ sent <= TotalBatches
      BY <2>1, <2>2 DEF Batches
    <3>2. \A k \in 0..(TotalBatches - 1) : k < sent \/ k \in ring
      BY <1>1, <2>1, <2>2, <2>3 DEF Batches
    <3>3. \A k \in sent..(TotalBatches - 1) : k \in 0..(TotalBatches - 1) /\ ~(k < sent)
      BY <1>4
    <3> QED BY <3>1, <3>2, <3>3
  <2>5. kpc' = "flush" => sent < TotalBatches
    BY <1>1, <1>4, <2>4
  <2>6. kpc' = "exited" => ~(sent < TotalBatches)
    <3>1. sent < TotalBatches => sent \in ring
      BY <1>4, <2>4
    <3> QED BY <1>1, <3>1
  <2>7. Batches'
    <3>1. kpc' \in {"flush", "exited"} /\ (kpc' = "flush" => cur' < TotalBatches)
      BY <1>1, <2>5
    <3> QED BY <1>1, <1>2, <1>3, <2>1, <2>4, <3>1 DEF Batches
  <2>8. Returned'
    <3>1. Len(out) = MinOf(max, sent * BatchSize) /\ out' = [i \in 1..Len(out') |-> i]
      BY <1>1, <1>5, <2>1 DEF Returned
    <3>2. kpc' = "flush" => Len(out) = Mark'
      BY <1>4, <1>5, <2>5, <3>1 DEF MinOf
    <3>3. kpc' = "exited" => Len(out) = max
      BY <1>4, <2>6, <3>1 DEF MinOf
    <3>4. kpc' = "flush" => 0 <= Len(BatchPoints(cur)')
      <4>1. kpc' = "flush" => BatchPoints(cur)' = BatchPoints(sent)
        BY <1>1 DEF BatchPoints
      <4>2. Len(BatchPoints(sent)) \in Nat
        BY <1>4, Points
      <4> QED BY <4>1, <4>2
    <3>5. kpc' \in {"flush", "exited"}
      BY <1>1
    <3> QED BY <1>1, <3>1, <3>2, <3>3, <3>4, <3>5 DEF Returned, Copying
  <2> QED BY <2>7, <2>8
<1> QED BY <1>1, <1>6, <1>7, <1>8, <1>9, <1>10 DEF IInv, Healthy, PanicNeedsFailure

LEMMA NextIInv ==
    ASSUME IInv, [Next]_vars PROVE IInv'
<1>1. CASE Filler
  <2>1. CASE \E w \in Workers : Submit(w)
    BY <2>1, SubmitStep
  <2> QED BY <1>1, <2>1, FillStep, FillFailStep, FillCancelStep DEF Filler
<1>2. CASE \E w \in Workers : Worker(w)
  <2>1. PICK w \in Workers : Worker(w)
    BY <1>2
  <2> QED BY <2>1, DeliverStep, DeliverPanicStep, TicketStep, CloseBatchesStep DEF Worker
<1>3. CASE CounterCancel
  BY <1>3, CounterCancelStep
<1>4. CASE Collector
  BY <1>4, CopyPointStep, CopyReturnStep, StartFlushStep DEF Collector
<1>5. CASE Reader \/ Abandon \/ UNCHANGED vars
  BY <1>5, ReadStep DEF Reader
<1> QED BY <1>1, <1>2, <1>3, <1>4, <1>5 DEF Next

----------------------------------------------------------------------------
(* The theorems.                                                           *)

\* Every reachable state of the reader satisfies the inductive invariant: the
\* tickets count the batches, and until a read fails every batch is in one
\* place and Read has returned the stream up to the collector's mark.
THEOREM Invariance == Safety => []IInv
<1>1. Init => IInv
  BY InitIInv
<1>2. IInv /\ [Next]_vars => IInv'
  BY NextIInv
<1> QED BY <1>1, <1>2, PTL DEF Safety

\* No goroutine of fill panics, neither by a send on the closed channel nor by
\* a second close, unless a read of the stream failed.
THEOREM PanicCorrect == Safety => []PanicNeedsFailure
<1>1. IInv => PanicNeedsFailure
  BY DEF IInv
<1> QED BY <1>1, Invariance, PTL

\* Until a read fails Read returns the points of the stream in order, however
\* the workers finish: the collector's ring undoes their reordering.
THEOREM OrderCorrect == Safety => []InOrder
<1>1. IInv => InOrder
  BY DEF IInv, Healthy, Returned, InOrder
<1> QED BY <1>1, Invariance, PTL

\* What the initial states and the steps of an ordered reader are.
OrderedSafety == Ordered!Init /\ [][Ordered!Next]_(Ordered!vars)

\* Every step is one of the ordered reader, or one that its caller cannot see.
LEMMA StepRefines ==
    ASSUME IInv, [Next]_vars PROVE [Ordered!Next]_(Ordered!vars)
<1>1. ASSUME max' = max, out' = out, rst' = rst, panicked' = panicked, Failed' <=> Failed
      PROVE  UNCHANGED Ordered!vars
  <2>1. Failed' = Failed
    BY <1>1 DEF Failed, IInv, TypeOK
  <2> QED BY <1>1, <2>1 DEF Ordered!vars
<1>2. CASE FillRead \/ FillExit
  <2>1. /\ max' = max /\ out' = out /\ rst' = rst /\ panicked' = panicked
        /\ fpc = "read" /\ fpc' \in {"submit", "exited"} /\ closed' = closed
    BY <1>2 DEF FillRead, FillExit, reader
  <2> QED BY <1>1, <2>1 DEF Failed
<1>3. CASE FillFail
  <2>1. ~Failed /\ Failed' /\ ~panicked' /\ ~panicked
    BY <1>3, FillFailStep DEF FillFail, Running
  <2>2. max' = max /\ out' = out /\ rst' = rst /\ (CanFail \/ rst = "abandoned")
    BY <1>3 DEF FillFail, reader
  <2>3. Failed' = TRUE
    BY <2>1 DEF Failed
  <2>4. Ordered!Fail
    BY <2>1, <2>2, <2>3 DEF Ordered!Fail
  <2> QED BY <2>4 DEF Ordered!Next
<1>4. CASE FillCancel
  <2>1. max' = max /\ out' = out /\ rst' = rst /\ panicked' = panicked
    BY <1>4 DEF FillCancel, reader
  <2> QED BY <1>1, <1>4, <2>1, FillCancelStep
<1>5. ASSUME NEW w \in Workers, Submit(w) \/ Deliver(w) \/ Ticket(w) \/ TicketClosed(w)
      PROVE  UNCHANGED Ordered!vars
  <2>1. max' = max /\ out' = out /\ rst' = rst /\ panicked' = panicked
    BY <1>5 DEF Submit, Deliver, Ticket, TicketClosed, reader
  <2> QED BY <1>1, <1>5, <2>1, SubmitStep, DeliverStep, TicketStep
<1>6. ASSUME NEW w \in Workers, DeliverPanic(w) PROVE [Ordered!Next]_(Ordered!vars)
  <2>1. max' = max /\ out' = out /\ panicked' = TRUE
    BY <1>6 DEF DeliverPanic, reader
  <2>2. Failed /\ Failed' = Failed
    BY <1>6, DeliverPanicStep DEF Failed
  <2>3. Ordered!Panic
    BY <2>1, <2>2 DEF Ordered!Panic
  <2> QED BY <2>3 DEF Ordered!Next
<1>7. ASSUME NEW w \in Workers, CloseBatches(w) PROVE [Ordered!Next]_(Ordered!vars)
  <2>1. /\ max' = max /\ out' = out /\ rst' = rst /\ ~panicked
        /\ panicked' = TRUE \/ panicked' = panicked
    BY <1>7 DEF CloseBatches, reader, Running
  <2>2. (Failed' <=> Failed) /\ (panicked' => Failed)
    BY <1>7, CloseBatchesStep
  <2>3. CASE panicked' = panicked
    BY <1>1, <2>1, <2>2, <2>3
  <2>4. CASE panicked' = TRUE
    <3>1. Failed /\ Failed' = Failed
      BY <2>2, <2>4 DEF Failed
    <3>2. Ordered!Panic
      BY <2>1, <2>4, <3>1 DEF Ordered!Panic
    <3> QED BY <3>2 DEF Ordered!Next
  <2> QED BY <2>1, <2>3, <2>4
<1>8. CASE CounterCancel
  <2>1. max' = max /\ out' = out /\ rst' = rst /\ panicked' = panicked
    BY <1>8 DEF CounterCancel, reader
  <2> QED BY <1>1, <1>8, <2>1, CounterCancelStep
<1>9. CASE CopyReturn \/ StartFlush
  <2>1. max' = max /\ out' = out /\ rst' = rst /\ panicked' = panicked
    BY <1>9 DEF CopyReturn, StartFlush, reader
  <2> QED BY <1>1, <1>9, <2>1, CopyReturnStep, StartFlushStep
<1>10. CASE CopyPoint
  <2>1. /\ max' = max /\ rst' = rst /\ panicked' = panicked /\ ~panicked /\ rst = "reading"
        /\ out' = Append(out, CurPoints[ck + 1]) /\ Copying
    BY <1>10 DEF CopyPoint, Running
  <2>2. /\ CurPoints[ck + 1] = Mark + 1 /\ Mark + 1 \in 1..max /\ Mark \in Nat
    BY <1>10, NextPoint
  <2>3. Failed' = Failed
    BY <1>10, CopyPointStep DEF Failed, IInv, TypeOK
  <2>4. Mark + 1 \in Ordered!Due
    <3>1. CASE Failed
      <4>1. \A i \in 1..Len(out) : out[i] < Mark + 1
        <5> TAKE i \in 1..Len(out)
        <5>1. out[i] \in Nat /\ out[i] <= Mark
          BY <2>1 DEF IInv, TypeOK, Progress, Copying
        <5> QED BY <2>2, <5>1
      <4> QED BY <2>2, <3>1, <4>1 DEF Ordered!Due
    <3>2. CASE ~Failed
      <4>1. Len(out) = Mark
        BY <2>1, <3>2 DEF IInv, Healthy, Returned
      <4> QED BY <2>2, <3>2, <4>1 DEF Ordered!Due
    <3> QED BY <3>1, <3>2
  <2>5. Ordered!ReadPoint
    BY <2>1, <2>2, <2>3, <2>4 DEF Ordered!ReadPoint
  <2> QED BY <2>5 DEF Ordered!Next, Ordered!Read
<1>11. CASE ReadEOF
  <2>1. /\ max' = max /\ out' = out /\ panicked' = panicked /\ ~panicked /\ rst = "reading"
        /\ rst' = "eof" /\ Len(out) = max
    BY <1>11 DEF ReadEOF, Running
  <2>2. Failed' = Failed
    BY <1>11, ReadStep DEF Failed, IInv, TypeOK
  <2>3. Ordered!ReadEOF
    BY <2>1, <2>2 DEF Ordered!ReadEOF
  <2> QED BY <2>3 DEF Ordered!Next, Ordered!Read
<1>12. CASE ReadUnexpectedEOF
  <2>1. /\ max' = max /\ out' = out /\ panicked' = panicked /\ ~panicked /\ rst = "reading"
        /\ rst' = "unexpectedEOF" /\ Len(out) < max /\ kpc = "exited"
    BY <1>12 DEF ReadUnexpectedEOF, Running
  <2>2. Failed' = Failed
    BY <1>12, ReadStep DEF Failed, IInv, TypeOK
  <2>3. Failed
    <3> SUFFICES ASSUME ~Failed PROVE FALSE
      OBVIOUS
    <3>1. Len(out) = max /\ max \in Nat
      BY <2>1, Basics DEF IInv, Healthy, Returned
    <3> QED BY <2>1, <3>1
  <2>4. Ordered!ReadUnexpectedEOF
    BY <2>1, <2>2, <2>3 DEF Ordered!ReadUnexpectedEOF
  <2> QED BY <2>4 DEF Ordered!Next, Ordered!Read
<1>13. CASE Abandon
  <2>1. /\ max' = max /\ out' = out /\ panicked' = panicked /\ ~panicked /\ rst = "reading"
        /\ rst' = "abandoned" /\ CanAbandon
    BY <1>13 DEF Abandon, Running
  <2>2. Failed' = Failed
    BY <1>13, ReadStep DEF Failed, IInv, TypeOK
  <2>3. Ordered!Abandon
    BY <2>1, <2>2 DEF Ordered!Abandon
  <2> QED BY <2>3 DEF Ordered!Next
<1>14. CASE UNCHANGED vars
  <2>1. max' = max /\ out' = out /\ rst' = rst /\ panicked' = panicked
    BY <1>14 DEF vars, reader
  <2> QED BY <1>1, <1>14, <2>1, ReadStep
<1> QED BY <1>2, <1>3, <1>4, <1>5, <1>6, <1>7, <1>8, <1>9, <1>10, <1>11, <1>12, <1>13, <1>14
        DEF Next, Filler, Worker, Collector, Reader

\* The whole pipeline, failures included, is an ordered reader to its caller:
\* no point twice or out of order, io.EOF only after the complete stream,
\* io.ErrUnexpectedEOF and a panic only after a failed read.
THEOREM Refinement == Safety => OrderedSafety
<1>1. Init => Ordered!Init
  <2> SUFFICES ASSUME Init PROVE Ordered!Init
    OBVIOUS
  <2>1. /\ max \in 0..MaxPoints /\ out = <<>> /\ rst = "reading" /\ panicked = FALSE
        /\ Failed = FALSE
    BY DEF Init, Failed
  <2> QED BY <2>1 DEF Ordered!Init
<1>2. IInv /\ [Next]_vars => [Ordered!Next]_(Ordered!vars)
  BY StepRefines
<1> QED BY <1>1, <1>2, Invariance, PTL DEF Safety, OrderedSafety
=============================================================================
