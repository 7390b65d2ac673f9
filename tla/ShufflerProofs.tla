--------------------------- MODULE ShufflerProofs ---------------------------
(***************************************************************************)
(* The two encoders: for every number of identifiers, permutation, number  *)
(* of calls, batch size and pool, wherever a write fails, the wire follows *)
(* the permutation, the WaitGroup of the parallel one lets its write loop  *)
(* start only over a complete array, and the steps of both are steps of    *)
(* the same abstract shuffling writer.                                     *)
(*                                                                         *)
(* And the order they take: Kensler.Shuffle is a permutation for every     *)
(* length, seed and all odd factors, as long as the sum of the two is a    *)
(* word.                                                                   *)
(***************************************************************************)
EXTENDS Shufflers, FiniteSetTheorems, TLAPS

----------------------------------------------------------------------------
(* The sequential encoder.                                                 *)

\* How far the wire is: i points unless a write failed, the first sent of them
\* by direct writes, and all of them points of identifiers taken already.
Progress ==
    /\ Len(wire) <= i
    /\ err # "writeError" => Len(wire) = i
    /\ sent <= seq /\ sent <= i
    /\ seq < max => pc = "ready" /\ i = sent
    /\ pc = "flush" => seq = max
    /\ (pc = "ready" /\ seq = max /\ err # "writeError") => i = max
    /\ \A k \in 0..(i - 1) : p[k] < seq

\* FollowsPermutation is not inductive: that a flushed point is in the cache
\* needs that nothing taken was lost, and the wire's length.
IInv ==
    /\ TypeOK
    /\ Progress
    /\ NothingLost
    /\ FollowsPermutation

\* A permutation sends two places to two different identifiers.
LEMMA PermutationInjective ==
    ASSUME TypeOK, NEW j \in Positions, NEW k \in Positions, p[j] = p[k]
    PROVE  j = k
BY DEF TypeOK, Permutation, Positions

\* Appending the point that is due keeps the wire on the permutation.
LEMMA AppendDue ==
    ASSUME TypeOK, FollowsPermutation, NEW pt, Len(wire) < max, pt = p[Len(wire)],
           wire' = Append(wire, pt), UNCHANGED <<max, p>>
    PROVE  /\ wire' \in Seq(Positions \cup {ZeroPoint})
           /\ Len(wire') = Len(wire) + 1
           /\ FollowsPermutation'
<1> USE ShufflerAssumption
<1>0. wire \in Seq(Positions \cup {ZeroPoint}) /\ Len(wire) \in Nat
  BY DEF TypeOK
<1>1. pt \in Positions
  <2>1. Len(wire) \in 0..(max - 1) /\ p \in [0..(max - 1) -> 0..(max - 1)]
    BY <1>0 DEF TypeOK, Permutation
  <2> QED BY <2>1 DEF Positions
<1>2. wire' \in Seq(Positions \cup {ZeroPoint}) /\ Len(wire') = Len(wire) + 1
  BY <1>0, <1>1
<1>3. \A k \in 1..Len(wire') :
         wire'[k] = IF k = Len(wire) + 1 THEN pt ELSE wire[k]
  BY <1>0, <1>2
<1>4. FollowsPermutation'
  <2> SUFFICES ASSUME NEW k \in 1..Len(wire') PROVE k <= max /\ wire'[k] = p[k - 1]
    BY DEF FollowsPermutation
  <2>1. CASE k = Len(wire) + 1
    BY <2>1, <1>0, <1>2, <1>3 DEF TypeOK
  <2>2. CASE k # Len(wire) + 1
    <3>1. k \in 1..Len(wire)
      BY <2>2, <1>0, <1>2
    <3> QED BY <3>1, <2>2, <1>3 DEF FollowsPermutation
  <2> QED BY <2>1, <2>2
<1> QED BY <1>2, <1>4

----------------------------------------------------------------------------
\* A new encoder, with nothing taken, cached or sent, satisfies the invariant.
LEMMA InitIInv == Init => IInv
<1> SUFFICES ASSUME Init PROVE IInv
  OBVIOUS
<1> USE ShufflerAssumption DEF Init
<1>1. TypeOK
  BY DEF TypeOK, Positions
<1>2. Progress /\ NothingLost /\ FollowsPermutation
  BY DEF Progress, NothingLost, FollowsPermutation
<1> QED BY <1>1, <1>2 DEF IInv

\* A call that takes an identifier: sent directly or cached.
LEMMA ShuffleStep ==
    ASSUME IInv, Shuffle
    PROVE  IInv'
<1> USE ShufflerAssumption
<1>1. /\ seq < max /\ pc = "ready" /\ i = sent /\ Len(wire) = sent
      /\ seq' = seq + 1 /\ UNCHANGED <<max, p>> /\ i' = sent'
      /\ pc' = IF seq + 1 = max THEN "flush" ELSE "ready"
      /\ TypeOK /\ calls' \in 0..MaxCalls /\ err = "nil"
      /\ sent \in Nat /\ seq \in Nat /\ max \in Nat /\ sent <= seq
  BY DEF Shuffle, Called, IInv, Progress, TypeOK
<1>2. seq \in Positions /\ p \in [0..(max - 1) -> 0..(max - 1)]
  BY <1>1 DEF Positions, TypeOK, Permutation
<1>3. CASE p[sent] = seq
  <2>1. Write(seq) /\ sent' = sent + 1 /\ b' = b
    BY <1>3 DEF Shuffle
  <2>2. /\ wire' \in Seq(Positions \cup {ZeroPoint})
        /\ Len(wire') <= sent + 1
        /\ err' # "writeError" => Len(wire') = sent + 1
        /\ err' \in {"nil", "writeError"}
        /\ FollowsPermutation'
    <3>1. CASE wire' = Append(wire, seq) /\ err' = "nil"
      BY <1>1, <1>3, <3>1, AppendDue DEF IInv
    <3>2. CASE wire' = wire /\ err' = "writeError"
      BY <1>1, <3>2 DEF IInv, TypeOK, FollowsPermutation
    <3> QED BY <2>1, <3>1, <3>2 DEF Write
  <2>3. TypeOK'
    <3>1. sent + 1 \in 0..max /\ seq + 1 \in 0..max
      BY <1>1
    <3> QED BY <1>1, <2>1, <2>2, <3>1 DEF TypeOK, Positions
  <2>4. Progress'
    <3>1. \A k \in 0..(i' - 1) : p[k] < seq + 1
      <4> SUFFICES ASSUME NEW k \in 0..sent PROVE p[k] < seq + 1
        BY <1>1, <2>1
      <4>1. CASE k = sent
        BY <4>1, <1>1, <1>3
      <4>2. CASE k # sent
        <5>1. k \in 0..(i - 1) /\ k \in 0..(max - 1)
          BY <4>2, <1>1
        <5>2. p[k] < seq /\ p[k] \in Int
          BY <5>1, <1>2 DEF IInv, Progress
        <5> QED BY <5>2, <1>1
      <4> QED BY <4>1, <4>2
    <3> QED BY <3>1, <1>1, <2>1, <2>2 DEF Progress
  <2>5. NothingLost'
    <3> SUFFICES ASSUME NEW s \in 0..seq
                 PROVE  s \in b \/ \E k \in 0..sent : p[k] = s
      BY <1>1, <2>1 DEF NothingLost
    <3>1. CASE s = seq
      BY <3>1, <1>1, <1>3
    <3>2. CASE s # seq
      <4>1. s \in b \/ \E k \in 0..(sent - 1) : p[k] = s
        BY <3>2, <1>1 DEF IInv, NothingLost
      <4> QED BY <4>1, <1>1
    <3> QED BY <3>1, <3>2
  <2> QED BY <2>2, <2>3, <2>4, <2>5 DEF IInv
<1>4. CASE p[sent] # seq
  <2>1. b' = b \cup {seq} /\ UNCHANGED <<sent, err, wire>>
    BY <1>4 DEF Shuffle
  <2>2. sent < max
    BY <1>1
  <2>3. TypeOK'
    <3>1. seq + 1 \in 0..max
      BY <1>1
    <3> QED BY <1>1, <1>2, <2>1, <3>1 DEF TypeOK, Positions
  <2>4. Progress'
    <3>1. \A k \in 0..(sent - 1) : p[k] < seq + 1
      <4> SUFFICES ASSUME NEW k \in 0..(sent - 1) PROVE p[k] < seq + 1
        OBVIOUS
      <4>1. k \in 0..(i - 1) /\ k \in 0..(max - 1)
        BY <1>1, <2>2
      <4>2. p[k] < seq /\ p[k] \in Int
        BY <4>1, <1>2 DEF IInv, Progress
      <4> QED BY <4>2, <1>1
    <3> QED BY <3>1, <1>1, <2>1 DEF Progress, IInv
  <2>5. NothingLost'
    BY <1>1, <2>1 DEF NothingLost, IInv
  <2>6. FollowsPermutation'
    BY <1>1, <2>1 DEF FollowsPermutation, IInv
  <2> QED BY <2>3, <2>4, <2>5, <2>6 DEF IInv
<1> QED BY <1>3, <1>4

\* In the flush loop the point that is due is always found in the cache.
LEMMA FlushFindsPoint ==
    ASSUME IInv, pc = "flush", i < max
    PROVE  p[i] \in b
<1> USE ShufflerAssumption
<1>1. /\ seq = max /\ sent <= i /\ i \in Nat /\ sent \in Nat /\ max \in Nat
      /\ p \in [0..(max - 1) -> 0..(max - 1)] /\ TypeOK
  <2>1. TypeOK /\ seq = max /\ sent <= i
    BY DEF IInv, Progress
  <2> QED BY <2>1 DEF TypeOK, Permutation
<1>2. i \in Positions /\ p[i] \in 0..(seq - 1)
  BY <1>1 DEF Positions
<1>3. p[i] \in b \/ \E k \in 0..(sent - 1) : p[k] = p[i]
  BY <1>2 DEF IInv, NothingLost
<1>4. \A k \in 0..(sent - 1) : k \in Positions /\ k # i
  BY <1>1 DEF Positions
<1> QED BY <1>1, <1>2, <1>3, <1>4, PermutationInjective

\* One write of the flush loop moves the due point from the cache to the wire.
LEMMA FlushStep ==
    ASSUME IInv, Flush
    PROVE  IInv'
<1> USE ShufflerAssumption
<1>1. /\ pc = "flush" /\ i < max /\ p[i] \in b /\ seq = max /\ TypeOK
      /\ i \in Nat /\ max \in Nat /\ sent \in Nat /\ sent <= i /\ sent <= seq
      /\ UNCHANGED <<max, p, seq, sent, b, calls>>
  BY FlushFindsPoint DEF Flush, IInv, Progress, TypeOK
<1>2. CASE err # "writeError" /\ wire' = Append(wire, p[i]) /\ err' = "nil"
  <2>1. i' = i + 1 /\ pc' = pc /\ Len(wire) = i
    BY <1>2 DEF Flush, IInv, Progress
  <2>2. /\ wire' \in Seq(Positions \cup {ZeroPoint})
        /\ Len(wire') = i + 1
        /\ FollowsPermutation'
    BY <1>1, <1>2, <2>1, AppendDue DEF IInv
  <2>3. TypeOK'
    <3>1. i + 1 \in 0..max
      BY <1>1 DEF TypeOK
    <3> QED BY <3>1, <1>1, <1>2, <2>1, <2>2 DEF TypeOK, Positions
  <2>4. Progress'
    <3>1. p \in [0..(max - 1) -> 0..(max - 1)]
      BY <1>1 DEF TypeOK, Permutation
    <3>2. \A k \in 0..(i' - 1) : p'[k] < seq'
      BY <3>1, <1>1, <2>1
    <3> QED BY <3>2, <1>1, <1>2, <2>1, <2>2 DEF Progress
  <2>5. NothingLost'
    BY <1>1 DEF NothingLost, IInv
  <2> QED BY <2>2, <2>3, <2>4, <2>5 DEF IInv
<1>3. CASE wire' = wire /\ err' = "writeError"
  <2>1. i' = i /\ pc' = "ready"
    BY <1>3 DEF Flush
  <2>2. TypeOK'
    BY <1>1, <1>3, <2>1 DEF TypeOK, Positions
  <2>3. Progress'
    BY <1>1, <1>3, <2>1 DEF Progress, IInv
  <2>4. NothingLost' /\ FollowsPermutation'
    BY <1>1, <1>3 DEF NothingLost, FollowsPermutation, IInv
  <2> QED BY <2>2, <2>3, <2>4 DEF IInv
<1> QED BY <1>1, <1>2, <1>3 DEF Flush, Write

\* The invariant is preserved by every step of the encoder.
LEMMA NextIInv ==
    IInv /\ [Next]_vars => IInv'
<1> SUFFICES ASSUME IInv, [Next]_vars PROVE IInv'
  OBVIOUS
<1>1. CASE Shuffle
  BY <1>1, ShuffleStep
<1>2. CASE Flush
  BY <1>2, FlushStep
<1>3. CASE Reject
  <2>1. calls' \in 0..MaxCalls
    BY <1>3, ShufflerAssumption DEF Reject, Called, IInv, TypeOK
  <2> QED BY <2>1, <1>3 DEF Reject, Called, IInv, TypeOK, Positions, Progress,
                            NothingLost, FollowsPermutation
<1>4. CASE FlushDone
  BY <1>4 DEF FlushDone, IInv, TypeOK, Positions, Progress, NothingLost,
              FollowsPermutation
<1>5. CASE UNCHANGED vars
  BY <1>5 DEF vars, IInv, TypeOK, Positions, Progress, NothingLost,
              FollowsPermutation
<1> QED BY <1>1, <1>2, <1>3, <1>4, <1>5 DEF Next

\* On a wire that follows the permutation the abstract writer's wire is ours.
LEMMA WireIsPermuted ==
    ASSUME TypeOK, FollowsPermutation
    PROVE  wire = [k \in 1..Len(wire) |-> p[k - 1]]
<1>1. wire \in Seq(Positions \cup {ZeroPoint})
  BY DEF TypeOK
<1>2. wire = [k \in 1..Len(wire) |-> wire[k]]
  BY <1>1
<1>3. \A k \in 1..Len(wire) : wire[k] = p[k - 1]
  BY DEF FollowsPermutation
<1> QED BY <1>2, <1>3

\* A step that meets no failed write is a Shuffle of the abstract writer.
LEMMA ShuffleRefines ==
    ASSUME IInv, IInv', Next, err # "writeError", err' # "writeError"
    PROVE  Abstract!Shuffle
<1> USE ShufflerAssumption
<1>1. UNCHANGED <<max, p>> /\ seq' \in {seq, seq + 1} /\ Len(wire') \in Len(wire)..max
  <2>0. /\ Len(wire) = i /\ Len(wire') = i' /\ (seq < max => i = sent)
    BY DEF IInv, Progress
  <2>1. i \in 0..max /\ i' \in 0..max' /\ max \in Nat /\ sent \in Nat
    BY DEF IInv, TypeOK
  <2>2. CASE Reject \/ FlushDone
    BY <2>0, <2>1, <2>2 DEF Reject, FlushDone
  <2>3. CASE Shuffle
    <3>1. UNCHANGED <<max, p>> /\ seq' = seq + 1 /\ i' = sent' /\ i = sent
      BY <2>0, <2>3 DEF Shuffle
    <3>2. sent' = sent \/ sent' = sent + 1
      BY <2>3 DEF Shuffle
    <3> QED BY <2>0, <2>1, <3>1, <3>2
  <2>4. CASE Flush
    <3>1. UNCHANGED <<max, p, seq>> /\ (i' = i \/ i' = i + 1)
      BY <2>4 DEF Flush
    <3> QED BY <2>0, <2>1, <3>1
  <2> QED BY <2>2, <2>3, <2>4 DEF Next
<1>2. wire' = [k \in 1..Len(wire') |-> p[k - 1]]
  <2>1. TypeOK' /\ FollowsPermutation'
    BY DEF IInv
  <2>2. (wire = [k \in 1..Len(wire) |-> p[k - 1]])'
    BY <2>1, WireIsPermuted, PTL
  <2> QED BY <1>1, <2>2
<1>3. \A k \in 0..(Len(wire') - 1) : p[k] < seq'
  BY <1>1 DEF IInv, Progress
<1>4. seq' <= max
  BY <1>1 DEF IInv, TypeOK
<1> QED BY <1>1, <1>2, <1>3, <1>4 DEF Abstract!Shuffle

\* A step that meets the first failed write is the abstract writer's Fail.
LEMMA FailRefines ==
    ASSUME IInv, IInv', Next, err # "writeError", err' = "writeError"
    PROVE  Abstract!Fail
<1>1. Shuffle \/ Flush
  BY DEF Next, Reject, FlushDone
<1>2. /\ CanFail /\ UNCHANGED <<max, p, wire>> /\ seq' \in {seq, seq + 1}
  BY <1>1 DEF Shuffle, Called, Flush, Write
<1>3. seq' <= max
  <2>1. seq' \in 0..max'
    BY DEF IInv, TypeOK
  <2> QED BY <2>1, <1>2, ShufflerAssumption DEF IInv, TypeOK
<1> QED BY <1>2, <1>3 DEF Abstract!Fail

\* After a failed write no step changes what the abstract writer can see.
LEMMA FailedStutters ==
    ASSUME Next, err = "writeError"
    PROVE  UNCHANGED Abstract!vars
<1>1. Flush \/ FlushDone
  BY DEF Next, Reject, Shuffle, Called
<1>2. UNCHANGED <<max, p, seq, wire, err>>
  BY <1>1 DEF Flush, FlushDone, Write
<1> QED BY <1>2 DEF Abstract!vars

\* Every step of the encoder is a step of the abstract writer or invisible.
LEMMA StepRefines ==
    ASSUME IInv, IInv', [Next]_vars
    PROVE  [Abstract!Next]_(Abstract!vars)
<1>1. CASE UNCHANGED vars
  BY <1>1 DEF vars, Abstract!vars
<1>2. CASE Next /\ err = "writeError"
  BY <1>2, FailedStutters
<1>3. CASE Next /\ err # "writeError" /\ err' = "writeError"
  BY <1>3, FailRefines DEF Abstract!Next
<1>4. CASE Next /\ err # "writeError" /\ err' # "writeError"
  BY <1>4, ShuffleRefines DEF Abstract!Next
<1> QED BY <1>1, <1>2, <1>3, <1>4

----------------------------------------------------------------------------
(* The parallel encoder.                                                   *)

\* What the proofs about the parallel encoder need of the constants.
PoolOK == /\ BatchSize \in Nat \ {0} /\ MaxN \in Nat /\ MaxCalls \in Nat
          /\ IsFiniteSet(Workers)

\* They follow from the assumptions.
LEMMA PoolGiven == PoolOK
  BY PoolAssumption, ShufflerAssumption DEF PoolOK

Batches == [seq : Nat, s : Nat]

ParTypeOK ==
    /\ max \in 0..MaxN /\ p \in Par!Permutation(max)
    /\ seq \in 0..max /\ batch \in Batches /\ wg \in Int
    /\ points \in [Par!Positions -> Int]
    /\ i \in 0..max /\ calls \in Nat
    /\ pc \in {"ready", "submit", "nextBatch", "wait", "write"}
    /\ err \in {"nil", "writeError", "unexpectedPoint"}
    /\ wpc \in [Workers -> {"idle", "store", "done"}]
    /\ wb \in [Workers -> Batches]
    /\ wire \in Seq(Int)

\* The current batch still waits for identifiers, or for a worker.
Filling == pc \in {"ready", "submit"} /\ (seq < max \/ pc = "submit" \/ max = 0)

\* Batches start at multiples of BatchSize, end with the identifiers, and the
\* one being filled is where the next identifier goes.
BatchPlaced ==
    /\ \E q \in Nat : batch.seq = q * BatchSize
    /\ batch.s = Par!MinOf(BatchSize, max - batch.seq) /\ batch.seq <= max
    /\ (pc = "ready" /\ seq < max) => batch.seq <= seq /\ seq < batch.seq + batch.s
    /\ pc \in {"submit", "nextBatch"} => seq = batch.seq + batch.s
    /\ pc \in {"wait", "write"} => seq = max
    /\ pc # "ready" => max > 0

\* Identifiers that were handed to the pool, or will never be.
Submitted == IF Filling THEN batch.seq ELSE seq

\* What was handed to the pool is in the array, or a worker is about to put
\* it there.
StoredOrBusy ==
    \A k \in 0..(Submitted - 1) :
        points[k] = k \/ \E w \in Workers : wpc[w] = "store" /\ k \in Par!Content(wb[w])

WgCounts == wg = Cardinality(Par!Busy) + (IF Filling THEN 1 ELSE 0)

\* The write loop starts once, over an idle pool.
WriteLoop ==
    /\ Len(wire) = i
    /\ (pc \in {"submit", "nextBatch", "wait"} \/ seq < max) => i = 0
    /\ pc = "write" => Par!Busy = {}
    /\ (pc = "ready" /\ seq = max /\ err # "writeError") => i = max
    /\ pc # "ready" => err = "nil"

ParIInv == PoolOK /\ ParTypeOK /\ BatchPlaced /\ StoredOrBusy /\ WgCounts /\ WriteLoop
          /\ FollowsPermutation

----------------------------------------------------------------------------
\* The place of an identifier within its batch.
LEMMA PlaceInBatch ==
    ASSUME NEW q \in Nat, NEW n \in Nat \ {0}, NEW r \in 0..(n - 1)
    PROVE  (q * n + r) % n = r
OBVIOUS

\* The busy workers are finitely many.
LEMMA BusyFinite ==
    ASSUME PoolOK
    PROVE  /\ IsFiniteSet(Par!Busy) /\ Cardinality(Par!Busy) \in Nat
           /\ Cardinality(Par!Busy) = 0 => Par!Busy = {}
<1>1. Par!Busy \in SUBSET Workers
  BY DEF Par!Busy
<1> QED BY <1>1, FS_Subset, FS_CardinalityType, FS_EmptySet DEF PoolOK

\* Appending the point that is due keeps the wire on the permutation.
LEMMA ParAppendDue ==
    ASSUME ParTypeOK, FollowsPermutation, NEW pt \in Int, Len(wire) < max,
           pt = p[Len(wire)], wire' = Append(wire, pt), UNCHANGED <<max, p>>
    PROVE  wire' \in Seq(Int) /\ Len(wire') = Len(wire) + 1 /\ FollowsPermutation'
<1>1. wire \in Seq(Int) /\ Len(wire) \in Nat /\ max \in Int
  BY DEF ParTypeOK
<1>2. /\ wire' \in Seq(Int) /\ Len(wire') = Len(wire) + 1
      /\ \A k \in 1..Len(wire') :
            wire'[k] = IF k = Len(wire) + 1 THEN pt ELSE wire[k]
  BY <1>1
<1>3. FollowsPermutation'
  <2> SUFFICES ASSUME NEW k \in 1..Len(wire') PROVE k <= max /\ wire'[k] = p[k - 1]
    BY DEF FollowsPermutation
  <2>1. CASE k = Len(wire) + 1
    BY <2>1, <1>1, <1>2
  <2>2. CASE k # Len(wire) + 1
    <3>1. k \in 1..Len(wire)
      BY <2>2, <1>1, <1>2
    <3> QED BY <3>1, <2>2, <1>2 DEF FollowsPermutation
  <2> QED BY <2>1, <2>2
<1> QED BY <1>2, <1>3

----------------------------------------------------------------------------
\* A new encoder, its first batch counted, satisfies the invariant.
LEMMA InitParIInv == PoolOK /\ Par!Init => ParIInv
<1> SUFFICES ASSUME PoolOK, Par!Init PROVE ParIInv
  OBVIOUS
<1>0. max \in Nat /\ BatchSize \in Nat \ {0} /\ max \in 0..MaxN
  BY DEF PoolOK, Par!Init
<1>1. ParTypeOK
  <2>1. batch \in Batches
    BY <1>0 DEF Par!Init, Par!MinOf, Batches
  <2>2. points \in [Par!Positions -> Int] /\ wpc \in [Workers -> {"idle", "store", "done"}]
    BY DEF Par!Init, Par!ZeroPoint
  <2>3. [seq |-> 0, s |-> 0] \in Batches
    BY DEF Batches
  <2>4. wb \in [Workers -> Batches]
    BY <2>3 DEF Par!Init
  <2>5. 0 \in 0..max /\ wire \in Seq(Int)
    BY <1>0 DEF Par!Init
  <2> QED BY <1>0, <2>1, <2>2, <2>4, <2>5 DEF Par!Init, ParTypeOK
<1>2. BatchPlaced
  <2>1. batch.seq = 0 * BatchSize /\ 0 \in Nat
    BY <1>0 DEF Par!Init
  <2>2. \E q \in Nat : batch.seq = q * BatchSize
    BY <2>1
  <2> QED BY <1>0, <2>2 DEF Par!Init, Par!MinOf, BatchPlaced
<1>3. StoredOrBusy /\ Filling
  BY <1>0 DEF Par!Init, StoredOrBusy, Submitted, Filling
<1>4. WgCounts
  <2>1. Par!Busy = {}
    BY DEF Par!Init, Par!Busy
  <2> QED BY <1>3, <2>1, FS_EmptySet DEF Par!Init, WgCounts
<1>5. WriteLoop /\ FollowsPermutation
  BY <1>0 DEF Par!Init, WriteLoop, FollowsPermutation
<1> QED BY <1>1, <1>2, <1>3, <1>4, <1>5 DEF ParIInv

\* An identifier goes into the batch; the last one of the batch fills it.
LEMMA AcceptStep ==
    ASSUME ParIInv, Par!Accept
    PROVE  ParIInv'
<1>1. /\ pc = "ready" /\ err = "nil" /\ seq < max /\ seq' = seq + 1
      /\ pc' = IF seq % BatchSize = batch.s - 1 THEN "submit" ELSE "ready"
      /\ UNCHANGED <<max, p, batch, i, err, wg, points, wpc, wb, wire>>
      /\ calls' = calls + 1 /\ ParTypeOK /\ PoolOK
  BY DEF Par!Accept, Par!Called, Par!pool, ParIInv
<1>2. /\ max \in Nat /\ seq \in Nat /\ BatchSize \in Nat \ {0}
      /\ batch.seq \in Nat /\ batch.s \in Nat /\ batch.seq <= seq /\ seq < batch.seq + batch.s
      /\ batch.s = Par!MinOf(BatchSize, max - batch.seq) /\ batch.seq <= max
  BY <1>1 DEF ParIInv, ParTypeOK, PoolOK, Batches, BatchPlaced
<1>3. seq % BatchSize = seq - batch.seq
  <2>1. PICK q \in Nat : batch.seq = q * BatchSize
    BY DEF ParIInv, BatchPlaced
  <2>2. seq - batch.seq \in 0..(BatchSize - 1)
    BY <1>2 DEF Par!MinOf
  <2>3. seq = q * BatchSize + (seq - batch.seq)
    BY <1>2, <2>1
  <2> QED BY <1>2, <2>2, <2>3, PlaceInBatch
<1>4. pc' = IF seq + 1 = batch.seq + batch.s THEN "submit" ELSE "ready"
  BY <1>1, <1>2, <1>3
<1>5. ParTypeOK'
  BY <1>1, <1>2, <1>4 DEF ParTypeOK, Par!Positions
<1>6. BatchPlaced'
  BY <1>1, <1>2, <1>4 DEF ParIInv, BatchPlaced
<1>7. seq + 1 = max => pc' = "submit"
  BY <1>2, <1>4 DEF Par!MinOf
<1>8. Filling /\ Filling'
  BY <1>1, <1>2, <1>4, <1>7 DEF Filling
<1>9. StoredOrBusy' /\ WgCounts'
  BY <1>1, <1>8 DEF ParIInv, StoredOrBusy, Submitted, WgCounts, Par!Busy, Par!Content
<1>10. WriteLoop' /\ FollowsPermutation'
  BY <1>1, <1>2, <1>4, <1>7 DEF ParIInv, WriteLoop, FollowsPermutation, Par!Busy
<1> QED BY <1>1, <1>5, <1>6, <1>9, <1>10 DEF ParIInv, PoolOK

\* A worker takes the full batch; the batch stays counted.
LEMMA SubmitStep ==
    ASSUME ParIInv, NEW w \in Workers, Par!Submit(w)
    PROVE  ParIInv'
<1>1. /\ pc = "submit" /\ wpc[w] = "idle" /\ pc' = "nextBatch"
      /\ wpc' = [wpc EXCEPT ![w] = "store"] /\ wb' = [wb EXCEPT ![w] = batch]
      /\ UNCHANGED <<max, p, seq, batch, i, err, calls, wg, points, wire>>
      /\ ParTypeOK /\ PoolOK
  BY DEF Par!Submit, ParIInv
<1>2. /\ batch \in Batches /\ batch.seq \in Nat /\ batch.s \in Nat /\ seq = batch.seq + batch.s
      /\ wpc \in [Workers -> {"idle", "store", "done"}] /\ wb \in [Workers -> Batches]
  BY <1>1 DEF ParIInv, ParTypeOK, BatchPlaced, Batches
<1>3. ParTypeOK'
  BY <1>1 DEF ParTypeOK, Par!Positions
<1>4. BatchPlaced'
  BY <1>1 DEF ParIInv, BatchPlaced
<1>5. Filling /\ ~Filling'
  BY <1>1 DEF Filling
<1>6. StoredOrBusy'
  <2> SUFFICES ASSUME NEW k \in 0..(seq - 1)
               PROVE  points[k] = k \/ \E v \in Workers :
                                         wpc'[v] = "store" /\ k \in Par!Content(wb'[v])
    BY <1>1, <1>5 DEF StoredOrBusy, Submitted, Par!Content
  <2>1. CASE k \in 0..(batch.seq - 1)
    <3>1. points[k] = k \/ \E v \in Workers : wpc[v] = "store" /\ k \in Par!Content(wb[v])
      BY <2>1, <1>5 DEF ParIInv, StoredOrBusy, Submitted
    <3> QED BY <3>1, <1>1, <1>2
  <2>2. CASE k \notin 0..(batch.seq - 1)
    <3>1. k \in Par!Content(batch)
      BY <2>2, <1>2 DEF Par!Content
    <3> QED BY <3>1, <1>1, <1>2
  <2> QED BY <2>1, <2>2
<1>7. WgCounts'
  <2>1. Par!Busy' = Par!Busy \cup {w} /\ w \notin Par!Busy
    BY <1>1, <1>2 DEF Par!Busy
  <2>2. Cardinality(Par!Busy') = Cardinality(Par!Busy) + 1
    BY <1>1, <2>1, BusyFinite, FS_AddElement
  <2> QED BY <1>1, <1>5, <2>2, BusyFinite DEF ParIInv, WgCounts
<1>8. WriteLoop' /\ FollowsPermutation'
  BY <1>1 DEF ParIInv, WriteLoop, FollowsPermutation
<1> QED BY <1>1, <1>3, <1>4, <1>6, <1>7, <1>8 DEF ParIInv, PoolOK

\* The next batch starts, counted, where the last one ended; or there is none.
LEMMA NextBatchStep ==
    ASSUME ParIInv, Par!NextBatch
    PROVE  ParIInv'
<1> DEFINE s == Par!MinOf(BatchSize, max - seq)
<1>1. /\ pc = "nextBatch"
      /\ UNCHANGED <<max, p, seq, i, err, calls, points, wpc, wb, wire>>
      /\ ParTypeOK /\ PoolOK
  BY DEF Par!NextBatch, Par!pool, ParIInv
<1>2. /\ max \in Nat /\ seq \in Nat /\ seq <= max /\ BatchSize \in Nat \ {0} /\ wg \in Int
      /\ batch.seq \in Nat /\ batch.s \in Nat /\ seq = batch.seq + batch.s
      /\ batch.s = Par!MinOf(BatchSize, max - batch.seq)
  BY <1>1 DEF ParIInv, ParTypeOK, PoolOK, Batches, BatchPlaced
<1>3. s \in Nat /\ (s = 0 <=> seq = max) /\ ~Filling
  BY <1>1, <1>2 DEF Par!MinOf, Filling
<1>4. CASE s # 0
  <2>1. batch' = [seq |-> seq, s |-> s] /\ pc' = "ready" /\ wg' = wg + 1
    BY <1>4 DEF Par!NextBatch
  <2>2. batch' \in Batches /\ batch'.seq = seq /\ batch'.s = s
    BY <1>2, <1>3, <2>1 DEF Batches
  <2>3. ParTypeOK'
    BY <1>1, <1>2, <2>1, <2>2 DEF ParTypeOK, Par!Positions
  <2>4. BatchPlaced'
    <3>1. PICK q \in Nat : batch.seq = q * BatchSize
      BY DEF ParIInv, BatchPlaced
    <3>2. batch.s = BatchSize
      BY <1>2, <1>3, <1>4 DEF Par!MinOf
    <3>3. seq = (q + 1) * BatchSize /\ q + 1 \in Nat
      BY <1>2, <3>1, <3>2
    <3>4. \E r \in Nat : batch'.seq = r * BatchSize
      BY <2>2, <3>3
    <3>5. seq < seq + s
      BY <1>2, <1>3, <1>4
    <3> QED BY <1>1, <1>2, <1>3, <1>4, <2>1, <2>2, <3>4, <3>5 DEF BatchPlaced
  <2>5. Filling'
    BY <1>1, <1>2, <1>3, <1>4, <2>1 DEF Filling
  <2>6. StoredOrBusy'
    BY <1>1, <1>3, <2>2, <2>5 DEF ParIInv, StoredOrBusy, Submitted, Par!Content
  <2>7. WgCounts'
    <3>1. Par!Busy' = Par!Busy /\ Cardinality(Par!Busy) \in Nat
      BY <1>1, BusyFinite DEF Par!Busy
    <3> QED BY <1>3, <2>1, <2>5, <3>1 DEF ParIInv, WgCounts
  <2>8. WriteLoop' /\ FollowsPermutation'
    BY <1>1, <1>2, <1>3, <1>4, <2>1 DEF ParIInv, WriteLoop, FollowsPermutation
  <2> QED BY <1>1, <2>3, <2>4, <2>6, <2>7, <2>8 DEF ParIInv, PoolOK
<1>5. CASE s = 0
  <2>1. pc' = "wait" /\ UNCHANGED <<batch, wg>>
    BY <1>5 DEF Par!NextBatch
  <2>2. ParTypeOK' /\ BatchPlaced'
    BY <1>1, <1>2, <1>3, <1>5, <2>1 DEF ParIInv, ParTypeOK, Par!Positions, BatchPlaced
  <2>3. ~Filling'
    BY <2>1 DEF Filling
  <2>4. StoredOrBusy' /\ WgCounts'
    BY <1>1, <1>3, <2>1, <2>3 DEF ParIInv, StoredOrBusy, Submitted, Par!Content, WgCounts,
                                       Par!Busy
  <2>5. WriteLoop' /\ FollowsPermutation'
    BY <1>1, <2>1 DEF ParIInv, WriteLoop, FollowsPermutation
  <2> QED BY <1>1, <2>2, <2>4, <2>5 DEF ParIInv, PoolOK
<1> QED BY <1>4, <1>5

\* A worker puts the points of its batch into the array.
LEMMA StoreStep ==
    ASSUME ParIInv, NEW w \in Workers, Par!Store(w)
    PROVE  ParIInv'
<1>1. /\ wpc[w] = "store" /\ wpc' = [wpc EXCEPT ![w] = "done"]
      /\ points' = [k \in Par!Positions |-> IF k \in Par!Content(wb[w]) THEN k ELSE points[k]]
      /\ UNCHANGED <<max, p, seq, batch, i, pc, err, calls, wg, wb, wire>>
      /\ ParTypeOK /\ PoolOK
  BY DEF Par!Store, Par!enc, ParIInv
<1>2. /\ wpc \in [Workers -> {"idle", "store", "done"}] /\ max \in Nat /\ seq \in 0..max
      /\ batch.seq \in Nat /\ batch.seq <= max
  BY <1>1 DEF ParIInv, ParTypeOK, PoolOK, BatchPlaced, Batches
<1>3. ParTypeOK'
  <2>1. points' \in [Par!Positions -> Int]
    BY <1>1, <1>2 DEF ParTypeOK, Par!Positions
  <2> QED BY <1>1, <1>2, <2>1 DEF ParTypeOK, Par!Positions
<1>4. BatchPlaced' /\ FollowsPermutation'
  BY <1>1 DEF ParIInv, BatchPlaced, FollowsPermutation
<1>5. Par!Busy' = Par!Busy
  BY <1>1, <1>2 DEF Par!Busy
<1>6. WgCounts' /\ WriteLoop'
  BY <1>1, <1>5 DEF ParIInv, WgCounts, Filling, WriteLoop
<1>7. StoredOrBusy'
  <2>1. Submitted' = Submitted /\ \A k \in 0..(Submitted - 1) : k \in Par!Positions
    BY <1>1, <1>2 DEF Submitted, Filling, Par!Positions
  <2> SUFFICES ASSUME NEW k \in 0..(Submitted - 1)
               PROVE  points'[k] = k \/ \E v \in Workers :
                                         wpc'[v] = "store" /\ k \in Par!Content(wb'[v])
    BY <2>1 DEF StoredOrBusy, Par!Content
  <2>2. points'[k] = IF k \in Par!Content(wb[w]) THEN k ELSE points[k]
    BY <1>1, <2>1
  <2>3. points[k] = k \/ \E v \in Workers : wpc[v] = "store" /\ k \in Par!Content(wb[v])
    BY DEF ParIInv, StoredOrBusy
  <2> QED BY <1>1, <1>2, <2>2, <2>3
<1> QED BY <1>1, <1>3, <1>4, <1>6, <1>7 DEF ParIInv, PoolOK

\* A worker is through with its batch.
LEMMA DoneStep ==
    ASSUME ParIInv, NEW w \in Workers, Par!Done(w)
    PROVE  ParIInv'
<1>1. /\ wpc[w] = "done" /\ wpc' = [wpc EXCEPT ![w] = "idle"] /\ wg' = wg - 1
      /\ UNCHANGED <<max, p, seq, batch, i, pc, err, calls, points, wb, wire>>
      /\ ParTypeOK /\ PoolOK
  BY DEF Par!Done, Par!enc, ParIInv
<1>2. wpc \in [Workers -> {"idle", "store", "done"}] /\ wg \in Int
  BY <1>1 DEF ParTypeOK
<1>3. ParTypeOK' /\ BatchPlaced' /\ FollowsPermutation'
  <2>1. ParTypeOK'
    BY <1>1, <1>2 DEF ParTypeOK, Par!Positions
  <2> QED BY <1>1, <2>1 DEF ParIInv, BatchPlaced, FollowsPermutation
<1>4. StoredOrBusy'
  BY <1>1, <1>2 DEF ParIInv, StoredOrBusy, Submitted, Filling, Par!Content
<1>5. Par!Busy' = Par!Busy \ {w} /\ w \in Par!Busy
  BY <1>1, <1>2 DEF Par!Busy
<1>6. WgCounts'
  <2>1. Cardinality(Par!Busy') = Cardinality(Par!Busy) - 1
    BY <1>1, <1>5, BusyFinite, FS_RemoveElement
  <2> QED BY <1>1, <2>1, BusyFinite DEF ParIInv, WgCounts, Filling
<1>7. WriteLoop'
  BY <1>1, <1>5 DEF ParIInv, WriteLoop
<1> QED BY <1>1, <1>3, <1>4, <1>6, <1>7 DEF ParIInv, PoolOK

\* What Wait promises the write loop: the pool is idle, the array complete.
LEMMA WriteLoopReadsAll ==
    ASSUME ParIInv, seq = max, pc \in {"wait", "write"}, Par!Busy = {}
    PROVE  \A k \in Par!Positions : points[k] = k
<1>1. ~Filling /\ Submitted = max
  BY DEF Filling, Submitted
<1>2. \A w \in Workers : wpc[w] # "store"
  BY DEF Par!Busy
<1> QED BY <1>1, <1>2 DEF ParIInv, StoredOrBusy, Par!Positions

\* The wait group is zero: the write loop starts.
LEMMA WaitStep ==
    ASSUME ParIInv, Par!Wait
    PROVE  ParIInv'
<1>1. /\ pc = "wait" /\ wg = 0 /\ pc' = "write" /\ i' = 0 /\ i = 0
      /\ UNCHANGED <<max, p, seq, batch, err, calls, wg, points, wpc, wb, wire>>
      /\ ParTypeOK /\ PoolOK /\ seq = max
  BY DEF Par!Wait, Par!pool, ParIInv, WriteLoop, BatchPlaced
<1>2. ~Filling /\ ~Filling' /\ Par!Busy' = Par!Busy
  BY <1>1 DEF Filling, Par!Busy
<1>3. Par!Busy = {}
  BY <1>1, <1>2, BusyFinite DEF ParIInv, WgCounts
<1>4. ParTypeOK' /\ BatchPlaced' /\ FollowsPermutation'
  BY <1>1 DEF ParIInv, ParTypeOK, Par!Positions, BatchPlaced, FollowsPermutation
<1>5. StoredOrBusy' /\ WgCounts' /\ WriteLoop'
  BY <1>1, <1>2, <1>3 DEF ParIInv, StoredOrBusy, Submitted, Par!Content, WgCounts, WriteLoop
<1> QED BY <1>1, <1>4, <1>5 DEF ParIInv, PoolOK

\* A round of the write loop sends the point that is due.
LEMMA WriteStep ==
    ASSUME ParIInv, Par!Write
    PROVE  ParIInv'
<1>1. /\ pc = "write" /\ i < max /\ wire' = Append(wire, points[p[i]]) /\ i' = i + 1
      /\ UNCHANGED <<max, p, seq, batch, pc, err, calls, wg, points, wpc, wb>>
      /\ ParTypeOK /\ PoolOK /\ seq = max /\ Len(wire) = i /\ Par!Busy = {}
  BY DEF Par!Write, Par!pool, ParIInv, WriteLoop, BatchPlaced
<1>2. i \in 0..(max - 1) /\ max \in Nat /\ p \in [0..(max - 1) -> 0..(max - 1)]
  BY <1>1 DEF ParTypeOK, Par!Permutation, PoolOK
<1>3. p[i] \in Par!Positions /\ points[p[i]] = p[i] /\ p[i] \in Int
  BY <1>1, <1>2, WriteLoopReadsAll DEF Par!Positions
<1>4. wire' \in Seq(Int) /\ Len(wire') = i + 1 /\ FollowsPermutation'
  BY <1>1, <1>3, ParAppendDue DEF ParIInv
<1>5. ParTypeOK' /\ BatchPlaced'
  <2>1. i + 1 \in 0..max
    BY <1>2
  <2> QED BY <1>1, <1>4, <2>1 DEF ParIInv, ParTypeOK, Par!Positions, BatchPlaced
<1>6. Par!Busy' = Par!Busy /\ Submitted' = Submitted /\ (Filling' <=> Filling)
  BY <1>1 DEF Par!Busy, Submitted, Filling
<1>7. StoredOrBusy' /\ WgCounts'
  BY <1>1, <1>6 DEF ParIInv, StoredOrBusy, Par!Content, WgCounts
<1>8. WriteLoop'
  <2>1. Len(wire') = i' /\ pc' = "write" /\ seq' = max' /\ Par!Busy' = {}
    BY <1>1, <1>4, <1>6
  <2> QED BY <1>1, <1>2, <2>1 DEF ParIInv, WriteLoop
<1> QED BY <1>1, <1>4, <1>5, <1>7, <1>8 DEF ParIInv, PoolOK

\* The loop ends, with everything sent or with the error of a write; and a
\* call too many is refused.
LEMMA ReturnStep ==
    ASSUME ParIInv, Par!WriteFail \/ Par!WriteDone \/ Par!Reject
    PROVE  ParIInv'
<1>1. /\ UNCHANGED <<max, p, seq, batch, i, wg, points, wpc, wb, wire>>
      /\ pc' = "ready" /\ seq = max /\ calls' \in {calls, calls + 1}
      /\ \/ pc = "write" /\ err' = "writeError"
         \/ pc = "write" /\ i = max /\ err' = err
         \/ pc = "ready" /\ err = "nil" /\ err' = "unexpectedPoint"
      /\ ParTypeOK /\ PoolOK
  BY DEF Par!WriteFail, Par!WriteDone, Par!Reject, Par!Called, Par!pool, ParIInv, BatchPlaced
<1>2. ParTypeOK' /\ BatchPlaced' /\ FollowsPermutation'
  <2>1. calls' \in Nat
    BY <1>1 DEF ParTypeOK
  <2> QED BY <1>1, <2>1 DEF ParIInv, ParTypeOK, Par!Positions, BatchPlaced, FollowsPermutation
<1>3. Par!Busy' = Par!Busy /\ (Filling' <=> Filling)
  <2>1. max \in Nat /\ (pc = "write" => max # 0)
    BY <1>1 DEF ParIInv, BatchPlaced, ParTypeOK, PoolOK
  <2> QED BY <1>1, <2>1 DEF Filling, Par!Busy
<1>4. StoredOrBusy' /\ WgCounts' /\ WriteLoop'
  BY <1>1, <1>3 DEF ParIInv, StoredOrBusy, Submitted, Par!Content, WgCounts,
                         WriteLoop, ParTypeOK
<1> QED BY <1>1, <1>2, <1>4 DEF ParIInv, PoolOK

\* Every step of the encoder and its pool keeps the invariant.
LEMMA NextParIInv == ParIInv /\ [Par!Next]_(Par!vars) => ParIInv'
<1> SUFFICES ASSUME ParIInv, [Par!Next]_(Par!vars) PROVE ParIInv'
  OBVIOUS
<1>1. CASE UNCHANGED Par!vars
  BY <1>1 DEF Par!vars, Par!enc, Par!pool, ParIInv, PoolOK, ParTypeOK, Par!Positions,
              BatchPlaced, Filling, StoredOrBusy, Submitted, Par!Content, WgCounts,
              Par!Busy, WriteLoop, FollowsPermutation
<1> QED BY <1>1, AcceptStep, SubmitStep, NextBatchStep, StoreStep, DoneStep, WaitStep,
           WriteStep, ReturnStep DEF Par!Next, Par!InCall, Par!Worker

\* Taking an identifier is the abstract writer's Shuffle that sends nothing.
LEMMA AcceptRefines ==
    ASSUME ParIInv, Par!Accept
    PROVE  Abstract!Shuffle
<1>1. /\ seq' = seq + 1 /\ seq < max /\ UNCHANGED <<max, p, err, wire>> /\ err # "writeError"
      /\ max \in Nat /\ seq \in Nat
  BY DEF Par!Accept, Par!Called, ParIInv, ParTypeOK, PoolOK
<1>2. Len(wire) = 0 /\ wire \in Seq(Int)
  BY <1>1 DEF ParIInv, WriteLoop, ParTypeOK
<1>3. wire = [k \in 1..0 |-> p[k - 1]]
  BY <1>2
<1>4. seq + 1 \in {seq, seq + 1} /\ 0 \in Len(wire)..max
  BY <1>1, <1>2
<1> QED BY <1>1, <1>3, <1>4 DEF Abstract!Shuffle

\* A round of the write loop is the abstract writer's Shuffle that sends the
\* next point.
LEMMA WriteRefines ==
    ASSUME ParIInv, ParIInv', Par!Write
    PROVE  Abstract!Shuffle
<1>1. /\ seq' = seq /\ seq = max /\ UNCHANGED <<max, p, err>> /\ i < max /\ i' = i + 1
      /\ Len(wire) = i /\ Len(wire') = i' /\ wire' \in Seq(Int)
  BY DEF Par!Write, ParIInv, BatchPlaced, WriteLoop, ParTypeOK
<1>2. max \in Nat /\ i \in Nat /\ p \in [0..(max - 1) -> 0..(max - 1)]
  BY DEF ParIInv, ParTypeOK, PoolOK, Par!Permutation
<1>3. wire' = [k \in 1..(i + 1) |-> p[k - 1]]
  <2>1. \A k \in 1..(i + 1) : wire'[k] = p[k - 1]
    BY <1>1 DEF ParIInv, FollowsPermutation
  <2> QED BY <1>1, <1>2, <2>1
<1>4. \A k \in 0..i : p[k] < max
  <2> TAKE k \in 0..i
  <2>1. k \in 0..(max - 1)
    BY <1>1, <1>2
  <2>2. p[k] \in 0..(max - 1)
    BY <1>2, <2>1
  <2> QED BY <1>2, <2>2
<1>5. i + 1 \in Len(wire)..max /\ max \in {seq, seq + 1}
  BY <1>1, <1>2
<1>6. err # "writeError"
  BY DEF Par!Write, ParIInv, WriteLoop
<1> QED BY <1>1, <1>2, <1>3, <1>4, <1>5, <1>6 DEF Abstract!Shuffle

\* Every other step is invisible from outside, but for a failed write.
LEMMA ParStepRefines ==
    ASSUME ParIInv, ParIInv', [Par!Next]_(Par!vars)
    PROVE  [Abstract!Next]_(Abstract!vars)
<1>1. CASE Par!Accept
  BY <1>1, AcceptRefines DEF Abstract!Next
<1>2. CASE Par!Write
  BY <1>2, WriteRefines DEF Abstract!Next
<1>3. CASE Par!WriteFail
  <2>1. /\ CanFail /\ err # "writeError" /\ err' = "writeError"
        /\ UNCHANGED <<max, p, seq, wire>> /\ seq <= max
    BY <1>3 DEF Par!WriteFail, ParIInv, ParTypeOK, WriteLoop, PoolOK
  <2> QED BY <2>1 DEF Abstract!Next, Abstract!Fail
<1>4. CASE Par!Reject
  BY <1>4 DEF Par!Reject, Par!Called, Abstract!vars
<1>5. CASE Par!NextBatch \/ Par!Wait \/ Par!WriteDone \/ \E w \in Workers : Par!Submit(w)
  BY <1>5 DEF Par!NextBatch, Par!Wait, Par!WriteDone, Par!Submit, Abstract!vars
<1>6. CASE \E w \in Workers : Par!Worker(w)
  BY <1>6 DEF Par!Worker, Par!Store, Par!Done, Par!enc, Abstract!vars
<1>7. CASE UNCHANGED Par!vars
  BY <1>7 DEF Par!vars, Par!enc, Abstract!vars
<1> QED BY <1>1, <1>2, <1>3, <1>4, <1>5, <1>6, <1>7 DEF Par!Next, Par!InCall

----------------------------------------------------------------------------
(* Theorems about both.                                                    *)

\* The invariant of the encoder this is a behaviour of.
EncoderInv ==
    /\ kind \in {"sequential", "parallel", "permutation"}
    /\ kind # "parallel" => IInv
    /\ kind = "parallel" => ParIInv

\* A new encoder of either kind satisfies it.
LEMMA InitEncoderInv == InitAll => EncoderInv
  BY InitIInv, InitParIInv, PoolGiven DEF InitAll, InitEncoder, EncoderInv

\* A step is one of the encoder's own, or changes nothing.
LEMMA StepKinds ==
    ASSUME EncoderInv, [NextAll]_allVars
    PROVE  /\ kind' = kind
           /\ kind # "parallel" => [Next]_vars
           /\ kind = "parallel" => [Par!Next]_(Par!vars)
<1>1. CASE Seq1(Next) \/ Par1(Par!Next)
  BY <1>1 DEF Seq1, Par1, SeqStep, ParStep
<1>2. CASE UNCHANGED encoderVars
  BY <1>2 DEF encoderVars, vars, onlyPar, Par!vars, Par!enc, Par!pool
<1>3. (Perm1(Perm!Next) \/ UNCHANGED allVars) => UNCHANGED encoderVars
  BY DEF Perm1, allVars
<1> QED BY <1>1, <1>2, <1>3 DEF NextAll

\* Every step of either encoder keeps the invariant.
LEMMA NextEncoderInv == EncoderInv /\ [NextAll]_allVars => EncoderInv'
<1> SUFFICES ASSUME EncoderInv, [NextAll]_allVars PROVE EncoderInv'
  OBVIOUS
<1>1. CASE kind # "parallel"
  <2>1. IInv'
    BY <1>1, StepKinds, NextIInv DEF EncoderInv
  <2> QED BY <1>1, <2>1, StepKinds DEF EncoderInv
<1>2. CASE kind = "parallel"
  <2>1. ParIInv'
    BY <1>2, StepKinds, NextParIInv DEF EncoderInv
  <2> QED BY <1>2, <2>1, StepKinds DEF EncoderInv
<1> QED BY <1>1, <1>2 DEF EncoderInv

\* The inductive invariants: the sequential encoder has sent or cached what it
\* took, the parallel one has stored it or left it with a worker that the wait
\* group counts.
THEOREM Invariance == SpecAll => []EncoderInv
<1> QED BY InitEncoderInv, NextEncoderInv, PTL DEF SpecAll

\* The counters, cache and wire of the sequential encoder, and the batches,
\* array and pool of the parallel one, keep their types.
THEOREM TypeCorrect ==
    SpecAll => []((kind # "parallel" => TypeOK) /\ (kind = "parallel" => ParTypeOK))
<1>1. EncoderInv => (kind # "parallel" => TypeOK) /\ (kind = "parallel" => ParTypeOK)
  BY DEF EncoderInv, IInv, ParIInv
<1> QED BY <1>1, Invariance, PTL

\* The wait group counts exactly the batches that are not all in the array, and
\* the write loop reads a complete array that no worker still writes, for every
\* pool and batch size.
THEOREM WaitCorrect == SpecAll => []WaitedForAll
<1>1. EncoderInv => WaitedForAll
  <2> SUFFICES ASSUME ParIInv PROVE Par!WaitedForAll
    BY DEF EncoderInv, WaitedForAll
  <2>1. pc = "write" => Par!Busy = {} /\ \A k \in Par!Positions : points[k] = k
    BY WriteLoopReadsAll DEF ParIInv, WriteLoop, BatchPlaced
  <2>2. Par!Cardinality(Par!Busy) = Cardinality(Par!Busy)
    BY Zenon DEF Par!Cardinality, Cardinality
  <2> QED BY <2>1, <2>2 DEF ParIInv, WgCounts, Filling, Par!WaitedForAll
<1> QED BY <1>1, Invariance, PTL

\* The points leave in the order of the permutation, with no hole and no zero
\* point: direct writes and the flush of the cache mesh, and no schedule of the
\* workers shows.
THEOREM OrderCorrect == SpecAll => []FollowsPermutation
<1>1. EncoderInv => FollowsPermutation
  BY DEF EncoderInv, IInv, ParIInv
<1> QED BY <1>1, Invariance, PTL

\* The call that takes the last identifier returns nil only with everything
\* sent.
THEOREM NilCorrect == SpecAll => []NilMeansAllSent
<1>1. EncoderInv => NilMeansAllSent
  BY DEF EncoderInv, IInv, Progress, ParIInv, WriteLoop, NilMeansAllSent
<1> QED BY <1>1, Invariance, PTL

\* The abstract writer's specification without its fairness.
RefinesSafety == Abstract!Init /\ [][Abstract!Next]_(Abstract!vars)

\* Both encoders implement the shuffling writer (its safety part): cache,
\* batches, pool and array cannot be seen from outside.
THEOREM Refinement == SpecAll => RefinesSafety
<1>1. InitAll => Abstract!Init
  <2> SUFFICES ASSUME Init PROVE Abstract!Init
    BY DEF InitAll, InitEncoder
  <2>1. p \in Abstract!Permutation(max)
    BY DEF Init, Permutation, Abstract!Permutation
  <2> QED BY <2>1 DEF Init, Abstract!Init
<1>2. EncoderInv /\ EncoderInv' /\ [NextAll]_allVars
        => [Abstract!Next]_(Abstract!vars)
  <2> SUFFICES ASSUME EncoderInv, EncoderInv', [NextAll]_allVars
               PROVE  [Abstract!Next]_(Abstract!vars)
    OBVIOUS
  <2>1. CASE kind # "parallel"
    BY <2>1, StepKinds, StepRefines DEF EncoderInv
  <2>2. CASE kind = "parallel"
    BY <2>2, StepKinds, ParStepRefines DEF EncoderInv
  <2> QED BY <2>1, <2>2 DEF EncoderInv
<1> QED BY <1>1, <1>2, Invariance, PTL DEF SpecAll, RefinesSafety

----------------------------------------------------------------------------
(* The permutation.  Its arithmetic first.                                 *)

\* A set of natural numbers that is not empty has a least element.
LEMMA LeastElement ==
    ASSUME NEW T, T \subseteq Nat, T # {}
    PROVE  \E x \in T : \A y \in T : x <= y
<1> DEFINE R == {ss \in Nat \X Nat : ss[1] < ss[2]}
<1>1. IsWellFoundedOn(R, Nat)
  BY NatLessThanWellFounded DEF OpToRel
<1> HIDE DEF R
<1>2. PICK x \in T : \A y \in T : ~ (<<y, x>> \in R)
  BY <1>1, WFMin
<1>3. \A y \in T : y \in Nat /\ x \in Nat /\ ~(y < x)
  BY <1>2 DEF R
<1> QED BY <1>3

\* Induction over the natural numbers, for a set.
LEMMA Induction ==
    ASSUME NEW S, S \subseteq Nat, 0 \in S, \A k \in S : k + 1 \in S
    PROVE  S = Nat
<1>1. SUFFICES ASSUME Nat \ S # {} PROVE FALSE
  OBVIOUS
<1>2. PICK x \in Nat \ S : \A y \in Nat \ S : x <= y
  BY <1>1, LeastElement
<1>3. x # 0
  OBVIOUS
<1>4. x - 1 \in Nat /\ x - 1 \in S
  BY <1>2, <1>3
<1> QED BY <1>4

\* Division undoes multiplication, and leaves what was added below the divisor.
LEMMA Divided ==
    ASSUME NEW d \in Nat \ {0}, NEW a \in Nat, NEW r \in 0..(d - 1)
    PROVE  /\ a * d + r \in Nat
           /\ (a * d + r) \div d = a /\ (a * d + r) % d = r
  OBVIOUS

\* A number is its quotient times the divisor, and a remainder below it.
LEMMA Division ==
    ASSUME NEW d \in Nat \ {0}, NEW x \in Nat
    PROVE  /\ x \div d \in Nat /\ x % d \in 0..(d - 1)
           /\ x = (x \div d) * d + (x % d)
  OBVIOUS

\* Dividing twice is dividing by the product.
LEMMA DividedTwice ==
    ASSUME NEW c \in Nat \ {0}, NEW d \in Nat \ {0}, NEW x \in Nat
    PROVE  /\ c * d \in Nat \ {0}
           /\ (x \div c) \div d = x \div (c * d)
<1>1. PICK q \in Nat, r \in 0..(c - 1) : x \div c = q /\ x = q * c + r
  BY Division
<1>2. PICK u \in Nat, v \in 0..(d - 1) : q \div d = u /\ q = u * d + v
  BY Division
<1>3. PICK cd \in Nat \ {0} : cd = c * d
  OBVIOUS
<1>4. v * c + r \in 0..(cd - 1)
  <2>1. v * c <= (d - 1) * c /\ v * c \in Nat
    OBVIOUS
  <2>2. (d - 1) * c = cd - c
    BY <1>3
  <2> QED BY <2>1, <2>2
<1>5. x = u * cd + (v * c + r)
  BY <1>1, <1>2, <1>3
<1>6. PICK e \in 0..(cd - 1) : e = v * c + r
  BY <1>4
<1>7. x \div cd = u
  BY <1>5, <1>6, Divided
<1> QED BY <1>1, <1>2, <1>3, <1>7

----------------------------------------------------------------------------
(* Powers of two, counted as sets of subsets.                              *)

\* An element more gives twice as many subsets.
LEMMA PowerDoubles ==
    ASSUME NEW k \in Nat
    PROVE  2 ^ k \in Nat /\ 2 ^ (k + 1) = 2 * 2 ^ k
<1> DEFINE S == 1..k
           T == 1..(k + 1)
           f == [X \in SUBSET S |-> X \cup {k + 1}]
           A == {X \cup {k + 1} : X \in SUBSET S}
<1>1. IsFiniteSet(S) /\ Cardinality(S) = k /\ IsFiniteSet(T) /\ Cardinality(T) = k + 1
  BY FS_Interval
<1>2. /\ IsFiniteSet(SUBSET S) /\ Cardinality(SUBSET S) = 2 ^ k
      /\ Cardinality(SUBSET T) = 2 ^ (k + 1)
  BY <1>1, FS_SUBSET
<1>3. T = S \cup {k + 1} /\ ~(k + 1 \in S)
  OBVIOUS
<1> HIDE DEF S, T
<1>4. f \in Bijection(SUBSET S, A)
  <2>1. f \in [SUBSET S -> A]
    OBVIOUS
  <2>2. \A X, Y \in SUBSET S : f[X] = f[Y] => X = Y
    <3> SUFFICES ASSUME NEW X \in SUBSET S, NEW Y \in SUBSET S, f[X] = f[Y] PROVE X = Y
      OBVIOUS
    <3>1. X \cup {k + 1} = Y \cup {k + 1}
      OBVIOUS
    <3> QED BY <3>1, <1>3
  <2>3. \A Z \in A : \E X \in SUBSET S : f[X] = Z
    OBVIOUS
  <2> HIDE DEF f, A
  <2> QED BY <2>1, <2>2, <2>3 DEF Bijection, Injection, Surjection, IsInjective
<1>5. IsFiniteSet(A) /\ Cardinality(A) = 2 ^ k
  <2>1. ExistsBijection(SUBSET S, A)
    BY <1>4 DEF ExistsBijection
  <2> QED BY <2>1, <1>2, FS_Bijection
<1>6. SUBSET T = (SUBSET S) \cup A
  <2>1. ASSUME NEW Z \in SUBSET T PROVE Z \in (SUBSET S) \cup A
    <3>1. CASE k + 1 \in Z
      <4>1. Z = (Z \ {k + 1}) \cup {k + 1} /\ Z \ {k + 1} \in SUBSET S
        BY <3>1, <1>3
      <4> QED BY <4>1
    <3>2. CASE ~(k + 1 \in Z)
      BY <3>2, <1>3
    <3> QED BY <3>1, <3>2
  <2>2. \A X \in SUBSET S : X \in SUBSET T /\ X \cup {k + 1} \in SUBSET T
    BY <1>3
  <2>3. A \subseteq SUBSET T
    BY <2>2
  <2> QED BY <2>1, <2>2, <2>3
<1>7. (SUBSET S) \cap A = {}
  <2>1. \A Z \in A : k + 1 \in Z
    OBVIOUS
  <2> QED BY <2>1, <1>3
<1>8. Cardinality(SUBSET T) = 2 ^ k + 2 ^ k - Cardinality({})
  <2> HIDE DEF A
  <2> QED BY <1>2, <1>5, <1>6, <1>7, FS_Union
<1>9. Cardinality({}) = 0 /\ 2 ^ k \in Nat
  BY <1>2, FS_EmptySet, FS_CardinalityType
<1>10. PICK e \in Nat : e = 2 ^ k
  BY <1>9
<1>11. 2 ^ (k + 1) = e + e - 0
  BY <1>2, <1>8, <1>9, <1>10
<1> QED BY <1>10, <1>11

\* No power of two is zero, and the first one is 1.
LEMMA PowerOK ==
    /\ 2 ^ 0 = 1
    /\ \A k \in Nat : 2 ^ k \in Nat \ {0} /\ 2 ^ (k + 1) = 2 * 2 ^ k
<1>1. 2 ^ 0 = 1
  OBVIOUS
<1> DEFINE S == {k \in Nat : 2 ^ k \in Nat \ {0}}
<1>2. S = Nat
  <2>1. 0 \in S
    BY <1>1
  <2>2. ASSUME NEW k \in S PROVE k + 1 \in S
    <3>1. PICK e \in Nat \ {0} : e = 2 ^ k
      OBVIOUS
    <3>2. 2 ^ (k + 1) = 2 * e
      BY <3>1, PowerDoubles
    <3> QED BY <3>2
  <2> HIDE DEF S
  <2>3. S \subseteq Nat
    BY DEF S
  <2> QED BY <2>1, <2>2, <2>3, Induction
<1>3. \A k \in Nat : 2 ^ k \in Nat \ {0}
  BY <1>2
<1>4. \A k \in Nat : 2 ^ (k + 1) = 2 * 2 ^ k
  BY PowerDoubles
<1> QED BY <1>1, <1>3, <1>4

\* The power of a sum is the product of the powers.
LEMMA PowerSum ==
    ASSUME NEW s \in Nat, NEW k \in Nat
    PROVE  2 ^ (s + k) = 2 ^ s * 2 ^ k
<1> DEFINE S == {j \in Nat : 2 ^ (s + j) = 2 ^ s * 2 ^ j}
<1>1. PICK a \in Nat \ {0} : a = 2 ^ s
  BY PowerOK
<1>2. 0 \in S
  <2>1. 2 ^ (s + 0) = a * 1
    BY <1>1
  <2> QED BY <2>1, <1>1, PowerOK
<1>3. ASSUME NEW j \in S PROVE j + 1 \in S
  <2>1. PICK e \in Nat \ {0} : e = 2 ^ j
    BY PowerOK
  <2>2. 2 ^ (s + j) = a * e
    BY <1>1, <2>1
  <2>3. 2 ^ ((s + j) + 1) = 2 * (a * e)
    BY <2>2, PowerOK, s + j \in Nat
  <2>4. 2 ^ (j + 1) = 2 * e
    BY <2>1, PowerOK
  <2>5. (s + j) + 1 = s + (j + 1) /\ 2 * (a * e) = a * (2 * e)
    OBVIOUS
  <2> QED BY <1>1, <2>3, <2>4, <2>5
<1>4. S \subseteq Nat
  OBVIOUS
<1> HIDE DEF S
<1>5. k \in S
  BY <1>2, <1>3, <1>4, Induction
<1> QED BY <1>5 DEF S

----------------------------------------------------------------------------
(* Bits.                                                                   *)

\* A bit is 0 or 1.
LEMMA BitType ==
    ASSUME NEW x \in Nat, NEW j \in Nat
    PROVE  Perm!Bit(x, j) \in {0, 1}
<1>1. PICK e \in Nat \ {0} : e = 2 ^ j
  BY PowerOK
<1>2. PICK q \in Nat : q = x \div e
  BY <1>1, Division
<1>3. q % 2 \in {0, 1}
  OBVIOUS
<1> QED BY <1>1, <1>2, <1>3 DEF Perm!Bit

\* A shift moves the bits down.
LEMMA BitShift ==
    ASSUME NEW x \in Nat, NEW s \in Nat, NEW j \in Nat
    PROVE  /\ x \div 2 ^ s \in Nat
           /\ Perm!Bit(x \div 2 ^ s, j) = Perm!Bit(x, j + s)
<1>1. PICK c \in Nat \ {0}, e \in Nat \ {0} : c = 2 ^ s /\ e = 2 ^ j
  BY PowerOK
<1>2. 2 ^ (s + j) = c * e
  BY <1>1, PowerSum
<1>3. (x \div c) \div e = x \div (c * e) /\ x \div c \in Nat
  BY DividedTwice, Division
<1>4. s + j = j + s
  OBVIOUS
<1> QED BY <1>1, <1>2, <1>3, <1>4 DEF Perm!Bit

\* The lowest bit is the parity, and the others are those of the half.
LEMMA BitHalf ==
    ASSUME NEW x \in Nat
    PROVE  /\ Perm!Bit(x, 0) = x % 2
           /\ x \div 2 \in Nat
           /\ \A j \in Nat : Perm!Bit(x, j + 1) = Perm!Bit(x \div 2, j)
<1>1. Perm!Bit(x, 0) = x % 2
  BY PowerOK DEF Perm!Bit
<1>2. 2 ^ 1 = 2
  OBVIOUS
<1>3. \A j \in Nat : x \div 2 ^ 1 \in Nat /\ Perm!Bit(x \div 2 ^ 1, j) = Perm!Bit(x, j + 1)
  BY BitShift
<1> QED BY <1>1, <1>2, <1>3

\* A number below 2^k has no bit from k on.
LEMMA HighBits ==
    ASSUME NEW k \in Nat, NEW x \in 0..(2 ^ k - 1), NEW j \in Nat, j >= k
    PROVE  x \in Nat /\ Perm!Bit(x, j) = 0
<1>1. PICK c \in Nat \ {0}, e \in Nat \ {0} : c = 2 ^ k /\ e = 2 ^ (j - k)
  BY PowerOK
<1>2. 2 ^ (k + (j - k)) = c * e
  BY <1>1, PowerSum
<1>3. k + (j - k) = j
  OBVIOUS
<1>4. PICK m \in Nat \ {0} : m = c * e
  OBVIOUS
<1>5. m >= c
  BY <1>4
<1>6. x \in 0..(c - 1)
  BY <1>1
<1>7. x \div m = 0
  BY <1>5, <1>6
<1>8. 2 ^ j = m
  BY <1>2, <1>3, <1>4
<1> QED BY <1>6, <1>7, <1>8 DEF Perm!Bit

\* x and y agree in their k lowest bits.
SameBits(k, x, y) == \A j \in 0..(k - 1) : Perm!Bit(x, j) = Perm!Bit(y, j)

\* Numbers below 2^k with the same bits are the same.
LEMMA BitsDetermine ==
    ASSUME NEW k \in Nat, NEW x \in 0..(2 ^ k - 1), NEW y \in 0..(2 ^ k - 1),
           SameBits(k, x, y)
    PROVE  x = y
<1> DEFINE S == {h \in Nat : \A u, v \in 0..(2 ^ h - 1) : SameBits(h, u, v) => u = v}
<1>1. 0 \in S
  BY PowerOK
<1>2. ASSUME NEW h \in S PROVE h + 1 \in S
  <2>1. PICK e \in Nat \ {0} : e = 2 ^ h /\ 2 ^ (h + 1) = 2 * e
    BY PowerOK
  <2>2. SUFFICES ASSUME NEW u \in 0..(2 * e - 1), NEW v \in 0..(2 * e - 1),
                        SameBits(h + 1, u, v)
                 PROVE  u = v
    BY <2>1
  <2>3. u \div 2 \in 0..(e - 1) /\ v \div 2 \in 0..(e - 1)
    OBVIOUS
  <2>4. Perm!Bit(u, 0) = Perm!Bit(v, 0)
    BY <2>2 DEF SameBits
  <2>5. u \in Nat /\ v \in Nat /\ u % 2 = v % 2
    BY <2>4, BitHalf, u \in Nat, v \in Nat
  <2>6. SameBits(h, u \div 2, v \div 2)
    <3> SUFFICES ASSUME NEW j \in 0..(h - 1)
                 PROVE  Perm!Bit(u \div 2, j) = Perm!Bit(v \div 2, j)
      BY DEF SameBits
    <3>1. Perm!Bit(u, j + 1) = Perm!Bit(v, j + 1) /\ j \in Nat
      BY <2>2 DEF SameBits
    <3> QED BY <3>1, <2>5, BitHalf
  <2>7. u \div 2 = v \div 2
    BY <2>1, <2>3, <2>6
  <2>8. u = 2 * (u \div 2) + (u % 2) /\ v = 2 * (v \div 2) + (v % 2)
    OBVIOUS
  <2> QED BY <2>5, <2>7, <2>8
<1>3. S \subseteq Nat
  OBVIOUS
<1> HIDE DEF S
<1>4. k \in S
  BY <1>1, <1>2, <1>3, Induction
<1> QED BY <1>4 DEF S

\* z has the bits of the exclusive or of x and y.
IsXor(z, x, y) ==
    \A j \in Nat : Perm!Bit(z, j) = (Perm!Bit(x, j) + Perm!Bit(y, j)) % 2

\* Below 2^k there is an exclusive or of any two numbers.
LEMMA XorExists ==
    ASSUME NEW k \in Nat, NEW x \in 0..(2 ^ k - 1), NEW y \in 0..(2 ^ k - 1)
    PROVE  \E z \in 0..(2 ^ k - 1) : IsXor(z, x, y)
<1> DEFINE S == {h \in Nat : \A u, v \in 0..(2 ^ h - 1) :
                    \E z \in 0..(2 ^ h - 1) : IsXor(z, u, v)}
<1>1. 0 \in S
  <2> SUFFICES ASSUME NEW u \in 0..(2 ^ 0 - 1), NEW v \in 0..(2 ^ 0 - 1)
               PROVE  IsXor(0, u, v) /\ 0 \in 0..(2 ^ 0 - 1)
    OBVIOUS
  <2>1. u = 0 /\ v = 0 /\ 0 \in 0..(2 ^ 0 - 1)
    BY PowerOK
  <2>2. \A j \in Nat : Perm!Bit(0, j) = 0
    <3> SUFFICES ASSUME NEW j \in Nat PROVE Perm!Bit(0, j) = 0
      OBVIOUS
    <3>1. j >= 0 /\ 0 \in Nat
      OBVIOUS
    <3> QED BY <3>1, <2>1, HighBits
  <2>3. (0 + 0) % 2 = 0
    OBVIOUS
  <2> QED BY <2>1, <2>2, <2>3 DEF IsXor
<1>2. ASSUME NEW h \in S PROVE h + 1 \in S
  <2>1. PICK e \in Nat \ {0} : e = 2 ^ h /\ 2 ^ (h + 1) = 2 * e
    BY PowerOK
  <2>2. SUFFICES \A u, v \in 0..(2 ^ (h + 1) - 1) :
                    \E z \in 0..(2 ^ (h + 1) - 1) : IsXor(z, u, v)
    OBVIOUS
  <2> SUFFICES ASSUME NEW u \in 0..(2 * e - 1), NEW v \in 0..(2 * e - 1)
               PROVE  \E z \in 0..(2 * e - 1) : IsXor(z, u, v)
    BY <2>1
  <2>3. u \div 2 \in 0..(e - 1) /\ v \div 2 \in 0..(e - 1)
    OBVIOUS
  <2>4. PICK t \in 0..(e - 1) : IsXor(t, u \div 2, v \div 2)
    BY <2>1, <2>3
  <2>5. PICK c \in {0, 1} : c = ((u % 2) + (v % 2)) % 2
    OBVIOUS
  <2>6. PICK z \in 0..(2 * e - 1) : z = 2 * t + c
    OBVIOUS
  <2>7. z \div 2 = t /\ z % 2 = c
    BY <2>6
  <2>8. IsXor(z, u, v)
    <3> SUFFICES ASSUME NEW j \in Nat
                 PROVE  Perm!Bit(z, j) = (Perm!Bit(u, j) + Perm!Bit(v, j)) % 2
      BY DEF IsXor
    <3>1. CASE j = 0
      <4>1. /\ Perm!Bit(z, 0) = z % 2 /\ Perm!Bit(u, 0) = u % 2
            /\ Perm!Bit(v, 0) = v % 2
        BY BitHalf, z \in Nat, u \in Nat, v \in Nat
      <4> QED BY <3>1, <4>1, <2>5, <2>7
    <3>2. CASE j # 0
      <4>1. PICK g \in Nat : j = g + 1
        BY <3>2
      <4>2. Perm!Bit(t, g) = (Perm!Bit(u \div 2, g) + Perm!Bit(v \div 2, g)) % 2
        BY <2>4 DEF IsXor
      <4>3. /\ Perm!Bit(z, g + 1) = Perm!Bit(z \div 2, g)
            /\ Perm!Bit(u, g + 1) = Perm!Bit(u \div 2, g)
            /\ Perm!Bit(v, g + 1) = Perm!Bit(v \div 2, g)
        BY BitHalf, z \in Nat, u \in Nat, v \in Nat
      <4> QED BY <4>1, <4>2, <4>3, <2>7
    <3> QED BY <3>1, <3>2
  <2> QED BY <2>8
<1>3. S \subseteq Nat
  OBVIOUS
<1> HIDE DEF S
<1>4. k \in S
  BY <1>1, <1>2, <1>3, Induction
<1> QED BY <1>4 DEF S

----------------------------------------------------------------------------
(* The statements of the loop lose nothing of a value within the mask.     *)

\* The mask is one below a power of two that the word holds.
MaskOf(k) == k \in 1..WordBits /\ mask \in Nat /\ mask = 2 ^ k - 1

\* Xor is the exclusive or, in all bits.
LEMMA XorOK ==
    ASSUME NEW k, MaskOf(k), NEW x \in 0..mask, NEW y \in 0..mask
    PROVE  /\ Perm!Xor(x, y) \in 0..mask
           /\ IsXor(Perm!Xor(x, y), x, y)
<1> DEFINE Right(z) == \A j \in 0..(WordBits - 1) :
                          Perm!Bit(z, j) = (Perm!Bit(x, j) + Perm!Bit(y, j)) % 2
<1>0. k \in Nat /\ mask = 2 ^ k - 1 /\ k <= WordBits /\ WordBits \in Nat
  BY KenslerAssumption DEF MaskOf
<1>1. PICK z \in 0..mask : IsXor(z, x, y)
  BY <1>0, XorExists
<1>2. Right(z)
  BY <1>1, <1>0 DEF IsXor
<1>3. Perm!Xor(x, y) = CHOOSE u \in 0..mask : Right(u)
  BY DEF Perm!Xor
<1> HIDE DEF Right
<1>4. PICK u \in 0..mask : u = Perm!Xor(x, y) /\ Right(u)
  BY <1>2, <1>3
<1>5. SameBits(k, u, z)
  <2> SUFFICES ASSUME NEW j \in 0..(k - 1) PROVE Perm!Bit(u, j) = Perm!Bit(z, j)
    BY DEF SameBits
  <2>1. j \in 0..(WordBits - 1) /\ j \in Nat
    BY <1>0
  <2> QED BY <2>1, <1>1, <1>4 DEF Right, IsXor
<1>6. u = z
  BY <1>0, <1>5, BitsDetermine
<1> QED BY <1>1, <1>4, <1>6

\* Adding the same number to two bits does not make them equal.
LEMMA BitCancel ==
    ASSUME NEW c \in {0, 1}, NEW d \in {0, 1}, NEW e \in {0, 1},
           (c + e) % 2 = (d + e) % 2
    PROVE  c = d
  OBVIOUS

\* i ^= c loses nothing.
LEMMA XorInjective ==
    ASSUME NEW k, MaskOf(k), NEW x \in 0..mask, NEW y \in 0..mask, NEW e \in 0..mask,
           Perm!Xor(x, e) = Perm!Xor(y, e)
    PROVE  x = y
<1>0. k \in Nat /\ mask = 2 ^ k - 1 /\ mask \in Nat
  BY KenslerAssumption DEF MaskOf
<1>1. IsXor(Perm!Xor(x, e), x, e) /\ IsXor(Perm!Xor(x, e), y, e)
  BY XorOK
<1>2. SameBits(k, x, y)
  <2> SUFFICES ASSUME NEW j \in 0..(k - 1) PROVE Perm!Bit(x, j) = Perm!Bit(y, j)
    BY DEF SameBits
  <2>1. j \in Nat
    BY <1>0
  <2>2. /\ Perm!Bit(x, j) \in {0, 1} /\ Perm!Bit(y, j) \in {0, 1}
        /\ Perm!Bit(e, j) \in {0, 1}
    BY <1>0, <2>1, BitType
  <2>3. (Perm!Bit(x, j) + Perm!Bit(e, j)) % 2 = (Perm!Bit(y, j) + Perm!Bit(e, j)) % 2
    BY <1>1, <2>1 DEF IsXor
  <2> QED BY <2>2, <2>3, BitCancel
<1> QED BY <1>0, <1>2, BitsDetermine

\* The exclusive or with itself, shifted: the highest bit in which two values
\* differ is one in which the results differ.
LEMMA ShiftXorInjective ==
    ASSUME NEW k, MaskOf(k), NEW x \in 0..mask, NEW y \in 0..mask, NEW s \in Nat \ {0},
           Perm!Xor(x, x \div 2 ^ s) = Perm!Xor(y, y \div 2 ^ s),
           x \div 2 ^ s \in 0..mask, y \div 2 ^ s \in 0..mask
    PROVE  x = y
<1>0. k \in Nat /\ mask = 2 ^ k - 1 /\ mask \in Nat /\ x \in Nat /\ y \in Nat
  BY KenslerAssumption DEF MaskOf
<1> DEFINE Same(j) == Perm!Bit(x, j) = Perm!Bit(y, j)
           T == {t \in Nat : \A j \in Nat : j >= t => Same(j)}
<1>1. k \in T
  <2> SUFFICES ASSUME NEW j \in Nat, j >= k PROVE Same(j)
    BY <1>0
  <2> QED BY <1>0, HighBits
<1>2. PICK t \in T : \A u \in T : t <= u
  BY <1>1, LeastElement, T \subseteq Nat, T # {}
<1>3. ASSUME NEW j \in Nat, Same(j + s) PROVE Same(j)
  <2>1. /\ IsXor(Perm!Xor(x, x \div 2 ^ s), x, x \div 2 ^ s)
        /\ IsXor(Perm!Xor(x, x \div 2 ^ s), y, y \div 2 ^ s)
    BY XorOK
  <2>2. /\ Perm!Bit(x \div 2 ^ s, j) = Perm!Bit(x, j + s)
        /\ Perm!Bit(y \div 2 ^ s, j) = Perm!Bit(y, j + s)
    BY <1>0, BitShift
  <2>3. (Perm!Bit(x, j) + Perm!Bit(x, j + s)) % 2 = (Perm!Bit(y, j) + Perm!Bit(x, j + s)) % 2
    BY <2>1, <2>2, <1>3 DEF IsXor
  <2>4. /\ Perm!Bit(x, j) \in {0, 1} /\ Perm!Bit(y, j) \in {0, 1}
        /\ Perm!Bit(x, j + s) \in {0, 1}
    BY <1>0, BitType, j + s \in Nat
  <2> QED BY <2>3, <2>4, BitCancel
<1>4. t = 0
  <2>1. SUFFICES ASSUME t # 0 PROVE FALSE
    OBVIOUS
  <2>2. t - 1 \in Nat /\ ~(t - 1 \in T)
    BY <1>2, <2>1
  <2>3. \A j \in Nat : j >= t - 1 => Same(j)
    <3> SUFFICES ASSUME NEW j \in Nat, j >= t - 1 PROVE Same(j)
      OBVIOUS
    <3>1. j + s \in Nat /\ j + s >= t
      OBVIOUS
    <3>2. Same(j + s)
      BY <3>1
    <3> QED BY <3>2, <1>3
  <2> QED BY <2>2, <2>3
<1>5. SameBits(k, x, y)
  BY <1>4, <1>0 DEF SameBits
<1> QED BY <1>0, <1>5, BitsDetermine

\* The product of odd numbers is odd.
LEMMA OddTimes ==
    ASSUME NEW d \in Nat, NEW c \in Nat, c % 2 = 1, NEW t \in Nat, d * c = 2 * t
    PROVE  \E e \in Nat : d = 2 * e
<1>1. PICK g \in Nat : c = 2 * g + 1
  <2>1. c \div 2 \in Nat /\ c = 2 * (c \div 2) + 1
    OBVIOUS
  <2> QED BY <2>1
<1>2. PICK h \in Nat : h = d * g
  OBVIOUS
<1>3. d * c = 2 * h + d
  BY <1>1, <1>2
<1>4. d = 2 * (t - h)
  BY <1>3
<1>5. t - h \in Nat
  BY <1>4
<1> QED BY <1>4, <1>5

\* A product that the provers are to take as it is.
Product(x, y) == x * y

\* An even multiple of an odd number has an even cofactor, and can be halved.
LEMMA OddHalf ==
    ASSUME NEW f \in Nat, NEW c \in Nat, c % 2 = 1, NEW u \in Nat, NEW e \in Nat,
           Product(f, c) = 2 * Product(u, e)
    PROVE  f % 2 = 0 /\ Product(f \div 2, c) = Product(u, e)
<1>1. PICK t \in Nat : t = u * e
  OBVIOUS
<1>2. f * c = 2 * t
  BY <1>1 DEF Product
<1>3. \E g \in Nat : f = 2 * g
  BY ONLY f \in Nat, c \in Nat, c % 2 = 1, t \in Nat, <1>2, OddTimes
<1>4. PICK g \in Nat : f = 2 * g
  BY <1>3
<1>5. PICK y \in Nat : y = g * c
  OBVIOUS
<1>6. f * c = 2 * y
  BY <1>4, <1>5
<1>7. y = t
  BY <1>2, <1>6
<1>8. f \div 2 = g /\ f % 2 = 0
  BY <1>4
<1> QED BY <1>1, <1>4, <1>5, <1>7, <1>8 DEF Product

\* c leaves no remainder modulo e that a value below e could lose.
Cancels(c, e) ==
    \A f \in 0..(e - 1) : \A u \in Nat : Product(f, c) = Product(u, e) => f = 0

\* What cancels modulo e cancels modulo 2e when the factor is odd.
LEMMA CancelsTwice ==
    ASSUME NEW c \in Nat, c % 2 = 1, NEW e \in Nat \ {0}, Cancels(c, e)
    PROVE  Cancels(c, 2 * e)
<1>1. SUFFICES ASSUME NEW f \in Nat, f < 2 * e, NEW u \in Nat,
                     Product(f, c) = Product(u, 2 * e)
              PROVE  f = 0
  BY DEF Cancels
<1>0. Product(u, 2 * e) = 2 * Product(u, e)
  BY DEF Product
<1>2. f % 2 = 0 /\ Product(f \div 2, c) = Product(u, e)
  BY <1>0, <1>1, OddHalf
<1>3. f \div 2 \in 0..(e - 1)
  BY <1>1, <1>2
<1>4. f \div 2 = 0
  BY <1>2, <1>3 DEF Cancels
<1> QED BY <1>2, <1>4

\* A multiple of 2^k stays one without its odd factor.
LEMMA OddCancel ==
    ASSUME NEW k \in Nat, NEW m \in Nat, 2 ^ k = m, NEW c \in Nat, c % 2 = 1,
           NEW d \in 0..(m - 1), NEW t \in Nat, Product(d, c) = Product(t, m)
    PROVE  d = 0
<1> DEFINE S == {h \in Nat : Cancels(c, 2 ^ h)}
<1>1. 0 \in S
  BY PowerOK DEF Cancels
<1>2. ASSUME NEW h \in S PROVE h + 1 \in S
  <2>1. PICK e \in Nat \ {0} : 2 ^ h = e /\ 2 ^ (h + 1) = 2 * e
    BY PowerOK
  <2>2. Cancels(c, e)
    BY <2>1
  <2>3. Cancels(c, 2 * e)
    BY <2>2, CancelsTwice
  <2>4. Cancels(c, 2 ^ (h + 1))
    BY <2>1, <2>3
  <2> QED BY <2>4
<1>3. S \subseteq Nat
  OBVIOUS
<1> HIDE DEF S
<1>4. k \in S
  BY <1>1, <1>2, <1>3, Induction
<1>5. Cancels(c, m)
  BY <1>4 DEF S
<1> QED BY <1>5 DEF Cancels

\* Multiplying by an odd number within the mask, for two values of which one is
\* not below the other.
LEMMA OddProduct ==
    ASSUME NEW k \in Nat, NEW c \in Nat, c % 2 = 1, NEW x \in 0..(2 ^ k - 1),
           NEW y \in 0..(2 ^ k - 1), x >= y, (x * c) % 2 ^ k = (y * c) % 2 ^ k
    PROVE  x = y
<1>1. PICK e \in Nat \ {0} : e = 2 ^ k
  BY PowerOK
<1>2. x \in Nat /\ y \in Nat /\ x < e /\ x - y \in Nat
  BY <1>1
<1>3. PICK xc \in Nat, yc \in Nat : xc = x * c /\ yc = y * c
  BY <1>2
<1>4. PICK q \in Nat, r \in Nat : xc = q * e + r /\ r = xc % e
  <2>1. xc \div e \in Nat /\ xc % e \in Nat /\ xc = (xc \div e) * e + (xc % e)
    BY Division
  <2> QED BY <2>1
<1>5. PICK g \in Nat : yc = g * e + r
  <2>1. r = yc % e
    BY <1>1, <1>3, <1>4
  <2>2. yc \div e \in Nat /\ yc = (yc \div e) * e + (yc % e)
    BY Division
  <2> QED BY <2>1, <2>2
<1>6. (x - y) * c = xc - yc /\ xc - yc >= 0
  BY <1>2, <1>3
<1>7. xc - yc = (q - g) * e
  BY <1>4, <1>5
<1>8. q - g \in Nat
  BY <1>6, <1>7
<1>9. x - y = 0
  <2>1. PICK d \in 0..(e - 1), t \in Nat : d = x - y /\ t = q - g
    BY <1>2, <1>8
  <2>2. Product(d, c) = Product(t, e)
    BY <1>6, <1>7, <2>1 DEF Product
  <2>3. 2 ^ k = e
    BY <1>1
  <2>4. d = 0
    BY <2>2, <2>3, OddCancel
  <2> QED BY <2>1, <2>4
<1> QED BY <1>2, <1>9

\* The factor is odd within the mask as well, which is why a product loses nothing.
LEMMA ProductInjective ==
    ASSUME NEW k, MaskOf(k), NEW c \in Nat, c % 2 = 1, NEW x \in 0..mask, NEW y \in 0..mask,
           (x * (c % (mask + 1))) % (mask + 1) = (y * (c % (mask + 1))) % (mask + 1)
    PROVE  x = y
<1>1. k \in Nat \ {0} /\ mask = 2 ^ k - 1 /\ mask \in Nat
  BY KenslerAssumption DEF MaskOf
<1>2. PICK h \in Nat : k = h + 1
  BY <1>1
<1>3. PICK e \in Nat \ {0} : e = 2 ^ h /\ 2 ^ k = 2 * e
  BY <1>2, PowerOK
<1>4. mask + 1 = 2 ^ k
  BY <1>1, <1>3
<1>5. PICK f \in Nat : f = c % (2 * e)
  BY <1>3
<1>6. f % 2 = 1
  <2>1. PICK q \in Nat : c = q * (2 * e) + f
    <3>1. PICK m \in Nat \ {0} : m = 2 * e
      OBVIOUS
    <3>2. c \div m \in Nat /\ c = (c \div m) * m + (c % m)
      BY Division
    <3> QED BY <3>1, <3>2, <1>5
  <2>2. PICK qe \in Nat : qe = q * e
    OBVIOUS
  <2>3. c = 2 * qe + f
    BY <2>1, <2>2
  <2> QED BY <2>3
<1>7. (x * f) % 2 ^ k = (y * f) % 2 ^ k
  BY <1>3, <1>4, <1>5
<1>8. x \in 0..(2 ^ k - 1) /\ y \in 0..(2 ^ k - 1) /\ (x >= y \/ y >= x)
  BY <1>1
<1> QED BY <1>1, <1>6, <1>7, <1>8, OddProduct

----------------------------------------------------------------------------
(* The walk of one index.                                                  *)

\* The value after statement a of the loop's body.
After(v, a) ==
    CASE Perm!Body[a] = "xor" -> Perm!Xor(v, (seed \div 2 ^ Perm!Operand[a]) % (mask + 1))
      [] Perm!Body[a] = "mul" -> (v * (Perm!Operand[a] % (mask + 1))) % (mask + 1)
      [] Perm!Body[a] = "shift" -> Perm!Xor(v, v \div 2 ^ Perm!Operand[a])

\* What the operands are.
LEMMA Operands ==
    ASSUME seed \in Nat, NEW a \in 1..17
    PROVE  /\ Perm!Body[a] \in {"xor", "mul", "shift"}
           /\ Perm!Operand[a] \in Nat
           /\ Perm!Body[a] = "mul" => Perm!Operand[a] % 2 = 1
           /\ Perm!Body[a] = "shift" => Perm!Operand[a] # 0
<1>1. /\ \A c \in 1..6 : Factors[c] \in Nat /\ Factors[c] % 2 = 1
  BY KenslerAssumption
<1>2. PICK f \in Nat : f = Perm!SeedFactor /\ f % 2 = 1
  <2>1. PICK g \in Nat : g = seed \div 2 ^ 27
    BY BitShift
  <2>2. g % 2 = 1 \/ (g + 1) % 2 = 1
    OBVIOUS
  <2> QED BY <2>1, <2>2 DEF Perm!SeedFactor
<1>3. Perm!Operand = <<0, Factors[1], 16, 4, 8, Factors[2], 23, 1, f,
             Factors[3], 11, Factors[4], 2, Factors[5], 2, Factors[6], 5>>
  BY <1>2 DEF Perm!Operand
<1> QED BY <1>1, <1>2, <1>3 DEF Perm!Body

\* The loop's body has seventeen statements.
LEMMA BodyLength == Len(Perm!Body) = 17
  BY DEF Perm!Body

\* A shift does not leave the mask.
LEMMA ShiftBelow ==
    ASSUME mask \in Nat, NEW x \in 0..mask, NEW s \in Nat
    PROVE  x \div 2 ^ s \in 0..mask
<1>1. PICK e \in Nat \ {0} : e = 2 ^ s
  BY PowerOK
<1>2. PICK q \in Nat, r \in 0..(e - 1) : q = x \div e /\ x = q * e + r
  BY Division, x \in Nat
<1>3. q * e >= q
  OBVIOUS
<1>4. q <= x
  BY <1>2, <1>3
<1> QED BY <1>1, <1>2, <1>4

\* A statement keeps the value within the mask, and different values different.
LEMMA AfterOK ==
    ASSUME NEW k, MaskOf(k), seed \in Nat, NEW a \in 1..17, NEW x \in 0..mask
    PROVE  After(x, a) \in 0..mask
<1>1. mask \in Nat /\ mask + 1 \in Nat \ {0}
  BY DEF MaskOf
<1>2. PICK o \in Nat : o = Perm!Operand[a]
  BY Operands
<1>3. CASE Perm!Body[a] = "xor"
  <2>1. seed \div 2 ^ o \in Nat
    BY BitShift
  <2>2. (seed \div 2 ^ o) % (mask + 1) \in 0..mask
    BY <1>1, <2>1, Division
  <2> QED BY <1>2, <1>3, <2>2, XorOK DEF After
<1>4. CASE Perm!Body[a] = "mul"
  <2>1. PICK f \in Nat : f = o % (mask + 1)
    BY <1>1
  <2>2. (x * f) % (mask + 1) \in 0..mask
    BY <1>1
  <2> QED BY <1>2, <1>4, <2>1, <2>2 DEF After
<1>5. CASE Perm!Body[a] = "shift"
  <2>1. x \div 2 ^ o \in 0..mask
    BY <1>1, ShiftBelow
  <2> QED BY <1>2, <1>5, <2>1, XorOK DEF After
<1> QED BY <1>3, <1>4, <1>5, Operands

\* No statement takes two values to the same one.
LEMMA AfterInjective ==
    ASSUME NEW k, MaskOf(k), seed \in Nat, NEW a \in 1..17, NEW x \in 0..mask,
           NEW y \in 0..mask, After(x, a) = After(y, a)
    PROVE  x = y
<1>1. mask \in Nat /\ mask + 1 \in Nat \ {0}
  BY DEF MaskOf
<1>2. PICK o \in Nat : o = Perm!Operand[a]
  BY Operands
<1>3. CASE Perm!Body[a] = "xor"
  <2>1. seed \div 2 ^ o \in Nat
    BY BitShift
  <2>2. (seed \div 2 ^ o) % (mask + 1) \in 0..((mask + 1) - 1)
    BY <1>1, <2>1, Division
  <2>. PICK e \in 0..mask : e = (seed \div 2 ^ o) % (mask + 1)
    BY <1>1, <2>2
  <2>3. Perm!Xor(x, e) = Perm!Xor(y, e)
    BY <1>2, <1>3 DEF After
  <2> QED BY <2>3, XorInjective
<1>4. CASE Perm!Body[a] = "mul"
  <2>1. o % 2 = 1
    BY <1>2, <1>4, Operands
  <2>2. (x * (o % (mask + 1))) % (mask + 1) = (y * (o % (mask + 1))) % (mask + 1)
    BY <1>2, <1>4 DEF After
  <2> QED BY <2>1, <2>2, ProductInjective
<1>5. CASE Perm!Body[a] = "shift"
  <2>1. x \div 2 ^ o \in 0..mask /\ y \div 2 ^ o \in 0..mask
    BY <1>1, ShiftBelow
  <2>2. o # 0
    BY <1>2, <1>5, Operands
  <2>3. Perm!Xor(x, x \div 2 ^ o) = Perm!Xor(y, y \div 2 ^ o)
    BY <1>2, <1>5 DEF After
  <2> QED BY <2>1, <2>2, <2>3, ShiftXorInjective
<1> QED BY <1>3, <1>4, <1>5, Operands

\* The states of the walk, of which the last one of a pass that lands below the length
\* is where it ends; and the step from any other one.
Walk == (0..mask) \X (1..18)
Landed(q) == q[2] = 18 /\ q[1] < len
Onward(q) == IF q[2] = 18 THEN <<q[1], 1>> ELSE <<After(q[1], q[2]), q[2] + 1>>

\* A set of states that the walk does not leave, and what the walk of index k reaches:
\* what is in every one of them that has its start.
Closed(P) == P \subseteq Walk /\ \A q \in P : ~Landed(q) => Onward(q) \in P
Reaches(k, q) == q \in Walk /\ \A P \in SUBSET Walk : <<k, 1>> \in P /\ Closed(P) => q \in P

\* The state that the walk needs: a mask, a seed and a length that fit each other.
PermOK ==
    /\ \E k : MaskOf(k)
    /\ seed \in Nat
    /\ len \in 1..(mask + 1)

\* A step of the walk stays within its states.
LEMMA OnwardOK ==
    ASSUME PermOK, NEW q \in Walk
    PROVE  Onward(q) \in Walk
<1>1. PICK k : MaskOf(k)
  BY DEF PermOK
<1>2. seed \in Nat /\ q[1] \in 0..mask /\ q[2] \in 1..18
  BY DEF PermOK, Walk
<1>3. CASE q[2] = 18
  BY <1>2, <1>3 DEF Onward, Walk
<1>4. CASE q[2] # 18
  <2>1. q[2] \in 1..17 /\ q[2] + 1 \in 1..18
    BY <1>2, <1>4
  <2>2. After(q[1], q[2]) \in 0..mask
    BY <1>1, <1>2, <2>1, AfterOK
  <2> QED BY <1>4, <2>1, <2>2 DEF Onward, Walk
<1> QED BY <1>3, <1>4

\* No two states lead to the same one: the walk can be followed backwards.
LEMMA OnwardInjective ==
    ASSUME PermOK, NEW q \in Walk, NEW r \in Walk, Onward(q) = Onward(r)
    PROVE  q = r
<1>1. PICK k : MaskOf(k)
  BY DEF PermOK
<1>2. PICK v \in 0..mask, a \in 1..18 : q = <<v, a>>
  BY DEF Walk
<1>3. PICK u \in 0..mask, c \in 1..18 : r = <<u, c>>
  BY DEF Walk
<1>4. CASE a = 18 /\ c = 18
  BY <1>2, <1>3, <1>4 DEF Onward
<1>5. CASE a # 18 /\ c # 18
  <2>1. After(v, a) = After(u, c) /\ a + 1 = c + 1
    BY <1>2, <1>3, <1>5 DEF Onward
  <2>2. a = c /\ a \in 1..17
    BY <2>1, <1>5
  <2>3. v = u
    BY <1>1, <2>1, <2>2, AfterInjective DEF PermOK
  <2> QED BY <1>2, <1>3, <2>2, <2>3
<1>6. CASE (a = 18) # (c = 18)
  BY <1>2, <1>3, <1>6 DEF Onward
<1> QED BY <1>4, <1>5, <1>6

\* Nothing leads to where an index starts but where a walk ends.
LEMMA NothingBefore ==
    ASSUME PermOK, NEW k \in 0..(len - 1), NEW q \in Walk, Onward(q) = <<k, 1>>
    PROVE  Landed(q)
<1>1. PICK v \in 0..mask, a \in 1..18 : q = <<v, a>>
  BY DEF Walk
<1>2. a = 18
  BY <1>1 DEF Onward
<1>3. v = k
  BY <1>1, <1>2 DEF Onward
<1> QED BY <1>1, <1>2, <1>3 DEF Landed, PermOK

\* A walk reaches its start,
LEMMA ReachesStart ==
    ASSUME PermOK, NEW k \in 0..(len - 1)
    PROVE  Reaches(k, <<k, 1>>)
<1>1. k \in 0..mask
  BY DEF PermOK, MaskOf
<1> QED BY <1>1 DEF Reaches, Walk

\* and with a state that is not its end the next one.
LEMMA ReachesNext ==
    ASSUME PermOK, NEW k, NEW q, Reaches(k, q), ~Landed(q)
    PROVE  Reaches(k, Onward(q))
<1>1. q \in Walk /\ Onward(q) \in Walk
  BY OnwardOK DEF Reaches
<1>2. ASSUME NEW P \in SUBSET Walk, <<k, 1>> \in P, Closed(P) PROVE Onward(q) \in P
  <2>1. q \in P
    BY <1>2 DEF Reaches
  <2> QED BY <1>2, <2>1 DEF Closed
<1> QED BY <1>1, <1>2 DEF Reaches

\* What a walk reaches is its start, or follows something it reaches.
LEMMA ReachesFrom ==
    ASSUME PermOK, NEW k \in 0..(len - 1), NEW r, Reaches(k, r)
    PROVE  \/ r = <<k, 1>>
           \/ \E q \in Walk : Reaches(k, q) /\ ~Landed(q) /\ r = Onward(q)
<1> DEFINE From(t) == \/ t = <<k, 1>>
                      \/ \E q \in Walk : Reaches(k, q) /\ ~Landed(q) /\ t = Onward(q)
           P == {t \in Walk : Reaches(k, t) /\ From(t)}
<1>1. <<k, 1>> \in P
  <2>1. Reaches(k, <<k, 1>>)
    BY ReachesStart
  <2>2. <<k, 1>> \in Walk
    BY <2>1 DEF Reaches
  <2> QED BY <2>1, <2>2
<1>2. Closed(P)
  <2>1. SUFFICES ASSUME NEW q \in P, ~Landed(q) PROVE Onward(q) \in P
    BY DEF Closed
  <2>2. q \in Walk /\ Reaches(k, q)
    OBVIOUS
  <2>3. Reaches(k, Onward(q)) /\ Onward(q) \in Walk
    BY <2>1, <2>2, ReachesNext, OnwardOK
  <2>4. From(Onward(q))
    BY <2>1, <2>2
  <2> QED BY <2>3, <2>4
<1>3. P \in SUBSET Walk
  OBVIOUS
<1> HIDE DEF P
<1>4. r \in P
  BY <1>1, <1>2, <1>3 DEF Reaches
<1> QED BY <1>4 DEF P

\* The walks of two indices have no state in common.
LEMMA WalksApart ==
    ASSUME PermOK, NEW j \in 0..(len - 1), NEW k \in 0..(len - 1), j # k, NEW r,
           Reaches(j, r)
    PROVE  ~Reaches(k, r)
<1> DEFINE P == {t \in Walk : Reaches(j, t) /\ ~Reaches(k, t)}
<1>1. <<j, 1>> \in P
  <2>1. Reaches(j, <<j, 1>>) /\ <<j, 1>> \in Walk
    BY ReachesStart DEF Reaches
  <2>2. SUFFICES ASSUME Reaches(k, <<j, 1>>) PROVE FALSE
    BY <2>1
  <2>3. <<j, 1>> # <<k, 1>>
    OBVIOUS
  <2>4. PICK q \in Walk : ~Landed(q) /\ <<j, 1>> = Onward(q)
    BY <2>2, <2>3, ReachesFrom
  <2> QED BY <2>4, NothingBefore
<1>2. Closed(P)
  <2>1. SUFFICES ASSUME NEW q \in P, ~Landed(q) PROVE Onward(q) \in P
    BY DEF Closed
  <2>2. q \in Walk /\ Reaches(j, q) /\ ~Reaches(k, q)
    OBVIOUS
  <2>3. Reaches(j, Onward(q)) /\ Onward(q) \in Walk
    BY <2>1, <2>2, ReachesNext, OnwardOK
  <2>4. SUFFICES ASSUME Reaches(k, Onward(q)) PROVE FALSE
    BY <2>3
  <2>5. Onward(q) # <<k, 1>>
    BY <2>1, <2>2, NothingBefore
  <2>6. PICK t \in Walk : Reaches(k, t) /\ Onward(q) = Onward(t)
    BY <2>4, <2>5, ReachesFrom
  <2>7. t = q
    BY <2>2, <2>6, OnwardInjective
  <2> QED BY <2>2, <2>6, <2>7
<1>3. P \in SUBSET Walk
  OBVIOUS
<1> HIDE DEF P
<1>4. r \in P
  BY <1>1, <1>2, <1>3 DEF Reaches
<1> QED BY <1>4 DEF P

----------------------------------------------------------------------------
(* The steps of Shuffle.                                                   *)

\* The fields of kensler and the mask stay what NewKensler made them.
LEMMA AfterKept ==
    ASSUME UNCHANGED <<seed, mask>>, NEW v, NEW a
    PROVE  After(v, a)' = After(v, a)
<1>1. ASSUME NEW x, NEW y PROVE Perm!Xor(x, y)' = Perm!Xor(x, y)
  BY DEF Perm!Xor
<1>2. Perm!Operand' = Perm!Operand
  BY DEF Perm!Operand, Perm!SeedFactor
<1>3. Perm!Body' = Perm!Body
  BY DEF Perm!Body
<1> QED BY <1>1, <1>2, <1>3 DEF After

\* What a walk reaches does not change while others are taken.
LEMMA ReachesKept ==
    ASSUME UNCHANGED <<len, seed, mask>>
    PROVE  /\ PermOK => PermOK'
           /\ \A k, q : Reaches(k, q)' <=> Reaches(k, q)
<1>1. PermOK => PermOK'
  BY DEF PermOK, MaskOf
<1>2. Walk' = Walk
  BY DEF Walk
<1>3. ASSUME NEW q PROVE (Landed(q)' <=> Landed(q)) /\ Onward(q)' = Onward(q)
  BY AfterKept DEF Landed, Onward
<1>4. ASSUME NEW P PROVE Closed(P)' <=> Closed(P)
  BY <1>2, <1>3 DEF Closed
<1>5. ASSUME NEW k, NEW q PROVE Reaches(k, q)' <=> Reaches(k, q)
  BY <1>2, <1>4 DEF Reaches
<1> QED BY <1>1, <1>5

\* NewKensler: the mask holds the length, and the word the mask.
LEMMA MaskFits ==
    ASSUME size \in MinL..MaxL, Perm!NewKensler
    PROVE  PermOK
<1>1. /\ MaxL \in Nat /\ MinL \in Nat /\ size < 2 ^ WordBits /\ WordBits \in Nat \ {0}
      /\ size \in MinL..MaxL /\ len = (IF size < 2 THEN 2 ELSE size)
      /\ seed \in 0..(len - 2) /\ mask = Perm!Mask(len)
  BY KenslerAssumption DEF Perm!NewKensler
<1>2. PICK x \in Nat \ {0} : x = len - 1
  BY <1>1
<1>3. x < 2 ^ WordBits
  <2>1. PICK e \in Nat \ {0} : 2 ^ WordBits = 2 * e
    <3>1. PICK h \in Nat : WordBits = h + 1
      BY <1>1
    <3> QED BY <3>1, PowerOK
  <2> QED BY <1>1, <1>2, <2>1
<1> DEFINE T == {k \in Nat : x < 2 ^ k}
<1>4. PICK k \in T : \A j \in T : k <= j
  BY <1>1, <1>3, LeastElement, T \subseteq Nat, T # {}
<1>5. k \in Nat /\ x < 2 ^ k /\ k <= WordBits
  BY <1>1, <1>3, <1>4
<1>6. k # 0
  <2> SUFFICES ASSUME k = 0 PROVE FALSE
    OBVIOUS
  <2>1. x < 1
    BY ONLY <1>5, k = 0, PowerOK
  <2> QED BY <2>1
<1>7. PICK h \in Nat : k = h + 1
  BY <1>5, <1>6
<1>8. PICK e \in Nat \ {0} : 2 ^ h = e /\ 2 ^ k = 2 * e
  BY <1>7, PowerOK
<1>9. e <= x
  <2>1. ~(h \in T)
    BY <1>4, <1>7
  <2> QED BY <2>1, <1>8
<1> DEFINE B == {2 ^ j : j \in 0..WordBits}
           Fits(m) == x < m /\ (m = 1 \/ m \div 2 <= x)
<1>10. 2 ^ k \in B /\ Fits(2 ^ k)
  BY <1>1, <1>5, <1>8, <1>9
<1>11. mask = (CHOOSE m \in B : Fits(m)) - 1
  BY <1>1, <1>2 DEF Perm!Mask
<1> HIDE DEF B, Fits
<1>12. PICK m \in B : Fits(m) /\ mask = m - 1
  BY <1>10, <1>11
<1>13. PICK c \in 0..WordBits : m = 2 ^ c
  BY <1>12 DEF B
<1>14. m \in Nat \ {0} /\ x < m /\ c # 0
  <2>1. c \in Nat /\ m \in Nat \ {0} /\ x < m
    BY <1>1, <1>12, <1>13, PowerOK DEF Fits
  <2>2. m # 1
    BY <2>1
  <2>3. c = 0 => m = 1
    BY <1>13, PowerOK
  <2> QED BY <2>1, <2>2, <2>3
<1>15. MaskOf(c)
  BY <1>1, <1>12, <1>13, <1>14 DEF MaskOf
<1> QED BY <1>1, <1>2, <1>12, <1>14, <1>15 DEF PermOK

\* While an index is shuffled its walk is where the value and the statement are; the
\* indices before it have the places that their walks ended at.
Placed(k) ==
    \E v \in 0..(len - 1) :
       /\ Reaches(k, <<v, 18>>)
       /\ image[k] = ((v + seed) % 2 ^ WordBits) % len
       /\ size = 1 => v = 0

PermInv ==
    /\ PermOK
    /\ size \in MinL..MaxL /\ len = (IF size < 2 THEN 2 ELSE size)
    /\ seed \in 0..(len - 2)
    /\ arg \in 0..size /\ at \in 1..18
    /\ arg < size => Reaches(arg, <<val, at>>) /\ (size = 1 => val = 0)
    /\ DOMAIN image = 0..(arg - 1)
    /\ \A k \in 0..(arg - 1) : Placed(k)

\* A generator whose making failed goes round for ever with its first index, as
\* no value is below its length of zero: it gives nobody a place.
Endless ==
    /\ len = 0 /\ seed = 0 /\ MaskOf(WordBits)
    /\ arg = 0 /\ val \in 0..mask /\ at \in 1..18
    /\ DOMAIN image = {}

\* A failed NewKensler leaves such a generator,
LEMMA InitEndless == Perm!Init /\ Perm!NewKenslerFails => Endless
<1> SUFFICES ASSUME Perm!Init, Perm!NewKenslerFails PROVE Endless
  OBVIOUS
<1>1. /\ len = 0 /\ seed = 0 /\ mask = 2 ^ WordBits - 1 /\ arg = 0 /\ val = 0 /\ at = 1
      /\ image = [k \in {} |-> 0] /\ WordBits \in Nat \ {0}
  BY KenslerAssumption DEF Perm!Init, Perm!NewKenslerFails
<1>2. 2 ^ WordBits \in Nat \ {0}
  BY <1>1, PowerOK
<1> QED BY <1>1, <1>2 DEF Endless, MaskOf

\* and every step keeps it one.
LEMMA NextEndless == Endless /\ [Perm!Next]_onlyPerm => Endless'
<1> SUFFICES ASSUME Endless, [Perm!Next]_onlyPerm PROVE Endless'
  OBVIOUS
<1>1. len = 0 /\ seed = 0 /\ seed \in Nat /\ MaskOf(WordBits) /\ val \in 0..mask /\ at \in 1..18
  BY DEF Endless
<1>2. CASE UNCHANGED onlyPerm
  BY <1>2 DEF onlyPerm, Endless, MaskOf
<1>3. CASE Perm!Statement
  <2>1. at \in 1..17 /\ at' = at + 1 /\ UNCHANGED <<size, len, seed, mask, arg, image>>
    BY <1>1, <1>3, BodyLength DEF Perm!Statement
  <2>2. val' = After(val, at)
    BY <1>3 DEF Perm!Statement, After, Perm!XorSeed, Perm!Mul, Perm!ShiftXor
  <2>3. val' \in 0..mask
    BY <1>1, <2>1, <2>2, AfterOK
  <2> QED BY <2>1, <2>3 DEF Endless, MaskOf
<1>4. CASE Perm!WalkOn
  BY <1>4 DEF Perm!WalkOn, Endless, MaskOf
<1>5. ~Perm!Return
  <2>1. val \in Int /\ val >= 0
    BY <1>1 DEF MaskOf
  <2> QED BY <1>1, <2>1 DEF Perm!Return
<1> QED BY <1>2, <1>3, <1>4, <1>5 DEF Perm!Next

\* NewKensler establishes the invariant.
LEMMA InitPerm == Perm!Init /\ Perm!NewKensler => PermInv
<1> SUFFICES ASSUME Perm!Init, Perm!NewKensler PROVE PermInv
  OBVIOUS
<1>1. PermOK
  BY MaskFits DEF Perm!Init
<1>2. /\ MaxL \in Nat /\ MinL \in Nat
      /\ size \in MinL..MaxL /\ len = (IF size < 2 THEN 2 ELSE size)
      /\ seed \in 0..(len - 2) /\ arg = 0 /\ val = 0 /\ at = 1
      /\ image = [k \in {} |-> 0]
  BY KenslerAssumption DEF Perm!Init, Perm!NewKensler
<1>3. Reaches(0, <<0, 1>>)
  BY <1>1, <1>2, ReachesStart
<1> QED BY <1>1, <1>2, <1>3 DEF PermInv

\* The walk takes the step that the statement takes.
LEMMA StatementOnward ==
    ASSUME PermInv, Perm!Statement
    PROVE  /\ at \in 1..17 /\ arg < size /\ ~Landed(<<val, at>>)
           /\ <<val', at'>> = Onward(<<val, at>>)
           /\ UNCHANGED <<size, len, seed, mask, arg, image>>
<1>1. at \in 1..18 /\ at <= 17
  BY BodyLength DEF PermInv, Perm!Statement
<1>2. val' = After(val, at)
  BY DEF Perm!Statement, After, Perm!XorSeed, Perm!Mul, Perm!ShiftXor
<1>3. arg < size /\ at' = at + 1 /\ UNCHANGED <<size, len, seed, mask, arg, image>>
  BY DEF Perm!Statement
<1>4. at # 18 /\ at \in 1..17
  BY <1>1
<1> QED BY <1>2, <1>3, <1>4 DEF Onward, Landed

\* A statement keeps zero zero when the seed is zero.
LEMMA ZeroStays ==
    ASSUME PermOK, seed = 0, NEW a \in 1..17
    PROVE  After(0, a) = 0
<1>1. PICK k : MaskOf(k)
  BY DEF PermOK
<1>2. k \in Nat /\ mask = 2 ^ k - 1 /\ mask \in Nat /\ 0 \in 0..mask
  BY KenslerAssumption, <1>1 DEF MaskOf
<1>3. Perm!Xor(0, 0) = 0
  <2>1. PICK z \in 0..mask : z = Perm!Xor(0, 0) /\ IsXor(z, 0, 0)
    BY <1>1, <1>2, XorOK
  <2>2. \A j \in Nat : Perm!Bit(0, j) = 0
    <3> SUFFICES ASSUME NEW j \in Nat PROVE Perm!Bit(0, j) = 0
      OBVIOUS
    <3>1. PICK e \in Nat \ {0} : 2 ^ j = e
      BY PowerOK
    <3>2. 0 \div e = 0 /\ 0 % 2 = 0
      OBVIOUS
    <3> QED BY <3>1, <3>2 DEF Perm!Bit
  <2>3. SameBits(k, z, 0)
    BY <1>2, <2>1, <2>2 DEF SameBits, IsXor
  <2> QED BY <1>2, <2>1, <2>3, BitsDetermine
<1>4. PICK o \in Nat : o = Perm!Operand[a]
  BY Operands
<1>5. PICK e \in Nat \ {0} : 2 ^ o = e
  BY PowerOK
<1>6. 0 \div e = 0 /\ 0 % (mask + 1) = 0
  BY <1>2
<1>7. PICK f \in Nat : f = o % (mask + 1)
  BY <1>2
<1>8. 0 * f = 0
  OBVIOUS
<1> QED BY <1>3, <1>4, <1>5, <1>6, <1>7, <1>8, Operands DEF After

\* A place that was given stays.
LEMMA PlacedKept ==
    ASSUME UNCHANGED <<size, len, seed, mask>>, NEW k, image'[k] = image[k], Placed(k)
    PROVE  Placed(k)'
  BY ReachesKept DEF Placed

\* A statement of the loop keeps the invariant.
LEMMA StatementPerm == PermInv /\ Perm!Statement => PermInv'
<1> SUFFICES ASSUME PermInv, Perm!Statement PROVE PermInv'
  OBVIOUS
<1>1. /\ at \in 1..17 /\ arg < size /\ ~Landed(<<val, at>>)
      /\ <<val', at'>> = Onward(<<val, at>>)
      /\ UNCHANGED <<size, len, seed, mask, arg, image>>
  BY StatementOnward
<1>2. PermOK /\ PermOK'
  BY <1>1, ReachesKept DEF PermInv
<1>3. Reaches(arg, <<val', at'>>)
  BY <1>1, <1>2, ReachesNext DEF PermInv
<1>4. Reaches(arg, <<val, at>>)'
  BY <1>1, <1>3, ReachesKept
<1>5. size = 1 => val' = 0
  BY <1>1, <1>2, ZeroStays DEF PermInv, Onward
<1>6. \A k \in 0..(arg - 1) : Placed(k)'
  BY <1>1, PlacedKept DEF PermInv
<1>7. at' \in 1..18
  BY <1>1 DEF Onward
<1> QED BY <1>1, <1>2, <1>4, <1>5, <1>6, <1>7 DEF PermInv

\* So does going round again.
LEMMA WalkOnPerm == PermInv /\ Perm!WalkOn => PermInv'
<1> SUFFICES ASSUME PermInv, Perm!WalkOn PROVE PermInv'
  OBVIOUS
<1>1. /\ at = 18 /\ arg < size /\ ~(val < len)
      /\ at' = 1 /\ UNCHANGED <<size, len, seed, mask, arg, val, image>>
  <2>1. /\ arg < size /\ at > 17 /\ val >= len /\ at \in 1..18
        /\ at' = 1 /\ UNCHANGED <<size, len, seed, mask, arg, val, image>>
    BY BodyLength DEF PermInv, Perm!WalkOn
  <2>2. val \in Int /\ len \in Int
    BY <2>1 DEF PermInv, PermOK, MaskOf, Reaches, Walk
  <2> QED BY <2>1, <2>2
<1>2. PermOK /\ PermOK'
  BY <1>1, ReachesKept DEF PermInv
<1>3. ~Landed(<<val, at>>) /\ Onward(<<val, at>>) = <<val', at'>>
  BY <1>1 DEF Landed, Onward
<1>4. Reaches(arg, <<val', at'>>)
  BY <1>1, <1>2, <1>3, ReachesNext DEF PermInv
<1>5. Reaches(arg, <<val, at>>)'
  BY <1>1, <1>4, ReachesKept
<1>6. \A k \in 0..(arg - 1) : Placed(k)'
  BY <1>1, PlacedKept DEF PermInv
<1> QED BY <1>1, <1>2, <1>5, <1>6 DEF PermInv

\* And returning the place of an index.
LEMMA ReturnPerm == PermInv /\ Perm!Return => PermInv'
<1> SUFFICES ASSUME PermInv, Perm!Return PROVE PermInv'
  OBVIOUS
<1>1. /\ at = 18 /\ arg < size /\ val < len
      /\ image' = [k \in 0..arg |-> IF k < arg THEN image[k]
                                    ELSE ((val + seed) % 2 ^ WordBits) % len]
      /\ arg' = arg + 1 /\ val' = arg + 1 /\ at' = 1
      /\ UNCHANGED <<size, len, seed, mask>>
  BY BodyLength DEF PermInv, Perm!Return
<1>2. PermOK /\ PermOK'
  BY <1>1, ReachesKept DEF PermInv
<1>3. size \in Nat /\ arg \in Nat /\ arg + 1 \in 0..size /\ len \in Nat /\ size <= len
  BY <1>1, KenslerAssumption DEF PermInv
<1>4. Reaches(arg, <<val, 18>>) /\ (size = 1 => val = 0)
  BY <1>1 DEF PermInv
<1>5. val \in 0..(len - 1)
  <2>1. val \in 0..mask /\ mask \in Nat
    BY <1>2, <1>4 DEF Reaches, Walk, PermOK, MaskOf
  <2> QED BY <1>1, <1>3, <2>1
<1>6. ASSUME NEW k \in 0..arg PROVE Placed(k)'
  <2>1. CASE k = arg
    <3>1. image'[k] = ((val + seed') % 2 ^ WordBits) % len' /\ Reaches(k, <<val, 18>>)
      BY <1>1, <1>3, <1>4, <2>1
    <3>2. PICK v \in 0..(len - 1) : v = val
      BY <1>5
    <3>3. Reaches(k, <<v, 18>>)' /\ v \in 0..(len' - 1) /\ (size' = 1 => v = 0)
      BY <1>1, <1>4, <3>1, <3>2, ReachesKept
    <3> QED BY <3>1, <3>2, <3>3 DEF Placed
  <2>2. CASE k # arg
    <3>1. k \in 0..(arg - 1) /\ image'[k] = image[k]
      BY <1>1, <1>3, <2>2
    <3> QED BY <1>1, <3>1, PlacedKept DEF PermInv
  <2> QED BY <2>1, <2>2
<1>7. arg' < size' => Reaches(arg, <<val, at>>)' /\ (size' = 1 => val' = 0)
  <2> SUFFICES ASSUME arg + 1 < size
               PROVE  Reaches(arg, <<val, at>>)' /\ size' # 1
    BY <1>1
  <2>1. Reaches(arg + 1, <<arg + 1, 1>>)
    BY <1>2, <1>3, ReachesStart
  <2> QED BY <1>1, <1>3, <2>1, ReachesKept
<1>8. DOMAIN image' = 0..(arg' - 1) /\ 0..(arg' - 1) = 0..arg
  BY <1>1, <1>3
<1> QED BY <1>1, <1>2, <1>3, <1>6, <1>7, <1>8 DEF PermInv

\* Every step of the permutation keeps its invariant.
LEMMA NextPerm == PermInv /\ [Perm!Next]_onlyPerm => PermInv'
<1> SUFFICES ASSUME PermInv, [Perm!Next]_onlyPerm PROVE PermInv'
  OBVIOUS
<1>1. CASE UNCHANGED onlyPerm
  <2>1. UNCHANGED <<size, len, seed, mask, arg, val, at, image>>
    BY <1>1 DEF onlyPerm
  <2>2. PermOK' /\ (Reaches(arg, <<val, at>>)' <=> Reaches(arg, <<val, at>>))
    BY <2>1, ReachesKept DEF PermInv
  <2>3. \A k \in 0..(arg - 1) : Placed(k)'
    BY <2>1, PlacedKept DEF PermInv
  <2> QED BY <2>1, <2>2, <2>3 DEF PermInv
<1> QED BY <1>1, StatementPerm, WalkOnPerm, ReturnPerm DEF Perm!Next

\* Adding the seed modulo the length keeps different numbers below it different.
LEMMA TurnInjective ==
    ASSUME NEW m \in Nat \ {0}, NEW e \in 0..(m - 1), NEW u \in 0..(m - 1), NEW v \in 0..(m - 1),
           (u + e) % m = (v + e) % m
    PROVE  u = v
<1>1. ASSUME NEW x \in 0..(m - 1) PROVE (x + e) % m = IF x + e < m THEN x + e ELSE (x + e) - m
  <2>1. CASE x + e < m
    <3>1. 0 * m + (x + e) = x + e /\ x + e \in 0..(m - 1)
      BY <2>1
    <3>2. (0 * m + (x + e)) % m = x + e
      BY <3>1, Divided
    <3> QED BY <2>1, <3>1, <3>2
  <2>2. CASE ~(x + e < m)
    <3>1. PICK r \in 0..(m - 1) : r = (x + e) - m
      BY <2>2
    <3>2. (1 * m + r) % m = r
      BY Divided
    <3>3. 1 * m + r = x + e
      BY <3>1
    <3> QED BY <2>2, <3>1, <3>2, <3>3
  <2> QED BY <2>1, <2>2
<1> QED BY <1>1

\* The places of the indices so far are different, and within the range.
LEMMA PlacesApart ==
    ASSUME PermInv, len + seed <= 2 ^ WordBits
    PROVE  Perm!Injective
<1>1. /\ MinL \in Nat /\ MaxL \in Nat /\ size \in Nat /\ size <= MaxL
      /\ len = (IF size < 2 THEN 2 ELSE size) /\ seed \in 0..(len - 2)
      /\ arg \in 0..size /\ DOMAIN image = 0..(arg - 1)
      /\ \A k \in 0..(arg - 1) : Placed(k)
  BY KenslerAssumption DEF PermInv
<1>2. PICK m \in Nat \ {0} : 2 ^ WordBits = m /\ len + seed <= m
  BY KenslerAssumption, PowerOK
<1>3. ASSUME NEW k \in 0..(arg - 1)
      PROVE  \E v \in 0..(len - 1) : /\ Reaches(k, <<v, 18>>)
                                     /\ image[k] = (v + seed) % len
                                     /\ size = 1 => v = 0 /\ seed = 0
  <2>1. PICK v \in 0..(len - 1) : /\ Reaches(k, <<v, 18>>)
                                  /\ image[k] = ((v + seed) % m) % len
                                  /\ size = 1 => v = 0
    BY <1>1, <1>2 DEF Placed
  <2>2. v + seed \in 0..(m - 1)
    BY <1>1, <1>2
  <2>3. (v + seed) % m = v + seed
    BY <2>2
  <2>4. size = 1 => seed = 0
    BY <1>1
  <2>5. image[k] = (v + seed) % len
    BY <2>1, <2>3
  <2> QED BY <2>1, <2>4, <2>5
<1>4. ASSUME NEW k \in DOMAIN image PROVE image[k] \in 0..(size - 1)
  <2>1. PICK v \in 0..(len - 1) : image[k] = (v + seed) % len /\ (size = 1 => v = 0 /\ seed = 0)
    BY <1>1, <1>3
  <2>2. CASE size = 1
    BY <1>1, <2>1, <2>2
  <2>3. CASE size # 1
    <3>1. len = size /\ size \in Nat \ {0}
      BY <1>1, <2>3
    <3>2. (v + seed) % len \in 0..(len - 1)
      BY <1>1, <3>1
    <3> QED BY <2>1, <3>1, <3>2
  <2> QED BY <2>2, <2>3
<1>5. ASSUME NEW j \in DOMAIN image, NEW k \in DOMAIN image, j # k, image[j] = image[k]
      PROVE  FALSE
  <2>1. PICK u \in 0..(len - 1) : Reaches(j, <<u, 18>>) /\ image[j] = (u + seed) % len
    BY <1>1, <1>3
  <2>2. PICK v \in 0..(len - 1) : Reaches(k, <<v, 18>>) /\ image[k] = (v + seed) % len
    BY <1>1, <1>3
  <2>3. len \in Nat \ {0} /\ seed \in 0..(len - 1)
    BY <1>1
  <2>4. (u + seed) % len = (v + seed) % len
    BY <1>5, <2>1, <2>2
  <2>5. u = v
    BY <2>3, <2>4, TurnInjective
  <2>6. j \in 0..(len - 1) /\ k \in 0..(len - 1)
    BY <1>1
  <2> QED BY <1>5, <2>1, <2>2, <2>5, <2>6, WalksApart DEF PermInv
<1> QED BY <1>4, <1>5 DEF Perm!Injective

\* A step of a behaviour of the permutation is one of its own.
LEMMA StepAll ==
    ASSUME [NextAll]_allVars, kind = "permutation"
    PROVE  kind' = kind /\ [Perm!Next]_onlyPerm
<1>1. CASE Perm1(Perm!Next)
  BY <1>1 DEF Perm1, encoderVars
<1>2. CASE UNCHANGED allVars
  BY <1>2 DEF allVars, encoderVars
<1>3. ~Seq1(Next) /\ ~Par1(Par!Next)
  BY DEF Seq1, Par1, SeqStep, ParStep
<1> QED BY <1>1, <1>2, <1>3 DEF NextAll

\* A behaviour of the permutation was one from its start.
KindKept == kind' = "permutation" => kind = "permutation"

\* No step makes an encoder a permutation.
LEMMA KindStep == [NextAll]_allVars => KindKept
  BY DEF NextAll, allVars, encoderVars, Seq1, Par1, Perm1, SeqStep, ParStep, KindKept

\* The permutation's invariant, in its own behaviours.
ShuffleInv == kind = "permutation" => PermInv \/ Endless

\* Shuffle's walk, whatever the length, the seed, the width of the word and the odd
\* factors: no two indices ever meet in the same state of the loop, however often
\* they go round (kensler.go, Shuffle); or the generator was never made, and no
\* index gets a place.
THEOREM ShuffleInvariance == SpecAll => []ShuffleInv
<1>1. InitAll => ShuffleInv
  <2> SUFFICES ASSUME InitAll, kind = "permutation" PROVE PermInv \/ Endless
    BY DEF ShuffleInv
  <2>1. Perm!Init
    BY DEF InitAll
  <2> QED BY <2>1, InitPerm, InitEndless DEF Perm!Init
<1>2. ShuffleInv /\ [NextAll]_allVars => ShuffleInv'
  <2> SUFFICES ASSUME ShuffleInv, [NextAll]_allVars, kind' = "permutation"
               PROVE  PermInv' \/ Endless'
    BY DEF ShuffleInv
  <2>1. kind = "permutation" /\ (PermInv \/ Endless)
    BY KindStep DEF ShuffleInv, KindKept
  <2> QED BY <2>1, StepAll, NextPerm, NextEndless
<1> QED BY <1>1, <1>2, PTL DEF SpecAll

\* Shuffle (kensler.go) is a permutation whenever its final sum stays in the word,
\* whatever the width of the word, the length, the seed and the odd factors: it
\* places no two indices alike and none outside the range.  So it is for every
\* length up to half of the word and one; what is beyond, the run kensler_wrap
\* shows.
THEOREM PermutationCorrect == SpecAll => []InjectiveWithinWord
<1>1. ASSUME Endless PROVE Perm!Injective
  BY <1>1 DEF Endless, Perm!Injective
<1>2. ShuffleInv => InjectiveWithinWord
  BY <1>1, PlacesApart DEF ShuffleInv, Injective, InjectiveWithinWord
<1> QED BY <1>2, ShuffleInvariance, PTL
=============================================================================
