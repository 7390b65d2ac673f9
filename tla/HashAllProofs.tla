---------------------------- MODULE HashAllProofs ----------------------------
(***************************************************************************)
(* HashAllParallel: for every number of identifiers, handlers, batch and   *)
(* buffer size, and wherever the connection breaks, the WaitGroup closes   *)
(* the channel of pairs exactly when every pair has been handed over.      *)
(***************************************************************************)
EXTENDS HashAllParallel, FiniteSetTheorems, TLAPS

TypeOK ==
    /\ total \in 0..MaxIds /\ taken \in 0..total /\ i \in 0..taken
    /\ bpc \in {"range", "submit", "submitRest", "exit", "exited"}
    /\ hpc \in [Handlers -> {"idle", "pump"}]
    /\ op \in [Handlers -> [lo : Int, hi : Int]]
    /\ wg \in Int /\ pairsClosed \in BOOLEAN /\ panicked \in BOOLEAN
    /\ received \in Seq(1..total)
    /\ cpc \in {"range", "write", "nil", "error"}
    /\ buffered \in 0..BufSize /\ sent \in Nat /\ broken \in BOOLEAN

\* Past its loop the batcher has given everything away.
BatcherDrained ==
    /\ bpc \in {"submitRest", "exit", "exited"} => taken = total
    /\ bpc \in {"exit", "exited"} => i = 0

\* The identifiers that handler w has still to pump.
Pending(w) == op[w].lo..op[w].hi

\* Once every sender is through, so is the channel.
ClosedIsQuiet ==
    /\ pairsClosed => bpc = "exited" /\ Busy = {}
    /\ \A w \in Handlers : hpc[w] = "idle" => op[w].lo > op[w].hi
    /\ cpc = "nil" => pairsClosed

\* Every identifier that left the batcher is with exactly one handler or was
\* received exactly once.
EachInOnePlace ==
    /\ \A x \in 1..(taken - i) : \/ \E k \in 1..Len(received) : received[k] = x
                                 \/ \E w \in Handlers : x \in Pending(w)
    /\ \A k \in 1..Len(received) : received[k] <= taken - i
    /\ \A j, k \in 1..Len(received) : j # k => received[j] # received[k]
    /\ \A w \in Handlers : Pending(w) \subseteq 1..(taken - i)
    /\ \A w \in Handlers : \A k \in 1..Len(received) : received[k] \notin Pending(w)
    /\ \A v, w \in Handlers : v # w => Pending(v) \cap Pending(w) = {}

\* What the consumer did with the pairs it received.
Written ==
    Len(received) = sent + buffered + (IF cpc \in {"write", "error"} THEN 1 ELSE 0)

IInv == /\ TypeOK /\ BatcherDrained /\ ClosedIsQuiet /\ EachInOnePlace /\ Written
        /\ WgCountsSenders /\ NoSendOnClosed

----------------------------------------------------------------------------
\* The busy handlers are finitely many.
LEMMA BusyFinite ==
    /\ IsFiniteSet(Busy) /\ Cardinality(Busy) \in Nat
    /\ Cardinality(Busy) = 0 => Busy = {}
<1>1. Busy \in SUBSET Handlers
  BY DEF Busy
<1> QED BY <1>1, HashAllAssumption, FS_Subset, FS_CardinalityType, FS_EmptySet

\* A handler that takes a batch is one more busy handler.
LEMMA BusyMore ==
    ASSUME NEW w \in Handlers, hpc \in [Handlers -> {"idle", "pump"}],
           hpc[w] = "idle", hpc' = [hpc EXCEPT ![w] = "pump"]
    PROVE  Cardinality(Busy') = Cardinality(Busy) + 1
<1>1. Busy' = Busy \cup {w} /\ w \notin Busy
  BY DEF Busy
<1> QED BY <1>1, BusyFinite, FS_AddElement

\* A handler that finished its batch is one less.
LEMMA BusyLess ==
    ASSUME NEW w \in Handlers, hpc \in [Handlers -> {"idle", "pump"}],
           hpc[w] = "pump", hpc' = [hpc EXCEPT ![w] = "idle"]
    PROVE  Cardinality(Busy') = Cardinality(Busy) - 1
<1>1. Busy' = Busy \ {w} /\ w \in Busy
  BY DEF Busy
<1> QED BY <1>1, BusyFinite, FS_RemoveElement

\* The wait group is zero only when the batcher and every handler are through.
LEMMA ZeroIsQuiet ==
    ASSUME IInv, wg = 0
    PROVE  bpc = "exited" /\ Busy = {}
BY BusyFinite DEF IInv, TypeOK, WgCountsSenders

\* When everybody is through, received is a permutation of the identifiers.
LEMMA QuietMeansAll ==
    ASSUME IInv, bpc = "exited", Busy = {}
    PROVE  /\ Len(received) = total
           /\ \A x \in 1..total : \E k \in 1..total : received[k] = x
<1> DEFINE n == Len(received)
<1>1. /\ total \in Nat /\ n \in Nat /\ received \in Seq(1..total)
      /\ taken = total /\ i = 0
  BY HashAllAssumption DEF IInv, TypeOK, BatcherDrained
<1>2. \A w \in Handlers : Pending(w) = {}
  <2> TAKE w \in Handlers
  <2>1. hpc[w] = "idle"
    BY DEF Busy, IInv, TypeOK
  <2>2. op[w].lo > op[w].hi /\ op[w].lo \in Int /\ op[w].hi \in Int
    BY <2>1 DEF IInv, TypeOK, ClosedIsQuiet
  <2> QED BY <2>2 DEF Pending
<1>3. \A x \in 1..total : \E k \in 1..n : received[k] = x
  <2> TAKE x \in 1..total
  <2>1. x \in 1..(taken - i)
    BY <1>1
  <2>2. \/ \E k \in 1..n : received[k] = x
        \/ \E w \in Handlers : x \in Pending(w)
    BY <2>1 DEF IInv, EachInOnePlace
  <2> QED BY <1>2, <2>2
<1>4. \A j, k \in 1..n : j # k => received[j] # received[k]
  BY DEF IInv, EachInOnePlace
<1>5. ExistsBijection(1..n, 1..total)
  <2>1. received \in [1..n -> 1..total]
    BY <1>1
  <2>2. received \in Bijection(1..n, 1..total)
    BY <2>1, <1>3, <1>4 DEF Bijection, Injection, IsInjective, Surjection
  <2> QED BY <2>2 DEF ExistsBijection
<1>6. n = total
  <2>0. \A m \in Nat : IsFiniteSet(1..m) /\ Cardinality(1..m) = m
    <3> TAKE m \in Nat
    <3>1. Cardinality(1..m) = IF 1 > m THEN 0 ELSE m - 1 + 1
      BY FS_Interval
    <3> QED BY <3>1, FS_Interval
  <2>1. /\ IsFiniteSet(1..n) /\ Cardinality(1..n) = n
        /\ IsFiniteSet(1..total) /\ Cardinality(1..total) = total
    BY <1>1, <2>0
  <2>2. Cardinality(1..n) = Cardinality(1..total)
    BY <1>5, <2>1, FS_Bijection
  <2> QED BY <2>1, <2>2
<1> QED BY <1>3, <1>6

----------------------------------------------------------------------------
\* Before anything is taken nothing is out of place.
LEMMA InitIInv == Init => IInv
<1> SUFFICES ASSUME Init PROVE IInv
  OBVIOUS
<1> USE HashAllAssumption DEF Init
<1>0. NoOp \in [lo : Int, hi : Int] /\ NoOp.lo > NoOp.hi /\ NoOp.lo..NoOp.hi = {}
  BY DEF NoOp
<1>1. TypeOK
  <2>1. op \in [Handlers -> [lo : Int, hi : Int]] /\ hpc \in [Handlers -> {"idle", "pump"}]
    BY <1>0
  <2>2. received \in Seq(1..total) /\ 0 \in 0..total
    BY <1>0
  <2>3. 0 \in 0..0 /\ 0 \in 0..BufSize /\ 0 \in Nat /\ 1 \in Int
    OBVIOUS
  <2> QED BY <2>1, <2>2, <2>3 DEF TypeOK
<1>4. BatcherDrained /\ NoSendOnClosed /\ Written
  BY DEF BatcherDrained, NoSendOnClosed, Written
<1>2. ClosedIsQuiet /\ EachInOnePlace
  BY <1>0 DEF ClosedIsQuiet, EachInOnePlace, Pending
<1>3. WgCountsSenders
  <2>1. Busy = {}
    BY DEF Busy
  <2> QED BY <2>1, FS_EmptySet DEF WgCountsSenders
<1> QED BY <1>1, <1>2, <1>3, <1>4 DEF IInv

\* Taking an identifier: the batch grows, and a full one is counted.
LEMMA TakeStep ==
    ASSUME IInv, Take
    PROVE  IInv'
<1> USE HashAllAssumption
<1>1. /\ bpc = "range" /\ taken < total /\ taken' = taken + 1 /\ i' = i + 1
      /\ UNCHANGED <<total, hpc, op, pairsClosed, received, cpc, buffered, sent,
                     broken, panicked>>
      /\ \/ bpc' = "submit" /\ wg' = wg + 1
         \/ bpc' = bpc /\ wg' = wg
      /\ TypeOK /\ taken' - i' = taken - i
  BY DEF Take, handler, consumer, IInv, TypeOK
<1>2. TypeOK'
  BY <1>1 DEF TypeOK
<1>3. BatcherDrained' /\ ClosedIsQuiet' /\ Written' /\ NoSendOnClosed'
  BY <1>1 DEF IInv, BatcherDrained, ClosedIsQuiet, Written, NoSendOnClosed, Busy
<1>4. EachInOnePlace'
  BY <1>1 DEF IInv, EachInOnePlace, Pending
<1>5. WgCountsSenders'
  <2>1. Busy' = Busy /\ Cardinality(Busy) \in Nat
    BY <1>1, BusyFinite DEF Busy
  <2> QED BY <1>1, <2>1 DEF IInv, WgCountsSenders, TypeOK
<1> QED BY <1>2, <1>3, <1>4, <1>5 DEF IInv

\* The input is closed: the rest is counted, or there is none.
LEMMA InputClosedStep ==
    ASSUME IInv, InputClosed
    PROVE  IInv'
<1> USE HashAllAssumption
<1>1. /\ bpc = "range" /\ taken = total
      /\ UNCHANGED <<total, taken, i, hpc, op, pairsClosed, received, cpc, buffered,
                     sent, broken, panicked>>
      /\ \/ bpc' = "submitRest" /\ wg' = wg + 1
         \/ bpc' = "exit" /\ wg' = wg /\ i = 0
      /\ TypeOK
  BY DEF InputClosed, handler, consumer, IInv, TypeOK
<1>2. TypeOK'
  BY <1>1 DEF TypeOK
<1>3. BatcherDrained' /\ ClosedIsQuiet' /\ Written' /\ NoSendOnClosed'
  BY <1>1 DEF IInv, BatcherDrained, ClosedIsQuiet, Written, NoSendOnClosed, Busy
<1>4. EachInOnePlace'
  BY <1>1 DEF IInv, EachInOnePlace, Pending
<1>5. WgCountsSenders'
  <2>1. Busy' = Busy /\ Cardinality(Busy) \in Nat
    BY <1>1, BusyFinite DEF Busy
  <2> QED BY <1>1, <2>1 DEF IInv, WgCountsSenders, TypeOK
<1> QED BY <1>2, <1>3, <1>4, <1>5 DEF IInv

\* A handler takes the batch from the batcher.
LEMMA SubmitStep ==
    ASSUME IInv, NEW w \in Handlers, Submit(w)
    PROVE  IInv'
<1> USE HashAllAssumption
<1> DEFINE batch == [lo |-> taken - i + 1, hi |-> taken]
<1>1. /\ bpc \in {"submit", "submitRest"} /\ hpc[w] = "idle"
      /\ hpc' = [hpc EXCEPT ![w] = "pump"] /\ op' = [op EXCEPT ![w] = batch] /\ i' = 0
      /\ bpc' = IF bpc = "submit" THEN "range" ELSE "exit"
      /\ UNCHANGED <<total, taken, wg, pairsClosed, received, cpc, buffered, sent,
                     broken, panicked>>
      /\ TypeOK
  BY DEF Submit, consumer, IInv
<1>2. batch \in [lo : Int, hi : Int] /\ taken \in Int /\ i \in Int
  BY <1>1 DEF TypeOK
<1>3. TypeOK'
  BY <1>1, <1>2 DEF TypeOK
<1>4. BatcherDrained'
  BY <1>1 DEF IInv, BatcherDrained
<1>5. ClosedIsQuiet' /\ Written' /\ NoSendOnClosed'
  BY <1>1 DEF IInv, TypeOK, ClosedIsQuiet, Written, NoSendOnClosed, Busy
<1>6. EachInOnePlace'
  <2>1. \A v \in Handlers : Pending(v)' = IF v = w THEN (taken - i + 1)..taken ELSE Pending(v)
    BY <1>1 DEF TypeOK, Pending
  <2>2. Pending(w) = {}
    <3>1. op[w].lo > op[w].hi /\ op[w].lo \in Int /\ op[w].hi \in Int
      BY <1>1 DEF IInv, ClosedIsQuiet, TypeOK
    <3> QED BY <3>1 DEF Pending
  <2>3. \A x \in 1..taken : x \in 1..(taken - i) \/ x \in (taken - i + 1)..taken
    BY <1>2
  <2>4. received \in Seq(1..total) /\ \A k \in 1..Len(received) : received[k] \in Int
    BY <1>1 DEF TypeOK
  <2>5. \A x \in 1..(taken' - i') : \/ \E k \in 1..Len(received) : received[k] = x
                                    \/ \E v \in Handlers : x \in Pending(v)'
    BY <1>1, <1>2, <2>1, <2>2, <2>3 DEF IInv, EachInOnePlace
  <2>6. \A k \in 1..Len(received) : received[k] <= taken - 0
    BY <1>1, <1>2, <2>4 DEF IInv, EachInOnePlace, TypeOK
  <2>7. \A v \in Handlers : Pending(v)' \subseteq 1..taken
    <3>1. \A v \in Handlers : Pending(v) \subseteq 1..(taken - i)
      BY DEF IInv, EachInOnePlace
    <3>2. i \in Nat /\ taken - i >= 0
      BY <1>1 DEF TypeOK
    <3> QED BY <1>2, <2>1, <3>1, <3>2
  <2>8. \A v \in Handlers : \A k \in 1..Len(received) : received[k] \notin Pending(v)'
    BY <1>1, <1>2, <2>1, <2>4 DEF IInv, EachInOnePlace
  <2>9. \A u, v \in Handlers : u # v => Pending(u)' \cap Pending(v)' = {}
    BY <1>1, <1>2, <2>1 DEF IInv, EachInOnePlace
  <2> QED BY <1>1, <1>2, <2>5, <2>6, <2>7, <2>8, <2>9 DEF IInv, EachInOnePlace
<1>7. WgCountsSenders'
  <2>1. Cardinality(Busy') = Cardinality(Busy) + 1 /\ Cardinality(Busy) \in Nat
    BY <1>1, BusyMore, BusyFinite DEF TypeOK
  <2> QED BY <1>1, <2>1 DEF IInv, WgCountsSenders
<1> QED BY <1>3, <1>4, <1>5, <1>6, <1>7 DEF IInv

\* The batcher's own share of the wait group goes last.
LEMMA BatcherDoneStep ==
    ASSUME IInv, BatcherDone
    PROVE  IInv'
<1> USE HashAllAssumption
<1>1. /\ bpc = "exit" /\ bpc' = "exited" /\ wg' = wg - 1
      /\ UNCHANGED <<total, taken, i, hpc, op, pairsClosed, received, cpc, buffered,
                     sent, broken, panicked>>
      /\ TypeOK
  BY DEF BatcherDone, handler, consumer, IInv
<1>2. TypeOK' /\ BatcherDrained'
  BY <1>1 DEF IInv, TypeOK, BatcherDrained
<1>3. ClosedIsQuiet' /\ Written' /\ NoSendOnClosed' /\ EachInOnePlace'
  BY <1>1 DEF IInv, ClosedIsQuiet, Written, NoSendOnClosed, Busy, EachInOnePlace, Pending
<1>4. WgCountsSenders'
  <2>1. Busy' = Busy /\ Cardinality(Busy) \in Nat
    BY <1>1, BusyFinite DEF Busy
  <2> QED BY <1>1, <2>1 DEF IInv, WgCountsSenders, TypeOK
<1> QED BY <1>2, <1>3, <1>4 DEF IInv

\* A pair goes from its handler to the consumer; the channel is still open.
LEMMA PumpStep ==
    ASSUME IInv, NEW w \in Handlers, Pump(w)
    PROVE  IInv'
<1> USE HashAllAssumption
<1>1. hpc[w] = "pump" /\ op[w].lo <= op[w].hi /\ ~pairsClosed /\ TypeOK
  BY DEF Pump, IInv, ClosedIsQuiet, Busy
<1> DEFINE x == op[w].lo
<1>2. /\ received' = Append(received, x) /\ op' = [op EXCEPT ![w].lo = @ + 1]
      /\ cpc = "range" /\ cpc' = "write"
      /\ UNCHANGED <<total, bpc, taken, i, hpc, wg, pairsClosed, buffered, sent,
                     broken, panicked>>
  BY <1>1 DEF Pump, batcher
<1>3. /\ x \in Int /\ x \in Pending(w) /\ x \in 1..(taken - i) /\ x \in 1..total
      /\ taken \in Int /\ i \in Int
  BY <1>1 DEF IInv, EachInOnePlace, Pending, TypeOK
<1>4. /\ received' \in Seq(1..total) /\ Len(received') = Len(received) + 1
      /\ Len(received) \in Nat
      /\ \A k \in 1..Len(received') :
            received'[k] = IF k = Len(received) + 1 THEN x ELSE received[k]
  <2>1. received \in Seq(1..total)
    BY <1>1 DEF TypeOK
  <2> HIDE DEF x
  <2> QED BY <1>2, <1>3, <2>1
<1>5. /\ op' \in [Handlers -> [lo : Int, hi : Int]]
      /\ \A v \in Handlers : Pending(v)' = Pending(v) \ (IF v = w THEN {x} ELSE {})
  <2>1. op[w] \in [lo : Int, hi : Int] /\ op[w] = [lo |-> x, hi |-> op[w].hi]
    BY <1>1 DEF TypeOK
  <2>2. op' = [op EXCEPT ![w] = [lo |-> x + 1, hi |-> op[w].hi]]
    <3>1. [op[w] EXCEPT !.lo = @ + 1] = [lo |-> x + 1, hi |-> op[w].hi]
      BY <2>1
    <3>2. op' = [op EXCEPT ![w] = [op[w] EXCEPT !.lo = @ + 1]]
      BY <1>1, <1>2 DEF TypeOK
    <3> QED BY <3>1, <3>2
  <2>3. [lo |-> x + 1, hi |-> op[w].hi] \in [lo : Int, hi : Int]
    BY <1>3, <2>1
  <2>4. op' \in [Handlers -> [lo : Int, hi : Int]]
    BY <1>1, <2>2, <2>3 DEF TypeOK
  <2>5. \A v \in Handlers : v # w => Pending(v)' = Pending(v)
    BY <1>1, <2>2 DEF TypeOK, Pending
  <2>6. op'[w].lo = x + 1 /\ op'[w].hi = op[w].hi
    BY <1>1, <2>2 DEF TypeOK
  <2>7. Pending(w)' = Pending(w) \ {x}
    BY <1>3, <2>1, <2>6 DEF Pending
  <2> QED BY <2>4, <2>5, <2>7
<1>6. TypeOK'
  <2>1. op' \in [Handlers -> [lo : Int, hi : Int]]
    BY <1>5
  <2> QED BY <1>1, <1>2, <1>4, <2>1 DEF TypeOK
<1>7. BatcherDrained' /\ NoSendOnClosed' /\ Written'
  BY <1>2, <1>4 DEF IInv, BatcherDrained, NoSendOnClosed, Written, TypeOK
<1>8. ClosedIsQuiet'
  BY <1>1, <1>2 DEF IInv, ClosedIsQuiet, TypeOK, Busy
<1>9. EachInOnePlace'
  <2>1. \A y \in 1..(taken - i) : \/ \E k \in 1..Len(received') : received'[k] = y
                                  \/ \E v \in Handlers : y \in Pending(v)'
    <3> TAKE y \in 1..(taken - i)
    <3>1. CASE y = x
      BY <3>1, <1>4
    <3>2. CASE y # x /\ \E k \in 1..Len(received) : received[k] = y
      BY <3>2, <1>4
    <3>3. CASE y # x /\ \E v \in Handlers : y \in Pending(v)
      BY <3>3, <1>5
    <3> QED BY <3>1, <3>2, <3>3 DEF IInv, EachInOnePlace
  <2>2. \A k \in 1..Len(received') : received'[k] <= taken - i
    BY <1>3, <1>4 DEF IInv, EachInOnePlace
  <2>3. \A j, k \in 1..Len(received') : j # k => received'[j] # received'[k]
    <3>1. \A k \in 1..Len(received) : received[k] # x
      BY <1>3 DEF IInv, EachInOnePlace
    <3> QED BY <1>4, <3>1 DEF IInv, EachInOnePlace
  <2>4. \A v \in Handlers : Pending(v)' \subseteq 1..(taken - i)
    BY <1>5 DEF IInv, EachInOnePlace
  <2>5. \A v \in Handlers : \A k \in 1..Len(received') : received'[k] \notin Pending(v)'
    <3> TAKE v \in Handlers
    <3> TAKE k \in 1..Len(received')
    <3>1. CASE k = Len(received) + 1
      <4>1. received'[k] = x
        BY <3>1, <1>4
      <4>2. v # w => x \notin Pending(v)
        BY <1>3 DEF IInv, EachInOnePlace
      <4> QED BY <4>1, <4>2, <1>5
    <3>2. CASE k # Len(received) + 1
      <4>1. k \in 1..Len(received) /\ received'[k] = received[k]
        BY <3>2, <1>4
      <4>2. received[k] \notin Pending(v)
        BY <4>1 DEF IInv, EachInOnePlace
      <4> QED BY <4>1, <4>2, <1>5
    <3> QED BY <3>1, <3>2
  <2>6. \A u, v \in Handlers : u # v => Pending(u)' \cap Pending(v)' = {}
    BY <1>5 DEF IInv, EachInOnePlace
  <2> QED BY <1>2, <2>1, <2>2, <2>3, <2>4, <2>5, <2>6 DEF EachInOnePlace
<1>10. WgCountsSenders'
  BY <1>2 DEF IInv, WgCountsSenders, Busy
<1> QED BY <1>6, <1>7, <1>8, <1>9, <1>10 DEF IInv

\* A handler is through with its batch.
LEMMA PumpDoneStep ==
    ASSUME IInv, NEW w \in Handlers, PumpDone(w)
    PROVE  IInv'
<1> USE HashAllAssumption
<1>1. /\ hpc[w] = "pump" /\ op[w].lo > op[w].hi
      /\ hpc' = [hpc EXCEPT ![w] = "idle"] /\ wg' = wg - 1
      /\ UNCHANGED <<total, bpc, taken, i, op, pairsClosed, received, cpc, buffered,
                     sent, broken, panicked>>
      /\ TypeOK
  BY DEF PumpDone, batcher, consumer, IInv
<1>2. TypeOK'
  BY <1>1 DEF TypeOK
<1>3. BatcherDrained' /\ Written' /\ NoSendOnClosed' /\ EachInOnePlace'
  BY <1>1 DEF IInv, BatcherDrained, Written, NoSendOnClosed, EachInOnePlace, Pending
<1>4. ClosedIsQuiet'
  BY <1>1 DEF IInv, ClosedIsQuiet, TypeOK, Busy
<1>5. WgCountsSenders'
  <2>1. Cardinality(Busy') = Cardinality(Busy) - 1 /\ Cardinality(Busy) \in Nat
    BY <1>1, BusyLess, BusyFinite DEF TypeOK
  <2> QED BY <1>1, <2>1 DEF IInv, WgCountsSenders, TypeOK
<1> QED BY <1>2, <1>3, <1>4, <1>5 DEF IInv

\* The closer saw the wait group at zero.
LEMMA CloseStep ==
    ASSUME IInv, Close
    PROVE  IInv'
<1>1. /\ wg = 0 /\ pairsClosed' = TRUE
      /\ UNCHANGED <<total, bpc, taken, i, hpc, op, wg, received, cpc, buffered, sent,
                     broken, panicked>>
  BY DEF Close, batcher, handler, consumer
<1>2. bpc = "exited" /\ Busy = {}
  BY <1>1, ZeroIsQuiet
<1>3. TypeOK' /\ BatcherDrained' /\ Written' /\ NoSendOnClosed'
  BY <1>1 DEF IInv, TypeOK, BatcherDrained, Written, NoSendOnClosed
<1>4. EachInOnePlace' /\ ClosedIsQuiet' /\ WgCountsSenders'
  BY <1>1, <1>2 DEF IInv, EachInOnePlace, Pending, ClosedIsQuiet, Busy, WgCountsSenders
<1> QED BY <1>3, <1>4 DEF IInv

\* The consumer and the connection touch nothing of the pool.
LEMMA ConsumerStep ==
    ASSUME IInv, Consumer \/ Break
    PROVE  IInv'
<1> USE HashAllAssumption
<1>1. UNCHANGED <<total, bpc, taken, i, hpc, op, wg, pairsClosed, received, panicked>>
  BY DEF Consumer, HashWrite, WriteFails, FinalFlush, Break, Unchanged, batcher, handler
<1>2. BatcherDrained' /\ EachInOnePlace' /\ WgCountsSenders' /\ NoSendOnClosed'
  BY <1>1 DEF IInv, BatcherDrained, EachInOnePlace, Pending, Busy, WgCountsSenders,
              NoSendOnClosed
<1>3. Len(received) \in Nat /\ TypeOK
  BY DEF IInv, TypeOK
<1>4. TypeOK' /\ Written' /\ (cpc' = "nil" => pairsClosed)
  <2>1. CASE HashWrite
    <3>1. /\ cpc = "write" /\ cpc' = "range" /\ broken' = broken
          /\ Len(received) = sent + buffered + 1
      BY <2>1 DEF HashWrite, IInv, Written
    <3>2. buffered' \in 0..BufSize /\ sent' \in Nat /\ sent' + buffered' = sent + buffered + 1
      BY <2>1, <1>3 DEF HashWrite, TypeOK
    <3>3. Written'
      BY <1>1, <1>3, <3>1, <3>2 DEF Written
    <3> QED BY <1>1, <1>3, <3>1, <3>2, <3>3 DEF TypeOK
  <2>2. CASE WriteFails
    BY <2>2, <1>1, <1>3 DEF WriteFails, IInv, TypeOK, Written
  <2>3. CASE FinalFlush
    <3>1. /\ cpc = "range" /\ cpc' = "nil" /\ broken' = broken /\ pairsClosed
          /\ Len(received) = sent + buffered
      BY <2>3, <1>3 DEF FinalFlush, IInv, Written, TypeOK
    <3>2. buffered' \in 0..BufSize /\ sent' \in Nat /\ sent' + buffered' = sent + buffered
      BY <2>3, <1>3 DEF FinalFlush, TypeOK
    <3>3. Written'
      BY <1>1, <1>3, <3>1, <3>2 DEF Written
    <3> QED BY <1>1, <1>3, <3>1, <3>2, <3>3 DEF TypeOK
  <2>4. CASE Break
    BY <2>4, <1>1, <1>3 DEF Break, IInv, TypeOK, Written, ClosedIsQuiet
  <2> QED BY <2>1, <2>2, <2>3, <2>4 DEF Consumer
<1>5. ClosedIsQuiet'
  BY <1>1, <1>4 DEF IInv, ClosedIsQuiet, Busy
<1> QED BY <1>2, <1>4, <1>5 DEF IInv

\* Every step of the pool keeps the invariant.
LEMMA NextIInv == IInv /\ [Next]_vars => IInv'
<1> SUFFICES ASSUME IInv, [Next]_vars PROVE IInv'
  OBVIOUS
<1>1. CASE UNCHANGED vars
  BY <1>1 DEF vars, batcher, handler, consumer, IInv, TypeOK, BatcherDrained, Busy,
              ClosedIsQuiet, EachInOnePlace, Pending, Written, WgCountsSenders,
              NoSendOnClosed
<1> QED BY <1>1, TakeStep, InputClosedStep, SubmitStep, BatcherDoneStep, PumpStep,
           PumpDoneStep, CloseStep, ConsumerStep DEF Next, Batcher, Handler

----------------------------------------------------------------------------
\* The inductive invariant: every identifier is in one place, and the wait
\* group stands for those that can still move one.
THEOREM Invariance == Spec => []IInv
<1> QED BY InitIInv, NextIInv, PTL DEF Spec

\* The wait group counts the goroutines that may still send, for every number
\* of handlers and batches: no Add comes too late and no Done is missing.
THEOREM WaitGroupCorrect == Spec => []WgCountsSenders
<1>1. IInv => WgCountsSenders
  BY DEF IInv
<1> QED BY <1>1, Invariance, PTL

\* No handler ever sends on the closed channel.
THEOREM CloseCorrect == Spec => []NoSendOnClosed
<1>1. IInv => NoSendOnClosed
  BY DEF IInv
<1> QED BY <1>1, Invariance, PTL

\* A consumer whose range loop ends has received each identifier once.
THEOREM NothingLost == Spec => []ClosedMeansAll
<1>1. IInv => ClosedMeansAll
  BY QuietMeansAll DEF IInv, ClosedIsQuiet, ClosedMeansAll
<1> QED BY <1>1, Invariance, PTL

\* Behind a nil result of the stage at most one buffer of hashes is missing,
\* whatever the sizes and wherever the connection broke.
THEOREM NilCorrect == Spec => []NilMissesAtMostABuffer
<1>1. ASSUME IInv PROVE NilMissesAtMostABuffer
  <2> SUFFICES ASSUME cpc = "nil" PROVE total - sent <= BufSize
    BY DEF NilMissesAtMostABuffer
  <2>1. pairsClosed /\ bpc = "exited" /\ Busy = {}
    BY <1>1 DEF IInv, ClosedIsQuiet
  <2>2. Len(received) = total /\ Len(received) = sent + buffered
    BY <1>1, <2>1, QuietMeansAll DEF IInv, Written, TypeOK
  <2> QED BY <1>1, <2>2, HashAllAssumption DEF IInv, TypeOK
<1>2. IInv => NilMissesAtMostABuffer
  BY <1>1
<1> QED BY <1>2, Invariance, PTL
=============================================================================
