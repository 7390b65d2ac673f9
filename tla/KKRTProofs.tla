----------------------------- MODULE KKRTProofs -----------------------------
(***************************************************************************)
(* The two ends of KKRTPSI that work on their own.  Stage 3 of the sender: *)
(* for every number of inputs, workers, batch and buffer size, the         *)
(* division of the work covers no input twice, the writer closes the       *)
(* channel only when nobody has anything to send, and a nil result has     *)
(* every input on the wire.  The receiver's cuckoo table: its placement,   *)
(* for every table size, every hash family, every limit on reinsertions    *)
(* and any number of calls.                                                *)
(***************************************************************************)
EXTENDS KKRTParts, FiniteSetTheorems, TLAPS

----------------------------------------------------------------------------
(* The cuckoo table of the receiver.                                       *)

Unplaced == pc \in {"evict", "failed"}

\* What the eviction loop relies on: the homeless slot is a live one, and in
\* the middle of the loop every bucket of its item is occupied, so that there
\* is always an item to evict.
LoopInv ==
    /\ Unplaced => inserted < Size /\ idx \in Live
    /\ pc = "evict" => /\ round < ReInsertLimit
                       /\ \A h \in HashIdx : bucketLookup[hash[items[idx]][h]] # 0

SlotsInv ==
    /\ items[0] = Nil
    /\ \A s \in Live : items[s] \in Items

\* The inductive invariant.  Neither placement property is inductive alone:
\* that an evicted item was at home needs that buckets hold their items, and
\* that a new item is no duplicate needs that every item is at home.
TableInv ==
    /\ TypeOK
    /\ SlotsInv
    /\ LoopInv
    /\ EveryItemAtHome
    /\ BucketsHoldTheirItems
    /\ NoDuplicates

----------------------------------------------------------------------------
\* There is at least one bucket, whatever the announced size.
LEMMA BucketsExist == BucketSize \in Nat /\ BucketSize >= 1
<1>1. CASE Size = 0
  BY <1>1 DEF BucketSize
<1>2. CASE Size # 0
  <2>1. Size \in Nat /\ Size >= 1
    BY <1>2, CuckooAssumption
  <2>2. (14 * Size) \div 10 \in Nat /\ (14 * Size) \div 10 >= 1
    BY <2>1
  <2> QED BY <1>2, <2>2 DEF BucketSize
<1> QED BY <1>1, <1>2

\* What tryAdd returns: a free bucket other than the excepted one.
LEMMA FreeHashIsFree ==
    ASSUME NEW x, NEW e, FreeHash(x, e) # {}
    PROVE  LET g == CHOOSE k \in FreeHash(x, e) : TRUE
           IN  /\ g \in FreeHash(x, e)
               /\ g \in HashIdx
               /\ bucketLookup[hash[x][g]] = 0
               /\ hash[x][g] # e
<1> DEFINE g == CHOOSE k \in FreeHash(x, e) : TRUE
<1>1. g \in FreeHash(x, e)
  OBVIOUS
<1> QED BY <1>1 DEF FreeHash

\* tryAdd only fails when every other bucket of the item is taken.
LEMMA NoFreeHash ==
    ASSUME NEW x, NEW e, FreeHash(x, e) = {}
    PROVE  \A h \in HashIdx : bucketLookup[hash[x][h]] # 0 \/ hash[x][h] = e
<1> DEFINE Taken(h) == bucketLookup[hash[x][h]] # 0 \/ hash[x][h] = e
<1>1. \A h \in HashIdx : ~ (~Taken(h) /\ \A g \in 0..(h - 1) : Taken(g))
  BY DEF FreeHash
<1> HIDE DEF Taken
<1>2. Taken(0)
  <2>1. 0 \in HashIdx /\ \A g \in 0..(0 - 1) : Taken(g)
    BY DEF HashIdx
  <2> QED BY <1>1, <2>1
<1>3. Taken(1)
  <2>1. 1 \in HashIdx /\ \A g \in 0..(1 - 1) : g = 0
    BY DEF HashIdx
  <2> QED BY <1>1, <1>2, <2>1
<1>4. Taken(2)
  <2>1. 2 \in HashIdx /\ \A g \in 0..(2 - 1) : g = 0 \/ g = 1
    BY DEF HashIdx
  <2> QED BY <1>1, <1>2, <1>3, <2>1
<1>5. \A h \in HashIdx : h = 0 \/ h = 1 \/ h = 2
  BY DEF HashIdx
<1> QED BY <1>2, <1>3, <1>4, <1>5 DEF Taken

\* The duplicate check is complete: an item that Exists does not find is in
\* no live slot.
LEMMA ExistsFindsAll ==
    ASSUME TableInv, pc = "ready", NEW x \in Items, ~Exists(x)
    PROVE  \A s \in Live : items[s] # x
<1> SUFFICES ASSUME NEW s \in Live, items[s] = x PROVE FALSE
  OBVIOUS
<1>1. bucketLookup[Home(s)] = s
  BY DEF TableInv, EveryItemAtHome, Homeless
<1>2. s \in Slots
  BY CuckooAssumption DEF TableInv, TypeOK, Live, Slots
<1>3. Home(s) \in BucketIndices(x)
  BY <1>2 DEF Home, BucketIndices, TableInv, TypeOK
<1> QED BY <1>1, <1>3 DEF Exists

----------------------------------------------------------------------------
\* An empty table satisfies the invariant.
LEMMA InitTable == NewCuckoo => TableInv
<1> SUFFICES ASSUME NewCuckoo PROVE TableInv
  OBVIOUS
<1>0. Live = {}
  BY DEF NewCuckoo, Live
<1>1. TypeOK
  <2>1. hash \in [Items -> [HashIdx -> Buckets]]
    BY CuckooAssumption DEF NewCuckoo
  <2>2. 0 \in Slots /\ 0 \in 0..Size /\ 0 \in HashIdx
    BY CuckooAssumption DEF Slots, HashIdx
  <2>3. 0 \in 0..ReInsertLimit /\ 0 \in 0..MaxCalls
    BY CuckooAssumption
  <2> QED BY <2>1, <2>2, <2>3 DEF NewCuckoo, TypeOK
<1>2. SlotsInv
  BY <1>0, CuckooAssumption DEF NewCuckoo, SlotsInv, Slots
<1>3. LoopInv
  BY DEF NewCuckoo, LoopInv, Unplaced
<1>4. EveryItemAtHome /\ NoDuplicates
  BY <1>0 DEF EveryItemAtHome, NoDuplicates
<1>5. BucketsHoldTheirItems
  BY DEF NewCuckoo, BucketsHoldTheirItems
<1> QED BY <1>1, <1>2, <1>3, <1>4, <1>5 DEF TableInv

\* A new item in a free bucket.
LEMMA InsertFreeStep ==
    ASSUME TableInv, NEW x \in Items, InsertFree(x)
    PROVE  TableInv'
<1> USE CuckooAssumption
<1>1. /\ pc = "ready" /\ pc' = "ready" /\ inserted < Size
      /\ items' = [items EXCEPT ![inserted + 1] = x]
      /\ inserted' = inserted + 1
      /\ calls' \in 0..MaxCalls
      /\ UNCHANGED <<hash, idx, round>>
      /\ TypeOK
  BY DEF InsertFree, Called, TableInv, TypeOK
<1>2. PICK h \in FreeHash(x, NoBucket) :
         /\ bucketLookup' = [bucketLookup EXCEPT ![hash[x][h]] = inserted + 1]
         /\ hashIndices' = [hashIndices EXCEPT ![inserted + 1] = h]
  BY DEF InsertFree
<1>a. PICK new \in Nat : new = inserted + 1
  BY <1>1 DEF TypeOK
<1>b. PICK bk \in Buckets : bk = hash[x][h]
  BY <1>1 DEF FreeHash, TypeOK
<1>3. h \in HashIdx /\ bucketLookup[bk] = 0 /\ bk \in Buckets
  BY <1>b DEF FreeHash
<1>4. new \in Slots /\ new \in Nat /\ new # 0 /\ new \in 1..Size
  BY <1>1, <1>a DEF Slots, TypeOK
<1>5. /\ Live = 1..inserted /\ Live' = 1..new
      /\ Live' = Live \cup {new} /\ new \notin Live
      /\ Homeless = {} /\ Homeless' = {} /\ Live \subseteq Slots
  <2>1. inserted \in Nat /\ Size \in Nat
    BY <1>1, CuckooAssumption DEF TypeOK
  <2>2. Homeless = {} /\ Homeless' = {}
    BY <1>1 DEF Homeless
  <2>3. Live = 1..inserted /\ Live' = 1..new
    BY <1>1, <1>a DEF Live
  <2>4. 1..new = (1..inserted) \cup {new} /\ new \notin 1..inserted
    BY <2>1, <1>a
  <2>5. 1..inserted \subseteq Slots
    BY <1>1, <2>1 DEF Slots
  <2> QED BY <2>2, <2>3, <2>4, <2>5
<1>6. TypeOK'
  <2>1. items' \in [Slots -> Items \cup {Nil}]
    BY <1>1, <1>4, <1>a, <1>b DEF TypeOK
  <2>2. hashIndices' \in [Slots -> HashIdx]
    BY <1>1, <1>2, <1>3, <1>4, <1>a, <1>b DEF TypeOK
  <2>3. bucketLookup' \in [Buckets -> Slots]
    BY <1>1, <1>2, <1>3, <1>4, <1>a, <1>b DEF TypeOK
  <2> QED BY <1>1, <1>4, <2>1, <2>2, <2>3, <1>a, <1>b DEF TypeOK, Slots
<1>7. \A s \in Live : items'[s] = items[s] /\ hashIndices'[s] = hashIndices[s]
  BY <1>1, <1>2, <1>4, <1>5, <1>a, <1>b DEF TypeOK
<1>8. items'[new] = x /\ hashIndices'[new] = h
  BY <1>1, <1>2, <1>4, <1>a, <1>b DEF TypeOK
<1>9. \A s \in Live : Home(s)' = Home(s)
  BY <1>1, <1>7 DEF Home
<1>10. Home(new)' = bk
  BY <1>1, <1>8, <1>a, <1>b DEF Home
<1>11. \A c \in Buckets : bucketLookup'[c] = IF c = bk THEN new ELSE bucketLookup[c]
  BY <1>1, <1>2, <1>3, <1>a, <1>b DEF TypeOK
<1>12. SlotsInv'
  <2>1. items'[0] = Nil
    BY <1>1, <1>4, <1>a, <1>b DEF SlotsInv, TableInv, TypeOK, Slots
  <2> QED BY <2>1, <1>5, <1>7, <1>8 DEF SlotsInv, TableInv
<1>13. LoopInv'
  BY <1>1 DEF LoopInv, Unplaced
<1>14. EveryItemAtHome'
  <2> SUFFICES ASSUME NEW s \in Live' PROVE bucketLookup'[Home(s)'] = s
    BY <1>5 DEF EveryItemAtHome
  <2>1. CASE s = new
    BY <2>1, <1>3, <1>10, <1>11
  <2>2. CASE s \in Live
    <3>1. bucketLookup[Home(s)] = s /\ s # 0
      BY <2>2, <1>5 DEF TableInv, EveryItemAtHome
    <3>2. Home(s) \in Buckets
      BY <2>2, <1>1, <1>5 DEF Home, TableInv, SlotsInv, TypeOK
    <3>3. Home(s) # bk
      BY <3>1, <1>3
    <3> QED BY <3>1, <3>2, <3>3, <2>2, <1>9, <1>11
  <2> QED BY <2>1, <2>2, <1>5
<1>15. BucketsHoldTheirItems'
  <2> SUFFICES ASSUME NEW c \in Buckets, bucketLookup'[c] # 0
               PROVE  bucketLookup'[c] \in Live' /\ Home(bucketLookup[c])' = c
    BY <1>5 DEF BucketsHoldTheirItems
  <2>1. CASE c = bk
    BY <2>1, <1>5, <1>10, <1>11
  <2>2. CASE c # bk
    <3>1. bucketLookup'[c] = bucketLookup[c]
      BY <2>2, <1>11
    <3>2. bucketLookup[c] \in Live /\ Home(bucketLookup[c]) = c
      BY <3>1, <1>5 DEF TableInv, BucketsHoldTheirItems
    <3> QED BY <3>1, <3>2, <1>5, <1>9
  <2> QED BY <2>1, <2>2
<1>16. NoDuplicates'
  <2>1. \A s \in Live : items[s] # x
    BY <1>1, ExistsFindsAll DEF InsertFree
  <2> QED BY <2>1, <1>5, <1>7, <1>8 DEF NoDuplicates, TableInv
<1> QED BY <1>6, <1>12, <1>13, <1>14, <1>15, <1>16 DEF TableInv

\* A call past the capacity changes nothing but the control state.
LEMMA InsertOverflowStep == TableInv /\ InsertOverflow => TableInv'
<1> SUFFICES ASSUME TableInv, InsertOverflow PROVE TableInv'
  OBVIOUS
<1> USE CuckooAssumption DEF InsertOverflow
<1>1. /\ UNCHANGED <<hash, items, inserted, hashIndices, bucketLookup, idx, round>>
      /\ pc = "ready" /\ pc' \in {"ready", "panicked"}
      /\ TypeOK /\ calls' \in 0..MaxCalls
  BY DEF TableInv, TypeOK
<1>2. Live' = Live /\ Homeless' = Homeless /\ \A s : Home(s)' = Home(s)
  BY <1>1 DEF Live, Homeless, Home
<1>3. TypeOK'
  BY <1>1 DEF TypeOK
<1>4. SlotsInv' /\ EveryItemAtHome' /\ NoDuplicates'
  BY <1>1, <1>2 DEF TableInv, SlotsInv, EveryItemAtHome, NoDuplicates
<1>5. BucketsHoldTheirItems'
  BY <1>1, <1>2 DEF TableInv, BucketsHoldTheirItems
<1>6. LoopInv'
  BY <1>1 DEF LoopInv, Unplaced
<1> QED BY <1>3, <1>4, <1>5, <1>6 DEF TableInv

\* The item is left in the slot after the last, which no bucket points to.
LEMMA InsertDuplicateStep ==
    ASSUME TableInv, NEW x \in Items, InsertDuplicate(x)
    PROVE  TableInv'
<1> USE CuckooAssumption
<1>1. /\ UNCHANGED <<hash, inserted, hashIndices, bucketLookup, idx, round, pc>>
      /\ pc = "ready" /\ inserted < Size
      /\ items' = [items EXCEPT ![inserted + 1] = x]
      /\ TypeOK /\ calls' \in 0..MaxCalls
  BY DEF InsertDuplicate, Called, TableInv, TypeOK
<1>2. /\ inserted + 1 \in Slots /\ inserted + 1 # 0 /\ inserted + 1 \notin Live
      /\ Live \subseteq Slots
  BY <1>1 DEF Slots, Live, TypeOK
<1>3. Live' = Live /\ Homeless' = {} /\ Homeless = {}
  BY <1>1 DEF Live, Homeless
<1>4. \A s \in Live : items'[s] = items[s] /\ Home(s)' = Home(s)
  BY <1>1, <1>2 DEF TypeOK, Home
<1>5. TypeOK'
  BY <1>1, <1>2 DEF TypeOK
<1>6. SlotsInv'
  <2>1. items'[0] = Nil
    BY <1>1, <1>2 DEF TypeOK, TableInv, SlotsInv, Slots
  <2> QED BY <2>1, <1>3, <1>4 DEF TableInv, SlotsInv
<1>7. EveryItemAtHome' /\ NoDuplicates'
  BY <1>1, <1>3, <1>4 DEF TableInv, EveryItemAtHome, NoDuplicates
<1>8. BucketsHoldTheirItems'
  <2> SUFFICES ASSUME NEW c \in Buckets, bucketLookup'[c] # 0
               PROVE  bucketLookup'[c] \in Live' /\ Home(bucketLookup[c])' = c
    BY <1>3 DEF BucketsHoldTheirItems
  <2>1. bucketLookup'[c] = bucketLookup[c]
    BY <1>1
  <2>2. bucketLookup[c] \in Live /\ Home(bucketLookup[c]) = c
    BY <2>1, <1>3 DEF TableInv, BucketsHoldTheirItems
  <2> QED BY <2>1, <2>2, <1>3, <1>4
<1>9. LoopInv'
  BY <1>1 DEF LoopInv, Unplaced
<1> QED BY <1>5, <1>6, <1>7, <1>8, <1>9 DEF TableInv

\* The new item becomes live and homeless; all its buckets are taken.
LEMMA InsertGreedyStep ==
    ASSUME TableInv, NEW x \in Items, InsertGreedy(x)
    PROVE  TableInv'
<1> USE CuckooAssumption
<1>1. /\ UNCHANGED <<hash, inserted, hashIndices, bucketLookup>>
      /\ pc = "ready" /\ inserted < Size
      /\ items' = [items EXCEPT ![inserted + 1] = x]
      /\ TypeOK /\ calls' \in 0..MaxCalls
      /\ idx' = inserted + 1 /\ round' = 1
      /\ pc' = IF ReInsertLimit = 1 THEN "failed" ELSE "evict"
  BY DEF InsertGreedy, Called, TableInv, TypeOK
<1>2. PICK new \in Nat : new = inserted + 1
  BY <1>1 DEF TypeOK
<1>3. /\ new \in Slots /\ new # 0 /\ new \notin Live /\ Live \subseteq Slots
      /\ Live' = Live \cup {new} /\ Homeless = {} /\ Homeless' = {new}
  BY <1>1, <1>2 DEF Slots, Live, Homeless, TypeOK
<1>4. \A s \in Live : items'[s] = items[s] /\ Home(s)' = Home(s)
  BY <1>1, <1>2, <1>3 DEF TypeOK, Home
<1>5. items'[new] = x
  BY <1>1, <1>2, <1>3 DEF TypeOK
<1>6. TypeOK'
  BY <1>1, <1>2, <1>3 DEF TypeOK
<1>7. SlotsInv'
  <2>1. items'[0] = Nil
    BY <1>1, <1>2, <1>3 DEF TypeOK, TableInv, SlotsInv, Slots
  <2> QED BY <2>1, <1>3, <1>4, <1>5 DEF TableInv, SlotsInv
<1>8. LoopInv'
  <2>1. FreeHash(x, NoBucket) = {}
    BY DEF InsertGreedy
  <2>2. \A h \in HashIdx : hash[x][h] # NoBucket
    <3>1. \A h \in HashIdx : hash[x][h] \in Buckets
      BY <1>1 DEF TypeOK
    <3>2. NoBucket \notin Buckets
      BY BucketsExist DEF NoBucket, Buckets
    <3> QED BY <3>1, <3>2
  <2>3. \A h \in HashIdx : bucketLookup[hash[x][h]] # 0
    BY <2>1, <2>2, NoFreeHash
  <2>4. \A h \in HashIdx : bucketLookup'[hash'[items'[idx']][h]] # 0
    BY <2>3, <1>1, <1>2, <1>5
  <2>5. pc' = "evict" => round' < ReInsertLimit
    BY <1>1
  <2> QED BY <2>4, <2>5, <1>1, <1>2, <1>3 DEF LoopInv, Unplaced
<1>9. EveryItemAtHome'
  <2>1. (Live \ Homeless)' = Live
    BY <1>3
  <2> QED BY <2>1, <1>1, <1>3, <1>4 DEF TableInv, EveryItemAtHome
<1>10. NoDuplicates'
  <2>1. \A s \in Live : items[s] # x
    BY <1>1, ExistsFindsAll DEF InsertGreedy
  <2> QED BY <2>1, <1>3, <1>4, <1>5 DEF NoDuplicates, TableInv
<1>11. BucketsHoldTheirItems'
  <2> SUFFICES ASSUME NEW c \in Buckets, bucketLookup'[c] # 0
               PROVE  bucketLookup'[c] \in Live /\ Home(bucketLookup[c])' = c
    BY <1>3 DEF BucketsHoldTheirItems
  <2>1. bucketLookup'[c] = bucketLookup[c]
    BY <1>1
  <2>2. bucketLookup[c] \in Live /\ Home(bucketLookup[c]) = c
    BY <2>1, <1>3 DEF TableInv, BucketsHoldTheirItems
  <2> QED BY <2>1, <2>2, <1>4
<1> QED BY <1>6, <1>7, <1>8, <1>9, <1>10, <1>11 DEF TableInv

\* One round of the eviction loop.  The homeless item h0 takes bucket bk from
\* the item in slot ev, which either finds a free bucket or is homeless next.
LEMMA GreedyRoundStep ==
    ASSUME TableInv, NEW h \in HashIdx, GreedyRound(h)
    PROVE  TableInv'
<1> USE CuckooAssumption
<1> DEFINE free == FreeHash(items[bucketLookup[hash[items[idx]][h]]],
                            hash[items[idx]][h])
<1>1. /\ pc = "evict" /\ TypeOK /\ inserted < Size /\ idx \in Live
      /\ round < ReInsertLimit
      /\ UNCHANGED <<hash, items, calls>>
  BY DEF GreedyRound, TableInv, LoopInv, Unplaced
<1>2. PICK h0 \in Slots : h0 = idx
  BY <1>1 DEF TypeOK
<1>3. /\ Live = 1..(inserted + 1) /\ Live \subseteq Slots
      /\ h0 \in Live /\ Homeless = {h0} /\ h0 # 0
  BY <1>1, <1>2 DEF Live, Homeless, Slots, TypeOK
<1>4. items[h0] \in Items
  BY <1>3 DEF TableInv, SlotsInv
<1>5. PICK bk \in Buckets : bk = hash[items[h0]][h]
  BY <1>1, <1>4 DEF TypeOK
<1>6. PICK ev \in Slots : ev = bucketLookup[bk]
  BY <1>1 DEF TypeOK
<1>7. /\ ev # 0 /\ ev \in Live /\ ev # h0 /\ Home(ev) = bk /\ items[ev] \in Items
  <2>1. ev # 0
    BY <1>1, <1>2, <1>5, <1>6 DEF TableInv, LoopInv
  <2>2. ev \in Live \ Homeless /\ Home(ev) = bk
    BY <2>1, <1>6 DEF TableInv, BucketsHoldTheirItems
  <2> QED BY <2>1, <2>2, <1>3 DEF TableInv, SlotsInv
<1>8. free = FreeHash(items[ev], bk) /\ Evict(h, ev, free)
  BY <1>2, <1>5, <1>6 DEF GreedyRound
<1>9. \A s \in Live \ {h0} : /\ bucketLookup[Home(s)] = s
                             /\ Home(s) \in Buckets
  BY <1>1, <1>3 DEF TableInv, EveryItemAtHome, SlotsInv, Home, TypeOK
<1>10. \A c \in Buckets : bucketLookup[c] # 0 =>
          /\ bucketLookup[c] \in Live \ {h0}
          /\ Home(bucketLookup[c]) = c
  BY <1>3 DEF TableInv, BucketsHoldTheirItems
<1>11. CASE free = {}
  <2>1. /\ idx' = ev /\ inserted' = inserted /\ round' = round + 1
        /\ pc' = IF round + 1 < ReInsertLimit THEN "evict" ELSE "failed"
    BY <1>2, <1>5, <1>6, <1>11 DEF GreedyRound, MoreRounds, NextHomeless
  <2>2. /\ hashIndices' = [hashIndices EXCEPT ![h0] = h]
        /\ bucketLookup' = [bucketLookup EXCEPT ![bk] = h0]
    BY <1>2, <1>5, <1>8, <1>11 DEF Evict
  <2>3. Live' = Live /\ Homeless' = {ev}
    BY <1>3, <2>1 DEF Live, Homeless
  <2>4. \A s \in Live \ {h0} : Home(s)' = Home(s)
    BY <1>1, <1>3, <2>2 DEF TypeOK, Home
  <2>5. Home(h0)' = bk
    BY <1>1, <1>3, <1>5, <2>2 DEF TypeOK, Home
  <2>6. \A c \in Buckets : bucketLookup'[c] = IF c = bk THEN h0 ELSE bucketLookup[c]
    BY <1>1, <2>2 DEF TypeOK
  <2>7. TypeOK'
    <3>1. /\ hashIndices' \in [Slots -> HashIdx]
          /\ bucketLookup' \in [Buckets -> Slots]
      BY <1>1, <2>2 DEF TypeOK
    <3>2. round' \in 0..ReInsertLimit
      BY <1>1, <2>1 DEF TypeOK
    <3> QED BY <1>1, <2>1, <3>1, <3>2 DEF TypeOK
  <2>8. SlotsInv' /\ NoDuplicates'
    BY <1>1, <2>3 DEF TableInv, SlotsInv, NoDuplicates
  <2>9. LoopInv'
    <3>1. \A g \in HashIdx :
             bucketLookup[hash[items[ev]][g]] # 0 \/ hash[items[ev]][g] = bk
      BY <1>8, <1>11, NoFreeHash
    <3>2. \A g \in HashIdx : hash[items[ev]][g] \in Buckets
      BY <1>1, <1>7 DEF TypeOK
    <3>3. \A g \in HashIdx : bucketLookup'[hash[items[ev]][g]] # 0
      BY <3>1, <3>2, <2>6, <1>3
    <3>4. \A g \in HashIdx : bucketLookup'[hash'[items'[idx']][g]] # 0
      BY <3>3, <1>1, <2>1
    <3>5. pc' = "evict" => round' < ReInsertLimit
      BY <2>1
    <3> QED BY <3>4, <3>5, <1>1, <1>7, <2>1, <2>3 DEF LoopInv, Unplaced
  <2>10. EveryItemAtHome'
    <3> SUFFICES ASSUME NEW s \in Live \ {ev} PROVE bucketLookup'[Home(s)'] = s
      BY <2>3 DEF EveryItemAtHome
    <3>1. CASE s = h0
      BY <3>1, <2>5, <2>6
    <3>2. CASE s # h0
      <4>1. bucketLookup[Home(s)] = s /\ Home(s) \in Buckets /\ Home(s)' = Home(s)
        BY <3>2, <1>9, <2>4
      <4>2. Home(s) # bk
        BY <4>1, <1>6
      <4> QED BY <4>1, <4>2, <2>6
    <3> QED BY <3>1, <3>2
  <2>11. BucketsHoldTheirItems'
    <3> SUFFICES ASSUME NEW c \in Buckets, bucketLookup'[c] # 0
                 PROVE  bucketLookup'[c] \in Live \ {ev} /\ Home(bucketLookup[c])' = c
      BY <2>3 DEF BucketsHoldTheirItems
    <3>1. CASE c = bk
      BY <3>1, <1>3, <1>7, <2>5, <2>6
    <3>2. CASE c # bk
      <4>1. bucketLookup'[c] = bucketLookup[c]
        BY <3>2, <2>6
      <4>2. bucketLookup[c] \in Live \ {h0} /\ Home(bucketLookup[c]) = c
        BY <4>1, <1>10
      <4>3. bucketLookup[c] # ev
        BY <4>2, <3>2, <1>7
      <4> QED BY <4>1, <4>2, <4>3, <2>4
    <3> QED BY <3>1, <3>2
  <2> QED BY <2>7, <2>8, <2>9, <2>10, <2>11 DEF TableInv
<1>12. CASE free # {}
  <2>1. /\ idx' = 0 /\ inserted' = inserted + 1 /\ round' = 0 /\ pc' = "ready"
    BY <1>2, <1>5, <1>6, <1>12 DEF GreedyRound
  <2>2. PICK g \in HashIdx : /\ g = CHOOSE k \in free : TRUE
                             /\ bucketLookup[hash[items[ev]][g]] = 0
                             /\ hash[items[ev]][g] # bk
    BY <1>8, <1>12, FreeHashIsFree
  <2>3. PICK fb \in Buckets : fb = hash[items[ev]][g]
    BY <1>1, <1>7 DEF TypeOK
  <2>4. /\ hashIndices' = [hashIndices EXCEPT ![h0] = h, ![ev] = g]
        /\ bucketLookup' = [bucketLookup EXCEPT ![bk] = h0, ![fb] = ev]
    BY <1>2, <1>5, <1>8, <1>12, <2>2, <2>3 DEF Evict
  <2>5. Live' = Live /\ Homeless' = {}
    BY <1>1, <1>3, <2>1 DEF Live, Homeless, TypeOK
  <2>6. \A s \in Live \ {h0, ev} : Home(s)' = Home(s)
    BY <1>1, <1>3, <2>4 DEF TypeOK, Home
  <2>7. Home(h0)' = bk /\ Home(ev)' = fb /\ fb # bk
    <3>1. hashIndices'[h0] = h /\ hashIndices'[ev] = g
      BY <1>1, <1>7, <2>4 DEF TypeOK
    <3> QED BY <3>1, <1>1, <1>5, <2>2, <2>3 DEF Home
  <2>8. \A c \in Buckets :
          bucketLookup'[c] = IF c = bk THEN h0 ELSE IF c = fb THEN ev
                             ELSE bucketLookup[c]
    BY <1>1, <2>2, <2>3, <2>4 DEF TypeOK
  <2>9. TypeOK'
    <3>1. /\ hashIndices' \in [Slots -> HashIdx]
          /\ bucketLookup' \in [Buckets -> Slots]
      BY <1>1, <2>4 DEF TypeOK
    <3>2. inserted' \in 0..Size /\ 0 \in Slots /\ 0 \in 0..ReInsertLimit
      BY <1>1, <2>1 DEF TypeOK, Slots
    <3> QED BY <1>1, <2>1, <3>1, <3>2 DEF TypeOK
  <2>10. SlotsInv' /\ NoDuplicates'
    BY <1>1, <2>5 DEF TableInv, SlotsInv, NoDuplicates
  <2>11. LoopInv'
    BY <2>1 DEF LoopInv, Unplaced
  <2>12. EveryItemAtHome'
    <3> SUFFICES ASSUME NEW s \in Live PROVE bucketLookup'[Home(s)'] = s
      BY <2>5 DEF EveryItemAtHome
    <3>1. CASE s = h0
      BY <3>1, <2>7, <2>8
    <3>2. CASE s = ev
      BY <3>2, <2>7, <2>8
    <3>3. CASE s # h0 /\ s # ev
      <4>1. bucketLookup[Home(s)] = s /\ Home(s) \in Buckets /\ Home(s)' = Home(s)
        BY <3>3, <1>9, <2>6
      <4>2. s # 0
        BY <1>1, <1>3 DEF TypeOK
      <4>3. Home(s) # bk
        BY <4>1, <3>3, <1>6
      <4>4. Home(s) # fb
        BY <4>1, <4>2, <2>2, <2>3
      <4> QED BY <4>1, <4>3, <4>4, <2>8
    <3> QED BY <3>1, <3>2, <3>3
  <2>13. BucketsHoldTheirItems'
    <3> SUFFICES ASSUME NEW c \in Buckets, bucketLookup'[c] # 0
                 PROVE  bucketLookup'[c] \in Live /\ Home(bucketLookup[c])' = c
      BY <2>5 DEF BucketsHoldTheirItems
    <3>1. CASE c = bk
      BY <3>1, <1>3, <2>7, <2>8
    <3>2. CASE c = fb
      BY <3>2, <1>7, <2>7, <2>8
    <3>3. CASE c # bk /\ c # fb
      <4>1. bucketLookup'[c] = bucketLookup[c]
        BY <3>3, <2>8
      <4>2. bucketLookup[c] \in Live \ {h0} /\ Home(bucketLookup[c]) = c
        BY <4>1, <1>10
      <4>3. bucketLookup[c] # ev
        BY <4>2, <3>3, <1>7
      <4> QED BY <4>1, <4>2, <4>3, <2>6
    <3> QED BY <3>1, <3>2, <3>3
  <2> QED BY <2>9, <2>10, <2>11, <2>12, <2>13 DEF TableInv
<1> QED BY <1>11, <1>12

----------------------------------------------------------------------------
\* The invariant is preserved by every step.
LEMMA InsertTable == TableInv /\ [Insert]_table => TableInv'
<1> SUFFICES ASSUME TableInv, [Insert]_table PROVE TableInv'
  OBVIOUS
<1>1. CASE InsertOverflow
  BY <1>1, InsertOverflowStep
<1>2. ASSUME NEW x \in Items, InsertDuplicate(x) PROVE TableInv'
  BY <1>2, InsertDuplicateStep
<1>3. ASSUME NEW x \in Items, InsertFree(x) PROVE TableInv'
  BY <1>3, InsertFreeStep
<1>4. ASSUME NEW x \in Items, InsertGreedy(x) PROVE TableInv'
  BY <1>4, InsertGreedyStep
<1>5. ASSUME NEW h \in HashIdx, GreedyRound(h) PROVE TableInv'
  BY <1>5, GreedyRoundStep
<1>6. CASE UNCHANGED table
  BY <1>6 DEF table, TableInv, TypeOK, SlotsInv, LoopInv, Unplaced, EveryItemAtHome,
              BucketsHoldTheirItems, NoDuplicates, Live, Homeless, Home
<1> QED BY <1>1, <1>2, <1>3, <1>4, <1>5, <1>6 DEF Insert

\* The cuckoo table is always in a state of the inductive invariant.
THEOREM TableInvariance == CuckooSpec => []TableInv
<1> QED BY InitTable, InsertTable, PTL DEF CuckooSpec

\* Type correctness: no insertion, however it evicts, takes the table's
\* indices out of their ranges (Insert, tryAdd and tryGreedyAdd).
THEOREM TypeCorrect == CuckooSpec => []TypeOK
<1>1. TableInv => TypeOK
  BY DEF TableInv
<1> QED BY <1>1, TableInvariance, PTL

\* Every inserted item is in the bucket its recorded hash index names, and no
\* bucket names a stale slot, after any sequence of insertions and evictions.
THEOREM PlacementCorrect == CuckooSpec => []Placement
<1>1. TableInv => Placement
  BY DEF TableInv, Placement
<1> QED BY <1>1, TableInvariance, PTL

\* No item is ever in the table twice, which is what Insert's duplicate check
\* is for.
THEOREM DuplicateFree == CuckooSpec => []NoDuplicates
<1>1. TableInv => NoDuplicates
  BY DEF TableInv
<1> QED BY <1>1, TableInvariance, PTL

\* Lookup is exact as long as the empty byte string is not an identifier:
\* Exists finds an item if and only if it was inserted.
THEOREM LookupExact ==
    ASSUME Nil \notin Items
    PROVE  CuckooSpec => []ExistsIffInserted
<1>1. TableInv => ExistsIffInserted
  <2> SUFFICES ASSUME TableInv, pc = "ready", NEW x \in Items
               PROVE  Exists(x) <=> \E s \in 1..inserted : items[s] = x
    BY DEF ExistsIffInserted
  <2>1. Live = 1..inserted
    BY DEF Live
  <2>2. ASSUME Exists(x) PROVE \E s \in 1..inserted : items[s] = x
    <3>1. PICK c \in BucketIndices(x) : items[bucketLookup[c]] = x
      BY <2>2 DEF Exists
    <3>2. c \in Buckets
      BY DEF BucketIndices, TableInv, TypeOK
    <3>3. bucketLookup[c] # 0
      BY <3>1 DEF TableInv, SlotsInv
    <3>4. bucketLookup[c] \in Live
      BY <3>2, <3>3 DEF TableInv, BucketsHoldTheirItems
    <3> QED BY <3>1, <3>4, <2>1
  <2>3. ASSUME ~Exists(x) PROVE ~ \E s \in 1..inserted : items[s] = x
    BY <2>1, <2>3, ExistsFindsAll
  <2> QED BY <2>2, <2>3
<1> QED BY <1>1, TableInvariance, PTL

\* When Insert gives up, the error names the one item left without a bucket.
THEOREM FailureLosesOne == CuckooSpec => []OnlyOneHomeless
<1>1. TableInv => OnlyOneHomeless
  <2> SUFFICES ASSUME TableInv, pc = "failed"
               PROVE  {s \in 1..(inserted + 1) :
                          \A c \in Buckets : bucketLookup[c] # s} = {idx}
    BY DEF OnlyOneHomeless
  <2>1. Live = 1..(inserted + 1) /\ Homeless = {idx} /\ idx \in Live
    BY DEF Live, Homeless, TableInv, LoopInv, Unplaced
  <2>2. \A c \in Buckets : bucketLookup[c] # idx
    <3> SUFFICES ASSUME NEW c \in Buckets, bucketLookup[c] = idx PROVE FALSE
      OBVIOUS
    <3>1. idx # 0
      BY <2>1 DEF TableInv, TypeOK
    <3> QED BY <3>1, <2>1 DEF TableInv, BucketsHoldTheirItems
  <2>3. ASSUME NEW s \in 1..(inserted + 1), s # idx
        PROVE  \E c \in Buckets : bucketLookup[c] = s
    <3>1. bucketLookup[Home(s)] = s
      BY <2>1, <2>3 DEF TableInv, EveryItemAtHome
    <3>2. items[s] \in Items /\ s \in Slots
      BY <2>1, CuckooAssumption DEF TableInv, SlotsInv, LoopInv, Unplaced, TypeOK, Slots
    <3>3. Home(s) \in Buckets
      BY <3>2 DEF Home, TableInv, TypeOK
    <3> QED BY <3>1, <3>3
  <2> QED BY <2>1, <2>2, <2>3
<1> QED BY <1>1, TableInvariance, PTL

----------------------------------------------------------------------------
(* Stage 3 of the sender.                                                  *)

\* The members of a sequence, and that none occurs twice.
Elems(s) == {s[k] : k \in 1..Len(s)}
Distinct(s) == \A j, k \in 1..Len(s) : j # k => s[j] # s[k]

PipelineTypes ==
    /\ n \in 0..MaxInputs
    /\ epc \in [Encoders -> {"fill", "send", "nil", "error", "panicked"}]
    /\ batchNumber \in [Workers -> 0..workerResp]
    /\ batch \in [Encoders -> Seq(Nat)]
    /\ encoded \in [0..(n - 1) -> {0, 1}]
    /\ localEncodings \in Seq(Seq(Nat)) /\ closed \in BOOLEAN
    /\ wpc \in {"start", "range", "write", "nil", "error"}
    /\ rest \in Seq(Nat) /\ sent \in Nat /\ buf \in Seq(Nat) /\ wire \in Seq(Nat)
    /\ Len(buf) <= BufSize
    /\ down \in BOOLEAN /\ result \in {"running", "nil", "error"}

\* The inputs of batch k of worker w.
Share(w, k) == ((w * workerResp + k) * BatchSize)..((w * workerResp + k) * BatchSize + BatchSize - 1)

\* The batches that worker w has filled.
Filled(w) == batchNumber[w] + (IF epc[w] = "fill" THEN 0 ELSE 1)

\* Inputs of batches that are not filled yet are not encoded yet.
NotYetEncoded ==
    /\ \A w \in Workers, k \in 0..(workerResp - 1) : k >= Filled(w) =>
          \A x \in Share(w, k) : encoded[x] = 0
    /\ epc[Extra] = "fill" => \A x \in (n - workLeft)..(n - 1) : encoded[x] = 0
    /\ \A w \in Workers : epc[w] = "send" => batchNumber[w] < workerResp

\* Where an encoded input can be: in an encoder's hands, in the channel, or
\* with the writer.
Hand(e) == IF epc[e] = "send" THEN Elems(batch[e]) ELSE {}
Chan(k) == Elems(localEncodings[k])
Out == Elems(wire) \cup Elems(buf) \cup Elems(rest)

\* Every input is in at most one of these places, once, and was encoded.
EachInOnePlace ==
    /\ \A e \in Encoders : epc[e] = "send" => batch[e] # <<>> /\ Distinct(batch[e])
    /\ \A k \in 1..Len(localEncodings) :
          localEncodings[k] # <<>> /\ Distinct(localEncodings[k])
    /\ Distinct(wire) /\ Distinct(buf) /\ Distinct(rest)
    /\ Elems(wire) \cap Elems(buf) = {}
    /\ (Elems(wire) \cup Elems(buf)) \cap Elems(rest) = {}
    /\ \A d, e \in Encoders : d # e => Hand(d) \cap Hand(e) = {}
    /\ \A j, k \in 1..Len(localEncodings) : j # k => Chan(j) \cap Chan(k) = {}
    /\ \A e \in Encoders, k \in 1..Len(localEncodings) : Hand(e) \cap Chan(k) = {}
    /\ \A e \in Encoders : Hand(e) \cap Out = {}
    /\ \A k \in 1..Len(localEncodings) : Chan(k) \cap Out = {}

EncodedInPlaces ==
    /\ \A e \in Encoders : \A x \in Hand(e) : x \in 0..(n - 1) /\ encoded[x] = 1
    /\ \A k \in 1..Len(localEncodings) : \A x \in Chan(k) : x \in 0..(n - 1) /\ encoded[x] = 1
    /\ \A x \in Out : x \in 0..(n - 1) /\ encoded[x] = 1

\* The writer counts what it wrote; it closes the channel when that is all.
Counted ==
    /\ wpc # "nil" => sent = Len(wire) + Len(buf)
    /\ wpc = "start" => sent = 0 /\ rest = <<>>
    /\ closed => /\ sent = n /\ wpc \in {"range", "nil"}
                 /\ \A e \in Encoders : epc[e] # "send"
                 /\ \A x \in 0..(n - 1) : encoded[x] = 1
                 /\ localEncodings = <<>>
    /\ wpc = "nil" => /\ closed
                      /\ Len(wire) <= n
                      /\ n - Len(wire) <= IF down THEN BufSize ELSE 0
    /\ result = "nil" => wpc = "nil"

IInv == PipelineTypes /\ NotYetEncoded /\ EachInOnePlace /\ EncodedInPlaces /\ Counted
          /\ NoSendOnClosed

----------------------------------------------------------------------------
(* Sequences.                                                              *)

\* Appending adds one member.
LEMMA AppendElems ==
    ASSUME NEW s \in Seq(Nat), NEW x \in Nat
    PROVE  /\ Append(s, x) \in Seq(Nat) /\ Len(Append(s, x)) = Len(s) + 1
           /\ Elems(Append(s, x)) = Elems(s) \cup {x}
           /\ (Distinct(s) /\ x \notin Elems(s)) => Distinct(Append(s, x))
<1> DEFINE t == Append(s, x)
<1>1. /\ t \in Seq(Nat) /\ Len(t) = Len(s) + 1 /\ Len(s) \in Nat
      /\ \A k \in 1..Len(t) : t[k] = IF k = Len(s) + 1 THEN x ELSE s[k]
  OBVIOUS
<1> HIDE DEF t
<1>2. Elems(t) = Elems(s) \cup {x}
  <2>1. \A k \in 1..Len(s) : k \in 1..Len(t) /\ t[k] = s[k]
    BY <1>1
  <2>2. Len(s) + 1 \in 1..Len(t) /\ t[Len(s) + 1] = x
    BY <1>1
  <2>3. \A k \in 1..Len(t) : t[k] = x \/ (k \in 1..Len(s) /\ t[k] = s[k])
    BY <1>1
  <2> QED BY <2>1, <2>2, <2>3 DEF Elems
<1>3. ASSUME Distinct(s), x \notin Elems(s) PROVE Distinct(t)
  <2> SUFFICES ASSUME NEW j \in 1..Len(t), NEW k \in 1..Len(t), j # k PROVE t[j] # t[k]
    BY DEF Distinct
  <2>0. \A l \in 1..Len(s) : s[l] # x
    BY <1>3 DEF Elems
  <2>1. CASE j = Len(s) + 1
    <3>1. k \in 1..Len(s) /\ t[j] = x /\ t[k] = s[k]
      BY <1>1, <2>1
    <3> QED BY <2>0, <3>1
  <2>2. CASE k = Len(s) + 1
    <3>1. j \in 1..Len(s) /\ t[k] = x /\ t[j] = s[j]
      BY <1>1, <2>2
    <3> QED BY <2>0, <3>1
  <2>3. CASE j # Len(s) + 1 /\ k # Len(s) + 1
    <3>1. j \in 1..Len(s) /\ k \in 1..Len(s) /\ t[j] = s[j] /\ t[k] = s[k]
      BY <1>1, <2>3
    <3> QED BY <1>3, <3>1 DEF Distinct
  <2> QED BY <2>1, <2>2, <2>3
<1> QED BY <1>1, <1>2, <1>3 DEF t

\* The first member and the others.
LEMMA TailElems ==
    ASSUME NEW s \in Seq(Nat), s # <<>>
    PROVE  /\ Head(s) \in Nat /\ Tail(s) \in Seq(Nat)
           /\ Elems(s) = {Head(s)} \cup Elems(Tail(s))
           /\ Distinct(s) => Distinct(Tail(s)) /\ Head(s) \notin Elems(Tail(s))
<1> DEFINE t == Tail(s)
<1>1. /\ t \in Seq(Nat) /\ Len(t) = Len(s) - 1 /\ Len(s) \in Nat \ {0}
      /\ Head(s) = s[1] /\ s[1] \in Nat
      /\ \A k \in 1..Len(t) : t[k] = s[k + 1]
  OBVIOUS
<1> HIDE DEF t
<1>2. Elems(s) = {s[1]} \cup Elems(t)
  <2>1. \A k \in 1..Len(t) : k + 1 \in 1..Len(s) /\ t[k] = s[k + 1]
    BY <1>1
  <2>2. 1 \in 1..Len(s)
    BY <1>1
  <2>3. \A k \in 1..Len(s) : k = 1 \/ (k - 1 \in 1..Len(t) /\ t[k - 1] = s[k])
    <3> TAKE k \in 1..Len(s)
    <3>1. k # 1 => k - 1 \in 1..Len(t) /\ (k - 1) + 1 = k
      BY <1>1
    <3> QED BY <1>1, <3>1
  <2>4. ASSUME NEW x \in Elems(s) PROVE x \in {s[1]} \cup Elems(t)
    <3>1. PICK k \in 1..Len(s) : x = s[k]
      BY <2>4 DEF Elems
    <3> QED BY <2>3, <3>1 DEF Elems
  <2>5. ASSUME NEW x \in Elems(t) PROVE x \in Elems(s)
    <3>1. PICK k \in 1..Len(t) : x = t[k]
      BY <2>5 DEF Elems
    <3>2. PICK j \in 1..Len(s) : x = s[j]
      BY <2>1, <3>1
    <3> QED BY <3>2 DEF Elems
  <2>6. s[1] \in Elems(s)
    BY <2>2 DEF Elems
  <2> QED BY <2>4, <2>5, <2>6
<1>3. Distinct(s) => Distinct(t) /\ s[1] \notin Elems(t)
  <2> SUFFICES ASSUME Distinct(s) PROVE Distinct(t) /\ s[1] \notin Elems(t)
    OBVIOUS
  <2>1. \A k \in 1..Len(t) : k + 1 \in 1..Len(s) /\ t[k] = s[k + 1] /\ k + 1 # 1
    BY <1>1
  <2>2. \A j, k \in 1..Len(t) : j # k => j + 1 # k + 1
    BY <1>1
  <2>3. 1 \in 1..Len(s)
    BY <1>1
  <2>4. Distinct(t)
    BY <2>1, <2>2 DEF Distinct
  <2>5. \A k \in 1..Len(t) : t[k] # s[1]
    BY <2>1, <2>3 DEF Distinct
  <2> QED BY <2>4, <2>5 DEF Elems
<1> QED BY <1>1, <1>2, <1>3 DEF t

\* Two sequences one after the other.
LEMMA ConcatElems ==
    ASSUME NEW s \in Seq(Nat), NEW t \in Seq(Nat)
    PROVE  /\ s \o t \in Seq(Nat) /\ Len(s \o t) = Len(s) + Len(t)
           /\ Elems(s \o t) = Elems(s) \cup Elems(t)
           /\ (Distinct(s) /\ Distinct(t) /\ Elems(s) \cap Elems(t) = {})
                 => Distinct(s \o t)
<1> DEFINE u == s \o t
<1>1. /\ u \in Seq(Nat) /\ Len(u) = Len(s) + Len(t) /\ Len(s) \in Nat /\ Len(t) \in Nat
      /\ \A k \in 1..Len(u) : u[k] = IF k <= Len(s) THEN s[k] ELSE t[k - Len(s)]
  OBVIOUS
<1> HIDE DEF u
<1>2. \A k \in 1..Len(s) : k \in 1..Len(u) /\ u[k] = s[k]
  BY <1>1
<1>3. \A k \in 1..Len(t) : k + Len(s) \in 1..Len(u) /\ u[k + Len(s)] = t[k]
  <2> TAKE k \in 1..Len(t)
  <2>1. k + Len(s) \in 1..Len(u) /\ ~(k + Len(s) <= Len(s)) /\ (k + Len(s)) - Len(s) = k
    BY <1>1
  <2> QED BY <1>1, <2>1
<1>4. \A k \in 1..Len(u) : \/ k \in 1..Len(s) /\ u[k] = s[k]
                           \/ k - Len(s) \in 1..Len(t) /\ u[k] = t[k - Len(s)]
  BY <1>1
<1>5. Elems(u) = Elems(s) \cup Elems(t)
  <2>1. ASSUME NEW x \in Elems(u) PROVE x \in Elems(s) \cup Elems(t)
    <3>1. PICK k \in 1..Len(u) : x = u[k]
      BY <2>1 DEF Elems
    <3>2. CASE k \in 1..Len(s) /\ u[k] = s[k]
      BY <3>1, <3>2 DEF Elems
    <3>3. CASE k - Len(s) \in 1..Len(t) /\ u[k] = t[k - Len(s)]
      BY <3>1, <3>3 DEF Elems
    <3> QED BY <1>4, <3>2, <3>3
  <2>2. ASSUME NEW x \in Elems(s) PROVE x \in Elems(u)
    <3>1. PICK k \in 1..Len(s) : x = s[k]
      BY <2>2 DEF Elems
    <3> QED BY <1>2, <3>1 DEF Elems
  <2>3. ASSUME NEW x \in Elems(t) PROVE x \in Elems(u)
    <3>1. PICK k \in 1..Len(t) : x = t[k]
      BY <2>3 DEF Elems
    <3>2. PICK j \in 1..Len(u) : x = u[j]
      BY <1>3, <3>1
    <3> QED BY <3>2 DEF Elems
  <2> QED BY <2>1, <2>2, <2>3
<1>6. ASSUME Distinct(s), Distinct(t), Elems(s) \cap Elems(t) = {} PROVE Distinct(u)
  <2> SUFFICES ASSUME NEW j \in 1..Len(u), NEW k \in 1..Len(u), j # k PROVE u[j] # u[k]
    BY DEF Distinct
  <2>1. \A x \in 1..Len(s), y \in 1..Len(t) : s[x] # t[y]
    BY <1>6 DEF Elems
  <2>2. CASE j \in 1..Len(s) /\ u[j] = s[j]
    BY <1>4, <1>6, <2>1, <2>2 DEF Distinct
  <2>3. CASE j - Len(s) \in 1..Len(t) /\ u[j] = t[j - Len(s)]
    <3>1. j - Len(s) # k - Len(s)
      BY <1>1
    <3> QED BY <1>4, <1>6, <2>1, <2>3, <3>1 DEF Distinct
  <2> QED BY <1>4, <2>2, <2>3
<1> QED BY <1>1, <1>5, <1>6 DEF u

\* A sequence without repeats has as many members as its length.
LEMMA DistinctCard ==
    ASSUME NEW s \in Seq(Nat), Distinct(s)
    PROVE  IsFiniteSet(Elems(s)) /\ Cardinality(Elems(s)) = Len(s)
<1>1. s \in Bijection(1..Len(s), Elems(s))
  BY DEF Bijection, Injection, IsInjective, Surjection, Elems, Distinct
<1>2. IsFiniteSet(1..Len(s)) /\ Cardinality(1..Len(s)) = Len(s)
  <2>1. \A m \in Nat : IsFiniteSet(1..m) /\ Cardinality(1..m) = m
    <3> TAKE m \in Nat
    <3>1. Cardinality(1..m) = IF 1 > m THEN 0 ELSE m - 1 + 1
      BY FS_Interval
    <3> QED BY <3>1, FS_Interval
  <2> QED BY <2>1
<1>3. ExistsBijection(1..Len(s), Elems(s))
  BY <1>1 DEF ExistsBijection
<1> QED BY <1>2, <1>3, FS_Bijection

----------------------------------------------------------------------------
(* The division of the work.                                               *)

\* The workers' batches and the rest add up to the inputs.
LEMMA WorkSplit ==
    ASSUME n \in Nat
    PROVE  /\ workerResp \in Nat /\ workLeft \in 0..n
           /\ n - workLeft = workerResp * NWorkers * BatchSize
<1> DEFINE d == n \div BatchSize
<1>1. BatchSize \in Nat \ {0} /\ NWorkers \in Nat \ {0}
  BY PipelineAssumption
<1>2. d \in Nat /\ d * BatchSize <= n
  BY <1>1
<1>3. workerResp \in Nat /\ workerResp * NWorkers <= d
  <2> HIDE DEF d
  <2> QED BY <1>1, <1>2 DEF workerResp, d
<1>4. (workerResp * NWorkers) * BatchSize <= d * BatchSize
  <2> DEFINE q == workerResp * NWorkers
  <2>1. q \in Nat /\ q <= d
    BY <1>1, <1>3
  <2> HIDE DEF q, d
  <2>2. q * BatchSize <= d * BatchSize
    BY <1>1, <1>2, <2>1
  <2> QED BY <2>2 DEF q
<1>5. workerResp * NWorkers * BatchSize \in Nat /\ workerResp * NWorkers * BatchSize <= n
  BY <1>1, <1>2, <1>3, <1>4
<1> QED BY <1>3, <1>5 DEF workLeft

\* Batch k of worker w is the batch number w * workerResp + k of all.
LEMMA ShareIndex ==
    ASSUME n \in Nat, NEW w \in Workers, NEW k \in 0..(workerResp - 1)
    PROVE  w * workerResp + k \in 0..(workerResp * NWorkers - 1)
<1>1. workerResp \in Nat \ {0} /\ NWorkers \in Nat \ {0} /\ w \in 0..(NWorkers - 1)
  BY WorkSplit, PipelineAssumption DEF Workers
<1>2. w * workerResp \in Nat
  BY <1>1
<1>3. w * workerResp + workerResp <= workerResp * NWorkers
  BY <1>1
<1> QED BY <1>1, <1>2, <1>3

\* A worker's batch lies before the extra worker's.
LEMMA ShareInRange ==
    ASSUME n \in Nat, NEW w \in Workers, NEW k \in 0..(workerResp - 1)
    PROVE  /\ Share(w, k) \subseteq 0..(n - workLeft - 1) /\ Share(w, k) # {}
           /\ (w * workerResp + k) * BatchSize \in Nat
<1> DEFINE q == w * workerResp + k
           t == workerResp * NWorkers
<1>1. q \in 0..(t - 1) /\ t \in Int /\ BatchSize \in Nat \ {0}
  BY ShareIndex, WorkSplit, PipelineAssumption
<1>2. n - workLeft = t * BatchSize /\ workLeft \in Int
  BY WorkSplit
<1> HIDE DEF q, t
<1>3. q * BatchSize >= 0 /\ q * BatchSize + BatchSize <= t * BatchSize /\ q * BatchSize \in Int
  BY <1>1
<1>4. Share(w, k) = (q * BatchSize)..(q * BatchSize + BatchSize - 1)
  BY DEF Share, q
<1>5. q * BatchSize \in Share(w, k)
  BY <1>1, <1>3, <1>4
<1>6. Share(w, k) \subseteq 0..(n - workLeft - 1)
  BY <1>1, <1>2, <1>3, <1>4
<1>7. (w * workerResp + k) * BatchSize \in Nat
  BY <1>3 DEF q
<1> QED BY <1>5, <1>6, <1>7

\* No two batches share an input.
LEMMA SharesDisjoint ==
    ASSUME n \in Nat, NEW v \in Workers, NEW j \in 0..(workerResp - 1),
           NEW w \in Workers, NEW k \in 0..(workerResp - 1), v # w \/ j # k
    PROVE  Share(v, j) \cap Share(w, k) = {}
<1> DEFINE q == v * workerResp + j
           r == w * workerResp + k
<1>1. /\ workerResp \in Nat \ {0} /\ BatchSize \in Nat \ {0} /\ q \in Nat /\ r \in Nat
      /\ v \in Nat /\ w \in Nat
  BY ShareIndex, WorkSplit, PipelineAssumption DEF Workers
<1>2. q # r
  <2>1. CASE v = w
    BY <2>1, <1>1
  <2>2. CASE v < w
    <3>1. v * workerResp + workerResp <= w * workerResp
      BY <1>1, <2>2
    <3> QED BY <1>1, <3>1
  <2>3. CASE v > w
    <3>1. w * workerResp + workerResp <= v * workerResp
      BY <1>1, <2>3
    <3> QED BY <1>1, <3>1
  <2> QED BY <1>1, <2>1, <2>2, <2>3
<1>3. /\ Share(v, j) = (q * BatchSize)..(q * BatchSize + BatchSize - 1)
      /\ Share(w, k) = (r * BatchSize)..(r * BatchSize + BatchSize - 1)
  BY DEF Share
<1> HIDE DEF q, r
<1>4. q * BatchSize + BatchSize <= r * BatchSize \/ r * BatchSize + BatchSize <= q * BatchSize
  <2>1. CASE q < r
    BY <1>1, <2>1
  <2>2. CASE q > r
    BY <1>1, <2>2
  <2> QED BY <1>1, <1>2, <2>1, <2>2
<1>5. q * BatchSize \in Int /\ r * BatchSize \in Int
  BY <1>1
<1> QED BY <1>1, <1>3, <1>4, <1>5

\* The division does not change while n does not.
LEMMA SameWork ==
    ASSUME n' = n
    PROVE  /\ workerResp' = workerResp /\ workLeft' = workLeft
           /\ \A w, k : Share(w, k)' = Share(w, k)
  BY DEF workerResp, workLeft, Share

----------------------------------------------------------------------------
(* Each action preserves the invariant.                                    *)

LEMMA Kinds ==
    /\ MaxInputs \in Nat /\ BatchSize \in Nat \ {0}
    /\ NWorkers \in Nat \ {0} /\ BufSize \in Nat \ {0}
    /\ Workers \subseteq Encoders /\ Extra \in Encoders /\ Extra \notin Workers
    /\ \A e \in Encoders : e # Extra => e \in Workers
  BY PipelineAssumption DEF Workers, Extra, Encoders

LEMMA InitIInv ==
    ASSUME Init PROVE IInv
<1>1. n \in Nat /\ workerResp \in Nat /\ workLeft \in 0..n
  BY WorkSplit, Kinds DEF Init
<1>2. PipelineTypes
  <2>1. batchNumber \in [Workers -> 0..workerResp]
    BY <1>1 DEF Init
  <2>2. epc \in [Encoders -> {"fill", "send", "nil", "error", "panicked"}]
    BY DEF Init
  <2>3. batch \in [Encoders -> Seq(Nat)] /\ encoded \in [0..(n - 1) -> {0, 1}]
    BY DEF Init
  <2>4. Len(buf) <= BufSize /\ localEncodings \in Seq(Seq(Nat))
    BY Kinds DEF Init
  <2>5. rest \in Seq(Nat) /\ sent \in Nat /\ buf \in Seq(Nat) /\ wire \in Seq(Nat)
    BY DEF Init
  <2>6. /\ n \in 0..MaxInputs /\ closed \in BOOLEAN /\ down \in BOOLEAN
        /\ wpc = "start" /\ result = "running"
    BY DEF Init
  <2> QED BY <2>1, <2>2, <2>3, <2>4, <2>5, <2>6 DEF PipelineTypes
<1>3. NotYetEncoded
  <2>1. \A w \in Workers, k \in 0..(workerResp - 1) : \A x \in Share(w, k) : encoded[x] = 0
    <3> TAKE w \in Workers, k \in 0..(workerResp - 1)
    <3>1. Share(w, k) \subseteq 0..(n - workLeft - 1)
      BY <1>1, ShareInRange
    <3> QED BY <1>1, <3>1 DEF Init
  <2>2. \A x \in (n - workLeft)..(n - 1) : encoded[x] = 0
    BY <1>1 DEF Init
  <2>3. \A w \in Workers : epc[w] = "fill"
    BY Kinds DEF Init
  <2> QED BY <2>1, <2>2, <2>3 DEF NotYetEncoded
<1>4. /\ \A e \in Encoders : Hand(e) = {} /\ epc[e] # "send" /\ epc[e] # "panicked"
      /\ Len(localEncodings) = 0 /\ Len(wire) = 0 /\ Len(buf) = 0 /\ Len(rest) = 0
      /\ Out = {}
  BY DEF Init, Hand, Out, Elems
<1>5. EachInOnePlace /\ EncodedInPlaces
  BY <1>4 DEF EachInOnePlace, EncodedInPlaces, Distinct, Elems
<1>6. Counted /\ NoSendOnClosed
  BY <1>4 DEF Init, Counted, NoSendOnClosed
<1> QED BY <1>2, <1>3, <1>5, <1>6 DEF IInv

\* Encoding inputs that nobody has encoded yet.
LEMMA FillFromStep ==
    ASSUME IInv, NEW e \in Encoders, epc[e] = "fill", NEW first \in Nat, NEW len \in Nat \ {0},
           first + len <= n, \A x \in first..(first + len - 1) : encoded[x] = 0,
           FillFrom(e, first, len)
    PROVE  PipelineTypes' /\ EachInOnePlace' /\ EncodedInPlaces' /\ Counted' /\ NoSendOnClosed'
<1> DEFINE b == [k \in 1..len |-> first + k - 1]
           S == first..(first + len - 1)
<1> USE Kinds
<1>1. n \in Nat /\ S \subseteq 0..(n - 1) /\ first \in S /\ n' = n
  BY DEF IInv, PipelineTypes, FillFrom
<1>2. b \in Seq(Nat) /\ Len(b) = len /\ b # <<>> /\ Distinct(b) /\ Elems(b) = S
  <2>1. b \in Seq(Nat) /\ Len(b) = len
    <3>1. \A k \in 1..len : first + k - 1 \in Nat
      OBVIOUS
    <3> QED BY <3>1
  <2>2. \A k \in 1..len : b[k] = first + k - 1
    OBVIOUS
  <2> HIDE DEF b
  <2>3. Distinct(b)
    BY <2>1, <2>2 DEF Distinct
  <2>4. \A k \in 1..Len(b) : b[k] \in S
    BY <2>1, <2>2
  <2>5. \A x \in S : x - first + 1 \in 1..Len(b) /\ b[x - first + 1] = x
    BY <2>1, <2>2
  <2>6. Elems(b) = S
    BY <2>4, <2>5 DEF Elems
  <2> QED BY <2>1, <2>3, <2>6
<1>3. /\ batch' = [batch EXCEPT ![e] = b] /\ epc' = [epc EXCEPT ![e] = "send"]
      /\ encoded' = [i \in DOMAIN encoded |-> encoded[i] + (IF i \in S THEN 1 ELSE 0)]
      /\ UNCHANGED <<batchNumber, localEncodings, closed, wpc, rest, sent, buf, wire,
                     down, result>>
  BY DEF FillFrom, channel, writer
<1> HIDE DEF b, S
<1>4. PipelineTypes'
  <2>1. encoded' \in [0..(n - 1) -> {0, 1}]
    <3>1. \A i \in 0..(n - 1) : encoded'[i] = encoded[i] + (IF i \in S THEN 1 ELSE 0)
      BY <1>3 DEF IInv, PipelineTypes
    <3>2. \A i \in 0..(n - 1) : encoded[i] \in {0, 1} /\ (i \in S => encoded[i] = 0)
      BY DEF IInv, PipelineTypes, S
    <3>3. \A i \in 0..(n - 1) : encoded'[i] \in {0, 1}
      BY <3>1, <3>2
    <3>4. DOMAIN encoded = 0..(n - 1)
      BY DEF IInv, PipelineTypes
    <3> QED BY <1>3, <3>3, <3>4
  <2>2. batch' \in [Encoders -> Seq(Nat)]
    BY <1>2, <1>3 DEF IInv, PipelineTypes
  <2>3. epc' \in [Encoders -> {"fill", "send", "nil", "error", "panicked"}]
    BY <1>3 DEF IInv, PipelineTypes
  <2>4. workerResp' = workerResp
    BY <1>1, SameWork
  <2> QED BY <1>1, <1>3, <2>1, <2>2, <2>3, <2>4 DEF IInv, PipelineTypes
<1>5. /\ Hand(e)' = S /\ epc'[e] = "send" /\ batch'[e] = b
      /\ \A d \in Encoders \ {e} : Hand(d)' = Hand(d) /\ epc'[d] = epc[d] /\ batch'[d] = batch[d]
      /\ \A k : Chan(k)' = Chan(k)
      /\ Out' = Out
  BY <1>2, <1>3 DEF IInv, PipelineTypes, Hand, Chan, Out
<1>6. \A x \in S : /\ encoded[x] = 0
                   /\ \A d \in Encoders : x \notin Hand(d)
                   /\ \A k \in 1..Len(localEncodings) : x \notin Chan(k)
                   /\ x \notin Out
  BY DEF IInv, EncodedInPlaces, S
<1>7. EachInOnePlace'
  <2>1. \A d \in Encoders : epc'[d] = "send" => batch'[d] # <<>> /\ Distinct(batch'[d])
    BY <1>2, <1>5 DEF IInv, EachInOnePlace
  <2>2. \A c, d \in Encoders : c # d => Hand(c)' \cap Hand(d)' = {}
    BY <1>5, <1>6 DEF IInv, EachInOnePlace
  <2>3. \A d \in Encoders, k \in 1..Len(localEncodings) : Hand(d)' \cap Chan(k)' = {}
    BY <1>5, <1>6 DEF IInv, EachInOnePlace
  <2>4. \A d \in Encoders : Hand(d)' \cap Out' = {}
    BY <1>5, <1>6 DEF IInv, EachInOnePlace
  <2> QED BY <1>3, <1>5, <2>1, <2>2, <2>3, <2>4 DEF IInv, EachInOnePlace
<1>8. EncodedInPlaces'
  <2>1. \A x \in S : x \in 0..(n - 1) /\ encoded'[x] = 1
    BY <1>1, <1>3, <1>6 DEF IInv, PipelineTypes
  <2>2. \A x \in 0..(n - 1) : encoded[x] = 1 => encoded'[x] = 1
    <3>1. DOMAIN encoded = 0..(n - 1)
      BY DEF IInv, PipelineTypes
    <3>2. \A x \in 0..(n - 1) : x \notin S => encoded'[x] = encoded[x] + 0
      BY <1>3, <3>1
    <3> QED BY <1>6, <3>2
  <2>3. \A d \in Encoders : \A x \in Hand(d)' : x \in 0..(n - 1) /\ encoded'[x] = 1
    BY <1>5, <2>1, <2>2 DEF IInv, EncodedInPlaces
  <2>4. \A k \in 1..Len(localEncodings) : \A x \in Chan(k)' : x \in 0..(n - 1) /\ encoded'[x] = 1
    BY <1>5, <2>2 DEF IInv, EncodedInPlaces
  <2>5. \A x \in Out' : x \in 0..(n - 1) /\ encoded'[x] = 1
    BY <1>5, <2>2 DEF IInv, EncodedInPlaces
  <2> QED BY <1>1, <1>3, <2>3, <2>4, <2>5 DEF EncodedInPlaces
<1>9. ~closed
  BY <1>1, <1>6 DEF IInv, Counted
<1>10. Counted'
  BY <1>1, <1>3, <1>9 DEF IInv, Counted
<1>11. NoSendOnClosed'
  BY <1>5 DEF IInv, NoSendOnClosed
<1> QED BY <1>4, <1>7, <1>8, <1>10, <1>11

LEMMA FillStep ==
    ASSUME IInv, NEW w \in Workers, Fill(w) PROVE IInv'
<1> DEFINE q == batchNumber[w]
<1> USE Kinds
<1>1. /\ n \in Nat /\ workerResp \in Nat /\ workLeft \in 0..n /\ epc[w] = "fill"
      /\ q \in 0..(workerResp - 1) /\ w \in Encoders
  BY WorkSplit DEF IInv, PipelineTypes, Fill
<1>2. /\ Share(w, q) = Step(w)..(Step(w) + BatchSize - 1) /\ Step(w) \in Nat
      /\ Share(w, q) \subseteq 0..(n - workLeft - 1)
  BY <1>1, ShareInRange DEF Share, Step
<1>3. Step(w) + BatchSize <= n - workLeft
  <2>1. Step(w) + BatchSize - 1 \in Share(w, q)
    BY <1>2
  <2> QED BY <1>1, <1>2, <2>1
<1>4. \A x \in Share(w, q) : encoded[x] = 0
  BY <1>1 DEF IInv, NotYetEncoded, Filled
<1>5. FillFrom(w, Step(w), BatchSize)
  BY DEF Fill
<1>6. PipelineTypes' /\ EachInOnePlace' /\ EncodedInPlaces' /\ Counted' /\ NoSendOnClosed'
  <2>1. Step(w) + BatchSize <= n
    BY <1>1, <1>2, <1>3
  <2> QED BY <1>1, <1>2, <1>4, <1>5, <2>1, FillFromStep
<1>7. /\ n' = n /\ batchNumber' = batchNumber /\ epc' = [epc EXCEPT ![w] = "send"]
      /\ \A x \in 0..(n - 1) : x \notin Share(w, q) => encoded'[x] = encoded[x]
  <2>1. /\ n' = n /\ batchNumber' = batchNumber /\ epc' = [epc EXCEPT ![w] = "send"]
        /\ encoded' = [i \in DOMAIN encoded |->
                         encoded[i] + (IF i \in Share(w, q) THEN 1 ELSE 0)]
    BY <1>2, <1>5 DEF FillFrom
  <2>2. encoded \in [0..(n - 1) -> {0, 1}]
    BY DEF IInv, PipelineTypes
  <2> QED BY <2>1, <2>2
<1>8. workerResp' = workerResp /\ workLeft' = workLeft /\ \A v, k : Share(v, k)' = Share(v, k)
  BY <1>7, SameWork
<1>9. NotYetEncoded'
  <2>1. ASSUME NEW v \in Workers, NEW k \in 0..(workerResp - 1), k >= Filled(v)',
               NEW x \in Share(v, k)
        PROVE  encoded'[x] = 0
    <3>1. Filled(v)' = IF v = w THEN Filled(v) + 1 ELSE Filled(v)
      BY <1>1, <1>7 DEF Filled, IInv, PipelineTypes
    <3>2. Filled(w) = q /\ Filled(v) \in Nat
      BY <1>1 DEF Filled, IInv, PipelineTypes
    <3>3. (v # w \/ k # q) /\ k >= Filled(v)
      BY <1>1, <2>1, <3>1, <3>2
    <3>4. x \notin Share(w, q)
      BY <1>1, <2>1, <3>3, SharesDisjoint
    <3>5. x \in 0..(n - 1)
      BY <1>1, ShareInRange
    <3> QED BY <1>7, <3>3, <3>4, <3>5 DEF IInv, NotYetEncoded
  <2>2. ASSUME epc'[Extra] = "fill", NEW x \in (n - workLeft)..(n - 1) PROVE encoded'[x] = 0
    <3>1. x \notin Share(w, q) /\ x \in 0..(n - 1)
      BY <1>1, <1>2
    <3>2. epc[Extra] = "fill"
      BY <1>7, <2>2 DEF IInv, PipelineTypes
    <3> QED BY <1>7, <3>1, <3>2 DEF IInv, NotYetEncoded
  <2>3. \A v \in Workers : epc'[v] = "send" => batchNumber'[v] < workerResp
    BY <1>1, <1>7 DEF IInv, PipelineTypes, NotYetEncoded
  <2> QED BY <1>7, <1>8, <2>1, <2>2, <2>3 DEF NotYetEncoded
<1> QED BY <1>6, <1>9 DEF IInv

LEMMA FillExtraStep ==
    ASSUME IInv, FillExtra PROVE IInv'
<1> USE Kinds
<1>1. /\ n \in Nat /\ workerResp \in Nat /\ workLeft \in (0..n) \ {0} /\ epc[Extra] = "fill"
      /\ FillFrom(Extra, n - workLeft, workLeft)
  BY WorkSplit DEF IInv, PipelineTypes, FillExtra
<1>2. \A x \in (n - workLeft)..((n - workLeft) + workLeft - 1) : encoded[x] = 0
  BY <1>1 DEF IInv, NotYetEncoded
<1>3. PipelineTypes' /\ EachInOnePlace' /\ EncodedInPlaces' /\ Counted' /\ NoSendOnClosed'
  <2>1. n - workLeft \in Nat /\ workLeft \in Nat \ {0} /\ (n - workLeft) + workLeft <= n
    BY <1>1
  <2> HIDE DEF workLeft
  <2> QED BY <1>1, <1>2, <2>1, FillFromStep
<1>4. /\ n' = n /\ batchNumber' = batchNumber /\ epc' = [epc EXCEPT ![Extra] = "send"]
      /\ \A x \in 0..(n - workLeft - 1) : encoded'[x] = encoded[x]
  <2>1. /\ n' = n /\ batchNumber' = batchNumber /\ epc' = [epc EXCEPT ![Extra] = "send"]
        /\ encoded' = [i \in DOMAIN encoded |->
               encoded[i] + (IF i \in (n - workLeft)..(n - workLeft + workLeft - 1)
                             THEN 1 ELSE 0)]
    BY <1>1 DEF FillFrom
  <2>2. encoded \in [0..(n - 1) -> {0, 1}]
    BY DEF IInv, PipelineTypes
  <2>3. \A x \in 0..(n - workLeft - 1) : /\ x \in 0..(n - 1)
                                         /\ x \notin (n - workLeft)..(n - workLeft + workLeft - 1)
    BY <1>1
  <2> HIDE DEF workLeft
  <2> QED BY <2>1, <2>2, <2>3
<1>5. workerResp' = workerResp /\ workLeft' = workLeft /\ \A v, k : Share(v, k)' = Share(v, k)
  BY <1>4, SameWork
<1>6. NotYetEncoded'
  <2>1. ASSUME NEW v \in Workers, NEW k \in 0..(workerResp - 1), k >= Filled(v)',
               NEW x \in Share(v, k)
        PROVE  encoded'[x] = 0
    <3>1. Filled(v)' = Filled(v)
      BY <1>4 DEF Filled, IInv, PipelineTypes
    <3>2. x \in 0..(n - workLeft - 1)
      BY <1>1, ShareInRange
    <3> QED BY <1>4, <2>1, <3>1, <3>2 DEF IInv, NotYetEncoded
  <2>2. epc'[Extra] # "fill"
    BY <1>4 DEF IInv, PipelineTypes
  <2>3. \A v \in Workers : epc'[v] = "send" => batchNumber'[v] < workerResp
    BY <1>4 DEF IInv, PipelineTypes, NotYetEncoded
  <2> QED BY <1>4, <1>5, <2>1, <2>2, <2>3 DEF NotYetEncoded
<1> QED BY <1>3, <1>6 DEF IInv

\* An encoder returns: what it held, if anything, is dropped.
LEMMA ReturnStep ==
    ASSUME IInv, NEW e \in Encoders, epc[e] \in {"fill", "send"}, NEW v \in {"nil", "error"},
           epc' = [epc EXCEPT ![e] = v],
           UNCHANGED <<n, batchNumber, batch, encoded, channel, writer, down, result>>
    PROVE  IInv'
<1> USE Kinds
<1>1. /\ n' = n /\ batchNumber' = batchNumber /\ batch' = batch /\ encoded' = encoded
      /\ localEncodings' = localEncodings /\ closed' = closed /\ wpc' = wpc /\ rest' = rest
      /\ sent' = sent /\ buf' = buf /\ wire' = wire /\ down' = down /\ result' = result
  BY DEF channel, writer
<1>2. /\ epc' \in [Encoders -> {"fill", "send", "nil", "error", "panicked"}]
      /\ epc'[e] = v /\ \A d \in Encoders \ {e} : epc'[d] = epc[d]
  BY DEF IInv, PipelineTypes
<1>3. n \in Nat /\ workerResp \in Nat /\ workerResp' = workerResp /\ workLeft' = workLeft
      /\ \A w, k : Share(w, k)' = Share(w, k)
  BY <1>1, SameWork, WorkSplit DEF IInv, PipelineTypes
<1>4. PipelineTypes'
  BY <1>1, <1>2, <1>3 DEF IInv, PipelineTypes
<1>5. NotYetEncoded'
  <2>1. \A w \in Workers : Filled(w) \in Nat /\ Filled(w)' \in Nat /\ Filled(w)' >= Filled(w)
    <3> TAKE w \in Workers
    <3>1. batchNumber[w] \in Nat
      BY <1>3 DEF IInv, PipelineTypes
    <3> QED BY <1>1, <1>2, <3>1 DEF Filled
  <2>2. \A w \in Workers, k \in 0..(workerResp - 1) : k >= Filled(w)' => k >= Filled(w)
    BY <1>3, <2>1
  <2>3. epc'[Extra] = "fill" => epc[Extra] = "fill"
    BY <1>2
  <2>4. \A w \in Workers : epc'[w] = "send" => epc[w] = "send"
    BY <1>2
  <2> QED BY <1>1, <1>3, <2>2, <2>3, <2>4 DEF IInv, NotYetEncoded
<1>6. /\ \A d \in Encoders : Hand(d)' \subseteq Hand(d) /\ (epc'[d] = "send" => epc[d] = "send")
      /\ \A k : Chan(k)' = Chan(k)
      /\ Out' = Out
  BY <1>1, <1>2 DEF Hand, Chan, Out
<1>7. EachInOnePlace'
  <2>1. \A c, d \in Encoders : c # d => Hand(c)' \cap Hand(d)' = {}
    BY <1>6 DEF IInv, EachInOnePlace
  <2>2. \A d \in Encoders, k \in 1..Len(localEncodings) : Hand(d)' \cap Chan(k)' = {}
    BY <1>6 DEF IInv, EachInOnePlace
  <2>3. \A d \in Encoders : Hand(d)' \cap Out' = {}
    BY <1>6 DEF IInv, EachInOnePlace
  <2> QED BY <1>1, <1>6, <2>1, <2>2, <2>3 DEF IInv, EachInOnePlace
<1>8. EncodedInPlaces'
  BY <1>1, <1>6 DEF IInv, EncodedInPlaces
<1>9. Counted'
  BY <1>1, <1>6 DEF IInv, Counted
<1>10. NoSendOnClosed'
  BY <1>2 DEF IInv, NoSendOnClosed
<1> QED BY <1>4, <1>5, <1>7, <1>8, <1>9, <1>10 DEF IInv

LEMMA SendBatchStep ==
    ASSUME IInv, NEW e \in Encoders, SendBatch(e) PROVE IInv'
<1> DEFINE L == Len(localEncodings)
<1> USE Kinds
<1>1. ~closed /\ epc[e] = "send"
  BY DEF SendBatch, IInv, Counted
<1>2. /\ n' = n /\ batch' = batch /\ encoded' = encoded
      /\ localEncodings' = Append(localEncodings, batch[e]) /\ closed' = closed
      /\ wpc' = wpc /\ rest' = rest
      /\ sent' = sent /\ buf' = buf /\ wire' = wire /\ down' = down /\ result' = result
      /\ epc' = [epc EXCEPT ![e] = IF e = Extra THEN "nil" ELSE "fill"]
      /\ batchNumber' = [w \in Workers |-> batchNumber[w] + (IF w = e THEN 1 ELSE 0)]
  BY <1>1 DEF SendBatch, writer
<1>3. /\ epc' \in [Encoders -> {"fill", "send", "nil", "error", "panicked"}]
      /\ epc'[e] = (IF e = Extra THEN "nil" ELSE "fill")
      /\ \A d \in Encoders \ {e} : epc'[d] = epc[d]
  BY <1>2 DEF IInv, PipelineTypes
<1>4. /\ n \in Nat /\ workerResp \in Nat /\ workerResp' = workerResp /\ workLeft' = workLeft
      /\ \A w, k : Share(w, k)' = Share(w, k)
  BY <1>2, SameWork, WorkSplit DEF IInv, PipelineTypes
<1>5. /\ localEncodings' \in Seq(Seq(Nat)) /\ Len(localEncodings') = L + 1 /\ L \in Nat
      /\ localEncodings'[L + 1] = batch[e]
      /\ \A k \in 1..L : localEncodings'[k] = localEncodings[k]
  BY <1>2 DEF IInv, PipelineTypes
<1> HIDE DEF L
<1>6. \A w \in Workers : /\ batchNumber[w] \in 0..workerResp
                         /\ batchNumber'[w] = batchNumber[w] + (IF w = e THEN 1 ELSE 0)
                         /\ batchNumber'[w] \in 0..workerResp
  <2> TAKE w \in Workers
  <2>1. batchNumber[w] \in 0..workerResp /\ (w = e => batchNumber[w] < workerResp)
    BY <1>1 DEF IInv, PipelineTypes, NotYetEncoded
  <2>2. batchNumber'[w] = batchNumber[w] + (IF w = e THEN 1 ELSE 0)
    BY <1>2
  <2> QED BY <1>4, <2>1, <2>2
<1>7. PipelineTypes'
  <2>1. batchNumber' \in [Workers -> 0..workerResp]
    BY <1>2, <1>6
  <2> QED BY <1>2, <1>3, <1>4, <1>5, <2>1 DEF IInv, PipelineTypes
<1>8. NotYetEncoded'
  <2>1. \A w \in Workers : Filled(w)' = Filled(w)
    <3> TAKE w \in Workers
    <3>1. w # Extra
      OBVIOUS
    <3>2. batchNumber[w] \in Nat
      BY <1>4, <1>6
    <3> QED BY <1>1, <1>3, <1>6, <3>1, <3>2 DEF Filled
  <2>2. epc'[Extra] = "fill" => epc[Extra] = "fill"
    BY <1>3
  <2>3. \A w \in Workers : epc'[w] = "send" => epc[w] = "send" /\ batchNumber'[w] = batchNumber[w]
    BY <1>3, <1>4, <1>6
  <2> QED BY <1>2, <1>4, <2>1, <2>2, <2>3 DEF IInv, NotYetEncoded
<1>9. /\ Hand(e)' = {} /\ Hand(e) = Elems(batch[e]) /\ Distinct(batch[e]) /\ batch[e] # <<>>
      /\ \A d \in Encoders \ {e} : Hand(d)' = Hand(d)
      /\ \A d \in Encoders : epc'[d] = "send" => epc[d] = "send"
      /\ Out' = Out
  BY <1>1, <1>2, <1>3 DEF Hand, Out, IInv, EachInOnePlace
<1>10. \A k \in 1..(L + 1) : \/ k = L + 1 /\ Chan(k)' = Hand(e)
                             \/ k \in 1..L /\ Chan(k)' = Chan(k)
  <2> TAKE k \in 1..(L + 1)
  <2>1. CASE k = L + 1
    BY <1>5, <1>9, <2>1 DEF Chan
  <2>2. CASE k # L + 1
    <3>1. k \in 1..L
      BY <1>5, <2>2
    <3> QED BY <1>5, <3>1 DEF Chan
  <2> QED BY <2>1, <2>2
<1>11. EachInOnePlace'
  <2>1. \A k \in 1..(L + 1) : localEncodings'[k] # <<>> /\ Distinct(localEncodings'[k])
    <3> TAKE k \in 1..(L + 1)
    <3>1. CASE k = L + 1
      BY <1>5, <1>9, <3>1
    <3>2. CASE k # L + 1
      <4>1. k \in 1..L
        BY <1>5, <3>2
      <4> QED BY <1>5, <4>1 DEF IInv, EachInOnePlace, L
    <3> QED BY <3>1, <3>2
  <2>2. \A c, d \in Encoders : c # d => Hand(c)' \cap Hand(d)' = {}
    BY <1>9 DEF IInv, EachInOnePlace
  <2>3. \A j, k \in 1..(L + 1) : j # k => Chan(j)' \cap Chan(k)' = {}
    BY <1>10 DEF IInv, EachInOnePlace, L
  <2>4. \A d \in Encoders, k \in 1..(L + 1) : Hand(d)' \cap Chan(k)' = {}
    BY <1>9, <1>10 DEF IInv, EachInOnePlace, L
  <2>5. \A d \in Encoders : Hand(d)' \cap Out' = {}
    BY <1>9 DEF IInv, EachInOnePlace
  <2>6. \A k \in 1..(L + 1) : Chan(k)' \cap Out' = {}
    BY <1>9, <1>10 DEF IInv, EachInOnePlace, L
  <2>7. \A d \in Encoders : epc'[d] = "send" => batch'[d] # <<>> /\ Distinct(batch'[d])
    BY <1>2, <1>9 DEF IInv, EachInOnePlace
  <2> QED BY <1>2, <1>5, <2>1, <2>2, <2>3, <2>4, <2>5, <2>6, <2>7 DEF IInv, EachInOnePlace
<1>12. EncodedInPlaces'
  <2>1. \A k \in 1..(L + 1) : \A x \in Chan(k)' : x \in 0..(n - 1) /\ encoded[x] = 1
    BY <1>10 DEF IInv, EncodedInPlaces, L
  <2> QED BY <1>2, <1>5, <1>9, <2>1 DEF IInv, EncodedInPlaces
<1>13. Counted'
  BY <1>1, <1>2 DEF IInv, Counted
<1>14. NoSendOnClosed'
  BY <1>3 DEF IInv, NoSendOnClosed
<1> QED BY <1>7, <1>8, <1>11, <1>12, <1>13, <1>14 DEF IInv

\* The writer's steps leave the encoders alone.
LEMMA WriterFrame ==
    ASSUME IInv, n' = n, UNCHANGED encoders
    PROVE  /\ NotYetEncoded' /\ NoSendOnClosed'
           /\ \A e \in Encoders : Hand(e)' = Hand(e)
           /\ epc' = epc /\ batch' = batch /\ encoded' = encoded /\ batchNumber' = batchNumber
           /\ workerResp' = workerResp
<1>1. epc' = epc /\ batch' = batch /\ encoded' = encoded /\ batchNumber' = batchNumber
  BY DEF encoders
<1>2. workerResp' = workerResp /\ workLeft' = workLeft /\ \A v, k : Share(v, k)' = Share(v, k)
  BY SameWork
<1>3. \A w : Filled(w)' = Filled(w)
  BY <1>1 DEF Filled
<1>4. NotYetEncoded'
  BY <1>1, <1>2, <1>3 DEF IInv, NotYetEncoded
<1> QED BY <1>1, <1>2, <1>4 DEF IInv, NoSendOnClosed, Hand

\* When as many inputs as there are have been written, nothing is left
\* anywhere else.
LEMMA AllWritten ==
    ASSUME IInv, Len(wire) + Len(buf) = n, rest = <<>>
    PROVE  /\ \A e \in Encoders : epc[e] # "send"
           /\ localEncodings = <<>>
           /\ \A x \in 0..(n - 1) : encoded[x] = 1
<1> DEFINE W == Elems(wire) \cup Elems(buf)
<1>1. n \in Nat /\ wire \in Seq(Nat) /\ buf \in Seq(Nat)
  BY Kinds DEF IInv, PipelineTypes
<1>2. /\ IsFiniteSet(Elems(wire)) /\ Cardinality(Elems(wire)) = Len(wire)
      /\ IsFiniteSet(Elems(buf)) /\ Cardinality(Elems(buf)) = Len(buf)
  BY <1>1, DistinctCard DEF IInv, EachInOnePlace
<1>3. Elems(wire) \cap Elems(buf) = {} /\ W \subseteq 0..(n - 1) /\ Out = W
  <2>1. Elems(rest) = {}
    BY DEF Elems
  <2> QED BY <2>1 DEF IInv, EachInOnePlace, EncodedInPlaces, Out
<1>4. Cardinality(W) = n
  <2>1. Cardinality(W) = Cardinality(Elems(wire)) + Cardinality(Elems(buf)) - Cardinality({})
    BY <1>2, <1>3, FS_Union
  <2>2. Cardinality({}) = 0
    BY FS_EmptySet
  <2> QED BY <1>1, <1>2, <2>1, <2>2
<1>5. IsFiniteSet(0..(n - 1)) /\ Cardinality(0..(n - 1)) = n
  <2>1. \A m \in Nat : IsFiniteSet(0..(m - 1)) /\ Cardinality(0..(m - 1)) = m
    <3> TAKE m \in Nat
    <3>1. m - 1 \in Int /\ 0 \in Int
      OBVIOUS
    <3>2. /\ IsFiniteSet(0..(m - 1))
          /\ Cardinality(0..(m - 1)) = IF 0 > m - 1 THEN 0 ELSE (m - 1) - 0 + 1
      BY <3>1, FS_Interval
    <3> QED BY <3>2
  <2> QED BY <1>1, <2>1
<1>6. W = 0..(n - 1)
  BY <1>3, <1>4, <1>5, FS_Subset
<1>7. \A e \in Encoders : epc[e] # "send"
  <2> SUFFICES ASSUME NEW e \in Encoders, epc[e] = "send" PROVE FALSE
    OBVIOUS
  <2>1. batch[e] \in Seq(Nat) /\ batch[e] # <<>> /\ Hand(e) = Elems(batch[e])
    BY DEF IInv, PipelineTypes, EachInOnePlace, Hand
  <2>2. Head(batch[e]) \in Hand(e)
    BY <2>1, TailElems
  <2> QED BY <1>3, <1>6, <2>2 DEF IInv, EachInOnePlace, EncodedInPlaces
<1>8. localEncodings = <<>>
  <2> SUFFICES ASSUME localEncodings # <<>> PROVE FALSE
    OBVIOUS
  <2>1. 1 \in 1..Len(localEncodings) /\ localEncodings[1] \in Seq(Nat)
    BY DEF IInv, PipelineTypes
  <2>2. localEncodings[1] # <<>> /\ Chan(1) = Elems(localEncodings[1])
    BY <2>1 DEF IInv, EachInOnePlace, Chan
  <2>3. Head(localEncodings[1]) \in Chan(1)
    BY <2>1, <2>2, TailElems
  <2> QED BY <1>3, <1>6, <2>1, <2>3 DEF IInv, EachInOnePlace, EncodedInPlaces
<1>9. \A x \in 0..(n - 1) : encoded[x] = 1
  BY <1>3, <1>6 DEF IInv, EncodedInPlaces
<1> QED BY <1>7, <1>8, <1>9

LEMMA WriterStartStep ==
    ASSUME IInv, WriterStart PROVE IInv'
<1>1. /\ n' = n /\ localEncodings' = localEncodings /\ rest' = rest /\ sent' = sent
      /\ buf' = buf /\ wire' = wire /\ down' = down /\ result' = result
      /\ closed' = (n = 0) /\ wpc = "start" /\ wpc' = "range" /\ UNCHANGED encoders
  BY DEF WriterStart
<1>2. /\ NotYetEncoded' /\ NoSendOnClosed' /\ \A e \in Encoders : Hand(e)' = Hand(e)
      /\ epc' = epc /\ batch' = batch /\ encoded' = encoded /\ batchNumber' = batchNumber
      /\ workerResp' = workerResp
  BY <1>1, WriterFrame
<1>3. PipelineTypes'
  BY <1>1, <1>2 DEF IInv, PipelineTypes
<1>4. Out' = Out /\ \A k : Chan(k)' = Chan(k)
  BY <1>1 DEF Out, Chan
<1>5. EachInOnePlace' /\ EncodedInPlaces'
  BY <1>1, <1>2, <1>4 DEF IInv, EachInOnePlace, EncodedInPlaces
<1>6. Counted'
  <2>1. sent = 0 /\ rest = <<>> /\ sent = Len(wire) + Len(buf) /\ result # "nil"
    BY <1>1 DEF IInv, Counted
  <2>2. n = 0 => /\ \A e \in Encoders : epc[e] # "send"
                 /\ localEncodings = <<>>
                 /\ \A x \in 0..(n - 1) : encoded[x] = 1
    BY <2>1, AllWritten
  <2> QED BY <1>1, <1>2, <2>1, <2>2 DEF Counted
<1> QED BY <1>2, <1>3, <1>5, <1>6 DEF IInv

LEMMA ReceiveBatchStep ==
    ASSUME IInv, ReceiveBatch PROVE IInv'
<1> DEFINE L == Len(localEncodings)
<1>1. /\ n' = n /\ localEncodings' = Tail(localEncodings) /\ rest' = Head(localEncodings)
      /\ sent' = sent /\ localEncodings # <<>>
      /\ buf' = buf /\ wire' = wire /\ down' = down /\ result' = result
      /\ closed' = closed /\ wpc = "range" /\ wpc' = "write" /\ UNCHANGED encoders
  BY DEF ReceiveBatch
<1>2. /\ NotYetEncoded' /\ NoSendOnClosed' /\ \A e \in Encoders : Hand(e)' = Hand(e)
      /\ epc' = epc /\ batch' = batch /\ encoded' = encoded /\ batchNumber' = batchNumber
      /\ workerResp' = workerResp
  BY <1>1, WriterFrame
<1>3. /\ localEncodings' \in Seq(Seq(Nat)) /\ L \in Nat \ {0} /\ Len(localEncodings') = L - 1
      /\ rest' = localEncodings[1] /\ rest' \in Seq(Nat)
      /\ \A k \in 1..(L - 1) : localEncodings'[k] = localEncodings[k + 1]
  BY <1>1 DEF IInv, PipelineTypes
<1> HIDE DEF L
<1>4. PipelineTypes'
  BY <1>1, <1>2, <1>3 DEF IInv, PipelineTypes
<1>5. /\ \A k \in 1..(L - 1) : /\ k + 1 \in 1..L /\ k + 1 # 1 /\ Chan(k)' = Chan(k + 1)
                               /\ localEncodings'[k] = localEncodings[k + 1]
      /\ 1 \in 1..L /\ Elems(rest)' = Chan(1)
      /\ \A j, k \in 1..(L - 1) : j # k => j + 1 # k + 1
  BY <1>3 DEF Chan
<1>6. Out' \subseteq Out \cup Chan(1) /\ Elems(wire)' = Elems(wire) /\ Elems(buf)' = Elems(buf)
  BY <1>1, <1>5 DEF Out
<1>7. EachInOnePlace'
  <2>1. \A k \in 1..(L - 1) : localEncodings'[k] # <<>> /\ Distinct(localEncodings'[k])
    BY <1>5 DEF IInv, EachInOnePlace, L
  <2>2. /\ Distinct(rest') /\ (Elems(wire)' \cup Elems(buf)') \cap Elems(rest)' = {}
    <3>1. Distinct(localEncodings[1]) /\ Chan(1) \cap Out = {}
      BY <1>5 DEF IInv, EachInOnePlace, L
    <3> QED BY <1>3, <1>5, <1>6, <3>1 DEF Out
  <2>3. \A j, k \in 1..(L - 1) : j # k => Chan(j)' \cap Chan(k)' = {}
    BY <1>5 DEF IInv, EachInOnePlace, L
  <2>4. \A d \in Encoders, k \in 1..(L - 1) : Hand(d)' \cap Chan(k)' = {}
    BY <1>2, <1>5 DEF IInv, EachInOnePlace, L
  <2>5. \A d \in Encoders : Hand(d)' \cap Out' = {}
    <3>1. \A d \in Encoders : Hand(d) \cap Out = {} /\ Hand(d) \cap Chan(1) = {}
      BY <1>5 DEF IInv, EachInOnePlace, L
    <3> QED BY <1>2, <1>6, <3>1
  <2>6. \A k \in 1..(L - 1) : Chan(k)' \cap Out' = {}
    <3> TAKE k \in 1..(L - 1)
    <3>1. Chan(k + 1) \cap Out = {} /\ Chan(k + 1) \cap Chan(1) = {}
      BY <1>5 DEF IInv, EachInOnePlace, L
    <3> QED BY <1>5, <1>6, <3>1
  <2>7. /\ \A d \in Encoders : epc'[d] = "send" => batch'[d] # <<>> /\ Distinct(batch'[d])
        /\ \A c, d \in Encoders : c # d => Hand(c)' \cap Hand(d)' = {}
        /\ Distinct(wire') /\ Distinct(buf') /\ Elems(wire)' \cap Elems(buf)' = {}
    BY <1>1, <1>2, <1>6 DEF IInv, EachInOnePlace
  <2> QED BY <1>3, <2>1, <2>2, <2>3, <2>4, <2>5, <2>6, <2>7 DEF EachInOnePlace
<1>8. EncodedInPlaces'
  <2>1. \A k \in 1..L : \A x \in Chan(k) : x \in 0..(n - 1) /\ encoded[x] = 1
    BY DEF IInv, EncodedInPlaces, L
  <2>2. \A k \in 1..(L - 1) : \A x \in Chan(k)' : x \in 0..(n - 1) /\ encoded[x] = 1
    BY <1>5, <2>1
  <2>3. \A x \in Out' : x \in 0..(n - 1) /\ encoded[x] = 1
    BY <1>5, <1>6, <2>1 DEF IInv, EncodedInPlaces
  <2> QED BY <1>1, <1>2, <1>3, <2>2, <2>3 DEF IInv, EncodedInPlaces
<1>9. Counted'
  BY <1>1 DEF IInv, Counted
<1> QED BY <1>2, <1>4, <1>7, <1>8, <1>9 DEF IInv

\* One encoding moves from the batch to the bufio.Writer, which may go out.
LEMMA WriteEncodingStep ==
    ASSUME IInv, WriteEncoding PROVE IInv'
<1>1. /\ n' = n /\ localEncodings' = localEncodings /\ closed' = closed
      /\ down' = down /\ result' = result
      /\ wpc = "write" /\ rest # <<>> /\ UNCHANGED encoders
  BY DEF WriteEncoding, channel
<1>2. /\ NotYetEncoded' /\ NoSendOnClosed' /\ \A e \in Encoders : Hand(e)' = Hand(e)
      /\ epc' = epc /\ batch' = batch /\ encoded' = encoded /\ batchNumber' = batchNumber
      /\ workerResp' = workerResp
  BY <1>1, WriterFrame
<1>3. /\ rest \in Seq(Nat) /\ buf \in Seq(Nat) /\ wire \in Seq(Nat) /\ sent \in Nat
      /\ Len(buf) <= BufSize /\ sent = Len(wire) + Len(buf) /\ ~closed /\ BufSize \in Nat \ {0}
      /\ result # "nil"
  BY <1>1, Kinds DEF IInv, PipelineTypes, Counted
<1>4. /\ Head(rest) \in Nat /\ Tail(rest) \in Seq(Nat)
      /\ Elems(rest) = {Head(rest)} \cup Elems(Tail(rest))
      /\ Distinct(Tail(rest)) /\ Head(rest) \notin Elems(Tail(rest))
  BY <1>1, <1>3, TailElems DEF IInv, EachInOnePlace
<1>5. /\ Distinct(wire) /\ Distinct(buf) /\ Elems(wire) \cap Elems(buf) = {}
      /\ (Elems(wire) \cup Elems(buf)) \cap Elems(rest) = {}
      /\ Head(rest) \notin Elems(wire) \cup Elems(buf)
  BY <1>4 DEF IInv, EachInOnePlace
<1>6. /\ wpc' \in {"write", "error"}
      /\ rest' \in Seq(Nat) /\ buf' \in Seq(Nat) /\ wire' \in Seq(Nat) /\ sent' \in Nat
      /\ Len(buf') <= BufSize /\ sent' = Len(wire') + Len(buf')
      /\ Distinct(wire') /\ Distinct(buf') /\ Distinct(rest')
      /\ Elems(wire') \cap Elems(buf') = {}
      /\ (Elems(wire') \cup Elems(buf')) \cap Elems(rest') = {}
      /\ Elems(wire') \cup Elems(buf') \cup Elems(rest') \subseteq Out
  <2>1. CASE Len(buf) < BufSize
    <3>1. /\ buf' = Append(buf, Head(rest)) /\ rest' = Tail(rest) /\ sent' = sent + 1
          /\ wpc' = wpc /\ wire' = wire
      BY <2>1 DEF WriteEncoding
    <3>2. /\ buf' \in Seq(Nat) /\ Len(buf') = Len(buf) + 1
          /\ Elems(buf') = Elems(buf) \cup {Head(rest)} /\ Distinct(buf')
      BY <1>3, <1>4, <1>5, <3>1, AppendElems
    <3>3. Len(buf') <= BufSize /\ sent' = Len(wire') + Len(buf') /\ sent' \in Nat
      BY <1>3, <2>1, <3>1, <3>2
    <3>4. /\ Elems(wire') \cap Elems(buf') = {}
          /\ (Elems(wire') \cup Elems(buf')) \cap Elems(rest') = {}
          /\ Elems(wire') \cup Elems(buf') \cup Elems(rest') \subseteq Out
      BY <1>4, <1>5, <3>1, <3>2 DEF Out
    <3> QED BY <1>1, <1>3, <1>4, <1>5, <3>1, <3>2, <3>3, <3>4
  <2>2. CASE Len(buf) >= BufSize /\ down
    <3>1. wpc' = "error" /\ rest' = rest /\ sent' = sent /\ buf' = buf /\ wire' = wire
      BY <1>3, <2>2 DEF WriteEncoding
    <3>2. Distinct(rest)
      BY DEF IInv, EachInOnePlace
    <3> QED BY <1>3, <1>5, <3>1, <3>2 DEF Out
  <2>3. CASE Len(buf) >= BufSize /\ ~down
    <3>1. /\ wire' = wire \o buf /\ buf' = <<Head(rest)>> /\ rest' = Tail(rest)
          /\ sent' = sent + 1 /\ wpc' = wpc
      BY <1>3, <2>3 DEF WriteEncoding
    <3>2. /\ wire' \in Seq(Nat) /\ Len(wire') = Len(wire) + Len(buf)
          /\ Elems(wire') = Elems(wire) \cup Elems(buf) /\ Distinct(wire')
      BY <1>3, <1>5, <3>1, ConcatElems
    <3>3. /\ buf' \in Seq(Nat) /\ Len(buf') = 1 /\ Elems(buf') = {Head(rest)} /\ Distinct(buf')
      BY <1>4, <3>1 DEF Elems, Distinct
    <3>4. Len(buf') <= BufSize /\ sent' = Len(wire') + Len(buf') /\ sent' \in Nat
      BY <1>3, <3>1, <3>2, <3>3
    <3>5. /\ Elems(wire') \cap Elems(buf') = {}
          /\ (Elems(wire') \cup Elems(buf')) \cap Elems(rest') = {}
          /\ Elems(wire') \cup Elems(buf') \cup Elems(rest') \subseteq Out
      BY <1>4, <1>5, <3>1, <3>2, <3>3 DEF Out
    <3> QED BY <1>1, <1>4, <3>1, <3>2, <3>3, <3>4, <3>5
  <2>4. down \in BOOLEAN /\ Len(buf) \in Nat
    BY <1>3 DEF IInv, PipelineTypes
  <2> QED BY <1>3, <2>1, <2>2, <2>3, <2>4
<1>7. PipelineTypes'
  BY <1>1, <1>2, <1>6 DEF IInv, PipelineTypes
<1>8. Out' \subseteq Out /\ \A k : Chan(k)' = Chan(k)
  BY <1>1, <1>6 DEF Out, Chan, Elems
<1>9. EachInOnePlace'
  <2>1. /\ \A d \in Encoders : Hand(d)' \cap Out' = {}
        /\ \A k \in 1..Len(localEncodings) : Chan(k)' \cap Out' = {}
    BY <1>2, <1>8 DEF IInv, EachInOnePlace
  <2>2. /\ Elems(wire)' \cap Elems(buf)' = {}
        /\ (Elems(wire)' \cup Elems(buf)') \cap Elems(rest)' = {}
    BY <1>6 DEF Elems
  <2> QED BY <1>1, <1>2, <1>6, <1>8, <2>1, <2>2 DEF IInv, EachInOnePlace
<1>10. EncodedInPlaces'
  BY <1>1, <1>2, <1>8 DEF IInv, EncodedInPlaces
<1>11. Counted'
  BY <1>1, <1>3, <1>6 DEF Counted
<1> QED BY <1>2, <1>7, <1>9, <1>10, <1>11 DEF IInv

LEMMA BatchDoneStep ==
    ASSUME IInv, BatchDone PROVE IInv'
<1>1. /\ n' = n /\ localEncodings' = localEncodings /\ rest' = rest /\ sent' = sent
      /\ buf' = buf /\ wire' = wire /\ down' = down /\ result' = result /\ rest = <<>>
      /\ closed' = (sent = n) /\ wpc = "write" /\ wpc' = "range" /\ UNCHANGED encoders
  BY DEF BatchDone
<1>2. /\ NotYetEncoded' /\ NoSendOnClosed' /\ \A e \in Encoders : Hand(e)' = Hand(e)
      /\ epc' = epc /\ batch' = batch /\ encoded' = encoded /\ batchNumber' = batchNumber
      /\ workerResp' = workerResp
  BY <1>1, WriterFrame
<1>3. PipelineTypes'
  BY <1>1, <1>2 DEF IInv, PipelineTypes
<1>4. Out' = Out /\ \A k : Chan(k)' = Chan(k)
  BY <1>1 DEF Out, Chan
<1>5. EachInOnePlace' /\ EncodedInPlaces'
  BY <1>1, <1>2, <1>4 DEF IInv, EachInOnePlace, EncodedInPlaces
<1>6. Counted'
  <2>1. sent = Len(wire) + Len(buf) /\ result # "nil"
    BY <1>1 DEF IInv, Counted
  <2>2. sent = n => /\ \A e \in Encoders : epc[e] # "send"
                    /\ localEncodings = <<>>
                    /\ \A x \in 0..(n - 1) : encoded[x] = 1
    BY <1>1, <2>1, AllWritten
  <2> QED BY <1>1, <1>2, <2>1, <2>2 DEF Counted
<1> QED BY <1>2, <1>3, <1>5, <1>6 DEF IInv

\* The deferred flush: what it cannot write is at most a buffer.
LEMMA WriterDoneStep ==
    ASSUME IInv, WriterDone PROVE IInv'
<1>1. /\ n' = n /\ localEncodings' = localEncodings /\ closed' = closed /\ closed
      /\ rest' = rest /\ sent' = sent /\ buf' = <<>> /\ wpc' = "nil" /\ wpc = "range"
      /\ wire' = (IF down THEN wire ELSE wire \o buf)
      /\ down' = down /\ result' = result /\ UNCHANGED encoders
  BY DEF WriterDone, channel
<1>2. /\ NotYetEncoded' /\ NoSendOnClosed' /\ \A e \in Encoders : Hand(e)' = Hand(e)
      /\ epc' = epc /\ batch' = batch /\ encoded' = encoded /\ batchNumber' = batchNumber
      /\ workerResp' = workerResp
  BY <1>1, WriterFrame
<1>3. /\ buf \in Seq(Nat) /\ wire \in Seq(Nat) /\ Len(buf) \in Nat /\ Len(wire) \in Nat
      /\ Len(buf) <= BufSize /\ Len(wire) + Len(buf) = n /\ BufSize \in Nat
  BY <1>1, Kinds DEF IInv, PipelineTypes, Counted
<1>4. /\ wire' \in Seq(Nat) /\ Distinct(wire')
      /\ Elems(wire') \subseteq Elems(wire) \cup Elems(buf)
      /\ Len(wire') = IF down THEN Len(wire) ELSE Len(wire) + Len(buf)
  <2>1. CASE down
    BY <1>1, <1>3, <2>1 DEF IInv, EachInOnePlace
  <2>2. CASE ~down
    <3>1. wire' = wire \o buf
      BY <1>1, <2>2
    <3>2. Distinct(wire) /\ Distinct(buf) /\ Elems(wire) \cap Elems(buf) = {}
      BY DEF IInv, EachInOnePlace
    <3> QED BY <1>3, <2>2, <3>1, <3>2, ConcatElems
  <2> QED BY <2>1, <2>2
<1>5. Len(buf') = 0 /\ buf' \in Seq(Nat) /\ Elems(buf') = {} /\ Distinct(buf') /\ Len(buf') <= BufSize
  BY <1>1, <1>3 DEF Elems, Distinct
<1>6. PipelineTypes'
  BY <1>1, <1>2, <1>4, <1>5 DEF IInv, PipelineTypes
<1>7. Out' \subseteq Out /\ \A k : Chan(k)' = Chan(k)
  BY <1>1, <1>4, <1>5 DEF Out, Chan, Elems
<1>8. EachInOnePlace'
  <2>1. /\ \A d \in Encoders : Hand(d)' \cap Out' = {}
        /\ \A k \in 1..Len(localEncodings) : Chan(k)' \cap Out' = {}
    BY <1>2, <1>7 DEF IInv, EachInOnePlace
  <2>2. /\ Elems(wire') \cap Elems(buf') = {}
        /\ (Elems(wire') \cup Elems(buf')) \cap Elems(rest') = {} /\ Distinct(rest')
    BY <1>1, <1>4, <1>5 DEF IInv, EachInOnePlace
  <2>3. /\ Elems(wire)' \cap Elems(buf)' = {}
        /\ (Elems(wire)' \cup Elems(buf)') \cap Elems(rest)' = {}
    BY <2>2 DEF Elems
  <2> QED BY <1>1, <1>2, <1>4, <1>5, <1>7, <2>1, <2>2, <2>3 DEF IInv, EachInOnePlace
<1>9. EncodedInPlaces'
  BY <1>1, <1>2, <1>7 DEF IInv, EncodedInPlaces
<1>10. Counted'
  <2>1. Len(wire') <= n /\ n - Len(wire') <= IF down THEN BufSize ELSE 0
    BY <1>3, <1>4
  <2> QED BY <1>1, <1>2, <2>1 DEF IInv, Counted
<1> QED BY <1>2, <1>6, <1>8, <1>9, <1>10 DEF IInv

\* g.Wait(), and what happens outside the stage.
LEMMA OutsideStep ==
    ASSUME IInv, Wait \/ Break \/ Cancel \/ UNCHANGED vars PROVE IInv'
<1>1. /\ n' = n /\ localEncodings' = localEncodings /\ closed' = closed /\ wpc' = wpc
      /\ rest' = rest /\ sent' = sent /\ buf' = buf /\ wire' = wire /\ UNCHANGED encoders
      /\ down \in BOOLEAN /\ down' \in BOOLEAN /\ (down => down')
  <2>1. down \in BOOLEAN
    BY DEF IInv, PipelineTypes
  <2>2. /\ UNCHANGED <<n, encoders, channel, writer>>
        /\ down' = down \/ (down' = TRUE /\ ~down)
    BY DEF Wait, Break, Cancel, vars
  <2> QED BY <2>1, <2>2 DEF channel, writer
<1>2. result' \in {"running", "nil", "error"} /\ (result' = "nil" => wpc = "nil")
  BY DEF Wait, Break, Cancel, vars, IInv, PipelineTypes, Counted
<1>3. /\ NotYetEncoded' /\ NoSendOnClosed' /\ \A e \in Encoders : Hand(e)' = Hand(e)
      /\ epc' = epc /\ batch' = batch /\ encoded' = encoded /\ batchNumber' = batchNumber
      /\ workerResp' = workerResp
  BY <1>1, WriterFrame
<1>4. PipelineTypes'
  BY <1>1, <1>2, <1>3 DEF IInv, PipelineTypes
<1>5. Out' = Out /\ \A k : Chan(k)' = Chan(k)
  BY <1>1 DEF Out, Chan
<1>6. EachInOnePlace' /\ EncodedInPlaces'
  BY <1>1, <1>3, <1>5 DEF IInv, EachInOnePlace, EncodedInPlaces
<1>7. Counted'
  <2>1. wpc = "nil" => n - Len(wire) <= IF down' THEN BufSize ELSE 0
    <3>1. n - Len(wire) \in Int /\ BufSize \in Nat
      BY Kinds DEF IInv, PipelineTypes
    <3> QED BY <1>1, <3>1 DEF IInv, Counted
  <2> QED BY <1>1, <1>2, <1>3, <2>1 DEF IInv, Counted
<1> QED BY <1>3, <1>4, <1>6, <1>7 DEF IInv

LEMMA NextIInv ==
    ASSUME IInv, [Next]_vars PROVE IInv'
<1>1. CASE \E e \in Encoders : Encoder(e)
  <2>1. PICK e \in Encoders : Encoder(e)
    BY <1>1
  <2>2. CASE e # Extra /\ Fill(e)
    BY <2>2, FillStep, Kinds
  <2>3. CASE e = Extra /\ FillExtra
    BY <2>3, FillExtraStep
  <2>4. CASE EncoderDone(e)
    BY <2>4, ReturnStep DEF EncoderDone
  <2>5. CASE SendBatch(e)
    BY <2>5, SendBatchStep
  <2>6. CASE GiveUp(e)
    BY <2>6, ReturnStep DEF GiveUp
  <2> QED BY <2>1, <2>2, <2>3, <2>4, <2>5, <2>6 DEF Encoder
<1>2. CASE Writer
  BY <1>2, WriterStartStep, ReceiveBatchStep, WriteEncodingStep, BatchDoneStep,
     WriterDoneStep DEF Writer
<1>3. CASE Wait \/ Break \/ Cancel \/ UNCHANGED vars
  BY <1>3, OutsideStep
<1> QED BY <1>1, <1>2, <1>3 DEF Next

----------------------------------------------------------------------------
(* The theorems.                                                           *)

\* Every reachable state of stage 3 satisfies the inductive invariant: its
\* variables have their types, an encoded input is in one place only, and
\* the writer's count is what it wrote.
THEOREM Invariance == Spec => []IInv
<1>1. Init => IInv
  BY InitIInv
<1>2. IInv /\ [Next]_vars => IInv'
  BY NextIInv
<1> QED BY <1>1, <1>2, PTL DEF Spec

\* The workers' division of the inputs, workerResp batches each and the rest
\* to the extra worker, gives no input to two of them: none is encoded twice.
THEOREM SplitCorrect == Spec => []EncodedOnce
<1>1. IInv => EncodedOnce
  <2> SUFFICES ASSUME IInv, NEW i \in DOMAIN encoded PROVE encoded[i] <= 1
    BY DEF EncodedOnce
  <2>1. encoded[i] \in {0, 1}
    BY DEF IInv, PipelineTypes
  <2> QED BY <2>1
<1> QED BY <1>1, Invariance, PTL

\* The writer's close(localEncodings) never meets a pending send.
THEOREM CloseCorrect == Spec => []NoSendOnClosed
<1>1. IInv => NoSendOnClosed
  BY DEF IInv
<1> QED BY <1>1, Invariance, PTL

\* stage3 returns nil only with every input on the wire exactly once, less
\* at most a buffer when the connection broke under the deferred flush.
THEOREM NilCorrect == Spec => []NilMeansAllSent
<1>1. IInv => NilMeansAllSent
  <2> SUFFICES ASSUME IInv, result = "nil" PROVE NilMeansAllSent
    BY DEF NilMeansAllSent
  <2>1. wire \in Seq(Nat) /\ Distinct(wire) /\ DOMAIN wire = 1..Len(wire)
    BY DEF IInv, PipelineTypes, EachInOnePlace
  <2>2. Len(wire) = Cardinality(Elems(wire))
    BY <2>1, DistinctCard
  <2>3. Elems(wire) \subseteq 0..(n - 1)
    BY DEF IInv, EncodedInPlaces, Out
  <2>4. n - Len(wire) <= IF down THEN BufSize ELSE 0
    BY DEF IInv, Counted
  <2>5. {wire[k] : k \in DOMAIN wire} = Elems(wire)
    BY <2>1 DEF Elems
  <2> QED BY <2>2, <2>3, <2>4, <2>5 DEF NilMeansAllSent
<1> QED BY <1>1, Invariance, PTL

\* Side by side, as the run checks them, the table of the receiver and stage 3 of
\* the sender do nothing that they do not do on their own: a behaviour of both is
\* one of the table and one of the pipeline (whose safety part the theorems use).
THEOREM PartsAlone == SpecParts => CuckooSpec /\ Init /\ [][Next]_vars
<1>1. InitParts => NewCuckoo /\ Init
  BY DEF InitParts
<1>2. [NextParts]_partsVars => [Insert]_table /\ [Next]_vars
  <2>1. CASE TableStep(Insert)
    BY <2>1 DEF TableStep
  <2>2. CASE PipelineStep(Next)
    BY <2>2 DEF PipelineStep
  <2>3. CASE UNCHANGED partsVars
    BY <2>3 DEF partsVars
  <2> QED BY <2>1, <2>2, <2>3 DEF NextParts
<1> QED BY <1>1, <1>2, PTL DEF SpecParts, CuckooSpec
=============================================================================
