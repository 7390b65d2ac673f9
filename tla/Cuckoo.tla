------------------------------- MODULE Cuckoo -------------------------------
(***************************************************************************)
(* internal/cuckoo/cuckoo.go: the 3-way cuckoo hash table of the KKRT      *)
(* receiver.  Buckets hold indices into items; slot 0 of items stays nil   *)
(* and stands for an empty bucket.  hashIndices records by which of its    *)
(* hash functions an item was placed: the receiver encodes an item with    *)
(* that index, so a wrong one loses the match.                             *)
(*                                                                         *)
(* Insert is sequential; the eviction loop is one step per round, with the *)
(* slot to evict drawn at random.                                          *)
(***************************************************************************)
EXTENDS Integers

CONSTANTS Items,          \* the identifiers offered to Insert
          Nil,            \* the content of a nil or empty byte slice
          Size,           \* the announced number of items
          ReInsertLimit,  \* 200 in the code
          MaxCalls,       \* bound on the calls of Insert
          Hashes          \* hash families to consider

HashIdx == 0..2

\* NewCuckooHasher: bucketSize is 1.4 * size, and at least 1.
BucketSize == IF Size = 0 THEN 1 ELSE (14 * Size) \div 10

Buckets == 0..(BucketSize - 1)

ASSUME CuckooAssumption ==
    /\ Size \in Nat
    /\ ReInsertLimit \in Nat \ {0}
    /\ MaxCalls \in Nat
    /\ Hashes \subseteq [Items -> [HashIdx -> Buckets]]

VARIABLES hash,          \* the hash family in use; hash[x] are x's buckets
          items,         \* slot 0 and one slot per item
          inserted,      \* items inserted
          hashIndices,   \* per slot: the hash function its item is placed by
          bucketLookup,  \* per bucket: the slot of its item, or 0
          pc,            \* "ready", "evict", "failed" or "panicked"
          idx, round,    \* eviction loop: homeless slot, iteration
          calls          \* calls of Insert so far

table == <<hash, items, inserted, hashIndices, bucketLookup, pc, idx, round,
           calls>>

Slots == 0..Size

NewCuckoo ==
    /\ hash \in Hashes
    /\ items = [s \in Slots |-> Nil]
    /\ inserted = 0
    /\ hashIndices = [s \in Slots |-> 0]
    /\ bucketLookup = [b \in Buckets |-> 0]
    /\ pc = "ready" /\ idx = 0 /\ round = 0
    /\ calls = 0

BucketIndices(x) == {hash[x][h] : h \in HashIdx}

\* Exists compares x with what the item's buckets point to; an empty bucket
\* points to the nil item in slot 0.
Exists(x) == \E b \in BucketIndices(x) : items[bucketLookup[b]] = x

\* The first hash function that sends x to a free bucket other than except.
\* The mutant takes the first bucket, free or not.
FreeHash_Occupied(x, except) == {h \in {0} : hash[x][h] # except}

FreeHash(x, except) ==
    {h \in HashIdx : /\ bucketLookup[hash[x][h]] = 0
                     /\ hash[x][h] # except
                     /\ \A g \in 0..(h - 1) : \/ bucketLookup[hash[x][g]] # 0
                                              \/ hash[x][g] = except}

NoBucket == -1

\* The common head of Insert: the item is stored in the next slot.
Called(x) ==
    /\ pc = "ready" /\ calls < MaxCalls
    /\ inserted < Size
    /\ calls' = calls + 1
    /\ items' = [items EXCEPT ![inserted + 1] = x]

\* The guard compares with len(items), one more than the number of items, so
\* the write to the slot after the last panics.
InsertOverflow ==
    /\ pc = "ready" /\ calls < MaxCalls
    /\ inserted >= Size
    /\ calls' = calls + 1
    /\ pc' = IF inserted = Size + 1 THEN pc ELSE "panicked"
    /\ UNCHANGED <<hash, items, inserted, hashIndices, bucketLookup, idx, round>>

InsertDuplicate(x) ==
    /\ Called(x)
    /\ Exists(x)
    /\ UNCHANGED <<hash, inserted, hashIndices, bucketLookup, pc, idx, round>>

\* tryAdd finds a free bucket.  The mutant does not look for duplicates.
InsertFree_NoDuplicateCheck(x) ==
    /\ Called(x)
    /\ \E h \in FreeHash(x, NoBucket) :
         /\ bucketLookup' = [bucketLookup EXCEPT ![hash[x][h]] = inserted + 1]
         /\ hashIndices' = [hashIndices EXCEPT ![inserted + 1] = h]
    /\ inserted' = inserted + 1
    /\ UNCHANGED <<hash, pc, idx, round>>

InsertFree(x) ==
    /\ Called(x)
    /\ ~Exists(x)
    /\ \E h \in FreeHash(x, NoBucket) :
         /\ bucketLookup' = [bucketLookup EXCEPT ![hash[x][h]] = inserted + 1]
         /\ hashIndices' = [hashIndices EXCEPT ![inserted + 1] = h]
    /\ inserted' = inserted + 1
    /\ UNCHANGED <<hash, pc, idx, round>>

\* No bucket is free: tryGreedyAdd starts with the new item homeless.
InsertGreedy(x) ==
    /\ Called(x)
    /\ ~Exists(x)
    /\ FreeHash(x, NoBucket) = {}
    /\ idx' = inserted + 1
    /\ round' = 1
    /\ pc' = IF ReInsertLimit = 1 THEN "failed" ELSE "evict"
    /\ UNCHANGED <<hash, inserted, hashIndices, bucketLookup>>

\* The writes of one round: idx into its bucket h and, when one of its own
\* buckets is free, the evicted item there.  The mutant does not record by
\* which hash function idx was placed.
Evict_KeepHashIndex(h, evicted, free) ==
    /\ hashIndices' = IF free = {} THEN hashIndices
                      ELSE [hashIndices EXCEPT ![evicted] = CHOOSE g \in free : TRUE]
    /\ bucketLookup' =
         IF free = {} THEN [bucketLookup EXCEPT ![hash[items[idx]][h]] = idx]
         ELSE [bucketLookup EXCEPT ![hash[items[idx]][h]] = idx,
                                   ![hash[items[evicted]][CHOOSE g \in free : TRUE]]
                                       = evicted]

Evict(h, evicted, free) ==
    /\ hashIndices' = IF free = {} THEN [hashIndices EXCEPT ![idx] = h]
                      ELSE [hashIndices EXCEPT
                              ![idx] = h, ![evicted] = CHOOSE g \in free : TRUE]
    /\ bucketLookup' =
         IF free = {} THEN [bucketLookup EXCEPT ![hash[items[idx]][h]] = idx]
         ELSE [bucketLookup EXCEPT ![hash[items[idx]][h]] = idx,
                                   ![hash[items[evicted]][CHOOSE g \in free : TRUE]]
                                       = evicted]

\* Is there a round after this one?  The mutant allows one too many.
MoreRounds_OneTooMany == round + 1 <= ReInsertLimit
MoreRounds == round + 1 < ReInsertLimit

\* The item to place next; the mutant keeps at the one it just placed.
NextHomeless_Same(evicted) == idx
NextHomeless(evicted) == evicted

\* One round of tryGreedyAdd with the random draw h.
GreedyRound(h) ==
    /\ pc = "evict"
    /\ LET bucket  == hash[items[idx]][h]
           evicted == bucketLookup[bucket]
           free    == FreeHash(items[evicted], bucket)
       IN  /\ Evict(h, evicted, free)
           /\ IF free # {}
              THEN pc' = "ready" /\ inserted' = inserted + 1 /\ idx' = 0 /\ round' = 0
              ELSE /\ idx' = NextHomeless(evicted)
                   /\ round' = round + 1
                   /\ pc' = IF MoreRounds THEN "evict" ELSE "failed"
                   /\ UNCHANGED inserted
    /\ UNCHANGED <<hash, items, calls>>

Insert ==
    \/ InsertOverflow
    \/ \E x \in Items : InsertDuplicate(x) \/ InsertFree(x) \/ InsertGreedy(x)
    \/ \E h \in HashIdx : GreedyRound(h)

CuckooSpec == NewCuckoo /\ [][Insert]_table

----------------------------------------------------------------------------
(* Properties.                                                             *)

TypeOK ==
    /\ hash \in [Items -> [HashIdx -> Buckets]]
    /\ items \in [Slots -> Items \cup {Nil}]
    /\ inserted \in 0..Size
    /\ hashIndices \in [Slots -> HashIdx]
    /\ bucketLookup \in [Buckets -> Slots]
    /\ pc \in {"ready", "evict", "failed", "panicked"}
    /\ idx \in Slots
    /\ round \in 0..ReInsertLimit
    /\ calls \in 0..MaxCalls

\* The slots that hold an item of the table; during an eviction, and after
\* one that gave up, the new item's slot too.
Live == 1..(IF pc \in {"evict", "failed"} THEN inserted + 1 ELSE inserted)

\* The slot left without a bucket by the eviction loop.
Homeless == IF pc \in {"evict", "failed"} THEN {idx} ELSE {}

Home(s) == hash[items[s]][hashIndices[s]]

\* Every item but the homeless one is in the bucket its recorded hash index
\* names: the receiver can tell the sender which hash function to use.
EveryItemAtHome == \A s \in Live \ Homeless : bucketLookup[Home(s)] = s

\* No bucket points to a stale slot, or to an item that does not hash there:
\* a chain of evictions moves items and never duplicates one.
BucketsHoldTheirItems ==
    \A b \in Buckets : bucketLookup[b] # 0 =>
        /\ bucketLookup[b] \in Live \ Homeless
        /\ Home(bucketLookup[b]) = b

\* The bucket table and the hash indices agree: both of the above.
Placement == EveryItemAtHome /\ BucketsHoldTheirItems

\* No item occupies two slots, however often it was offered.
NoDuplicates == \A s, t \in Live : items[s] = items[t] => s = t

\* "Exists returns true if an item is inserted in cuckoo, false otherwise."
ExistsIffInserted ==
    pc = "ready" => \A x \in Items :
        Exists(x) <=> \E s \in 1..inserted : items[s] = x

\* An insertion that gives up leaves exactly one of the items without a
\* bucket, and it is the one the error names.
OnlyOneHomeless ==
    pc = "failed" =>
        {s \in 1..(inserted + 1) : \A b \in Buckets : bucketLookup[b] # s} = {idx}
=============================================================================
