# TLA+ models of Optable/match

`match` computes the intersection of two parties' identifier sets over a
connection. It offers four private-set-intersection protocols (DHPSI, NPSI,
BPSI, KKRTPSI) behind one pair of interfaces (`Sender.Send`,
`Receiver.Intersect`) and the key operations of a fifth scheme (PAIR). This
directory holds TLA+ models of its concurrent pipelines, its data structures and
its exchanges, the TLC configurations that check them, and TLAPS proofs that the
safety properties of most of them hold at every size.

    tlc -config MCReader.cfg MultiplyParallelReader    # one run
    tlapm KKRTProofs.tla                               # one module of proofs

`PROJECT.json` lists the runs, the source lines every definition stands for, a
mutation of the model for every property of every passing run, the findings, and
the hazards the properties are aimed at.

## 1. Inventory

| part | state it keeps | operations | hard behaviour | what makes it correct |
|---|---|---|---|---|
| DHPSI exchange (`pkg/dhpsi/sender.go`, `receiver.go`) | index of remote points, local identifiers by arrival, result | two sender stages; three receiver stages of which two run at once and feed a select loop | both directions busy at once over small buffers; cancellation; a match looked up by another goroutine; wrong announced lengths | a nil result is the intersection, each identifier once; both calls return; partial results are sound |
| parallel reader (`dhpsi_parallel.go`: `fill`) | batches in flight, ring of early batches, countdown, three channels | filler, pool workers, counter, collector, `Read` | five kinds of goroutine on unbuffered channels, two goroutines that close the same channel, a pool shared by the process | an ordered reader; no panic; the pool comes back; `Read` never hangs |
| shufflers (`dhpsi.go`, `dhpsi_parallel.go`) | permutation, cache or point array, wait group | `Shuffle` | wait-group arithmetic against workers, errors in a flush | every point once, in permutation order; nil means all sent |
| point framing (`dhpsi.go`: `Writer`, `Reader`) | sequence number, stream position | `Write`, `Read` | short reads | points arrive whole and in step |
| Kensler permutation | size, seed | `Shuffle` | word arithmetic, cycle walking | a permutation; it returns |
| NPSI exchange, parallel hashing | hash indexes, wait group, pairs channel | salt, hashes, concurrent indexing; batcher, handlers, closer | channel closed by a fourth goroutine, errors that look like EOF | as for DHPSI; the channel is closed after the last pair |
| BPSI exchange | bloom filter | fill, serialise, check | truncated filter | no false negatives |
| KKRTPSI exchange | seeds, cuckoo table, OPRF keys, encodings per hash index | three stages, a precompute goroutine | long alternating message sequence; both parties derive the key count on their own | as for DHPSI; every bucket has a key |
| OPRF, base OT, bit operations (`internal/oprf`, `ot`, `crypto`, `util`) | key material, seeds, bit matrices, codes | `Send`, `Receive`, `Encode`; transpositions and bit operations split between goroutines | integer splits with a remainder, padding, word-wise operations; a goroutine whose codes nobody may want | the chosen seeds arrive; the two sides' encodings agree exactly on what is in the table |
| stage 3 pipeline (`pkg/kkrtpsi/sender.go`) | bounded channel, batches, counters | workers, extra worker, writer, `errgroup` | integer splits, the consumer closes the channel, in-place encoding | each input encoded once and sent; the stage returns |
| cuckoo table (`internal/cuckoo`) | items, hash indices, bucket lookup | `Insert` with evictions, `Exists` | chains of evictions, giving up half-way | item, hash index and bucket agree; lookups are exact |
| line framing (`internal/util/framing.go`, `count.go`) | position in a file | `Count`, `SafeReadLine`, `Exhaust` | blank and unterminated lines, a read that fails half-way | as many identifiers as lines counted |
| examples (`examples/receiver`, `sender`) | lines counted, wait group, out file | accept, handle, write out; count, dial, send | concurrent handlers on one out file, a stale count, an error in one that ends all | the out file is the intersection; every connection is handled |
| PAIR (`pkg/pair`) | scalar, salt, running hash | `Encrypt`, `ReEncrypt`, `Decrypt` | hash state carried between calls | exactly the common identifiers match |

The exchanges compose the other parts. DHPSI's stages use a shuffler to send and
the parallel reader or the framing to receive, both shufflers use a Kensler
permutation, NPSI uses the parallel hashing on both sides, and KKRTPSI's receiver
uses the cuckoo table while its sender's stage 3 is the pipeline. `util.Sel` runs
a stage in a goroutine and returns early when the context ends; `util.Sels` runs
two stages at once. `psi.NewSender` and `psi.NewReceiver` choose the protocol for
the examples, which feed it from a file through the line framing.

## 2. Modules

One module per part. A composed exchange uses the abstraction its part was shown
to implement, not the part's internals: the encoders of `DHPSI` are
`ShuffledWriter`s, its readers `OrderedReader`s, the table of `KKRTPSI` is any
table that the invariants of `Cuckoo` allow and its encodings are equal as
`OPRF`'s `EncodingsAgree` says, the hashes of `NPSI` arrive in any order, and the
exchange of `Apps` is what the runs `psi` and `dhpsi` show of it.

| module | models | abstracted |
|---|---|---|
| `OrderedReader` | what a reader of points promises, before and after a failed read of its stream | |
| `MultiplyParallelReader` | `NewMultiplyParallelReader`, `fill`, `copyOut`, `Read`, the pool | points are their place in the stream |
| `ShuffledWriter` | what an encoder promises: a prefix of the permuted points, all of it only after all were accepted | |
| `DeriveMultiplyShuffler` | the sequential encoder | points are the identifiers' sequence numbers |
| `DeriveMultiplyParallelShuffler` | the parallel encoder and its wait group | same |
| `Kensler` | `NewKensler` with its errors, `Shuffle` | words of a parameterised width (32 bits in the code), `^` bit by bit, the multipliers a constant (`Factors`) |
| `Encoders` | the two encoders over the fields they share | |
| `Shufflers` | these, and the permutation they draw | |
| `PointStream` | `Writer`, `Reader`, `MultiplyReader` on a byte stream | a byte is named by its point and place |
| `Ristretto` | derive and multiply | a point is an identifier and the multiset of scalars applied |
| `DHPSI` | the exchange | messages are headers and points |
| `HashAllParallel`, `NPSI` | the hashing pipeline and the exchange | a hash is named by its identifier |
| `BPSI` | the exchange | the filter library is a set of bits |
| `EncodePipeline`, `KKRTPSI` | the sender's stage 3 and the exchange with OPRF and OT messages | an encoding is named by bucket, identifier and hash index |
| `PSI` | the factory: one of `KKRTPSI`, `NPSI`, `BPSI` or none over one connection | |
| `NaorPinkas`, `OPRF` | the base OT and the OPRF, column by column | points and bits are formal sums |
| `BitVect` | bit operations and transpositions, with their shares | a bit is a formal sum over GF(2) |
| `Framing` | `Count`, `SafeReadLine`, `Exhaust` | of the bytes only the newline matters |
| `Apps` | the example receiver and senders | the exchange is its promise |
| `Cuckoo` | the table | any hash family |
| `KKRTParts` | `Cuckoo` or `EncodePipeline`, the parts of KKRTPSI that work on their own | |
| `PAIR` | the key operations in the README's exchange | a digest is named by what was hashed |
| `MCKKRTParts`, `MCShufflers`, `MCPSI`, `MCOPRF`, `MCApps` | hash families, multipliers, tables, sizes and files for TLC | |
| `KKRTProofs`, `ShufflerProofs`, `ReaderProofs`, `HashAllProofs`, `OPRFProofs` | theorems about `Cuckoo` and `EncodePipeline`, `Shufflers`, `MultiplyParallelReader`, `HashAllParallel`, `OPRF` and `BitVect` | |
| `DHPSIProofs`, `PSIProofs` | theorems about the exchanges: `DHPSI`; `KKRTPSI`, `NPSI` and `BPSI` as `PSI` composes them | |
| `AppsProofs` | theorems about the programs on top: `Framing` and `Apps` | |

Correspondences worth knowing when reading them:

* A send on an unbuffered channel and its receive are one step. Each goroutine
  has its own control variable (`fpc`, `wpc`, `kpc`, ... ), named states stand
  for the statement it is about to execute.
* A panic is a state of the model (`panicked`), not an error of it: the
  properties say where it may not be reached.
* The connection is a bounded FIFO per direction; `Cap` is how many messages it
  holds. It is `io.ReadWriter` in the code, hence external. A party whose call
  returned closes its end: the peer still reads what was sent, then its reads
  fail, and its writes fail at once.
* The encoders' stream stays broken once a write failed, as a connection does.
* The number of identifiers that a party announces may differ from what it has:
  `Inputs` of `PSI` says what may be given, `SenderHas` and `ReceiverHas` of
  `DHPSI` say how the two compare (`exact`, one `more`, one `fewer`).
* `Empty` of `KKRTPSI` is the empty identifier, if it is one of `Ids`. The table
  leaves it out, or has it once enough buckets are taken (`StoredFrom`). The number of
  buckets is computed twice, as in the code: `BucketSize` by the table,
  `OprfInputSize` by the sender.
* In `NPSI` a call whose context ended leaves its stage running (`sCtx`, `rCtx`):
  the stage goes on until it rests on the channel nobody reads, on a connection
  the caller closes some time later. A result that is copied while the stage
  appends to it may be torn, which is the value `Torn`.
* In `OPRF` and `BitVect` a bit is the set of random bits XORed in it, so one
  behaviour stands for all random values, and equality of two bits means equality
  whatever was drawn. A call that splits work between goroutines which write
  disjoint parts is one step, but the shares are computed as in the code: a byte
  nobody visits keeps its value, one visited twice gets the operation twice. The
  widths (8, 64, 512, 16384) are constants. `ByteBits`, `WordBits`,
  `WordsPerRow`, `MinShare` keep their proportions, and `Sizes` are the sizes of
  the transposition's rounds (256, 128, ..., 1 in the code), each half of the one
  before it.
* `Masked` of the transposition is the mask of a round, by its meaning: the upper
  of every two runs of `width` bits.
* `Order` of `DHPSI` draws a permutation only for a party that will use it; one
  that is short of identifiers never flushes.
* `PSI` shares the variables that the protocols have in common; those only one
  has keep their initial value in the behaviours of the others.
* In `Apps` a result comes in the order of the receiver's file, and replacing a
  file is a rename: a descriptor that is open keeps the old content. `got` and
  `sgot` are what could be read of the two files of an exchange: all of it, or
  the bytes before a read error, which `Exhaust` takes for the end. `lost` says that
  NPSI's `Intersect` took a lost connection for the end of the hashes.
* Operators named `X_Something` next to `X` are the mutations of `X`. Nothing
  refers to them.

## 3. Runs

Passing runs. Faults are part of every run of a component that handles them: a
read, a write or the connection may fail at any moment, a context may be
cancelled, a consumer may walk away, an announced length may be wrong.

| run | configuration | properties |
|---|---|---|
| `reader` | 3 workers, batches of 2, up to 7 points; reads fail, the consumer leaves | `InOrder`, `PanicNeedsFailure`, `PoolReturned`, `ImplementsOrderedReader` |
| `shufflers` | up to 5 identifiers, all permutations, a call too many; 2 workers, batches of 2; writes fail. Kensler: words of 5 bits, every size of a word and one that is none, all seeds, no randomness | `FollowsPermutation`, `NilMeansAllSent`, `WaitedForAll`, `ImplementsShuffledWriter`, `InjectiveWithinWord`, `ShuffleReturns` |
| `dhpsi` | up to 2 and 3 identifiers out of 2, connection of 1 message; cancellation, broken connection, surplus and missing identifiers | `ExactIntersection`, `PartialIsSound`, `ShortIsNeverNil`, `BothReturn`, `SenderNilSuffices` |
| `hash_all` | 3 handlers, batches of 2, up to 6 identifiers, a buffer of 2 hashes; broken connection | `WgCountsSenders`, `NoSendOnClosed`, `ClosedMeansAll`, `NilMissesAtMostABuffer`, `StageReturns` |
| `psi` | KKRTPSI, NPSI, BPSI and no protocol; up to 2 identifiers out of 2, 2 OT columns, buffers of 1; cancellation with abandoned stages, broken connection, a wrong length of either party, the empty identifier | `NilIsComplete`, `FilterMissesNothing`, `PartIsSound`, `KeysForAllBuckets`, `BothReturnPSI` |
| `oprf` | bytes of 2 bits, words of 4, rows of 8; tables of 5, 9 and 17 buckets, 4 choices of secret, 1 to 3 processors on each side; broken connection | `ChosenSeed`, `EncodingsAgree`, `CallsReturn` |
| `kkrt_parts` | the table: 4 identifiers in a table for 3, limit 4. The pipeline: up to 12 inputs, batches of 2, 2 workers; broken connection, cancellation | `TypeOK`, `Placement`, `NoDuplicates`, `ExistsIffInserted`, `OnlyOneHomeless`; `EncodedOnce`, `NoSendOnClosed`, `NilMeansAllSent`, `PipelineReturns`, `EncodersReturn` |
| `app` | all four protocols and none; 2 senders and files of up to two lines, or 1 sender and files with blank and unterminated lines, reading of which may fail after any byte; the receiver's file is replaced, any other call fails | `OutIsTheIntersection`, `HandledUnlessShort` |

Under faults a property keeps what the code keeps:

* `InOrder` of the reader holds until a read of the stream fails. After that the
  collector may drop the rest of a batch and still deliver points of a later one.
  `OrderedReader` says what is left then: never backwards, never the same point
  twice, `io.EOF` only over the complete stream, an answer to every `Read`. A
  panic needs a failed read.
* `PoolReturned` excuses only a consumer that walked away after the last read of
  the stream: then nothing fails any more, and the collector and the workers wait
  for a reader for ever, sockets closed or not (the comment at
  `dhpsi_parallel.go:167` expects the close to help).
* `NilIsComplete` needs, for NPSI, a connection that holds: `ReadAll` ends on any
  read error as it does at the end of the stream, so a broken connection gives
  part of the intersection with a nil error. For KKRTPSI it leaves out the empty
  identifier, which the table may not hold. `PartIsSound` holds always, except
  for the torn slice of a cancelled call.
* `InjectiveWithinWord` needs the sum of the length and the seed to be at most 2^32, which
  all lengths up to 2^31 + 1 give with every seed. What is beyond is the run
  `kensler_wrap`.
* `ShuffleReturns` leaves out a generator that could not be made (below).
* `BothReturnPSI` says of NPSI that the stages which cancelled calls leave behind
  come to rest as well, once their connection is closed. A salt that arrives in
  pieces fails the sender, and the receiver learns it.
* `StageReturns` of the hashing pipeline excuses the handlers after an error: the
  consumer has left, nobody reads `pairs` any more, and handlers of the pool that
  all exchanges share stay blocked. `NilMissesAtMostABuffer` bounds what the
  dropped error of the last flush can hide.
* `BothReturn` of DHPSI excuses a party with fewer identifiers than it announced:
  its shuffler never flushes, and both wait for each other until one is cancelled
  or the connection breaks, after which both do return. `ShortIsNeverNil` says that
  no call succeeds in that case.
* `CallsReturn` of the OPRF excuses the goroutine that computes the codes when
  `Receive` failed before it took them: it offers them for ever.
* `EncodingsAgree` is exact unless all choice bits are 0, which has probability
  2^-512: then keys do not depend on identifiers and only one direction holds.
* `OutIsTheIntersection` is about what was read of the two files, which is less than
  the files when a read fails (see `framing.go:36` below). Every line that was read must be
  terminated (the last byte of an unterminated one is cut off by `SafeReadLine`);
  an out file that two handlers had open at once, a mixture of two results, is left
  out; BPSI may report more, and NPSI less when it lost its connection.
* `HandledUnlessShort` excuses DHPSI, which waits for identifiers that never come
  when the receiver's file was replaced after its lines were counted, since `n` is
  stale then, or when reading one of the files failed.
* `NilMeansAllSent` of the pipeline allows the content of one `bufio.Writer` to be
  missing when the connection breaks, because the error of the deferred flush is
  dropped.
* `SenderNilSuffices` excuses a receiver that was cancelled, lost its connection,
  or had more identifiers than announced and panicked.

Why the bounds are enough. The parallel reader needs three batches in flight to
buffer two and release them out of step; seven points in batches of two give four
batches, the last one short, and every smaller number gives the cases of no
batch, one batch and an exact last batch. The parallel shuffler and the hashing
pipeline need a full, a short and a following batch. The pipeline's bounds reach
every remainder of both integer divisions, including no input and fewer inputs
than workers, and more batches than the writer and its channel hold. An exchange
needs an identifier that is common, one that is not, and a repeat on each side:
two identifiers in lists of two or three; three on DHPSI's receiver, so that its
permutation need not be its own inverse. A connection that holds one message is
the hardest one for deadlock. In `kkrt_parts` the hash shapes range from three
distinct buckets to three equal ones, so that eviction cycles and hopeless
insertions occur below the limit. The OPRF's tables have fewer buckets than a
block, one more, and two blocks and one, with an item in the last bucket, so that
padding, the remainder of the workers and the excess blocks all matter; a row of
two words of four bits has both kinds of round of the transposition, on word
blocks and on bits. The files of the examples have a blank line, a file that is
shorter than the one counted, and an unterminated end. In `app` the four
protocols differ in what they wait for and in what a nil result means
(`ExchangeEnds`, `IntersectReturns`): DHPSI waits for the announced number on both
sides; KKRTPSI's sender panics when it has fewer; NPSI waits for the end of the
connection and returns a part when it is lost; BPSI waits for nobody, may report too
much, and its sender may have left before it is accepted. A word of 5 bits is wide
enough for every kind of length: below and above half of the word, a power of two and
not, the largest word, and the first that is none.

Runs that are expected to find a violation, each checking what a comment or a
document of the repository says:

| run | property | what TLC finds |
|---|---|---|
| `reader_panic` | `NoPanic` | a failed read closes `batches` under a worker that sends on it, or that closes it again |
| `pair_reuse` | `EveryMatchActivated` | the running hash of a key is never reset, so a second `Encrypt` also hashes the first identifier |
| `framing` | `ReadsAPoint` | a stream that delivers half a point makes `Read` hand over a point that was never written, and shifts all that follow |
| `kensler_wrap` | `Injective` | for a length above half of the word the final sum wraps around and two indices get the same place; the comment allows 4b items, the code half of that |

Other behaviour a maintainer may not expect, met while modelling; the models have
it where a name is given, and the runs above leave it out or state what holds in
spite of it:

* `dhpsi.go:96`: when the last identifier is written directly and that write
  fails, the flush loop of the same call overwrites the error; a stream that
  recovers would hide the missing point (`Write` assumes it stays broken).
* `receiver.go:165` of DHPSI: surplus identifiers index past `localIDs` and panic
  before `Shuffle` can refuse them (`IndexLocal`).
* `sender.go:63` of DHPSI: with fewer identifiers than announced the shuffler sends
  nothing, stage 1 returns nil, and both parties wait for each other (`Short`).
* `sender.go:129` of KKRTPSI: with fewer identifiers than announced, entries nobody
  filled are encoded and panic (`WriteEncodings`).
* `cuckoo.go:148`: the capacity check compares with a length that is one larger
  than the table, so the insertion after the last one panics (`InsertOverflow`).
  KKRTPSI's receiver meets it when it announces too few identifiers (`InsertPanics`).
* `cuckoo.go:136`: the empty identifier equals the keeper of empty buckets, so
  `Exists` finds it anywhere (`Nil` among the items), `Insert` drops it, and
  KKRTPSI does not report it though both parties have it (`StoredFrom`).
* `dhpsi.go:54`, `dhpsi_parallel.go:48`: the error of `NewKensler` is ignored. The
  permutation of a length that is no word, or made without randomness, has length
  0, and its first `Shuffle` never returns (`NewKenslerFails`).
* `framing.go:36`: a read error in the middle of a file is only logged, and the channel
  of identifiers is closed as at the end of the file, though `Exhaust` "consumes all
  the identifiers in r" (`framing.go:21`). BPSI, NPSI and, for the receiver's file,
  KKRTPSI then end without an error and with lines missing; DHPSI waits (`Reads`).
* `npsi.go:38`: a lost connection ends the hashes as `io.EOF` does, so the example
  receiver, whose default is NPSI, writes part of the intersection and exits with 0
  (`lost`).
* `receiver/main.go:131`: concurrent handlers truncate and overwrite each other's
  out file (`mixed`), and an error in one of them ends the process under the
  others (`ExitOnErr`).
* `cuckoo.go:115`: the bound of `GetBucket` is one too large; the slice access
  behind it panics all the same.

Deadlock checking is off everywhere: every modelled call returns, after which
nothing more happens. Where being stuck would be wrong, a liveness property
says so.

### Fairness

Every goroutine has weak fairness on its own steps: the Go scheduler runs a
runnable goroutine again and again, and a step that waits on a channel is enabled
only when its partner is there. A `select` with several ready cases chooses
freely; no fairness among its cases is assumed. The connection delivers
what it took (`io.ReadWriter` blocks, it does not lose). Faults are not fair:
nobody has to cancel and the connection does not have to break. In the shufflers
whether another `Shuffle` is called is left to the caller. In `NPSI` the caller
closes the connection of a call that returned, in the end. In `Apps` a failure is
never owed, except that of an exchange whose other side is gone.

## 4. Proofs

`KKRTProofs`, about `Cuckoo`, for every table size, hash family, reinsertion limit
and any number of calls:

* `TableInvariance`: `CuckooSpec => []TableInv`, where `TableInv` is the type invariant, the
  placement properties, the absence of duplicates and two facts about the
  eviction loop. Neither placement property is inductive alone. That the item an
  eviction picks up was at home needs `BucketsHoldTheirItems`; that a new item is
  no duplicate needs that `Exists` finds every item, which is
  `EveryItemAtHome`; and that a round always has an item to evict needs that all
  buckets of the homeless item are taken (`LoopInv`), which holds because
  `tryAdd` has just failed for it.
* `TypeCorrect`, `PlacementCorrect`, `DuplicateFree`, `FailureLosesOne` follow
  from `TableInv` (`Placement` is the conjunction of the two placement properties).
  `LookupExact` (`Exists` is exact) assumes that no identifier is the empty one, without which it is false (section 3).

`ShufflerProofs`, about `SpecAll`, the specification of the run `shufflers`. First the
encoders, for every number of identifiers, permutation, number of calls, pool and
batch size, wherever a write fails:

* `Invariance`, sequential encoder: the wire follows the permutation, its length is
  the number of direct and flushed writes until one of them fails, and every point
  taken was sent directly or is in the cache (`NothingLost`). The last one is the
  strengthening: the flush reads the cache and would send a zero point for one
  that is missing.
* `Invariance`, parallel encoder: the current batch is where the next identifier
  goes (`BatchPlaced`), what was handed to the pool is in the array or with a worker
  that is about to put it there (`StoredOrBusy`), the wait group counts the batches
  for which that is still open (`WgCounts`), and the write loop starts over an idle
  pool (`WriteLoop`). Order on the wire alone is not inductive: that the loop reads
  no zero point needs all the others.
* `TypeCorrect`, `WaitCorrect` (`WaitedForAll`), `OrderCorrect`, `NilCorrect`, and
  `Refinement`: every behaviour of either is one of `ShuffledWriter`, safety part. A
  step of the sequential encoder maps to the writer's `Shuffle` when its write
  succeeds, to its `Fail` when it is the first to fail, and to a stutter after that;
  in the parallel one taking an identifier is a `Shuffle` that sends nothing, a round
  of the write loop one that sends a point, and batches and workers are invisible.

Then the permutation, for every length, seed, width of the word and odd multipliers:

* `ShuffleInvariance`: the index is where the walk of its argument leads, and two
  different arguments never meet. A walk is the sequence of pairs (statement, value)
  that `Shuffle` goes through; `Reaches` says that a pair is in every set that holds
  the start and is closed under the statements. Each statement is one-to-one on the
  values within the mask: a xor with a constant, a xor with the value shifted
  right, and a product with an odd factor. The walk leaves the loop when the value is
  below the length, so two walks can only meet by having started together.
* The lemmas under it are about words: a number below a power of two is determined by
  its bits, `x ^ y` has the bits it should have, and an odd factor has no
  common divisor with a power of two.
* `PermutationCorrect` (`InjectiveWithinWord`): no two indices get the same place as
  long as length and seed add up to at most `2 ^ WordBits`; the lengths themselves
  are unrestricted. The code's word has 32 bits, so this covers all lengths up to 2^31 + 1.
  Beyond, the final sum of `kensler.go:83` wraps around for the larger seeds, and
  the statement is false (`kensler_wrap`). A generator that could not be made places
  nothing (`Endless`).

`ReaderProofs`, for every number of points, workers and batch size:

* `Invariance`: where the collector is and that it has returned nothing beyond
  that (`Progress`), whatever fails; and until a read fails, that the tickets
  count the batches that were delivered, so the worker that draws the last one is
  the only one to close the channel (`Tickets`), that every submitted batch is
  with one worker, in the ring or copied out (`Batches`), and that `Read` has
  returned the stream up to the collector's mark (`Returned`). The final flush
  reads the entries from `sent` on without looking whether they exist; that
  the ring holds exactly those is part of `Batches`.
* `PanicCorrect`, `OrderCorrect`, and `Refinement`: every step is a step or a
  stutter of `OrderedReader`, also after a failed read. This is the safety part of
  `ImplementsOrderedReader`.

`HashAllProofs`, for every number of identifiers and handlers and every batch and
buffer size, wherever the connection breaks:

* `Invariance`: every identifier that left the batcher is with one handler or was
  received once (`EachInOnePlace`), a closed channel means that batcher and
  handlers are through (`ClosedIsQuiet`), and the wait group counts them.
* `WaitGroupCorrect`, `CloseCorrect`, `NothingLost`, `NilCorrect` are the four
  safety properties of the run.

`KKRTProofs`, about `EncodePipeline`, for every number of inputs and workers and
every batch and buffer size:

* `Invariance`: the shares of the workers and of the extra worker do not overlap,
  batches that are not filled are not encoded (`NotYetEncoded`), an encoded input
  is in the hands of one encoder, in the channel, or with the writer, once
  (`EachInOnePlace`, `EncodedInPlaces`), and the writer counts what it took
  (`Counted`). The writer closes the channel when its count reaches the number of
  inputs; that nobody can send then follows by counting: as many distinct inputs
  as there are have passed it, so no encoder holds one.
* `SplitCorrect` (`EncodedOnce`), `CloseCorrect`, `NilCorrect`.
* `PartsAlone`: a behaviour of `KKRTParts`, which the run checks, is one of `Cuckoo` and one
  of `EncodePipeline`, so what is proved of each holds of both side by side.

`DHPSIProofs`, for inputs of any length with repeats, any two permutations, any
capacity of the connection, cancellation, a broken connection and wrong lengths:

* `Invariance`: every message is numbered, and what is in a queue is the next
  messages of its stream in order (`ToReceiver`, `ToSender`); each stage's position
  agrees with the counts of its neighbours (`SenderOK`, `ReceiverOK`); the index
  holds exactly what both sides have contributed so far (`IndexOK`) and the result
  exactly what has met in it (`MatchOK`). The streams are the strengthening: a
  returned point means the receiver's identifier only because its position in the
  stream is known.
* `SoundCorrect` (`PartialIsSound`), `ResultCorrect` (`ExactIntersection`),
  `ShortCorrect` (`ShortIsNeverNil`). The algebra is two lemmas, `Commute` (the
  order of the two scalars does not matter) and `BothInjective` (equal points come
  from equal identifiers).

`PSIProofs`, for the composition `SpecPSI` and inputs of any length, announced
lengths, hash families, tables, columns and capacities:

* `Invariance`: one invariant a protocol, which is vacuous in the behaviours of the
  others. `BInv`: once the filter is read it holds the bits of all the sender's
  identifiers, and what has been checked and is common was reported. `NInv`: what
  is indexed or reported belongs to the party it came from, whatever fails
  (`NSound`); while nothing fails, no hash is lost between the input, the buffers,
  the connection, the channel and the index (`NWhole`). `KInv`: the size the sender
  works with is the receiver's first message (`SizeOK`); the messages of both
  directions are numbered, and there is a set of inputs whose encodings have been
  sent, each of which is still coming or was dealt with (`EncodingsOK`); the
  encoding of a common item is under its hash index until it is reported
  (`OutputOK`), and the table holds every item but perhaps the empty one (`TableOK`).
* `NilCorrect` (`NilIsComplete`): for KKRTPSI by counting, since a receiver that has
  read as many encodings as were announced has dealt with all of them.
  `SoundCorrect` (`PartIsSound`), `FilterCorrect` (`FilterMissesNothing`) and
  `KeysCorrect` (`KeysForAllBuckets`): the sender's formula and the table's give the same
  number for every size (`KeysAsBuckets`), and the sender applies its own to the
  size the receiver announced, right or wrong.

`AppsProofs`, for any files, any number of senders, all protocols, failures of
calls, exchanges and reads, and replacements of the receiver's file:

* `AppInvariance`: the wait group counts the handlers at work, so that `main` returns over
  an idle program (`WgCounts`); the two channels of an exchange deliver what `Exhaust`
  makes of the bytes that were read, with the number counted at startup
  (`ChannelsOK`); an out file that is not mixed has one writer, the last to
  create it (`OutOwner`); and the lines of that file are those its writer has
  written so far, at the offset it has (`OutWritten`). The last one needs all the others.
* `OutCorrect` (`OutIsTheIntersection`): in terms of what was read, and with what
  BPSI adds and a lost connection of NPSI takes away. It rests on what reading and writing do to lines:
  the rounds of `Exhaust` deliver the lines of a terminated file, and blank ones
  (`ExhaustLines`), by the rank of a newline among all newlines; and a write
  at the end of a terminated file adds its line and changes no other
  (`AppendLine`).

`OPRFProofs`, for any table, any widths, any choice bits and any numbers of
goroutines, wherever the connection breaks:

* `Invariance`: the base OT's messages alternate column by column, so the ciphertexts
  that the sender reads belong to its column and were made from its key material
  (`Phases`). A party that failed stays where it was; what it had sent is still read.
* `SeedCorrect` (`ChosenSeed`), with the algebra of a column as lemmas: the key of
  the choice, `r K0` or `r A - r K0`, is `b R` (`SharedKey`), and the cipher is its
  own inverse.
* `TransposeMoves`: the rounds of a block's transposition take bit `c` of row `r` to bit
  `r` of row `c`. After the round of size `h` the blocks of `h` by `h` bits stand where
  the transposed matrix has them, each still as it was inside (`Halfway`). A round
  of whole words (`SwapBlocks`) and one inside the words (`SwapBits`) both take
  `Halfway` from `2 h` to `h`.
* `TallTransposed`, `WideTransposed`: the same for a matrix cut in blocks that goroutines
  share, the last block padded. `OnceOver`: the goroutines of a bit operation visit every
  byte exactly once, whatever the length and its remainders.
* `ValuesInvariance`: whenever they are used, codes, masked columns, keys and
  encodings have the values that the protocol means them to have. `EncodingsCorrect`
  (`EncodingsAgree`) follows: a code and the choice bits cancel out for the
  identifier a bucket holds, and differ for another in a column whose choice bit
  is 1.

The assumptions are the named `ASSUME`s of the component modules, which TLC
evaluates in the runs of those modules; they say that sizes are natural numbers,
that pools are finite, that hash families and tables are functions, that a word
is a whole number of bytes and the sizes of the rounds halve down to 1, and that the
permutation's multipliers are odd. `MaxPoints`, `MaxIds` and the like are any
natural number in the proofs.

Induction over data is done without the library's induction operators. A set of
numbers that is not empty has a least member (`LeastElement`), so a set that
contains its base and is closed under successors contains everything (`Induction`);
a statement is proved by defining the set of the numbers for which it holds.
Recursive functions are used through their one-step equations, and products, powers
and visits are counted as sets.

Steps that the proofs made visible: the collector of the parallel reader flushes
entries of its map that may be missing after a failure. `CurPoints` says what the
code does then, copying a batch without points. And a round inside the words is
only right because the mask selects one half of each pair of runs: the two moves
of `SwapBits` are exclusive cases of it.

Only model-checked:

* Liveness and fairness (`PoolReturned`, `ShuffleReturns`, `StageReturns`,
  `PipelineReturns`, `EncodersReturn`, `BothReturn`, `BothReturnPSI`, `CallsReturn`, `SenderNilSuffices`,
  `HandledUnlessShort`) and the liveness part of the two refinements, which
  need `ENABLED`.
* The findings of section 3, which are counterexamples.

## 5. Not modelled

* Curve, cipher and hash arithmetic (`internal/crypto`, `internal/hash`): results
  are named by their inputs, so collisions do not occur and the two Ristretto
  back ends are the same. The two builds of the bit operations (`amd64` and
  generic) do the same on words and excess bytes and are one definition.
* `And` and `SampleRandomBitMatrix`, which nothing calls; the sequential `HashAll`
  of NPSI; the naive and nil permutations, used by tests only; `generate.go`,
  logging and the test harness.
* Data races inside a word: goroutines of `internal/util` write disjoint parts, as
  the shares in `BitVect` show, so a call is one step.
* A stage that outlives its cancelled call, outside NPSI: there the stage is taken to
  stop when its call returns. In KKRTPSI's receiver it goes on appending to the
  result that was returned (`kkrtpsi/receiver.go:133`), which can tear that result as
  `Torn` shows for NPSI. The leaks of the precompute goroutine and of the stage 3
  writer in KKRTPSI have the same cause.
* A stream that recovers after a failed write: the connection is TCP, and stays broken.
* Composition of the reader's fault behaviour and of short reads with the
  exchange: `DHPSI` uses an ordered reader and whole messages, so what a gap or a
  torn point does to the peer is not shown.
* In `PSI`, DHPSI: its state space is that of the other three together, and it
  shares no code with them beyond `Sel`.

## 6. Plan

The system is modelled as far as section 5 says, and every invariant that a run
checks is proved. What is left:

1. Liveness stays with TLC until the prover handles `ENABLED`.
2. The composition that section 5 leaves out: the reader's and the framing's faults
   under the DHPSI exchange.
