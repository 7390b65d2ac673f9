--------------------------- MODULE EncodePipeline ---------------------------
(***************************************************************************)
(* pkg/kkrtpsi/sender.go, stage 3: workers encode batches of the inputs    *)
(* and send them over localEncodings to one writer, which puts them on the *)
(* connection.  There are nWorkers workers with workerResp batches each,   *)
(* an extra worker for what that division leaves over, and the writer      *)
(* closes the channel when it has counted every input.  Encoding works in  *)
(* place: an input encoded twice would be ruined.                          *)
(***************************************************************************)
EXTENDS Integers, Sequences, FiniteSets

CONSTANTS MaxInputs,  \* bound on the number of inputs
          BatchSize,  \* 2048 in the code
          NWorkers,   \* runtime.GOMAXPROCS(0)
          BufSize,    \* encodings the bufio.Writer holds
          CanFail,    \* may the connection break?
          CanCancel   \* may the caller cancel its context?

ASSUME PipelineAssumption ==
    /\ MaxInputs \in Nat
    /\ {BatchSize, NWorkers, BufSize} \subseteq Nat \ {0}
    /\ CanFail \in BOOLEAN /\ CanCancel \in BOOLEAN

Workers == 0..(NWorkers - 1)
Extra == NWorkers
Encoders == Workers \cup {Extra}

VARIABLES n,               \* len(message.inputs)
          epc,             \* per encoder: "fill", "send", "nil", "error", "panicked"
          batchNumber,     \* per worker: its current batch
          batch,           \* per encoder: the filled batch
          encoded,         \* per input: how often it was encoded
          localEncodings,  \* the channel
          closed,
          wpc,             \* writer: "start", "range", "write", "nil", "error"
          rest,            \* writer: what is left of the batch it received
          sent,            \* writer: encodings counted
          buf,             \* writer: its bufio.Writer
          wire,            \* what reached the connection
          down,            \* the connection is broken
          cancelled,       \* the caller's context ended
          result           \* of stage3: "running", "nil" or "error"

encoders == <<epc, batchNumber, batch, encoded>>
channel  == <<localEncodings, closed>>
writer   == <<wpc, rest, sent, buf, wire>>
vars     == <<n, encoders, channel, writer, down, cancelled, result>>

workerResp == (n \div BatchSize) \div NWorkers
workLeft == n - workerResp * NWorkers * BatchSize

Init ==
    /\ n \in 0..MaxInputs
    /\ epc = [e \in Encoders |-> "fill"]
    /\ batchNumber = [w \in Workers |-> 0]
    /\ batch = [e \in Encoders |-> <<>>]
    /\ encoded = [i \in 0..(n - 1) |-> 0]
    /\ localEncodings = <<>> /\ closed = FALSE
    /\ wpc = "start" /\ rest = <<>> /\ sent = 0 /\ buf = <<>> /\ wire = <<>>
    /\ down = FALSE /\ cancelled = FALSE /\ result = "running"

\* The errgroup's context: the caller's, or a goroutine returned an error.
CtxDone == cancelled \/ wpc = "error" \/ \E e \in Encoders : epc[e] = "error"

----------------------------------------------------------------------------
(* Encoders.                                                               *)

\* The inputs first..first+len-1, encoded by e.
FillFrom(e, first, len) ==
    /\ batch' = [batch EXCEPT ![e] = [k \in 1..len |-> first + k - 1]]
    /\ encoded' = [i \in DOMAIN encoded |->
                     encoded[i] + (IF i \in first..(first + len - 1) THEN 1 ELSE 0)]
    /\ epc' = [epc EXCEPT ![e] = "send"]
    /\ UNCHANGED <<n, batchNumber, channel, writer, down, cancelled, result>>

\* The first input of worker w's next batch.  The mutant loses the factor.
Step_NoFactor(w) == (w + batchNumber[w]) * BatchSize

Step(w) == (w * workerResp + batchNumber[w]) * BatchSize

\* A worker's next batch.
Fill(w) ==
    /\ epc[w] = "fill" /\ batchNumber[w] < workerResp
    /\ FillFrom(w, Step(w), BatchSize)

\* The extra worker's single batch.
FillExtra ==
    /\ epc[Extra] = "fill" /\ workLeft # 0
    /\ FillFrom(Extra, n - workLeft, workLeft)

\* No batch left: the goroutine returns nil.
EncoderDone(e) ==
    /\ epc[e] = "fill"
    /\ IF e = Extra THEN workLeft = 0 ELSE batchNumber[e] = workerResp
    /\ epc' = [epc EXCEPT ![e] = "nil"]
    /\ UNCHANGED <<n, batchNumber, batch, encoded, channel, writer, down,
                   cancelled, result>>

\* localEncodings <- batch: a closed channel panics.
SendBatch(e) ==
    /\ epc[e] = "send"
    /\ closed \/ Len(localEncodings) < 2 * NWorkers
    /\ epc' = [epc EXCEPT ![e] = IF closed THEN "panicked"
                                 ELSE IF e = Extra THEN "nil" ELSE "fill"]
    /\ localEncodings' = IF closed THEN localEncodings
                         ELSE Append(localEncodings, batch[e])
    /\ batchNumber' = [w \in Workers |-> batchNumber[w] + (IF w = e THEN 1 ELSE 0)]
    /\ UNCHANGED <<n, batch, encoded, closed, writer, down, cancelled, result>>

\* The other branch of the select.  The mutant has none: it only sends.
GiveUp_Never(e) ==
    /\ epc[e] = "send" /\ CtxDone /\ ~CtxDone
    /\ epc' = [epc EXCEPT ![e] = "error"]
    /\ UNCHANGED <<n, batchNumber, batch, encoded, channel, writer, down,
                   cancelled, result>>

GiveUp(e) ==
    /\ epc[e] = "send" /\ CtxDone
    /\ epc' = [epc EXCEPT ![e] = "error"]
    /\ UNCHANGED <<n, batchNumber, batch, encoded, channel, writer, down,
                   cancelled, result>>

Encoder(e) == \/ e # Extra /\ Fill(e)
              \/ e = Extra /\ FillExtra
              \/ EncoderDone(e) \/ SendBatch(e) \/ GiveUp(e)

----------------------------------------------------------------------------
(* Writer.                                                                 *)

\* No inputs: nobody will send, so the writer closes the channel itself.
\* The mutant omits the special case.
WriterStart_NoSpecialCase ==
    /\ wpc = "start"
    /\ wpc' = "range"
    /\ UNCHANGED <<n, encoders, channel, rest, sent, buf, wire, down, cancelled,
                   result>>

WriterStart ==
    /\ wpc = "start"
    /\ wpc' = "range"
    /\ closed' = (n = 0)
    /\ UNCHANGED <<n, encoders, localEncodings, rest, sent, buf, wire, down,
                   cancelled, result>>

ReceiveBatch ==
    /\ wpc = "range" /\ localEncodings # <<>>
    /\ rest' = Head(localEncodings)
    /\ localEncodings' = Tail(localEncodings)
    /\ wpc' = "write"
    /\ UNCHANGED <<n, encoders, closed, sent, buf, wire, down, cancelled, result>>

\* EncodingsWrite: into the buffer, which goes out when it is full; if that
\* fails, the goroutine returns the error.
WriteEncoding ==
    /\ wpc = "write" /\ rest # <<>>
    /\ IF Len(buf) < BufSize
       THEN /\ buf' = Append(buf, Head(rest))
            /\ rest' = Tail(rest) /\ sent' = sent + 1
            /\ UNCHANGED <<wpc, wire>>
       ELSE IF down
            THEN wpc' = "error" /\ UNCHANGED <<rest, sent, buf, wire>>
            ELSE /\ wire' = wire \o buf
                 /\ buf' = <<Head(rest)>>
                 /\ rest' = Tail(rest) /\ sent' = sent + 1
                 /\ UNCHANGED wpc
    /\ UNCHANGED <<n, encoders, channel, down, cancelled, result>>

\* The batch is written; the last one closes the channel.  The mutant
\* closes after the first batch.
BatchDone_CloseEarly ==
    /\ wpc = "write" /\ rest = <<>>
    /\ wpc' = "range"
    /\ closed' = TRUE
    /\ UNCHANGED <<n, encoders, localEncodings, rest, sent, buf, wire, down,
                   cancelled, result>>

BatchDone ==
    /\ wpc = "write" /\ rest = <<>>
    /\ wpc' = "range"
    /\ closed' = (sent = n)
    /\ UNCHANGED <<n, encoders, localEncodings, rest, sent, buf, wire, down,
                   cancelled, result>>

\* The channel is closed and drained; the deferred Flush's error is dropped.
WriterDone ==
    /\ wpc = "range" /\ closed /\ localEncodings = <<>>
    /\ wpc' = "nil"
    /\ wire' = IF down THEN wire ELSE wire \o buf
    /\ buf' = <<>>
    /\ UNCHANGED <<n, encoders, channel, rest, sent, down, cancelled, result>>

Writer == WriterStart \/ ReceiveBatch \/ WriteEncoding \/ BatchDone \/ WriterDone

----------------------------------------------------------------------------
\* g.Wait(): every goroutine has returned.
Wait ==
    /\ result = "running"
    /\ wpc \in {"nil", "error"}
    /\ \A e \in Encoders : epc[e] \in {"nil", "error"}
    /\ result' = IF wpc = "error" \/ \E e \in Encoders : epc[e] = "error"
                 THEN "error" ELSE "nil"
    /\ UNCHANGED <<n, encoders, channel, writer, down, cancelled>>

Break ==
    /\ CanFail /\ ~down
    /\ down' = TRUE
    /\ UNCHANGED <<n, encoders, channel, writer, cancelled, result>>

Cancel ==
    /\ CanCancel /\ ~cancelled /\ result = "running"
    /\ cancelled' = TRUE
    /\ UNCHANGED <<n, encoders, channel, writer, down, result>>

Next == (\E e \in Encoders : Encoder(e)) \/ Writer \/ Wait \/ Break \/ Cancel

\* Every goroutine is scheduled.
Spec == /\ Init /\ [][Next]_vars
        /\ \A e \in Encoders : WF_vars(Encoder(e))
        /\ WF_vars(Writer) /\ WF_vars(Wait)

----------------------------------------------------------------------------
(* Properties.                                                             *)

\* No input is encoded by two workers or in two batches: encoding overwrites
\* the input, and a second time would spoil it.
EncodedOnce == \A i \in DOMAIN encoded : encoded[i] <= 1

\* The writer closes the channel only when no encoder has anything to send.
NoSendOnClosed == \A e \in Encoders : epc[e] # "panicked"

\* stage3 returns nil only when every input is on the wire exactly once; when
\* the connection breaks under the deferred flush, whose error is dropped, at
\* most what the bufio.Writer held is missing.
NilMeansAllSent ==
    result = "nil" =>
        LET onWire == {wire[k] : k \in DOMAIN wire} IN
        /\ Len(wire) = Cardinality(onWire)
        /\ onWire \subseteq 0..(n - 1)
        /\ n - Len(wire) <= IF down THEN BufSize ELSE 0

\* Unless the caller cancels, stage3 returns: also for no inputs, for fewer
\* than a batch per worker, and after a failed write with a full channel.
StageReturns == <>(result # "running" \/ cancelled)

\* A cancelled or failed stage leaves no encoder blocked on the channel.
EncodersStop == <>(\A e \in Encoders : epc[e] \in {"nil", "error"})
=============================================================================
