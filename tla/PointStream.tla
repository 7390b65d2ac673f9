----------------------------- MODULE PointStream -----------------------------
(***************************************************************************)
(* pkg/dhpsi/dhpsi.go: Writer, Reader and MultiplyReader on the two ends   *)
(* of a byte stream.  A header announces the number of points, and the     *)
(* points follow without any framing.  The stream is a TCP connection (the *)
(* exchange puts no buffer between): a write is accepted whole, a read     *)
(* returns as many of the bytes that have arrived as the network pleases,  *)
(* at least one and at most as many as asked for.  A byte is named by its  *)
(* point and its place in the point.                                       *)
(***************************************************************************)
EXTENDS Integers, Sequences

CONSTANTS EncodedLen,  \* bytes of a point, 32 in the code
          MaxN,        \* bound on the announced number of points
          Multiplies   \* TRUE: MultiplyReader, FALSE: Reader

VARIABLES wmax, wseq, werr,  \* the writer and what its last call returned
          stream,            \* bytes written and not read yet
          header,            \* "none", "sent" or "read"
          rmax, rseq, rerr,  \* the reader and what its last call returned
          points             \* what the calls of Read put into p

writer == <<wmax, wseq, werr>>
reader == <<rmax, rseq, rerr, points>>
vars == <<writer, stream, header, reader>>

Indices == 1..EncodedLen
Encoded(k) == [j \in Indices |-> <<"point", k, j>>]
ZeroPoint == [j \in Indices |-> <<"zero">>]

\* Multiply on a string of bytes: any of them is multiplied as a whole.
Multiply(bytes) == [j \in Indices |-> <<"times", bytes, j>>]

Init ==
    /\ wmax \in 0..MaxN /\ wseq = 0 /\ werr = "nil"
    /\ stream = <<>> /\ header = "none"
    /\ rmax = 0 /\ rseq = 0 /\ rerr = "nil" /\ points = <<>>

\* NewWriter.
NewWriter ==
    /\ header = "none"
    /\ header' = "sent"
    /\ UNCHANGED <<writer, stream, reader>>

\* Writer.Write, up to one call past the announced number; a failed write of
\* the stream is returned and not counted.
Write ==
    /\ header # "none" /\ werr = "nil"
    /\ \/ /\ wseq = wmax
          /\ werr' = "unexpectedPoint"
          /\ UNCHANGED <<wseq, stream>>
       \/ /\ wseq # wmax
          /\ werr' = "error"
          /\ UNCHANGED <<wseq, stream>>
       \/ /\ wseq # wmax
          /\ stream' = stream \o Encoded(wseq)
          /\ wseq' = wseq + 1
          /\ UNCHANGED werr
    /\ UNCHANGED <<wmax, header, reader>>

\* NewReader: binary.Read reads until it has the whole header.
NewReader ==
    /\ header = "sent"
    /\ rmax' = wmax /\ header' = "read"
    /\ UNCHANGED <<writer, stream, rseq, rerr, points>>

\* Reader.Read: one read of the stream, whatever it returns.  MultiplyReader
\* reads into an array of its own and multiplies that.
Read ==
    /\ header = "read" /\ rerr = "nil" /\ rseq < rmax
    /\ \E n \in 1..EncodedLen :
          LET p == [j \in Indices |-> IF j <= n THEN stream[j] ELSE ZeroPoint[j]]
          IN  /\ n <= Len(stream)
              /\ stream' = SubSeq(stream, n + 1, Len(stream))
              /\ points' = Append(points, IF Multiplies THEN Multiply(p) ELSE p)
    /\ rseq' = rseq + 1
    /\ UNCHANGED <<writer, header, rmax, rerr>>

\* A failed read of the stream is returned and not counted.
ReadFails ==
    /\ header = "read" /\ rerr = "nil" /\ rseq < rmax
    /\ rerr' = "error"
    /\ UNCHANGED <<writer, stream, header, rmax, rseq, points>>

\* Reader.Read past the announced number.
ReadEOF ==
    /\ header = "read" /\ rerr = "nil" /\ rseq = rmax
    /\ rerr' = "EOF"
    /\ UNCHANGED <<writer, stream, header, rmax, rseq, points>>

Next == NewWriter \/ Write \/ NewReader \/ Read \/ ReadFails \/ ReadEOF

Spec == Init /\ [][Next]_vars

----------------------------------------------------------------------------
\* "Read reads a point from the underlying reader and writes it into p": the
\* k-th successful Read hands over the k-th point that was written.
ReadsAPoint ==
    \A k \in 1..Len(points) :
        points[k] = IF Multiplies THEN Multiply(Encoded(k - 1)) ELSE Encoded(k - 1)
=============================================================================
