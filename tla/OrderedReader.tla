--------------------------- MODULE OrderedReader ---------------------------
(***************************************************************************)
(* What the consumer of a point reader is promised: it sees the points of  *)
(* the stream in the order they were written, one per Read, then io.EOF.   *)
(* Once a read of the underlying stream has failed less is promised: later *)
(* points may be missing, the process may panic, but nothing is repeated   *)
(* or reordered, io.EOF still means that every point was handed out, and a *)
(* consumer that keeps calling Read gets an answer.                        *)
(* Points are named by their place in the stream, 1..max.                  *)
(***************************************************************************)
EXTENDS Naturals, Sequences

CONSTANTS MaxPoints,  \* bound on the announced number of points
          CanFail,    \* may the underlying stream fail?
          CanAbandon  \* may the consumer stop reading and close the stream?

VARIABLES max,     \* the announced number of points
          out,     \* the points handed to the consumer, in order
          rst,     \* how reading ended, if it did
          failed   \* a read of the underlying stream failed

vars == <<max, out, rst, failed>>

Init ==
    /\ max \in 0..MaxPoints
    /\ out = <<>>
    /\ rst = "reading"
    /\ failed = FALSE

Fail ==
    /\ CanFail \/ rst = "abandoned"
    /\ failed' = TRUE
    /\ UNCHANGED <<max, out, rst>>

\* The points Read may hand out now.
Due == IF failed
       THEN {k \in 1..max : \A i \in 1..Len(out) : out[i] < k}
       ELSE {Len(out) + 1} \cap 1..max

ReadPoint ==
    /\ rst = "reading"
    /\ \E k \in Due : out' = Append(out, k)
    /\ UNCHANGED <<max, rst, failed>>

\* Read past the last point returns io.EOF.
ReadEOF ==
    /\ rst = "reading"
    /\ Len(out) = max
    /\ rst' = "eof"
    /\ UNCHANGED <<max, out, failed>>

\* A truncated stream is reported, never passed off as complete.
ReadUnexpectedEOF ==
    /\ failed
    /\ rst = "reading"
    /\ Len(out) < max
    /\ rst' = "unexpectedEOF"
    /\ UNCHANGED <<max, out, failed>>

Abandon ==
    /\ CanAbandon
    /\ rst = "reading"
    /\ rst' = "abandoned"
    /\ UNCHANGED <<max, out, failed>>

\* Only a failure lets the reader take the process down.
Panic ==
    /\ failed
    /\ rst' = "panicked"
    /\ UNCHANGED <<max, out, failed>>

Read == ReadPoint \/ ReadEOF \/ ReadUnexpectedEOF

Next == Read \/ Fail \/ Abandon \/ Panic

Spec == Init /\ [][Next]_vars /\ WF_vars(Read)
=============================================================================
