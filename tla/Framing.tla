------------------------------ MODULE Framing ------------------------------
(***************************************************************************)
(* internal/util/framing.go and count.go: how an input file becomes a      *)
(* number of identifiers and the identifiers themselves.  A file is a      *)
(* sequence of bytes; of the bytes only the newline matters.               *)
(***************************************************************************)
EXTENDS Integers, Sequences, FiniteSets

NL == "\n"

Newlines(f) == {j \in DOMAIN f : f[j] = NL}

\* Count: what the scanner finds, an unterminated last line included.  The mutant
\* counts what is between newlines, also when nothing is after the last one.
Count_Split(f) == Cardinality(Newlines(f)) + (IF f # <<>> THEN 1 ELSE 0)

Count(f) ==
    Cardinality(Newlines(f)) + (IF f # <<>> /\ f[Len(f)] # NL THEN 1 ELSE 0)

\* SafeReadLine from byte `at` on: ReadBytes reads up to and including the
\* newline, or to the end of the file with io.EOF; then the last byte of a
\* longer line is cut off, whatever it is.  A blank line stays a newline.
ReadBytes(f, at) ==
    LET ends == {j \in Newlines(f) : j >= at}
        last == IF ends = {} THEN Len(f) ELSE CHOOSE j \in ends : \A k \in ends : j <= k
    IN  [line |-> SubSeq(f, at, last), err |-> IF ends = {} THEN "EOF" ELSE "nil"]

SafeReadLine(f, at) ==
    LET got == ReadBytes(f, at)
    IN  [got EXCEPT !.line = IF Len(@) > 1 THEN SubSeq(@, 1, Len(@) - 1) ELSE @]

\* The i-th smallest of a set of numbers, and the entries of a sequence at the
\* places in a set, in their order.
Nth(S, i) == CHOOSE j \in S : Cardinality({m \in S : m <= j}) = i
Selected(s, S) == [i \in 1..Cardinality(S) |-> s[Nth(S, i)]]

\* The rounds of Exhaust's loop: n, unless the end comes first, in the round after
\* the last newline.  The mutant stops one short.
Rounds_OneLess(n, f) ==
    LET m == IF n = 0 THEN 0 ELSE n - 1
    IN  IF m <= Cardinality(Newlines(f)) THEN m ELSE Cardinality(Newlines(f)) + 1

Rounds(n, f) ==
    IF n <= Cardinality(Newlines(f)) THEN n ELSE Cardinality(Newlines(f)) + 1

\* Exhaust: what the channel delivers before it is closed, for a consumer that
\* takes it all, of the bytes f that are read.  A round reads on from the byte
\* after the last newline.  Their end is that of the file or a read error:
\* ReadBytes returns what it has with either, and Exhaust, which only logs the
\* error, sends that and closes the channel.  An empty line is not sent; only the
\* end, hence the last round, yields one.
Exhaust(n, f) ==
    LET ends == Newlines(f)
        rounds == Rounds(n, f)
        lines == [i \in 1..rounds |-> SafeReadLine(f, 1 + Nth(ends \cup {0}, i)).line]
    IN  SubSeq(lines, 1, Cardinality({i \in 1..rounds : lines[i] # <<>>}))

----------------------------------------------------------------------------
\* What the users of these functions mean by an input file: lines, each ended by
\* a newline; an identifier is a line that is not blank.
Terminated(f) == f = <<>> \/ f[Len(f)] = NL

Lines(f, n) ==
    {SubSeq(f, line[1] + 1, line[2] - 1) : line \in
        {jk \in (Newlines(f) \cup {0}) \X Newlines(f) :
            /\ jk[1] + 1 < jk[2]
            /\ \A m \in (jk[1] + 1)..(jk[2] - 1) : f[m] # NL
            /\ Cardinality({m \in Newlines(f) : m <= jk[2]}) <= n}}
=============================================================================
