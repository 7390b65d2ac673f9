--------------------------- MODULE ShuffledWriter ---------------------------
(***************************************************************************)
(* What a shuffling encoder promises its caller: the identifiers it was    *)
(* given, named here by the order of the Shuffle calls (0..n-1), reach the *)
(* wire in the order of the permutation p, each after its own Shuffle, and *)
(* all of them once the last one was given.  A write that fails ends it.   *)
(***************************************************************************)
EXTENDS Naturals, Sequences

CONSTANTS MaxN,     \* bound on the announced number of identifiers
          CanFail   \* may a write to the underlying stream fail?

VARIABLES n,        \* number of identifiers announced to the peer
          p,        \* the permutation: the k-th point sent is number p[k]
          accepted, \* identifiers taken so far
          written,  \* numbers of the points on the wire, in order
          failed    \* a write failed

vars == <<n, p, accepted, written, failed>>

Permutation(m) ==
    {f \in [0..(m - 1) -> 0..(m - 1)] :
        \A i, j \in 0..(m - 1) : i # j => f[i] # f[j]}

Init ==
    /\ n \in 0..MaxN
    /\ p \in Permutation(n)
    /\ accepted = 0
    /\ written = <<>>
    /\ failed = FALSE

\* Take up to one more identifier and send some of the points that are due.
Shuffle ==
    \E a \in {accepted, accepted + 1}, m \in Len(written)..n :
        /\ ~failed
        /\ a <= n
        /\ \A k \in 0..(m - 1) : p[k] < a
        /\ accepted' = a
        /\ written' = [k \in 1..m |-> p[k - 1]]
        /\ UNCHANGED <<n, p, failed>>

\* With every identifier taken, only sending is left.
Send == accepted = n /\ Shuffle

\* A write fails, perhaps the one that follows taking an identifier.
Fail ==
    /\ CanFail /\ ~failed
    /\ failed' = TRUE
    /\ accepted' \in {accepted, accepted + 1} /\ accepted' <= n
    /\ UNCHANGED <<n, p, written>>

Next == Shuffle \/ Fail

Spec == Init /\ [][Next]_vars /\ WF_vars(Send)
=============================================================================
