------------------------------- MODULE MCPSI -------------------------------
(* Inputs and hash functions for TLC: in KKRTPSI identifiers whose hashes  *)
(* are all distinct or all equal, and that share a bucket with each other; *)
(* in BPSI identifiers whose bits are the same, apart, or hidden by the    *)
(* other's.                                                                *)
EXTENDS PSI

MaxIds == 2
Named == Ids \ {Empty}
first == CHOOSE x \in Named : TRUE

\* All lists of up to MaxIds identifiers, repeats included.  (The two that are not
\* empty can change names, so the first to occur is always the same.)
Lists == UNION {[1..m -> Named] : m \in 0..MaxIds}
Pairs == {sr \in Lists \X Lists :
             sr[1] \o sr[2] # <<>> => (sr[1] \o sr[2])[1] = first}

\* Lists with the empty identifier, which the table of KKRTPSI may leave out.
EmptyPairs == {<<Empty>>, <<Empty, first>>} \X
              {<<Empty>>, <<Empty, first>>, <<first, Empty>>}

\* One of the two announced lengths may be off by one.
Lengths(s, r) == {l \in (Len(s) - 1 .. Len(s) + 1) \X (Len(r) - 1 .. Len(r) + 1) :
                     l \in Nat \X Nat /\ (l[1] = Len(s) \/ l[2] = Len(r))}
MCInputs ==
    UNION {{[sIds |-> sr[1], sN |-> l[1], rIds |-> sr[2], rN |-> l[2]] :
               l \in Lengths(sr[1], sr[2])} : sr \in Pairs}
      \cup {[sIds |-> sr[1], sN |-> Len(sr[1]), rIds |-> sr[2], rN |-> Len(sr[2])] :
               sr \in EmptyPairs}

Shapes == {<<0, 1, 2>>, <<2, 2, 2>>}
MCHashes == {[x \in Ids |-> [h \in HashIdx |-> f[x][h + 1]]] :
                f \in {g \in [Ids -> Shapes] : g[Empty] = <<2, 2, 2>>}}

MCBitsOf == {f \in [Ids -> {{1, 2}, {2}, {1}}] : f[Empty] = {1}}
=============================================================================
