------------------------------ MODULE MCKKRTParts ----------------------------
(* Hash families for TLC: every way to give each item one of a few shapes  *)
(* of bucket triples, from all distinct to all equal, so that chains,      *)
(* cycles and hopeless insertions all occur.                               *)
EXTENDS KKRTParts

Shapes == {<<0, 1, 2>>, <<0, 0, 0>>, <<1, 0, 1>>, <<3, 1, 3>>}

MCHashes == {[x \in Items |-> [h \in HashIdx |-> f[x][h + 1]]] :
                f \in [Items -> Shapes]}
=============================================================================
