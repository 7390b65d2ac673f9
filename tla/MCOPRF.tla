------------------------------- MODULE MCOPRF -------------------------------
(* Tables and choice bits for TLC: fewer buckets than a block, one more     *)
(* than a block, and two blocks and one, with an item in the last bucket.   *)
EXTENDS OPRF

MCSizes == <<4, 2, 1>>

MCIds == {"x", "y"}

TableOf(size, bx, hx, by, hy) ==
    [items |-> <<"x", "y">>, hashIndices |-> <<hx, hy>>,
     bucketLookup |-> [b \in Row(size) |->
        CASE b = bx -> 1 [] b = by -> 2 [] OTHER -> 0]]

MCTables == {TableOf(bitVectWidth - 3, 0, 0, 2, 1),
             TableOf(bitVectWidth + 1, 1, 2, bitVectWidth, 2),
             TableOf(2 * bitVectWidth + 1, bitVectWidth, 1, 2 * bitVectWidth, 0)}

MCSecrets == {[c \in Cols |-> FALSE], [c \in Cols |-> TRUE], [c \in Cols |-> c % 3 = 1],
              [c \in Cols |-> c = Columns - 1]}

MCProcs == {<<1, 3>>, <<2, 2>>, <<3, 1>>}
=============================================================================
