----------------------------- MODULE Ristretto -----------------------------
(***************************************************************************)
(* pkg/dhpsi/dhpsi_ristretto.go: the group operations both DHPSI parties   *)
(* use.  A point is the identifier it was derived from together with how   *)
(* many times each secret scalar has multiplied it.  Scalars commute, so   *)
(* the order of multiplications is not recorded; distinct identifiers      *)
(* derive distinct points (SHA-512 collisions are left out).               *)
(***************************************************************************)
EXTENDS Naturals

CONSTANT Keys   \* the secret scalars in play, one per party

\* R255.DeriveMultiply: hash the identifier to a point, multiply by the key.
DeriveMultiply(key, id) ==
    [id |-> id, exp |-> [k \in Keys |-> IF k = key THEN 1 ELSE 0]]

\* R255.Multiply: decode the point, multiply by the key, encode it again.
Multiply(key, pt) == [pt EXCEPT !.exp[key] = @ + 1]
=============================================================================
