---------------------------- MODULE MCShufflers ----------------------------
(* The low 16 bits of the multipliers of kensler.go: those are all that     *)
(* matter within a mask below 2^16.                                         *)
EXTENDS Shufflers

MCFactors == <<35133, 60223, 64105, 45827, 7363, 41951>>
=============================================================================
