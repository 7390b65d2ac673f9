------------------------------ MODULE Encoders ------------------------------
(***************************************************************************)
(* The two shuffling encoders of pkg/dhpsi side by side, the sequential    *)
(* one of dhpsi.go and the parallel one of dhpsi_parallel.go.  A behaviour *)
(* of this module is a behaviour of one of them, and the fields of the     *)
(* other one keep their initial values.  They have the same interface and  *)
(* fields of the same names, kept in shared variables.  The protocol uses  *)
(* the parallel encoder.                                                   *)
(***************************************************************************)
EXTENDS DeriveMultiplyShuffler, FiniteSets

CONSTANTS Workers,          \* goroutines of the pool
          BatchSize         \* 512 in the code

ASSUME PoolAssumption ==
    /\ BatchSize \in Nat \ {0}
    /\ IsFiniteSet(Workers) /\ Workers # {}

VARIABLES kind,                      \* which encoder this is a behaviour of
          batch, wg, points, wpc, wb \* parallel encoder only

onlySeq == <<sent, b>>
onlyPar == <<batch, wg, points, wpc, wb>>
encoderVars == <<kind, vars, onlyPar>>

Par == INSTANCE DeriveMultiplyParallelShuffler WITH b <- batch

InitEncoder == kind \in {"sequential", "parallel"} /\ Init /\ Par!Init

\* A step of one leaves the other's own fields alone.
SeqStep(A) == kind = "sequential" /\ A /\ UNCHANGED <<kind, onlyPar>>
ParStep(A) == kind = "parallel" /\ A /\ UNCHANGED <<kind, onlySeq>>

----------------------------------------------------------------------------
\* FollowsPermutation, NilMeansAllSent and ImplementsShuffledWriter speak of the
\* shared fields alone, and are asked of both encoders.

\* The parallel encoder's wait group counts exactly the batches that are not
\* all in the array, and its write loop starts only when no worker still stores
\* into the array and no entry is missing.
WaitedForAll == kind = "parallel" => Par!WaitedForAll
=============================================================================
