----------------------------- MODULE KKRTParts -----------------------------
(***************************************************************************)
(* The two parts of KKRTPSI that work on their own: the cuckoo table of    *)
(* the receiver and stage 3 of the sender.  They belong to two processes   *)
(* and have no state in common.  A behaviour of this module is a behaviour *)
(* of one of them, and the other one keeps its initial state.              *)
(***************************************************************************)
EXTENDS Cuckoo, EncodePipeline

VARIABLE part  \* which one this is a behaviour of

partsVars == <<part, table, vars>>

InitParts ==
    \/ part = "table" /\ NewCuckoo /\ Init /\ n = 0
    \/ part = "pipeline" /\ Init /\ NewCuckoo /\ hash = CHOOSE f \in Hashes : TRUE

TableStep(A) == part = "table" /\ A /\ UNCHANGED <<part, vars>>
PipelineStep(A) == part = "pipeline" /\ A /\ UNCHANGED <<part, table>>

NextParts == TableStep(Insert) \/ PipelineStep(Next)

\* The fairness of the pipeline's own specification; nobody has to insert.
SpecParts ==
    /\ InitParts /\ [][NextParts]_partsVars
    /\ \A e \in Encoders : WF_partsVars(PipelineStep(Encoder(e)))
    /\ WF_partsVars(PipelineStep(Writer)) /\ WF_partsVars(PipelineStep(Wait))

----------------------------------------------------------------------------
\* Stage 3 returns, and leaves no encoder behind.  (Of a behaviour of the table
\* there is nothing to ask: Insert is called as often as its caller likes.)
PipelineReturns == part = "pipeline" => StageReturns
EncodersReturn == part = "pipeline" => EncodersStop
=============================================================================
