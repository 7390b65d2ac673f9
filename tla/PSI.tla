-------------------------------- MODULE PSI --------------------------------
(***************************************************************************)
(* pkg/psi/psi.go: NewSender and NewReceiver choose the protocol, and Send *)
(* and Intersect are those of KKRTPSI, NPSI or BPSI, over one connection   *)
(* (DHPSI, which the factory offers too, has a run of its own).  The       *)
(* protocols share the names of what they have in common; the fields only  *)
(* another protocol has keep their initial values.                         *)
(***************************************************************************)
EXTENDS KKRTPSI

CONSTANTS BufSize,  \* messages a bufio.Writer of NPSI holds
          Protocols, \* those the factory is asked for
          BitsOf    \* families of hash functions of BPSI: Ids -> sets of bits

ASSUME PSIAssumption ==
    /\ BufSize \in Nat \ {0}
    /\ Protocols \subseteq {"kkrtpsi", "npsi", "bpsi", "unsupported"}

VARIABLES protocol,                                          \* what the factory made
          sLeft, sBuf, rN, rLeft, remoteDone, remoteIDs, localIDs,  \* NPSI
          toMatch, intersected, result, sCtx, rCtx,
          bits, bf, sOut, rGot, rbf, rTaken                  \* BPSI

onlyK == <<rSize, seeds, sOt, remoteN, rows, pre, left, rOt, table, oprfOutput, rMax>>
onlyN == <<sLeft, sBuf, rN, rLeft, remoteDone, remoteIDs, localIDs, toMatch,
           intersected, result, sCtx, rCtx>>
onlyB == <<bits, bf, sOut, rGot, rbf, rTaken>>
allVars == <<protocol, vars, onlyN, onlyB>>

N == INSTANCE NPSI
B == INSTANCE BPSI

\* What only one protocol has, when the factory made another.
NoKKRT == InitState /\ rSize = Len(rIds) /\ seeds = CHOOSE f \in Hashes : TRUE
NoBPSI == B!InitState /\ bits = CHOOSE f \in BitsOf : TRUE

\* The factory: with no protocol to make, both callers get an error.
NewPSI ==
    /\ protocol \in Protocols
    /\ \/ protocol = "kkrtpsi" /\ Init /\ N!InitState /\ NoBPSI
       \/ protocol = "npsi" /\ N!Init /\ NoKKRT /\ NoBPSI
       \/ protocol = "bpsi" /\ B!Init /\ NoKKRT /\ N!InitState /\ sN = Len(sIds)
       \/ /\ protocol = "unsupported" /\ spc = "error" /\ rpc = "error"
          /\ \E in \in Inputs : sIds = in.sIds /\ rIds = in.rIds
          /\ sN = Len(sIds)
          /\ NoKKRT /\ N!InitState /\ NoBPSI

\* A step of one protocol leaves the others' own fields alone.
K1(A) == protocol = "kkrtpsi" /\ A /\ UNCHANGED <<protocol, onlyN, onlyB>>
N1(A) == protocol = "npsi" /\ A /\ UNCHANGED <<protocol, onlyK, sTaken, intersection, onlyB>>
B1(A) == protocol = "bpsi" /\ A /\ UNCHANGED <<protocol, onlyK, onlyN, sN, rRead, r2s>>

NextPSI == K1(Next) \/ N1(N!Next) \/ B1(B!Next)

\* The fairness of each protocol's own specification.
SpecPSI ==
    /\ NewPSI /\ [][NextPSI]_allVars
    /\ WF_allVars(K1(SenderMain) \/ N1(N!Sender) \/ B1(B!Sender))
    /\ WF_allVars(K1(Receiver) \/ N1(N!ReceiverMain) \/ B1(B!Receiver))
    /\ WF_allVars(K1(Precompute) \/ N1(N!IndexRemote \/ N!RemoteDone))
    /\ WF_allVars(N1(N!IndexLocal))
    /\ WF_allVars(N1(N!SenderCloses)) /\ WF_allVars(N1(N!ReceiverCloses))

----------------------------------------------------------------------------
(* Properties: what Intersect and Send promise whatever the protocol.      *)

\* A nil result of Intersect is the whole intersection, each identifier once:
\* of KKRTPSI always, but for the empty identifier, of NPSI when nothing was
\* lost on the way.
NilIsComplete ==
    /\ protocol = "kkrtpsi" => ExactIntersection
    /\ protocol = "npsi" => N!ExactIntersection

\* BPSI may report more, but its nil result misses nothing, also when the
\* connection broke or the sender was cancelled.
FilterMissesNothing == protocol = "bpsi" => B!NoMissedMatch

\* Whatever KKRTPSI and NPSI return, complete or not, is common to both sides,
\* and KKRTPSI, which looks up one encoding at a time, reports it once.
PartIsSound ==
    /\ protocol = "kkrtpsi" => PartialIsSound
    /\ protocol = "npsi" => N!ResultIsSound

\* In KKRTPSI every bucket the sender encodes for has an OPRF key.
KeysForAllBuckets == protocol = "kkrtpsi" => KeysCoverBuckets

\* Both calls return, and the stages that cancelled calls of NPSI leave behind
\* come to rest.
BothReturnPSI == <>(SenderReturned /\ ReceiverReturned)
=============================================================================
