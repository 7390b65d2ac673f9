-------------------------------- MODULE BPSI --------------------------------
(***************************************************************************)
(* pkg/bpsi/bpsi.go, sender.go and receiver.go: the bloom filter PSI       *)
(* exchange.  The sender adds its identifiers to a filter and writes it to *)
(* the connection; the receiver reads it and reports every identifier the  *)
(* filter does not rule out.  The filter library is external: a filter is  *)
(* a set of bits, an identifier sets the bits its hashes name.             *)
(***************************************************************************)
EXTENDS Integers, Sequences, FiniteSets

CONSTANTS Ids,        \* the identifiers
          Inputs,     \* what the parties are given, as in KKRTPSI
          BitsOf,     \* families of hash functions: Ids -> sets of bits
          Cap,        \* parts of the filter the connection buffers
          CanCancel, CanDrop

VARIABLES sIds, rIds, bits,     \* the inputs; the hash functions
          spc, sTaken, bf,      \* sender: control, identifiers added, filter
          sOut,                 \* sender: parts of the filter written
          rpc, rGot, rbf,       \* receiver: control, parts read, the filter
          rTaken,               \* receiver: identifiers checked
          intersection,         \* receiver: the result
          s2r, down             \* the connection

input    == <<sIds, rIds, bits>>
sender   == <<spc, sTaken, bf, sOut>>
receiver == <<rpc, rGot, rbf, rTaken, intersection>>
vars     == <<input, sender, receiver, s2r, down>>

\* WriteTo writes the two sizes and then the bits: three parts.
Parts == 3

InitState ==
    /\ sTaken = 0 /\ bf = {} /\ sOut = 0
    /\ rGot = 0 /\ rbf = {} /\ rTaken = 0 /\ intersection = <<>>
    /\ s2r = <<>> /\ down = FALSE

Init ==
    /\ \E in \in Inputs : sIds = in.sIds /\ rIds = in.rIds
    /\ bits \in BitsOf
    /\ spc = "add" /\ rpc = "read"
    /\ InitState

SenderReturned == spc \in {"nil", "error"}
ReceiverReturned == rpc \in {"nil", "error"}

----------------------------------------------------------------------------
\* Add and Check of bitsAndBloom.
Added(f, x) == f \cup bits[x]

Check(f, x) == bits[x] \subseteq f

\* Sender, stage1: every identifier goes into the filter.
Add ==
    /\ spc = "add" /\ sTaken < Len(sIds)
    /\ bf' = Added(bf, sIds[sTaken + 1])
    /\ sTaken' = sTaken + 1
    /\ UNCHANGED <<input, spc, sOut, receiver, s2r, down>>

AddDone ==
    /\ spc = "add" /\ sTaken = Len(sIds)
    /\ spc' = "write"
    /\ UNCHANGED <<input, sTaken, bf, sOut, receiver, s2r, down>>

\* Sender, stage2: WriteTo.
WritePart ==
    /\ spc = "write" /\ ~down /\ Len(s2r) < Cap
    /\ s2r' = Append(s2r, bf)
    /\ sOut' = sOut + 1
    /\ spc' = IF sOut + 1 = Parts THEN "nil" ELSE "write"
    /\ UNCHANGED <<input, sTaken, bf, receiver, down>>

WriteFails ==
    /\ spc = "write"
    /\ down \/ ReceiverReturned
    /\ spc' = "error"
    /\ UNCHANGED <<input, sTaken, bf, sOut, receiver, s2r, down>>

Sender == Add \/ AddDone \/ WritePart \/ WriteFails

----------------------------------------------------------------------------
\* Receiver, stage1: ReadFrom.
ReadPart ==
    /\ rpc = "read" /\ ~down /\ s2r # <<>>
    /\ rGot' = rGot + 1 /\ rbf' = Head(s2r)
    /\ s2r' = Tail(s2r)
    /\ rpc' = IF rGot + 1 = Parts THEN "check" ELSE "read"
    /\ UNCHANGED <<input, sender, rTaken, intersection, down>>

\* A stream that ends early is an error.  The mutant goes on with what it has.
ReadFails_Ignored ==
    /\ rpc = "read"
    /\ down \/ (SenderReturned /\ s2r = <<>>)
    /\ rpc' = "check"
    /\ UNCHANGED <<input, sender, rGot, rbf, rTaken, intersection, s2r, down>>

ReadFails ==
    /\ rpc = "read"
    /\ down \/ (SenderReturned /\ s2r = <<>>)
    /\ rpc' = "error"
    /\ UNCHANGED <<input, sender, rGot, rbf, rTaken, intersection, s2r, down>>

\* Receiver, stage2: one identifier against the filter.
CheckOne ==
    /\ rpc = "check" /\ rTaken < Len(rIds)
    /\ rTaken' = rTaken + 1
    /\ intersection' = IF Check(rbf, rIds[rTaken + 1])
                       THEN Append(intersection, rIds[rTaken + 1])
                       ELSE intersection
    /\ UNCHANGED <<input, sender, rpc, rGot, rbf, s2r, down>>

CheckDone ==
    /\ rpc = "check" /\ rTaken = Len(rIds)
    /\ rpc' = "nil"
    /\ UNCHANGED <<input, sender, rGot, rbf, rTaken, intersection, s2r, down>>

Receiver == ReadPart \/ ReadFails \/ CheckOne \/ CheckDone

Cancel ==
    /\ CanCancel
    /\ \/ ~SenderReturned /\ spc' = "error" /\ UNCHANGED rpc
       \/ ~ReceiverReturned /\ rpc' = "error" /\ UNCHANGED spc
    /\ UNCHANGED <<input, sTaken, bf, sOut, rGot, rbf, rTaken, intersection, s2r,
                   down>>

Drop ==
    /\ CanDrop /\ ~down
    /\ down' = TRUE
    /\ UNCHANGED <<input, sender, receiver, s2r>>

Next == Sender \/ Receiver \/ Cancel \/ Drop

Spec == Init /\ [][Next]_vars /\ WF_vars(Sender) /\ WF_vars(Receiver)

----------------------------------------------------------------------------
ToSet(s) == {s[k] : k \in DOMAIN s}

\* "We can know for certain an element is not in the bloomfilter": a result
\* returned without an error misses no common identifier, also when the
\* connection broke or the sender was cancelled.
NoMissedMatch ==
    rpc = "nil" => ToSet(sIds) \cap ToSet(rIds) \subseteq ToSet(intersection)
=============================================================================
