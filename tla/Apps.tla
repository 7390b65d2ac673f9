-------------------------------- MODULE Apps --------------------------------
(***************************************************************************)
(* examples/receiver and examples/sender: the receiver counts the lines of *)
(* its file once, then hands every connection it accepts to a goroutine    *)
(* that reads the file again, intersects and writes the common identifiers *)
(* out; with -once it stops after one.  Any error ends the whole process.  *)
(* A sender counts, dials, sends and exits.  The exchange itself is what   *)
(* package psi promises of it.                                             *)
(***************************************************************************)
EXTENDS Framing

CONSTANTS Senders,       \* sender processes, each a connection
          Inputs,        \* what the files hold, and which senders are started
          Replaces,      \* pairs: a receiver's file and what may replace it
          Protocols,     \* values of -proto
          CutAt,         \* pairs: a file and after how many bytes reading it may fail
          CanFail        \* may other system calls and exchanges fail?

ASSUME AppsAssumption ==
    /\ IsFiniteSet(Senders) /\ "nobody" \notin Senders
    /\ Inputs \subseteq [file : Seq(STRING), sf : [Senders -> Seq(STRING)],
                        start : SUBSET Senders]
    /\ Replaces \subseteq Seq(STRING) \X Seq(STRING)
    /\ CutAt \subseteq Seq(STRING) \X Nat
    /\ CanFail \in BOOLEAN

VARIABLES
    proto, once,         \* flags
    file, changed,       \* the receiver's file, and whether it was replaced
    rpc, n, wg,          \* the receiver's main: next step, lines counted, handlers
    exit,                \* its exit code, -1 while it runs
    hpc, f, got, ids,    \* handlers: next step, open file, what is read of it, channel
    result, lost,        \* what Intersect returned, and from a lost connection
    off, k,              \* offset in the out file; next to write
    out, last, mixed,    \* the out file; who created it last, and while another wrote
    spc, sf, sn,         \* senders: next step, file, lines counted
    sgot, sids           \* what is read of the file, channel

flags == <<proto, once>>
disk == <<file, changed>>
main == <<rpc, n>>
input == <<f, got, ids>>
writing == <<result, lost, off, k>>
outFile == <<out, last, mixed>>
senders == <<spc, sf, sn, sgot, sids>>
vars == <<flags, disk, main, wg, exit, hpc, input, writing, outFile, senders>>

Each(v) == [c \in Senders |-> v]

Init ==
    /\ proto \in Protocols /\ once \in BOOLEAN
    /\ changed = FALSE
    /\ rpc = "count" /\ n = 0 /\ wg = 0 /\ exit = -1
    /\ hpc = Each("none") /\ f = Each(<<>>) /\ got = Each(<<>>) /\ ids = Each(<<>>)
    /\ result = Each(<<>>) /\ lost = Each(FALSE) /\ off = Each(0) /\ k = Each(1)
    /\ out = <<>> /\ last = "nobody" /\ mixed = FALSE
    /\ sn = Each(0) /\ sgot = Each(<<>>) /\ sids = Each(<<>>)
    /\ \E in \in Inputs :
          /\ file = in.file /\ sf = in.sf
          /\ spc = [c \in Senders |-> IF c \in in.start THEN "count" ELSE "gone"]

Running == exit = -1

\* What reading a file yields: all of it, or the bytes before a read error, which
\* Exhaust takes for the end.
Reads(g) == {g} \cup {SubSeq(g, 1, r) : r \in {q \in 0..(Len(g) - 1) : <<g, q>> \in CutAt}}

----------------------------------------------------------------------------
(* The receiver's main.                                                    *)

\* Open the file, count its lines and listen.
CountLines ==
    /\ Running /\ rpc = "count"
    /\ n' = Count(file)
    /\ rpc' = "accept"
    /\ UNCHANGED <<flags, disk, wg, exit, hpc, input, writing, outFile, senders>>

\* Accept, open the file again, make the receiver and start its handler, which
\* the wait group counts; with -once go on to wait for it.  The mutant lets the
\* handler count itself, after the wait.
Accepted(c, counted) ==
    /\ Running /\ rpc = "accept"
    /\ hpc[c] = "none" /\ spc[c] \in {"send", "failed", "done"}
    /\ IF proto = "unsupported"
       THEN exit' = 1 /\ UNCHANGED <<rpc, wg, hpc, input>>
       ELSE /\ f' = [f EXCEPT ![c] = file]
            /\ \E g \in Reads(file) : /\ got' = [got EXCEPT ![c] = g]
                                      /\ ids' = [ids EXCEPT ![c] = Exhaust(n, g)]
            /\ wg' = wg + counted
            /\ hpc' = [hpc EXCEPT ![c] = "intersect"]
            /\ rpc' = IF once THEN "wait" ELSE "accept"
            /\ UNCHANGED exit
    /\ UNCHANGED <<flags, disk, n, writing, outFile, senders>>

Accept_NoAdd(c) == Accepted(c, 0)

Accept(c) == Accepted(c, 1)

\* wg.Wait returns, and main with it.
Wait ==
    /\ Running /\ rpc = "wait" /\ wg = 0
    /\ exit' = 0
    /\ UNCHANGED <<flags, disk, main, wg, hpc, input, writing, outFile, senders>>

\* ExitOnErr: opening, counting, listening or accepting failed in main, or
\* creating the out file or a write to it failed in a handler.
ExitOnErr ==
    /\ CanFail /\ Running
    /\ rpc # "wait" \/ \E c \in Senders : hpc[c] \in {"create", "write"}
    /\ exit' = 1
    /\ UNCHANGED <<flags, disk, main, wg, hpc, input, writing, outFile, senders>>

----------------------------------------------------------------------------
(* A handler.                                                              *)

Members(s) == {s[j] : j \in DOMAIN s}

\* Can Intersect return nil?  DHPSI waits for as many identifiers as both sides
\* announced; of the others only the sender's can be too few: KKRTPSI has none to
\* encode for the rest, and NPSI waits for the end of the connection.  (Whether
\* BPSI's filter holds them all, nobody knows.)
SenderComplete(c) == Len(sids[c]) = sn[c]
ExchangeEnds(c) ==
    CASE proto = "dhpsi" -> Len(ids[c]) = n /\ SenderComplete(c)
      [] proto = "kkrt"  -> SenderComplete(c)
      [] proto = "npsi"  -> SenderComplete(c) \/ spc[c] \in {"done", "failed"}
      [] proto = "bpsi"  -> TRUE

\* Intersect returns what the protocol promises of the identifiers the two
\* channels deliver: the intersection, here in the order of the receiver's file.
\* BPSI may add to it.  NPSI takes a connection that is lost for the end of the
\* hashes, and returns a part of it.
IntersectReturns(c) ==
    LET common == Members(ids[c]) \cap Members(sids[c])
    IN  /\ Running /\ hpc[c] = "intersect"
        /\ hpc' = [hpc EXCEPT ![c] = "create"]
        /\ \E found \in SUBSET Members(ids[c]) :
              /\ \/ /\ ExchangeEnds(c)
                    /\ IF proto = "bpsi" THEN common \subseteq found ELSE found = common
                    /\ UNCHANGED lost
                 \/ /\ proto = "npsi" /\ (spc[c] = "failed" \/ CanFail)
                    /\ found \subseteq common
                    /\ lost' = [lost EXCEPT ![c] = TRUE]
              /\ result' = [result EXCEPT ![c] =
                              Selected(ids[c], {j \in DOMAIN ids[c] : ids[c][j] \in found})]
        /\ UNCHANGED <<flags, disk, main, wg, exit, input, off, k, outFile, senders>>

\* Intersect fails, of itself or because the sender is gone: ExitOnErr.
IntersectFails(c) ==
    /\ Running /\ hpc[c] = "intersect"
    /\ spc[c] = "failed" \/ CanFail
    /\ exit' = 1
    /\ UNCHANGED <<flags, disk, main, wg, hpc, input, writing, outFile, senders>>

\* os.Create truncates the file, whoever else has it open.
Create(c) ==
    /\ Running /\ hpc[c] = "create"
    /\ hpc' = [hpc EXCEPT ![c] = "write"]
    /\ out' = <<>> /\ last' = c
    /\ mixed' = \E d \in Senders : hpc[d] = "write"
    /\ UNCHANGED <<flags, disk, main, wg, exit, input, writing, senders>>

\* A file after s was written at offset o: a gap reads as zero bytes.
Overwritten(file0, o, s) ==
    [j \in 1..(IF o + Len(s) > Len(file0) THEN o + Len(s) ELSE Len(file0)) |->
        IF j > o /\ j <= o + Len(s) THEN s[j - o]
        ELSE IF j <= Len(file0) THEN file0[j] ELSE "0"]

\* One identifier and a newline, at this handler's own offset.
WriteId(c) ==
    /\ Running /\ hpc[c] = "write" /\ k[c] <= Len(result[c])
    /\ LET s == Append(result[c][k[c]], NL)
       IN  /\ out' = Overwritten(out, off[c], s)
           /\ off' = [off EXCEPT ![c] = @ + Len(s)]
    /\ k' = [k EXCEPT ![c] = @ + 1]
    /\ UNCHANGED <<flags, disk, main, wg, exit, hpc, input, result, lost, last, mixed, senders>>

\* The handler returns: files and connection are closed, wg.Done.
Handled(c) ==
    /\ Running /\ hpc[c] = "write" /\ k[c] > Len(result[c])
    /\ hpc' = [hpc EXCEPT ![c] = "done"]
    /\ wg' = wg - 1
    /\ UNCHANGED <<flags, disk, main, exit, input, writing, outFile, senders>>

Handler(c) ==
    IntersectReturns(c) \/ Create(c) \/ WriteId(c) \/ Handled(c)

----------------------------------------------------------------------------
(* A sender.                                                               *)

receiver == <<flags, disk, main, wg, exit, hpc, input, writing, outFile>>

\* Count, rewind and dial; what Exhaust will deliver is settled here.
Dial(c) ==
    /\ spc[c] = "count" /\ Running /\ rpc # "count"
    /\ sn' = [sn EXCEPT ![c] = Count(sf[c])]
    /\ \E g \in Reads(sf[c]) : /\ sgot' = [sgot EXCEPT ![c] = g]
                               /\ sids' = [sids EXCEPT ![c] = Exhaust(Count(sf[c]), g)]
    /\ spc' = [spc EXCEPT ![c] = "send"]
    /\ UNCHANGED <<receiver, sf>>

\* Send returns nil.  A sender of BPSI only writes, and need not have been
\* accepted; the others wait for the handler.
SendReturns(c) ==
    /\ spc[c] = "send"
    /\ proto # "bpsi" => hpc[c] # "none"
    /\ proto \in {"dhpsi", "kkrt"} => ExchangeEnds(c)
    /\ spc' = [spc EXCEPT ![c] = "done"]
    /\ UNCHANGED <<receiver, sf, sn, sgot, sids>>

\* ExitOnErr before there is a connection: nobody listens any more, or opening
\* or counting failed.
DialFails(c) ==
    /\ spc[c] = "count"
    /\ ~Running \/ CanFail
    /\ spc' = [spc EXCEPT ![c] = "gone"]
    /\ UNCHANGED <<receiver, sf, sn, sgot, sids>>

\* ExitOnErr after NewSender or Send; or a sender of KKRTPSI panics on the
\* identifiers it announced and did not get.
Panics(c) == proto = "kkrt" /\ hpc[c] # "none" /\ ~SenderComplete(c)

SenderFails(c) ==
    /\ spc[c] = "send"
    /\ ~Running \/ proto = "unsupported" \/ Panics(c) \/ CanFail
    /\ spc' = [spc EXCEPT ![c] = "failed"]
    /\ UNCHANGED <<receiver, sf, sn, sgot, sids>>

Sender(c) ==
    \/ Dial(c) \/ SendReturns(c)
    \/ DialFails(c) \/ SenderFails(c)

\* Somebody replaces the receiver's file, once.
ReplaceFile ==
    /\ ~changed /\ Running
    /\ changed' = TRUE
    /\ file' \in {pair[2] : pair \in {q \in Replaces : q[1] = file}}
    /\ UNCHANGED <<flags, main, wg, exit, hpc, input, writing, outFile, senders>>

Next ==
    \/ CountLines \/ Wait \/ ExitOnErr \/ ReplaceFile
    \/ \E c \in Senders : Accept(c) \/ Handler(c) \/ IntersectFails(c) \/ Sender(c)

\* The goroutines and processes are scheduled fairly.  A failure is never owed,
\* except that of an exchange whose other side is gone, and a panic.
Spec ==
    /\ Init /\ [][Next]_vars
    /\ WF_vars(CountLines) /\ WF_vars(Wait)
    /\ \A c \in Senders :
          /\ WF_vars(Accept(c))
          /\ WF_vars(Handler(c) \/ (spc[c] = "failed" /\ IntersectFails(c)))
          /\ WF_vars(Dial(c) \/ SendReturns(c) \/ (Panics(c) /\ SenderFails(c)))

----------------------------------------------------------------------------
\* The lines of the out file and those it should hold, in a handler's exchange:
\* BPSI may add to them, and NPSI misses some when it lost the connection.
OutLines == Lines(out, Len(out))

Holds(c, wanted) ==
    /\ ~lost[c] => wanted \subseteq OutLines
    /\ proto # "bpsi" => OutLines \subseteq wanted

\* When the receiver ends with exit code 0, or has handled everybody it accepted,
\* somebody created the out file, and it holds the identifiers that are a line of
\* what the handler read of its file, within the number counted at startup, and of
\* what the sender read of its own: provided each line that was read ends in a
\* newline, as the usage says, and no other handler wrote to the out file at the
\* same time.  (That all of a file is read, nobody can tell.)
Settled ==
    \/ exit = 0
    \/ Running /\ \A c \in Senders : hpc[c] \in {"none", "done"}

OutIsTheIntersection ==
    Settled =>
        /\ last = "nobody" => \A c \in Senders : hpc[c] = "none"
        /\ \A c \in Senders :
              last = c /\ ~mixed /\ Terminated(got[c]) /\ Terminated(sgot[c])
              => Holds(c, Lines(got[c], n) \cap Lines(sgot[c], sn[c]))

\* Every connection that was accepted is handled to the end, or the process ends
\* with an error: Exhaust delivers exactly as many identifiers as Count announced,
\* blank and unterminated lines included, so that no protocol waits for one more.
\* Only DHPSI waits for ever, and only when the receiver's file was replaced since
\* its lines were counted, or reading a file of one side failed.
Short(c) == changed \/ got[c] # f[c] \/ sgot[c] # sf[c]

HandledUnlessShort ==
    \A c \in Senders :
        hpc[c] = "intersect"
            ~> (hpc[c] = "done" \/ exit # -1 \/ (proto = "dhpsi" /\ Short(c)))
=============================================================================
