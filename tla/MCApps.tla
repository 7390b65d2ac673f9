------------------------------- MODULE MCApps -------------------------------
(* Small input files for Apps: x and yy are lines.                            *)
EXTENDS Apps

x == <<"x", NL>>
yy == <<"y", "y", NL>>
blank == <<NL>>
openEnd == <<"y", "y">>

\* For handlers side by side: the file has two lines or is replaced by one with
\* one of them; both senders have both lines, or one has one of them.
First == CHOOSE c \in Senders : TRUE
FewFiles == {x \o yy, yy}
SideBySide ==
    {[file |-> r, sf |-> [c \in Senders |-> IF c \in both THEN x \o yy ELSE yy],
      start |-> Senders] : r \in FewFiles, both \in {{First}, Senders}}

\* For one connection: a blank line between two others, in the middle of which
\* reading fails, or at the end of the file; no line at all; an unterminated end.
ManyFiles == {x \o blank \o yy, x, <<>>, x \o openEnd}
ManySenderFiles == {yy \o x, x \o yy \o blank, blank \o openEnd}
Alone == {[file |-> r, sf |-> [c \in Senders |-> s], start |-> {First}] :
             r \in ManyFiles, s \in ManySenderFiles}

MCInputs == SideBySide \cup Alone
MCReplaces == (FewFiles \X FewFiles) \cup (ManyFiles \X ManyFiles)
MCCutAt == (ManyFiles \cup ManySenderFiles) \X (0..5)
=============================================================================
