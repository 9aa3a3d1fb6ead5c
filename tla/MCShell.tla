------------------------------- MODULE MCShell -------------------------------
(* Command lines for model checking Shell.  ls (l) writes two units, more  *)
(* than a pipe holds; cat (c) reads to end of file and writes a unit; x is *)
(* no program; f is a file.                                                *)
EXTENDS Shell, TLC

LOCAL SE == INSTANCE SequencesExt

Programs == (<<"l">> :> [rd |-> FALSE, out |-> 2]) @@ (<<"c">> :> [rd |-> TRUE, out |-> 1])

\* l | c, in the foreground
FgPipe == <<"l", "|", "c", "\n">>
\* l|c|c&
BgPipe3 == <<"l", "|", "c", "|", "c", "&", "\n">>
\* a command that is not found
FgMissing == <<"x", "\n">>
\* c<f | c >f
FgRedirect == <<"c", "<", "f", " ", "|", " ", "c", " ", ">", "f", "\n">>
\* an empty line, and one pipeline_build rejects
Empty == <<"\n">>
Rejected == <<"&", "l", "\n">>
\* l
FgOne == <<"l", "\n">>

SessionLines == {FgPipe, BgPipe3, FgMissing, FgRedirect, Empty, Rejected}
RaceLines == {FgOne}

\* Every line of up to ParseLen characters over a small alphabet: two word
\* characters, a blank and the four special ones.
ParseLen == 6
ParseTexts == SE!BoundedSeq({"a", "b", " ", "|", "<", ">", "&"}, ParseLen)

=============================================================================
