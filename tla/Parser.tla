------------------------------- MODULE Parser -------------------------------
(***************************************************************************)
(* The command-line parser of src/shell/myshell_parser.c, as pure          *)
(* operators.  A line is a sequence of one-character strings; a token is   *)
(* the sequence of characters the lexer copied for it.                     *)
(*                                                                         *)
(* pipeline_build reads fields of malloc'd structures it never set.  What *)
(* such a read yields is the argument g: zero when the chunk is fresh heap *)
(* (every allocation of the first line), or a stale non-zero word when it *)
(* is a chunk the previous line's pipeline_free returned.  The 16-byte    *)
(* chunks (struct token, struct pipeline) come back from glibc's tcache    *)
(* with their second word cleared, so a token's next and is_background    *)
(* read zero either way.                                                   *)
(***************************************************************************)
EXTENDS Naturals, Sequences, FiniteSets

CONSTANT TestLines   \* the lines the parser is checked on

Blanks == {" ", "\t", "\n"}
Specials == {"|", ">", "<", "&"}

\* Pointers as character sequences: NULL has none, and an uninitialised
\* field holds a value no line's characters spell.
NULL == << >>
Unset == <<"Unset">>
\* What pipeline_build returns, or that it dereferences NULL.
NullPipeline == [res |-> "null", cmds |-> << >>, bg |-> FALSE]
Crash == [res |-> "crash", cmds |-> << >>, bg |-> FALSE]

(***************************************************************************)
(* lex_pipeline                                                            *)
(***************************************************************************)
\* word_start after a separator at index i.
NextStartOffByOne(i) == i
NextStart(i) == i + 1

\* The word_end - word_start characters strncpy copies from command_line -
\* word_end + word_start, command_line pointing at index i.
Copied(s, i, ws, we) == LET p == i - we + ws IN SubSeq(s, p + 1, p + we - ws)

\* The for loop from index i (0-based) with word_start, word_end,
\* state_prev and the tokens so far; then the flush after the loop.
RECURSIVE LexFrom(_, _, _, _, _, _)
LexFrom(s, i, ws, we, sp, toks) ==
    LET flushed == IF sp = 2 THEN Append(toks, Copied(s, i, ws, we)) ELSE toks
    IN  IF i = Len(s) THEN flushed
        ELSE CASE s[i + 1] \in Blanks ->
                    LexFrom(s, i + 1, NextStart(i), we, 0, flushed)
               [] s[i + 1] \in Specials ->
                    LexFrom(s, i + 1, NextStart(i), we, 1, Append(flushed, <<s[i + 1]>>))
               [] OTHER ->
                    LexFrom(s, i + 1, ws, i + 1, 2, toks)

lex_pipeline(s) == LexFrom(s, 0, 0, 0, 0, << >>)

(***************************************************************************)
(* pipeline_build                                                          *)
(***************************************************************************)
MaxArgv == 8   \* command_args[] slots kept; lines of the model have fewer words

\* A command just malloc'd: nothing in it is set.
FreshCommand ==
    [argv |-> [j \in 0 .. MaxArgv |-> Unset], rin |-> Unset, rout |-> Unset, next |-> Unset]

\* A field compared with NULL: an unset one is NULL only in fresh memory.
IsNull(v, g) == IF v = Unset THEN ~g ELSE v = NULL

\* arg_num once a '|' starts the next command.
ArgNumAfterPipeKept(n) == n
ArgNumAfterPipe(n) == 0

SetLast(cmds, c) == [cmds EXCEPT ![Len(cmds)] = c]

\* The while loop over the tokens with state, arg_num and is_background,
\* then the command_args[arg_num + 1] = NULL after it.
RECURSIVE BuildFrom(_, _, _, _, _, _)
BuildFrom(toks, g, cmds, state, n, bg) ==
    LET cur == cmds[Len(cmds)]
    IN  IF toks = << >>
        THEN [res |-> "ok", cmds |-> SetLast(cmds, [cur EXCEPT !.argv[n + 1] = NULL]), bg |-> bg]
        ELSE LET t == Head(toks)
                 rest == Tail(toks)
             IN  CASE t[1] = "|" ->
                        IF state # 0 THEN NullPipeline
                        ELSE BuildFrom(rest, g,
                               Append(SetLast(cmds, [cur EXCEPT !.argv[n + 1] = NULL,
                                                                !.next = <<"next">>]),
                                      FreshCommand),
                               3, ArgNumAfterPipe(n), bg)
                   [] t[1] = ">" ->
                        IF state # 0 THEN NullPipeline ELSE BuildFrom(rest, g, cmds, 1, n, bg)
                   [] t[1] = "<" ->
                        IF state # 0 THEN NullPipeline ELSE BuildFrom(rest, g, cmds, 2, n, bg)
                   [] t[1] = "&" ->
                        IF bg THEN NullPipeline ELSE BuildFrom(rest, g, cmds, 0, n, TRUE)
                   [] state \in {0, 3} ->
                        BuildFrom(rest, g, SetLast(cmds, [cur EXCEPT !.argv[n] = t]), 0, n + 1, bg)
                   [] state = 1 ->
                        IF IsNull(cur.rout, g)
                        THEN BuildFrom(rest, g, SetLast(cmds, [cur EXCEPT !.rout = t]), 0, n, bg)
                        ELSE NullPipeline
                   [] OTHER ->
                        IF IsNull(cur.rin, g)
                        THEN BuildFrom(rest, g, SetLast(cmds, [cur EXCEPT !.rin = t]), 0, n, bg)
                        ELSE NullPipeline

\* A line with no token leaves head NULL, and line 70 dereferences it.
pipeline_build(s, g) ==
    LET toks == lex_pipeline(s)
    IN  CASE toks = << >> -> Crash
          [] toks[1][1] \in Specials -> NullPipeline
          [] OTHER -> BuildFrom(toks, g, <<FreshCommand>>, 0, 0, FALSE)

\* The words execvp is given: command_args up to the first NULL.  An
\* unset slot ends them in fresh memory; in stale memory it is a pointer
\* into freed memory, and so are the bytes after an unterminated token.
RECURSIVE ArgsFrom(_, _)
ArgsFrom(argv, j) ==
    IF j > MaxArgv THEN << >>
    ELSE IF argv[j] \in {NULL, Unset} THEN << >>
    ELSE <<argv[j]>> \o ArgsFrom(argv, j + 1)
Args(c) == ArgsFrom(c.argv, 0)

(***************************************************************************)
(* Reference definitions: what a line of this shell means.                 *)
(***************************************************************************)
IsWord(t) == t[1] \notin Specials

\* The longest prefix of s made of word characters.
WordPrefix(s) ==
    LET ends == {n \in 0 .. Len(s) : \A j \in 1 .. n : s[j] \notin Blanks \cup Specials}
    IN  SubSeq(s, 1, CHOOSE n \in ends : \A m \in ends : m <= n)

\* Tokens: maximal runs of word characters, and every special character
\* on its own; blanks only separate.
RECURSIVE RefLex(_)
RefLex(s) ==
    IF s = << >> THEN << >>
    ELSE IF Head(s) \in Blanks THEN RefLex(Tail(s))
    ELSE IF Head(s) \in Specials THEN <<<<Head(s)>>>> \o RefLex(Tail(s))
    ELSE LET w == WordPrefix(s) IN <<w>> \o RefLex(SubSeq(s, Len(w) + 1, Len(s)))

\* The token lists between '|' tokens.
RECURSIVE SplitPipes(_)
SplitPipes(ts) ==
    LET bars == {i \in DOMAIN ts : ts[i] = <<"|">>}
    IN  IF bars = {} THEN <<ts>>
        ELSE LET b == CHOOSE i \in bars : \A j \in bars : i <= j
             IN  <<SubSeq(ts, 1, b - 1)>> \o SplitPipes(SubSeq(ts, b + 1, Len(ts)))

\* A command: its name, then words, '< file' and '> file', each redirection
\* at most once.
IsCommand(seg) ==
    LET ops == {i \in DOMAIN seg : seg[i] \in {<<"<">>, <<">">>}}
    IN  /\ seg # << >>
        /\ IsWord(seg[1])
        /\ \A i \in DOMAIN seg : ~IsWord(seg[i]) => i \in ops
        /\ \A i \in ops : i < Len(seg) /\ IsWord(seg[i + 1])
        /\ \A op \in {"<", ">"} : Cardinality({i \in ops : seg[i] = <<op>>}) <= 1

RefCommand(seg) ==
    LET ops == {i \in DOMAIN seg : seg[i] \in {<<"<">>, <<">">>}}
        targets(op) == {i + 1 : i \in {j \in ops : seg[j] = <<op>>}}
        isArg(i) == i \notin ops /\ i - 1 \notin ops
        target(op) == IF targets(op) = {} THEN NULL
                      ELSE seg[CHOOSE i \in targets(op) : TRUE]
        argPairs == SelectSeq([i \in DOMAIN seg |-> <<i, seg[i]>>], LAMBDA e : isArg(e[1]))
    IN  [args |-> [q \in DOMAIN argPairs |-> argPairs[q][2]],
         rin |-> target("<"), rout |-> target(">")]

\* A pipeline: commands joined by '|', optionally ended by '&'.
RefParse(ts) ==
    LET bg == ts # << >> /\ ts[Len(ts)] = <<"&">>
        body == IF bg THEN SubSeq(ts, 1, Len(ts) - 1) ELSE ts
        segs == SplitPipes(body)
    IN  IF \E i \in DOMAIN segs : ~IsCommand(segs[i]) THEN NullPipeline
        ELSE [res |-> "ok", cmds |-> [i \in DOMAIN segs |-> RefCommand(segs[i])], bg |-> bg]

\* What pipeline_build returned, read as fresh memory reads it.
Parsed(p) ==
    [res |-> p.res,
     cmds |-> [i \in DOMAIN p.cmds |->
                 [args |-> Args(p.cmds[i]),
                  rin |-> IF p.cmds[i].rin = Unset THEN NULL ELSE p.cmds[i].rin,
                  rout |-> IF p.cmds[i].rout = Unset THEN NULL ELSE p.cmds[i].rout]],
     bg |-> p.bg]

(***************************************************************************)
(* The parser against the references, over every line of TestLines.        *)
(***************************************************************************)
LexerAgrees ==
    \A s \in TestLines : lex_pipeline(s) = RefLex(s)

BuilderAgrees ==
    \A s \in TestLines :
        RefParse(RefLex(s)).res = "ok" =>
            Parsed(pipeline_build(s, FALSE)) = RefParse(RefLex(s))

====
