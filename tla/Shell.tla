-------------------------------- MODULE Shell --------------------------------
(***************************************************************************)
(* The pipeline executor of src/shell/myshell.c: the shell process (main's *)
(* read loop and execute_pipeline), its SIGCHLD handler, the children it   *)
(* forks, and the pipes between them.                                      *)
(*                                                                         *)
(* A line is text, parsed by the operators of Parser; a command is what   *)
(* its program does with its descriptors: whether it                      *)
(* reads stdin to end of file, how many units it writes to stdout, and     *)
(* whether execvp finds it.  A pipe is a buffer of PipeCap units; a pipe   *)
(* end stays open while some live process has a descriptor on it, which   *)
(* is what decides end of file.  The handler runs on the shell's thread,   *)
(* between any two of its steps, one waitpid(-1, WNOHANG) per step.        *)
(***************************************************************************)
EXTENDS Naturals, Sequences, FiniteSets, Parser

CONSTANTS
    Lines,        \* the text lines the user may type
    Prog,         \* Prog[w]: what the program named w does ([rd, out])
    MaxLines,     \* bound on the lines typed
    MaxChildren,  \* bound on the children forked (pids 1..MaxChildren)
    MaxPipes,     \* bound on the pipes created
    PipeCap,      \* units a pipe buffers before write blocks
    Shell         \* the shell process

Pids == 1 .. MaxChildren
PipeIds == 1 .. MaxPipes
Ends == PipeIds \X {"r", "w"}
Tty == <<0, "tty">>    \* the terminal the shell was started on
File == <<0, "file">>  \* a redirect's file
Endpoints == Ends \cup {Tty, File}
Command == [rd : BOOLEAN, out : Nat, ok : BOOLEAN, rin : BOOLEAN, rout : BOOLEAN]

ASSUME Shell \notin Pids

VARIABLES
    pc,                \* where the shell is in main / execute_pipeline
    line,              \* the pipeline being executed
    k,                 \* index of current_command in line.cmds
    is_first_command,
    fd,                \* the pipe fd[] names in the shell
    pid,               \* the child last forked
    status,            \* the int status of execute_pipeline's loop
    nlines,            \* lines read so far
    hpc,               \* "none", or "loop" while sigchld_handler runs
    pending,           \* a SIGCHLD is pending for the shell
    child,             \* child[c]: the forked process c
    held,              \* held[x]: pipe ends x holds through fds other than 0/1
    buf,               \* buf[p]: units in pipe p
    npipes, nforked

vars == <<pc, line, k, is_first_command, fd, pid, status, nlines, hpc, pending,
          child, held, buf, npipes, nforked>>

NoChild == [state |-> "none", cmd |-> [rd |-> FALSE, out |-> 0, ok |-> TRUE,
            rin |-> FALSE, rout |-> FALSE], stage |-> 0, next |-> FALSE,
            first |-> TRUE, fd |-> 0, stdin |-> Tty, stdout |-> Tty,
            reading |-> FALSE, left |-> 0, status |-> 0]

TypeOK ==
    /\ pc \in {"read", "fork", "waitpid", "blocked", "done", "failed", "crashed"}
    /\ k \in Nat /\ is_first_command \in BOOLEAN /\ fd \in {0} \cup PipeIds
    /\ pid \in {0} \cup Pids /\ status \in {0, 1} /\ nlines \in 0 .. MaxLines
    /\ hpc \in {"none", "loop"} /\ pending \in BOOLEAN
    /\ \A c \in Pids :
          /\ child[c].state \in {"none", "forked", "running", "zombie", "reaped"}
          /\ child[c].stdin \in Endpoints /\ child[c].stdout \in Endpoints
          /\ child[c].left \in Nat /\ child[c].status \in {0, 1}
    /\ held \in [Pids \cup {Shell} -> SUBSET Ends]
    /\ buf \in [PipeIds -> 0 .. PipeCap]
    /\ npipes \in 0 .. MaxPipes /\ nforked \in 0 .. MaxChildren

Init ==
    /\ pc = "read" /\ line = [cmds |-> << >>, bg |-> FALSE, stale |-> FALSE]
    /\ k = 1 /\ is_first_command = TRUE /\ fd = 0 /\ pid = 0 /\ status = 0
    /\ nlines = 0 /\ hpc = "none" /\ pending = FALSE
    /\ child = [c \in Pids |-> NoChild]
    /\ held = [x \in Pids \cup {Shell} |-> {}]
    /\ buf = [p \in PipeIds |-> 0]
    /\ npipes = 0 /\ nforked = 0

ShellLive == pc \notin {"done", "failed", "crashed"}
Live(c) == child[c].state \in {"forked", "running"}
Zombies == {c \in Pids : child[c].state = "zombie"}

(* The processes with a descriptor open on pipe end e. *)
Holders(e) ==
    {c \in Pids : Live(c) /\ (e \in held[c] \/ child[c].stdin = e \/ child[c].stdout = e)}
    \cup (IF ShellLive /\ e \in held[Shell] THEN {Shell} ELSE {})

(***************************************************************************)
(* The shell.                                                              *)
(***************************************************************************)
(* Memory pipeline_build mallocs is fresh heap on the first line; later  *)
(* lines may get the chunks the previous line's pipeline_free returned.   *)
Reused == IF nlines = 0 THEN {FALSE} ELSE BOOLEAN

(* A parsed command as the child runs it.  execvp finds the program its   *)
(* first word names; in stale memory the words strncpy left unterminated  *)
(* and the unset command_args[n] are garbage, and execvp fails.  A        *)
(* redirect path the parser never set is opened if it reads non-NULL.    *)
ToCommand(c, g) ==
    LET args == Args(c)
        ok == ~g /\ args # << >> /\ args[1] \in DOMAIN Prog
    IN  [rd |-> ok /\ Prog[args[1]].rd, out |-> IF ok THEN Prog[args[1]].out ELSE 0,
         ok |-> ok, rin |-> ~IsNull(c.rin, g), rout |-> ~IsNull(c.rout, g)]

(* The pipeline execute_pipeline walks: the last command's next was never *)
(* set, and in stale memory it points at a command that fails.  With     *)
(* stale fields pipeline_free frees garbage pointers after the line.     *)
ToPipeline(p, g) ==
    LET cs == [i \in DOMAIN p.cmds |-> ToCommand(p.cmds[i], g)]
        garbageCmd == [rd |-> FALSE, out |-> 0, ok |-> FALSE, rin |-> FALSE, rout |-> FALSE]
    IN  [cmds |-> IF IsNull(p.cmds[Len(p.cmds)].next, g) THEN cs ELSE Append(cs, garbageCmd),
         bg |-> p.bg, stale |-> g]

(* fgets returns a line and pipeline_build parses it.  A NULL pipeline,   *)
(* or a line with no token, makes the shell dereference NULL.  Otherwise *)
(* execute_pipeline makes the first pipe when there is more than one      *)
(* command.  The uninitialised status of the new frame holds whatever the *)
(* calls before left there.                                               *)
ReadLine ==
    /\ pc = "read" /\ hpc = "none" /\ nlines < MaxLines
    /\ \E text \in Lines, g \in Reused, garbage \in {0, 1} :
          LET p == pipeline_build(text, g)
              l == ToPipeline(p, g)
          IN  IF p.res # "ok"
              THEN /\ pc' = "crashed"
                   /\ UNCHANGED <<line, k, is_first_command, status, npipes, fd, held>>
              ELSE /\ line' = l /\ status' = garbage
                   /\ IF Len(l.cmds) > 1
                      THEN /\ npipes < MaxPipes
                           /\ npipes' = npipes + 1 /\ fd' = npipes + 1
                           /\ held' = [held EXCEPT ![Shell] = @ \cup {<<npipes + 1, "r">>, <<npipes + 1, "w">>}]
                      ELSE UNCHANGED <<npipes, fd, held>>
                   /\ k' = 1 /\ is_first_command' = TRUE /\ pc' = "fork"
    /\ nlines' = nlines + 1
    /\ UNCHANGED <<pid, hpc, pending, child, buf, nforked>>

(* fgets returns NULL at end of input: main prints a newline and returns. *)
EndOfInput ==
    /\ pc = "read" /\ hpc = "none" /\ pc' = "done"
    /\ UNCHANGED <<line, k, is_first_command, fd, pid, status, nlines, hpc,
                   pending, child, held, buf, npipes, nforked>>

(* close(fd[1]) after a command that has a next one (line 97). *)
CloseWriteNever(h, p, hasNext) == h
CloseWrite(h, p, hasNext) == IF hasNext THEN h \ {<<p, "w">>} ELSE h

(* The end of the loop body: the next command, or back to the prompt      *)
(* after pipeline_free, which frees garbage pointers of a stale parse.    *)
Advance ==
    /\ is_first_command' = FALSE
    /\ k' = k + 1
    /\ pc' = CASE k < Len(line.cmds) -> "fork"
                [] line.stale -> "crashed"
                [] OTHER -> "read"

(* fork(): the child gets a copy of the shell's descriptors and of fd and *)
(* is_first_command.  A background pipeline goes straight on.             *)
Fork ==
    LET c == nforked + 1
        hasNext == k < Len(line.cmds)
        new == [NoChild EXCEPT !.state = "forked", !.cmd = line.cmds[k],
                               !.stage = k, !.next = hasNext,
                               !.first = is_first_command, !.fd = fd]
    IN  /\ pc = "fork" /\ hpc = "none" /\ nforked < MaxChildren
        /\ nforked' = c /\ pid' = c
        /\ child' = [child EXCEPT ![c] = new]
        /\ IF line.bg
           THEN /\ held' = [held EXCEPT ![c] = held[Shell],
                                        ![Shell] = CloseWrite(@, fd, hasNext)]
                /\ Advance
           ELSE /\ held' = [held EXCEPT ![c] = held[Shell]]
                /\ pc' = "waitpid" /\ UNCHANGED <<k, is_first_command>>
        /\ UNCHANGED <<line, fd, status, nlines, hpc, pending, buf, npipes>>

(* After waitpid: exit(EXIT_FAILURE) on a non-zero status, else go on.     *)
AfterWait(st) ==
    /\ status' = st
    /\ IF st # 0
       THEN pc' = "failed" /\ UNCHANGED <<k, is_first_command, held>>
       ELSE /\ held' = [held EXCEPT ![Shell] = CloseWrite(@, fd, k < Len(line.cmds))]
            /\ Advance

(* waitpid(pid, &status, 0): reaps the child if it is a zombie, blocks   *)
(* while it runs, and fails with ECHILD, leaving status as it was, if the  *)
(* handler has reaped it already.  A blocked call returns when the child   *)
(* exits, and is restarted after the handler (SA_RESTART).                 *)
Waitpid ==
    /\ pc \in {"waitpid", "blocked"} /\ hpc = "none"
    /\ \/ /\ child[pid].state = "zombie"
          /\ child' = [child EXCEPT ![pid].state = "reaped"]
          /\ AfterWait(child[pid].status)
       \/ /\ child[pid].state = "reaped"
          /\ AfterWait(status) /\ UNCHANGED child
       \/ /\ pc = "waitpid" /\ Live(pid)
          /\ pc' = "blocked"
          /\ UNCHANGED <<child, k, is_first_command, held, status>>
    /\ UNCHANGED <<line, fd, pid, nlines, hpc, pending, buf, npipes, nforked>>

(***************************************************************************)
(* sigchld_handler: while (waitpid(-1, 0, WNOHANG) > 0) {}                  *)
(***************************************************************************)
(* The signal is taken in user mode, or interrupts a blocking call; a     *)
(* waitpid blocked on a child that is already a zombie returns first.     *)
HandlerEnter ==
    /\ pending /\ hpc = "none" /\ ShellLive
    /\ ~(pc = "blocked" /\ child[pid].state = "zombie")
    /\ pending' = FALSE /\ hpc' = "loop"
    /\ UNCHANGED <<pc, line, k, is_first_command, fd, pid, status, nlines,
                   child, held, buf, npipes, nforked>>

\* What the handler does after a waitpid that reaped a child.
WhileReapingNoLoop == "none"
WhileReaping == "loop"

HandlerReap ==
    /\ hpc = "loop"
    /\ \E c \in Zombies :
          /\ child' = [child EXCEPT ![c].state = "reaped"]
          /\ hpc' = WhileReaping
    /\ UNCHANGED <<pc, line, k, is_first_command, fd, pid, status, nlines,
                   pending, held, buf, npipes, nforked>>

HandlerExit ==
    /\ hpc = "loop" /\ Zombies = {} /\ hpc' = "none"
    /\ UNCHANGED <<pc, line, k, is_first_command, fd, pid, status, nlines,
                   pending, child, held, buf, npipes, nforked>>

(***************************************************************************)
(* A child, from fork to exit.                                             *)
(***************************************************************************)
(* exit(): the process releases its descriptors and the shell gets SIGCHLD. *)
Exit(c, st) ==
    /\ child' = [child EXCEPT ![c].state = "zombie", ![c].status = st]
    /\ pending' = TRUE

(* open() of a redirect path fails: pipeline_free, exit(EXIT_FAILURE).      *)
OpenFails(c) ==
    /\ child[c].state = "forked"
    /\ child[c].cmd.rin \/ child[c].cmd.rout
    /\ Exit(c, 1)
    /\ UNCHANGED <<pc, line, k, is_first_command, fd, pid, status, nlines, hpc,
                   held, buf, npipes, nforked>>

(* The child sends its stdout to fd[1]: it has a next command and no     *)
(* output redirect (lines 70 and 74).                                       *)
PipesOutNoNextCheck(ch) == ~ch.cmd.rout
PipesOut(ch) == ch.next /\ ~ch.cmd.rout

(* The child's descriptor set-up, then execvp.  A redirect sets stdin or   *)
(* stdout; a later command takes stdin from its copy of fd[0] whatever     *)
(* its redirect (redirect_in is never set); a command with a next one      *)
(* makes a new pipe unless it is the first, and writes to fd[1] unless it  *)
(* redirects its output.  The descriptors it does not close stay open in  *)
(* the program.  execvp fails for a command it cannot find: exit(1).      *)
Setup(c) ==
    LET ch == child[c]
        in0 == IF ch.cmd.rin THEN File ELSE Tty
        out0 == IF ch.cmd.rout THEN File ELSE Tty
        h1 == IF ch.first THEN held[c] ELSE held[c] \ {<<ch.fd, "r">>}
        newPipe == ch.next /\ ~ch.first
        q == IF newPipe THEN npipes + 1 ELSE ch.fd
        h2 == IF newPipe THEN h1 \cup {<<q, "r">>, <<q, "w">>} ELSE h1
        toPipe == PipesOut(ch)
        set == [ch EXCEPT !.fd = q,
                          !.stdin = IF ch.first THEN in0 ELSE <<ch.fd, "r">>,
                          !.stdout = IF toPipe THEN <<q, "w">> ELSE out0]
    IN  /\ ch.state = "forked"
        /\ newPipe => npipes < MaxPipes
        /\ npipes' = IF newPipe THEN npipes + 1 ELSE npipes
        /\ held' = [held EXCEPT ![c] = IF toPipe THEN h2 \ {<<q, "w">>} ELSE h2]
        /\ IF ch.cmd.ok
           THEN /\ child' = [child EXCEPT ![c] = [set EXCEPT !.state = "running",
                                 !.reading = ch.cmd.rd, !.left = ch.cmd.out]]
                /\ UNCHANGED pending
           ELSE /\ child' = [child EXCEPT ![c] = [set EXCEPT !.state = "zombie",
                                                             !.status = 1]]
                /\ pending' = TRUE
        /\ UNCHANGED <<pc, line, k, is_first_command, fd, pid, status, nlines,
                       hpc, buf, nforked>>

(* The program reads a unit of stdin, or meets end of file: a pipe with   *)
(* nothing buffered and no write end open anywhere.  A file or the        *)
(* terminal is taken as empty.                                             *)
Read(c) ==
    LET in == child[c].stdin
    IN  /\ child[c].state = "running" /\ child[c].reading
        /\ IF in \in Ends
           THEN \/ /\ buf[in[1]] > 0
                   /\ buf' = [buf EXCEPT ![in[1]] = @ - 1]
                   /\ UNCHANGED child
                \/ /\ buf[in[1]] = 0 /\ Holders(<<in[1], "w">>) = {}
                   /\ child' = [child EXCEPT ![c].reading = FALSE]
                   /\ UNCHANGED buf
           ELSE /\ child' = [child EXCEPT ![c].reading = FALSE]
                /\ UNCHANGED buf
        /\ UNCHANGED <<pc, line, k, is_first_command, fd, pid, status, nlines,
                       hpc, pending, held, npipes, nforked>>

(* The program writes a unit; a write to a full pipe blocks.  (No pipe    *)
(* ever loses its last reader: the shell never closes fd[0].)             *)
Write(c) ==
    LET out == child[c].stdout
    IN  /\ child[c].state = "running" /\ child[c].left > 0
        /\ IF out \in Ends
           THEN /\ buf[out[1]] < PipeCap
                /\ buf' = [buf EXCEPT ![out[1]] = @ + 1]
           ELSE UNCHANGED buf
        /\ child' = [child EXCEPT ![c].left = @ - 1]
        /\ UNCHANGED <<pc, line, k, is_first_command, fd, pid, status, nlines,
                       hpc, pending, held, npipes, nforked>>

(* The program is done with its input and output and exits with 0. *)
Finish(c) ==
    /\ child[c].state = "running" /\ ~child[c].reading /\ child[c].left = 0
    /\ Exit(c, 0)
    /\ UNCHANGED <<pc, line, k, is_first_command, fd, pid, status, nlines, hpc,
                   held, buf, npipes, nforked>>

ShellStep == ReadLine \/ EndOfInput \/ Fork \/ Waitpid
HandlerStep == HandlerEnter \/ HandlerReap \/ HandlerExit
ChildStep(c) == OpenFails(c) \/ Setup(c) \/ Read(c) \/ Write(c) \/ Finish(c)

Next == ShellStep \/ HandlerStep \/ \E c \in Pids : ChildStep(c)

(* The user may stop typing; the shell, its handler and every child are   *)
(* scheduled by the kernel, which delivers a pending signal when the      *)
(* shell runs or sleeps interruptibly.                                     *)
Spec ==
    /\ Init /\ [][Next]_vars
    /\ WF_vars(Fork \/ Waitpid)
    /\ WF_vars(HandlerStep)
    /\ \A c \in Pids : WF_vars(ChildStep(c))

(***************************************************************************)
(* Properties.                                                             *)
(***************************************************************************)
(* Every child that exits is reaped while the shell lives: by the          *)
(* foreground waitpid, or by the handler, whose loop must take every      *)
(* zombie since SIGCHLDs that arrive together are delivered once.          *)
(* A zombie stays one until reaped, so this is zombie ~> reaped.           *)
ZombiesReaped ==
    \A c \in Pids : []<>(child[c].state # "zombie" \/ ~ShellLive)

(* A later command of a pipeline reading its stdin meets end of file once *)
(* the command before it has exited: neither the shell (close(fd[1])) nor *)
(* any child keeps the write end of the pipe it reads open.  The waiting  *)
(* state lasts until the read returns end of file, so this is a leads-to. *)
WaitsForEof(c) ==
    /\ child[c].stage > 1 /\ child[c].state = "running" /\ child[c].reading
    /\ child[c - 1].state \in {"zombie", "reaped"}
ReaderSeesEof ==
    \A c \in Pids : []<>~WaitsForEof(c)

(* Whenever the shell is at the prompt, whatever line it reads next is    *)
(* cut by lex_pipeline into its words and special characters: the         *)
(* word_start/word_end arithmetic and the strncpy from command_line -      *)
(* word_end + word_start copy exactly each maximal run of word characters. *)
LexMatchesReference ==
    pc = "read" => LexerAgrees

(* Whenever the shell is at the prompt, a well-formed line it reads next   *)
(* in fresh memory is built by pipeline_build into the pipeline the line   *)
(* means: its commands, their argument vectors up to the NULL execvp stops *)
(* at, their redirect paths and is_background.  The state machine must     *)
(* reset arg_num and terminate command_args at each '|'.                   *)
BuildMatchesReference ==
    pc = "read" => BuilderAgrees

(* The shell exits with EXIT_FAILURE only when the foreground command it  *)
(* waited for failed: status is what waitpid stored for that child.       *)
ShellFailsOnlyOnFailure ==
    pc = "failed" => child[pid].status # 0

====
