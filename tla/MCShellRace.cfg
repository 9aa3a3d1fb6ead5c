\* One foreground command: the SIGCHLD handler may reap it between fork and
\* the shell's waitpid, which then leaves status uninitialised.
CONSTANTS
    Lines <- RaceLines
    Prog <- Programs
    TestLines <- RaceLines
    MaxLines = 2
    MaxChildren = 2
    MaxPipes = 1
    PipeCap = 1
    Shell = Shell
SPECIFICATION Spec
INVARIANT ShellFailsOnlyOnFailure
CHECK_DEADLOCK FALSE
