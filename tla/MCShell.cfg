\* A session of two command lines: foreground, background, three-stage and
\* redirected pipelines, with the SIGCHLD handler racing the shell.
CONSTANTS
    Lines <- SessionLines
    Prog <- Programs
    TestLines <- ParseTexts
    MaxLines = 2
    MaxChildren = 4
    MaxPipes = 3
    PipeCap = 1
    Shell = Shell
SPECIFICATION Spec
INVARIANT TypeOK LexMatchesReference BuildMatchesReference
PROPERTY ZombiesReaped ReaderSeesEof
\* The shell stops at end of input or on a failed command, and a foreground
\* pipeline whose first command fills the pipe hangs (see README).
CHECK_DEADLOCK FALSE
