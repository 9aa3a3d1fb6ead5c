# TLA+ models of BennettTaylor/OperatingSystems

This directory holds TLA+ specifications of the parts of the repository that
have interesting concurrent or stateful behaviour, the TLC configurations that
check them, and `PROJECT.json`, which records each run, the source lines each
definition models, the mutants that show each property can fail, the findings
and the hazards.

## The system

| Part | Source | State | Operations | Interactions |
|---|---|---|---|---|
| Copy-on-write thread-local storage | `src/cow/tls.c` | `thread_storage[]` (one `struct TLS` per thread), `struct page` with `ref_count`, page mappings and their protection | `tls_init`, `tls_create`, `tls_destroy`, `tls_read`, `tls_write`, `tls_clone`, the SIGSEGV handler `tls_page_fault` | Pages are shared between areas after a clone. A write copies a shared page. A raw access to a TLS page traps, and the handler ends the thread. |
| User-level threads | `src/multithreading/threads.c`, `threads.h` | a ring of TCBs (status, links, ID, stack, `jmp_buf`, return value), `current_thread`, `num_running_threads`, `num_thread_total` | `scheduler_init`, `schedule` (the SIGALRM handler), `pthread_create`, `pthread_exit`, `pthread_join`, `pthread_self` | SIGALRM preempts the running thread between any two statements, except inside `lock()`/`unlock()` sections. |
| Mutex and barrier | `src/multithreading/threads.c` | `struct mutex_info`, `struct barrier_info` | `pthread_mutex_init/lock/unlock/destroy`, `pthread_barrier_init/wait/destroy` | These are built on the scheduler. A mutex waiter yields with `schedule(0)`. |
| Thread tests | `test_busy_threads.c`, `test_barrier_reininitialize.c` | none | client programs | They call the thread library. |
| File system | `src/fs/fs.c`, `disk.h` | superblock, bitmap, inode table, directory, descriptors on a virtual disk | `make_fs`, `mount_fs`, `umount_fs`, `fs_open/close/create/delete/read/write/get_filesize/listfiles/lseek/truncate` | This is single-threaded, and its state persists across mount and unmount. |
| Shell | `src/shell/myshell.c`, `myshell_parser.c` | the shell's loop position and `execute_pipeline`'s locals, children, pipes, the pending SIGCHLD | read and parse a line; `execute_pipeline` forks one child per command, and each child sets up its descriptors and calls `execvp`; `waitpid` in the foreground; `sigchld_handler` | The children run concurrently with the shell and with each other, and they talk through pipes. The SIGCHLD handler runs on the shell's thread between any two of its steps, and it reaps children concurrently with the foreground `waitpid`. |

### The hard behaviours

- **TLS.**
  - Unsigned wrap-around in the bounds check and in the page count.
  - Reference counting across clone, write and destroy in any order.
  - The protection of a page shared between areas after one of them copies it.
- **Threads.**
  - A timer tick may come between any two statements of `pthread_create`, `pthread_exit` and `pthread_join`, because none of them masks SIGALRM.
  - `schedule` gives up after `MAX_THREADS + 1` TCBs. Exited TCBs are never unlinked from the ring.
  - `setjmp` and `longjmp` do not save the signal mask, and `SA_NODEFER` is set. So every thread resumes with SIGALRM unblocked.
- **Mutex and barrier.**
  - `pthread_mutex_lock` retests and sets the lock unmasked after it yields.
  - The barrier resets its count on every call after the first, and it never blocks.
- **File system.**
  - Bitmap arithmetic in `fs_truncate` (the wrong byte and bit).
  - Loops over `blocks[]` whose bound is off by one, or missing, so that they run into the next inode.
  - A write that grows the size before the disk turns out to be full.
  - Persistence through `umount`/`mount` when the directory and inode 0 share a block.
- **Shell.**
  - The handler's `waitpid(-1)` racing the foreground `waitpid(pid)` for the same child, with an unchecked result and an uninitialised `status`.
  - SIGCHLDs from children that exit together are delivered once.
  - End of file on a pipe depends on every copy of its write end being closed, in the shell and in each child it forked.
  - A foreground pipeline runs one command at a time through a bounded pipe.

## Modules

| Module | Models | Notes |
|---|---|---|
| `TLSAbstract` | what the TLS library promises | Each thread has a private byte array. A clone copies the donor's array. A write changes only the writer's array. |
| `TLS` | `tls.c` | See the details below. |
| `MCTLS` | TLS for TLC | Three threads and four frames as model values, under symmetry. `Abs` instantiates `TLSAbstract` with the refinement mapping `AbsData`. |
| `UserThreads` | the scheduler and TCB ring of `threads.c` | See the details below. |
| `MCUserThreads` | client programs | These are the busy test (`Count`, `BusyMain`) and a server-style main. The server main creates and joins threads one at a time (`SerialMain`), and it is used by the bail-out run. Two more mains misuse the library: one creates past `MAX_THREADS`, and one joins twice. `ExitMain` ends main with `pthread_exit`, so the process ends through `exit(0)` in the last exiting thread. |
| `UserSync` | `threads.c`'s mutex and barrier | It extends `UserThreads`. A masked primitive is one step. The retest and the set of `pthread_mutex_lock` after its yield are separate unmasked steps (`LockRetest`, `LockSet`). `x` is a shared counter that clients increment in two steps (`Load`, `Store`). `blog` is a ghost log of which barrier waits returned `PTHREAD_BARRIER_SERIAL_THREAD`. |
| `MCUserSync` | client programs | Workers that pass the barrier and increment `x` under the mutex. `test_barrier_reininitialize.c` with two threads (`ReinitThread`, `ReinitMain`). `AllProgs` puts these mains into one model, together with the busy test, the double join, the main that ends with `pthread_exit` (all from `MCUserThreads`), and `OverLimitMain`, which creates three threads with `MAX_THREADS = 3` and returns without joining. `Init` picks which main runs. |
| `FS` | `fs.c` over `disk.h` | See the details below. |
| `MCFS` | FS for TLC | File names `n1`, `n2` as model values, and the small sets of sizes, offsets and lengths the calls take. |
| `Parser` | `myshell_parser.c` | Pure RECURSIVE operators for `lex_pipeline` and `pipeline_build`, with reference definitions of what a line means. See the details below. |
| `Shell` | `myshell.c` | It extends `Parser`. See the details below. |
| `MCShell` | Shell for TLC | The text lines a user may type, what the programs `l` (ls) and `c` (cat) do, and the lines of up to 6 characters the parser is checked on. |

### TLS

- The variables are:
  - `thread_storage`, `ref_count`, `mapped`, `prot` and `mem` (the bytes of each page);
  - `alive` (threads not killed by the fault handler);
  - `readBuf`;
  - the ghost `oob`, which says that `pages[]` was indexed out of range.
- There is one action per API call: `TlsInit`, `TlsCreate`, `TlsDestroy`, `TlsRead`, `TlsWrite` and `TlsClone`. `RawAccess` models the fault handler.
- Unsigned ints wrap modulo `2^UIntWidth`.

### UserThreads

- `cpu` is the continuation executing on the processor. `ctx[n]` is TCB `n`'s `jmp_buf`.
- `current_thread` is the library's cursor. It can differ from `cpu.owner`, and the bail-out run shows how.
- Every statement group of `pthread_create`, `pthread_exit` and `pthread_join` that a tick can split is its own action. The pieces are `CreateLink`, `CreateFill`, `CreateReady`, `ExitMark`, `ExitRetval`, `ExitSchedule`, `ExitProcess`, `JoinFind`, `JoinWait` and `JoinDone`.
- `Tick` runs `Schedule` at any point where SIGALRM is unblocked.
- A freshly `malloc`'d TCB has status `"UNINIT"`, and its links are `Garbage`. When the code reads one, the model records a crash (`crashed = "uninit_tcb"`). Every value the garbage could hold leads to a fault or to a jump to an invalid context.
- When a thread is resumed, `ctx[t]` is reset to `NoNode`. The stale buffer is not read again before it is next written.

### FS

- The in-memory globals are variables:
  - `is_mounted`;
  - `usage_bitmap`, the set of blocks whose bit is set;
  - `directory`, `inode_table` and `file_descriptors`.
- So are the images the last `umount_fs` or `make_fs` wrote: `disk_bitmap`, `disk_directory` and `disk_inodes`.
- `crashed` records how the process died.
  - `huge_read`: `fs_read` from a pointer past the end.
  - `bad_fd`: `fs_truncate` on a closed descriptor, which it does not return on.
  - `oob_write`: the `fs_truncate` loop walking past `inode_table`.
- The bytes of files are not modelled. The model keeps which blocks each file holds, its size and every file pointer, which is what the allocation, truncation and reference counting work on.
- There is one action per call: `MakeFs`, `MountFs`, `UmountFs`, `FsOpen`, `FsClose`, `FsCreate`, `FsDelete`, `FsRead`, `FsWrite`, `FsLseek` and `FsTruncate`. Each early return of the code is a disjunct of its action. `fs_get_filesize` and `fs_listfiles` only read state and are not actions.
- The inode table is also a flat array of ints (`Addr`, `Word`, `SetWord`), because the code indexes past `blocks[]`:
  - `Fill` is `fs_write`'s allocation loop. It runs to slot `(fp + nbyte) / BLOCK_SIZE`, which is one past the last block when a write ends on a block boundary.
  - `Cut` is `fs_truncate`'s freeing loop. It stops only at a `-1` word.
- `directory_size` is `20 * 64 / 4096 = 0` in the real build, so the directory and inode 0 share block 1. `umount_fs` writes inode 0 over the directory. `DirectoryOnDisk` and `Overlay` give what `mount_fs` then reads: each entry inside the first `sizeof(struct inode)` bytes gets a garbled name and a `blocks[]` word as its `inode_index`.
- `Init` is the state right after `make_fs`. The descriptor table is still zero-initialised (inode 0, pointer 0) until the first `mount_fs`.

### Parser

- A line is a sequence of one-character strings, and a token is the sequence of characters the lexer copied for it. Pointers are sequences too: `NULL` is the empty one, and `Unset` stands for a field `malloc` left uninitialised.
- `LexFrom` is the `for` loop of `lex_pipeline`, one call per character. It keeps `word_start`, `word_end` and `state_prev` as the code does, and it copies a word from `command_line - word_end + word_start` (`Copied`), so an error in that arithmetic shows up as a wrong token.
- `BuildFrom` is the `while` loop of `pipeline_build`: the states 0 to 3, each `return NULL`, `arg_num`, and `command_args[arg_num + 1] = NULL` at each `|` and at the end. `command_args` is a function over its slots, so a slot the code never sets stays `Unset`.
- Reads of fields nobody set take the argument `g`:
  - On the first line every chunk is fresh heap, and such a read gives zero (`g = FALSE`).
  - On later lines a chunk may be one the previous line's `pipeline_free` returned, and the read gives a stale non-zero word (`g = TRUE`).
  - The 16-byte `struct token` and `struct pipeline` come back from glibc's tcache with their second word cleared. So a token's `next` and `is_background` read zero either way.
- An empty line leaves the token list empty, and `pipeline_build` dereferences `NULL` (`Crash`). A line it rejects gives `NullPipeline`.
- `RefLex` and `RefParse` are the reference definitions. A token is a maximal run of word characters, or one special character. A pipeline is commands joined by `|`, optionally ended by `&`. A command is its name, then words, `< file` and `> file`, each redirection at most once.

### Shell

- `ReadLine` parses the typed text with `pipeline_build`.
  - On a `NULL` pipeline, or a line with no token, the shell crashes (`pc = "crashed"`).
  - `ToCommand` turns a parsed command into what its child does. `execvp` finds the program that the first word names in `Prog`. In stale memory the words are unterminated and `command_args[n]` is garbage, so the command fails. An unset redirect path is opened if it reads non-NULL.
  - `ToPipeline` adds a failing command for the last command's unset `next` when that reads non-NULL. It also records that `pipeline_free` will free garbage pointers, so `Advance` ends a stale line in a crash.
- The shell's variables are:
  - `pc`, its place in `main` and `execute_pipeline`. `"waitpid"` is the window after `fork` in which the shell runs in user mode before it calls `waitpid`. `"blocked"` is the call asleep.
  - `execute_pipeline`'s locals `k` (for `current_command`), `is_first_command`, `fd`, `pid` and `status`.
  - `pending`, the SIGCHLD the kernel holds for the shell, and `hpc`, which is `"loop"` while `sigchld_handler` runs.
- `status` is never initialised. Each new frame of `execute_pipeline` holds whatever the calls before it left there (`pipeline_build` runs just before), so `ReadLine` chooses it from `{0, 1}`, where 1 stands for any non-zero value.
- `child[c]` is child `c`: its command, its copies of `fd` and `is_first_command`, its stdin and stdout, and whether it is forked, running, a zombie or reaped. `held[x]` is the set of pipe ends that process `x` has open through descriptors other than 0 and 1. A child inherits the shell's set at `fork`.
- `Holders(e)` is the set of live processes with a descriptor on pipe end `e`. A read of an empty pipe returns end of file only when no process holds its write end.
- The actions are:
  - `ReadLine` and `EndOfInput` (`fgets` and `main`'s loop);
  - `Fork` (the loop's `fork`, and for a background line the rest of the loop body);
  - `Waitpid` (`waitpid(pid, &status, 0)`, the `status` test, `close(fd[1])` and the step to the next command);
  - `HandlerEnter`, `HandlerReap` and `HandlerExit` (one `waitpid(-1, 0, WNOHANG)` per step);
  - per child: `Setup` (lines 38 to 84 and `execvp`), `OpenFails`, and then `Read`, `Write` and `Finish` for the program it runs.
- `HandlerEnter` cannot interrupt a blocked `waitpid` whose child is already a zombie: the kernel's wait scans for zombies before it checks for signals.

## Runs

| Run | Config | Expect | Checks |
|---|---|---|---|
| `tls_safety` | `MCTLS.cfg` | pass | `TypeOK`, `RefCountSound` (each page's `ref_count` is the number of areas that hold it), `NoLeakedPages` (a page is mapped iff some area holds it), `NoOutOfBounds` (an in-range access stays inside `pages[]`), and `AbstractSpec` (TLS implements TLSAbstract). |
| `tls_isolation` | `MCTLSIsolation.cfg` | violation | `Isolation` (spec §8 property 1). After a copy-on-write, the page the writer copied from stays `PROT_READ`. Another thread's raw load then succeeds. |
| `tls_wrap` | `MCTLSWrap.cfg` | violation | `NoOutOfBounds`. `offset + length` wraps and passes the bounds check. |
| `threads_join_value` | `MCUserThreadsJoinValue.cfg` | violation | `JoinReturnsExitValue`. A tick between `status = TS_EXITED` and `retval = value_ptr` lets `pthread_join` return an uninitialised value. |
| `threads_create_window` | `MCUserThreadsCreateWindow.cfg` | violation | `NoUninitialisedTcbReached`. A tick after `pthread_create` links its new TCB, but before it sets the TCB's fields. |
| `threads_scan_bailout` | `MCUserThreadsBailout.cfg` | violation | `CurrentIsExecuting`. After four serial create/join pairs with `MAX_THREADS = 2`, `schedule` returns with `current_thread` on a TCB that is not running. Main then waits on itself. |
| `sync_progress` | `MCUserSync.cfg` | pass | The synchronising main, the busy test, the barrier reinitialisation test, a main that creates past `MAX_THREADS`, a double join, and a main that ends with `pthread_exit`. It checks `SyncTypeOK` (among other things, the running count never passes `MAX_THREADS` and the barrier count stays within its limit), `ExitOnlyWhenNoThreadLeft`, and `ProcessTerminates`: no waiter on the mutex spins forever, and no joiner waits forever. In the reinitialisation test a thread can wait on the barrier between another thread's destroy and its init. That is a NULL dereference, which ends the process. `ProcessTerminates` counts such a fault, and the abort of the double join, as the process ending. So it does not catch either. |
| `sync_mutex` | `MCUserSyncMutualExclusion.cfg` | violation | `MutualExclusion`. Two threads hold the mutex through the unmasked retest and set. |
| `fs_session` | `MCFS.cfg` | pass | `TypeOK` and `BlocksOwnedOnce` (every block a file holds is marked used and held by no other slot). These are checked over every sequence of calls, including a full disk, truncation, remounts and the crash paths. |
| `fs_wrong_bit` | `MCFSWrongBit.cfg` | violation | `BlocksOwnedOnce`. `fs_truncate` clears the bit of block `8 * s` for file block `s`. Three write/truncate cycles leak blocks 2 to 6. Then truncating a file to its first block clears the bit of block 8, which the file still holds. |
| `shell_session` | `MCShell.cfg` | pass | `TypeOK`, `LexMatchesReference` (on every line of up to 6 characters, `lex_pipeline` gives the reference tokens), `BuildMatchesReference` (on every such well-formed line in fresh memory, `pipeline_build` gives the reference pipeline, read as `execvp` reads the arguments), `ZombiesReaped` (every child that exits is reaped while the shell lives, by the foreground `waitpid` or by the handler's loop) and `ReaderSeesEof` (a later command reading a pipe meets end of file once the command before it has exited). Two typed lines from foreground and background, two- and three-stage, redirected, not-found, empty and rejected pipelines, each parsed in fresh or, on the second line, stale memory. |
| `shell_reap_race` | `MCShellRace.cfg` | violation | `ShellFailsOnlyOnFailure`. A command exits before the shell reaches `waitpid`. The handler reaps it, `waitpid` fails with ECHILD, and line 90 tests the uninitialised `status`: the shell exits although the command succeeded. |

### Mutants

Every property of a passing run has a mutant in `PROJECT.json`: a plausible bug in the modelled code that the property catches.

| Mutant | Property it breaks |
|---|---|
| The clone's page array sized wrongly (`CloneOfPagesFromSize`) | `TypeOK` |
| The clone does not increment `ref_count` (`ShareNoIncrement`) | `RefCountSound` |
| Destroy releases at `ref_count` 2 (`LastRefsOffByOne`) | `NoLeakedPages` |
| The page count is rounded down (`NumPagesRoundDown`) | `NoOutOfBounds` |
| Write never copies (`NeedsCopyNever`) | `AbstractSpec` |
| `schedule` marks an exited thread READY (`YieldedMarksExited`) | `ExitOnlyWhenNoThreadLeft` |
| The ID is taken after the increment (`NewTidAfterIncrement`) | `ProcessTerminates`: the join never finds it |
| Off-by-one on `MAX_THREADS` (`HasRoomOffByOne`) | `SyncTypeOK` |
| The barrier never resets (`RenewedNever`) | `SyncTypeOK` |
| Unlock does not clear the lock (`UnlockNoClear`) | `ProcessTerminates` |
| The free-block search runs one block past the disk (`FreeBlockPastEnd`) | FS `TypeOK` |
| `fs_write` does not set the bit of the block it takes (`FillNoMark`) | `BlocksOwnedOnce` |
| A child pipes its stdout without checking for a next command (`PipesOutNoNextCheck`) | Shell `TypeOK`: a lone command writes to the never-set `fd[1]` |
| `sigchld_handler` reaps once instead of looping (`WhileReapingNoLoop`) | `ZombiesReaped` |
| The shell does not `close(fd[1])` (`CloseWriteNever`) | `ReaderSeesEof` |
| `word_start = i` instead of `i + 1` after a separator (`NextStartOffByOne`) | `LexMatchesReference` |
| `arg_num` is not reset after a `\|` (`ArgNumAfterPipeKept`) | `BuildMatchesReference` |

### Bounds

**TLS**

- Three threads, `MAX_THREADS = 2` registry slots, 2-byte pages and 3-byte areas. So an area has two pages, one of them half used.
- The accesses are:
  - a 2-byte access across the page boundary;
  - the last byte;
  - one byte past the end.
- These bounds produce clone chains in which a page is shared by two areas and copied by one. They also reach a full registry, a refused size of 0, and destroy of a clone.
- `UIntWidth = 3` gives 8-valued unsigned ints, so the wrap-around is reachable with the sizes and accesses of `MCWrapSizes` and `MCWrapAccesses`.

**Threads**

- `MaxNodes` bounds the TCBs that are ever allocated: 4 in `sync_progress` (main and three threads, for the main that creates past the limit), 5 for the serial main of the bail-out run.
- `MAX_THREADS = 3` in `sync_progress`, so the third create of `OverLimitMain` is refused. `MAX_THREADS = 2` in the bail-out run. This is the smallest value at which exited TCBs outnumber the scan bound.

**Sync**

- Two workers, each locking twice. A third acquirer is needed to reach the window between the retest and the set.

**File system**

- `fs_session` has:
  - `BLOCK_SIZE = 2` and `MAX_FILE_SIZE = 4`, so a file has two blocks;
  - one inode, two descriptors, and `DISK_BLOCKS = 5`, so three data blocks and a full disk is reachable.
- The calls take:
  - write sizes 1 and 3 (3 crosses a block boundary, and from offset 2 it is cut at `MAX_FILE_SIZE`);
  - read size 1;
  - offsets 0 and 2;
  - truncate lengths 0, 1 and 3.
- Together these fire every disjunct of every action, the three crashes included. They also reach the extra block allocated when a write ends on a block boundary, and the block of a truncated file's kept bytes being freed.
- The names include `""` for `fs_open` and `fs_delete`: an unused entry matches it.
- These bounds keep two `fs_truncate` bugs out of `fs_session`'s reach:
  - The loop walking into the next inode needs a second inode. With one inode it leaves the table, and the model crashes (`oob_write`). With `MAX_FILES = 2` and `DISK_BLOCKS = 7`, TLC finds `DescriptorNamesLiveFile` violated in 9 steps. That property says that while the file system is mounted, every open descriptor's inode is named by a directory entry. In the trace, the walk sets the next inode's `ref_count` to -1, and `fs_delete` then removes that file while it is open. So no passing run checks `DescriptorNamesLiveFile`: with one inode it would hold only because the walk cannot reach another inode. All run slots are in use, so it has no violation run either. The hazard at `fs.c:653` in `PROJECT.json` gives the configuration.
  - The wrong bitmap bit needs a block numbered 8. That is `fs_wrong_bit`, with three-block files on a ten-block disk.

**Shell**

- `shell_session`: two typed lines from `l|c` and `c<f | c >f` in the foreground, `l|c|c&`, a command that is not found, an empty line and a rejected one (`&l`). Up to four children and three pipes, and `PipeCap = 1`.
  - The parser properties range over every line of up to 6 characters over `a`, `b`, a blank and the four special characters: 137,257 lines. They include every token boundary, every state of the build machine, two or three commands, both redirections and `&`. Longer lines repeat these cases.
  - The second line is parsed in fresh and in stale memory.
  - `ls` writes two units, more than the pipe holds. So the background pipeline blocks its writer until `cat` reads, and the foreground one hangs (see Not modelled).
  - The three-stage line has its middle child make a pipe of its own, and two children read the first pipe.
  - Two lines let a background pipeline's children exit while the shell waits for input or for a foreground child, which is where the handler's loop and the race matter.
  - Every disjunct of every action fires, the failed `open` of a redirect and the ECHILD return of `waitpid` included.
- `shell_reap_race`: one `ls` per line, two lines. The race needs only one child.

## Fairness

- `WF(Tick)`: `ualarm` fires periodically, so a tick eventually comes while SIGALRM is unblocked.
- `SF(StepOf(n))` for each thread: a thread that is resumed infinitely often gets a full quantum infinitely often, so it makes progress.
  - Weak fairness on the processor would not be enough: it admits a behaviour in which a tick always preempts a thread immediately after it is resumed.
- No fairness is assumed for TLS. Its properties are safety properties.
- Shell: weak fairness on the shell's own steps (`Fork`, `Waitpid`), on the handler's steps, and on each child's steps. The kernel schedules every runnable process, and it delivers a pending signal when the shell runs or sleeps interruptibly. There is none on `ReadLine` or `EndOfInput`: the user may stop typing. `ZombiesReaped` and `ReaderSeesEof` are stated as `[]<>` of the state that must end. A zombie stays a zombie until it is reaped, and a reader waits for end of file until it gets it, so this is the same as the leads-to.

`CHECK_DEADLOCK FALSE` appears only where the model can stop:

- **Thread models.** They stop when the process ends: by `exit`, by a fault, or in a join that spins forever.
- **File system.** It stops only when the process dies (`crashed`). No fairness is assumed: a caller may stop calling at any time, and the properties are safety properties.
- **TLS.** It stops once every thread has been terminated by the fault handler.
- **Shell.** It stops at end of input or when the shell exits on a failed command. It also stops when a foreground pipeline hangs on a full pipe (see Not modelled).

## Not modelled (yet)

- **TLS under kernel threads.** `tls.c` takes no lock. Two `tls_create` calls could pick the same slot, and `tls_clone` could race `tls_write` on `ref_count`. The plan is a model that splits the loops into one step per iteration.
- **Ticks inside `schedule` under `SA_NODEFER`.** `schedule` is one step. The plan is to split it at `setjmp`.
- **`pthread_mutex_destroy` and `pthread_self`.** The destroy is not called by any client. `pthread_self` only reads state.
- **Register mangling in `threads.h`.** `set_reg` mangles exactly as `longjmp` demangles, so the model stores the continuation itself.
- **File contents.** The bytes of files are not modelled, so what `fs_read` returns (for example after a write failed on a full disk) is not checked. `fs_get_filesize` and `fs_listfiles` only read state. The name-length check of `fs_create` is not modelled: every name of the model is short.
- **Checks on the file system that no run holds.** These are modelled, and the traces are reachable in `fs_session`, but no run states them as a property:
  - the loss of the directory at every remount (line 69);
  - the stale `ref_count` after a remount with open files (line 159);
  - `fs_lseek` refusing `offset == file_size` (line 607);
  - the huge read after a truncate (line 417).
  They are listed as hazards in `PROJECT.json`. The neighbour-inode walk of `fs_truncate` (line 653) is described under Bounds.
- **Byte lengths in the parser.** Each word is copied into an 8-byte `malloc` (line 112), so a word of 8 or more characters overflows the heap. The model does not track buffer sizes, and its words are short. `MAX_ARGV_LENGTH` is in `myshell_parser.h`, which is not in the repository, so `command_args` gets 9 slots.
- **Stale memory, piece by piece.** A stale parse reads every unset field as non-zero, and a fresh one reads them all as zero. Mixtures of the two are not enumerated.
- **Shell behaviours that no run states.** These are modelled and reachable in `shell_session`:
  - the hang of a foreground pipeline whose first command fills the pipe (line 89);
  - the middle command of three making a pipe that nobody reads (line 72);
  - the read end of every pipe leaked in the shell (line 24);
  - the crash on an empty line or a line `pipeline_build` rejects (`myshell_parser.c:70`, `myshell.c:14`);
  - the crash on a second line whose stale memory makes a redirect look set, or which `pipeline_free` frees (`myshell_parser.c:119`, `143`).
- **What commands do with data.** A command is abstracted to reading its stdin to end of file and writing a number of units. Which unit goes where is not tracked, nor SIGPIPE: the shell never closes a read end, so no pipe loses its last reader. A failing `fork` or `pipe` is not modelled.
