----------------------------- MODULE UserThreads -----------------------------
(***************************************************************************)
(* The preemptive user-level thread library of src/multithreading/        *)
(* threads.c: a circular list of thread control blocks (TCBs), the       *)
(* round-robin schedule() run from SIGALRM every QUANTUM, and             *)
(* pthread_create, pthread_exit and pthread_join.                          *)
(*                                                                         *)
(* One processor runs the continuation `cpu`: the code of some thread at  *)
(* some point of its program.  schedule() saves `cpu` into the jmp_buf of *)
(* the TCB `current_thread` points at and longjmps to another TCB's       *)
(* jmp_buf.  The two normally agree; the model keeps them apart because   *)
(* the code can make them disagree.  Each step of a thread is one         *)
(* statement, or a run of statements whose interleaving with a tick      *)
(* cannot change any outcome; a SIGALRM tick may come between any two     *)
(* steps, since none of this code blocks SIGALRM.                         *)
(*                                                                         *)
(* The client programs are constants: a program is a sequence of          *)
(* instructions, modelled on the test programs next to the library.       *)
(***************************************************************************)
EXTENDS Naturals, Sequences, FiniteSets, Functions, TLC

CONSTANTS
    MaxThreads,   \* MAX_THREADS
    MaxNodes,     \* bound on the TCBs malloc'd in one run
    Progs,        \* program name -> sequence of instructions
    MainProgs,    \* the programs main() may run
    Slots,        \* indices of main's pthread_t array
    NoNode,       \* NULL / no TCB
    Garbage       \* an uninitialised value

ASSUME MaxThreads > 0 /\ MaxNodes > 0 /\ MainProgs \subseteq DOMAIN Progs

Nodes == 0..MaxNodes-1
Statuses == {"EXITED", "RUNNING", "READY", "UNINIT"}  \* UNINIT: fresh malloc

VARIABLES
    status, next, prev, id, retval, stack, ctx,   \* the TCB fields
    allocated,        \* number of TCBs malloc'd so far (nodes 0..allocated-1)
    current_thread,
    num_running_threads,
    num_thread_total,
    is_first_call,    \* the static flag of pthread_create
    alarm,            \* ualarm armed
    cpu,              \* the continuation the processor executes
    exitArg,          \* ghost: the value each TCB's thread passed to pthread_exit
    joined,           \* ghost: <<thread id, value>> pairs pthread_join returned
    done,             \* the process has exited
    crashed           \* "none" or the reason the process faulted

tcbVars == <<status, next, prev, id, retval, stack, ctx, allocated>>
vars == <<tcbVars, current_thread, num_running_threads, num_thread_total,
          is_first_call, alarm, cpu, exitArg, joined, done, crashed>>

(* A continuation: the thread whose stack it runs on, its program, the    *)
(* instruction and the step inside the library call, and its locals.      *)
Cont(owner, prog) ==
    [owner |-> owner, prog |-> prog, pc |-> 1, step |-> "go",
     tids |-> [s \in Slots |-> Garbage], node |-> NoNode, tmp |-> 0]
Instr == Progs[cpu.prog][cpu.pc]
Advance(c) == [c EXCEPT !.pc = @ + 1, !.step = "go"]
At(c, st) == [c EXCEPT !.step = st]

Running == ~done /\ crashed = "none"

TypeOK ==
    /\ status \in [Nodes -> Statuses]
    /\ next \in [Nodes -> Nodes \cup {Garbage}]
    /\ prev \in [Nodes -> Nodes \cup {Garbage}]
    /\ allocated \in 0..MaxNodes
    /\ current_thread \in Nodes \cup {NoNode}
    /\ num_running_threads \in 0..MaxThreads /\ num_thread_total \in Nat
    /\ \A n \in Nodes : ctx[n] = NoNode \/ ctx[n].owner \in Nodes
    /\ cpu.owner \in Nodes /\ cpu.prog \in DOMAIN Progs
    /\ stack \in [Nodes -> {"none", "alloc", "freed"}]
    /\ crashed \in {"none", "uninit_tcb", "double_free", "null_barrier"}

Init ==
    /\ status = [n \in Nodes |-> "UNINIT"]
    /\ next = [n \in Nodes |-> Garbage]
    /\ prev = [n \in Nodes |-> Garbage]
    /\ id = [n \in Nodes |-> Garbage]
    /\ retval = [n \in Nodes |-> Garbage]
    /\ stack = [n \in Nodes |-> "none"]
    /\ ctx = [n \in Nodes |-> NoNode]
    /\ allocated = 0
    /\ current_thread = NoNode
    /\ num_running_threads = 0 /\ num_thread_total = 0
    /\ is_first_call = TRUE /\ alarm = FALSE
    /\ cpu \in {Cont(0, p) : p \in MainProgs}  \* main() runs on what becomes TCB 0
    /\ exitArg = [n \in Nodes |-> NoNode]
    /\ joined = {}
    /\ done = FALSE /\ crashed = "none"

(***************************************************************************)
(* schedule(): the j-th TCB after `c` along next.                          *)
(***************************************************************************)
RECURSIVE Walk(_, _)
Walk(c, j) ==
    IF j = 0 THEN c
    ELSE LET p == Walk(c, j - 1) IN IF p = Garbage THEN Garbage ELSE next[p]

(* The loop of schedule() tests the TCBs at distance 1..ScanBound; it     *)
(* gives up once i > MAX_THREADS, i.e. after MAX_THREADS+1 of them.        *)
ScanBound == MaxThreads + 1

(* The distance at which the loop stops: a READY TCB, or an uninitialised *)
(* one whose fields it reads (whatever garbage they hold, it then         *)
(* dereferences a wild `next` or longjmps to a garbage jmp_buf, so it     *)
(* faults).  0 when the loop runs out of its bound.  n is the TCB at      *)
(* distance j; Garbage when a link was read from such a TCB.              *)
RECURSIVE ScanFrom(_, _, _)
ScanFrom(n, j, st) ==
    IF j > ScanBound THEN 0
    ELSE IF n = Garbage \/ st[n] \in {"READY", "UNINIT"} THEN j
    ELSE ScanFrom(next[n], j + 1, st)

StopAt(c, st) == ScanFrom(next[c], 1, st)

(* The statuses once schedule() has set the caller READY, unless it has   *)
(* just exited.                                                            *)
YieldedMarksExited(c) == [status EXCEPT ![c] = "READY"]
Yielded(c) ==
    IF status[c] # "EXITED" THEN [status EXCEPT ![c] = "READY"] ELSE status

(* schedule(), called with `resume` as the continuation setjmp saves.     *)
Schedule(resume) ==
    LET c  == current_thread
        st == Yielded(c)
        j  == StopAt(c, st)
        t  == Walk(c, j)
        faults == IF j = 0 THEN Walk(c, ScanBound + 1) = Garbage
                  ELSE IF t = Garbage THEN TRUE ELSE st[t] = "UNINIT"
    IN  \/ /\ faults
           /\ crashed' = "uninit_tcb"
           /\ UNCHANGED <<status, ctx, current_thread, cpu>>
        \/ /\ ~faults /\ j # 0                  \* longjmp to t
           /\ status' = [st EXCEPT ![t] = "RUNNING"]
           /\ current_thread' = t
           /\ cpu' = IF t = c THEN resume ELSE ctx[t]
           /\ ctx' = [ctx EXCEPT ![c] = resume, ![t] = NoNode]
           /\ UNCHANGED crashed
        \/ /\ ~faults /\ j = 0                  \* gave up: plain return
           /\ status' = st
           /\ current_thread' = Walk(c, ScanBound + 1)
           /\ ctx' = [ctx EXCEPT ![c] = resume]
           /\ cpu' = resume
           /\ UNCHANGED crashed

(***************************************************************************)
(* A SIGALRM tick: the handler schedule() runs on top of whatever the      *)
(* processor was doing, so that is the continuation it saves.             *)
(***************************************************************************)
Tick ==
    /\ Running /\ alarm
    /\ Schedule(cpu)
    /\ UNCHANGED <<next, prev, id, retval, stack, allocated, num_running_threads,
                   num_thread_total, is_first_call, alarm, exitArg, joined, done>>

(* A step of the client program that calls nothing in the library.        *)
Work ==
    /\ Running /\ cpu.step = "go" /\ Instr.op = "work"
    /\ cpu' = Advance(cpu)
    /\ UNCHANGED <<tcbVars, current_thread, num_running_threads, num_thread_total,
                   is_first_call, alarm, exitArg, joined, done, crashed>>

(***************************************************************************)
(* pthread_create.  The first call runs scheduler_init(): TCB 0 for main, *)
(* then the alarm, so every later step can be preempted.                  *)
(***************************************************************************)
SchedulerInit ==
    /\ Running /\ cpu.step = "go" /\ Instr.op = "create" /\ is_first_call
    /\ is_first_call' = FALSE
    /\ allocated' = 1
    /\ num_running_threads' = num_running_threads + 1
    /\ next' = [next EXCEPT ![0] = 0]
    /\ prev' = [prev EXCEPT ![0] = 0]
    /\ id' = [id EXCEPT ![0] = num_thread_total]
    /\ status' = [status EXCEPT ![0] = "READY"]
    /\ num_thread_total' = num_thread_total + 1
    /\ current_thread' = 0
    /\ alarm' = TRUE
    /\ cpu' = At(cpu, "create")
    /\ UNCHANGED <<retval, stack, ctx, exitArg, joined, done, crashed>>

HasRoomOffByOne == num_running_threads <= MaxThreads
HasRoom == num_running_threads < MaxThreads

(* The check against MAX_THREADS, the malloc, the count, and the first    *)
(* link: from here the new TCB is reachable along `next` while every one  *)
(* of its fields is still uninitialised.  On failure *thread is left      *)
(* as it was and -1 is returned.                                          *)
CreateLink ==
    /\ Running
    /\ \/ cpu.step = "go" /\ Instr.op = "create" /\ ~is_first_call
       \/ cpu.step = "create"
    /\ \/ /\ HasRoom
          /\ prev[current_thread] = Garbage
          /\ crashed' = "uninit_tcb"
          /\ UNCHANGED <<allocated, num_running_threads, next, cpu>>
       \/ /\ HasRoom
          /\ prev[current_thread] # Garbage
          /\ allocated < MaxNodes
          /\ allocated' = allocated + 1
          /\ num_running_threads' = num_running_threads + 1
          /\ next' = [next EXCEPT ![prev[current_thread]] = allocated]
          /\ cpu' = [cpu EXCEPT !.step = "c_fill", !.node = allocated]
          /\ UNCHANGED crashed
       \/ /\ ~HasRoom
          /\ cpu' = Advance(cpu)
          /\ UNCHANGED <<allocated, num_running_threads, next, crashed>>
    /\ UNCHANGED <<status, prev, id, retval, stack, ctx, current_thread,
                   num_thread_total, is_first_call, alarm, exitArg, joined,
                   done>>

(* The ID written to *thread: new->ID, the counter before its increment. *)
NewTidAfterIncrement == num_thread_total + 1
NewTid == num_thread_total

(* The rest of the links, the ID, the stack and the jmp_buf of the new    *)
(* thread (start_thunk with start_routine and arg); the status is still   *)
(* garbage.  The links go through current_thread, whatever it is now.     *)
CreateFill ==
    LET m == cpu.node
        c == current_thread
    IN  /\ Running /\ cpu.step = "c_fill"
        /\ prev' = [prev EXCEPT ![m] = prev[c], ![c] = m]
        /\ next' = [next EXCEPT ![m] = c]
        /\ id' = [id EXCEPT ![m] = num_thread_total]
        /\ num_thread_total' = num_thread_total + 1
        /\ stack' = [stack EXCEPT ![m] = "alloc"]
        /\ ctx' = [ctx EXCEPT ![m] = Cont(m, Instr.prog)]
        /\ cpu' = [cpu EXCEPT !.step = "c_ready",
                              !.tids[Instr.slot] = NewTid]
        /\ UNCHANGED <<status, retval, allocated, current_thread,
                       num_running_threads, is_first_call, alarm, exitArg,
                       joined, done, crashed>>

(* new->status = TS_READY; return 0.                                       *)
CreateReady ==
    /\ Running /\ cpu.step = "c_ready"
    /\ status' = [status EXCEPT ![cpu.node] = "READY"]
    /\ cpu' = [Advance(cpu) EXCEPT !.node = NoNode]
    /\ UNCHANGED <<next, prev, id, retval, stack, ctx, allocated, current_thread,
                   num_running_threads, num_thread_total, is_first_call, alarm,
                   exitArg, joined, done, crashed>>

(***************************************************************************)
(* pthread_exit, called directly or by returning from the start routine   *)
(* into the address create left on top of the stack.  It writes the TCB   *)
(* current_thread points at.                                              *)
(***************************************************************************)
IsExit == Instr.op = "exit" \/ (Instr.op = "return" /\ cpu.prog \notin MainProgs)

ExitMark ==
    /\ Running /\ cpu.step = "go" /\ IsExit
    /\ num_running_threads' = num_running_threads - 1
    /\ status' = [status EXCEPT ![current_thread] = "EXITED"]
    /\ exitArg' = [exitArg EXCEPT ![cpu.owner] = Instr.val]
    /\ cpu' = At(cpu, "e_retval")
    /\ UNCHANGED <<next, prev, id, retval, stack, ctx, allocated, current_thread,
                   num_thread_total, is_first_call, alarm, joined, done, crashed>>

ExitRetval ==
    /\ Running /\ cpu.step = "e_retval"
    /\ retval' = [retval EXCEPT ![current_thread] = Instr.val]
    /\ cpu' = At(cpu, "e_sched")
    /\ UNCHANGED <<status, next, prev, id, stack, ctx, allocated, current_thread,
                   num_running_threads, num_thread_total, is_first_call, alarm,
                   exitArg, joined, done, crashed>>

(* schedule(0), after ualarm(0,0) when no thread is counted as running;   *)
(* if schedule() returns, exit(0) follows.                                *)
ExitSchedule ==
    /\ Running /\ cpu.step = "e_sched"
    /\ alarm' = (alarm /\ num_running_threads > 0)
    /\ Schedule(At(cpu, "e_end"))
    /\ UNCHANGED <<next, prev, id, retval, stack, allocated, num_running_threads,
                   num_thread_total, is_first_call, exitArg, joined, done>>

ExitProcess ==
    /\ Running /\ cpu.step = "e_end"
    /\ done' = TRUE
    /\ UNCHANGED <<tcbVars, current_thread, num_running_threads, num_thread_total,
                   is_first_call, alarm, cpu, exitArg, joined, crashed>>

(* main() returns: the C runtime calls exit().                             *)
MainReturn ==
    /\ Running /\ cpu.step = "go" /\ Instr.op = "return" /\ cpu.prog \in MainProgs
    /\ done' = TRUE
    /\ UNCHANGED <<tcbVars, current_thread, num_running_threads, num_thread_total,
                   is_first_call, alarm, cpu, exitArg, joined, crashed>>

(***************************************************************************)
(* pthread_join.  The search follows `next` from current_thread until an  *)
(* ID matches; it never ends if no TCB has that ID, and it faults on the   *)
(* garbage link of a TCB being created.  Result: the TCB, NoNode for the  *)
(* endless loop, Garbage for the fault.                                   *)
(***************************************************************************)
RECURSIVE FindId(_, _, _)
FindId(n, tid, k) ==
    IF k > MaxNodes THEN NoNode
    ELSE IF n = Garbage \/ status[n] = "UNINIT" THEN Garbage
    ELSE IF id[n] = tid THEN n
    ELSE FindId(next[n], tid, k + 1)

JoinFind ==
    LET n == FindId(current_thread, cpu.tids[Instr.slot], 0)
    IN  /\ Running /\ cpu.step = "go" /\ Instr.op = "join"
        /\ \/ n \in Nodes /\ cpu' = [At(cpu, "j_wait") EXCEPT !.node = n]
                          /\ UNCHANGED crashed
           \/ n = NoNode /\ cpu' = At(cpu, "j_spin") /\ UNCHANGED crashed
           \/ n = Garbage /\ crashed' = "uninit_tcb" /\ UNCHANGED cpu
        /\ UNCHANGED <<tcbVars, current_thread, num_running_threads,
                       num_thread_total, is_first_call, alarm, exitArg, joined,
                       done>>

(* while (temp->status != TS_EXITED) schedule(SIGALRM);                    *)
JoinWait ==
    /\ Running /\ cpu.step = "j_wait"
    /\ \/ status[cpu.node] = "EXITED" /\ cpu' = At(cpu, "j_done")
          /\ UNCHANGED <<status, ctx, current_thread, crashed>>
       \/ status[cpu.node] # "EXITED" /\ Schedule(cpu)
    /\ UNCHANGED <<next, prev, id, retval, stack, allocated, num_running_threads,
                   num_thread_total, is_first_call, alarm, exitArg, joined, done>>

(* *retval = temp->retval; free(temp->stack_ptr), which is never cleared, *)
(* so a second join of the same thread frees the stack twice.             *)
JoinDone ==
    LET n == cpu.node
    IN  /\ Running /\ cpu.step = "j_done"
        /\ joined' = joined \cup {<<n, retval[n]>>}
        /\ \/ stack[n] = "alloc" /\ stack' = [stack EXCEPT ![n] = "freed"]
              /\ cpu' = [Advance(cpu) EXCEPT !.node = NoNode]
              /\ UNCHANGED crashed
           \/ stack[n] = "none" /\ cpu' = [Advance(cpu) EXCEPT !.node = NoNode]
              /\ UNCHANGED <<stack, crashed>>
           \/ stack[n] = "freed" /\ crashed' = "double_free"
              /\ UNCHANGED <<stack, cpu>>
        /\ UNCHANGED <<status, next, prev, id, retval, ctx, allocated,
                       current_thread, num_running_threads, num_thread_total,
                       is_first_call, alarm, exitArg, done>>

ThreadStep ==
    \/ Work \/ SchedulerInit \/ CreateLink \/ CreateFill \/ CreateReady
    \/ ExitMark \/ ExitRetval \/ ExitSchedule \/ ExitProcess \/ MainReturn
    \/ JoinFind \/ JoinWait \/ JoinDone

Next == Tick \/ ThreadStep

(* ualarm re-arms itself every QUANTUM, so ticks never stop while it is  *)
(* armed.  A tick may come at any point, even just after a switch, but a *)
(* thread the scheduler keeps coming back to is eventually given enough   *)
(* of a 50 ms quantum to run its next statement: strong fairness for the  *)
(* steps of each thread's code.                                           *)
StepOf(n) == ThreadStep /\ cpu.owner = n

Spec == Init /\ [][Next]_vars /\ WF_vars(Tick)
             /\ \A n \in Nodes : SF_vars(StepOf(n))

(***************************************************************************)
(* Properties.                                                             *)
(***************************************************************************)

(* The TCB current_thread points at is the thread whose code runs: what   *)
(* pthread_self(), pthread_exit() and the next schedule() act on.  The     *)
(* early `return` of schedule()'s search loop can break it.               *)
CurrentIsExecuting ==
    (Running /\ current_thread # NoNode) => cpu.owner = current_thread

(* exit(0) at the end of pthread_exit ends the whole process: it may only *)
(* be reached when every thread has exited, since schedule() was to hand  *)
(* the processor to any thread still READY.                               *)
ExitOnlyWhenNoThreadLeft ==
    (done /\ cpu.step = "e_end") =>
        \A n \in 0..allocated-1 : status[n] = "EXITED"

(* pthread_join hands back the value the joined thread passed to          *)
(* pthread_exit (the test dereferences it and asserts it).                *)
JoinReturnsExitValue ==
    \A p \in joined : p[2] = exitArg[p[1]]

(* schedule() and pthread_join only ever read TCBs pthread_create has      *)
(* finished initialising.                                                  *)
NoUninitialisedTcbReached == crashed # "uninit_tcb"

(* Every run ends: the process exits or faults; no thread waits forever   *)
(* in pthread_join and no run of ticks goes on with nobody progressing.   *)
ProcessTerminates == <>(~Running)
====
