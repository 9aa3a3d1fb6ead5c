------------------------------ MODULE UserSync ------------------------------
(***************************************************************************)
(* The mutex and the barrier of src/multithreading/threads.c on top of    *)
(* the scheduler of UserThreads, with a shared counter the client         *)
(* programs increment in two steps (load, then store) as `x = x + 1`      *)
(* compiles to.                                                            *)
(*                                                                         *)
(* Every primitive runs between lock() and unlock(), the sigprocmask pair *)
(* that blocks SIGALRM, so a masked section is one step.  The one place   *)
(* the mask is dropped inside a primitive is the yield of                 *)
(* pthread_mutex_lock: schedule() comes back with SIGALRM unblocked       *)
(* (the jmp_buf does not hold the mask, and every path into schedule()    *)
(* runs unmasked), so the retest and the set that follow are steps of     *)
(* their own.                                                              *)
(***************************************************************************)
EXTENDS UserThreads

CONSTANTS NULL   \* a barrier pointer after pthread_barrier_destroy

VARIABLES
    mutex,     \* the struct mutex_info the client's mutex points at
    barrier,   \* the struct barrier_info, or NULL
    x,         \* the client's shared counter
    blimit,    \* ghost: the count of the latest pthread_barrier_init
    blog       \* ghost: for each pthread_barrier_wait since then, in order,
               \* whether it returned PTHREAD_BARRIER_SERIAL_THREAD

syncVars == <<mutex, barrier, x, blimit, blog>>
allVars == <<vars, syncVars>>

SyncTypeOK ==
    /\ TypeOK
    /\ mutex \in [is_locked : BOOLEAN, is_init : BOOLEAN]
    /\ barrier = NULL \/ /\ barrier \in [current_count : Nat, max_count : Nat,
                                         exited : {0, 1}]
                         /\ barrier.current_count <= barrier.max_count
    /\ x \in Nat /\ blog \in Seq(BOOLEAN)

SyncInit ==
    /\ Init
    /\ mutex = [is_locked |-> FALSE, is_init |-> FALSE]
    /\ barrier = NULL
    /\ x = 0 /\ blimit = 0 /\ blog = << >>

(***************************************************************************)
(* The mutex.                                                              *)
(***************************************************************************)
MutexInit ==
    /\ Running /\ cpu.step = "go" /\ Instr.op = "minit"
    /\ mutex' = [is_locked |-> FALSE, is_init |-> TRUE]
    /\ cpu' = Advance(cpu)
    /\ UNCHANGED <<tcbVars, current_thread, num_running_threads, num_thread_total,
                   is_first_call, alarm, exitArg, joined, done, crashed,
                   barrier, x, blimit, blog>>

(* The masked first test: take the lock, or unmask and schedule(0).       *)
LockFirst ==
    /\ Running /\ cpu.step = "go" /\ Instr.op = "lock"
    /\ \/ /\ ~mutex.is_locked
          /\ mutex' = [mutex EXCEPT !.is_locked = TRUE]
          /\ cpu' = Advance(cpu)
          /\ UNCHANGED <<status, ctx, current_thread, crashed>>
       \/ /\ mutex.is_locked
          /\ Schedule(At(cpu, "l_retest"))
          /\ UNCHANGED mutex
    /\ UNCHANGED <<next, prev, id, retval, stack, allocated, num_running_threads,
                   num_thread_total, is_first_call, alarm, exitArg, joined, done,
                   barrier, x, blimit, blog>>

(* while (new_mutex->is_locked) { unlock(); schedule(0); }, now unmasked. *)
LockRetest ==
    /\ Running /\ cpu.step = "l_retest"
    /\ \/ /\ mutex.is_locked
          /\ Schedule(At(cpu, "l_retest"))
       \/ /\ ~mutex.is_locked
          /\ cpu' = At(cpu, "l_set")
          /\ UNCHANGED <<status, ctx, current_thread, crashed>>
    /\ UNCHANGED <<next, prev, id, retval, stack, allocated, num_running_threads,
                   num_thread_total, is_first_call, alarm, exitArg, joined, done,
                   mutex, barrier, x, blimit, blog>>

(* new_mutex->is_locked = true, whatever happened since the retest.       *)
LockSet ==
    /\ Running /\ cpu.step = "l_set"
    /\ mutex' = [mutex EXCEPT !.is_locked = TRUE]
    /\ cpu' = Advance(cpu)
    /\ UNCHANGED <<tcbVars, current_thread, num_running_threads, num_thread_total,
                   is_first_call, alarm, exitArg, joined, done, crashed,
                   barrier, x, blimit, blog>>

UnlockNoClear == mutex
Released == [mutex EXCEPT !.is_locked = FALSE]

MutexUnlock ==
    /\ Running /\ cpu.step = "go" /\ Instr.op = "unlock"
    /\ mutex' = Released
    /\ cpu' = Advance(cpu)
    /\ UNCHANGED <<tcbVars, current_thread, num_running_threads, num_thread_total,
                   is_first_call, alarm, exitArg, joined, done, crashed,
                   barrier, x, blimit, blog>>

(* The two halves of x = x + 1 in the client.                             *)
Load ==
    /\ Running /\ cpu.step = "go" /\ Instr.op = "load"
    /\ cpu' = [Advance(cpu) EXCEPT !.tmp = x]
    /\ UNCHANGED <<tcbVars, current_thread, num_running_threads, num_thread_total,
                   is_first_call, alarm, exitArg, joined, done, crashed,
                   syncVars>>

Store ==
    /\ Running /\ cpu.step = "go" /\ Instr.op = "store"
    /\ x' = cpu.tmp + 1
    /\ cpu' = Advance(cpu)
    /\ UNCHANGED <<tcbVars, current_thread, num_running_threads, num_thread_total,
                   is_first_call, alarm, exitArg, joined, done, crashed,
                   mutex, barrier, blimit, blog>>

(***************************************************************************)
(* The barrier.  pthread_barrier_wait never blocks: its loop              *)
(* `while (!new_barrier && ...)` tests a pointer it has just dereferenced, *)
(* so the loop body never runs.                                           *)
(***************************************************************************)
BarrierInit ==
    LET n == Instr.count
    IN  /\ Running /\ cpu.step = "go" /\ Instr.op = "binit"
        /\ \/ n = 0 /\ UNCHANGED <<barrier, blimit, blog>>      \* EINVAL
           \/ /\ n # 0
              /\ barrier' = [current_count |-> 0, max_count |-> n, exited |-> 0]
              /\ blimit' = n /\ blog' = << >>
        /\ cpu' = Advance(cpu)
        /\ UNCHANGED <<tcbVars, current_thread, num_running_threads,
                       num_thread_total, is_first_call, alarm, exitArg, joined,
                       done, crashed, mutex, x>>

(* The struct is freed and the pointer set to NULL; destroying a NULL     *)
(* barrier writes through NULL.                                           *)
BarrierDestroy ==
    /\ Running /\ cpu.step = "go" /\ Instr.op = "bdestroy"
    /\ \/ barrier = NULL /\ crashed' = "null_barrier" /\ UNCHANGED cpu
       \/ barrier # NULL /\ cpu' = Advance(cpu) /\ UNCHANGED crashed
    /\ barrier' = NULL
    /\ UNCHANGED <<tcbVars, current_thread, num_running_threads, num_thread_total,
                   is_first_call, alarm, exitArg, joined, done, mutex, x,
                   blimit, blog>>

(* If the previous wait set `exited`, a new generation starts from zero.  *)
RenewedNever(b) == b
Renewed(b) ==
    IF b.exited = 1 THEN [b EXCEPT !.current_count = 0, !.exited = 0] ELSE b

BarrierWait ==
    LET b == [Renewed(barrier) EXCEPT !.current_count = @ + 1]
    IN  /\ Running /\ cpu.step = "go" /\ Instr.op = "bwait"
        /\ \/ /\ barrier = NULL
              /\ crashed' = "null_barrier"
              /\ UNCHANGED <<cpu, barrier, blog>>
           \/ /\ barrier # NULL
              /\ barrier' = [b EXCEPT !.exited = 1]
              /\ blog' = Append(blog, b.current_count >= b.max_count)
              /\ cpu' = Advance(cpu)
              /\ UNCHANGED crashed
        /\ UNCHANGED <<tcbVars, current_thread, num_running_threads,
                       num_thread_total, is_first_call, alarm, exitArg, joined,
                       done, mutex, x, blimit>>

SyncStep ==
    \/ MutexInit \/ LockFirst \/ LockRetest \/ LockSet \/ MutexUnlock
    \/ Load \/ Store \/ BarrierInit \/ BarrierDestroy \/ BarrierWait

SyncNext == ((Tick \/ ThreadStep) /\ UNCHANGED syncVars) \/ SyncStep

(* The fairness of UserThreads, over the primitives' steps as well.       *)
ProgStepOf(n) == ((ThreadStep /\ UNCHANGED syncVars) \/ SyncStep) /\ cpu.owner = n

SyncSpec ==
    /\ SyncInit /\ [][SyncNext]_allVars
    /\ WF_allVars(Tick /\ UNCHANGED syncVars)
    /\ \A n \in Nodes : SF_allVars(ProgStepOf(n))

(***************************************************************************)
(* Properties.                                                             *)
(***************************************************************************)

(* The continuations that exist: the one running and the saved ones.      *)
Conts == {cpu} \cup {ctx[n] : n \in {m \in Nodes : ctx[m] # NoNode}}
InCriticalSection(c) ==
    c.step = "go" /\ Progs[c.prog][c.pc].op \in {"load", "store", "unlock"}

(* Between a return from pthread_mutex_lock and the matching unlock there *)
(* is at most one thread: the mask of the first test, lost after the      *)
(* yield, was to make test-and-set atomic.                                *)
MutualExclusion ==
    Running =>
        Cardinality({c.owner : c \in {k \in Conts : InCriticalSection(k)}}) <= 1

(* pthread_barrier_wait returns PTHREAD_BARRIER_SERIAL_THREAD to exactly  *)
(* one of the waits of each generation of `count` waits (spec section 8,  *)
(* property 7).                                                            *)
BarrierSerialOnce ==
    \A g \in 1..(IF blimit = 0 THEN 0 ELSE Len(blog) \div blimit) :
        Cardinality({i \in ((g - 1) * blimit + 1)..(g * blimit) : blog[i]}) = 1
====
