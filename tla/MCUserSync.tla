----------------------------- MODULE MCUserSync -----------------------------
(* Client programs for UserSync: two workers meet at a barrier, add one   *)
(* to a counter under the mutex twice, and meet at the barrier again, as  *)
(* spec section 8 (properties 7 and 9) has the tests do.                 *)
EXTENDS UserSync, MCUserThreads

Worker(i) ==
    << [op |-> "bwait"],
       [op |-> "lock"], [op |-> "load"], [op |-> "store"], [op |-> "unlock"],
       [op |-> "lock"], [op |-> "load"], [op |-> "store"], [op |-> "unlock"],
       [op |-> "bwait"],
       [op |-> "exit", val |-> i] >>
SyncMain ==
    << [op |-> "minit"],
       [op |-> "binit", count |-> 2],
       [op |-> "create", prog |-> "w0", slot |-> 1],
       [op |-> "create", prog |-> "w1", slot |-> 2],
       [op |-> "join", slot |-> 1],
       [op |-> "join", slot |-> 2],
       [op |-> "bdestroy"],
       [op |-> "return"] >>
SyncProgs == [p \in {"main", "w0", "w1"} |->
                CASE p = "main" -> SyncMain
                  [] p = "w0" -> Worker(0)
                  [] p = "w1" -> Worker(1)]
SyncSlots == {1, 2}

(* test_barrier_reininitialize.c with NUM_THREADS = 2: each thread waits  *)
(* twice; the last one destroys the barrier and inits it for               *)
(* NUM_THREADS - 1; each thread then waits twice more.                     *)
ReinitThread(last) ==
    << [op |-> "bwait"], [op |-> "bwait"] >>
    \o (IF last THEN << [op |-> "bdestroy"], [op |-> "binit", count |-> 1] >>
                 ELSE << >>)
    \o << [op |-> "bwait"], [op |-> "bwait"], [op |-> "return", val |-> 0] >>
ReinitMain ==
    << [op |-> "binit", count |-> 2],
       [op |-> "create", prog |-> "t0", slot |-> 1],
       [op |-> "create", prog |-> "t1", slot |-> 2],
       [op |-> "join", slot |-> 1],
       [op |-> "join", slot |-> 2],
       [op |-> "bdestroy"],
       [op |-> "return"] >>
ReinitProgs == [p \in {"main", "t0", "t1"} |->
                  CASE p = "main" -> ReinitMain
                    [] p = "t0" -> ReinitThread(FALSE)
                    [] p = "t1" -> ReinitThread(TRUE)]

(* A main that creates one thread more than MAX_THREADS - 1 allows while *)
(* the first two still run (the third pthread_create returns -1) and       *)
(* returns without joining.                                                 *)
OverLimitMain ==
    << [op |-> "create", prog |-> "count0", slot |-> 1],
       [op |-> "create", prog |-> "count1", slot |-> 2],
       [op |-> "create", prog |-> "count2", slot |-> 3],
       [op |-> "return"] >>

(* The synchronising, busy (test_busy_threads.c), reinitialising, double-  *)
(* joining (TwiceMain), over-the-limit and pthread_exit-ending (ExitMain) *)
(* mains in one model: Init picks which of them the process runs.         *)
AllProgs == SyncProgs
            @@ [p \in {"busy", "count0", "count1", "count2"} |->
                  CASE p = "busy" -> BusyMain
                    [] p = "count2" -> Count(2)
                    [] OTHER -> BusyProgs[p]]
            @@ [p \in {"reinit", "t0", "t1"} |->
                  IF p = "reinit" THEN ReinitMain ELSE ReinitProgs[p]]
            @@ [p \in {"twice", "overlimit", "exitmain"} |->
                  CASE p = "twice" -> TwiceMain
                    [] p = "overlimit" -> OverLimitMain
                    [] OTHER -> ExitMain]
AllSlots == {1, 2, 3}
====
