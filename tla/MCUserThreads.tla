--------------------------- MODULE MCUserThreads ---------------------------
(* Client programs for UserThreads, after the test programs of            *)
(* src/multithreading.                                                     *)
EXTENDS UserThreads

(* test_busy_threads.c with THREAD_CNT = 2: count(i) busy-loops, then      *)
(* pthread_exit(&some_value[i]) with some_value[i] = i; main creates the   *)
(* threads, joins them in order and returns.                               *)
Count(i) == << [op |-> "work"], [op |-> "exit", val |-> i] >>
BusyMain ==
    << [op |-> "create", prog |-> "count0", slot |-> 1],
       [op |-> "create", prog |-> "count1", slot |-> 2],
       [op |-> "join", slot |-> 1],
       [op |-> "join", slot |-> 2],
       [op |-> "return"] >>
BusyProgs == [p \in {"main", "count0", "count1"} |->
                CASE p = "main" -> BusyMain
                  [] p = "count0" -> Count(0)
                  [] p = "count1" -> Count(1)]
BusySlots == {1, 2}

(* A main that creates and joins its threads one at a time, as a server    *)
(* handing out work would: exited TCBs are never unlinked, so they pile   *)
(* up in the ring while at most MAX_THREADS are running.                   *)
SerialMain ==
    << [op |-> "create", prog |-> "count0", slot |-> 1],
       [op |-> "join", slot |-> 1],
       [op |-> "create", prog |-> "count1", slot |-> 2],
       [op |-> "join", slot |-> 2],
       [op |-> "create", prog |-> "count2", slot |-> 3],
       [op |-> "join", slot |-> 3],
       [op |-> "create", prog |-> "count3", slot |-> 4],
       [op |-> "join", slot |-> 4],
       [op |-> "return"] >>
SerialProgs == [p \in {"main", "count0", "count1", "count2", "count3"} |->
                  CASE p = "main" -> SerialMain
                    [] p = "count0" -> Count(0)
                    [] p = "count1" -> Count(1)
                    [] p = "count2" -> Count(2)
                    [] p = "count3" -> Count(3)]
SerialSlots == 1..4

(* Two mains that misuse the library the way the busy test would with     *)
(* THREAD_CNT > MAX_THREADS, or with a repeated join.  In the first the    *)
(* second pthread_create returns -1 and leaves threads[1] unset, and the   *)
(* join of it searches the ring forever; the second joins a thread twice.  *)
LimitMain ==
    << [op |-> "create", prog |-> "count0", slot |-> 1],
       [op |-> "create", prog |-> "count1", slot |-> 2],
       [op |-> "join", slot |-> 1],
       [op |-> "join", slot |-> 2],
       [op |-> "return"] >>
TwiceMain ==
    << [op |-> "create", prog |-> "count0", slot |-> 1],
       [op |-> "join", slot |-> 1],
       [op |-> "join", slot |-> 1],
       [op |-> "return"] >>
LimitProgs == [p \in {"limit", "twice", "count0", "count1"} |->
                 CASE p = "limit" -> LimitMain
                   [] p = "twice" -> TwiceMain
                   [] p = "count0" -> Count(0)
                   [] p = "count1" -> Count(1)]

(* A main that ends with pthread_exit instead of returning: the process  *)
(* ends when the last thread exits.                                        *)
ExitMain ==
    << [op |-> "create", prog |-> "count0", slot |-> 1],
       [op |-> "exit", val |-> 9] >>

(* The serial, misusing and exiting mains in one model: Init picks      *)
(* which of them the process runs.                                         *)
ServerProgs == [p \in DOMAIN SerialProgs \cup DOMAIN LimitProgs |->
                  IF p \in DOMAIN SerialProgs THEN SerialProgs[p]
                                              ELSE LimitProgs[p]]
                @@ [p \in {"exitmain"} |-> ExitMain]
====
