---------------------------- MODULE TLSAbstract ----------------------------
(***************************************************************************)
(* What the copy-on-write thread-local storage library (src/cow/tls.c)     *)
(* promises its callers, with pages, reference counts and protections     *)
(* left out: every thread owns at most one private byte array, a clone    *)
(* starts as a copy of its donor's array, a write changes only the        *)
(* writer's array and a read returns the caller's own bytes.  A thread    *)
(* that touches storage outside the API may be terminated at any time.    *)
(* TLS (the detailed model) is checked to implement this specification.   *)
(***************************************************************************)
EXTENDS Naturals, Sequences, FiniteSets, Functions, TLC

CONSTANTS
    Threads,    \* identities of the threads that call the API
    MaxAreas,   \* capacity of the process-wide registry (MAX_THREADS)
    Bytes,      \* byte values written and read
    Zero,       \* the value of a byte of a fresh area
    MaxSize     \* the largest area size and access extent considered

VARIABLES
    data,       \* data[t]: the byte array of thread t, for t with an area
    alive,      \* threads not terminated by a protection fault
    readBuf     \* the bytes the latest successful read returned

avars == <<data, alive, readBuf>>

ATypeOK ==
    /\ DOMAIN data \subseteq Threads
    /\ \A t \in DOMAIN data : data[t] \in Seq(Bytes)
    /\ alive \subseteq Threads
    /\ readBuf \in Seq(Bytes)

AInit ==
    /\ data = [t \in {} |-> <<>>]
    /\ alive = Threads
    /\ readBuf = <<>>

HasRoom == Cardinality(DOMAIN data) < MaxAreas

ACreate(t, size) ==
    /\ t \in alive
    /\ size > 0
    /\ t \notin DOMAIN data
    /\ HasRoom
    /\ data' = data @@ (t :> [i \in 1..size |-> Zero])
    /\ UNCHANGED <<alive, readBuf>>

ADestroy(t) ==
    /\ t \in alive
    /\ t \in DOMAIN data
    /\ data' = Restrict(data, DOMAIN data \ {t})
    /\ UNCHANGED <<alive, readBuf>>

ARead(t, off, len) ==
    /\ t \in alive
    /\ t \in DOMAIN data
    /\ off + len <= Len(data[t])
    /\ readBuf' = SubSeq(data[t], off + 1, off + len)
    /\ UNCHANGED <<data, alive>>

\* buf: the bytes written
AWrite(t, off, len) ==
    /\ t \in alive
    /\ t \in DOMAIN data
    /\ off + len <= Len(data[t])
    /\ \E buf \in [1 .. len -> Bytes] :
          data' = [data EXCEPT ![t] =
                     [i \in DOMAIN @ |-> IF off < i /\ i <= off + len
                                           THEN buf[i - off] ELSE @[i]]]
    /\ UNCHANGED <<alive, readBuf>>

AClone(t, donor) ==
    /\ t \in alive
    /\ t \notin DOMAIN data
    /\ donor \in DOMAIN data
    /\ HasRoom
    /\ data' = data @@ (t :> data[donor])
    /\ UNCHANGED <<alive, readBuf>>

\* A thread that touched storage outside the API is terminated; its area,
\* if it has one, stays registered.
ATerminate(t) ==
    /\ t \in alive
    /\ alive' = alive \ {t}
    /\ UNCHANGED <<data, readBuf>>

ANext ==
    \E t \in Threads :
        \/ \E size \in 1..MaxSize : ACreate(t, size)
        \/ ADestroy(t)
        \/ \E off, len \in 0..MaxSize : ARead(t, off, len)
        \/ \E off, len \in 0..MaxSize : AWrite(t, off, len)
        \/ \E donor \in Threads : AClone(t, donor)
        \/ ATerminate(t)

ASpec == AInit /\ [][ANext]_avars
=============================================================================
