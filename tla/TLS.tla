-------------------------------- MODULE TLS --------------------------------
(***************************************************************************)
(* The copy-on-write thread-local storage library of src/cow/tls.c.        *)
(*                                                                         *)
(* Each API call (tls_create, tls_destroy, tls_read, tls_write, tls_clone) *)
(* is one atomic step of the calling thread: the library takes no lock,   *)
(* and this module is the library as its specification (spec.md section   *)
(* 4.6) says it is used, one call at a time.  The per-byte loops of read  *)
(* and write are folded into their step; their order is kept where it     *)
(* matters (a shared page is copied the first time one of its bytes is    *)
(* written, then written in place).  A page is identified by the address  *)
(* mmap returned for it; struct page and its address are one-to-one.      *)
(* RawAccess is a stray load or store through a pointer into a TLS page,  *)
(* handled by tls_page_fault.                                             *)
(***************************************************************************)
EXTENDS Naturals, Sequences, FiniteSets, Functions, TLC

CONSTANTS
    Threads,      \* pthread_t values of the threads calling the API
    MaxThreads,   \* MAX_THREADS: slots of thread_storage[]
    PageSize,     \* PAGE_SIZE (getpagesize())
    UIntWidth,    \* bits of an unsigned int (offsets, lengths, sizes)
    Frames,       \* page-aligned addresses mmap may return
    Bytes,        \* byte values
    Zero,         \* the byte of a fresh anonymous mapping
    Sizes,        \* sizes passed to tls_create
    Accesses,     \* <<offset, length>> pairs passed to tls_read/tls_write
    NULL          \* an empty slot of thread_storage[]

ASSUME PageSize > 0 /\ MaxThreads > 0 /\ Zero \in Bytes

UMax == 2 ^ UIntWidth

\* Addition of two unsigned ints: wraps modulo 2^UIntWidth.
UAdd(a, b) == (a + b) % UMax

Slots == 0 .. MaxThreads - 1
PageOffsets == 0 .. PageSize - 1
ZeroPage == [o \in PageOffsets |-> Zero]
Prots == {"none", "read", "rw"}

VARIABLES
    thread_storage,    \* slot -> NULL or [tid, size, num_pages, pages]
    ref_count,         \* ref_count[f]: ref_count of the struct page at f
    mapped,            \* addresses currently mapped
    prot,              \* prot[f]: protection of page f
    mem,               \* mem[f][o]: byte o of page f
    handler_installed, \* tls_init has installed tls_page_fault
    alive,             \* threads not terminated by tls_page_fault
    readBuf,           \* the buffer filled by the latest successful tls_read
    oob                \* some tls_read/tls_write indexed pages[] out of range

vars == <<thread_storage, ref_count, mapped, prot, mem, handler_installed,
          alive, readBuf, oob>>

IsTLSRec(r) ==
    /\ r.tid \in Threads
    /\ r.size \in 0 .. UMax - 1
    /\ r.num_pages \in 0 .. UMax
    /\ r.pages \in [0 .. r.num_pages - 1 -> Frames]
    /\ IsInjective(r.pages)

TypeOK ==
    /\ DOMAIN thread_storage = Slots
    /\ \A i \in Slots : thread_storage[i] = NULL \/ IsTLSRec(thread_storage[i])
    /\ ref_count \in [Frames -> Nat]
    /\ mapped \subseteq Frames
    /\ prot \in [Frames -> Prots]
    /\ mem \in [Frames -> [PageOffsets -> Bytes]]
    /\ handler_installed \in BOOLEAN
    /\ alive \subseteq Threads
    /\ readBuf \in Seq(Bytes)
    /\ oob \in BOOLEAN

Init ==
    /\ thread_storage = [i \in Slots |-> NULL]
    /\ ref_count = [f \in Frames |-> 0]
    /\ mapped = {}
    /\ prot = [f \in Frames |-> "none"]
    /\ mem = [f \in Frames |-> ZeroPage]
    /\ handler_installed = FALSE
    /\ alive = Threads
    /\ readBuf = <<>>
    /\ oob = FALSE

-----------------------------------------------------------------------------
(* Registry lookups: the linear scans over thread_storage[].               *)

UsedSlots == {i \in Slots : thread_storage[i] # NULL}
FreeSlots == Slots \ UsedSlots
HasTLS(t) == \E i \in UsedSlots : thread_storage[i].tid = t
\* the scan that stops at the first slot registered to t
TlsIndex(t) == CHOOSE i \in UsedSlots :
                  /\ thread_storage[i].tid = t
                  /\ \A j \in UsedSlots : thread_storage[j].tid = t => i <= j
\* the scan for an empty slot: the lowest free index
LowestFree == CHOOSE i \in FreeSlots : \A j \in FreeSlots : i <= j

\* Mutant: the page count rounded down (size / PAGE_SIZE).
NumPagesRoundDown(size) == size \div PageSize

\* num_pages = (size + PAGE_SIZE - 1) / PAGE_SIZE, in unsigned arithmetic
NumPages(size) == UAdd(size, PageSize - 1) \div PageSize

\* The page index and in-page offset of byte b of an access at off.
PageNum(off, b) == UAdd(off, b) \div PageSize
PageOff(off, b) == UAdd(off, b) % PageSize

\* Some byte of the access indexes beyond the pages[] array.
OutOfRange(r, off, len) == \E b \in 0 .. len - 1 : PageNum(off, b) >= r.num_pages

\* The bounds check (offset + length) > size, in unsigned arithmetic.
InBounds(r, off, len) == UAdd(off, len) <= r.size

\* Mutant: a page is released only when its ref_count is 0 (> 0 for > 1).
LastRefsOffByOne(P) == {f \in P : ref_count[f] <= 0}

\* The pages tls_destroy unmaps: those whose ref_count is not > 1.
LastRefs(P) == {f \in P : ref_count[f] <= 1}

\* Mutant: copy-on-write never triggered.
NeedsCopyNever(r, Touched) == {}

\* The touched page indices tls_write copies: ref_count > 1.
NeedsCopy(r, Touched) == {k \in Touched : ref_count[r.pages[k]] > 1}

\* Mutant: the clone's num_pages copied from the donor's size.
CloneOfPagesFromSize(t, d) ==
    [tid |-> t, size |-> d.size, num_pages |-> d.size, pages |-> d.pages]

\* The TLS struct tls_clone fills in for t from the donor's struct d.
CloneOf(t, d) ==
    [tid |-> t, size |-> d.size, num_pages |-> d.num_pages, pages |-> d.pages]

\* Mutant: the shared pages' ref_counts left as they were.
ShareNoIncrement(P) == ref_count

\* The ref_count of every page the clone shares, incremented.
Share(P) == [f \in Frames |-> IF f \in P THEN ref_count[f] + 1 ELSE ref_count[f]]

-----------------------------------------------------------------------------
(* tls_init: install tls_page_fault for SIGSEGV and SIGBUS.                *)
TlsInit == handler_installed' = TRUE

(* tls_create(size).                                                       *)
TlsCreate(t, size) ==
    /\ t \in alive
    /\ TlsInit
    /\ \/ /\ \/ size = 0
             \/ HasTLS(t)
             \/ FreeSlots = {}
          /\ UNCHANGED <<thread_storage, ref_count, mapped, prot, mem>>
       \/ /\ size > 0
          /\ ~HasTLS(t)
          /\ FreeSlots # {}
          /\ LET n == NumPages(size) IN
             \E pg \in Injection(0 .. n - 1, Frames \ mapped) :
                /\ thread_storage' = [thread_storage EXCEPT ![LowestFree] =
                       [tid |-> t, size |-> size, num_pages |-> n, pages |-> pg]]
                /\ ref_count' = [f \in Frames |->
                                   IF f \in Range(pg) THEN 1 ELSE ref_count[f]]
                /\ mapped' = mapped \cup Range(pg)
                /\ prot' = [f \in Frames |->
                              IF f \in Range(pg) THEN "none" ELSE prot[f]]
                /\ mem' = [f \in Frames |->
                             IF f \in Range(pg) THEN ZeroPage ELSE mem[f]]
    /\ UNCHANGED <<alive, readBuf, oob>>

(* tls_destroy(): every page is unreferenced once (its ref_count           *)
(* decremented) or, when this area held the last reference, unmapped.     *)
TlsDestroy(t) ==
    /\ t \in alive
    /\ \/ /\ ~HasTLS(t)
          /\ UNCHANGED vars
       \/ /\ HasTLS(t)
          /\ LET i == TlsIndex(t)
                 P == Range(thread_storage[i].pages)
                 last == LastRefs(P)
             IN /\ thread_storage' = [thread_storage EXCEPT ![i] = NULL]
                /\ mapped' = mapped \ last
                /\ ref_count' = [f \in Frames |->
                                   IF f \in last THEN 0
                                   ELSE IF f \in P THEN ref_count[f] - 1
                                   ELSE ref_count[f]]
                /\ prot' = [f \in Frames |-> IF f \in last THEN "none" ELSE prot[f]]
                /\ mem' = [f \in Frames |-> IF f \in last THEN ZeroPage ELSE mem[f]]
          /\ UNCHANGED <<handler_installed, alive, readBuf, oob>>

(* tls_read(offset, length, buffer): each page touched is unprotected for  *)
(* the byte and protected again (PROT_NONE) after it.                      *)
TlsRead(t, off, len) ==
    /\ t \in alive
    /\ \/ /\ ~HasTLS(t)
          /\ UNCHANGED vars
       \/ /\ HasTLS(t)
          /\ ~InBounds(thread_storage[TlsIndex(t)], off, len)
          /\ UNCHANGED vars
       \/ /\ HasTLS(t)
          /\ LET r == thread_storage[TlsIndex(t)] IN
             /\ InBounds(r, off, len)
             /\ \/ /\ OutOfRange(r, off, len)
                   /\ oob' = TRUE
                   /\ UNCHANGED <<thread_storage, ref_count, mapped, prot, mem,
                                  handler_installed, alive, readBuf>>
                \/ /\ ~OutOfRange(r, off, len)
                   /\ readBuf' = [k \in 1 .. len |->
                                    mem[r.pages[PageNum(off, k - 1)]][PageOff(off, k - 1)]]
                   /\ prot' = [f \in Frames |->
                         IF \E b \in 0 .. len - 1 : r.pages[PageNum(off, b)] = f
                         THEN "none" ELSE prot[f]]
                   /\ UNCHANGED <<thread_storage, ref_count, mapped, mem,
                                  handler_installed, alive, oob>>

(* tls_write(offset, length, buffer).  A touched page with ref_count > 1   *)
(* is copied into a fresh mapping the first time one of its bytes is      *)
(* written: the shared page is left PROT_READ, its ref_count decremented  *)
(* and the copy put in its slot; the bytes are then stored in the private *)
(* page, which is left PROT_NONE.                                          *)
TlsWrite(t, off, len, buf) ==
    /\ t \in alive
    /\ \/ /\ ~HasTLS(t)
          /\ UNCHANGED vars
       \/ /\ HasTLS(t)
          /\ ~InBounds(thread_storage[TlsIndex(t)], off, len)
          /\ UNCHANGED vars
       \/ /\ HasTLS(t)
          /\ LET i == TlsIndex(t)
                 r == thread_storage[i]
             IN
             /\ InBounds(r, off, len)
             /\ \/ /\ OutOfRange(r, off, len)
                   /\ oob' = TRUE
                   /\ UNCHANGED <<thread_storage, ref_count, mapped, prot, mem,
                                  handler_installed, alive, readBuf>>
                \/ /\ ~OutOfRange(r, off, len)
                   /\ LET Touched == {PageNum(off, b) : b \in 0 .. len - 1}
                          Shared == NeedsCopy(r, Touched)
                          Old == {r.pages[k] : k \in Shared}
                      IN
                      \E copy \in Injection(Shared, Frames \ mapped) :
                        LET pg == [k \in DOMAIN r.pages |->
                                     IF k \in Shared THEN copy[k] ELSE r.pages[k]]
                            \* the byte of buf stored at offset o of page k, if any
                            Stored(k, o) == {b \in 0 .. len - 1 :
                                               PageNum(off, b) = k /\ PageOff(off, b) = o}
                            NewPage(k) == [o \in PageOffsets |->
                                             IF Stored(k, o) # {}
                                             THEN buf[(CHOOSE b \in Stored(k, o) : TRUE) + 1]
                                             ELSE mem[r.pages[k]][o]]
                            Written == {pg[k] : k \in Touched}
                        IN
                        /\ thread_storage' = [thread_storage EXCEPT ![i].pages = pg]
                        /\ ref_count' = [f \in Frames |->
                                           IF f \in Old THEN ref_count[f] - 1
                                           ELSE IF f \in Range(copy) THEN 1
                                           ELSE ref_count[f]]
                        /\ mapped' = mapped \cup Range(copy)
                        /\ mem' = [f \in Frames |->
                                     IF \E k \in Touched : pg[k] = f
                                     THEN NewPage(CHOOSE k \in Touched : pg[k] = f)
                                     ELSE mem[f]]
                        /\ prot' = [f \in Frames |->
                                      IF f \in Old THEN "read"
                                      ELSE IF f \in Written THEN "none"
                                      ELSE prot[f]]
                        /\ UNCHANGED <<handler_installed, alive, readBuf, oob>>

(* tls_clone(tid): the new area shares every page of the donor's.         *)
TlsClone(t, donor) ==
    /\ t \in alive
    /\ \/ /\ \/ HasTLS(t)
             \/ ~HasTLS(donor)
             \/ FreeSlots = {}
          /\ UNCHANGED vars
       \/ /\ ~HasTLS(t)
          /\ HasTLS(donor)
          /\ FreeSlots # {}
          /\ LET d == thread_storage[CHOOSE j \in UsedSlots :
                                        thread_storage[j].tid = donor]
             IN /\ thread_storage' = [thread_storage EXCEPT ![LowestFree] = CloneOf(t, d)]
                /\ ref_count' = Share(Range(d.pages))
          /\ UNCHANGED <<mapped, prot, mem, handler_installed, alive, readBuf, oob>>

(* A load or store by t through a raw pointer into page f.  If the page's *)
(* protection forbids it the access traps; tls_page_fault finds the page  *)
(* in thread_storage[] and calls pthread_exit for the faulting thread.    *)
(* A permitted access does not trap and changes nothing (a store is never *)
(* permitted: no page is left PROT_READ|PROT_WRITE between calls).        *)
RawAccess(t, f, access) ==
    /\ t \in alive
    /\ f \in mapped
    /\ \/ /\ \/ prot[f] = "none"
             \/ prot[f] = "read" /\ access = "store"
          /\ handler_installed
          /\ \E i \in UsedSlots : f \in Range(thread_storage[i].pages)
          /\ alive' = alive \ {t}
          /\ UNCHANGED <<thread_storage, ref_count, mapped, prot, mem,
                         handler_installed, readBuf, oob>>
       \/ /\ prot[f] = "read"
          /\ access = "load"
          /\ UNCHANGED vars

Next ==
    \E t \in Threads :
        \/ \E size \in Sizes : TlsCreate(t, size)
        \/ TlsDestroy(t)
        \/ \E a \in Accesses : TlsRead(t, a[1], a[2])
        \/ \E a \in Accesses : \E buf \in [1 .. a[2] -> Bytes] :
              TlsWrite(t, a[1], a[2], buf)
        \/ \E donor \in Threads : TlsClone(t, donor)
        \/ \E f \in Frames, access \in {"load", "store"} : RawAccess(t, f, access)

Spec == Init /\ [][Next]_vars

-----------------------------------------------------------------------------
(* Properties.                                                             *)

\* The pages some registered area refers to, and who refers to each.
AreaFrames == UNION {Range(thread_storage[i].pages) : i \in UsedSlots}
Holders(f) == {<<i, k>> \in UsedSlots \X (0 .. UMax) :
                 k \in DOMAIN thread_storage[i].pages /\ thread_storage[i].pages[k] = f}

\* Refcount soundness (spec 8.2): across any sequence of create, clone,
\* copy-on-write and destroy calls, every page an area refers to is still
\* mapped and its ref_count equals the number of area slots that refer to
\* it.  A miscount frees a page another thread still uses (tls_destroy)
\* or writes a shared page in place (tls_write).
RefCountSound ==
    \A f \in AreaFrames : f \in mapped /\ ref_count[f] = Cardinality(Holders(f))

\* No leak (spec S6): every page mmap handed out is still referred to by a
\* registered area; the last tls_destroy or copy-on-write that drops a
\* page's last reference unmaps it.
NoLeakedPages == mapped \subseteq AreaFrames

\* Isolation (spec 8.1): between calls every page of every area is
\* PROT_NONE, so a stray load or store by any thread traps and
\* tls_page_fault terminates that thread.
Isolation == \A f \in AreaFrames : prot[f] = "none"

\* tls_read and tls_write index pages[] only within num_pages: the check
\* (offset + length) > size keeps every byte inside the area.
NoOutOfBounds == ~oob

\* The bytes of an area as its owner sees them through the API.
AreaBytes(r) == [j \in 1 .. r.size |->
                   mem[r.pages[(j - 1) \div PageSize]][(j - 1) % PageSize]]

AbsData == [t \in {thread_storage[i].tid : i \in UsedSlots} |->
              AreaBytes(thread_storage[TlsIndex(t)])]
=============================================================================
