------------------------------- MODULE MCTLS -------------------------------
(* TLS instantiated for TLC: three threads, two registry slots, pages of   *)
(* two bytes, areas of three bytes (two pages, the second half used).     *)
EXTENDS TLS

CONSTANTS t1, t2, t3, f1, f2, f3, f4

MCThreads == {t1, t2, t3}
MCFrames == {f1, f2, f3, f4}
\* size 0 is refused; 3 bytes span two pages, the second half used
MCSizes == {0, 3}
\* two bytes across the page boundary, the last byte (second page only)
\* and one byte past the end of the area
MCAccesses == {<<1, 2>>, <<2, 1>>, <<3, 1>>}

\* An access whose offset + length wraps around 2^UIntWidth, and an
\* ordinary one; a size whose (size + PAGE_SIZE - 1) wraps as well.
MCWrapAccesses == {<<UMax - 1, 2>>, <<1, 2>>}
MCWrapSizes == {3, UMax - 1}

\* Threads and pages are interchangeable for the invariants.
Symmetry == Permutations(MCThreads) \cup Permutations(MCFrames)

\* mmap never runs out: MaxThreads areas of at most NumPages(3) pages each.
ASSUME Cardinality(MCFrames) >= MaxThreads * NumPages(3)

\* What the library promises its callers (TLSAbstract), with the registry
\* capacity of the code and the extents the accesses above reach.
Abs == INSTANCE TLSAbstract WITH data <- AbsData, MaxAreas <- MaxThreads,
                                 MaxSize <- 3

AbstractSpec == Abs!ASpec
=============================================================================
