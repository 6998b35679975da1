\* Three readers and two writers, which LockWrite does not keep apart.
SPECIFICATION FairSpec
CONSTANTS
    Readers = {r1, r2, r3}
    Writers = {w1, w2}
INVARIANTS ReadersExcludeWriters FreeWhenEmpty NobodyStranded
PROPERTIES WriterGetsIn ReaderGetsInWhenWritersStop
