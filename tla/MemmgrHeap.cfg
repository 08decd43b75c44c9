SPECIFICATION Spec
CONSTANTS
    Threads = {t1, t2}
    HeapSize = 8
    Requests = {1, 2, 4}
INVARIANTS
    FreeBytesExact
    LeaksReported
PROPERTY
    ImplementsAllocator
CHECK_DEADLOCK FALSE
