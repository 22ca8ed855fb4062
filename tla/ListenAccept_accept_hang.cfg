\* A thread past the active check while the accept loop fails.
CONSTANTS
    Conns = {c1}
    Threads = {t1}
    MaxCalls = 1
    Backlog = 8
    AcceptLoopFails = TRUE
SPECIFICATION Spec
INVARIANT AcceptServable

\* The target process may stop issuing syscalls at any point.
CHECK_DEADLOCK FALSE
