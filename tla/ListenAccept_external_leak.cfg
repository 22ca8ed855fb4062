\* An accepted connection parked in the backlog map when the target closes.
CONSTANTS
    Conns = {c1}
    Threads = {t1}
    MaxCalls = 1
    Backlog = 8
    AcceptLoopFails = FALSE
SPECIFICATION FairSpec
PROPERTY ExternalResolved

\* The target process may stop issuing syscalls at any point.
CHECK_DEADLOCK FALSE
