CONSTANTS
    Threads = {t1, t2}
    Aliases = {fd1, fd2}
    MaxCalls = 2
    MaxTemp = 8
    DialResults = {"ok", "errno"}
    AcceptResults = {"ok"}
    KernelFails = FALSE
SPECIFICATION Spec
INVARIANT ParkedBindOpen
\* The target process may stop issuing syscalls at any point.
CHECK_DEADLOCK FALSE
