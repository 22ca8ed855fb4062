\* Every environment outcome, kernel failures of the helper sockets included:
\* both ways Connecting can be left without a completion CAS (238, 158).
CONSTANTS
    Threads = {t1}
    Aliases = {fd1, fd2}
    MaxCalls = 2
    MaxTemp = 8
    DialResults = {"ok", "errno", "other"}
    AcceptResults = {"ok", "fail"}
    KernelFails = TRUE
SPECIFICATION FairSpec
PROPERTY ConnectingResolves
\* The target process may stop issuing syscalls at any point.
CHECK_DEADLOCK FALSE
