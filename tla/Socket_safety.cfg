\* Two threads, two aliases, every environment outcome.
CONSTANTS
    Threads = {t1, t2}
    Aliases = {fd1, fd2}
    MaxCalls = 2
    MaxTemp = 8
    DialResults = {"ok", "errno", "other"}
    AcceptResults = {"ok", "fail"}
    KernelFails = TRUE
SPECIFICATION Spec
SYMMETRY MC_Symmetry
INVARIANT TempSocketsAccounted
INVARIANT ProxyClosedOnce
PROPERTY ConnectOKOnlyWhenConnected
PROPERTY ShadowRefinement
\* The target process may stop issuing syscalls at any point.
CHECK_DEADLOCK FALSE
