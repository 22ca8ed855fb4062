\* The dial returns ok or an errno and the dummy accept succeeds: the cases in
\* which the completion goroutine reaches its CAS.
CONSTANTS
    Threads = {t1, t2}
    Aliases = {fd1, fd2}
    MaxCalls = 2
    MaxTemp = 8
    DialResults = {"ok", "errno"}
    AcceptResults = {"ok"}
    KernelFails = FALSE
SPECIFICATION FairSpec
PROPERTY ConnectingResolves
PROPERTY ClosedReleasesTemps
PROPERTY ProxyReleased
\* The target process may stop issuing syscalls at any point.
CHECK_DEADLOCK FALSE
