\* One thread on one descriptor; every helper succeeds.
CONSTANTS
    Threads = {t1}
    Aliases = {fd1}
    MaxCalls = 2
    MaxTemp = 2
    DialResults = {"ok"}
    AcceptResults = {"ok"}
    KernelFails = FALSE
SPECIFICATION Spec
PROPERTY GetsocknameNoEBADF
\* The target process may stop issuing syscalls at any point.
CHECK_DEADLOCK FALSE
