\* Every user GODEBUG of up to three fields over these four, or unset; then
\* the handshake with setup failures and the failures the child reports
\* through the word, three tracee threads and four intercepted calls.
CONSTANTS
    Items = {"asyncpreemptoff=1", "asyncpreemptoff=0", "gctrace=1", ""}
    MaxLen = 3
    MaxExecs = 3
    Failures = {"setup", "lookpath", "filter", "execve"}
    Width = 16
    ListenerFd = 4
    MaxTraceeCalls = 4
    Threads = {1, 2, 3}
SPECIFICATION FairSpec
INVARIANT AtMostOneReexec
INVARIANT TraceeInheritsUserGodebug
INVARIANT TraceeTraced
PROPERTY ParentLeavesWait
PROPERTY ChildNotStranded
\* Both processes stop once they have exited.
CHECK_DEADLOCK FALSE
