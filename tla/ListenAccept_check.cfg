\* Two external peers, two accepting threads, listener failures on.  Tracer
\* goroutines and entered handlers are weakly fair; peers and target are not.
CONSTANTS
    Conns = {c1, c2}
    Threads = {t1, t2}
    MaxCalls = 2
    Backlog = 8
    AcceptLoopFails = TRUE
SPECIFICATION FairSpec
INVARIANT ExternalAccounted
PROPERTY AcceptReturns
PROPERTY ListenerReleased
\* The target process may stop issuing syscalls at any point.
CHECK_DEADLOCK FALSE
