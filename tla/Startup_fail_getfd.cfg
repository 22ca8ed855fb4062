\* Only the getfd step fails.
CONSTANTS
    Failures = {"getfd"}
    Width = 16
    ListenerFd = 4
    MaxTraceeCalls = 3
    Threads = {1, 2}
SPECIFICATION FairSpec
PROPERTY ChildNotStranded
\* Both processes stop once they have exited.
CHECK_DEADLOCK FALSE
