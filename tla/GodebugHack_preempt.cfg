\* Every GODEBUG of up to three fields over these four, or unset.
CONSTANTS
    Items = {"asyncpreemptoff=1", "asyncpreemptoff=0", "gctrace=1", ""}
    MaxLen = 3
    MaxExecs = 3
SPECIFICATION Spec



INVARIANT PreemptionOff
