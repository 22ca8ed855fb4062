\* Up to two interfaces of up to two addresses each, over both domains,
\* both loopback arguments and every failure.
CONSTANTS
    MaxIfaces = 2
    MaxAddrs = 2
    KernelFails = TRUE
SPECIFICATION Spec
INVARIANT TypeOK
INVARIANT LookupMatchesReference
INVARIANT BoundLoopbackWhenFound
\* bindEphemeral returns after its one step.
CHECK_DEADLOCK FALSE
