\* Two Consumer objects naming the same remote consumer, two workers; no
\* call fails.  Expected: ReconciledImpliesRemote is violated.
CONSTANTS
    k1 = k1
    k2 = k2
    n1 = n1
    n2 = n2
    n3 = n3
    Keys <- TwoKeys
    Names <- MCNames
    KeyNames <- SharedKeyNames
    InitFinalizers <- BareInitFinalizers
    streamFinalizerKey = streamFinalizerKey
    consumerFinalizerKey = consumerFinalizerKey
    Absent = Absent
    MaxGen = 1
    MaxRetries = 1
    Workers = 2
    CallsMayFail = FALSE

SPECIFICATION Spec

\* A controller with nothing to do waits for the next watch event.
CHECK_DEADLOCK FALSE

INVARIANT ReconciledImpliesRemote
