\* One object that never renames its remote consumer, created without a
\* finalizer; calls may fail.  Expected: NoOrphanedConsumer is violated.
CONSTANTS
    k1 = k1
    k2 = k2
    n1 = n1
    n2 = n2
    n3 = n3
    Keys <- OneKeys
    Names <- MCNames
    streamFinalizerKey = streamFinalizerKey
    consumerFinalizerKey = consumerFinalizerKey
    Absent = Absent
    MaxGen = 2
    MaxRetries = 1
    Workers = 1
    KeyNames <- FixedKeyNames
    InitFinalizers <- BareInitFinalizers
    CallsMayFail = TRUE

SPECIFICATION Spec
CHECK_DEADLOCK FALSE

INVARIANT NoOrphanedConsumer
