\* One object created without finalizers whose spec may rename its remote
\* consumer, by users who never delete it; no call fails.  Expected:
\* OrphanEventuallyRemoved is violated.
CONSTANTS
    k1 = k1
    k2 = k2
    n1 = n1
    n2 = n2
    n3 = n3
    Keys <- OneKeys
    Names <- MCNames
    streamFinalizerKey = streamFinalizerKey
    consumerFinalizerKey = consumerFinalizerKey
    Absent = Absent
    MaxGen = 2
    MaxRetries = 1
    Workers = 1
    KeyNames <- OneKeyNames
    InitFinalizers <- BareInitFinalizers
    CallsMayFail = FALSE

SPECIFICATION NoDeleteSpec
CHECK_DEADLOCK FALSE

PROPERTY OrphanEventuallyRemoved
