\* One object created with consumerFinalizerKey as the tests' fixtures
\* are; no call ever fails.  Expected: DeletionCompletes is violated.
CONSTANTS
    k1 = k1
    k2 = k2
    n1 = n1
    n2 = n2
    n3 = n3
    Keys <- OneKeys
    Names <- MCNames
    streamFinalizerKey = streamFinalizerKey
    consumerFinalizerKey = consumerFinalizerKey
    Absent = Absent
    MaxGen = 2
    MaxRetries = 1
    Workers = 1
    KeyNames <- FixedKeyNames
    InitFinalizers <- TestInitFinalizers
    CallsMayFail = FALSE

SPECIFICATION FairSpec
CHECK_DEADLOCK FALSE

PROPERTY DeletionCompletes
