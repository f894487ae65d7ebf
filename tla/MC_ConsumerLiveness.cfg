\* One object created without finalizers and possibly renamed; no call
\* fails, only write conflicts with user edits.  Checks that deletion completes.
CONSTANTS
    k1 = k1
    k2 = k2
    n1 = n1
    n2 = n2
    n3 = n3
    Keys <- OneKeys
    Names <- MCNames
    streamFinalizerKey = streamFinalizerKey
    consumerFinalizerKey = consumerFinalizerKey
    Absent = Absent
    MaxGen = 3
    MaxRetries = 2
    Workers = 1
    KeyNames <- OneKeyNames
    InitFinalizers <- BareInitFinalizers
    CallsMayFail = FALSE

SPECIFICATION FairSpec
CHECK_DEADLOCK FALSE

PROPERTY DeletionCompletes
