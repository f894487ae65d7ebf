CONSTANTS
    k1 = k1
    k2 = k2
    n1 = n1
    n2 = n2
    n3 = n3
    Keys <- OneKeys
    Names <- MCNames
    KeyNames <- OneKeyNames
    InitFinalizers <- MCInitFinalizers
    streamFinalizerKey = streamFinalizerKey
    consumerFinalizerKey = consumerFinalizerKey
    Absent = Absent
    MaxGen = 3
    MaxRetries = 2
    Workers = 1
    CallsMayFail = TRUE

SPECIFICATION Spec

\* A controller with nothing to do waits for the next watch event.
CHECK_DEADLOCK FALSE

INVARIANT TypeOK
INVARIANT ReadyImpliesFinalizer
INVARIANT ReconciledImpliesRemote
INVARIANT RetriesOnlyWhilePending
PROPERTY FinalizerReleasedAfterRemoteDeleted
PROPERTY ControllerKeepsUserFields
PROPERTY ProtectedConsumerKept
