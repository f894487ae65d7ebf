\* Two Consumer objects with their own remote consumers, two workers, no
\* spec edits.  Checks the inductive invariant behind the refinement and
\* that the controller implements ConsumerLifecycle.
CONSTANTS
    k1 = k1
    k2 = k2
    n1 = n1
    n2 = n2
    n3 = n3
    Keys <- TwoKeys
    Names <- MCNames
    KeyNames <- TwoKeyNames
    InitFinalizers <- BareInitFinalizers
    streamFinalizerKey = streamFinalizerKey
    consumerFinalizerKey = consumerFinalizerKey
    Absent = Absent
    MaxGen = 1
    MaxRetries = 1
    Workers = 2
    CallsMayFail = TRUE

SPECIFICATION Spec

\* A controller with nothing to do waits for the next watch event.
CHECK_DEADLOCK FALSE

INVARIANT RInv
PROPERTY LifecycleSpec
