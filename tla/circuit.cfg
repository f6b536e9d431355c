SPECIFICATION FairSpec
CONSTANTS
    Ops = {o1, o2, o3, o4}
    Threshold = 3
    Cooldown = 3
    BackoffSpan = 2
    MaxAttempts = 3
    None = None
INVARIANTS OpenAtThreshold LateFailuresBounded NoRetryProbes
PROPERTIES ImplementsBreaker QuietCircuitHolds CircuitRecovers
