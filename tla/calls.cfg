SPECIFICATION Spec
CONSTANTS
    Calls = {c1, c2}
    Sessions = {s1, s2}
    NoSession = NoSession
    TTL = 1
    RequestSpan = 1
    MaxTurns = 1
SYMMETRY Symmetry
VIEW ReachableState
INVARIANT TurnKeepsSession
INVARIANT EndedCallIsReported
INVARIANT AtMostOneRevision
PROPERTY NoSessionReplaced
PROPERTY ImplementsLog
