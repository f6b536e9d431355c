SPECIFICATION Spec
CONSTANTS
    a1 = a1
    a2 = a2
    t1 = t1
    t2 = t2
    o1 = o1
    o2 = o2
    Agents <- MCAgents
    LocalAgents <- MCLocalAgents
    OwnerOf <- MCOwnerOf
    Answers <- MCAnswers
    Turns <- MCTurns
    TTL = 1
    RequestSpan = 1
    MaxClock = 5
    Default = Default
    NoAgent = NoAgent
    Shared = Shared
    Local = Local
    Single = Single
    NoSession = NoSession
SYMMETRY Symmetry
INVARIANTS ContextIsFresh AgentIsKept PartsBelong
