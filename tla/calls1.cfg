SPECIFICATION FairSpec
CONSTANTS
    Calls = {c1}
    Sessions = {s1, s2}
    NoSession = NoSession
    TTL = 1
    RequestSpan = 1
    MaxTurns = 2
PROPERTY WebhookAnswered
PROPERTY EventuallyReported
