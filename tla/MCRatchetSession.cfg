\* Five messages one way are one more than can be skipped (3), cached at once
\* (3) or kept (2), so every limit is met; one the other way makes
\* prevChainLen vary and exercises the swapped chains.
CONSTANTS
    MAX_SKIP = 3
    MAX_SKIPPED_KEYS = 2
    NoKey = NoKey
    MaxSend <- MCMaxSend
    MaxForeign = 2
    maxAge = 1
SPECIFICATION Spec
INVARIANTS
    TypeOK
    NoReplay
    UnreadStillOpens
    OnlyRootLeadsBack
