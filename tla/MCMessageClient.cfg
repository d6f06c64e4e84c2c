\* Either three messages of Alice, posted out of order with one missing, and one
\* of Bob that crosses them (both start a session) or answers them, and either
\* reloads; or six of Alice, more than the cache keeps and more than it takes.
CONSTANTS
    alice = alice
    bob = bob
    Client = {alice, bob}
    Bounds <- Instances
    MAX_SKIP = 2
    MAX_SKIPPED_KEYS = 1
    NoKey = NoKey
SPECIFICATION Spec
INVARIANTS
    TypeOK
    KeyReuseNeedsReload
    OpenedOnce
    ReceivedWasSent
PROPERTY AbortExplained
