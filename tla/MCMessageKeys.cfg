\* README.md: "Each message uses a new key."
CONSTANTS
    alice = alice
    bob = bob
    Client = {alice, bob}
    Bounds <- Reloaded
    MAX_SKIP = 2
    MAX_SKIPPED_KEYS = 1
    NoKey = NoKey
SPECIFICATION Spec
INVARIANT EachMessageNewKey
