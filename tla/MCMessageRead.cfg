\* README.md: "This is for me!", "Decrypt and read".  Alice sends two messages.
CONSTANTS
    alice = alice
    bob = bob
    Client = {alice, bob}
    Bounds <- TwoFromAlice
    MAX_SKIP = 2
    MAX_SKIPPED_KEYS = 1
    NoKey = NoKey
SPECIFICATION Spec
PROPERTY DecryptAndRead
