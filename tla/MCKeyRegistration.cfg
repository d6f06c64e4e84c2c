\* Alice draws one key set, Bob two, so that Bob registers again while Alice
\* writes to him.  One batch of pre-keys can be of two, half used and refilled;
\* one tick is one rotation interval.
SPECIFICATION BackupSpec
CONSTANTS
    alice = alice
    bob = bob
    Account = {alice, bob}
    Key <- KeyDef
    NoKey = NoKey
    MaxKeys <- MaxKeysDef
    MaxCount <- MaxCountDef
    MIN_UPDATE_INTERVAL = 1
    MaxTime = 1
    MaxGreetings = 2
    MaxBackups = 2
INVARIANTS
    TypeOK
    RemainingCoversAvailable
    SessionsAgree
    StoredWasRegistered
    AnswerableUnlessInterrupted
    BackupsWereRegistered
\* Keys, time and greetings are bounded, and nobody need call the contract.
CHECK_DEADLOCK FALSE
