SPECIFICATION Spec
CONSTANTS
    alice = alice
    bob = bob
    a1 = a1
    a2 = a2
    register = register
    Account = {alice, bob}
    Storage = {a1, a2, register}
    PageStorage = {a1, a2}
    addressOf <- AddressDef
    Writes <- WritesDef
    Data <- DataDef
    Entry = {"keys", "conversations", "messages"}
    Kind = {"conversations", "messages"}
    NotLoaded = NotLoaded
    NoAccount = NoAccount
    NoStorage = NoStorage
    MaxHistory = 2
    MaxPuts = 4
    MaxChanges = 2
PROPERTIES
    EveryEntryIsTracked

SYMMETRY Symmetry
CONSTRAINT Small
