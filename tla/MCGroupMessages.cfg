SPECIFICATION Spec
CONSTANTS
    alice = alice
    bob = bob
    deployer = deployer
    x1 = x1
    m1 = m1
    m2 = m2
    x2 = x2
    Group = {g1, g2}
    g1 = g1
    g2 = g2
    Account = {deployer}
    owner = deployer
    ZeroNullifier <- ZeroNullifierDef
    ViewTag = {0, 1}
    MAX_MESSAGES_PER_VIEW_TAG = 2
    MAX_BATCH_SIZE = 2
    MaxUint = 5
    TREE_HEIGHT = 2
    ZeroLeaf = ZeroLeaf
    n = 7
    keccak256 <- KeccakDef
    ViewTags = 2
    Invalid = Invalid
    Member = {m1, m2}
    Recipient = {alice, bob}
    reader = alice
    viewingKey <- ViewingDef
    spendingKey <- SpendingDef
    Ephemeral = {1}
    DirectNullifier <- DirectNullifierDef
    NoProof = NoProof
    NoSend = NoSend
    NoRoot = NoRoot
    Bounds <- BoundsDef
SYMMETRY Symmetry
INVARIANTS
    TypeOK
    NullifierOnce
    PagesCoverLog
    TreeIsRight
    PathOpensUnlessInserted
    ReaderRecognises
    ScanIsComplete
    LostDirectExplained
CHECK_DEADLOCK FALSE
