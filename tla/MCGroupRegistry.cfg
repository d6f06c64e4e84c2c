\* Three commitments, bytes32(0) among them: enough for a removal from the
\* first, the middle and the last slot, and for the moved member to be
\* removed and added again.  MaxMembers leaves one slot that is never needed.
CONSTANTS
    g1 = g1
    alice = alice
    bob = bob
    zero = zero
    c1 = c1
    c2 = c2
    root1 = root1
    k1 = k1
    k2 = k2
    Group = {g1}
    Account = {alice, bob}
    Commitment = {zero, c1, c2}
    Root = {root1}
    Ciphertext = {k1, k2}
    NoAccount = NoAccount
    ZeroCommitment = zero
    ZeroRoot = root1
    Empty = Empty
    MaxMembers = 4
    MaxEpoch = 3
SPECIFICATION Spec
SYMMETRY Symmetry
INVARIANTS
    TypeOK
    IndexBijection
PROPERTY ImplementsRoster
