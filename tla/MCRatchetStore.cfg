\* Two sends and a received message contend for one peer's lock; three
\* optimistic updates of another peer can exhaust two retries.
CONSTANTS
    alice = alice
    bob = bob
    s1 = s1
    s2 = s2
    r1 = r1
    r2 = r2
    o1 = o1
    o2 = o2
    o3 = o3
    Peer = {alice, bob}
    Sender = {s1, s2}
    Receiver = {r1}
    Optimist = {o1, o2, o3}
    PeerOf <- MCPeerOf
    maxRetries = 2
    None = None
SPECIFICATION Spec
INVARIANTS
    TypeOK
    MutualExclusion
PROPERTIES
    ImplementsAtomicSession
    EveryCallEnds
\* Every call is made once; when all have ended nothing is left to do.
CHECK_DEADLOCK FALSE
