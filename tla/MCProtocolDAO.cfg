\* A proposal of block 0 is voted on in block 1, queued in block 2 and
\* executed in block 3; until block 4 it can be queued and executed again.
SPECIFICATION Spec
CONSTANTS
    alice = alice
    bob = bob
    carol = carol
    Person = {alice, bob, carol}
    Voter = {bob, carol}
    InitialSigners <- InitialSignersDef
    InitialRequired = 2
    Operation = {o1, o2}
    votingDelay = 1
    votingPeriod = 1
    timelockDelay = 1
    Duration = {1}
    MaxProposals = 2
    MaxCalls = 3
    MaxTime = 4
SYMMETRY Symmetry
CONSTRAINT Small
INVARIANTS
    TypeOK
    ThresholdWithinList
    ExecutionsWereAgreed
    RepeatNeedsTimelock
\* Calls and time are bounded.
CHECK_DEADLOCK FALSE
