SPECIFICATION StoreSpec
CONSTANTS
    Run = {1, 2, 3}
    Worker = {w1, w2}
    Interrupt = {i1, i2}
    Node = {"n1"}
    State = {"input", "output"}
    LeaseTicks = 1
    IntTicks = 1
    Nobody = Nobody
    Done = Done
    NoKey = NoKey
    Decisions = {"approve", "reject"}
    s1 = s1
    s2 = s2
    k1 = k1
    MaxVersion = 6
    MaxVersions = 6
    MaxExtraEvents = 0
    SessionOf <- MCSessionOf
    KeyOf <- MCKeyOf
    PriorityOf <- MCPriorityOf
    CreatedAt <- MCCreatedAt
    InputOf <- MCInputOf
    EntryOf <- MCEntryOf
CONSTRAINT Bounded
SYMMETRY IdSymmetry
CHECK_DEADLOCK FALSE
INVARIANTS StoreTypeOK RunningIsRecoverable OneOpenQuestion ResumesAtCheckpoint RunsAreUnique
PROPERTIES PastIsFinal EveryChangeBumpsVersion NewHolderNewToken ImplementsLifecycle
