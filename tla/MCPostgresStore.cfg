SPECIFICATION PgSpec
CONSTANTS
    Run = {1}
    Worker = {w1, w2}
    Interrupt = {i1}
    Api = {a1}
    Node = {"n1"}
    State = {"input"}
    LeaseTicks = 1
    IntTicks = 1
    Nobody = Nobody
    Done = Done
    NoKey = NoKey
    Decisions = {"reject"}
    s1 = s1
    MaxVersion = 4
    MaxVersions = 4
    MaxExtra = 1
    SessionOf <- MCSessionOf
    KeyOf <- MCKeyOf
    PriorityOf <- MCPriorityOf
    CreatedAt <- MCCreatedAt
    InputOf <- MCInputOf
    EntryOf <- MCEntryOf
CONSTRAINT Bounded
SYMMETRY WorkerSymmetry
CHECK_DEADLOCK FALSE
INVARIANTS PgTypeOK OnlyResumedRunsDeadlock
PROPERTIES SequencesAreFresh EveryChangeBumpsVersion ImplementsLifecycle
