SPECIFICATION Spec
CONSTANTS
    Run = {1}
    Worker = {w1, w2}
    Interrupt = {i1}
    Invocation = {v1}
    Node <- MCNode
    State <- MCState
    LeaseTicks = 1
    IntTicks = 1
    GraceTicks = 1
    Nobody = Nobody
    Done = Done
    NoKey = NoKey
    Decisions = {"reject"}
    s1 = s1
    Entry = "ask"
    Effect = "NON_IDEMPOTENT"
    CallKey = "key"
    SessionOf <- MCSessionOf
    KeyOf <- MCKeyOf
    PriorityOf <- MCPriorityOf
    CreatedAt <- MCCreatedAt
    InputOf <- MCInputOf
    EntryOf <- MCEntryOf
    EffectOf <- MCEffectOf
    CallKeyOf <- MCCallKeyOf
    Successors <- MCSuccessors
    Checkpointed = {"call"}
    Asks = {"ask"}
    Calls = {}
    MaxAttempts = 1
    ApiOps = {"cancel", "decide"}
    MaxCrashes = 0
    MaxLate = 1
VIEW View
SYMMETRY WorkerSymmetry
INVARIANTS RuntimeTypeOK CurrentCopyHoldsLease CommittedPath
PROPERTIES ImplementsStore
