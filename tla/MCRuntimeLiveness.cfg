SPECIFICATION FairSpec
CONSTANTS
    Run = {1}
    Worker = {w1, w2}
    Interrupt = {i1}
    Invocation = {v1}
    Node <- MCNode
    State <- MCState
    LeaseTicks = 1
    IntTicks = 1
    GraceTicks = 1
    Nobody = Nobody
    Done = Done
    NoKey = NoKey
    Decisions = {"reject"}
    s1 = s1
    Entry = "ask"
    Effect = "IDEMPOTENT"
    CallKey = "key"
    SessionOf <- MCSessionOf
    KeyOf <- MCKeyOf
    PriorityOf <- MCPriorityOf
    CreatedAt <- MCCreatedAt
    InputOf <- MCInputOf
    EntryOf <- MCEntryOf
    EffectOf <- MCEffectOf
    CallKeyOf <- MCCallKeyOf
    Successors <- MCSuccessors
    Checkpointed = {"call"}
    Asks = {"ask"}
    Calls = {"call"}
    MaxAttempts = 2
    ApiOps = {"cancel"}
    MaxCrashes = 1
    MaxLate = 0
PROPERTIES EveryRunSettles DeadlinesAreKept CancelledRunsAreDropped
