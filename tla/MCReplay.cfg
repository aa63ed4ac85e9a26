SPECIFICATION Spec
CONSTANTS
    Run = {1}
    Worker = {w1, w2}
    Interrupt = {i1}
    Invocation = {v1, v2}
    Node <- MCNode
    State <- MCState
    LeaseTicks = 2
    IntTicks = 1
    GraceTicks = 2
    Nobody = Nobody
    Done = Done
    NoKey = NoKey
    Decisions = {"reject"}
    s1 = s1
    Entry = "call"
    Effect = "NON_IDEMPOTENT"
    CallKey = NoKey
    SessionOf <- MCSessionOf
    KeyOf <- MCKeyOf
    PriorityOf <- MCPriorityOf
    CreatedAt <- MCCreatedAt
    InputOf <- MCInputOf
    EntryOf <- MCEntryOf
    EffectOf <- MCEffectOf
    CallKeyOf <- MCCallKeyOf
    Successors <- MCSuccessors
    Checkpointed = {"call"}
    Asks = {}
    Calls = {"call"}
    MaxAttempts = 1
    ApiOps = {}
    MaxCrashes = 1
    MaxLate = 0
INVARIANT NeverReplayed
