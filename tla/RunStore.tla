------------------------------ MODULE RunStore ------------------------------
(* The durable run store: the tables runs, run_leases, checkpoints,          *)
(* interrupts and run_events of SQLiteRunStore (rath/runtime/sqlite.py).     *)
(*                                                                           *)
(* Every mutating method runs inside one BEGIN IMMEDIATE transaction, so     *)
(* each is one atomic action here.  An action is enabled exactly when the    *)
(* method commits a change; a call that raises ConflictError (or returns an  *)
(* existing row) changes nothing and is a stuttering step.                   *)
(*                                                                           *)
(* StoreNext is an open system: any caller, with any worker id, fencing      *)
(* token and expected version, stale or not, may call any method that the    *)
(* rest of the program calls.  DurableRuntime puts the real callers on top.  *)
(*                                                                           *)
(* Time: expires_at is a countdown; `expires_at <= now' is `ttl = 0'.        *)
(*                                                                           *)
(* An operator X_... is a mutation of X, a mistake that some property below  *)
(* must notice; the specification does not use it.                           *)
EXTENDS Integers

CONSTANTS
    Run,             \* run ids, one per Run object a client builds
    Worker,          \* worker ids
    Interrupt,       \* interrupt ids
    Node,            \* node ids of the execution plan
    State,           \* values of the run's JSON state
    LeaseTicks,      \* lease_seconds
    IntTicks,        \* the longest interrupt timeout_seconds
    Nobody,          \* "no row": no holder, no run
    Done,            \* an empty next_nodes tuple
    NoKey,           \* idempotency_key is None
    Decisions,       \* ApprovalDecisionKind
    SessionOf, KeyOf, PriorityOf, CreatedAt, InputOf, EntryOf
                     \* the immutable fields of each Run object

NoDeadline == -1     \* interrupt.expires_at is None

ASSUME RunsAreOrdered  == Run \subseteq Nat
ASSUME TicksPositive   == LeaseTicks \in Nat \ {0} /\ IntTicks \in Nat
ASSUME NobodyIsNoId    == Nobody \notin Worker /\ Nobody \notin Run
ASSUME DecisionKinds   == "reject" \in Decisions /\ "none" \notin Decisions
ASSUME RequestTypes    ==
    /\ PriorityOf \in [Run -> Int]
    /\ CreatedAt \in [Run -> Nat]
    /\ InputOf \in [Run -> State]
    /\ EntryOf \in [Run -> Node]

VARIABLES
    runs,            \* runs[r]: status, version, state, next (head of next_nodes)
    leases,          \* leases[r]: the run_leases row; token 0 is "no row yet"
    checkpoints,     \* checkpoints[r]: the row with the highest sequence (0: none)
    interrupts,      \* interrupts[i]: the row; run = Nobody is "no row"
    events           \* events[r]: highest run_events sequence

storeVars == <<runs, leases, checkpoints, interrupts, events>>

-----------------------------------------------------------------------------
(* Status machine (models.py) *)

Terminal == {"SUCCEEDED", "FAILED", "CANCELLED", "TIMED_OUT"}
Active   == {"QUEUED", "RUNNING", "WAITING", "NEEDS_REVIEW"}
Status   == {"ABSENT"} \cup Active \cup Terminal

CanTransition(s, t) ==
    \/ s = "QUEUED"       /\ t \in {"RUNNING", "CANCELLED", "TIMED_OUT"}
    \/ s = "RUNNING"      /\ t \in {"QUEUED", "WAITING", "SUCCEEDED", "FAILED",
                                    "CANCELLED", "TIMED_OUT", "NEEDS_REVIEW"}
    \/ s = "WAITING"      /\ t \in {"QUEUED", "CANCELLED", "TIMED_OUT", "FAILED"}
    \/ s = "NEEDS_REVIEW" /\ t \in {"QUEUED", "FAILED", "CANCELLED"}

Exists(r) == runs[r].status # "ABSENT"
-----------------------------------------------------------------------------
(* Rows *)

StoreInit ==
    /\ runs = [r \in Run |-> [status |-> "ABSENT", version |-> 0,
                              state |-> InputOf[r], next |-> EntryOf[r]]]
    /\ leases = [r \in Run |-> [active |-> FALSE, holder |-> Nobody,
                                token |-> 0, ttl |-> 0]]
    /\ checkpoints = [r \in Run |-> [sequence |-> 0,
                                     state |-> InputOf[r], next |-> EntryOf[r]]]
    /\ interrupts = [i \in Interrupt |-> [run |-> Nobody, key |-> <<Done, 0>>,
                                          decision |-> "none", ttl |-> NoDeadline]]
    /\ events = [r \in Run |-> 0]

\* Mutation: active is not looked at.
RequiredLease_Inactive(r, w, tok) ==
    leases[r].holder = w /\ leases[r].token = tok /\ leases[r].ttl > 0

\* _required_lease: the caller holds the row, active, unexpired, same token.
RequiredLease(r, w, tok) ==
    /\ leases[r].active
    /\ leases[r].holder = w
    /\ leases[r].token = tok
    /\ leases[r].ttl > 0

\* Mutation: the version is not raised.
WithStatus_SameVersion(r, target) == [runs EXCEPT ![r] = [@ EXCEPT !.status = target]]

\* _update_status: status and version change, state and next stay.
Moved(row, target) == [row EXCEPT !.status = target, !.version = @ + 1]
WithStatus(r, target) == [runs EXCEPT ![r] = Moved(@, target)]

\* UPDATE run_leases SET active = 0.
Deactivated(row) == [row EXCEPT !.active = FALSE]
Released(r) == [leases EXCEPT ![r] = Deactivated(@)]

\* _append_event: MAX(sequence) + 1.
Logged(r) == [events EXCEPT ![r] = @ + 1]

-----------------------------------------------------------------------------
(* Operations *)

\* The partial unique index runs_one_active_per_session_idx.
SessionFree(r) ==
    \A q \in Run : SessionOf[q] = SessionOf[r] => runs[q].status \notin Active

\* Mutation: the key is free again once its run has finished.
KeyUnused_Active(r) ==
    KeyOf[r] = NoKey \/ \A q \in Run : runs[q].status \in Active => KeyOf[q] # KeyOf[r]

\* UNIQUE (tenant_id, idempotency_key); a run without a key never collides.
KeyUnused(r) ==
    KeyOf[r] = NoKey \/ \A q \in Run : Exists(q) => KeyOf[q] # KeyOf[r]

Inserted(row) == [row EXCEPT !.status = "QUEUED"]

\* create_run inserting a new row.  With the key taken it returns the existing
\* row or raises; with the session busy it raises.
CreateRun(r) ==
    /\ ~Exists(r)
    /\ KeyUnused(r)
    /\ SessionFree(r)
    /\ runs' = [runs EXCEPT ![r] = Inserted(@)]
    /\ events' = Logged(r)
    /\ UNCHANGED <<leases, checkpoints, interrupts>>

\* transition_run: compare-and-swap on the version; the lease is not touched.
TransitionRun(r, ver, target) ==
    /\ runs[r].version = ver
    /\ CanTransition(runs[r].status, target)
    /\ runs' = WithStatus(r, target)
    /\ events' = Logged(r)
    /\ UNCHANGED <<leases, checkpoints, interrupts>>

\* claim_next's ORDER BY priority DESC, created_at, id.
Before(r, q) ==
    \/ PriorityOf[r] > PriorityOf[q]
    \/ /\ PriorityOf[r] = PriorityOf[q]
       /\ \/ CreatedAt[r] < CreatedAt[q]
          \/ CreatedAt[r] = CreatedAt[q] /\ r <= q

\* The lease row a claim writes: fencing token 1, or one more than before.
Granted(row, w) ==
    [active |-> TRUE, holder |-> w, token |-> row.token + 1, ttl |-> LeaseTicks]

\* Mutation: the upsert of a second claim leaves active = 0.
ClaimNext_Inactive(r, w) ==
    /\ runs[r].status = "QUEUED"
    /\ runs' = WithStatus(r, "RUNNING")
    /\ leases' = [leases EXCEPT ![r] = [Granted(@, w) EXCEPT !.active = (leases[r].token = 0)]]
    /\ events' = Logged(r)
    /\ UNCHANGED <<checkpoints, interrupts>>

\* Mutation: a reclaimed lease keeps its token.
ClaimNext_SameToken(r, w) ==
    /\ runs[r].status = "QUEUED"
    /\ runs' = WithStatus(r, "RUNNING")
    /\ leases' = [leases EXCEPT ![r] = [Granted(@, w) EXCEPT !.token = 1]]
    /\ events' = Logged(r)
    /\ UNCHANGED <<checkpoints, interrupts>>

ClaimNext(r, w) ==
    /\ runs[r].status = "QUEUED"
    /\ \A q \in Run : runs[q].status = "QUEUED" => Before(r, q)
    /\ runs' = WithStatus(r, "RUNNING")
    /\ leases' = [leases EXCEPT ![r] = Granted(@, w)]
    /\ events' = Logged(r)
    /\ UNCHANGED <<checkpoints, interrupts>>

Renewed(row) == [row EXCEPT !.ttl = LeaseTicks]

RenewLease(r, w, tok) ==
    /\ RequiredLease(r, w, tok)
    /\ leases' = [leases EXCEPT ![r] = Renewed(@)]
    /\ UNCHANGED <<runs, checkpoints, interrupts, events>>

CommitGuard(r, w, tok, ver, seq) ==
    /\ RequiredLease(r, w, tok)
    /\ runs[r].version = ver
    /\ runs[r].status = "RUNNING"
    /\ seq = checkpoints[r].sequence + 1

\* The run row after a checkpoint.
Advanced(row, st, nx) == [row EXCEPT !.state = st, !.next = nx, !.version = @ + 1]

\* Mutation: the run row keeps its next_nodes.
CommitCheckpoint_StaleNext(r, w, tok, ver, seq, st, nx) ==
    /\ CommitGuard(r, w, tok, ver, seq)
    /\ checkpoints' = [checkpoints EXCEPT ![r] =
                          [sequence |-> seq, state |-> st, next |-> nx]]
    /\ runs' = [runs EXCEPT ![r] = [@ EXCEPT !.state = st, !.version = @ + 1]]
    /\ events' = Logged(r)
    /\ UNCHANGED <<leases, interrupts>>

CommitCheckpoint(r, w, tok, ver, seq, st, nx) ==
    /\ CommitGuard(r, w, tok, ver, seq)
    /\ checkpoints' = [checkpoints EXCEPT ![r] =
                          [sequence |-> seq, state |-> st, next |-> nx]]
    /\ runs' = [runs EXCEPT ![r] = Advanced(@, st, nx)]
    /\ events' = Logged(r)
    /\ UNCHANGED <<leases, interrupts>>

FinishGuard(r, w, tok, ver, target) ==
    /\ RequiredLease(r, w, tok)
    /\ runs[r].version = ver
    /\ CanTransition(runs[r].status, target)

FinishClaim(r, w, tok, ver, target) ==
    /\ FinishGuard(r, w, tok, ver, target)
    /\ runs' = WithStatus(r, target)
    /\ leases' = Released(r)
    /\ events' = Logged(r)
    /\ UNCHANGED <<checkpoints, interrupts>>

InterruptGuard(r, ver) ==
    /\ runs[r].version = ver
    /\ CanTransition(runs[r].status, "WAITING")

\* Mutation: the lease stays active while the run waits.
CreateInterrupt_KeepsLease(i, r, ver, key, ttl) ==
    /\ interrupts[i].run = Nobody
    /\ InterruptGuard(r, ver)
    /\ interrupts' = [interrupts EXCEPT ![i] =
                         [run |-> r, key |-> key, decision |-> "none", ttl |-> ttl]]
    /\ runs' = WithStatus(r, "WAITING")
    /\ events' = Logged(r)
    /\ UNCHANGED <<leases, checkpoints>>

\* create_interrupt: not fenced by the lease, only by the version.  The key is
\* what request_interrupt stores in the request: <<node, checkpoint sequence>>.
CreateInterrupt(i, r, ver, key, ttl) ==
    /\ interrupts[i].run = Nobody
    /\ InterruptGuard(r, ver)
    /\ interrupts' = [interrupts EXCEPT ![i] =
                         [run |-> r, key |-> key, decision |-> "none", ttl |-> ttl]]
    /\ runs' = WithStatus(r, "WAITING")
    /\ leases' = Released(r)
    /\ events' = Logged(r)
    /\ UNCHANGED checkpoints

Undecided(r) == {i \in Interrupt : interrupts[i].run = r /\ interrupts[i].decision = "none"}

Decided(row, decision) == [row EXCEPT !.decision = decision]

\* decide_interrupt: no look at the deadline or at who holds the lease.
DecideInterrupt(i, ver, decision) ==
    \E r \in Run :
        /\ interrupts[i].run = r
        /\ interrupts[i].decision = "none"
        /\ runs[r].version = ver
        /\ CanTransition(runs[r].status, "QUEUED")
        /\ interrupts' = [interrupts EXCEPT ![i] = Decided(@, decision)]
        /\ runs' = WithStatus(r, "QUEUED")
        /\ events' = Logged(r)
        /\ UNCHANGED <<leases, checkpoints>>

\* Mutation: the comparison is turned round.
Overdue_Early(i) ==
    interrupts[i].run # Nobody /\ interrupts[i].decision = "none" /\ interrupts[i].ttl > 0

Overdue(i) ==
    /\ interrupts[i].run # Nobody
    /\ interrupts[i].decision = "none"
    /\ interrupts[i].ttl = 0

\* Mutation: the status of the run is not looked at.
TimesOut_AnyStatus(r) == \E i \in Undecided(r) : Overdue(i)

\* The runs an expiry sweep times out: WAITING when the sweep selected its rows.
TimesOut(r) == runs[r].status = "WAITING" /\ \E i \in Undecided(r) : Overdue(i)

\* expire_interrupts, one transaction over all overdue rows.  Two overdue rows
\* of one WAITING run would fail the second compare-and-swap and roll the whole
\* sweep back: the third conjunct.
ExpireInterrupts ==
    /\ \E i \in Interrupt : Overdue(i)
    /\ \A i, j \in Interrupt :
           Overdue(i) /\ Overdue(j) /\ interrupts[i].run = interrupts[j].run
               /\ runs[interrupts[i].run].status = "WAITING" => i = j
    /\ interrupts' = [i \in Interrupt |->
                         IF Overdue(i) THEN Decided(interrupts[i], "reject") ELSE interrupts[i]]
    /\ runs' = [r \in Run |->
                   IF TimesOut(r) THEN Moved(runs[r], "TIMED_OUT") ELSE runs[r]]
    /\ events' = [r \in Run |-> IF TimesOut(r) THEN events[r] + 1 ELSE events[r]]
    /\ UNCHANGED <<leases, checkpoints>>

\* Mutation: the comparison with now is off by one.
Lapsed_Later(r) == leases[r].active /\ leases[r].ttl < 0

Lapsed(r) == leases[r].active /\ leases[r].ttl = 0

\* Lapsed leases whose run goes back to the queue; the others are only released.
Requeued(r) == Lapsed(r) /\ runs[r].status = "RUNNING"

\* Mutation: requeueing does not raise the version.
RequeueExpiredLeases_SameVersion ==
    /\ \E r \in Run : Lapsed(r)
    /\ leases' = [r \in Run |->
                     IF Lapsed(r) THEN Deactivated(leases[r]) ELSE leases[r]]
    /\ runs' = [r \in Run |-> IF Requeued(r) THEN [runs[r] EXCEPT !.status = "QUEUED"]
                                             ELSE runs[r]]
    /\ events' = [r \in Run |-> IF Requeued(r) THEN events[r] + 1 ELSE events[r]]
    /\ UNCHANGED <<checkpoints, interrupts>>

\* requeue_expired_leases, one transaction over all lapsed leases.
RequeueExpiredLeases ==
    /\ \E r \in Run : Lapsed(r)
    /\ leases' = [r \in Run |->
                     IF Lapsed(r) THEN Deactivated(leases[r]) ELSE leases[r]]
    /\ runs' = [r \in Run |->
                   IF Requeued(r) THEN Moved(runs[r], "QUEUED") ELSE runs[r]]
    /\ events' = [r \in Run |-> IF Requeued(r) THEN events[r] + 1 ELSE events[r]]
    /\ UNCHANGED <<checkpoints, interrupts>>

AppendRunEvent(r) ==
    /\ Exists(r)
    /\ events' = Logged(r)
    /\ UNCHANGED <<runs, leases, checkpoints, interrupts>>

\* The wall clock: deadlines that some method still compares with now come one
\* tick closer (those of released leases and decided interrupts are never read).
CountDown_PastZero(t) == t - 1                 \* mutation
CountDown(t) == IF t > 0 THEN t - 1 ELSE t

Aged(row) == [row EXCEPT !.ttl = CountDown(@)]

TickedLeases ==
    [r \in Run |-> IF leases[r].active THEN Aged(leases[r]) ELSE leases[r]]

TickedInterrupts ==
    [i \in Interrupt |->
        IF interrupts[i].decision = "none" THEN Aged(interrupts[i]) ELSE interrupts[i]]

StoreTick ==
    /\ leases' = TickedLeases
    /\ interrupts' = TickedInterrupts
    /\ UNCHANGED <<runs, checkpoints, events>>
-----------------------------------------------------------------------------
(* The open system.  A call that presents another version or token than the  *)
(* row has is refused and changes nothing, so the calls that matter present  *)
(* the row's.  transition_run is called with three targets only: the cancel  *)
(* handler, the resume handler (for a run it read as NEEDS_REVIEW) and       *)
(* reconcile_stale_effects (for a run it read as RUNNING); a caller that     *)
(* presents the current version has read the current status.                 *)

Control(r, ver) ==
    \/ TransitionRun(r, ver, "CANCELLED")
    \/ runs[r].status = "NEEDS_REVIEW" /\ TransitionRun(r, ver, "QUEUED")
    \/ runs[r].status = "RUNNING" /\ TransitionRun(r, ver, "NEEDS_REVIEW")

WorkerTargets == {"SUCCEEDED", "FAILED", "TIMED_OUT"}

HolderOps(r, w, tok, ver) ==
    \/ RenewLease(r, w, tok)
    \/ \E target \in WorkerTargets : FinishClaim(r, w, tok, ver, target)
    \/ \E st \in State, nx \in Node \cup {Done} :
          CommitCheckpoint(r, w, tok, ver, checkpoints[r].sequence + 1, st, nx)

StoreNext ==
    \/ \E r \in Run : CreateRun(r) \/ AppendRunEvent(r)
    \/ \E r \in Run : Control(r, runs[r].version)
    \/ \E r \in Run, w \in Worker : ClaimNext(r, w)
    \/ \E r \in Run, w \in Worker : HolderOps(r, w, leases[r].token, runs[r].version)
    \/ \E i \in Interrupt, r \in Run, n \in Node, ttl \in {NoDeadline} \cup 1..IntTicks :
           CreateInterrupt(i, r, runs[r].version, <<n, checkpoints[r].sequence + 1>>, ttl)
    \/ \E i \in Interrupt, r \in Run, d \in Decisions :
           DecideInterrupt(i, runs[r].version, d)
    \/ ExpireInterrupts
    \/ RequeueExpiredLeases
    \/ StoreTick

StoreSpec == StoreInit /\ [][StoreNext]_storeVars
-----------------------------------------------------------------------------
(* Correctness *)

RunRow == [status : Status, version : Nat, state : State, next : Node \cup {Done}]
LeaseRow == [active : BOOLEAN, holder : Worker \cup {Nobody}, token : Nat, ttl : Nat]
CheckpointRow == [sequence : Nat, state : State, next : Node \cup {Done}]
InterruptRow == [run : Run \cup {Nobody}, key : (Node \cup {Done}) \X Nat,
                 decision : {"none"} \cup Decisions, ttl : Nat \cup {NoDeadline}]

\* Every table holds rows of its schema (sqlite.py, _SCHEMA).
StoreTypeOK ==
    /\ runs \in [Run -> RunRow]
    /\ leases \in [Run -> LeaseRow]
    /\ checkpoints \in [Run -> CheckpointRow]
    /\ interrupts \in [Interrupt -> InterruptRow]
    /\ events \in [Run -> Nat]

\* A RUNNING run always has an active lease, so requeue_expired_leases, which
\* only looks at active leases, can recover it after its worker is gone.
RunningIsRecoverable ==
    \A r \in Run : runs[r].status = "RUNNING" => leases[r].active

\* A run waits for exactly one open question: while it is WAITING there is one
\* undecided interrupt, nobody holds its lease, and an undecided interrupt of a
\* run that is not WAITING belongs to a cancelled one.  decide_interrupt and
\* expire_interrupts rely on it (one overdue row per run, no late decision can
\* requeue a run that is executing).
OneOpenQuestion ==
    /\ \A r \in Run : runs[r].status = "WAITING" =>
           /\ ~leases[r].active
           /\ \E i \in Undecided(r) : \A j \in Undecided(r) : i = j
    /\ \A r \in Run : Undecided(r) # {} => runs[r].status \in {"WAITING", "CANCELLED"}

\* latest_checkpoint and the run row agree: a worker that claims the run resumes
\* from the state and the node of the last committed checkpoint.
ResumesAtCheckpoint ==
    \A r \in Run : /\ runs[r].state = checkpoints[r].state
                   /\ runs[r].next = checkpoints[r].next

\* A session never has two active runs, whatever transitions they take
\* (runs_one_active_per_session_idx is only consulted when a row is inserted or
\* its status changes).
OneActivePerSession ==
    \A r, q \in Run :
        /\ runs[r].status \in Active
        /\ runs[q].status \in Active
        /\ SessionOf[r] = SessionOf[q]
        => r = q

\* Retried submissions under one idempotency key create one run.
OneRunPerKey ==
    \A r, q \in Run :
        Exists(r) /\ Exists(q) /\ KeyOf[r] = KeyOf[q] /\ KeyOf[r] # NoKey => r = q

\* Whatever is submitted, retried, reviewed and resumed, a session has one
\* active run and a key one run.
RunsAreUnique == OneActivePerSession /\ OneRunPerKey

\* A finished run never changes again: no late commit, decision, sweep or claim
\* alters its row or its last checkpoint.
TerminalStays ==
    \A r \in Run : runs[r].status \in Terminal =>
        runs'[r] = runs[r] /\ checkpoints'[r] = checkpoints[r]
TerminalIsFinal == [][TerminalStays]_storeVars

\* The version is what makes compare-and-swap sound: any change of an existing
\* run's row raises its version by one, so a stale expected_version is noticed.
EveryChangeBumpsVersion ==
    [][\A r \in Run : Exists(r) /\ runs'[r] # runs[r] =>
           runs'[r].version = runs[r].version + 1]_storeVars

\* Fencing tokens only grow, and a lease that changes hands or becomes active
\* again has a new token: an old holder can never be mistaken for the new one.
NewHolderNewToken ==
    [][\A r \in Run :
           /\ leases'[r].token >= leases[r].token
           /\ (leases'[r].holder # leases[r].holder \/ (leases'[r].active /\ ~leases[r].active))
                  => leases'[r].token = leases[r].token + 1]_storeVars

\* A decision, once recorded, is never changed: not by a second reviewer and not
\* by the expiry sweep.
DecisionsStand ==
    \A i \in Interrupt : interrupts[i].decision # "none" =>
        /\ interrupts'[i].decision = interrupts[i].decision
        /\ interrupts'[i].run = interrupts[i].run
DecisionIsFinal == [][DecisionsStand]_storeVars

\* What has ended is over: neither a finished run nor a decision ever changes.
PastIsFinal == [][TerminalStays /\ DecisionsStand]_storeVars

Lifecycle == INSTANCE RunLifecycle WITH
    status <- [r \in Run |-> runs[r].status],
    attempt <- [r \in Run |-> leases[r].token]

\* The store implements the life cycle that RunLifecycle promises: a run is
\* handed out only from the queue and under a new fencing token, a waiting run
\* never fails, and only an executing run succeeds.
ImplementsLifecycle == Lifecycle!Spec
=============================================================================
