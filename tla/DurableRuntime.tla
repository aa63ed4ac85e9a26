---------------------------- MODULE DurableRuntime ---------------------------
(* The durable runtime: worker loops (server/cli.py worker_main and           *)
(* server/app.py worker_loop) that sweep, claim and execute runs through      *)
(* LocalRuntime.work_once, their heartbeat threads, ToolExecutor calls made   *)
(* by steps, and the HTTP handlers that control runs, all over one RunStore   *)
(* and one EffectLedger.                                                      *)
(*                                                                            *)
(* One action is one database transaction or one external call; everything a  *)
(* worker keeps between two of them (its snapshot of the run, the checkpoint  *)
(* sequence, the invocation) is in wk[w] and may be stale when it is used.    *)
EXTENDS EffectLedger

CONSTANTS
    Successors,      \* Successors[n]: what a step may lead to; {Done} at an end
    Checkpointed,    \* nodes with node.checkpoint
    Asks,            \* nodes whose step calls context.interrupt
    Calls,           \* nodes whose step calls a tool through ToolExecutor
    MaxAttempts,     \* node.retry.max_attempts
    ApiOps,          \* the control handlers that clients call
    MaxCrashes,      \* bound: worker processes killed while holding a claim
    MaxLate          \* bound: heartbeats that are late or raise

ASSUME PlanConstants ==
    /\ State = SUBSET Node                        \* the state: which steps were done
    /\ \A r \in Run : InputOf[r] = {}
    /\ Successors \in [Node -> SUBSET (Node \cup {Done})]
    /\ \A n \in Node : Successors[n] # {}
    /\ Checkpointed \subseteq Node /\ Asks \subseteq Node /\ Calls \subseteq Node
    /\ MaxAttempts \in Nat \ {0} /\ MaxCrashes \in Nat /\ MaxLate \in Nat
    /\ ApiOps \subseteq {"cancel", "resume", "decide"}
    /\ Done \notin Node

VARIABLES
    wk,              \* wk[w]: what the worker process w keeps in memory
    api,             \* the control request in flight: what its handler has read
    applied,         \* applied[r][n]: external effects of the tool call of node n
    crashes, late    \* faults so far

vars == <<storeVars, ledger, wk, api, applied, crashes, late>>

-----------------------------------------------------------------------------
(* Worker memory *)

Idle == [pc |-> "expire", run |-> Nobody, token |-> 0, version |-> 0,
         state |-> {}, next |-> Done, sequence |-> 0, attempt |-> 1,
         asked |-> FALSE, called |-> FALSE, inv |-> Nobody,
         exc |-> "none", beating |-> FALSE, review |-> {}]

NoRequest == [op |-> "none", run |-> Nobody, int |-> Nobody, version |-> 0]

\* pcs between claim_next and the end of _execute_claim: the heartbeat runs.
InStep == {"step", "suspend", "dispatch", "call", "toolfail", "complete", "raised"}
Executing == {"check", "load", "commit", "finish"} \cup InStep
Loop == {"expire", "reconcile", "review", "flag", "requeue", "claim"}

Init ==
    /\ StoreInit
    /\ LedgerInit
    /\ wk = [w \in Worker |-> Idle]
    /\ api = NoRequest
    /\ applied = [r \in Run |-> [n \in Node |-> 0]]
    /\ crashes = 0
    /\ late = 0

At(w, pc) == wk[w].pc = pc
Set(w, rec) == wk' = [wk EXCEPT ![w] = rec]
Goto(w, pc) == Set(w, [wk[w] EXCEPT !.pc = pc])
Leave(w) == Set(w, Idle)
Raise(w, pc, kind) == Set(w, [wk[w] EXCEPT !.pc = pc, !.exc = kind])

R(w) == wk[w].run
N(w) == wk[w].next

Faults == <<crashes, late>>
Others == <<api, applied, crashes, late>>
ExceptKinds == {"error", "timeout"}

-----------------------------------------------------------------------------
(* The worker loop: expire_interrupts, reconcile_effects,                    *)
(* requeue_expired_leases, work_once, in this order.                         *)

SweepInterrupts(w) ==
    /\ At(w, "expire")
    /\ \/ ExpireInterrupts
       \/ (\A i \in Interrupt : ~Overdue(i)) /\ UNCHANGED storeVars
    /\ Goto(w, "reconcile")
    /\ UNCHANGED <<ledger, Others>>

\* reconcile_stale_effects, first transaction: the ledger.
SweepEffects(w) ==
    /\ At(w, "reconcile")
    /\ ReconcileStale
    /\ Set(w, [wk[w] EXCEPT !.pc = "review", !.review = NewlyAmbiguous])
    /\ UNCHANGED <<storeVars, Others>>

\* Then, per ambiguous invocation, get_run ...
ReviewRead(w) ==
    /\ At(w, "review")
    /\ \/ wk[w].review = {} /\ Goto(w, "requeue")
       \/ \E r \in wk[w].review :
             IF runs[r].status = "RUNNING"
             THEN Set(w, [wk[w] EXCEPT !.pc = "flag", !.run = r,
                                       !.version = runs[r].version])
             ELSE Set(w, [wk[w] EXCEPT !.review = @ \ {r}])
    /\ UNCHANGED <<storeVars, ledger, Others>>

\* ... and transition_run, whose ConflictError is swallowed.
ReviewFlag(w) ==
    /\ At(w, "flag")
    /\ \/ TransitionRun(R(w), wk[w].version, "NEEDS_REVIEW")
       \/ runs[R(w)].version # wk[w].version /\ UNCHANGED storeVars
    /\ Set(w, [Idle EXCEPT !.pc = "review", !.review = wk[w].review \ {R(w)}])
    /\ UNCHANGED <<ledger, Others>>

SweepLeases(w) ==
    /\ At(w, "requeue")
    /\ \/ RequeueExpiredLeases
       \/ (\A r \in Run : ~Lapsed(r)) /\ UNCHANGED storeVars
    /\ Goto(w, "claim")
    /\ UNCHANGED <<ledger, Others>>

Claim(w) ==
    /\ At(w, "claim")
    /\ \/ \E r \in Run :
             /\ ClaimNext(r, w)
             /\ Set(w, [Idle EXCEPT !.pc = "check", !.run = r, !.beating = TRUE,
                                    !.token = leases[r].token + 1,
                                    !.version = runs[r].version + 1,
                                    !.state = runs[r].state, !.next = runs[r].next])
       \/ (\A r \in Run : runs[r].status # "QUEUED") /\ Leave(w) /\ UNCHANGED storeVars
    /\ UNCHANGED <<ledger, Others>>
-----------------------------------------------------------------------------
(* _execute_claim: one turn of its loop per node.  A claimed run whose       *)
(* next_nodes is already empty skips the loop.                               *)

CheckDurable(w) ==
    /\ At(w, "check")
    /\ LET durable == runs[R(w)] IN
       \/ N(w) = Done /\ Goto(w, "finish")
       \/ /\ N(w) # Done
          /\ \/ durable.status \in Terminal /\ Leave(w)
             \/ /\ durable.status \notin Terminal
                /\ IF durable.version # wk[w].version
                   THEN Raise(w, "except", "error") ELSE Goto(w, "load")
    /\ UNCHANGED <<storeVars, ledger, Others>>

\* The plan is not registered here, its hash differs from the checkpoint's, a
\* read of the run or its plan fails, or context.ensure_active finds the
\* deadline exceeded.
CannotRun(w) ==
    /\ At(w, "check")
    /\ \E kind \in ExceptKinds : (kind = "timeout" => N(w) # Done) /\ Raise(w, "except", kind)
    /\ UNCHANGED <<storeVars, ledger, Others>>

LoadCheckpoint(w) ==
    /\ At(w, "load")
    /\ Set(w, [wk[w] EXCEPT !.pc = "step", !.sequence = checkpoints[R(w)].sequence + 1,
                            !.attempt = 1, !.asked = FALSE, !.called = FALSE])
    /\ UNCHANGED <<storeVars, ledger, Others>>

\* The step's handler may raise at any point between its calls.
StepRaises(w) ==
    /\ At(w, "step")
    /\ \E kind \in ExceptKinds : Raise(w, "raised", kind)
    /\ UNCHANGED <<storeVars, ledger, Others>>

\* Mutations: one attempt too many; a failed attempt is neither logged nor counted.
AttemptFailed_OneMore(w) ==
    /\ At(w, "raised")
    /\ AppendRunEvent(R(w))
    /\ IF wk[w].attempt <= MaxAttempts
       THEN Set(w, [wk[w] EXCEPT !.pc = "step", !.attempt = @ + 1, !.exc = "none"])
       ELSE Goto(w, "except")
    /\ UNCHANGED <<ledger, Others>>

AttemptFailed_NoLimit(w) ==
    /\ At(w, "raised")
    /\ Set(w, [wk[w] EXCEPT !.pc = "step", !.exc = "none"])
    /\ UNCHANGED <<storeVars, ledger, Others>>

\* PythonStepExecutor: log the failed attempt, then retry or give up.
AttemptFailed(w) ==
    /\ At(w, "raised")
    /\ AppendRunEvent(R(w))
    /\ IF wk[w].attempt < MaxAttempts
       THEN Set(w, [wk[w] EXCEPT !.pc = "step", !.attempt = @ + 1, !.asked = FALSE,
                                 !.called = FALSE, !.inv = Nobody, !.exc = "none"])
       ELSE Goto(w, "except")
    /\ UNCHANGED <<ledger, Others>>

Question(w) == <<N(w), wk[w].sequence>>

\* request_interrupt: look for an interrupt of this node and checkpoint.
AskInterrupt(w) ==
    /\ At(w, "step")
    /\ N(w) \in Asks /\ ~wk[w].asked
    /\ LET found == {i \in Interrupt : interrupts[i].run = R(w)
                                       /\ interrupts[i].key = Question(w)}
       IN \/ found = {} /\ Goto(w, "suspend")
          \/ \E i \in found :
                IF interrupts[i].decision = "none"
                THEN Leave(w)                              \* StepSuspended
                ELSE Set(w, [wk[w] EXCEPT !.asked = TRUE])
    /\ UNCHANGED <<storeVars, ledger, Others>>

\* create_interrupt, then StepSuspended ends work_once.
Suspend(w) ==
    /\ At(w, "suspend")
    /\ \/ /\ \E i \in Interrupt, ttl \in {NoDeadline} \cup 1..IntTicks :
                CreateInterrupt(i, R(w), wk[w].version, Question(w), ttl)
          /\ Leave(w)
       \/ /\ ~InterruptGuard(R(w), wk[w].version)
          /\ Raise(w, "raised", "error")
          /\ UNCHANGED storeVars
    /\ UNCHANGED <<ledger, Others>>
-----------------------------------------------------------------------------
(* ToolExecutor.execute.  No part of it looks at the lease or the run.       *)

ReadyToCall(w) ==
    /\ At(w, "step")
    /\ N(w) \in Calls /\ ~wk[w].called
    /\ N(w) \in Asks => wk[w].asked

\* Mutation: a call that was dispatched before counts as done.
PrepareCall_TrustsDispatched(w) ==
    /\ ReadyToCall(w)
    /\ \/ \E i \in Invocation :
             /\ Prepare(i, R(w), N(w))
             /\ Set(w, [wk[w] EXCEPT !.pc = "dispatch", !.inv = i])
       \/ /\ \E i \in Keyed(R(w), N(w)) :
                IF ledger[i].status \in {"SUCCEEDED", "DISPATCHED"}
                THEN Set(w, [wk[w] EXCEPT !.called = TRUE])
                ELSE Raise(w, "raised", "error")
          /\ UNCHANGED ledger
    /\ UNCHANGED <<storeVars, Others>>

\* prepare and what execute does with the row it returns.
PrepareCall(w) ==
    /\ ReadyToCall(w)
    /\ \/ \E i \in Invocation :
             /\ Prepare(i, R(w), N(w))
             /\ Set(w, [wk[w] EXCEPT !.pc = "dispatch", !.inv = i])
       \/ /\ \E i \in Keyed(R(w), N(w)) :
                IF ledger[i].node # N(w) THEN Raise(w, "raised", "error")
                ELSE CASE ledger[i].status = "SUCCEEDED" ->
                              Set(w, [wk[w] EXCEPT !.called = TRUE])
                       [] ledger[i].status \in {"AMBIGUOUS", "DISPATCHED"} ->
                              Raise(w, "raised", "error")
                       [] OTHER -> Set(w, [wk[w] EXCEPT !.pc = "dispatch", !.inv = i])
          /\ UNCHANGED ledger
    /\ UNCHANGED <<storeVars, Others>>

DispatchCall(w) ==
    /\ At(w, "dispatch")
    /\ \/ MarkDispatched(wk[w].inv) /\ Goto(w, "call")
       \/ /\ ~Expected(wk[w].inv, {"PREPARED"})
          /\ Raise(w, "raised", "error") /\ UNCHANGED ledger
    /\ UNCHANGED <<storeVars, Others>>

\* The tool's handler takes effect, or fails with or without having done so.
HandlerReturns(w) ==
    /\ At(w, "call")
    /\ applied' = [applied EXCEPT ![R(w)][N(w)] = @ + 1]
    /\ Goto(w, "complete")
    /\ UNCHANGED <<storeVars, ledger, api, Faults>>

HandlerRaises(w) ==
    /\ At(w, "call")
    /\ \E done \in {0, 1} : applied' = [applied EXCEPT ![R(w)][N(w)] = @ + done]
    /\ \E kind \in ExceptKinds :
          IF EffectOf[N(w)] # "NON_IDEMPOTENT" /\ kind = "error"
          THEN Goto(w, "toolfail")
          ELSE Raise(w, "raised", kind)
    /\ UNCHANGED <<storeVars, ledger, api, Faults>>

\* ledger.fail, whose own ConflictError is raised in its place.
FailCall(w) ==
    /\ At(w, "toolfail")
    /\ \/ FailInvocation(wk[w].inv)
       \/ ~Expected(wk[w].inv, {"PREPARED", "DISPATCHED"}) /\ UNCHANGED ledger
    /\ Raise(w, "raised", "error")
    /\ UNCHANGED <<storeVars, Others>>

CompleteCall(w) ==
    /\ At(w, "complete")
    /\ \/ /\ Complete(wk[w].inv)
          /\ Set(w, [wk[w] EXCEPT !.pc = "step", !.called = TRUE, !.inv = Nobody])
       \/ /\ ~Expected(wk[w].inv, {"PREPARED", "DISPATCHED"})
          /\ Raise(w, "raised", "error") /\ UNCHANGED ledger
    /\ UNCHANGED <<storeVars, Others>>

\* The output fails its schema (nothing is recorded) or is too large and there
\* is no artifact store (ledger.fail).
RejectOutput(w) ==
    /\ At(w, "complete")
    /\ Goto(w, "toolfail") \/ Raise(w, "raised", "error")
    /\ UNCHANGED <<storeVars, ledger, Others>>
-----------------------------------------------------------------------------
(* The result of a step, and the end of a claim *)

Stepped(w) ==
    /\ At(w, "step")
    /\ N(w) \in Asks => wk[w].asked
    /\ N(w) \in Calls => wk[w].called

\* Mutation: a node without a checkpoint advances next but not the state.
StepReturns_DropsState(w) ==
    /\ Stepped(w)
    /\ \E nx \in Successors[N(w)] :
          IF N(w) \in Checkpointed \/ nx = Done
          THEN Set(w, [wk[w] EXCEPT !.state = @ \cup {N(w)}, !.next = nx, !.pc = "commit"])
          ELSE Set(w, [wk[w] EXCEPT !.next = nx, !.pc = "check"])
    /\ UNCHANGED <<storeVars, ledger, Others>>

\* A node without a checkpoint advances only the worker's copy of the run.
StepReturns(w) ==
    /\ Stepped(w)
    /\ \E nx \in Successors[N(w)] :
          Set(w, [wk[w] EXCEPT !.state = @ \cup {N(w)}, !.next = nx,
                               !.pc = IF N(w) \in Checkpointed \/ nx = Done
                                      THEN "commit" ELSE "check"])
    /\ UNCHANGED <<storeVars, ledger, Others>>

\* Invalid router result, non-mapping result, or state schema violation: raised
\* outside the step executor, so not retried.
BadResult(w) ==
    /\ Stepped(w)
    /\ Raise(w, "except", "error")
    /\ UNCHANGED <<storeVars, ledger, Others>>

Commit(w) ==
    /\ At(w, "commit")
    /\ LET me == wk[w] IN
       \/ /\ CommitCheckpoint(me.run, w, me.token, me.version, me.sequence,
                              me.state, me.next)
          /\ Set(w, [me EXCEPT !.version = @ + 1,
                               !.pc = IF me.next = Done THEN "finish" ELSE "check"])
       \/ /\ ~CommitGuard(me.run, w, me.token, me.version, me.sequence)
          /\ Raise(w, "except", "error")
          /\ UNCHANGED storeVars
    /\ UNCHANGED <<ledger, Others>>

Finish(w) ==
    /\ At(w, "finish")
    /\ LET me == wk[w] IN
       \/ FinishClaim(me.run, w, me.token, me.version, "SUCCEEDED") /\ Leave(w)
       \/ /\ ~FinishGuard(me.run, w, me.token, me.version, "SUCCEEDED")
          /\ Raise(w, "except", "error")
          /\ UNCHANGED storeVars
    /\ UNCHANGED <<ledger, Others>>

\* work_once's except clause: re-read the run, then finish_claim with the
\* version just read; a ConflictError means the lease is lost.
HandleException(w) ==
    /\ At(w, "except")
    /\ IF runs[R(w)].status \in Terminal THEN Leave(w)
       ELSE Set(w, [wk[w] EXCEPT !.pc = "fail", !.version = runs[R(w)].version])
    /\ UNCHANGED <<storeVars, ledger, Others>>

\* Mutation: the failure is recorded with transition_run, without the fence.
FailRun_Unfenced(w) ==
    /\ At(w, "fail")
    /\ \/ TransitionRun(R(w), wk[w].version, "FAILED")
       \/ UNCHANGED storeVars
    /\ Leave(w)
    /\ UNCHANGED <<ledger, Others>>

FailRun(w) ==
    /\ At(w, "fail")
    /\ LET me == wk[w]
           target == IF me.exc = "timeout" THEN "TIMED_OUT" ELSE "FAILED"
       IN \/ FinishClaim(me.run, w, me.token, me.version, target)
          \/ /\ ~FinishGuard(me.run, w, me.token, me.version, target)
             /\ UNCHANGED storeVars
    /\ Leave(w)
    /\ UNCHANGED <<ledger, Others>>
-----------------------------------------------------------------------------
(* Heartbeat threads, crashes, time *)

Beating(w) == wk[w].pc \in Executing /\ wk[w].beating

\* The except clause runs without a heartbeat, in far less time than a lease.
Timely(w) == wk[w].pc \in Executing \cup {"except", "fail"} /\ wk[w].beating

\* _heartbeat returns for good on the first exception, ConflictError included.
Heartbeat(w) ==
    /\ Beating(w)
    /\ \/ RenewLease(R(w), w, wk[w].token) /\ UNCHANGED wk
       \/ /\ ~RequiredLease(R(w), w, wk[w].token)
          /\ Set(w, [wk[w] EXCEPT !.beating = FALSE])
          /\ UNCHANGED storeVars
    /\ UNCHANGED <<ledger, Others>>

HeartbeatDies(w) ==
    /\ Beating(w) /\ late < MaxLate
    /\ Set(w, [wk[w] EXCEPT !.beating = FALSE])
    /\ late' = late + 1
    /\ UNCHANGED <<storeVars, ledger, api, applied, crashes>>

\* The process is killed anywhere and restarted by its supervisor.
Crash(w) ==
    /\ wk[w].pc \notin {"expire", "reconcile", "requeue", "claim"}
    /\ crashes < MaxCrashes
    /\ crashes' = crashes + 1
    /\ Leave(w)
    /\ UNCHANGED <<storeVars, ledger, api, applied, late>>

\* The heartbeat period is a third of the lease: a lease whose heartbeat runs
\* lapses only when that heartbeat is late, which uses up the fault budget.
AllBeatsInTime ==
    \A w \in Worker : Timely(w) /\ RequiredLease(R(w), w, wk[w].token)
                          => leases[R(w)].ttl > 1

Tick ==
    /\ leases' = TickedLeases
    /\ interrupts' = TickedInterrupts
    /\ ledger' = TickedLedger
    /\ <<leases', interrupts', ledger'>> # <<leases, interrupts, ledger>>
    /\ \/ AllBeatsInTime /\ late' = late
       \/ ~AllBeatsInTime /\ late < MaxLate /\ late' = late + 1
    /\ UNCHANGED <<runs, checkpoints, events, wk, api, applied, crashes>>
-----------------------------------------------------------------------------
(* Clients: submit, and the control handlers of server/app.py, each a read   *)
(* of the run followed by a compare-and-swap with what it read.              *)

Submit(r) == CreateRun(r) /\ UNCHANGED <<ledger, wk, Others>>

Accept(op, r, i) ==
    /\ api = NoRequest /\ op \in ApiOps
    /\ api' = [op |-> op, run |-> r, int |-> i, version |-> runs[r].version]
    /\ UNCHANGED <<storeVars, ledger, wk, applied, Faults>>

CancelRead(r) == Exists(r) /\ Accept("cancel", r, Nobody)
ResumeRead(r) == runs[r].status = "NEEDS_REVIEW" /\ Accept("resume", r, Nobody)
DecideRead(i) == interrupts[i].run # Nobody /\ Accept("decide", interrupts[i].run, i)

Answer(op) ==
    /\ api.op = op
    /\ api' = NoRequest
    /\ UNCHANGED <<ledger, wk, applied, Faults>>

CancelWrite == Answer("cancel") /\ TransitionRun(api.run, api.version, "CANCELLED")
ResumeWrite == Answer("resume") /\ TransitionRun(api.run, api.version, "QUEUED")
DecideWrite ==
    Answer("decide") /\ \E d \in Decisions : DecideInterrupt(api.int, api.version, d)

\* The compare-and-swap fails (409) or the client gives up before it.
Refused == (\E op \in ApiOps : Answer(op)) /\ UNCHANGED storeVars
-----------------------------------------------------------------------------
WorkerStep(w) ==
    \/ SweepInterrupts(w) \/ SweepEffects(w) \/ ReviewRead(w) \/ ReviewFlag(w)
    \/ SweepLeases(w) \/ Claim(w)
    \/ CheckDurable(w) \/ CannotRun(w) \/ LoadCheckpoint(w)
    \/ StepRaises(w) \/ AttemptFailed(w) \/ AskInterrupt(w) \/ Suspend(w)
    \/ PrepareCall(w) \/ DispatchCall(w) \/ HandlerReturns(w) \/ HandlerRaises(w)
    \/ FailCall(w) \/ CompleteCall(w) \/ RejectOutput(w)
    \/ StepReturns(w) \/ BadResult(w) \/ Commit(w) \/ Finish(w)
    \/ HandleException(w) \/ FailRun(w)

Client ==
    \/ \E r \in Run : Submit(r) \/ CancelRead(r) \/ ResumeRead(r)
    \/ \E i \in Interrupt : DecideRead(i)
    \/ CancelWrite \/ ResumeWrite \/ DecideWrite \/ Refused

Next ==
    \/ \E w \in Worker : WorkerStep(w) \/ Heartbeat(w) \/ HeartbeatDies(w) \/ Crash(w)
    \/ Tick
    \/ Client

\* Worker processes keep running (a killed one is restarted), step handlers and
\* tools return (tools have timeouts), heartbeat threads are scheduled, and time
\* passes.  Nothing is assumed of clients.
Fairness ==
    /\ \A w \in Worker : WF_vars(WorkerStep(w)) /\ WF_vars(Heartbeat(w))
    /\ WF_vars(Tick)

Spec == Init /\ [][Next]_vars
FairSpec == Spec /\ Fairness
-----------------------------------------------------------------------------
(* Correctness *)

WorkerMemory ==
    [pc : Loop \cup Executing \cup {"except", "fail"}, run : Run \cup {Nobody},
     token : Nat, version : Nat, state : State, next : Node \cup {Done},
     sequence : Nat, attempt : 1..MaxAttempts, asked : BOOLEAN, called : BOOLEAN,
     inv : Invocation \cup {Nobody}, exc : {"none"} \cup ExceptKinds,
     beating : BOOLEAN, review : SUBSET Run]

\* Every table, every worker's memory and the request in flight are well formed.
RuntimeTypeOK ==
    /\ StoreTypeOK
    /\ ledger \in [Invocation -> InvocationRow]
    /\ wk \in [Worker -> WorkerMemory]
    /\ api \in [op : {"none"} \cup ApiOps, run : Run \cup {Nobody},
                int : Interrupt \cup {Nobody}, version : Nat]
    /\ applied \in [Run -> [Node -> Nat]]
    /\ crashes \in 0..MaxCrashes
    /\ late \in 0..MaxLate

\* A worker whose copy of the run has the stored version is the newest holder of
\* the lease and the run is RUNNING: the version check alone fences
\* create_interrupt, which does not look at the lease, and two workers never
\* both hold a current copy.
CurrentCopyHoldsLease ==
    \A w \in Worker :
        wk[w].pc \in Executing /\ wk[w].version = runs[R(w)].version =>
            /\ runs[R(w)].status = "RUNNING"
            /\ leases[R(w)].holder = w
            /\ leases[R(w)].token = wk[w].token

\* What a run has durably done is a path of the plan: no step of it is missing,
\* whatever crashed, lapsed or was taken over between the steps.
CommittedPath ==
    \A r \in Run :
        LET done == runs[r].state IN
        /\ \/ done = {} /\ runs[r].next = EntryOf[r]
           \/ \E n \in done : runs[r].next \in Successors[n]
        /\ \A n \in done : n = EntryOf[r] \/ \E m \in done : n \in Successors[m]

\* A non-idempotent tool call made under a stable idempotency key takes effect
\* at most once per run, through crashes, take-overs, retries, reconciliation
\* and operator resumes.
KeyedCallOnce ==
    \A r \in Run, n \in Calls :
        EffectOf[n] = "NON_IDEMPOTENT" /\ CallKeyOf[n] # NoKey => applied[r][n] <= 1

\* A run that succeeded has had the effect of every tool call on its path, and
\* the ledger says so.
SuccessIsConfirmed ==
    \A r \in Run, n \in Calls :
        runs[r].status = "SUCCEEDED" /\ n \in runs[r].state =>
            /\ applied[r][n] > 0
            /\ \E i \in Invocation : /\ ledger[i].run = r
                                     /\ ledger[i].node = n
                                     /\ ledger[i].status = "SUCCEEDED"

\* Everything the runtime does to the tables is a call of the store's interface:
\* the detailed system implements the open RunStore.
ImplementsStore == StoreSpec

\* Every submitted run finishes or comes to wait for a person, again and again:
\* crashed, lapsed or lost claims are recovered.
EveryRunSettles ==
    \A r \in Run : Exists(r) ~> runs[r].status \in Terminal \cup {"WAITING", "NEEDS_REVIEW"}

\* A question with a deadline is answered by a person or by expire_interrupts.
DeadlinesAreKept ==
    \A i \in Interrupt :
        interrupts[i].run # Nobody /\ interrupts[i].ttl # NoDeadline
            ~> interrupts[i].decision # "none"

\* After a cancellation every worker drops the run.
CancelledRunsAreDropped ==
    \A r \in Run, w \in Worker :
        runs[r].status = "CANCELLED" ~> ~(R(w) = r /\ wk[w].pc \in Executing)

(* What the documentation says of non-idempotent calls, checked against the  *)
(* code by the runs that expect a violation.                                 *)

\* "Non-idempotent calls are never replayed automatically" (the docstring of
\* reconcile_stale_effects): without an operator the effect happens once.
NeverReplayed ==
    \A r \in Run, n \in Calls : EffectOf[n] = "NON_IDEMPOTENT" => applied[r][n] <= 1

\* "Non-idempotent ambiguous outcomes stop in NEEDS_REVIEW" (the list of known
\* limitations): only the resume and cancel handlers take a run out of it.
ReviewStops ==
    [][\A r \in Run : runs[r].status = "NEEDS_REVIEW" /\ runs'[r].status # "NEEDS_REVIEW"
           => api.op \in {"resume", "cancel"}]_vars
=============================================================================
