------------------------ MODULE DurableRuntimeProofs -------------------------
(* Theorems about DurableRuntime. *)
EXTENDS DurableRuntime, RunStoreProofs

-----------------------------------------------------------------------------
(* Worker memory *)

\* pcs of a tool call that has an invocation.
Calling == {"dispatch", "call", "toolfail", "complete"}

PC == Loop \cup Executing \cup {"except", "fail"}

\* The memory of a worker after a change of its pc and its exception.
LEMMA MemoryPc ==
    ASSUME NEW x \in WorkerMemory, NEW p \in PC
    PROVE  /\ [x EXCEPT !.pc = p] \in WorkerMemory
           /\ \A k \in ExceptKinds : [x EXCEPT !.pc = p, !.exc = k] \in WorkerMemory
  BY ZenonT(60) DEF WorkerMemory, PC

LEMMA IdleMemory ==
    /\ Idle \in WorkerMemory
    /\ Idle.pc = "expire" /\ Idle.run = Nobody /\ Idle.review = {}
  BY PlanConstants DEF WorkerMemory, Idle, Loop

LEMMA SetTyped ==
    ASSUME wk \in [Worker -> WorkerMemory], NEW w \in Worker, NEW x \in WorkerMemory, Set(w, x)
    PROVE  wk' \in [Worker -> WorkerMemory]
  BY DEF Set

LEMMA PcTyped ==
    ASSUME wk \in [Worker -> WorkerMemory], NEW w \in Worker
    PROVE  /\ \A p \in PC : Goto(w, p) => wk' \in [Worker -> WorkerMemory]
           /\ \A p \in PC, k \in ExceptKinds : Raise(w, p, k) => wk' \in [Worker -> WorkerMemory]
           /\ Leave(w) => wk' \in [Worker -> WorkerMemory]
  BY MemoryPc, SetTyped, IdleMemory DEF Goto, Raise, Leave
-----------------------------------------------------------------------------
(* The inductive invariant.  A worker's memory may be stale: its parts say    *)
(* what is known of a copy of version v, and more when v is still current.    *)

\* A worker that executes, fails or reviews a run remembers a run, and one that
\* is in a step, a node of the plan.
ClaimKnown(w) ==
    /\ wk[w].pc \in Executing \cup {"except", "fail", "flag"} => R(w) \in Run
    /\ wk[w].pc \in InStep \cup {"load"} => N(w) \in Node

\* A worker in a tool call works on a ledger row of its own run and node.
CallKnown(w) ==
    wk[w].pc \in Calling =>
        /\ N(w) \in Calls
        /\ wk[w].inv \in Invocation
        /\ ledger[wk[w].inv].run = R(w)
        /\ ledger[wk[w].inv].node = N(w)

\* A copy of run r with version v: the row has moved on, or P still holds of it.
Fenced(r, v, P) == v <= runs[r].version /\ (v = runs[r].version => P)

\* A claimed copy is outdated, or its run is RUNNING under the worker's lease.
CopyFenced(w) ==
    wk[w].pc \in Executing =>
        Fenced(R(w), wk[w].version,
               /\ runs[R(w)].status = "RUNNING"
               /\ leases[R(w)].holder = w
               /\ leases[R(w)].token = wk[w].token)

\* While its copy is current, a worker knows the number of the next checkpoint.
SequenceFenced(w) ==
    wk[w].pc \in InStep \cup {"commit"} /\ wk[w].version = runs[R(w)].version =>
        wk[w].sequence = checkpoints[R(w)].sequence + 1

\* reconcile_stale_effects has read the run it moves as RUNNING.
FlagFenced(w) ==
    wk[w].pc = "flag" => Fenced(R(w), wk[w].version, runs[R(w)].status = "RUNNING")

WorkerInv(w) ==
    ClaimKnown(w) /\ CallKnown(w) /\ CopyFenced(w) /\ SequenceFenced(w) /\ FlagFenced(w)

\* A control request names a run, and the resume handler has read NEEDS_REVIEW.
RequestInv ==
    api.op # "none" =>
        /\ api.run \in Run
        /\ api.op = "decide" => api.int \in Interrupt
        /\ Fenced(api.run, api.version,
                  api.op = "resume" => runs[api.run].status = "NEEDS_REVIEW")

FenceInv == RuntimeTypeOK /\ RequestInv /\ \A w \in Worker : WorkerInv(w)

\* done and next are what some path of the plan from entry has done and does next.
OnPath(done, next, entry) ==
    /\ \/ done = {} /\ next = entry
       \/ \E n \in done : next \in Successors[n]
    /\ \A n \in done : n = entry \/ \E m \in done : n \in Successors[m]

\* Durable rows and workers' copies are on a path of the plan.
PathInv ==
    /\ \A r \in Run : OnPath(runs[r].state, runs[r].next, EntryOf[r])
    /\ \A w \in Worker : wk[w].pc \in Executing =>
           OnPath(wk[w].state, wk[w].next, EntryOf[R(w)])

\* The tool call of node n in run r has taken effect and the ledger says so.
Confirmed(r, n) ==
    /\ applied[r][n] > 0
    /\ \E i \in Invocation : ledger[i].run = r /\ ledger[i].node = n
                             /\ ledger[i].status = "SUCCEEDED"

\* Calls on the path, durable or in a worker's copy, and calls a step has made,
\* are confirmed; a row that says SUCCEEDED tells the truth.
ConfirmInv ==
    /\ \A r \in Run, n \in Calls : n \in runs[r].state => Confirmed(r, n)
    /\ \A w \in Worker, n \in Calls :
           wk[w].pc \in Executing /\ n \in wk[w].state => Confirmed(R(w), n)
    /\ \A w \in Worker :
           wk[w].pc \in InStep /\ wk[w].called /\ N(w) \in Calls => Confirmed(R(w), N(w))
    /\ \A w \in Worker : wk[w].pc = "complete" => applied[R(w)][N(w)] > 0
    /\ \A i \in Invocation : ~Fresh(i) /\ ledger[i].status = "SUCCEEDED" =>
           ledger[i].node \in Node /\ applied[ledger[i].run][ledger[i].node] > 0

Once(n) == n \in Calls /\ EffectOf[n] = "NON_IDEMPOTENT" /\ CallKeyOf[n] # NoKey

Caller(w, i) == wk[w].pc = "call" /\ wk[w].inv = i

\* A non-idempotent call under a key has at most one ledger row; the row is
\* PREPARED only before the one dispatch, and the one worker at its handler has
\* not had its effect.
OnceInv ==
    /\ \A i, j \in Invocation :
           /\ ~Fresh(i) /\ ledger[i].run = ledger[j].run
           /\ CallKeyOf[ledger[i].node] # NoKey
           /\ CallKeyOf[ledger[i].node] = CallKeyOf[ledger[j].node]
           => i = j
    /\ \A i \in Invocation : ~Fresh(i) => ledger[i].node \in Calls
    /\ \A r \in Run, n \in Calls : Once(n) =>
           /\ applied[r][n] <= 1
           /\ applied[r][n] = 1 => \E i \in Invocation : ledger[i].run = r /\ ledger[i].node = n
    /\ \A i \in Invocation : ~Fresh(i) /\ Once(ledger[i].node) =>
           /\ ledger[i].status = "PREPARED" =>
                  /\ applied[ledger[i].run][ledger[i].node] = 0
                  /\ \A w \in Worker : ~Caller(w, i)
           /\ \A w \in Worker : Caller(w, i) => applied[ledger[i].run][ledger[i].node] = 0
           /\ \A w, x \in Worker : Caller(w, i) /\ Caller(x, i) => w = x
-----------------------------------------------------------------------------
(* Refinement: what the runtime does to the tables are calls of the store *)

\* The fields of a worker's memory have their types.
LEMMA MemoryTypes ==
    ASSUME RuntimeTypeOK, NEW w \in Worker
    PROVE  /\ wk[w] \in WorkerMemory
           /\ wk[w].version \in Nat /\ wk[w].token \in Nat /\ wk[w].sequence \in Nat
           /\ wk[w].state \in State /\ N(w) \in Node \cup {Done}
           /\ wk[w].review \in SUBSET Run
  BY DEF RuntimeTypeOK, WorkerMemory, N

\* The worker's calls: every transaction of a worker is a call of the store or
\* leaves the tables.
LEMMA WorkerStoreStep ==
    ASSUME FenceInv, NEW w \in Worker, WorkerStep(w)
    PROVE  [StoreNext]_storeVars
<1> USE DEF FenceInv, WorkerInv
<1>0. ClaimKnown(w) /\ CopyFenced(w) /\ SequenceFenced(w) /\ FlagFenced(w) /\ RuntimeTypeOK
  OBVIOUS
<1>1. CASE SweepInterrupts(w)
  BY <1>1 DEF SweepInterrupts, StoreNext
<1>2. CASE ReviewFlag(w)
  <2>1. R(w) \in Run
    BY <1>0, <1>2 DEF ClaimKnown, ReviewFlag, At
  <2>2. CASE TransitionRun(R(w), wk[w].version, "NEEDS_REVIEW")
    <3>1. wk[w].version = runs[R(w)].version /\ runs[R(w)].status = "RUNNING"
      BY <1>0, <1>2, <2>2 DEF FlagFenced, Fenced, ReviewFlag, At, TransitionRun
    <3> QED
      BY <2>1, <2>2, <3>1 DEF StoreNext, Control
  <2> QED
    BY <1>2, <2>2 DEF ReviewFlag
<1>3. CASE SweepLeases(w)
  BY <1>3 DEF SweepLeases, StoreNext
<1>4. CASE Claim(w)
  BY <1>4 DEF Claim, StoreNext
<1>5. CASE AttemptFailed(w)
  <2>1. R(w) \in Run
    BY <1>0, <1>5 DEF ClaimKnown, AttemptFailed, At, Executing, InStep
  <2> QED
    BY <1>5, <2>1 DEF AttemptFailed, StoreNext
<1>6. CASE Suspend(w)
  <2>1. R(w) \in Run /\ N(w) \in Node
    BY <1>0, <1>6 DEF ClaimKnown, Suspend, At, Executing, InStep
  <2>2. ASSUME NEW i \in Interrupt, NEW ttl \in {NoDeadline} \cup 1..IntTicks,
               CreateInterrupt(i, R(w), wk[w].version, Question(w), ttl)
        PROVE  StoreNext
    <3>1. wk[w].version = runs[R(w)].version
      BY <2>2 DEF CreateInterrupt, InterruptGuard
    <3>2. wk[w].sequence = checkpoints[R(w)].sequence + 1
      BY <1>0, <1>6, <3>1 DEF SequenceFenced, Suspend, At, InStep
    <3> QED
      BY <2>1, <2>2, <3>1, <3>2 DEF StoreNext, Question
  <2> QED
    BY <1>6, <2>2 DEF Suspend
<1>7. CASE Commit(w)
  <2>1. R(w) \in Run
    BY <1>0, <1>7 DEF ClaimKnown, Commit, At, Executing
  <2>2. CASE CommitCheckpoint(wk[w].run, w, wk[w].token, wk[w].version, wk[w].sequence,
                              wk[w].state, wk[w].next)
    <3>1. /\ wk[w].version = runs[R(w)].version
          /\ wk[w].sequence = checkpoints[R(w)].sequence + 1
          /\ wk[w].token = leases[R(w)].token
      BY <2>2 DEF CommitCheckpoint, CommitGuard, RequiredLease, R
    <3>2. wk[w].state \in State /\ wk[w].next \in Node \cup {Done}
      BY <1>0, MemoryTypes DEF N
    <3>3. HolderOps(R(w), w, leases[R(w)].token, runs[R(w)].version)
      BY <2>2, <3>1, <3>2 DEF HolderOps, R
    <3> QED
      BY <2>1, <3>3 DEF StoreNext
  <2> QED
    BY <1>7, <2>2 DEF Commit
<1>8. ASSUME wk[w].pc \in {"finish", "fail"}, NEW t \in WorkerTargets,
             FinishClaim(wk[w].run, w, wk[w].token, wk[w].version, t)
      PROVE  StoreNext
  <2>1. R(w) \in Run
    BY <1>0, <1>8 DEF ClaimKnown, Executing
  <2>2. wk[w].version = runs[R(w)].version /\ wk[w].token = leases[R(w)].token
    BY <1>8 DEF FinishClaim, FinishGuard, RequiredLease, R
  <2>3. HolderOps(R(w), w, leases[R(w)].token, runs[R(w)].version)
    BY <1>8, <2>2 DEF HolderOps, R
  <2> QED
    BY <2>1, <2>3 DEF StoreNext
<1>9. CASE Finish(w) \/ FailRun(w)
  BY <1>8, <1>9 DEF Finish, FailRun, At, WorkerTargets
<1>10. \/ UNCHANGED storeVars
       \/ SweepInterrupts(w) \/ ReviewFlag(w) \/ SweepLeases(w) \/ Claim(w) \/ AttemptFailed(w)
       \/ Suspend(w) \/ Commit(w) \/ Finish(w) \/ FailRun(w)
  BY DEF WorkerStep, SweepEffects, ReviewRead, CheckDurable, CannotRun, LoadCheckpoint,
         StepRaises, AskInterrupt, PrepareCall, DispatchCall, HandlerReturns, HandlerRaises,
         FailCall, CompleteCall, RejectOutput, StepReturns, BadResult, HandleException
<1> QED
  BY <1>1, <1>2, <1>3, <1>4, <1>5, <1>6, <1>7, <1>9, <1>10

\* Clients' calls are calls of the store.
LEMMA ClientStoreStep ==
    ASSUME FenceInv, Client
    PROVE  [StoreNext]_storeVars
<1>0. RequestInv
  BY DEF FenceInv
<1>1. CASE CancelWrite
  <2>1. api.run \in Run
    BY <1>0, <1>1 DEF RequestInv, CancelWrite, Answer
  <2>2. TransitionRun(api.run, runs[api.run].version, "CANCELLED")
    BY <1>1 DEF CancelWrite, TransitionRun
  <2> QED
    BY <2>1, <2>2 DEF StoreNext, Control
<1>2. CASE ResumeWrite
  <2>1. api.run \in Run
    BY <1>0, <1>2 DEF RequestInv, ResumeWrite, Answer
  <2>2. api.version = runs[api.run].version
    BY <1>2 DEF ResumeWrite, TransitionRun
  <2>3. runs[api.run].status = "NEEDS_REVIEW"
    BY <1>0, <1>2, <2>2 DEF RequestInv, Fenced, ResumeWrite, Answer
  <2> QED
    BY <1>2, <2>1, <2>2, <2>3 DEF ResumeWrite, StoreNext, Control
<1>3. CASE DecideWrite
  <2>1. PICK d \in Decisions : DecideInterrupt(api.int, api.version, d)
    BY <1>3 DEF DecideWrite
  <2>2. api.int \in Interrupt
    BY <1>0, <1>3 DEF RequestInv, DecideWrite, Answer
  <2>3. \E r \in Run : api.version = runs[r].version
    BY <2>1 DEF DecideInterrupt
  <2> QED
    BY <2>1, <2>2, <2>3 DEF StoreNext
<1>4. CASE \E r \in Run : Submit(r)
  BY <1>4 DEF Submit, StoreNext
<1>5. \/ UNCHANGED storeVars \/ CancelWrite \/ ResumeWrite \/ DecideWrite
      \/ \E r \in Run : Submit(r)
  BY DEF Client, CancelRead, ResumeRead, DecideRead, Accept, Refused
<1> QED
  BY <1>1, <1>2, <1>3, <1>4, <1>5

\* Every step of the runtime is a step of the store, or leaves the tables.
LEMMA RuntimeStoreStep ==
    ASSUME FenceInv, [Next]_vars
    PROVE  [StoreNext]_storeVars
<1>1. ASSUME NEW w \in Worker, Heartbeat(w) PROVE [StoreNext]_storeVars
  <2>1. CASE RenewLease(R(w), w, wk[w].token)
    <3>1. R(w) \in Run
      BY <1>1 DEF FenceInv, WorkerInv, ClaimKnown, Heartbeat, Beating
    <3>2. RenewLease(R(w), w, leases[R(w)].token)
      BY <2>1 DEF RenewLease, RequiredLease
    <3> QED
      BY <3>1, <3>2 DEF StoreNext, HolderOps
  <2> QED
    BY <1>1, <2>1 DEF Heartbeat
<1>2. CASE Tick
  BY <1>2 DEF Tick, StoreNext, StoreTick
<1>3. ASSUME NEW w \in Worker, HeartbeatDies(w) \/ Crash(w) PROVE UNCHANGED storeVars
  BY <1>3 DEF HeartbeatDies, Crash
<1>4. CASE UNCHANGED vars
  BY <1>4 DEF vars, storeVars
<1> QED
  BY <1>1, <1>2, <1>3, <1>4, WorkerStoreStep, ClientStoreStep DEF Next
-----------------------------------------------------------------------------
(* Type correctness *)

\* Rows of the ledger keep their type under every operation of the ledger.
LEMMA LedgerTyped ==
    ASSUME ledger \in [Invocation -> InvocationRow]
    PROVE  /\ \A i \in Invocation, r \in Run, n \in Node :
                  Prepare(i, r, n) => ledger' \in [Invocation -> InvocationRow]
           /\ \A i \in Invocation :
                  MarkDispatched(i) \/ Complete(i) \/ FailInvocation(i)
                      => ledger' \in [Invocation -> InvocationRow]
           /\ ReconcileStale => ledger' \in [Invocation -> InvocationRow]
           /\ TickedLedger \in [Invocation -> InvocationRow]
<1>0. 0 \in 0..GraceTicks
  BY LedgerConstants
<1>1. \A i \in Invocation, r \in Run, n \in Node :
          Prepare(i, r, n) => ledger' \in [Invocation -> InvocationRow]
  BY <1>0 DEF Prepare, InvocationRow, InvocationStatus
<1>2. ASSUME NEW x \in InvocationRow, NEW s \in InvocationStatus
      PROVE  [x EXCEPT !.status = s, !.age = 0] \in InvocationRow
  BY <1>0 DEF InvocationRow
<1>3. \A i \in Invocation :
          MarkDispatched(i) \/ Complete(i) \/ FailInvocation(i)
              => ledger' \in [Invocation -> InvocationRow]
  BY ZenonT(60), <1>2 DEF MarkDispatched, Complete, FailInvocation, Transition, InvocationStatus
<1>4. ReconcileStale => ledger' \in [Invocation -> InvocationRow]
  BY <1>2 DEF ReconcileStale, Reconciled, InvocationStatus
<1>5. TickedLedger \in [Invocation -> InvocationRow]
  <2>1. ASSUME NEW x \in InvocationRow, x.age < GraceTicks
        PROVE  [x EXCEPT !.age = @ + 1] \in InvocationRow
    BY <2>1, LedgerConstants DEF InvocationRow
  <2> QED
    BY <2>1 DEF TickedLedger
<1> QED
  BY <1>1, <1>3, <1>4, <1>5

LEMMA LedgerStepTyped ==
    ASSUME FenceInv, [Next]_vars
    PROVE  ledger' \in [Invocation -> InvocationRow]
<1>0. ledger \in [Invocation -> InvocationRow]
  BY DEF FenceInv, RuntimeTypeOK
<1>1. ASSUME NEW w \in Worker, PrepareCall(w) PROVE ledger' \in [Invocation -> InvocationRow]
  <2>1. R(w) \in Run /\ N(w) \in Node
    BY <1>1 DEF FenceInv, WorkerInv, ClaimKnown, PrepareCall, ReadyToCall, At, Executing, InStep
  <2> QED
    BY <1>0, <1>1, <2>1, LedgerTyped DEF PrepareCall
<1>2. ASSUME NEW w \in Worker, DispatchCall(w) \/ FailCall(w) \/ CompleteCall(w)
      PROVE  ledger' \in [Invocation -> InvocationRow]
  <2>1. wk[w].inv \in Invocation
    BY <1>2 DEF FenceInv, WorkerInv, CallKnown, Calling, At, DispatchCall, FailCall, CompleteCall
  <2> QED
    BY <1>0, <1>2, <2>1, LedgerTyped DEF DispatchCall, FailCall, CompleteCall
<1>3. ASSUME NEW w \in Worker, SweepEffects(w) PROVE ledger' \in [Invocation -> InvocationRow]
  BY <1>0, <1>3, LedgerTyped DEF SweepEffects
<1>4. CASE Tick
  BY <1>0, <1>4, LedgerTyped DEF Tick
<1>5. \/ ledger' = ledger \/ Tick
      \/ \E w \in Worker : \/ PrepareCall(w) \/ DispatchCall(w) \/ FailCall(w)
                           \/ CompleteCall(w) \/ SweepEffects(w)
  BY ZenonT(60) DEF Next, vars, WorkerStep, Client, SweepInterrupts, ReviewRead, ReviewFlag, SweepLeases, Claim,
         CheckDurable, CannotRun, LoadCheckpoint, StepRaises, AttemptFailed, AskInterrupt,
         Suspend, HandlerReturns, HandlerRaises, RejectOutput, StepReturns, BadResult, Commit,
         Finish, HandleException, FailRun, Heartbeat, HeartbeatDies, Crash, Submit, CancelRead,
         ResumeRead, DecideRead, Accept, CancelWrite, ResumeWrite, DecideWrite, Refused, Answer
<1> QED
  BY <1>0, <1>1, <1>2, <1>3, <1>4, <1>5

\* A worker's step keeps its memory well formed.
LEMMA WorkerStepTyped ==
    ASSUME FenceInv, NEW w \in Worker, WorkerStep(w)
    PROVE  wk' \in [Worker -> WorkerMemory]
<1>0. wk \in [Worker -> WorkerMemory] /\ wk[w] \in WorkerMemory
  BY DEF FenceInv, RuntimeTypeOK
<1>a. ASSUME NEW p \in PC, Goto(w, p) PROVE wk' \in [Worker -> WorkerMemory]
  BY <1>0, <1>a, PcTyped
<1>b. ASSUME NEW p \in PC, NEW k \in ExceptKinds, Raise(w, p, k)
      PROVE  wk' \in [Worker -> WorkerMemory]
  BY <1>0, <1>b, PcTyped
<1>c. Leave(w) => wk' \in [Worker -> WorkerMemory]
  BY <1>0, PcTyped
<1>d. ASSUME NEW x \in WorkerMemory, Set(w, x) PROVE wk' \in [Worker -> WorkerMemory]
  BY <1>0, <1>d, SetTyped
<1> USE DEF PC, Loop, Executing, InStep, ExceptKinds
<1>1. CASE SweepInterrupts(w) \/ SweepLeases(w)
  BY <1>1, <1>a DEF SweepInterrupts, SweepLeases
<1>2. CASE SweepEffects(w)
  <2>1. NewlyAmbiguous \in SUBSET Run
    BY DEF NewlyAmbiguous, Stale, Fresh, FenceInv, RuntimeTypeOK, InvocationRow
  <2>2. [wk[w] EXCEPT !.pc = "review", !.review = NewlyAmbiguous] \in WorkerMemory
    BY <1>0, <2>1 DEF WorkerMemory
  <2> QED
    BY <1>2, <1>d, <2>2 DEF SweepEffects
<1>3. CASE ReviewRead(w)
  <2>1. ASSUME NEW r \in wk[w].review
        PROVE  /\ [wk[w] EXCEPT !.pc = "flag", !.run = r,
                                !.version = runs[r].version] \in WorkerMemory
               /\ [wk[w] EXCEPT !.review = @ \ {r}] \in WorkerMemory
    <3>1. r \in Run /\ runs[r].version \in Nat
      BY <1>0 DEF WorkerMemory, FenceInv, RuntimeTypeOK, StoreTypeOK, RunRow
    <3> QED
      BY ZenonT(60), <1>0, <3>1 DEF WorkerMemory
  <2> QED
    BY <1>3, <1>a, <1>d, <2>1 DEF ReviewRead
<1>4. CASE ReviewFlag(w)
  <2>1. wk[w].review \ {R(w)} \in SUBSET Run
    BY <1>0 DEF WorkerMemory
  <2>2. \A S \in SUBSET Run : [Idle EXCEPT !.pc = "review", !.review = S] \in WorkerMemory
    BY ZenonT(60), IdleMemory DEF WorkerMemory
  <2> QED
    BY <1>4, <1>d, <2>1, <2>2 DEF ReviewFlag
<1>5. CASE Claim(w)
  <2>1. ASSUME NEW r \in Run
        PROVE  [Idle EXCEPT !.pc = "check", !.run = r, !.beating = TRUE,
                            !.token = leases[r].token + 1, !.version = runs[r].version + 1,
                            !.state = runs[r].state, !.next = runs[r].next] \in WorkerMemory
    <3>1. /\ leases[r].token + 1 \in Nat /\ runs[r].version + 1 \in Nat
          /\ runs[r].state \in State /\ runs[r].next \in Node \cup {Done}
      BY DEF FenceInv, RuntimeTypeOK, StoreTypeOK, RunRow, LeaseRow
    <3> QED
      BY ZenonT(60), <3>1, IdleMemory DEF WorkerMemory
  <2> QED
    BY <1>5, <1>c, <1>d, <2>1 DEF Claim
<1>6. CASE CheckDurable(w) \/ CannotRun(w) \/ StepRaises(w) \/ BadResult(w) \/ RejectOutput(w)
  BY <1>6, <1>a, <1>b, <1>c DEF CheckDurable, CannotRun, StepRaises, BadResult, RejectOutput
<1>7. CASE LoadCheckpoint(w)
  <2>1. R(w) \in Run
    BY <1>7 DEF FenceInv, WorkerInv, ClaimKnown, LoadCheckpoint, At
  <2>2. checkpoints[R(w)].sequence + 1 \in Nat /\ 1 \in 1..MaxAttempts
    BY <2>1, PlanConstants DEF FenceInv, RuntimeTypeOK, StoreTypeOK, CheckpointRow
  <2>3. [wk[w] EXCEPT !.pc = "step", !.sequence = checkpoints[R(w)].sequence + 1,
                      !.attempt = 1, !.asked = FALSE, !.called = FALSE] \in WorkerMemory
    BY <1>0, <2>2 DEF WorkerMemory
  <2> QED
    BY <1>7, <1>d, <2>3 DEF LoadCheckpoint
<1>8. CASE AttemptFailed(w)
  <2>1. CASE wk[w].attempt < MaxAttempts
    <3>1. wk[w].attempt + 1 \in 1..MaxAttempts
      BY <1>0, <2>1, PlanConstants DEF WorkerMemory
    <3>2. [wk[w] EXCEPT !.pc = "step", !.attempt = @ + 1, !.asked = FALSE,
                        !.called = FALSE, !.inv = Nobody, !.exc = "none"] \in WorkerMemory
      BY <1>0, <3>1 DEF WorkerMemory
    <3> QED
      BY <1>8, <1>d, <2>1, <3>2 DEF AttemptFailed
  <2> QED
    BY <1>8, <1>a, <2>1 DEF AttemptFailed
<1>9. CASE AskInterrupt(w)
  <2>1. [wk[w] EXCEPT !.asked = TRUE] \in WorkerMemory
    BY <1>0 DEF WorkerMemory
  <2> QED
    BY <1>9, <1>a, <1>c, <1>d, <2>1 DEF AskInterrupt
<1>10. CASE Suspend(w)
  BY <1>10, <1>b, <1>c DEF Suspend
<1>11. CASE PrepareCall(w)
  <2>1. ASSUME NEW i \in Invocation
        PROVE  /\ [wk[w] EXCEPT !.pc = "dispatch", !.inv = i] \in WorkerMemory
               /\ [wk[w] EXCEPT !.called = TRUE] \in WorkerMemory
    BY ZenonT(60), <1>0 DEF WorkerMemory
  <2>2. CASE \E i \in Invocation : Set(w, [wk[w] EXCEPT !.pc = "dispatch", !.inv = i])
    BY <1>d, <2>1, <2>2
  <2>3. CASE Set(w, [wk[w] EXCEPT !.called = TRUE])
    <3>1. [wk[w] EXCEPT !.called = TRUE] \in WorkerMemory
      BY <1>0 DEF WorkerMemory
    <3> QED
      BY <1>d, <2>3, <3>1
  <2> QED
    BY <1>11, <1>b, <2>2, <2>3 DEF PrepareCall, Keyed
<1>12. CASE DispatchCall(w) \/ HandlerReturns(w) \/ HandlerRaises(w) \/ FailCall(w)
  BY <1>12, <1>a, <1>b DEF DispatchCall, HandlerReturns, HandlerRaises, FailCall
<1>13. CASE CompleteCall(w)
  <2>1. [wk[w] EXCEPT !.pc = "step", !.called = TRUE, !.inv = Nobody] \in WorkerMemory
    BY <1>0 DEF WorkerMemory
  <2> QED
    BY <1>13, <1>b, <1>d, <2>1 DEF CompleteCall
<1>14. CASE StepReturns(w)
  <2>1. N(w) \in Node
    BY <1>14 DEF FenceInv, WorkerInv, ClaimKnown, StepReturns, Stepped, At
  <2>2. PICK nx \in Successors[N(w)], p \in {"commit", "check"} :
            Set(w, [wk[w] EXCEPT !.state = @ \cup {N(w)}, !.next = nx, !.pc = p])
    BY <1>14 DEF StepReturns
  <2>3. nx \in Node \cup {Done} /\ wk[w].state \cup {N(w)} \in State
    BY <1>0, <2>1, PlanConstants DEF WorkerMemory
  <2>4. \A st \in State : [wk[w] EXCEPT !.state = st, !.next = nx, !.pc = p] \in WorkerMemory
    BY <1>0, <2>3 DEF WorkerMemory
  <2> QED
    BY <1>d, <2>2, <2>3, <2>4
<1>15. CASE Commit(w)
  <2>0. wk[w].version + 1 \in Nat
    BY <1>0 DEF WorkerMemory
  <2>1. ASSUME NEW p \in {"finish", "check"}
        PROVE  [wk[w] EXCEPT !.version = @ + 1, !.pc = p] \in WorkerMemory
    BY <1>0, <2>0 DEF WorkerMemory
  <2> QED
    BY <1>15, <1>b, <1>d, <2>1 DEF Commit
<1>16. CASE Finish(w) \/ FailRun(w)
  BY <1>16, <1>b, <1>c DEF Finish, FailRun
<1>17. CASE HandleException(w)
  <2>1. R(w) \in Run
    BY <1>17 DEF FenceInv, WorkerInv, ClaimKnown, HandleException, At
  <2>2. runs[R(w)].version \in Nat
    BY <2>1 DEF FenceInv, RuntimeTypeOK, StoreTypeOK, RunRow
  <2>3. [wk[w] EXCEPT !.pc = "fail", !.version = runs[R(w)].version] \in WorkerMemory
    BY <1>0, <2>2 DEF WorkerMemory
  <2> QED
    BY <1>17, <1>c, <1>d, <2>3 DEF HandleException
<1> QED
  BY <1>1, <1>2, <1>3, <1>4, <1>5, <1>6, <1>7, <1>8, <1>9, <1>10, <1>11, <1>12, <1>13, <1>14,
     <1>15, <1>16, <1>17 DEF WorkerStep
\* Every table, worker's memory and request keeps its type.
LEMMA RuntimeTypeStep ==
    ASSUME FenceInv, [Next]_vars
    PROVE  RuntimeTypeOK'
<1>0. RuntimeTypeOK
  BY DEF FenceInv
<1>1. StoreTypeOK'
  BY <1>0, RuntimeStoreStep, TypeStep DEF RuntimeTypeOK
<1>2. wk' \in [Worker -> WorkerMemory]
  <2>0. wk \in [Worker -> WorkerMemory]
    BY <1>0 DEF RuntimeTypeOK
  <2>1. ASSUME NEW w \in Worker, Heartbeat(w) \/ HeartbeatDies(w) PROVE wk' \in [Worker -> WorkerMemory]
    <3>1. [wk[w] EXCEPT !.beating = FALSE] \in WorkerMemory
      BY ZenonT(60), <2>0 DEF WorkerMemory
    <3> QED
      BY <2>0, <2>1, <3>1, SetTyped DEF Heartbeat, HeartbeatDies
  <2>2. ASSUME NEW w \in Worker, Crash(w) PROVE wk' \in [Worker -> WorkerMemory]
    BY <2>0, <2>2, PcTyped DEF Crash
  <2>3. CASE Client \/ Tick \/ UNCHANGED vars
    BY <2>0, <2>3 DEF Client, Tick, vars, Submit, CancelRead, ResumeRead, DecideRead, Accept,
                      CancelWrite, ResumeWrite, DecideWrite, Refused, Answer
  <2> QED
    BY <2>1, <2>2, <2>3, WorkerStepTyped DEF Next
<1>3. api' \in [op : {"none"} \cup ApiOps, run : Run \cup {Nobody},
                int : Interrupt \cup {Nobody}, version : Nat]
  <2>0. api \in [op : {"none"} \cup ApiOps, run : Run \cup {Nobody},
                 int : Interrupt \cup {Nobody}, version : Nat]
    BY <1>0 DEF RuntimeTypeOK
  <2>1. NoRequest \in [op : {"none"} \cup ApiOps, run : Run \cup {Nobody},
                       int : Interrupt \cup {Nobody}, version : Nat]
    BY DEF NoRequest
  <2>2. ASSUME NEW op, NEW r \in Run, NEW i \in Interrupt \cup {Nobody}, Accept(op, r, i)
        PROVE  api' \in [op : {"none"} \cup ApiOps, run : Run \cup {Nobody},
                         int : Interrupt \cup {Nobody}, version : Nat]
    BY <1>0, <2>2 DEF Accept, RuntimeTypeOK, StoreTypeOK, RunRow
  <2>3. ASSUME NEW i \in Interrupt, DecideRead(i)
        PROVE  api' \in [op : {"none"} \cup ApiOps, run : Run \cup {Nobody},
                         int : Interrupt \cup {Nobody}, version : Nat]
    <3>1. interrupts[i].run \in Run
      BY <1>0, <2>3 DEF DecideRead, RuntimeTypeOK, StoreTypeOK, InterruptRow
    <3> QED
      BY <2>2, <2>3, <3>1 DEF DecideRead
  <2>4. \/ api' = api \/ api' = NoRequest \/ \E i \in Interrupt : DecideRead(i)
        \/ \E r \in Run : CancelRead(r) \/ ResumeRead(r)
    BY ZenonT(60) DEF Next, vars, WorkerStep, Client, SweepInterrupts, SweepEffects, ReviewRead, ReviewFlag,
           SweepLeases, Claim, CheckDurable, CannotRun, LoadCheckpoint, StepRaises, AttemptFailed,
           AskInterrupt, Suspend, PrepareCall, DispatchCall, HandlerReturns, HandlerRaises,
           FailCall, CompleteCall, RejectOutput, StepReturns, BadResult, Commit, Finish,
           HandleException, FailRun, Heartbeat, HeartbeatDies, Crash, Tick, Submit, CancelWrite,
           ResumeWrite, DecideWrite, Refused, Answer, Others
  <2> QED
    BY <2>0, <2>1, <2>2, <2>3, <2>4 DEF CancelRead, ResumeRead
<1>4. applied' \in [Run -> [Node -> Nat]]
  <2>0. applied \in [Run -> [Node -> Nat]]
    BY <1>0 DEF RuntimeTypeOK
  <2>1. ASSUME NEW w \in Worker, HandlerReturns(w) \/ HandlerRaises(w)
        PROVE  applied' \in [Run -> [Node -> Nat]]
    <3>1. R(w) \in Run /\ N(w) \in Node
      BY <2>1 DEF FenceInv, WorkerInv, ClaimKnown, HandlerReturns, HandlerRaises, At, Executing,
                  InStep
    <3>2. \E k \in {0, 1} : applied' = [applied EXCEPT ![R(w)][N(w)] = @ + k]
      BY <2>1 DEF HandlerReturns, HandlerRaises
    <3> QED
      BY <2>0, <3>1, <3>2
  <2>2. applied' = applied \/ \E w \in Worker : HandlerReturns(w) \/ HandlerRaises(w)
    BY ZenonT(60) DEF Next, vars, WorkerStep, Client, SweepInterrupts, SweepEffects, ReviewRead, ReviewFlag,
           SweepLeases, Claim, CheckDurable, CannotRun, LoadCheckpoint, StepRaises, AttemptFailed,
           AskInterrupt, Suspend, PrepareCall, DispatchCall, FailCall, CompleteCall,
           RejectOutput, StepReturns, BadResult, Commit, Finish, HandleException, FailRun,
           Heartbeat, HeartbeatDies, Crash, Tick, Submit, CancelRead, ResumeRead, DecideRead,
           Accept, CancelWrite, ResumeWrite, DecideWrite, Refused, Answer, Others
  <2> QED
    BY <2>0, <2>1, <2>2
<1>5. crashes' \in 0..MaxCrashes /\ late' \in 0..MaxLate
  <2>0. crashes \in 0..MaxCrashes /\ late \in 0..MaxLate /\ MaxCrashes \in Nat /\ MaxLate \in Nat
    BY <1>0, PlanConstants DEF RuntimeTypeOK
  <2>1. ASSUME NEW w \in Worker, WorkerStep(w) PROVE UNCHANGED <<crashes, late>>
    BY <2>1
       DEF WorkerStep, SweepInterrupts, SweepEffects, ReviewRead, ReviewFlag,
           SweepLeases, Claim, CheckDurable, CannotRun, LoadCheckpoint, StepRaises, AttemptFailed,
           AskInterrupt, Suspend, PrepareCall, DispatchCall, HandlerReturns, HandlerRaises,
           FailCall, CompleteCall, RejectOutput, StepReturns, BadResult, Commit, Finish,
           HandleException, FailRun, Others, Faults
  <2>2. CASE Client \/ UNCHANGED vars \/ \E w \in Worker : Heartbeat(w)
    BY <2>0, <2>2
       DEF Client, vars, Heartbeat, Submit, CancelRead, ResumeRead, DecideRead, Accept,
           CancelWrite, ResumeWrite, DecideWrite, Refused, Answer, Others, Faults
  <2>3. CASE Tick \/ \E w \in Worker : HeartbeatDies(w) \/ Crash(w)
    <3>1. /\ crashes' = crashes \/ (crashes < MaxCrashes /\ crashes' = crashes + 1)
          /\ late' = late \/ (late < MaxLate /\ late' = late + 1)
      BY <2>3, Zenon DEF Tick, HeartbeatDies, Crash
    <3> QED
      BY <2>0, <3>1
  <2> QED
    BY <2>0, <2>1, <2>2, <2>3 DEF Next
<1> QED
  BY <1>1, <1>2, <1>3, <1>4, <1>5, LedgerStepTyped DEF RuntimeTypeOK
-----------------------------------------------------------------------------
(* Copies and the rows they are copies of *)

\* What a step of the store may do to a row that somebody has a copy of: the
\* version never goes back, and while it stays, so do the row, the lease's
\* holder and token, and the last checkpoint.
LEMMA VersionFences ==
    ASSUME StoreTypeOK, [StoreNext]_storeVars, NEW r \in Run
    PROVE  /\ runs[r].version \in Nat /\ runs'[r].version \in Nat
           /\ runs[r].version <= runs'[r].version
           /\ Exists(r) /\ runs'[r].version = runs[r].version =>
                  /\ runs'[r] = runs[r]
                  /\ leases'[r].holder = leases[r].holder
                  /\ leases'[r].token = leases[r].token
                  /\ checkpoints'[r] = checkpoints[r]
<1>1. StoreTypeOK'
  BY TypeStep
<1>2. runs[r] \in RunRow /\ runs[r].version \in Nat /\ runs'[r].version \in Nat
  BY <1>1 DEF StoreTypeOK, RunRow
<1>3. RowStep(r) /\ LeaseStep(r)
  BY RunsMoveByRowSteps, LeasesMoveByLeaseSteps
<1>4. runs[r].version <= runs'[r].version
  <2>1. CASE Exists(r)
    BY <1>2, <1>3, <2>1, RowStepStatus
  <2>2. CASE ~Exists(r)
    <3>1. runs'[r] = runs[r] \/ runs'[r] = Inserted(runs[r])
      BY <1>3, <2>2 DEF RowStep, Exists, CanTransition
    <3> QED
      BY <1>2, <3>1, InsertedRow
  <2> QED
    BY <2>1, <2>2
<1>5. ASSUME Exists(r), runs'[r].version = runs[r].version
      PROVE  /\ runs'[r] = runs[r]
             /\ leases'[r].holder = leases[r].holder
             /\ leases'[r].token = leases[r].token
             /\ checkpoints'[r] = checkpoints[r]
  <2>1. runs'[r] = runs[r]
    BY <1>2, <1>3, <1>5, RowStepStatus
  <2>2. leases'[r].holder = leases[r].holder /\ leases'[r].token = leases[r].token
    BY <1>3, <2>1 DEF LeaseStep
  <2>3. ASSUME CheckpointStep(r) PROVE FALSE
    <3>1. PICK w \in Worker, st \in State, nx \in Node \cup {Done} :
              CommitCheckpoint(r, w, leases[r].token, runs[r].version,
                               checkpoints[r].sequence + 1, st, nx)
      BY <2>3 DEF CheckpointStep
    <3>2. runs'[r] = Advanced(runs[r], st, nx)
      BY <3>1 DEF CommitCheckpoint, StoreTypeOK
    <3>3. runs'[r].version = runs[r].version + 1
      BY <1>2, <3>2, AdvancedRow
    <3> QED
      BY <1>2, <1>5, <3>3
  <2>4. checkpoints'[r] = checkpoints[r]
    BY <2>3, OnlyCommitsAdvance, CommitWritesBoth
  <2> QED
    BY <2>1, <2>2, <2>4
<1> QED
  BY <1>2, <1>4, <1>5
\* What one step may do to the ledger row i: insert it for a worker's call; or
\* keep run and node and change the status, to SUCCEEDED only by a worker that
\* completes the call, to PREPARED only where repeating is safe, and never away
\* from SUCCEEDED.
LedgerStep(i) ==
    \/ /\ Fresh(i)
       /\ \/ Fresh(i)'
          \/ \E w \in Worker : /\ ReadyToCall(w) /\ Keyed(R(w), N(w)) = {}
                               /\ ledger'[i].run = R(w) /\ ledger'[i].node = N(w)
                               /\ ledger'[i].status = "PREPARED"
    \/ /\ ~Fresh(i)
       /\ ledger'[i].run = ledger[i].run /\ ledger'[i].node = ledger[i].node
       /\ \/ ledger'[i].status = ledger[i].status
          \/ /\ ledger[i].status # "SUCCEEDED"
             /\ \/ ledger'[i].status \in {"DISPATCHED", "FAILED", "AMBIGUOUS"}
                \/ /\ ledger'[i].status = "PREPARED"
                   /\ Reconciled(ledger[i].node) = "PREPARED"
                \/ /\ ledger'[i].status = "SUCCEEDED"
                   /\ \E w \in Worker : At(w, "complete") /\ wk[w].inv = i

\* Every step changes the rows of the ledger in these ways.
LEMMA LedgerMoves ==
    ASSUME FenceInv, [Next]_vars, NEW i \in Invocation
    PROVE  LedgerStep(i)
<1>0. ledger \in [Invocation -> InvocationRow] /\ ledger[i] \in InvocationRow
  BY DEF FenceInv, RuntimeTypeOK
<1>a. ASSUME ledger' = ledger PROVE LedgerStep(i)
  BY <1>a DEF LedgerStep, Fresh
<1>b. ASSUME NEW j \in Invocation, NEW from, NEW to, j # i, Transition(j, from, to)
      PROVE  LedgerStep(i)
  <2>1. ledger'[i] = ledger[i]
    BY <1>0, <1>b DEF Transition
  <2> QED
    BY <2>1 DEF LedgerStep, Fresh
<1>c. ASSUME NEW from, NEW to \in InvocationStatus, Transition(i, from, to)
      PROVE  /\ ~Fresh(i) /\ ledger[i].status \in from
             /\ ledger'[i].run = ledger[i].run /\ ledger'[i].node = ledger[i].node
             /\ ledger'[i].status = to
  BY <1>0, <1>c DEF Transition, Expected, InvocationRow
<1>1. ASSUME NEW w \in Worker, PrepareCall(w) PROVE LedgerStep(i)
  <2>1. ASSUME NEW j \in Invocation, Prepare(j, R(w), N(w)) PROVE LedgerStep(i)
    <3>1. CASE i = j
      <4>1. Fresh(i) /\ Keyed(R(w), N(w)) = {} /\ ReadyToCall(w)
        BY <1>1, <2>1, <3>1 DEF Prepare, PrepareCall
      <4>2. ledger'[i] = [run |-> R(w), node |-> N(w), status |-> "PREPARED", age |-> 0]
        BY <1>0, <2>1, <3>1 DEF Prepare
      <4> QED
        BY <4>1, <4>2 DEF LedgerStep
    <3>2. CASE i # j
      <4>1. ledger'[i] = ledger[i]
        BY <1>0, <2>1, <3>2 DEF Prepare
      <4> QED
        BY <4>1 DEF LedgerStep, Fresh
    <3> QED
      BY <3>1, <3>2
  <2> QED
    BY <1>1, <1>a, <2>1 DEF PrepareCall
<1>2. ASSUME NEW w \in Worker, DispatchCall(w) \/ FailCall(w) \/ CompleteCall(w)
      PROVE  LedgerStep(i)
  <2>0. wk[w].inv \in Invocation
    BY <1>2 DEF FenceInv, WorkerInv, CallKnown, Calling, At, DispatchCall, FailCall, CompleteCall
  <2>1. CASE wk[w].inv # i
    BY <1>2, <1>a, <1>b, <2>0, <2>1
       DEF DispatchCall, FailCall, CompleteCall, MarkDispatched, FailInvocation, Complete
  <2>2. CASE wk[w].inv = i
    <3>1. CASE MarkDispatched(i)
      <4>1. ~Fresh(i) /\ ledger[i].status \in {"PREPARED"} /\ ledger'[i].run = ledger[i].run
            /\ ledger'[i].node = ledger[i].node /\ ledger'[i].status = "DISPATCHED"
        BY <1>c, <3>1 DEF MarkDispatched, InvocationStatus
      <4> QED
        BY <4>1 DEF LedgerStep
    <3>2. CASE FailInvocation(i)
      <4>1. ~Fresh(i) /\ ledger[i].status \in {"PREPARED", "DISPATCHED"}
            /\ ledger'[i].run = ledger[i].run
            /\ ledger'[i].node = ledger[i].node /\ ledger'[i].status = "FAILED"
        BY <1>c, <3>2 DEF FailInvocation, InvocationStatus
      <4> QED
        BY <4>1 DEF LedgerStep
    <3>3. CASE Complete(i) /\ At(w, "complete")
      <4>1. ~Fresh(i) /\ ledger[i].status \in {"PREPARED", "DISPATCHED"}
            /\ ledger'[i].run = ledger[i].run
            /\ ledger'[i].node = ledger[i].node /\ ledger'[i].status = "SUCCEEDED"
        BY <1>c, <3>3 DEF Complete, InvocationStatus
      <4> QED
        BY <2>2, <3>3, <4>1 DEF LedgerStep
    <3> QED
      BY <1>2, <1>a, <2>2, <3>1, <3>2, <3>3 DEF DispatchCall, FailCall, CompleteCall
  <2> QED
    BY <2>1, <2>2
<1>3. CASE ReconcileStale
  <2>1. CASE Stale(i)
    <3>1. ledger'[i] = [ledger[i] EXCEPT !.status = Reconciled(ledger[i].node), !.age = 0]
      BY <1>3, <2>1 DEF ReconcileStale
    <3>2. /\ ledger'[i].run = ledger[i].run /\ ledger'[i].node = ledger[i].node
          /\ ledger'[i].status = Reconciled(ledger[i].node)
      BY <1>0, <3>1 DEF InvocationRow
    <3>3. Reconciled(ledger[i].node) \in {"PREPARED", "AMBIGUOUS"}
      BY DEF Reconciled
    <3> QED
      BY <2>1, <3>2, <3>3 DEF LedgerStep, Stale
  <2>2. CASE ~Stale(i)
    <3>1. ledger'[i] = ledger[i]
      BY <1>3, <2>2 DEF ReconcileStale
    <3> QED
      BY <3>1 DEF LedgerStep, Fresh
  <2> QED
    BY <2>1, <2>2
<1>4. CASE Tick
  <2>1. ledger'[i] = ledger[i] \/ ledger'[i] = [ledger[i] EXCEPT !.age = @ + 1]
    BY <1>4 DEF Tick, TickedLedger
  <2>2. /\ ledger'[i].run = ledger[i].run /\ ledger'[i].node = ledger[i].node
        /\ ledger'[i].status = ledger[i].status
    BY <1>0, <2>1 DEF InvocationRow
  <2> QED
    BY <2>2 DEF LedgerStep, Fresh
<1>5. \/ ledger' = ledger \/ Tick \/ ReconcileStale
      \/ \E w \in Worker : PrepareCall(w) \/ DispatchCall(w) \/ FailCall(w) \/ CompleteCall(w)
  BY ZenonT(60) DEF Next, vars, WorkerStep, Client, SweepInterrupts, SweepEffects, ReviewRead, ReviewFlag,
         SweepLeases, Claim, CheckDurable, CannotRun, LoadCheckpoint, StepRaises, AttemptFailed,
         AskInterrupt, Suspend, HandlerReturns, HandlerRaises, RejectOutput, StepReturns, BadResult,
         Commit, Finish, HandleException, FailRun, Heartbeat, HeartbeatDies, Crash, Submit,
         CancelRead, ResumeRead, DecideRead, Accept, CancelWrite, ResumeWrite, DecideWrite, Refused,
         Answer
<1> QED
  BY <1>1, <1>2, <1>3, <1>4, <1>5, <1>a
\* A worker writes its own memory only.
LEMMA SetOwn ==
    ASSUME RuntimeTypeOK, NEW w \in Worker, NEW x, Set(w, x)
    PROVE  wk'[w] = x /\ \A v \in Worker : v # w => wk'[v] = wk[v]
  BY DEF Set, RuntimeTypeOK

LEMMA OwnMemory ==
    ASSUME RuntimeTypeOK, NEW w \in Worker,
           WorkerStep(w) \/ Heartbeat(w) \/ HeartbeatDies(w) \/ Crash(w)
    PROVE  \A v \in Worker : v # w => wk'[v] = wk[v]
<1>1. wk' = wk \/ \E x : Set(w, x)
  BY DEF WorkerStep, SweepInterrupts, SweepEffects, ReviewRead, ReviewFlag,
         SweepLeases, Claim, CheckDurable, CannotRun, LoadCheckpoint, StepRaises, AttemptFailed,
         AskInterrupt, Suspend, PrepareCall, DispatchCall, HandlerReturns, HandlerRaises,
         FailCall, CompleteCall, RejectOutput, StepReturns, BadResult, Commit, Finish,
         HandleException, FailRun, Heartbeat, HeartbeatDies, Crash, Goto, Raise, Leave
<1> QED
  BY <1>1, SetOwn

\* A fenced copy stays fenced: the row moves on, or what was known of it holds.
LEMMA CopyKept ==
    ASSUME FenceInv, [Next]_vars, NEW w \in Worker,
           wk[w].pc \in Executing, wk'[w].pc \in Executing,
           wk'[w].run = wk[w].run, wk'[w].version = wk[w].version, wk'[w].token = wk[w].token
    PROVE  /\ CopyFenced(w)'
           /\ wk'[w].version = runs'[R(w)].version =>
                  /\ wk[w].version = runs[R(w)].version
                  /\ checkpoints'[R(w)] = checkpoints[R(w)]
<1>1. StoreTypeOK /\ [StoreNext]_storeVars
  BY RuntimeStoreStep DEF FenceInv, RuntimeTypeOK
<1>2. R(w) \in Run /\ CopyFenced(w) /\ wk[w].version \in Nat
  BY MemoryTypes DEF FenceInv, WorkerInv, ClaimKnown
<1>3. /\ runs[R(w)].version \in Nat /\ runs'[R(w)].version \in Nat
      /\ runs[R(w)].version <= runs'[R(w)].version
      /\ wk[w].version <= runs[R(w)].version
  BY <1>1, <1>2, VersionFences DEF CopyFenced, Fenced
<1>4. ASSUME wk[w].version = runs'[R(w)].version
      PROVE  /\ wk[w].version = runs[R(w)].version
             /\ runs'[R(w)] = runs[R(w)] /\ runs[R(w)].status = "RUNNING"
             /\ leases'[R(w)].holder = w /\ leases'[R(w)].token = wk[w].token
             /\ checkpoints'[R(w)] = checkpoints[R(w)]
  <2>1. wk[w].version = runs[R(w)].version /\ runs'[R(w)].version = runs[R(w)].version
    BY <1>2, <1>3, <1>4
  <2>2. /\ runs[R(w)].status = "RUNNING" /\ leases[R(w)].holder = w
        /\ leases[R(w)].token = wk[w].token
    BY <1>2, <2>1 DEF CopyFenced, Fenced
  <2>3. Exists(R(w))
    BY <2>2 DEF Exists
  <2> QED
    BY <1>1, <1>2, <2>1, <2>2, <2>3, VersionFences
<1>5. R(w)' = R(w)
  BY DEF R
<1>6. wk[w].version <= runs'[R(w)].version
  BY <1>2, <1>3
<1> QED
  BY <1>4, <1>5, <1>6 DEF CopyFenced, Fenced

\* A worker in the middle of a tool call stays at its ledger row.
LEMMA CallKept ==
    ASSUME FenceInv, [Next]_vars, NEW w \in Worker, wk[w].pc \in Calling,
           wk'[w].run = wk[w].run, wk'[w].next = wk[w].next, wk'[w].inv = wk[w].inv
    PROVE  CallKnown(w)'
<1>0. WorkerInv(w)
  BY DEF FenceInv
<1>1. /\ N(w) \in Calls /\ wk[w].inv \in Invocation
      /\ ledger[wk[w].inv].run = R(w) /\ ledger[wk[w].inv].node = N(w)
  BY <1>0 DEF WorkerInv, CallKnown
<1>2. R(w) \in Run
  BY <1>0 DEF WorkerInv, ClaimKnown, Calling, Executing, InStep
<1>3. ~Fresh(wk[w].inv)
  BY <1>1, <1>2, NobodyIsNoId DEF Fresh
<1>4. ledger'[wk[w].inv].run = R(w) /\ ledger'[wk[w].inv].node = N(w)
  BY <1>1, <1>3, LedgerMoves DEF LedgerStep
<1> QED
  BY <1>1, <1>4 DEF CallKnown, R, N

\* A worker whose memory a step leaves (its heartbeat flag aside) keeps its part
\* of the invariant.
LEMMA WorkerFrame ==
    ASSUME FenceInv, [Next]_vars, NEW w \in Worker,
           wk'[w].pc = wk[w].pc, wk'[w].run = wk[w].run, wk'[w].version = wk[w].version,
           wk'[w].token = wk[w].token, wk'[w].sequence = wk[w].sequence,
           wk'[w].next = wk[w].next, wk'[w].inv = wk[w].inv
    PROVE  WorkerInv(w)'
<1>0. WorkerInv(w) /\ RuntimeTypeOK
  BY DEF FenceInv
<1>1. ClaimKnown(w)'
  BY <1>0 DEF WorkerInv, ClaimKnown, R, N
<1>2. CallKnown(w)'
  <2>1. CASE wk[w].pc \in Calling
    BY <2>1, CallKept
  <2> QED
    BY <2>1 DEF CallKnown
<1>3. CopyFenced(w)'
  <2>1. CASE wk[w].pc \in Executing
    BY <2>1, CopyKept
  <2> QED
    BY <2>1 DEF CopyFenced
<1>4. SequenceFenced(w)'
  <2> SUFFICES ASSUME wk[w].pc \in InStep \cup {"commit"}, wk[w].version = runs'[R(w)].version
               PROVE  wk[w].sequence = checkpoints'[R(w)].sequence + 1
    BY DEF SequenceFenced, R
  <2>1. wk[w].version = runs[R(w)].version /\ checkpoints'[R(w)] = checkpoints[R(w)]
    BY CopyKept DEF Executing
  <2> QED
    BY <1>0, <2>1 DEF WorkerInv, SequenceFenced
<1>5. FlagFenced(w)'
  <2> SUFFICES ASSUME wk[w].pc = "flag"
               PROVE  Fenced(R(w), wk[w].version, runs[R(w)].status = "RUNNING")'
    BY DEF FlagFenced, R, Fenced
  <2>1. StoreTypeOK /\ [StoreNext]_storeVars
    BY RuntimeStoreStep DEF FenceInv, RuntimeTypeOK
  <2>2. R(w) \in Run /\ R(w)' = R(w) /\ wk[w].version \in Nat
    BY <1>0, MemoryTypes DEF WorkerInv, ClaimKnown, R
  <2>3. Fenced(R(w), wk[w].version, runs[R(w)].status = "RUNNING")
    BY <1>0 DEF WorkerInv, FlagFenced
  <2>4. /\ runs[R(w)].version \in Nat /\ runs'[R(w)].version \in Nat
        /\ runs[R(w)].version <= runs'[R(w)].version
    BY <2>1, <2>2, VersionFences
  <2>5. ASSUME wk[w].version = runs'[R(w)].version PROVE runs'[R(w)].status = "RUNNING"
    <3>1. runs'[R(w)].version = runs[R(w)].version /\ runs[R(w)].status = "RUNNING"
      BY <2>2, <2>3, <2>4, <2>5 DEF Fenced
    <3> QED
      BY <2>1, <2>2, <3>1, VersionFences DEF Exists
  <2>6. wk[w].version <= runs'[R(w)].version
    BY <2>2, <2>3, <2>4 DEF Fenced
  <2> QED
    BY <2>2, <2>5, <2>6 DEF Fenced
<1> QED
  BY <1>1, <1>2, <1>3, <1>4, <1>5 DEF WorkerInv
\* A worker back in its loop, or in the except clause, owes little.
LEMMA WorkerLeaves ==
    ASSUME NEW w \in Worker,
           \/ wk'[w].pc \in Loop \ {"flag"}
           \/ wk'[w].pc \in {"except", "fail"} /\ wk'[w].run \in Run
    PROVE  WorkerInv(w)'
  BY DEF WorkerInv, ClaimKnown, CallKnown, CopyFenced, SequenceFenced, FlagFenced, Loop,
         Executing, InStep, Calling, R, N

\* A worker that goes on with the same copy of its run keeps its part of the
\* invariant when it knows a node and the number of the checkpoint.
LEMMA WorkerContinues ==
    ASSUME FenceInv, [Next]_vars, NEW w \in Worker,
           wk[w].pc \in Executing, wk'[w].pc \in Executing,
           wk'[w].run = wk[w].run, wk'[w].version = wk[w].version, wk'[w].token = wk[w].token,
           wk'[w].pc \in InStep \cup {"load"} => wk'[w].next \in Node,
           wk'[w].pc \in InStep \cup {"commit"} =>
               \/ wk[w].pc \in InStep \cup {"commit"} /\ wk'[w].sequence = wk[w].sequence
               \/ wk'[w].sequence = checkpoints[R(w)].sequence + 1,
           CallKnown(w)'
    PROVE  WorkerInv(w)'
<1>0. WorkerInv(w) /\ R(w)' = R(w)
  BY DEF FenceInv, R
<1>1. ClaimKnown(w)'
  BY <1>0 DEF WorkerInv, ClaimKnown, R, N, Executing
<1>2. CopyFenced(w)'
  BY CopyKept
<1>3. SequenceFenced(w)'
  <2> SUFFICES ASSUME wk'[w].pc \in InStep \cup {"commit"}, wk'[w].version = runs'[R(w)].version
               PROVE  wk'[w].sequence = checkpoints'[R(w)].sequence + 1
    BY <1>0 DEF SequenceFenced
  <2>1. wk[w].version = runs[R(w)].version /\ checkpoints'[R(w)] = checkpoints[R(w)]
    BY CopyKept
  <2> QED
    BY <1>0, <2>1 DEF WorkerInv, SequenceFenced
<1>4. FlagFenced(w)'
  BY DEF FlagFenced, Executing, InStep
<1> QED
  BY <1>1, <1>2, <1>3, <1>4 DEF WorkerInv

\* The memory after a change of pc and exception alone.
LEMMA PcFields ==
    ASSUME RuntimeTypeOK, NEW w \in Worker, NEW p \in PC
    PROVE  /\ Goto(w, p) \/ (\E k \in ExceptKinds : Raise(w, p, k)) =>
                  /\ wk'[w].pc = p /\ wk'[w].run = wk[w].run
                  /\ wk'[w].version = wk[w].version /\ wk'[w].token = wk[w].token
                  /\ wk'[w].state = wk[w].state /\ wk'[w].next = wk[w].next
                  /\ wk'[w].sequence = wk[w].sequence /\ wk'[w].inv = wk[w].inv
                  /\ wk'[w].called = wk[w].called
           /\ Leave(w) => wk'[w].pc = "expire"
<1>0. wk[w] \in WorkerMemory
  BY DEF RuntimeTypeOK
<1>1. ASSUME Goto(w, p)
      PROVE  /\ wk'[w].pc = p /\ wk'[w].run = wk[w].run
             /\ wk'[w].version = wk[w].version /\ wk'[w].token = wk[w].token
             /\ wk'[w].state = wk[w].state /\ wk'[w].next = wk[w].next
             /\ wk'[w].sequence = wk[w].sequence /\ wk'[w].inv = wk[w].inv
             /\ wk'[w].called = wk[w].called
  <2>1. wk'[w] = [wk[w] EXCEPT !.pc = p]
    BY <1>1, SetOwn DEF Goto
  <2> QED
    BY <1>0, <2>1 DEF WorkerMemory
<1>2. ASSUME NEW k \in ExceptKinds, Raise(w, p, k)
      PROVE  /\ wk'[w].pc = p /\ wk'[w].run = wk[w].run
             /\ wk'[w].version = wk[w].version /\ wk'[w].token = wk[w].token
             /\ wk'[w].state = wk[w].state /\ wk'[w].next = wk[w].next
             /\ wk'[w].sequence = wk[w].sequence /\ wk'[w].inv = wk[w].inv
             /\ wk'[w].called = wk[w].called
  <2>1. wk'[w] = [wk[w] EXCEPT !.pc = p, !.exc = k]
    BY <1>2, SetOwn DEF Raise
  <2> QED
    BY <1>0, <2>1 DEF WorkerMemory
<1>3. ASSUME Leave(w) PROVE wk'[w].pc = "expire"
  BY <1>3, SetOwn, IdleMemory DEF Leave
<1> QED
  BY <1>1, <1>2, <1>3

\* The worker goes on with the copy of the run it has.
SameCopy(w) ==
    /\ wk'[w].run = wk[w].run /\ wk'[w].version = wk[w].version /\ wk'[w].token = wk[w].token
    /\ wk'[w].state = wk[w].state /\ wk'[w].next = wk[w].next

SameStep(w) == SameCopy(w) /\ wk'[w].sequence = wk[w].sequence

\* The memory after each of the actions that change more than pc and exception.
LEMMA SweepFields ==
    ASSUME RuntimeTypeOK, NEW w \in Worker
    PROVE  /\ SweepEffects(w) \/ ReviewFlag(w) => wk'[w].pc = "review"
           /\ ReviewRead(w) => \/ wk'[w].pc \in {"review", "requeue"}
                               \/ /\ wk'[w].pc = "flag" /\ wk'[w].run \in Run
                                  /\ runs[wk'[w].run].status = "RUNNING"
                                  /\ wk'[w].version = runs[wk'[w].run].version
<1>0. wk[w] \in WorkerMemory
  BY DEF RuntimeTypeOK
<1>1. ASSUME SweepEffects(w) PROVE wk'[w].pc = "review"
  <2>1. wk'[w] = [wk[w] EXCEPT !.pc = "review", !.review = NewlyAmbiguous]
    BY <1>1, SetOwn DEF SweepEffects
  <2> QED
    BY <1>0, <2>1 DEF WorkerMemory
<1>2. ASSUME ReviewFlag(w) PROVE wk'[w].pc = "review"
  <2>1. wk'[w] = [Idle EXCEPT !.pc = "review", !.review = wk[w].review \ {R(w)}]
    BY <1>2, SetOwn DEF ReviewFlag
  <2> QED
    BY <2>1 DEF Idle
<1>3. ASSUME ReviewRead(w), NEW r \in wk[w].review, runs[r].status = "RUNNING",
             Set(w, [wk[w] EXCEPT !.pc = "flag", !.run = r, !.version = runs[r].version])
      PROVE  /\ wk'[w].pc = "flag" /\ wk'[w].run \in Run
             /\ runs[wk'[w].run].status = "RUNNING" /\ wk'[w].version = runs[wk'[w].run].version
  <2>1. wk'[w] = [wk[w] EXCEPT !.pc = "flag", !.run = r, !.version = runs[r].version]
    BY <1>3, SetOwn
  <2>2. wk'[w].pc = "flag" /\ wk'[w].run = r /\ wk'[w].version = runs[r].version /\ r \in Run
    BY <1>0, <1>3, <2>1 DEF WorkerMemory
  <2> QED
    BY <1>3, <2>2
<1>4. ASSUME ReviewRead(w), NEW r \in wk[w].review, Set(w, [wk[w] EXCEPT !.review = @ \ {r}])
      PROVE  wk'[w].pc = "review"
  <2>1. wk'[w] = [wk[w] EXCEPT !.review = @ \ {r}] /\ wk[w].pc = "review"
    BY <1>4, SetOwn DEF ReviewRead, At
  <2> QED
    BY <1>0, <2>1 DEF WorkerMemory
<1>5. ASSUME Goto(w, "requeue") PROVE wk'[w].pc = "requeue"
  BY <1>5, PcFields DEF PC, Loop
<1> QED
  BY <1>1, <1>2, <1>3, <1>4, <1>5 DEF ReviewRead

LEMMA ClaimFields ==
    ASSUME RuntimeTypeOK, NEW w \in Worker, Claim(w)
    PROVE  \/ Leave(w) /\ UNCHANGED storeVars
           \/ \E r \in Run :
                 /\ ClaimNext(r, w)
                 /\ wk'[w].pc = "check" /\ wk'[w].run = r /\ wk'[w].token = leases[r].token + 1
                 /\ wk'[w].version = runs[r].version + 1
                 /\ wk'[w].state = runs[r].state /\ wk'[w].next = runs[r].next
                 /\ ~wk'[w].called
<1>1. ASSUME NEW r \in Run, ClaimNext(r, w),
             Set(w, [Idle EXCEPT !.pc = "check", !.run = r, !.beating = TRUE,
                                 !.token = leases[r].token + 1, !.version = runs[r].version + 1,
                                 !.state = runs[r].state, !.next = runs[r].next])
      PROVE  /\ wk'[w].pc = "check" /\ wk'[w].run = r /\ wk'[w].token = leases[r].token + 1
             /\ wk'[w].version = runs[r].version + 1
             /\ wk'[w].state = runs[r].state /\ wk'[w].next = runs[r].next
             /\ ~wk'[w].called
  <2>1. wk'[w] = [Idle EXCEPT !.pc = "check", !.run = r, !.beating = TRUE,
                              !.token = leases[r].token + 1, !.version = runs[r].version + 1,
                              !.state = runs[r].state, !.next = runs[r].next]
    BY <1>1, SetOwn
  <2> QED
    BY <2>1 DEF Idle
<1> QED
  BY <1>1 DEF Claim

LEMMA StepFields ==
    ASSUME RuntimeTypeOK, NEW w \in Worker
    PROVE  /\ LoadCheckpoint(w) =>
                  /\ SameCopy(w) /\ wk'[w].pc = "step" /\ ~wk'[w].called
                  /\ wk'[w].sequence = checkpoints[R(w)].sequence + 1
           /\ AttemptFailed(w) =>
                  \/ Goto(w, "except")
                  \/ SameStep(w) /\ wk'[w].pc = "step" /\ ~wk'[w].called
           /\ Set(w, [wk[w] EXCEPT !.asked = TRUE]) =>
                  /\ SameStep(w) /\ wk'[w].pc = wk[w].pc
                  /\ wk'[w].called = wk[w].called
           /\ Set(w, [wk[w] EXCEPT !.called = TRUE]) =>
                  SameStep(w) /\ wk'[w].pc = wk[w].pc /\ wk'[w].called
           /\ \A i \in Invocation : Set(w, [wk[w] EXCEPT !.pc = "dispatch", !.inv = i]) =>
                  /\ SameStep(w) /\ wk'[w].pc = "dispatch" /\ wk'[w].inv = i
                  /\ wk'[w].called = wk[w].called
           /\ CompleteCall(w) => \/ Raise(w, "raised", "error") /\ UNCHANGED ledger
                                 \/ /\ Complete(wk[w].inv)
                                    /\ SameStep(w) /\ wk'[w].pc = "step" /\ wk'[w].called
<1>0. wk[w] \in WorkerMemory
  BY DEF RuntimeTypeOK
<1> USE DEF SameStep, SameCopy
<1>1. ASSUME LoadCheckpoint(w)
      PROVE  /\ SameCopy(w) /\ wk'[w].pc = "step" /\ ~wk'[w].called
             /\ wk'[w].sequence = checkpoints[R(w)].sequence + 1
  <2>1. wk'[w] = [wk[w] EXCEPT !.pc = "step", !.sequence = checkpoints[R(w)].sequence + 1,
                               !.attempt = 1, !.asked = FALSE, !.called = FALSE]
    BY <1>1, SetOwn DEF LoadCheckpoint
  <2> QED
    BY <1>0, <2>1 DEF WorkerMemory
<1>2. ASSUME AttemptFailed(w), ~Goto(w, "except")
      PROVE  SameStep(w) /\ wk'[w].pc = "step" /\ ~wk'[w].called
  <2>1. wk'[w] = [wk[w] EXCEPT !.pc = "step", !.attempt = @ + 1, !.asked = FALSE,
                               !.called = FALSE, !.inv = Nobody, !.exc = "none"]
    BY <1>2, SetOwn DEF AttemptFailed
  <2> QED
    BY <1>0, <2>1 DEF WorkerMemory
<1>3. ASSUME Set(w, [wk[w] EXCEPT !.asked = TRUE])
      PROVE  SameStep(w) /\ wk'[w].pc = wk[w].pc /\ wk'[w].called = wk[w].called
  <2>1. wk'[w] = [wk[w] EXCEPT !.asked = TRUE]
    BY <1>3, SetOwn
  <2> QED
    BY <1>0, <2>1 DEF WorkerMemory
<1>4. ASSUME Set(w, [wk[w] EXCEPT !.called = TRUE])
      PROVE  SameStep(w) /\ wk'[w].pc = wk[w].pc /\ wk'[w].called
  <2>1. wk'[w] = [wk[w] EXCEPT !.called = TRUE]
    BY <1>4, SetOwn
  <2> QED
    BY <1>0, <2>1 DEF WorkerMemory
<1>5. ASSUME NEW i \in Invocation, Set(w, [wk[w] EXCEPT !.pc = "dispatch", !.inv = i])
      PROVE  /\ SameStep(w) /\ wk'[w].pc = "dispatch" /\ wk'[w].inv = i
             /\ wk'[w].called = wk[w].called
  <2>1. wk'[w] = [wk[w] EXCEPT !.pc = "dispatch", !.inv = i]
    BY <1>5, SetOwn
  <2> QED
    BY <1>0, <2>1 DEF WorkerMemory
<1>6. ASSUME Set(w, [wk[w] EXCEPT !.pc = "step", !.called = TRUE, !.inv = Nobody])
      PROVE  SameStep(w) /\ wk'[w].pc = "step" /\ wk'[w].called
  <2>1. wk'[w] = [wk[w] EXCEPT !.pc = "step", !.called = TRUE, !.inv = Nobody]
    BY <1>6, SetOwn
  <2> QED
    BY <1>0, <2>1 DEF WorkerMemory
<1>7. ASSUME CompleteCall(w)
      PROVE  \/ Raise(w, "raised", "error") /\ UNCHANGED ledger
             \/ /\ Complete(wk[w].inv)
                /\ SameStep(w) /\ wk'[w].pc = "step" /\ wk'[w].called
  BY <1>6, <1>7 DEF CompleteCall
<1> HIDE DEF SameStep, SameCopy
<1> QED
  BY <1>1, <1>2, <1>3, <1>4, <1>5, <1>7

LEMMA ResultFields ==
    ASSUME RuntimeTypeOK, NEW w \in Worker
    PROVE  /\ StepReturns(w) =>
                  /\ wk'[w].pc \in {"commit", "check"}
                  /\ wk'[w].run = wk[w].run /\ wk'[w].version = wk[w].version
                  /\ wk'[w].token = wk[w].token /\ wk'[w].sequence = wk[w].sequence
                  /\ wk'[w].state = wk[w].state \cup {N(w)}
                  /\ wk'[w].next \in Successors[N(w)]
           /\ Commit(w) =>
                  \/ Raise(w, "except", "error") /\ UNCHANGED storeVars
                  \/ /\ CommitCheckpoint(R(w), w, wk[w].token, wk[w].version, wk[w].sequence,
                                         wk[w].state, N(w))
                     /\ wk'[w].pc \in {"finish", "check"} /\ wk'[w].version = wk[w].version + 1
                     /\ wk'[w].run = wk[w].run /\ wk'[w].token = wk[w].token
                     /\ wk'[w].state = wk[w].state /\ wk'[w].next = wk[w].next
           /\ HandleException(w) =>
                  Leave(w) \/ (wk'[w].pc = "fail" /\ wk'[w].run = wk[w].run)
<1>0. wk[w] \in WorkerMemory
  BY DEF RuntimeTypeOK
<1>1. ASSUME StepReturns(w)
      PROVE  /\ wk'[w].pc \in {"commit", "check"}
             /\ wk'[w].run = wk[w].run /\ wk'[w].version = wk[w].version
             /\ wk'[w].token = wk[w].token /\ wk'[w].sequence = wk[w].sequence
             /\ wk'[w].state = wk[w].state \cup {N(w)}
             /\ wk'[w].next \in Successors[N(w)]
  <2>1. PICK nx \in Successors[N(w)], p \in {"commit", "check"} :
            Set(w, [wk[w] EXCEPT !.state = @ \cup {N(w)}, !.next = nx, !.pc = p])
    BY <1>1 DEF StepReturns
  <2>2. wk'[w] = [wk[w] EXCEPT !.state = @ \cup {N(w)}, !.next = nx, !.pc = p]
    BY <2>1, SetOwn
  <2> QED
    BY <1>0, <2>2 DEF WorkerMemory
<1>2. ASSUME NEW p, Set(w, [wk[w] EXCEPT !.version = @ + 1, !.pc = p])
      PROVE  /\ wk'[w].pc = p /\ wk'[w].version = wk[w].version + 1
             /\ wk'[w].run = wk[w].run /\ wk'[w].token = wk[w].token
             /\ wk'[w].state = wk[w].state /\ wk'[w].next = wk[w].next
  <2>1. wk'[w] = [wk[w] EXCEPT !.version = @ + 1, !.pc = p]
    BY <1>2, SetOwn
  <2> QED
    BY <1>0, <2>1 DEF WorkerMemory
<1>3. ASSUME HandleException(w), ~Leave(w)
      PROVE  wk'[w].pc = "fail" /\ wk'[w].run = wk[w].run
  <2>1. wk'[w] = [wk[w] EXCEPT !.pc = "fail", !.version = runs[R(w)].version]
    BY <1>3, SetOwn DEF HandleException
  <2> QED
    BY <1>0, <2>1 DEF WorkerMemory
<1>4. ASSUME Commit(w), ~(Raise(w, "except", "error") /\ UNCHANGED storeVars)
      PROVE  /\ CommitCheckpoint(R(w), w, wk[w].token, wk[w].version, wk[w].sequence,
                                 wk[w].state, N(w))
             /\ wk'[w].pc \in {"finish", "check"} /\ wk'[w].version = wk[w].version + 1
             /\ wk'[w].run = wk[w].run /\ wk'[w].token = wk[w].token
             /\ wk'[w].state = wk[w].state /\ wk'[w].next = wk[w].next
  <2>1. PICK p \in {"finish", "check"} : Set(w, [wk[w] EXCEPT !.version = @ + 1, !.pc = p])
    BY <1>4 DEF Commit
  <2>2. CommitCheckpoint(R(w), w, wk[w].token, wk[w].version, wk[w].sequence, wk[w].state, N(w))
    BY <1>4 DEF Commit, R, N
  <2> QED
    BY <1>2, <2>1, <2>2
<1>5. HandleException(w) => Leave(w) \/ (wk'[w].pc = "fail" /\ wk'[w].run = wk[w].run)
  BY <1>3
<1>6. Commit(w) =>
          \/ Raise(w, "except", "error") /\ UNCHANGED storeVars
          \/ /\ CommitCheckpoint(R(w), w, wk[w].token, wk[w].version, wk[w].sequence,
                                 wk[w].state, N(w))
             /\ wk'[w].pc \in {"finish", "check"} /\ wk'[w].version = wk[w].version + 1
             /\ wk'[w].run = wk[w].run /\ wk'[w].token = wk[w].token
             /\ wk'[w].state = wk[w].state /\ wk'[w].next = wk[w].next
  BY <1>4
<1> QED
  BY <1>1, <1>5, <1>6

\* The acting worker keeps its part of the invariant.
LEMMA WorkerStepKeeps ==
    ASSUME FenceInv, NEW w \in Worker, WorkerStep(w)
    PROVE  WorkerInv(w)'
<1>0. [Next]_vars /\ RuntimeTypeOK /\ WorkerInv(w) /\ wk[w] \in WorkerMemory
  BY DEF Next, FenceInv, RuntimeTypeOK
<1>r. /\ wk[w].pc \in Executing \cup {"except", "fail", "flag"} => wk[w].run \in Run /\ R(w) \in Run
      /\ wk[w].pc \in InStep \cup {"load"} => wk[w].next \in Node
  BY <1>0 DEF WorkerInv, ClaimKnown, R, N
<1>a. ASSUME NEW p \in Loop \ {"flag"}, Goto(w, p) PROVE WorkerInv(w)'
  BY <1>0, <1>a, PcFields, WorkerLeaves DEF PC
<1>b. ASSUME NEW k \in ExceptKinds, Raise(w, "except", k) \/ Goto(w, "except"),
             wk[w].pc \in Executing
      PROVE  WorkerInv(w)'
  BY <1>0, <1>r, <1>b, PcFields, WorkerLeaves DEF PC
<1>c. ASSUME Leave(w) PROVE WorkerInv(w)'
  BY <1>0, <1>c, PcFields, WorkerLeaves DEF PC, Loop
<1>d. ASSUME NEW p \in InStep, wk[w].pc \in InStep,
             p \notin Calling \/ wk[w].pc \in Calling,
             Goto(w, p) \/ \E k \in ExceptKinds : Raise(w, p, k)
      PROVE  WorkerInv(w)'
  <2>1. /\ wk'[w].pc = p /\ wk'[w].run = wk[w].run
        /\ wk'[w].version = wk[w].version /\ wk'[w].token = wk[w].token
        /\ wk'[w].next = wk[w].next
        /\ wk'[w].sequence = wk[w].sequence /\ wk'[w].inv = wk[w].inv
    BY <1>0, <1>d, PcFields DEF PC, Executing
  <2>2. CallKnown(w)'
    BY <1>0, <1>d, <2>1, CallKept DEF CallKnown
  <2> QED
    BY <1>0, <1>r, <1>d, <2>1, <2>2, WorkerContinues DEF Executing
<1> USE DEF ExceptKinds
<1>1. CASE SweepInterrupts(w) \/ SweepLeases(w)
  BY <1>1, <1>a DEF SweepInterrupts, SweepLeases, Loop
<1>2. CASE SweepEffects(w) \/ ReviewFlag(w)
  <2>1. wk'[w].pc = "review"
    BY <1>0, <1>2, SweepFields
  <2> QED
    BY <2>1, WorkerLeaves DEF Loop
<1>3. CASE ReviewRead(w)
  <2>1. CASE wk'[w].pc \in {"review", "requeue"}
    BY <2>1, WorkerLeaves DEF Loop
  <2>2. CASE /\ wk'[w].pc = "flag" /\ wk'[w].run \in Run
             /\ runs[wk'[w].run].status = "RUNNING"
             /\ wk'[w].version = runs[wk'[w].run].version
    <3>1. runs' = runs /\ wk'[w].version \in Nat
      BY <1>0, <1>3, <2>2 DEF ReviewRead, storeVars, RuntimeTypeOK, StoreTypeOK, RunRow
    <3> QED
      BY <2>2, <3>1
         DEF WorkerInv, ClaimKnown, CallKnown, CopyFenced, SequenceFenced, FlagFenced, Fenced,
             Executing, InStep, Calling, R
  <2> QED
    BY <1>0, <1>3, <2>1, <2>2, SweepFields
<1>5. CASE Claim(w)
  <2>1. ASSUME NEW r \in Run, ClaimNext(r, w), wk'[w].pc = "check", wk'[w].run = r,
               wk'[w].token = leases[r].token + 1, wk'[w].version = runs[r].version + 1
        PROVE  WorkerInv(w)'
    <3>2. runs[r] \in RunRow /\ leases[r] \in LeaseRow
      BY <1>0 DEF RuntimeTypeOK, StoreTypeOK
    <3>3. runs'[r] = Moved(runs[r], "RUNNING") /\ leases'[r] = Granted(leases[r], w)
      BY <1>0, <2>1, StatusUpdate DEF ClaimNext, RuntimeTypeOK, StoreTypeOK
    <3>4. /\ runs'[r].status = "RUNNING" /\ runs'[r].version = runs[r].version + 1
          /\ leases'[r].holder = w /\ leases'[r].token = leases[r].token + 1
      <4>1. "RUNNING" \in Status
        BY DEF Status, Active
      <4>2. runs'[r].status = "RUNNING" /\ runs'[r].version = runs[r].version + 1
        BY <3>2, <3>3, <4>1, MovedRow
      <4>3. Granted(leases[r], w).holder = w /\ Granted(leases[r], w).token = leases[r].token + 1
        BY <3>2, GrantedRow
      <4> QED
        BY <3>3, <4>2, <4>3
    <3>5. runs[r].version + 1 \in Nat
      BY <3>2 DEF RunRow
    <3> QED
      BY <2>1, <3>4, <3>5
         DEF WorkerInv, ClaimKnown, CallKnown, CopyFenced, SequenceFenced, FlagFenced, Fenced,
             Executing, InStep, Calling, R
  <2> QED
    BY <1>0, <1>5, <1>c, <2>1, ClaimFields
<1>6. CASE CheckDurable(w)
  <2>1. wk[w].pc = "check"
    BY <1>6 DEF CheckDurable, At
  <2>2. ASSUME NEW p \in {"finish", "load"}, Goto(w, p), p = "load" => N(w) # Done
        PROVE  WorkerInv(w)'
    <3>1. /\ wk'[w].pc = p /\ wk'[w].run = wk[w].run
          /\ wk'[w].version = wk[w].version /\ wk'[w].token = wk[w].token
          /\ wk'[w].next = wk[w].next
      BY <1>0, <2>2, PcFields DEF PC, Executing
    <3>2. N(w) # Done => wk[w].next \in Node
      BY <1>0 DEF WorkerMemory, N
    <3>3. CallKnown(w)'
      BY <3>1 DEF CallKnown, Calling
    <3> QED
      BY <1>0, <2>1, <2>2, <3>1, <3>2, <3>3, WorkerContinues DEF Executing, InStep
  <2> QED
    BY <1>6, <1>b, <1>c, <2>1, <2>2 DEF CheckDurable, Executing
<1>7. CASE CannotRun(w) \/ BadResult(w)
  BY <1>7, <1>b DEF CannotRun, BadResult, Stepped, At, Executing, InStep
<1>8. CASE LoadCheckpoint(w)
  <2>1. wk[w].pc = "load"
    BY <1>8 DEF LoadCheckpoint, At
  <2>2. /\ wk'[w].pc = "step" /\ wk'[w].run = wk[w].run
        /\ wk'[w].version = wk[w].version /\ wk'[w].token = wk[w].token
        /\ wk'[w].next = wk[w].next /\ wk'[w].sequence = checkpoints[R(w)].sequence + 1
    BY <1>0, <1>8, StepFields DEF SameCopy
  <2>3. CallKnown(w)'
    BY <2>2 DEF CallKnown, Calling
  <2> QED
    BY <1>0, <1>r, <2>1, <2>2, <2>3, WorkerContinues DEF Executing, InStep
<1>9. CASE StepRaises(w) \/ RejectOutput(w) \/ HandlerReturns(w) \/ HandlerRaises(w) \/ FailCall(w)
  BY <1>9, <1>d
     DEF StepRaises, RejectOutput, HandlerReturns, HandlerRaises, FailCall, At, InStep, Calling
<1>10. CASE AttemptFailed(w)
  <2>1. wk[w].pc = "raised"
    BY <1>10 DEF AttemptFailed, At
  <2>2. CASE SameStep(w) /\ wk'[w].pc = "step"
    <3>2. CallKnown(w)'
      BY <2>2 DEF CallKnown, Calling
    <3> QED
      BY <1>0, <1>r, <2>1, <2>2, <3>2, WorkerContinues DEF Executing, InStep, SameStep, SameCopy
  <2> QED
    BY <1>0, <1>10, <1>b, <2>1, <2>2, StepFields DEF Executing, InStep
<1>11. ASSUME wk[w].pc = "step", Set(w, [wk[w] EXCEPT !.asked = TRUE])
                                 \/ Set(w, [wk[w] EXCEPT !.called = TRUE])
       PROVE  WorkerInv(w)'
  <2>1. /\ wk'[w].pc = "step" /\ wk'[w].run = wk[w].run
        /\ wk'[w].version = wk[w].version /\ wk'[w].token = wk[w].token
        /\ wk'[w].next = wk[w].next /\ wk'[w].sequence = wk[w].sequence
    BY <1>0, <1>11, StepFields DEF SameStep, SameCopy
  <2>2. CallKnown(w)'
    BY <2>1 DEF CallKnown, Calling
  <2> QED
    BY <1>0, <1>r, <1>11, <2>1, <2>2, WorkerContinues DEF Executing, InStep
<1>12. CASE AskInterrupt(w)
  BY <1>12, <1>c, <1>d, <1>11 DEF AskInterrupt, At, InStep, Calling
<1>13. CASE Suspend(w)
  BY <1>13, <1>c, <1>d DEF Suspend, At, InStep, Calling
<1>14. CASE PrepareCall(w)
  <2>1. wk[w].pc = "step" /\ N(w) \in Calls
    BY <1>14 DEF PrepareCall, ReadyToCall, At
  <2>2. ASSUME NEW i \in Invocation, Set(w, [wk[w] EXCEPT !.pc = "dispatch", !.inv = i]),
               ledger'[i].run = R(w), ledger'[i].node = N(w)
        PROVE  WorkerInv(w)'
    <3>1. /\ wk'[w].pc = "dispatch" /\ wk'[w].run = wk[w].run
          /\ wk'[w].version = wk[w].version /\ wk'[w].token = wk[w].token
          /\ wk'[w].next = wk[w].next /\ wk'[w].sequence = wk[w].sequence /\ wk'[w].inv = i
      BY <1>0, <2>2, StepFields DEF SameStep, SameCopy
    <3>2. CallKnown(w)'
      BY <2>1, <2>2, <3>1 DEF CallKnown, R, N
    <3> QED
      BY <1>0, <1>r, <2>1, <3>1, <3>2, WorkerContinues DEF Executing, InStep
  <2>3. ASSUME NEW i \in Invocation, Prepare(i, R(w), N(w))
        PROVE  ledger'[i].run = R(w) /\ ledger'[i].node = N(w)
    BY <1>0, <2>3 DEF Prepare, RuntimeTypeOK
  <2>4. ASSUME NEW i \in Keyed(R(w), N(w)), ledger[i].node = N(w), ledger' = ledger
        PROVE  i \in Invocation /\ ledger'[i].run = R(w) /\ ledger'[i].node = N(w)
    BY <2>4 DEF Keyed
  <2> QED
    BY <1>14, <1>11, <1>d, <2>1, <2>2, <2>3, <2>4 DEF PrepareCall, InStep, Calling
<1>15. CASE DispatchCall(w)
  BY <1>15, <1>d DEF DispatchCall, At, InStep, Calling
<1>16. CASE CompleteCall(w)
  <2>1. wk[w].pc = "complete"
    BY <1>16 DEF CompleteCall, At
  <2>2. CASE SameStep(w) /\ wk'[w].pc = "step"
    <3>2. CallKnown(w)'
      BY <2>2 DEF CallKnown, Calling
    <3> QED
      BY <1>0, <1>r, <2>1, <2>2, <3>2, WorkerContinues DEF Executing, InStep, SameStep, SameCopy
  <2> QED
    BY <1>0, <1>16, <1>d, <2>1, <2>2, StepFields DEF InStep, Calling
<1>17. CASE StepReturns(w)
  <2>1. wk[w].pc = "step"
    BY <1>17 DEF StepReturns, Stepped, At
  <2>3. /\ wk'[w].pc \in {"commit", "check"} /\ wk'[w].run = wk[w].run
        /\ wk'[w].version = wk[w].version /\ wk'[w].token = wk[w].token
        /\ wk'[w].sequence = wk[w].sequence
    BY <1>0, <1>17, ResultFields
  <2>4. CallKnown(w)'
    BY <2>3 DEF CallKnown, Calling
  <2> QED
    BY <1>0, <2>1, <2>3, <2>4, WorkerContinues DEF Executing, InStep
<1>18. CASE Commit(w)
  <2>1. wk[w].pc = "commit"
    BY <1>18 DEF Commit, At
  <2>2. ASSUME CommitCheckpoint(R(w), w, wk[w].token, wk[w].version, wk[w].sequence,
                                wk[w].state, N(w)),
               wk'[w].pc \in {"finish", "check"}, wk'[w].version = wk[w].version + 1,
               wk'[w].run = wk[w].run, wk'[w].token = wk[w].token
        PROVE  WorkerInv(w)'
    <3>0. wk[w].run \in Run /\ R(w) = wk[w].run
      BY <1>r, <2>1 DEF Executing, R
    <3>2. runs[R(w)] \in RunRow /\ wk[w].state \in State /\ N(w) \in Node \cup {Done}
      BY <1>0, <3>0, MemoryTypes DEF RuntimeTypeOK, StoreTypeOK
    <3>3. /\ runs'[R(w)] = Advanced(runs[R(w)], wk[w].state, N(w))
          /\ leases' = leases /\ runs[R(w)].status = "RUNNING"
          /\ runs[R(w)].version = wk[w].version
          /\ leases[R(w)].holder = w /\ leases[R(w)].token = wk[w].token
      BY <1>0, <2>2, <3>0
         DEF CommitCheckpoint, CommitGuard, RequiredLease, RuntimeTypeOK, StoreTypeOK
    <3>4. runs'[R(w)].status = "RUNNING" /\ runs'[R(w)].version = wk[w].version + 1
      BY <3>2, <3>3, AdvancedRow
    <3>5. wk[w].version + 1 \in Nat
      BY <1>0, MemoryTypes
    <3> QED
      BY <2>2, <3>0, <3>3, <3>4, <3>5
         DEF WorkerInv, ClaimKnown, CallKnown, CopyFenced, SequenceFenced, FlagFenced, Fenced,
             Executing, InStep, Calling, R
  <2> QED
    BY <1>0, <1>18, <1>b, <2>1, <2>2, ResultFields DEF Executing
<1>19. CASE Finish(w) \/ FailRun(w)
  BY <1>19, <1>b, <1>c DEF Finish, FailRun, At, Executing
<1>20. CASE HandleException(w)
  <2>1. wk[w].pc = "except"
    BY <1>20 DEF HandleException, At
  <2>2. CASE wk'[w].pc = "fail" /\ wk'[w].run = wk[w].run
    BY <1>r, <2>1, <2>2, WorkerLeaves
  <2> QED
    BY <1>0, <1>20, <1>c, <2>2, ResultFields
<1> QED
  BY <1>1, <1>2, <1>3, <1>5, <1>6, <1>7, <1>8, <1>9, <1>10, <1>12, <1>13, <1>14,
     <1>15, <1>16, <1>17, <1>18, <1>19, <1>20 DEF WorkerStep

\* The request in flight: it was just read, was answered, or is still fenced.
LEMMA RequestStep ==
    ASSUME FenceInv, [Next]_vars
    PROVE  RequestInv'
<1>0. RequestInv /\ StoreTypeOK /\ [StoreNext]_storeVars /\ api.version \in Nat
  BY RuntimeStoreStep DEF FenceInv, RuntimeTypeOK
<1>1. CASE api' = api
  <2> SUFFICES ASSUME api.op # "none"
               PROVE  /\ api.run \in Run
                      /\ api.op = "decide" => api.int \in Interrupt
                      /\ api.version <= runs'[api.run].version
                      /\ api.version = runs'[api.run].version /\ api.op = "resume" =>
                             runs'[api.run].status = "NEEDS_REVIEW"
    BY <1>1 DEF RequestInv, Fenced
  <2>1. /\ api.run \in Run
        /\ api.op = "decide" => api.int \in Interrupt
        /\ api.version <= runs[api.run].version
        /\ api.version = runs[api.run].version /\ api.op = "resume" =>
               runs[api.run].status = "NEEDS_REVIEW"
    BY <1>0 DEF RequestInv, Fenced
  <2>2. /\ runs[api.run].version \in Nat /\ runs'[api.run].version \in Nat
        /\ runs[api.run].version <= runs'[api.run].version
    BY <1>0, <2>1, VersionFences
  <2>3. ASSUME api.version = runs'[api.run].version, api.op = "resume"
        PROVE  runs'[api.run].status = "NEEDS_REVIEW"
    <3>1. /\ api.version = runs[api.run].version
          /\ runs'[api.run].version = runs[api.run].version
      BY <1>0, <2>1, <2>2, <2>3
    <3>2. runs[api.run].status = "NEEDS_REVIEW" /\ Exists(api.run)
      BY <2>1, <2>3, <3>1 DEF Exists
    <3> QED
      BY <1>0, <2>1, <3>1, <3>2, VersionFences
  <2>4. api.version <= runs'[api.run].version
    BY <1>0, <2>1, <2>2
  <2> QED
    BY <2>1, <2>3, <2>4
<1>2. CASE api' = NoRequest
  BY <1>2 DEF RequestInv, NoRequest
<1>3. ASSUME NEW op, NEW r \in Run, NEW i, Accept(op, r, i), op = "decide" => i \in Interrupt,
             op = "resume" => runs[r].status = "NEEDS_REVIEW"
      PROVE  RequestInv'
  <2>1. /\ api'.op = op /\ api'.run = r /\ api'.int = i /\ api'.version = runs[r].version
        /\ runs' = runs
    BY <1>3 DEF Accept, storeVars
  <2>2. runs[r].version \in Nat
    BY <1>0 DEF StoreTypeOK, RunRow
  <2> QED
    BY <1>3, <2>1, <2>2 DEF RequestInv, Fenced
<1>4. ASSUME NEW r \in Run, CancelRead(r) \/ ResumeRead(r) PROVE RequestInv'
  BY <1>3, <1>4 DEF CancelRead, ResumeRead
<1>5. ASSUME NEW i \in Interrupt, DecideRead(i) PROVE RequestInv'
  <2>1. interrupts[i].run \in Run /\ Accept("decide", interrupts[i].run, i)
    BY <1>0, <1>5 DEF DecideRead, StoreTypeOK, InterruptRow
  <2> QED
    BY <1>3, <2>1
<1>6. \/ api' = api \/ api' = NoRequest \/ \E i \in Interrupt : DecideRead(i)
      \/ \E r \in Run : CancelRead(r) \/ ResumeRead(r)
  BY ZenonT(60) DEF Next, vars, WorkerStep, Client, SweepInterrupts, SweepEffects, ReviewRead, ReviewFlag,
         SweepLeases, Claim, CheckDurable, CannotRun, LoadCheckpoint, StepRaises, AttemptFailed,
         AskInterrupt, Suspend, PrepareCall, DispatchCall, HandlerReturns, HandlerRaises,
         FailCall, CompleteCall, RejectOutput, StepReturns, BadResult, Commit, Finish,
         HandleException, FailRun, Heartbeat, HeartbeatDies, Crash, Tick, Submit, CancelWrite,
         ResumeWrite, DecideWrite, Refused, Answer, Others
<1> QED
  BY <1>1, <1>2, <1>4, <1>5, <1>6

\* Steps that are no worker's own, and heartbeats, leave what matters of the memory.
LEMMA HeartbeatFields ==
    ASSUME RuntimeTypeOK, NEW w \in Worker, Heartbeat(w) \/ HeartbeatDies(w)
    PROVE  /\ SameStep(w) /\ wk'[w].pc = wk[w].pc
           /\ wk'[w].inv = wk[w].inv /\ wk'[w].called = wk[w].called
<1>0. wk[w] \in WorkerMemory
  BY DEF RuntimeTypeOK
<1>1. wk'[w] = wk[w] \/ wk'[w] = [wk[w] EXCEPT !.beating = FALSE]
  BY SetOwn DEF Heartbeat, HeartbeatDies
<1> QED
  BY <1>0, <1>1 DEF SameStep, SameCopy, WorkerMemory

LEMMA QuietSteps ==
    ASSUME Client \/ Tick \/ UNCHANGED vars
    PROVE  UNCHANGED wk
  BY DEF Client, Tick, vars, Submit, CancelRead, ResumeRead, DecideRead, Accept,
         CancelWrite, ResumeWrite, DecideWrite, Refused, Answer, Others

\* The invariant is inductive.
LEMMA FenceStep ==
    ASSUME FenceInv, [Next]_vars
    PROVE  FenceInv'
<1>0. RuntimeTypeOK
  BY DEF FenceInv
<1>1. ASSUME NEW v \in Worker PROVE WorkerInv(v)'
  <2>1. CASE wk'[v] = wk[v]
    BY <2>1, WorkerFrame
  <2>2. CASE WorkerStep(v)
    BY <2>2, WorkerStepKeeps
  <2>3. CASE Heartbeat(v) \/ HeartbeatDies(v)
    BY <1>0, <2>3, HeartbeatFields, WorkerFrame DEF SameStep, SameCopy
  <2>4. CASE Crash(v)
    <3>1. wk'[v].pc = "expire"
      BY <1>0, <2>4, PcFields DEF Crash, PC, Loop
    <3> QED
      BY <3>1, WorkerLeaves DEF Loop
  <2>5. CASE \E w \in Worker : w # v /\ (WorkerStep(w) \/ Heartbeat(w) \/ HeartbeatDies(w) \/ Crash(w))
    BY <1>0, <2>1, <2>5, OwnMemory
  <2>6. CASE Client \/ Tick \/ UNCHANGED vars
    BY <2>1, <2>6, QuietSteps
  <2> QED
    BY <2>2, <2>3, <2>4, <2>5, <2>6 DEF Next
<1> QED
  BY <1>1, RuntimeTypeStep, RequestStep DEF FenceInv

LEMMA FenceInit ==
    ASSUME Init
    PROVE  FenceInv
<1>1. StoreTypeOK
  BY RequestTypes DEF Init, StoreInit, StoreTypeOK, RunRow, LeaseRow, CheckpointRow,
                      InterruptRow, Status
<1>2. ledger \in [Invocation -> InvocationRow]
  BY LedgerConstants, PlanConstants DEF Init, LedgerInit, InvocationRow, InvocationStatus
<1>3. wk \in [Worker -> WorkerMemory]
  BY IdleMemory DEF Init
<1>4. api \in [op : {"none"} \cup ApiOps, run : Run \cup {Nobody},
               int : Interrupt \cup {Nobody}, version : Nat]
  BY DEF Init, NoRequest
<1>5. applied \in [Run -> [Node -> Nat]] /\ crashes \in 0..MaxCrashes /\ late \in 0..MaxLate
  BY PlanConstants DEF Init
<1>6. RequestInv
  BY DEF Init, NoRequest, RequestInv
<1>7. ASSUME NEW w \in Worker PROVE WorkerInv(w)
  <2>1. wk[w].pc = "expire"
    BY <1>7, IdleMemory DEF Init
  <2> QED
    BY <2>1 DEF WorkerInv, ClaimKnown, CallKnown, CopyFenced, SequenceFenced, FlagFenced,
                Executing, InStep, Calling
<1> QED
  BY <1>1, <1>2, <1>3, <1>4, <1>5, <1>6, <1>7 DEF FenceInv, RuntimeTypeOK
-----------------------------------------------------------------------------
(* Theorems: fencing and the refinement of the store *)

\* The tables, every worker's memory, the request in flight and the counters of
\* faults keep their types, and every copy is outdated or what it says is true.
THEOREM Fencing == Spec => []FenceInv
  BY FenceInit, FenceStep, PTL DEF Spec

\* What workers, heartbeats, clients and the clock do keeps tables, ledger and
\* memories well formed.
THEOREM RuntimeTypes == Spec => []RuntimeTypeOK
<1>1. FenceInv => RuntimeTypeOK
  BY DEF FenceInv
<1> QED
  BY <1>1, Fencing, PTL

\* A worker with a current copy of its run holds the newest lease of that run.
THEOREM CopiesAreFenced == Spec => []CurrentCopyHoldsLease
<1>1. FenceInv => CurrentCopyHoldsLease
  BY DEF FenceInv, WorkerInv, CopyFenced, Fenced, CurrentCopyHoldsLease
<1> QED
  BY <1>1, Fencing, PTL

\* Every step of the runtime is a call of the store: what the theorems of
\* RunStoreProofs say of StoreSpec holds of the runtime.
THEOREM RuntimeImplementsStore == Spec => ImplementsStore
<1>1. Init => StoreInit
  BY DEF Init
<1>2. FenceInv /\ [Next]_vars => [StoreNext]_storeVars
  BY RuntimeStoreStep
<1> QED
  BY <1>1, <1>2, Fencing, PTL DEF Spec, ImplementsStore, StoreSpec
-----------------------------------------------------------------------------
(* Where state and next come from: commits, claims and returned steps *)

\* A step that is no commit leaves the checkpoints.
LEMMA OthersKeepCheckpoints ==
    ASSUME [Next]_vars, \A w \in Worker : ~Commit(w)
    PROVE  checkpoints' = checkpoints
<1>1. ASSUME NEW w \in Worker, WorkerStep(w) PROVE checkpoints' = checkpoints
  BY <1>1 DEF WorkerStep, storeVars, SweepInterrupts, ExpireInterrupts, SweepEffects, ReviewRead,
         ReviewFlag, TransitionRun, SweepLeases, RequeueExpiredLeases, Claim, ClaimNext,
         CheckDurable, CannotRun, LoadCheckpoint, StepRaises, AttemptFailed, AppendRunEvent,
         AskInterrupt, Suspend, CreateInterrupt, PrepareCall, DispatchCall, HandlerReturns,
         HandlerRaises, FailCall, CompleteCall, RejectOutput, StepReturns, BadResult, Finish,
         FinishClaim, HandleException, FailRun
<1>2. ASSUME NEW w \in Worker, Heartbeat(w) \/ HeartbeatDies(w) \/ Crash(w)
      PROVE  checkpoints' = checkpoints
  BY <1>2 DEF Heartbeat, RenewLease, HeartbeatDies, Crash, storeVars
<1>3. CASE Client
  BY <1>3 DEF Client, storeVars, Submit, CreateRun, CancelRead, ResumeRead, DecideRead, Accept,
         CancelWrite, ResumeWrite, DecideWrite, TransitionRun, DecideInterrupt, Refused
<1>4. CASE Tick \/ UNCHANGED vars
  BY <1>4 DEF Tick, vars, storeVars
<1> QED
  BY <1>1, <1>2, <1>3, <1>4 DEF Next

\* A run's state and next change only to those of a worker that executes it.
LEMMA RowsAdvance ==
    ASSUME FenceInv, [Next]_vars, NEW r \in Run
    PROVE  \/ runs'[r].state = runs[r].state /\ runs'[r].next = runs[r].next
           \/ \E w \in Worker : /\ wk[w].pc \in Executing /\ R(w) = r
                                /\ runs'[r].state = wk[w].state /\ runs'[r].next = N(w)
<1>0. RuntimeTypeOK /\ StoreTypeOK /\ [StoreNext]_storeVars
  BY RuntimeStoreStep DEF FenceInv, RuntimeTypeOK
<1>1. ASSUME NEW w \in Worker, Commit(w),
             CommitCheckpoint(R(w), w, wk[w].token, wk[w].version, wk[w].sequence,
                              wk[w].state, N(w))
      PROVE  \/ runs'[r].state = runs[r].state /\ runs'[r].next = runs[r].next
             \/ \E x \in Worker : /\ wk[x].pc \in Executing /\ R(x) = r
                                  /\ runs'[r].state = wk[x].state /\ runs'[r].next = N(x)
  <2>1. CASE R(w) = r
    <3>1. wk[w].pc \in Executing /\ wk[w].state \in State /\ N(w) \in Node \cup {Done}
      BY <1>0, <1>1, MemoryTypes DEF Commit, At, Executing
    <3>2. runs'[r] = Advanced(runs[r], wk[w].state, N(w)) /\ runs[r] \in RunRow
      BY <1>0, <1>1, <2>1 DEF CommitCheckpoint, StoreTypeOK
    <3>3. runs'[r].state = wk[w].state /\ runs'[r].next = N(w)
      BY <3>1, <3>2, AdvancedRow
    <3> QED
      BY <2>1, <3>1, <3>3
  <2>2. CASE R(w) # r
    BY <1>0, <1>1, <2>2 DEF CommitCheckpoint, StoreTypeOK
  <2> QED
    BY <2>1, <2>2
<1>2. ASSUME NEW w \in Worker, Commit(w), UNCHANGED storeVars
      PROVE  runs'[r].state = runs[r].state /\ runs'[r].next = runs[r].next
  BY <1>2 DEF storeVars
<1>3. CASE \A w \in Worker : ~Commit(w)
  <2>1. checkpoints' = checkpoints
    BY <1>3, OthersKeepCheckpoints
  <2>2. ASSUME NEW q \in Run, CheckpointStep(q) PROVE FALSE
    <3>1. checkpoints'[q].sequence = checkpoints[q].sequence + 1
      BY <1>0, <2>2 DEF CheckpointStep, CommitCheckpoint, StoreTypeOK
    <3>2. checkpoints[q].sequence \in Nat
      BY <1>0 DEF StoreTypeOK, CheckpointRow
    <3> QED
      BY <2>1, <3>1, <3>2
  <2> QED
    BY <1>0, <2>2, OnlyCommitsAdvance
<1> QED
  BY <1>0, <1>1, <1>2, <1>3, ResultFields

\* The row that prepare finds for the call of w's step says SUCCEEDED.
FoundDone(w) ==
    /\ N(w) \in Calls
    /\ \E i \in Invocation : /\ ledger[i].run = R(w) /\ ledger[i].node = N(w)
                             /\ ledger[i].status = "SUCCEEDED"

Claimed(w) ==
    /\ wk'[w].pc = "check" /\ wk'[w].run \in Run
    /\ wk'[w].state = runs[wk'[w].run].state /\ wk'[w].next = runs[wk'[w].run].next

Returned(w) ==
    /\ Stepped(w)
    /\ wk'[w].pc \in {"commit", "check"} /\ wk'[w].run = wk[w].run
    /\ wk'[w].state = wk[w].state \cup {N(w)} /\ wk'[w].next \in Successors[N(w)]

\* The worker goes on executing; how it may come to have made its call, to have
\* a result of its handler, and to be in its handler.
GoesOn(w) ==
    /\ wk[w].pc \in Executing
    /\ wk'[w].run = wk[w].run /\ wk'[w].state = wk[w].state /\ wk'[w].next = wk[w].next
    /\ wk'[w].pc \in InStep /\ wk'[w].called =>
           \/ wk[w].pc \in InStep /\ wk[w].called
           \/ wk[w].pc = "complete" /\ Complete(wk[w].inv)
           \/ wk[w].pc = "step" /\ FoundDone(w)
    /\ wk'[w].pc = "complete" => wk[w].pc = "complete" \/ HandlerReturns(w)
    /\ wk'[w].pc = "call" => /\ wk'[w].inv = wk[w].inv
                             /\ \/ wk[w].pc = "call"
                                \/ DispatchCall(w) /\ MarkDispatched(wk[w].inv)

\* What one step may do to the copy of the run in a worker's memory.
CopyStep(w) == wk'[w].pc \notin Executing \/ Claimed(w) \/ Returned(w) \/ GoesOn(w)

LEMMA WorkerCopyStep ==
    ASSUME RuntimeTypeOK, NEW w \in Worker, WorkerStep(w)
    PROVE  CopyStep(w)
<1>a. ASSUME NEW p \in Loop \cup {"except", "fail"}, wk'[w].pc = p PROVE CopyStep(w)
  BY <1>a DEF CopyStep, Loop, Executing, InStep
<1>b. ASSUME NEW p \in Loop \cup {"except", "fail"}, 
             Goto(w, p) \/ \E k \in ExceptKinds : Raise(w, p, k)
      PROVE  CopyStep(w)
  <2>1. wk'[w].pc = p
    BY <1>b, PcFields DEF PC
  <2> QED
    BY <1>a, <2>1
<1>c. ASSUME Leave(w) PROVE CopyStep(w)
  BY <1>a, <1>c, PcFields DEF PC, Loop
<1>d. ASSUME NEW p \in Executing \ {"complete", "call"}, wk[w].pc \in Executing,
             p \in InStep => wk[w].pc \in InStep,
             Goto(w, p) \/ \E k \in ExceptKinds : Raise(w, p, k)
      PROVE  CopyStep(w)
  <2>1. /\ wk'[w].pc = p /\ wk'[w].run = wk[w].run /\ wk'[w].state = wk[w].state
        /\ wk'[w].next = wk[w].next /\ wk'[w].called = wk[w].called
    BY <1>d, PcFields DEF PC
  <2> QED
    BY <1>d, <2>1 DEF CopyStep, GoesOn
<1>e. ASSUME SameStep(w), wk[w].pc \in Executing, wk'[w].pc \in Executing \ {"complete", "call"},
             wk'[w].pc \in InStep /\ wk'[w].called =>
                 \/ wk[w].pc \in InStep /\ wk[w].called
                 \/ wk[w].pc = "complete" /\ Complete(wk[w].inv)
                 \/ wk[w].pc = "step" /\ FoundDone(w)
      PROVE  CopyStep(w)
  BY <1>e DEF CopyStep, GoesOn, SameStep, SameCopy
<1> USE DEF ExceptKinds
<1>1. CASE SweepInterrupts(w) \/ SweepLeases(w)
  BY <1>1, <1>b DEF SweepInterrupts, SweepLeases, Loop
<1>2. CASE SweepEffects(w) \/ ReviewFlag(w) \/ ReviewRead(w)
  <2>1. wk'[w].pc \in {"review", "requeue", "flag"}
    BY <1>2, SweepFields
  <2> QED
    BY <1>a, <2>1 DEF Loop
<1>3. CASE Claim(w)
  <2>1. Leave(w) \/ Claimed(w)
    BY <1>3, ClaimFields DEF Claimed
  <2> QED
    BY <1>c, <2>1 DEF CopyStep
<1>4. CASE CheckDurable(w) \/ CannotRun(w)
  <2>1. wk[w].pc = "check" /\ wk[w].pc \in Executing
    BY <1>4 DEF CheckDurable, CannotRun, At, Executing
  <2>2. "load" \in Executing \ {"complete", "call"} /\ "finish" \in Executing \ {"complete", "call"}
        /\ "load" \notin InStep /\ "finish" \notin InStep
    BY DEF Executing, InStep
  <2> QED
    BY <1>4, <1>b, <1>c, <1>d, <2>1, <2>2 DEF CheckDurable, CannotRun
<1>5. CASE LoadCheckpoint(w)
  <2>1. SameCopy(w) /\ wk'[w].pc = "step" /\ ~wk'[w].called /\ wk[w].pc = "load"
    BY <1>5, StepFields DEF LoadCheckpoint, At
  <2> QED
    BY <2>1 DEF CopyStep, GoesOn, SameCopy, Executing, InStep
<1>6. CASE StepRaises(w) \/ Suspend(w) \/ RejectOutput(w) \/ HandlerRaises(w) \/ FailCall(w)
  <2>1. wk[w].pc \in Executing /\ wk[w].pc \in InStep
    BY <1>6 DEF StepRaises, Suspend, RejectOutput, HandlerRaises, FailCall, At, Executing, InStep
  <2>2. "raised" \in Executing \ {"complete", "call"} /\ "toolfail" \in Executing \ {"complete", "call"}
    BY DEF Executing, InStep
  <2> QED
    BY <1>6, <1>c, <1>d, <2>1, <2>2 DEF StepRaises, Suspend, RejectOutput, HandlerRaises, FailCall
<1>7. CASE AttemptFailed(w)
  <2>1. wk[w].pc = "raised"
    BY <1>7 DEF AttemptFailed, At
  <2>2. CASE SameStep(w) /\ wk'[w].pc = "step" /\ ~wk'[w].called
    BY <1>e, <2>1, <2>2 DEF Executing, InStep
  <2> QED
    BY <1>7, <1>b, <2>2, StepFields
<1>8. CASE AskInterrupt(w)
  <2>1. wk[w].pc = "step" /\ wk[w].pc \in Executing /\ wk[w].pc \in InStep
        /\ "suspend" \in Executing \ {"complete", "call"}
    BY <1>8 DEF AskInterrupt, At, Executing, InStep
  <2>2. CASE Set(w, [wk[w] EXCEPT !.asked = TRUE])
    <3>1. SameStep(w) /\ wk'[w].pc = wk[w].pc /\ wk'[w].called = wk[w].called
      BY <2>2, StepFields
    <3> QED
      BY <1>e, <2>1, <3>1
  <2> QED
    BY <1>8, <1>c, <1>d, <2>1, <2>2 DEF AskInterrupt
<1>9. CASE PrepareCall(w)
  <2>1. wk[w].pc = "step" /\ wk[w].pc \in Executing /\ wk[w].pc \in InStep /\ N(w) \in Calls
        /\ "raised" \in Executing \ {"complete", "call"}
    BY <1>9 DEF PrepareCall, ReadyToCall, At, Executing, InStep
  <2>2. ASSUME NEW i \in Invocation, Set(w, [wk[w] EXCEPT !.pc = "dispatch", !.inv = i])
        PROVE  CopyStep(w)
    <3>1. SameStep(w) /\ wk'[w].pc = "dispatch" /\ wk'[w].called = wk[w].called
      BY <2>2, StepFields
    <3>2. "dispatch" \in Executing \ {"complete", "call"}
      BY DEF Executing, InStep
    <3> QED
      BY <1>e, <2>1, <3>1, <3>2
  <2>3. ASSUME NEW i \in Keyed(R(w), N(w)), ledger[i].node = N(w), ledger[i].status = "SUCCEEDED",
               Set(w, [wk[w] EXCEPT !.called = TRUE])
        PROVE  CopyStep(w)
    <3>1. SameStep(w) /\ wk'[w].pc = wk[w].pc
      BY <2>3, StepFields
    <3>2. FoundDone(w)
      BY <2>1, <2>3 DEF FoundDone, Keyed
    <3> QED
      BY <1>e, <2>1, <3>1, <3>2
  <2>4. \A i \in Keyed(R(w), N(w)) : i \in Invocation
    BY DEF Keyed
  <2> QED
    BY <1>9, <1>d, <2>1, <2>2, <2>3, <2>4 DEF PrepareCall
<1>10. CASE DispatchCall(w)
  <2>1. wk[w].pc = "dispatch" /\ wk[w].pc \in Executing /\ wk[w].pc \in InStep
        /\ "raised" \in Executing \ {"complete", "call"} /\ "call" \in PC
    BY <1>10 DEF DispatchCall, At, Executing, InStep, PC
  <2>2. CASE MarkDispatched(wk[w].inv) /\ Goto(w, "call")
    <3>1. /\ wk'[w].pc = "call" /\ wk'[w].run = wk[w].run /\ wk'[w].state = wk[w].state
          /\ wk'[w].next = wk[w].next /\ wk'[w].called = wk[w].called /\ wk'[w].inv = wk[w].inv
      BY <2>1, <2>2, PcFields
    <3> QED
      BY <1>10, <2>1, <2>2, <3>1 DEF CopyStep, GoesOn
  <2> QED
    BY <1>10, <1>d, <2>1, <2>2 DEF DispatchCall
<1>11. CASE HandlerReturns(w)
  <2>1. wk[w].pc = "call" /\ wk[w].pc \in Executing /\ wk[w].pc \in InStep /\ "complete" \in PC
    BY <1>11 DEF HandlerReturns, At, Executing, InStep, PC
  <2>2. /\ wk'[w].pc = "complete" /\ wk'[w].run = wk[w].run /\ wk'[w].state = wk[w].state
        /\ wk'[w].next = wk[w].next /\ wk'[w].called = wk[w].called
    BY <1>11, <2>1, PcFields DEF HandlerReturns
  <2> QED
    BY <1>11, <2>1, <2>2 DEF CopyStep, GoesOn
<1>12. CASE CompleteCall(w)
  <2>1. wk[w].pc = "complete" /\ wk[w].pc \in Executing /\ wk[w].pc \in InStep
        /\ "raised" \in Executing \ {"complete", "call"} /\ "step" \in Executing \ {"complete", "call"}
    BY <1>12 DEF CompleteCall, At, Executing, InStep
  <2>2. CASE Complete(wk[w].inv) /\ SameStep(w) /\ wk'[w].pc = "step"
    BY <1>e, <2>1, <2>2
  <2> QED
    BY <1>12, <1>d, <2>1, <2>2, StepFields
<1>13. CASE StepReturns(w)
  <2>1. Returned(w)
    BY <1>13, ResultFields DEF Returned, StepReturns
  <2> QED
    BY <2>1 DEF CopyStep
<1>14. CASE BadResult(w) \/ FailRun(w) \/ Finish(w)
  BY <1>14, <1>b, <1>c DEF BadResult, FailRun, Finish
<1>15. CASE Commit(w)
  <2>1. wk[w].pc = "commit" /\ wk[w].pc \in Executing
    BY <1>15 DEF Commit, At, Executing
  <2>2. CASE /\ wk'[w].pc \in {"finish", "check"} /\ wk'[w].run = wk[w].run
             /\ wk'[w].state = wk[w].state /\ wk'[w].next = wk[w].next
    BY <2>1, <2>2 DEF CopyStep, GoesOn, InStep
  <2> QED
    BY <1>15, <1>b, <2>2, ResultFields
<1>16. CASE HandleException(w)
  BY <1>16, <1>a, <1>c, ResultFields
<1> QED
  BY <1>1, <1>2, <1>3, <1>4, <1>5, <1>6, <1>7, <1>8, <1>9, <1>10, <1>11, <1>12, <1>13, <1>14,
     <1>15, <1>16 DEF WorkerStep

\* Every step does to every worker's copy one of these.
LEMMA CopiesMove ==
    ASSUME RuntimeTypeOK, [Next]_vars, NEW v \in Worker
    PROVE  CopyStep(v)
<1>1. CASE wk'[v] = wk[v]
  BY <1>1 DEF CopyStep, GoesOn
<1>2. CASE Heartbeat(v) \/ HeartbeatDies(v)
  <2>1. SameStep(v) /\ wk'[v].pc = wk[v].pc /\ wk'[v].inv = wk[v].inv /\ wk'[v].called = wk[v].called
    BY <1>2, HeartbeatFields
  <2> QED
    BY <2>1 DEF CopyStep, GoesOn, SameStep, SameCopy
<1>3. CASE Crash(v)
  <2>1. wk'[v].pc = "expire"
    BY <1>3, PcFields DEF Crash, PC, Loop
  <2> QED
    BY <2>1 DEF CopyStep, Executing, InStep
<1>4. CASE \E w \in Worker : w # v /\ (WorkerStep(w) \/ Heartbeat(w) \/ HeartbeatDies(w) \/ Crash(w))
  BY <1>1, <1>4, OwnMemory
<1>5. CASE Client \/ Tick \/ UNCHANGED vars
  BY <1>1, <1>5, QuietSteps
<1> QED
  BY <1>2, <1>3, <1>4, <1>5, WorkerCopyStep DEF Next
-----------------------------------------------------------------------------
(* Theorem: what was done is a path of the plan *)

\* A step that leads on to one of its successors extends the path.
LEMMA PathGrows ==
    ASSUME NEW done, NEW n, NEW next, NEW entry, OnPath(done, n, entry), next \in Successors[n]
    PROVE  OnPath(done \cup {n}, next, entry)
  BY DEF OnPath

LEMMA PathStep ==
    ASSUME FenceInv, PathInv, [Next]_vars
    PROVE  PathInv'
<1>0. RuntimeTypeOK
  BY DEF FenceInv
<1>1. ASSUME NEW r \in Run PROVE OnPath(runs'[r].state, runs'[r].next, EntryOf[r])
  <2>1. \A w \in Worker : wk[w].pc \in Executing => OnPath(wk[w].state, N(w), EntryOf[R(w)])
    BY DEF PathInv, N
  <2> QED
    BY <2>1, RowsAdvance DEF PathInv
<1>2. ASSUME NEW w \in Worker, wk'[w].pc \in Executing
      PROVE  OnPath(wk'[w].state, wk'[w].next, EntryOf[wk'[w].run])
  <2>1. CASE Claimed(w)
    BY <2>1 DEF Claimed, PathInv
  <2>2. CASE Returned(w)
    <3>1. wk[w].pc \in Executing
      BY <2>2 DEF Returned, Stepped, At, Executing, InStep
    <3>2. OnPath(wk[w].state, N(w), EntryOf[wk[w].run])
      BY <3>1 DEF PathInv, N, R
    <3> QED
      BY <2>2, <3>2, PathGrows DEF Returned
  <2>3. CASE GoesOn(w)
    BY <2>3 DEF GoesOn, PathInv, R
  <2> QED
    BY <1>0, <1>2, <2>1, <2>2, <2>3, CopiesMove DEF CopyStep
<1> QED
  BY <1>1, <1>2 DEF PathInv, R

\* At any time, and through crashes, take-overs and refused commits, what a run
\* has durably done is a path of its plan from the entry node to what is next.
THEOREM RunsFollowThePlan == Spec => []CommittedPath
<1>1. Init => PathInv
  <2> SUFFICES ASSUME Init PROVE PathInv
    OBVIOUS
  <2>1. ASSUME NEW r \in Run PROVE OnPath(runs[r].state, runs[r].next, EntryOf[r])
    BY <2>1, PlanConstants DEF Init, StoreInit, OnPath
  <2>2. ASSUME NEW w \in Worker PROVE wk[w].pc = "expire"
    BY <2>2, IdleMemory DEF Init
  <2> QED
    BY <2>1, <2>2 DEF PathInv, Executing, InStep
<1>2. FenceInv /\ PathInv /\ [Next]_vars => PathInv'
  BY PathStep
<1>3. PathInv => CommittedPath
  BY DEF PathInv, OnPath, CommittedPath
<1> QED
  BY <1>1, <1>2, <1>3, Fencing, PTL DEF Spec
-----------------------------------------------------------------------------
(* Theorem: success is confirmed *)

\* The only steps that change the external effects are those of a worker in its
\* tool's handler; they add at most one effect, of its own call, leave the
\* ledger, and end the handler.
LEMMA EffectsMove ==
    ASSUME FenceInv, [Next]_vars
    PROVE  \/ applied' = applied
           \/ \E w \in Worker, k \in {0, 1} :
                 /\ wk[w].pc = "call" /\ R(w) \in Run /\ N(w) \in Node
                 /\ applied' = [applied EXCEPT ![R(w)][N(w)] = @ + k]
                 /\ ledger' = ledger /\ wk'[w].pc # "call"
<1>1. ASSUME NEW w \in Worker, HandlerReturns(w) \/ HandlerRaises(w)
      PROVE  \E k \in {0, 1} :
                 /\ wk[w].pc = "call" /\ R(w) \in Run /\ N(w) \in Node
                 /\ applied' = [applied EXCEPT ![R(w)][N(w)] = @ + k]
                 /\ ledger' = ledger /\ wk'[w].pc # "call"
  <2>1. wk[w].pc = "call" /\ ledger' = ledger
    BY <1>1 DEF HandlerReturns, HandlerRaises, At
  <2>2. R(w) \in Run /\ N(w) \in Node
    BY <2>1 DEF FenceInv, WorkerInv, ClaimKnown, Executing, InStep
  <2>3. \E k \in {0, 1} : applied' = [applied EXCEPT ![R(w)][N(w)] = @ + k]
    BY <1>1 DEF HandlerReturns, HandlerRaises
  <2>4. \E p \in {"complete", "toolfail", "raised"} :
            Goto(w, p) \/ \E k \in ExceptKinds : Raise(w, p, k)
    BY <1>1 DEF HandlerReturns, HandlerRaises
  <2>5. RuntimeTypeOK /\ {"complete", "toolfail", "raised"} \subseteq PC
    BY DEF FenceInv, PC, Executing, InStep
  <2>6. wk'[w].pc \in {"complete", "toolfail", "raised"}
    BY <2>4, <2>5, PcFields
  <2> QED
    BY <2>1, <2>2, <2>3, <2>6
<1>2. applied' = applied \/ \E w \in Worker : HandlerReturns(w) \/ HandlerRaises(w)
  BY ZenonT(60) DEF Next, vars, WorkerStep, Client, SweepInterrupts, SweepEffects, ReviewRead, ReviewFlag,
         SweepLeases, Claim, CheckDurable, CannotRun, LoadCheckpoint, StepRaises, AttemptFailed,
         AskInterrupt, Suspend, PrepareCall, DispatchCall, FailCall, CompleteCall,
         RejectOutput, StepReturns, BadResult, Commit, Finish, HandleException, FailRun,
         Heartbeat, HeartbeatDies, Crash, Tick, Submit, CancelRead, ResumeRead, DecideRead,
         Accept, CancelWrite, ResumeWrite, DecideWrite, Refused, Answer, Others
<1> QED
  BY <1>1, <1>2

LEMMA EffectsStay ==
    ASSUME FenceInv, [Next]_vars, NEW r \in Run, NEW n \in Node, applied[r][n] > 0
    PROVE  applied'[r][n] > 0
<1>0. applied \in [Run -> [Node -> Nat]] /\ applied[r][n] \in Nat
  BY DEF FenceInv, RuntimeTypeOK
<1>1. ASSUME NEW q \in Run, NEW m \in Node, NEW k \in {0, 1},
             applied' = [applied EXCEPT ![q][m] = @ + k]
      PROVE  applied'[r][n] = applied[r][n] \/ applied'[r][n] = applied[r][n] + k
  BY <1>0, <1>1
<1>2. ASSUME NEW k \in {0, 1}, applied'[r][n] = applied[r][n] + k PROVE applied'[r][n] > 0
  BY <1>0, <1>2
<1> QED
  BY <1>1, <1>2, EffectsMove

\* A confirmed call stays confirmed.
LEMMA ConfirmedStays ==
    ASSUME FenceInv, [Next]_vars, NEW r \in Run, NEW n \in Node, Confirmed(r, n)
    PROVE  Confirmed(r, n)'
<1>1. applied'[r][n] > 0
  BY EffectsStay DEF Confirmed
<1>2. PICK i \in Invocation : /\ ledger[i].run = r /\ ledger[i].node = n
                              /\ ledger[i].status = "SUCCEEDED"
  BY DEF Confirmed
<1>3. ~Fresh(i)
  BY <1>2, NobodyIsNoId DEF Fresh
<1>4. ledger'[i].run = r /\ ledger'[i].node = n /\ ledger'[i].status = "SUCCEEDED"
  BY <1>2, <1>3, LedgerMoves DEF LedgerStep
<1> QED
  BY <1>1, <1>4 DEF Confirmed

LEMMA ConfirmStep ==
    ASSUME FenceInv, ConfirmInv, [Next]_vars
    PROVE  ConfirmInv'
<1>0. RuntimeTypeOK /\ Calls \subseteq Node /\ \A w \in Worker : WorkerInv(w)
  BY PlanConstants DEF FenceInv
<1>r. \A w \in Worker : wk[w].pc \in Executing => R(w) \in Run
  BY <1>0 DEF WorkerInv, ClaimKnown
<1>1. ASSUME NEW r \in Run, NEW n \in Calls, n \in runs'[r].state PROVE Confirmed(r, n)'
  <2>1. CASE n \in runs[r].state
    <3>1. Confirmed(r, n)
      BY <2>1 DEF ConfirmInv
    <3> QED
      BY <1>0, <3>1, ConfirmedStays
  <2>2. ASSUME NEW w \in Worker, wk[w].pc \in Executing, R(w) = r, n \in wk[w].state
        PROVE  Confirmed(r, n)'
    <3>1. Confirmed(r, n)
      BY <2>2 DEF ConfirmInv
    <3> QED
      BY <1>0, <3>1, ConfirmedStays
  <2> QED
    BY <1>1, <2>1, <2>2, RowsAdvance
<1>2. ASSUME NEW w \in Worker, NEW n \in Calls, wk'[w].pc \in Executing, n \in wk'[w].state
      PROVE  Confirmed(R(w), n)'
  <2>1. ASSUME Claimed(w) PROVE wk'[w].run \in Run /\ Confirmed(wk'[w].run, n)
    BY <1>2, <2>1 DEF Claimed, ConfirmInv
  <2>2. ASSUME Returned(w) PROVE wk'[w].run \in Run /\ Confirmed(wk'[w].run, n)
    <3>1. /\ wk[w].pc = "step" /\ wk[w].pc \in Executing /\ wk[w].pc \in InStep
          /\ wk'[w].run = R(w) /\ R(w) \in Run
      BY <1>r, <2>2 DEF Returned, Stepped, At, Executing, InStep, R
    <3>2. CASE n \in wk[w].state
      BY <3>1, <3>2 DEF ConfirmInv
    <3>3. CASE n = N(w)
      <4>1. wk[w].called
        BY <2>2, <3>3 DEF Returned, Stepped
      <4>2. Confirmed(R(w), N(w))
        BY <3>1, <3>3, <4>1 DEF ConfirmInv
      <4> QED
        BY <3>1, <3>3, <4>2
    <3> QED
      BY <1>2, <2>2, <3>2, <3>3 DEF Returned
  <2>3. ASSUME GoesOn(w) PROVE wk'[w].run \in Run /\ Confirmed(wk'[w].run, n)
    <3>1. wk[w].pc \in Executing /\ wk'[w].run = R(w) /\ n \in wk[w].state
      BY <1>2, <2>3 DEF GoesOn, R
    <3>2. Confirmed(R(w), n)
      BY <3>1 DEF ConfirmInv
    <3> QED
      BY <1>r, <3>1, <3>2
  <2>4. wk'[w].run \in Run /\ Confirmed(wk'[w].run, n)
    BY <1>0, <1>2, <2>1, <2>2, <2>3, CopiesMove DEF CopyStep
  <2>5. ASSUME NEW q \in Run, q = wk'[w].run, Confirmed(q, n) PROVE Confirmed(R(w), n)'
    <3>1. Confirmed(q, n)'
      BY <1>0, <2>5, ConfirmedStays
    <3> QED
      BY <2>5, <3>1 DEF Confirmed, R
  <2> QED
    BY <2>4, <2>5
<1>3. ASSUME NEW w \in Worker, wk'[w].pc \in InStep, wk'[w].called, wk'[w].next \in Calls
      PROVE  Confirmed(R(w), N(w))'
  <2>1. GoesOn(w)
    BY <1>0, <1>3, CopiesMove DEF CopyStep, Claimed, Returned, Executing, InStep
  <2>2. /\ wk[w].pc \in Executing /\ wk'[w].run = R(w) /\ wk'[w].next = N(w)
        /\ R(w) \in Run /\ N(w) \in Calls /\ N(w) \in Node
    BY <1>0, <1>3, <1>r, <2>1 DEF GoesOn, R, N
  <2>3. ASSUME NEW q \in Run, NEW m \in Node, q = R(w), m = N(w), Confirmed(q, m)'
        PROVE  Confirmed(R(w), N(w))'
    BY <2>2, <2>3 DEF Confirmed, R, N
  <2>4. CASE Confirmed(R(w), N(w))
    BY <2>2, <2>3, <2>4, ConfirmedStays
  <2>5. CASE wk[w].pc \in InStep /\ wk[w].called
    BY <2>2, <2>4, <2>5 DEF ConfirmInv
  <2>6. CASE wk[w].pc = "complete" /\ Complete(wk[w].inv)
    <3>1. applied[R(w)][N(w)] > 0
      BY <2>6 DEF ConfirmInv
    <3>2. applied'[R(w)][N(w)] > 0
      BY <2>2, <3>1, EffectsStay
    <3>3. /\ wk[w].inv \in Invocation /\ ledger[wk[w].inv].run = R(w)
          /\ ledger[wk[w].inv].node = N(w) /\ ledger[wk[w].inv] \in InvocationRow
          /\ ledger \in [Invocation -> InvocationRow]
      BY <1>0, <2>6 DEF WorkerInv, CallKnown, Calling, RuntimeTypeOK
    <3>4. ledger'[wk[w].inv] = [ledger[wk[w].inv] EXCEPT !.status = "SUCCEEDED", !.age = 0]
      BY <2>6, <3>3 DEF Complete, Transition
    <3>5. /\ ledger'[wk[w].inv].run = R(w) /\ ledger'[wk[w].inv].node = N(w)
          /\ ledger'[wk[w].inv].status = "SUCCEEDED"
      BY <3>3, <3>4 DEF InvocationRow
    <3>6. ASSUME NEW q \in Run, NEW m \in Node, q = R(w), m = N(w) PROVE Confirmed(q, m)'
      BY <3>2, <3>3, <3>5, <3>6 DEF Confirmed
    <3> QED
      BY <2>2, <2>3, <3>6
  <2>7. CASE FoundDone(w)
    <3>1. PICK i \in Invocation : /\ ledger[i].run = R(w) /\ ledger[i].node = N(w)
                                  /\ ledger[i].status = "SUCCEEDED"
      BY <2>7 DEF FoundDone
    <3>2. ~Fresh(i)
      BY <2>2, <3>1, NobodyIsNoId DEF Fresh
    <3>3. Confirmed(R(w), N(w))
      BY <3>1, <3>2 DEF ConfirmInv, Confirmed
    <3> QED
      BY <2>4, <3>3
  <2> QED
    BY <1>3, <2>1, <2>5, <2>6, <2>7 DEF GoesOn
<1>4. ASSUME NEW w \in Worker, wk'[w].pc = "complete" PROVE applied'[wk'[w].run][wk'[w].next] > 0
  <2>1. GoesOn(w)
    BY <1>0, <1>4, CopiesMove DEF CopyStep, Claimed, Returned, Executing, InStep
  <2>2. wk'[w].run = R(w) /\ wk'[w].next = N(w) /\ R(w) \in Run
    BY <1>r, <2>1 DEF GoesOn, R, N
  <2>3. CASE wk[w].pc = "complete"
    <3>1. N(w) \in Node /\ applied[R(w)][N(w)] > 0
      BY <1>0, <2>3 DEF ConfirmInv, WorkerInv, ClaimKnown, InStep
    <3> QED
      BY <2>2, <3>1, EffectsStay
  <2>4. CASE HandlerReturns(w)
    <3>1. N(w) \in Node /\ applied' = [applied EXCEPT ![R(w)][N(w)] = @ + 1]
      BY <1>0, <2>4 DEF HandlerReturns, At, WorkerInv, ClaimKnown, InStep
    <3>2. applied \in [Run -> [Node -> Nat]]
      BY <1>0 DEF RuntimeTypeOK
    <3>3. applied'[R(w)][N(w)] = applied[R(w)][N(w)] + 1 /\ applied[R(w)][N(w)] \in Nat
      BY <2>2, <3>1, <3>2
    <3> QED
      BY <2>2, <3>3
  <2> QED
    BY <1>4, <2>1, <2>3, <2>4 DEF GoesOn
<1>5. ASSUME NEW i \in Invocation, ledger'[i].run # Nobody, ledger'[i].status = "SUCCEEDED"
      PROVE  ledger'[i].node \in Node /\ applied'[ledger'[i].run][ledger'[i].node] > 0
  <2>0. LedgerStep(i) /\ ledger[i] \in InvocationRow
    BY <1>0, LedgerMoves DEF RuntimeTypeOK
  <2>1. ~Fresh(i) /\ ledger'[i].run = ledger[i].run /\ ledger'[i].node = ledger[i].node
    BY <1>5, <2>0 DEF LedgerStep, Fresh
  <2>2. ledger[i].run \in Run
    BY <2>0, <2>1 DEF Fresh, InvocationRow
  <2>3. CASE ledger[i].status = "SUCCEEDED"
    <3>1. ledger[i].node \in Node /\ applied[ledger[i].run][ledger[i].node] > 0
      BY <2>1, <2>3 DEF ConfirmInv
    <3> QED
      BY <2>1, <2>2, <3>1, EffectsStay
  <2>4. ASSUME NEW w \in Worker, At(w, "complete"), wk[w].inv = i
        PROVE  ledger[i].node \in Node /\ applied[ledger[i].run][ledger[i].node] > 0
    <3>1. ledger[i].run = R(w) /\ ledger[i].node = N(w) /\ N(w) \in Calls
      BY <1>0, <2>4 DEF WorkerInv, CallKnown, Calling, At
    <3>2. applied[R(w)][N(w)] > 0
      BY <2>4 DEF ConfirmInv, At
    <3> QED
      BY <1>0, <3>1, <3>2
  <2>5. ledger[i].node \in Node /\ applied[ledger[i].run][ledger[i].node] > 0
    BY <1>5, <2>0, <2>1, <2>3, <2>4 DEF LedgerStep, ConfirmInv
  <2> QED
    BY <2>1, <2>2, <2>5, EffectsStay
<1> QED
  BY <1>1, <1>2, <1>3, <1>4, <1>5 DEF ConfirmInv, Fresh, R, N

\* A run that succeeded has had the effect of every tool call on its path, and
\* the ledger has a SUCCEEDED row for each.
THEOREM SuccessesAreConfirmed == Spec => []SuccessIsConfirmed
<1>1. Init => ConfirmInv
  <2> SUFFICES ASSUME Init PROVE ConfirmInv
    OBVIOUS
  <2>1. ASSUME NEW r \in Run PROVE runs[r].state = {}
    BY <2>1, PlanConstants DEF Init, StoreInit
  <2>2. ASSUME NEW w \in Worker PROVE wk[w].pc = "expire"
    BY <2>2, IdleMemory DEF Init
  <2>3. ASSUME NEW i \in Invocation PROVE Fresh(i)
    BY <2>3 DEF Init, LedgerInit, Fresh
  <2> QED
    BY <2>1, <2>2, <2>3 DEF ConfirmInv, Executing, InStep
<1>2. FenceInv /\ ConfirmInv /\ [Next]_vars => ConfirmInv'
  BY ConfirmStep
<1>3. ConfirmInv => SuccessIsConfirmed
  BY DEF ConfirmInv, Confirmed, SuccessIsConfirmed
<1> QED
  BY <1>1, <1>2, <1>3, Fencing, PTL DEF Spec
-----------------------------------------------------------------------------
(* Theorem: a keyed non-idempotent call takes effect at most once *)

\* prepare inserts one row.
LEMMA OneInsert ==
    ASSUME FenceInv, [Next]_vars, NEW i \in Invocation, NEW j \in Invocation,
           Fresh(i), Fresh(j), ~Fresh(i)', ~Fresh(j)'
    PROVE  i = j
<1>0. ledger \in [Invocation -> InvocationRow]
  BY DEF FenceInv, RuntimeTypeOK
<1>1. ASSUME NEW w \in Worker, NEW h \in Invocation, Prepare(h, R(w), N(w)) PROVE i = h /\ j = h
  BY <1>0, <1>1 DEF Prepare, Fresh
<1>2. ASSUME NEW h \in Invocation, NEW from, NEW to, Transition(h, from, to) PROVE FALSE
  BY <1>0, <1>2 DEF Transition, Expected, Fresh
<1>3. ASSUME NEW w \in Worker, DispatchCall(w) \/ FailCall(w) \/ CompleteCall(w), ledger' # ledger
      PROVE  FALSE
  <2>1. wk[w].inv \in Invocation
    BY <1>3 DEF FenceInv, WorkerInv, CallKnown, Calling, At, DispatchCall, FailCall, CompleteCall
  <2> QED
    BY <1>2, <1>3, <2>1
       DEF DispatchCall, FailCall, CompleteCall, MarkDispatched, FailInvocation, Complete
<1>4. CASE Tick \/ ReconcileStale
  <2>1. ledger[i] \in InvocationRow
    BY <1>0
  <2>2. \/ ledger'[i] = ledger[i] \/ ledger'[i] = [ledger[i] EXCEPT !.age = @ + 1]
        \/ Stale(i)
    BY <1>4 DEF Tick, TickedLedger, ReconcileStale
  <2>3. ~Stale(i)
    BY DEF Stale
  <2>4. ledger'[i].run = ledger[i].run
    BY <2>1, <2>2, <2>3 DEF InvocationRow
  <2> QED
    BY <2>4 DEF Fresh
<1>5. \/ ledger' = ledger \/ Tick \/ ReconcileStale
      \/ \E w \in Worker : PrepareCall(w) \/ DispatchCall(w) \/ FailCall(w) \/ CompleteCall(w)
  BY ZenonT(60) DEF Next, vars, WorkerStep, Client, SweepInterrupts, SweepEffects, ReviewRead, ReviewFlag,
         SweepLeases, Claim, CheckDurable, CannotRun, LoadCheckpoint, StepRaises, AttemptFailed,
         AskInterrupt, Suspend, HandlerReturns, HandlerRaises, RejectOutput, StepReturns, BadResult,
         Commit, Finish, HandleException, FailRun, Heartbeat, HeartbeatDies, Crash, Submit,
         CancelRead, ResumeRead, DecideRead, Accept, CancelWrite, ResumeWrite, DecideWrite, Refused,
         Answer
<1>6. ledger' # ledger
  BY DEF Fresh
<1> QED
  BY <1>1, <1>3, <1>4, <1>5, <1>6 DEF PrepareCall

\* A worker in its handler was there before, or has just dispatched its call.
LEMMA CallersMove ==
    ASSUME FenceInv, [Next]_vars, NEW w \in Worker, NEW i \in Invocation, Caller(w, i)'
    PROVE  /\ ~Fresh(i)
           /\ Caller(w, i) \/ (DispatchCall(w) /\ MarkDispatched(i))
<1>0. RuntimeTypeOK /\ WorkerInv(w)
  BY DEF FenceInv
<1>1. GoesOn(w)
  BY <1>0, CopiesMove DEF CopyStep, Claimed, Returned, Caller, Executing, InStep
<1>2. wk[w].inv = i /\ (wk[w].pc = "call" \/ (DispatchCall(w) /\ MarkDispatched(i)))
  BY <1>1 DEF GoesOn, Caller
<1>3. wk[w].pc \in Calling
  BY <1>2 DEF DispatchCall, At, Calling
<1>4. R(w) \in Run /\ ledger[i].run = R(w)
  BY <1>0, <1>2, <1>3 DEF WorkerInv, ClaimKnown, CallKnown, Calling, Executing, InStep
<1> QED
  BY <1>2, <1>4, NobodyIsNoId DEF Fresh, Caller

\* The row and the effects of the call of a worker that is in its handler.
LEMMA CallerRow ==
    ASSUME FenceInv, OnceInv, NEW w \in Worker, wk[w].pc = "call"
    PROVE  /\ wk[w].inv \in Invocation /\ Caller(w, wk[w].inv) /\ ~Fresh(wk[w].inv)
           /\ ledger[wk[w].inv].run = R(w) /\ ledger[wk[w].inv].node = N(w) /\ N(w) \in Calls
           /\ Once(N(w)) => applied[R(w)][N(w)] = 0
<1>1. /\ wk[w].inv \in Invocation /\ R(w) \in Run /\ N(w) \in Calls
      /\ ledger[wk[w].inv].run = R(w) /\ ledger[wk[w].inv].node = N(w)
  BY DEF FenceInv, WorkerInv, ClaimKnown, CallKnown, Calling, Executing, InStep
<1>2. ~Fresh(wk[w].inv) /\ Caller(w, wk[w].inv)
  BY <1>1, NobodyIsNoId DEF Fresh, Caller
<1> QED
  BY <1>1, <1>2 DEF OnceInv

\* While a row's call is not in a handler its effects do not change.
LEMMA UncalledStays ==
    ASSUME FenceInv, OnceInv, [Next]_vars, NEW i \in Invocation, ~Fresh(i), Once(ledger[i].node),
           applied'[ledger[i].run][ledger[i].node] # applied[ledger[i].run][ledger[i].node]
    PROVE  \E w \in Worker : Caller(w, i) /\ wk'[w].pc # "call" /\ ledger' = ledger
<1>0. applied \in [Run -> [Node -> Nat]]
  BY DEF FenceInv, RuntimeTypeOK
<1>1. PICK w \in Worker, k \in {0, 1} :
          /\ wk[w].pc = "call" /\ R(w) \in Run /\ N(w) \in Node
          /\ applied' = [applied EXCEPT ![R(w)][N(w)] = @ + k]
          /\ ledger' = ledger /\ wk'[w].pc # "call"
  BY EffectsMove
<1>2. ledger[i].run = R(w) /\ ledger[i].node = N(w)
  BY <1>0, <1>1
<1>3. /\ wk[w].inv \in Invocation /\ Caller(w, wk[w].inv)
      /\ ledger[wk[w].inv].run = R(w) /\ ledger[wk[w].inv].node = N(w)
  BY <1>1, CallerRow
<1>4. wk[w].inv = i
  BY <1>2, <1>3 DEF OnceInv, Once
<1> QED
  BY <1>1, <1>3, <1>4

LEMMA OnceStep ==
    ASSUME FenceInv, OnceInv, [Next]_vars
    PROVE  OnceInv'
<1>0. RuntimeTypeOK /\ ledger \in [Invocation -> InvocationRow] /\ Calls \subseteq Node
      /\ applied \in [Run -> [Node -> Nat]]
  BY PlanConstants DEF FenceInv, RuntimeTypeOK
<1>m. \A i \in Invocation : LedgerStep(i)
  BY LedgerMoves
<1>n. ASSUME NEW i \in Invocation, Fresh(i), ~Fresh(i)'
      PROVE  \E w \in Worker : /\ ReadyToCall(w) /\ Keyed(R(w), N(w)) = {} /\ R(w) \in Run
                               /\ ledger'[i].run = R(w) /\ ledger'[i].node = N(w)
  <2>1. PICK w \in Worker : /\ ReadyToCall(w) /\ Keyed(R(w), N(w)) = {}
                            /\ ledger'[i].run = R(w) /\ ledger'[i].node = N(w)
    BY <1>m, <1>n DEF LedgerStep
  <2>2. R(w) \in Run
    BY <2>1 DEF ReadyToCall, At, FenceInv, WorkerInv, ClaimKnown, Executing, InStep
  <2> QED
    BY <2>1, <2>2
<1>o. ASSUME NEW i \in Invocation, ~Fresh(i)
      PROVE  /\ ledger'[i].run = ledger[i].run /\ ledger'[i].node = ledger[i].node /\ ~Fresh(i)'
             /\ ledger[i].run \in Run
  BY <1>0, <1>m, <1>o DEF LedgerStep, Fresh, InvocationRow
<1>1. ASSUME NEW i \in Invocation, NEW j \in Invocation, ~Fresh(i)', ledger'[i].run = ledger'[j].run,
             CallKeyOf[ledger'[i].node] # NoKey,
             CallKeyOf[ledger'[i].node] = CallKeyOf[ledger'[j].node]
      PROVE  i = j
  <2>0. ~Fresh(j)'
    BY <1>1 DEF Fresh
  <2>1. CASE Fresh(i) /\ Fresh(j)
    BY <1>1, <2>0, <2>1, OneInsert
  <2>2. CASE Fresh(i) /\ ~Fresh(j)
    <3>1. PICK w \in Worker : /\ Keyed(R(w), N(w)) = {}
                              /\ ledger'[i].run = R(w) /\ ledger'[i].node = N(w)
      BY <1>1, <1>n, <2>2
    <3>2. j \in Keyed(R(w), N(w))
      BY <1>1, <1>o, <2>2, <3>1 DEF Keyed
    <3> QED
      BY <3>1, <3>2
  <2>3. CASE ~Fresh(i) /\ Fresh(j)
    <3>1. PICK w \in Worker : /\ Keyed(R(w), N(w)) = {}
                              /\ ledger'[j].run = R(w) /\ ledger'[j].node = N(w)
      BY <1>n, <2>0, <2>3
    <3>2. i \in Keyed(R(w), N(w))
      BY <1>1, <1>o, <2>3, <3>1 DEF Keyed
    <3> QED
      BY <3>1, <3>2
  <2>4. CASE ~Fresh(i) /\ ~Fresh(j)
    BY <1>1, <1>o, <2>4 DEF OnceInv
  <2> QED
    BY <2>1, <2>2, <2>3, <2>4
<1>2. ASSUME NEW i \in Invocation, ~Fresh(i)' PROVE ledger'[i].node \in Calls
  <2>1. CASE Fresh(i)
    BY <1>2, <1>n, <2>1 DEF ReadyToCall
  <2>2. CASE ~Fresh(i)
    BY <1>o, <2>2 DEF OnceInv
  <2> QED
    BY <2>1, <2>2
<1>3. ASSUME NEW r \in Run, NEW n \in Calls, Once(n)
      PROVE  /\ applied'[r][n] <= 1
             /\ applied'[r][n] = 1 =>
                    \E i \in Invocation : ledger'[i].run = r /\ ledger'[i].node = n
  <2>0. n \in Node /\ applied[r][n] \in Nat
    BY <1>0
  <2>1. CASE applied'[r][n] = applied[r][n]
    <3>1. applied'[r][n] <= 1
      BY <1>3, <2>1 DEF OnceInv
    <3>2. ASSUME applied'[r][n] = 1
          PROVE  \E i \in Invocation : ledger'[i].run = r /\ ledger'[i].node = n
      <4>0. applied[r][n] = 1
        BY <2>1, <3>2
      <4>1. PICK i \in Invocation : ledger[i].run = r /\ ledger[i].node = n
        BY <1>3, <4>0 DEF OnceInv
      <4>2. ~Fresh(i)
        BY <4>1, NobodyIsNoId DEF Fresh
      <4> QED
        BY <1>o, <4>1, <4>2
    <3> QED
      BY <3>1, <3>2
  <2>2. CASE applied'[r][n] # applied[r][n]
    <3>1. PICK w \in Worker, k \in {0, 1} :
              /\ wk[w].pc = "call" /\ R(w) \in Run /\ N(w) \in Node
              /\ applied' = [applied EXCEPT ![R(w)][N(w)] = @ + k]
              /\ ledger' = ledger /\ wk'[w].pc # "call"
      BY <2>2, EffectsMove
    <3>2. R(w) = r /\ N(w) = n
      BY <1>0, <2>0, <2>2, <3>1
    <3>3. /\ wk[w].inv \in Invocation /\ applied[R(w)][N(w)] = 0
          /\ ledger[wk[w].inv].run = R(w) /\ ledger[wk[w].inv].node = N(w)
      BY <1>3, <3>1, <3>2, CallerRow
    <3>4. applied'[r][n] = 0 + k
      BY <1>0, <2>0, <3>1, <3>2, <3>3
    <3>5. applied'[r][n] <= 1
      BY <3>4
    <3> QED
      BY <3>1, <3>2, <3>3, <3>5
  <2> QED
    BY <2>1, <2>2
<1>4. ASSUME NEW i \in Invocation, ~Fresh(i)', Once(ledger'[i].node), ledger'[i].status = "PREPARED"
      PROVE  /\ applied'[ledger'[i].run][ledger'[i].node] = 0
             /\ \A w \in Worker : ~Caller(w, i)'
  <2>1. CASE Fresh(i)
    <3>1. \A w \in Worker : ~Caller(w, i)'
      BY <2>1, CallersMove
    <3>2. PICK w \in Worker : /\ ReadyToCall(w) /\ Keyed(R(w), N(w)) = {} /\ R(w) \in Run
                              /\ ledger'[i].run = R(w) /\ ledger'[i].node = N(w)
      BY <1>4, <1>n, <2>1
    <3>3. N(w) \in Calls /\ Once(N(w)) /\ N(w) \in Node
      BY <1>0, <1>4, <3>2 DEF ReadyToCall
    <3>4. applied[R(w)][N(w)] = 0
      <4>1. ASSUME applied[R(w)][N(w)] = 1 PROVE FALSE
        <5>1. PICK j \in Invocation : ledger[j].run = R(w) /\ ledger[j].node = N(w)
          BY <3>2, <3>3, <4>1 DEF OnceInv
        <5>2. j \in Keyed(R(w), N(w))
          BY <3>3, <5>1 DEF Keyed, Once
        <5> QED
          BY <3>2, <5>2
      <4>2. applied[R(w)][N(w)] <= 1 /\ applied[R(w)][N(w)] \in Nat
        BY <1>0, <3>2, <3>3 DEF OnceInv
      <4> QED
        BY <4>1, <4>2
    <3>5. applied' = applied
      <4>1. ledger' # ledger
        BY <1>4, <2>1 DEF Fresh
      <4> QED
        BY <4>1, EffectsMove
    <3> QED
      BY <3>1, <3>2, <3>4, <3>5
  <2>2. CASE ~Fresh(i)
    <3>1. Once(ledger[i].node) /\ ledger'[i].node = ledger[i].node /\ ledger'[i].run = ledger[i].run
      BY <1>4, <1>o, <2>2
    <3>2. Reconciled(ledger[i].node) # "PREPARED"
      BY <3>1 DEF Once, Reconciled
    <3>3. ledger[i].status = "PREPARED"
      BY <1>4, <1>m, <2>2, <3>2 DEF LedgerStep
    <3>4. applied[ledger[i].run][ledger[i].node] = 0 /\ \A w \in Worker : ~Caller(w, i)
      BY <2>2, <3>1, <3>3 DEF OnceInv
    <3>5. applied'[ledger[i].run][ledger[i].node] = 0
      BY <2>2, <3>1, <3>4, UncalledStays
    <3>6. ASSUME MarkDispatched(i) PROVE FALSE
      <4>1. ledger'[i] = [ledger[i] EXCEPT !.status = "DISPATCHED", !.age = 0]
            /\ ledger[i] \in InvocationRow
        BY <1>0, <3>6 DEF MarkDispatched, Transition
      <4>2. ledger'[i].status = "DISPATCHED"
        BY <4>1 DEF InvocationRow
      <4> QED
        BY <1>4, <4>2
    <3>7. \A w \in Worker : ~Caller(w, i)'
      BY <3>4, <3>6, CallersMove
    <3> QED
      BY <3>1, <3>5, <3>7
  <2> QED
    BY <2>1, <2>2
<1>5. ASSUME NEW i \in Invocation, Once(ledger'[i].node), NEW w \in Worker, Caller(w, i)'
      PROVE  applied'[ledger'[i].run][ledger'[i].node] = 0
  <2>1. ~Fresh(i) /\ (Caller(w, i) \/ (DispatchCall(w) /\ MarkDispatched(i)))
    BY <1>5, CallersMove
  <2>2. Once(ledger[i].node) /\ ledger'[i].node = ledger[i].node /\ ledger'[i].run = ledger[i].run
    BY <1>5, <1>o, <2>1
  <2>3. CASE Caller(w, i)
    <3>1. applied[ledger[i].run][ledger[i].node] = 0
      BY <2>1, <2>2, <2>3 DEF OnceInv
    <3>2. ASSUME NEW x \in Worker, Caller(x, i), wk'[x].pc # "call" PROVE FALSE
      <4>1. x = w
        BY <2>1, <2>2, <2>3, <3>2 DEF OnceInv
      <4> QED
        BY <1>5, <3>2, <4>1 DEF Caller
    <3> QED
      BY <2>1, <2>2, <3>1, <3>2, UncalledStays
  <2>4. CASE MarkDispatched(i)
    <3>1. ledger[i].status = "PREPARED"
      BY <2>4 DEF MarkDispatched, Transition, Expected
    <3>2. applied[ledger[i].run][ledger[i].node] = 0 /\ \A x \in Worker : ~Caller(x, i)
      BY <2>1, <2>2, <3>1 DEF OnceInv
    <3> QED
      BY <2>1, <2>2, <3>2, UncalledStays
  <2> QED
    BY <2>1, <2>3, <2>4
<1>6. ASSUME NEW i \in Invocation, Once(ledger'[i].node), NEW w \in Worker, NEW x \in Worker,
             Caller(w, i)', Caller(x, i)'
      PROVE  w = x
  <2>1. /\ ~Fresh(i)
        /\ Caller(w, i) \/ (DispatchCall(w) /\ MarkDispatched(i))
        /\ Caller(x, i) \/ (DispatchCall(x) /\ MarkDispatched(i))
    BY <1>6, CallersMove
  <2>2. Once(ledger[i].node)
    BY <1>6, <1>o, <2>1
  <2>3. CASE Caller(w, i) /\ Caller(x, i)
    BY <2>1, <2>2, <2>3 DEF OnceInv
  <2>4. CASE MarkDispatched(i)
    <3>1. ledger[i].status = "PREPARED"
      BY <2>4 DEF MarkDispatched, Transition, Expected
    <3>2. \A y \in Worker : ~Caller(y, i)
      BY <2>1, <2>2, <3>1 DEF OnceInv
    <3>3. DispatchCall(w) /\ DispatchCall(x)
      BY <2>1, <3>2
    <3>4. ASSUME w # x PROVE FALSE
      <4>1. wk'[x] = wk[x]
        BY <1>0, <3>3, <3>4, OwnMemory DEF WorkerStep
      <4>2. wk[x].pc = "dispatch" /\ wk'[x].pc = "call"
        BY <1>6, <3>3 DEF DispatchCall, At, Caller
      <4> QED
        BY <4>1, <4>2
    <3> QED
      BY <3>4
  <2> QED
    BY <2>1, <2>3, <2>4
<1> QED
  BY <1>1, <1>2, <1>3, <1>4, <1>5, <1>6 DEF OnceInv, Fresh

\* A non-idempotent tool call under a stable idempotency key takes effect at most
\* once per run, for any number of workers, crashes, lapsed leases and resumes.
THEOREM KeyedCallsHappenOnce == Spec => []KeyedCallOnce
<1>1. Init => OnceInv
  <2> SUFFICES ASSUME Init PROVE OnceInv
    OBVIOUS
  <2>1. ASSUME NEW i \in Invocation PROVE Fresh(i)
    BY <2>1 DEF Init, LedgerInit, Fresh
  <2>2. ASSUME NEW r \in Run, NEW n \in Calls PROVE applied[r][n] = 0
    BY <2>2, PlanConstants DEF Init
  <2> QED
    BY <2>1, <2>2 DEF OnceInv
<1>2. FenceInv /\ OnceInv /\ [Next]_vars => OnceInv'
  BY OnceStep
<1>3. OnceInv => KeyedCallOnce
  BY DEF OnceInv, Once, KeyedCallOnce
<1> QED
  BY <1>1, <1>2, <1>3, Fencing, PTL DEF Spec

=============================================================================
