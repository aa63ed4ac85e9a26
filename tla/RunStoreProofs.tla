--------------------------- MODULE RunStoreProofs ----------------------------
(* Proofs that the open run store keeps its promises for every set of runs,   *)
(* workers and interrupts and for callers with any arguments.                 *)
EXTENDS RunStore, TLAPS

-----------------------------------------------------------------------------
(* Rows: what the updates of one row yield, so that the proofs about tables   *)
(* need not look into records.                                                *)

\* A status update of a run row (create_run, _update_status) yields a run row
\* with that status and the next version.
LEMMA MovedRow ==
    ASSUME NEW x \in RunRow, NEW s \in Status
    PROVE  /\ Moved(x, s) \in RunRow
           /\ Moved(x, s).status = s
           /\ Moved(x, s).version = x.version + 1
           /\ Moved(x, s).state = x.state
           /\ Moved(x, s).next = x.next
<1> DEFINE v == x.version + 1
<1>1. v \in Nat
  BY DEF RunRow
<1>2. Moved(x, s) = [x EXCEPT !.status = s, !.version = v]
  BY DEF Moved
<1> HIDE DEF v
<1>3. [x EXCEPT !.status = s, !.version = v] \in RunRow
  BY <1>1 DEF RunRow
<1>4. Moved(x, s).status = s /\ Moved(x, s).version = v
  BY <1>2 DEF RunRow
<1>5. Moved(x, s).state = x.state /\ Moved(x, s).next = x.next
  BY <1>2 DEF RunRow
<1> QED
  BY <1>2, <1>3, <1>4, <1>5 DEF v

\* The row that create_run inserts is a queued run row.
LEMMA InsertedRow ==
    ASSUME NEW x \in RunRow
    PROVE  /\ Inserted(x) \in RunRow
           /\ Inserted(x).status = "QUEUED"
           /\ Inserted(x).version = x.version
           /\ Inserted(x).state = x.state
           /\ Inserted(x).next = x.next
<1>1. Inserted(x) \in RunRow
  BY DEF Inserted, RunRow, Status, Active
<1> QED
  BY <1>1 DEF Inserted, RunRow

\* The update that commit_checkpoint makes in a run row keeps the status.
LEMMA AdvancedRow ==
    ASSUME NEW x \in RunRow, NEW st \in State, NEW nx \in Node \cup {Done}
    PROVE  /\ Advanced(x, st, nx) \in RunRow
           /\ Advanced(x, st, nx).status = x.status
           /\ Advanced(x, st, nx).version = x.version + 1
           /\ Advanced(x, st, nx).state = st
           /\ Advanced(x, st, nx).next = nx
<1> DEFINE v == x.version + 1
<1>1. v \in Nat
  BY DEF RunRow
<1>2. Advanced(x, st, nx) = [x EXCEPT !.state = st, !.next = nx, !.version = v]
  BY DEF Advanced
<1> HIDE DEF v
<1>3. [x EXCEPT !.state = st, !.next = nx, !.version = v] \in RunRow
  BY <1>1 DEF RunRow
<1>4. Advanced(x, st, nx).status = x.status /\ Advanced(x, st, nx).version = v
  BY <1>2 DEF RunRow
<1>5. Advanced(x, st, nx).state = st /\ Advanced(x, st, nx).next = nx
  BY <1>2 DEF RunRow
<1> QED
  BY <1>2, <1>3, <1>4, <1>5 DEF v

\* A released lease is inactive and keeps its holder and token.
LEMMA DeactivatedRow ==
    ASSUME NEW x \in LeaseRow
    PROVE  /\ Deactivated(x) \in LeaseRow
           /\ Deactivated(x).active = FALSE
           /\ Deactivated(x).holder = x.holder
           /\ Deactivated(x).token = x.token
<1>1. Deactivated(x) \in LeaseRow
  BY DEF Deactivated, LeaseRow
<1> QED
  BY <1>1 DEF Deactivated, LeaseRow

\* A renewed lease changes only in its deadline.
LEMMA RenewedRow ==
    ASSUME NEW x \in LeaseRow
    PROVE  /\ Renewed(x) \in LeaseRow
           /\ Renewed(x).active = x.active
           /\ Renewed(x).holder = x.holder
           /\ Renewed(x).token = x.token
<1>1. Renewed(x) \in LeaseRow
  BY TicksPositive DEF Renewed, LeaseRow
<1> QED
  BY <1>1 DEF Renewed, LeaseRow

\* A claim grants an active lease under the next fencing token.
LEMMA GrantedRow ==
    ASSUME NEW x \in LeaseRow, NEW w \in Worker
    PROVE  /\ Granted(x, w) \in LeaseRow
           /\ Granted(x, w).active = TRUE
           /\ Granted(x, w).holder = w
           /\ Granted(x, w).token = x.token + 1
<1>1. Granted(x, w) \in LeaseRow
  BY TicksPositive DEF Granted, LeaseRow
<1> QED
  BY <1>1 DEF Granted, LeaseRow

\* The clock changes only the deadline of a lease.
LEMMA AgedLease ==
    ASSUME NEW x \in LeaseRow
    PROVE  /\ Aged(x) \in LeaseRow
           /\ Aged(x).active = x.active
           /\ Aged(x).holder = x.holder
           /\ Aged(x).token = x.token
<1> DEFINE t == CountDown(x.ttl)
<1>1. t \in Nat
  BY DEF LeaseRow, CountDown
<1>2. Aged(x) = [x EXCEPT !.ttl = t]
  BY DEF Aged
<1> HIDE DEF t
<1>3. Aged(x) \in LeaseRow
  BY <1>1, <1>2 DEF LeaseRow
<1> QED
  BY <1>2, <1>3 DEF LeaseRow

\* The clock changes only the deadline of an interrupt.
LEMMA AgedInterrupt ==
    ASSUME NEW x \in InterruptRow
    PROVE  /\ Aged(x) \in InterruptRow
           /\ Aged(x).run = x.run
           /\ Aged(x).decision = x.decision
<1> DEFINE t == CountDown(x.ttl)
<1>1. t \in Nat \cup {NoDeadline}
  BY DEF InterruptRow, CountDown, NoDeadline
<1>2. Aged(x) = [x EXCEPT !.ttl = t]
  BY DEF Aged
<1> HIDE DEF t
<1>3. Aged(x) \in InterruptRow
  BY <1>1, <1>2 DEF InterruptRow
<1> QED
  BY <1>2, <1>3 DEF InterruptRow

\* A decision changes only the decision of an interrupt.
LEMMA DecidedRow ==
    ASSUME NEW x \in InterruptRow, NEW d \in Decisions
    PROVE  /\ Decided(x, d) \in InterruptRow
           /\ Decided(x, d).run = x.run
           /\ Decided(x, d).decision = d
<1>1. Decided(x, d) \in InterruptRow
  BY DEF Decided, InterruptRow
<1> QED
  BY <1>1 DEF Decided, InterruptRow

\* The row that create_interrupt inserts is an interrupt row.
LEMMA InterruptRowNew ==
    ASSUME NEW t \in Nat \cup {NoDeadline}, NEW r \in Run, NEW n \in Node, NEW m \in Nat
    PROVE  [run |-> r, key |-> <<n, m>>, decision |-> "none", ttl |-> t] \in InterruptRow
  BY DEF InterruptRow

\* The checkpoint row that commit_checkpoint inserts is a checkpoint row.
LEMMA CheckpointRowNext ==
    ASSUME NEW x \in CheckpointRow, NEW st \in State, NEW nx \in Node \cup {Done}
    PROVE  /\ x.sequence + 1 \in Nat
           /\ [sequence |-> x.sequence + 1, state |-> st, next |-> nx] \in CheckpointRow
  BY DEF CheckpointRow
-----------------------------------------------------------------------------
(* Type correctness *)

\* The well-formedness of the tables is kept by every step of the store.
LEMMA TypeStep == StoreTypeOK /\ [StoreNext]_storeVars => StoreTypeOK'
<1> SUFFICES ASSUME StoreTypeOK, [StoreNext]_storeVars PROVE StoreTypeOK'
  OBVIOUS
<1> USE DEF StoreTypeOK
<1>a. \A r \in Run : Logged(r) \in [Run -> Nat]
  BY DEF Logged
<1>b. \A r \in Run, t \in Status : WithStatus(r, t) \in [Run -> RunRow]
  BY MovedRow DEF WithStatus
<1>c. \A r \in Run : Released(r) \in [Run -> LeaseRow]
  BY DeactivatedRow DEF Released
<1>1. ASSUME NEW r \in Run, CreateRun(r) PROVE StoreTypeOK'
  BY <1>1, <1>a, InsertedRow DEF CreateRun
<1>2. ASSUME NEW r \in Run, AppendRunEvent(r) PROVE StoreTypeOK'
  BY <1>2, <1>a DEF AppendRunEvent
<1>3. ASSUME NEW r \in Run, NEW ver,
             NEW t \in {"CANCELLED", "QUEUED", "NEEDS_REVIEW"}, TransitionRun(r, ver, t)
      PROVE StoreTypeOK'
  BY <1>3, <1>a, <1>b DEF TransitionRun, Status, Active, Terminal
<1>4. ASSUME NEW r \in Run, NEW w \in Worker, ClaimNext(r, w) PROVE StoreTypeOK'
  BY <1>4, <1>a, <1>b, GrantedRow DEF ClaimNext, Status, Active
<1>5. ASSUME NEW r \in Run, NEW w \in Worker, NEW tok, RenewLease(r, w, tok)
      PROVE StoreTypeOK'
  BY <1>5, RenewedRow DEF RenewLease
<1>6. ASSUME NEW r \in Run, NEW w \in Worker, NEW tok, NEW ver,
             NEW t \in WorkerTargets, FinishClaim(r, w, tok, ver, t)
      PROVE StoreTypeOK'
  BY <1>6, <1>a, <1>b, <1>c DEF FinishClaim, WorkerTargets, Status, Terminal
<1>7. ASSUME NEW r \in Run, NEW w \in Worker, NEW tok, NEW ver,
             NEW st \in State, NEW nx \in Node \cup {Done},
             CommitCheckpoint(r, w, tok, ver, checkpoints[r].sequence + 1, st, nx)
      PROVE StoreTypeOK'
  <2>1. Advanced(runs[r], st, nx) \in RunRow
    BY AdvancedRow
  <2>2. [sequence |-> checkpoints[r].sequence + 1, state |-> st, next |-> nx] \in CheckpointRow
    BY CheckpointRowNext
  <2> QED
    BY <1>7, <2>1, <2>2, <1>a DEF CommitCheckpoint
<1>8. ASSUME NEW i \in Interrupt, NEW r \in Run, NEW ver, NEW n \in Node,
             NEW ttl \in {NoDeadline} \cup 1..IntTicks,
             CreateInterrupt(i, r, ver, <<n, checkpoints[r].sequence + 1>>, ttl)
      PROVE StoreTypeOK'
  <2>1. checkpoints[r].sequence + 1 \in Nat /\ ttl \in Nat \cup {NoDeadline}
    BY TicksPositive DEF CheckpointRow
  <2>2. [run |-> r, key |-> <<n, checkpoints[r].sequence + 1>>, decision |-> "none",
         ttl |-> ttl] \in InterruptRow
    BY <2>1, InterruptRowNew
  <2> QED
    BY <1>8, <2>2, <1>a, <1>b, <1>c DEF CreateInterrupt, Status, Active
<1>9. ASSUME NEW i \in Interrupt, NEW ver, NEW d \in Decisions,
             DecideInterrupt(i, ver, d)
      PROVE StoreTypeOK'
  BY <1>9, <1>a, <1>b, DecidedRow DEF DecideInterrupt, Status, Active
<1>10. CASE ExpireInterrupts
  <2>1. \A r \in Run : Moved(runs[r], "TIMED_OUT") \in RunRow
    BY MovedRow DEF Status, Terminal
  <2>2. \A i \in Interrupt : Decided(interrupts[i], "reject") \in InterruptRow
    BY DecidedRow, DecisionKinds
  <2>3. runs' \in [Run -> RunRow]
    BY <1>10, <2>1 DEF ExpireInterrupts
  <2>4. interrupts' \in [Interrupt -> InterruptRow]
    BY <1>10, <2>2 DEF ExpireInterrupts
  <2>5. events' \in [Run -> Nat]
    BY <1>10 DEF ExpireInterrupts
  <2> QED
    BY <1>10, <2>3, <2>4, <2>5 DEF ExpireInterrupts
<1>11. CASE RequeueExpiredLeases
  <2>1. \A r \in Run : Moved(runs[r], "QUEUED") \in RunRow
    BY MovedRow DEF Status, Active
  <2>2. \A r \in Run : Deactivated(leases[r]) \in LeaseRow
    BY DeactivatedRow
  <2>3. runs' \in [Run -> RunRow]
    BY <1>11, <2>1 DEF RequeueExpiredLeases
  <2>4. leases' \in [Run -> LeaseRow]
    BY <1>11, <2>2 DEF RequeueExpiredLeases
  <2>5. events' \in [Run -> Nat]
    BY <1>11 DEF RequeueExpiredLeases
  <2> QED
    BY <1>11, <2>3, <2>4, <2>5 DEF RequeueExpiredLeases
<1>12. CASE StoreTick
  <2>1. TickedLeases \in [Run -> LeaseRow]
    BY AgedLease DEF TickedLeases
  <2>2. TickedInterrupts \in [Interrupt -> InterruptRow]
    BY AgedInterrupt DEF TickedInterrupts
  <2> QED
    BY <1>12, <2>1, <2>2 DEF StoreTick
<1>13. CASE UNCHANGED storeVars
  BY <1>13 DEF storeVars
<1> QED
  BY <1>1, <1>2, <1>3, <1>4, <1>5, <1>6, <1>7, <1>8, <1>9, <1>10, <1>11, <1>12, <1>13
     DEF StoreNext, Control, HolderOps

\* The tables of the run store stay well formed whatever callers do.
THEOREM StoreTypes == StoreSpec => []StoreTypeOK
<1>1. StoreInit => StoreTypeOK
  BY RequestTypes DEF StoreInit, StoreTypeOK, RunRow, LeaseRow, CheckpointRow,
                      InterruptRow, NoDeadline, Status
<1> QED
  BY <1>1, TypeStep, PTL DEF StoreSpec
-----------------------------------------------------------------------------
(* What one step may do to one run *)

\* The four ways in which a step can change the row of run q, or leave it.
RowStep(q) ==
    \/ runs'[q] = runs[q]
    \/ /\ ~Exists(q) /\ KeyUnused(q) /\ SessionFree(q)
       /\ runs'[q] = Inserted(runs[q])
       /\ \A p \in Run : p # q => runs'[p] = runs[p]
    \/ \E t \in Status \ {"ABSENT"} :
           CanTransition(runs[q].status, t) /\ runs'[q] = Moved(runs[q], t)
    \/ /\ runs[q].status = "RUNNING"
       /\ \E st \in State, nx \in Node \cup {Done} : runs'[q] = Advanced(runs[q], st, nx)

\* A status update of r changes the row of r and no other (_update_status).
LEMMA StatusUpdate ==
    ASSUME StoreTypeOK, NEW r \in Run, NEW t
    PROVE  /\ WithStatus(r, t)[r] = Moved(runs[r], t)
           /\ \A q \in Run : q # r => WithStatus(r, t)[q] = runs[q]
  BY DEF WithStatus, StoreTypeOK

\* Every operation changes a run's row in one of those ways.
LEMMA RunsMoveByRowSteps ==
    ASSUME StoreTypeOK, [StoreNext]_storeVars
    PROVE  \A q \in Run : RowStep(q)
<1> TAKE q \in Run
<1>1. ASSUME NEW r \in Run, CreateRun(r) PROVE RowStep(q)
  BY <1>1 DEF CreateRun, RowStep, StoreTypeOK
<1>2. ASSUME runs' = runs PROVE RowStep(q)
  BY <1>2 DEF RowStep
<1>3. ASSUME NEW r \in Run, NEW t \in Status \ {"ABSENT"},
             CanTransition(runs[r].status, t), runs' = WithStatus(r, t)
      PROVE  RowStep(q)
  BY <1>3, StatusUpdate DEF RowStep
<1>4. ASSUME NEW r \in Run, NEW ver, Control(r, ver) PROVE RowStep(q)
  BY <1>4, <1>3 DEF Control, TransitionRun, Status, Active, Terminal
<1>5. ASSUME NEW r \in Run, NEW w \in Worker, ClaimNext(r, w) PROVE RowStep(q)
  <2> CanTransition(runs[r].status, "RUNNING")
    BY <1>5 DEF ClaimNext, CanTransition
  <2> QED
    BY <1>5, <1>3 DEF ClaimNext, Status, Active
<1>6. ASSUME NEW r \in Run, NEW w \in Worker, NEW tok, NEW ver, HolderOps(r, w, tok, ver)
      PROVE  RowStep(q)
  <2>1. CASE RenewLease(r, w, tok)
    BY <2>1, <1>2 DEF RenewLease
  <2>2. ASSUME NEW t \in WorkerTargets, FinishClaim(r, w, tok, ver, t)
        PROVE  RowStep(q)
    BY <2>2, <1>3 DEF FinishClaim, FinishGuard, WorkerTargets, Status, Terminal
  <2>3. ASSUME NEW st \in State, NEW nx \in Node \cup {Done},
               CommitCheckpoint(r, w, tok, ver, checkpoints[r].sequence + 1, st, nx)
        PROVE  RowStep(q)
    BY <2>3 DEF CommitCheckpoint, CommitGuard, RowStep, StoreTypeOK
  <2> QED
    BY <1>6, <2>1, <2>2, <2>3 DEF HolderOps
<1>7. ASSUME NEW i \in Interrupt, NEW r \in Run, NEW ver, NEW key, NEW ttl,
             CreateInterrupt(i, r, ver, key, ttl)
      PROVE  RowStep(q)
  BY <1>7, <1>3 DEF CreateInterrupt, InterruptGuard, Status, Active
<1>8. ASSUME NEW i \in Interrupt, NEW ver, NEW d \in Decisions,
             DecideInterrupt(i, ver, d)
      PROVE  RowStep(q)
  BY <1>8, <1>3 DEF DecideInterrupt, Status, Active
<1>9. CASE ExpireInterrupts
  <2>1. TimesOut(q) => CanTransition(runs[q].status, "TIMED_OUT")
    BY DEF TimesOut, CanTransition
  <2>2. runs'[q] = IF TimesOut(q) THEN Moved(runs[q], "TIMED_OUT") ELSE runs[q]
    BY <1>9 DEF ExpireInterrupts
  <2> QED
    BY <2>1, <2>2 DEF RowStep, Status, Terminal
<1>10. CASE RequeueExpiredLeases
  <2>1. Requeued(q) => CanTransition(runs[q].status, "QUEUED")
    BY DEF Requeued, CanTransition
  <2>2. runs'[q] = IF Requeued(q) THEN Moved(runs[q], "QUEUED") ELSE runs[q]
    BY <1>10 DEF RequeueExpiredLeases
  <2> QED
    BY <2>1, <2>2 DEF RowStep, Status, Active
<1>11. CASE UNCHANGED storeVars \/ StoreTick \/ \E r \in Run : AppendRunEvent(r)
  BY <1>11, <1>2 DEF storeVars, StoreTick, AppendRunEvent
<1> QED
  BY <1>1, <1>4, <1>5, <1>6, <1>7, <1>8, <1>9, <1>10, <1>11 DEF StoreNext

\* Seen from its status alone, a run is inserted as QUEUED, keeps its status or
\* takes a transition of the table; a change of the row raises the version.
LEMMA RowStepStatus ==
    ASSUME StoreTypeOK, NEW q \in Run, RowStep(q)
    PROVE  /\ Exists(q) /\ runs'[q] # runs[q] => runs'[q].version = runs[q].version + 1
           /\ \/ runs'[q].status = runs[q].status
              \/ CanTransition(runs[q].status, runs'[q].status)
              \/ /\ ~Exists(q) /\ KeyUnused(q) /\ SessionFree(q)
                 /\ runs'[q].status = "QUEUED"
                 /\ \A p \in Run : p # q => runs'[p] = runs[p]
<1>1. runs[q] \in RunRow
  BY DEF StoreTypeOK
<1>2. CASE runs'[q] = runs[q]
  BY <1>2
<1>3. CASE /\ ~Exists(q) /\ KeyUnused(q) /\ SessionFree(q)
           /\ runs'[q] = Inserted(runs[q])
           /\ \A p \in Run : p # q => runs'[p] = runs[p]
  BY <1>1, <1>3, InsertedRow
<1>4. ASSUME NEW t \in Status \ {"ABSENT"}, CanTransition(runs[q].status, t),
             runs'[q] = Moved(runs[q], t)
      PROVE  /\ runs'[q].version = runs[q].version + 1
             /\ CanTransition(runs[q].status, runs'[q].status)
  BY <1>1, <1>4, MovedRow
<1>5. ASSUME NEW st \in State, NEW nx \in Node \cup {Done},
             runs'[q] = Advanced(runs[q], st, nx)
      PROVE  /\ runs'[q].version = runs[q].version + 1
             /\ runs'[q].status = runs[q].status
  BY <1>1, <1>5, AdvancedRow
<1> QED
  BY <1>2, <1>3, <1>4, <1>5 DEF RowStep

\* A transition of the table starts at an active status (models.py, _TRANSITIONS).
LEMMA TransitionsLeaveActive ==
    ASSUME NEW s, NEW t, CanTransition(s, t)
    PROVE  s \in Active /\ s \notin Terminal /\ t \in Status \ {"ABSENT"}
  BY DEF CanTransition, Active, Terminal, Status
-----------------------------------------------------------------------------
(* Compare-and-swap and exclusivity *)

\* Whoever changes the row of an existing run raises its version by one, so a
\* caller that presents an old version is always turned away.
THEOREM VersionsTellChanges == StoreSpec => EveryChangeBumpsVersion
<1>1. StoreTypeOK /\ [StoreNext]_storeVars =>
        [\A r \in Run : Exists(r) /\ runs'[r] # runs[r] =>
             runs'[r].version = runs[r].version + 1]_storeVars
  BY RunsMoveByRowSteps, RowStepStatus
<1> QED
  BY <1>1, StoreTypes, PTL DEF StoreSpec, EveryChangeBumpsVersion

\* No step gives a session a second active run (runs_one_active_per_session_idx).
LEMMA SessionStep ==
    StoreTypeOK /\ OneActivePerSession /\ [StoreNext]_storeVars => OneActivePerSession'
<1> SUFFICES ASSUME StoreTypeOK, OneActivePerSession, [StoreNext]_storeVars,
                    NEW r \in Run, NEW q \in Run,
                    runs'[r].status \in Active, runs'[q].status \in Active,
                    SessionOf[r] = SessionOf[q], r # q
             PROVE  FALSE
  BY DEF OneActivePerSession
<1>1. RowStep(r) /\ RowStep(q)
  BY RunsMoveByRowSteps
<1>2. \A p \in {r, q} : \/ runs[p].status \in Active
                        \/ /\ SessionFree(p)
                           /\ \A o \in Run : o # p => runs'[o] = runs[o]
  BY <1>1, RowStepStatus, TransitionsLeaveActive
<1>3. ASSUME NEW p \in {r, q}, NEW o \in {r, q}, p # o, SessionFree(p),
             runs'[o] = runs[o]
      PROVE  FALSE
  BY <1>3 DEF SessionFree
<1> QED
  BY <1>2, <1>3 DEF OneActivePerSession

\* A session never has two active runs, for any number of runs and callers.
THEOREM SessionsAreExclusive == StoreSpec => []OneActivePerSession
<1>1. StoreInit => OneActivePerSession
  BY DEF StoreInit, OneActivePerSession, Active
<1> QED
  BY <1>1, SessionStep, StoreTypes, PTL DEF StoreSpec

\* No step creates a second run under a key (UNIQUE (tenant_id, idempotency_key)).
LEMMA KeyStep ==
    StoreTypeOK /\ OneRunPerKey /\ [StoreNext]_storeVars => OneRunPerKey'
<1> SUFFICES ASSUME StoreTypeOK, OneRunPerKey, [StoreNext]_storeVars,
                    NEW r \in Run, NEW q \in Run, Exists(r)', Exists(q)',
                    KeyOf[r] = KeyOf[q], KeyOf[r] # NoKey, r # q
             PROVE  FALSE
  BY DEF OneRunPerKey
<1>1. RowStep(r) /\ RowStep(q)
  BY RunsMoveByRowSteps
<1>2. \A p \in {r, q} : \/ Exists(p)
                        \/ /\ KeyUnused(p)
                           /\ \A o \in Run : o # p => runs'[o] = runs[o]
  BY <1>1, RowStepStatus, TransitionsLeaveActive DEF Exists, Active
<1>3. ASSUME NEW p \in {r, q}, NEW o \in {r, q}, p # o, KeyUnused(p),
             runs'[o] = runs[o]
      PROVE  FALSE
  BY <1>3 DEF KeyUnused, Exists
<1> QED
  BY <1>2, <1>3 DEF OneRunPerKey

\* However often a submission is retried, its key names one run.
THEOREM KeysAreUnique == StoreSpec => []OneRunPerKey
<1>1. StoreInit => OneRunPerKey
  BY DEF StoreInit, OneRunPerKey, Exists
<1> QED
  BY <1>1, KeyStep, StoreTypes, PTL DEF StoreSpec
-----------------------------------------------------------------------------
(* Checkpoints *)

\* A session never has two active runs and a key never names two runs, however
\* create_run, resumes and sweeps interleave.
THEOREM RunsStayUnique == StoreSpec => []RunsAreUnique
  BY SessionsAreExclusive, KeysAreUnique, PTL DEF RunsAreUnique

\* commit_checkpoint with its arguments: the only operation that writes a
\* checkpoint or changes a run's state and next nodes.
CheckpointStep(r) ==
    \E w \in Worker, st \in State, nx \in Node \cup {Done} :
        CommitCheckpoint(r, w, leases[r].token, runs[r].version,
                         checkpoints[r].sequence + 1, st, nx)

\* Every step but a commit leaves the checkpoints, and the state and the next
\* nodes of every run, as they are.
LEMMA OnlyCommitsAdvance ==
    ASSUME StoreTypeOK, [StoreNext]_storeVars, \A r \in Run : ~CheckpointStep(r)
    PROVE  /\ checkpoints' = checkpoints
           /\ \A q \in Run : runs'[q].state = runs[q].state /\ runs'[q].next = runs[q].next
<1>1. checkpoints' = checkpoints
  BY DEF StoreNext, storeVars, CreateRun, AppendRunEvent, Control, TransitionRun, ClaimNext,
         HolderOps, RenewLease, FinishClaim, CheckpointStep, CreateInterrupt, DecideInterrupt,
         ExpireInterrupts, RequeueExpiredLeases, StoreTick
<1>2. ASSUME NEW q \in Run
      PROVE  runs'[q].state = runs[q].state /\ runs'[q].next = runs[q].next
  <2>0. runs[q] \in RunRow
    BY DEF StoreTypeOK
  <2>1. CASE runs' = runs
    BY <2>1
  <2>2. ASSUME NEW r \in Run, NEW t \in Status, runs' = WithStatus(r, t)
        PROVE  runs'[q].state = runs[q].state /\ runs'[q].next = runs[q].next
    BY <2>0, <2>2, StatusUpdate, MovedRow
  <2>3. ASSUME NEW r \in Run, CreateRun(r)
        PROVE  runs'[q].state = runs[q].state /\ runs'[q].next = runs[q].next
    <3> runs'[q] = IF q = r THEN Inserted(runs[q]) ELSE runs[q]
      BY <2>3 DEF CreateRun, StoreTypeOK
    <3> QED
      BY <2>0, InsertedRow
  <2>4. CASE ExpireInterrupts
    <3>1. runs'[q] = IF TimesOut(q) THEN Moved(runs[q], "TIMED_OUT") ELSE runs[q]
      BY <2>4 DEF ExpireInterrupts
    <3> QED
      BY <2>0, <3>1, MovedRow DEF Status, Terminal
  <2>5. CASE RequeueExpiredLeases
    <3>1. runs'[q] = IF Requeued(q) THEN Moved(runs[q], "QUEUED") ELSE runs[q]
      BY <2>5 DEF RequeueExpiredLeases
    <3> QED
      BY <2>0, <3>1, MovedRow DEF Status, Active
  <2>6. \/ runs' = runs
        \/ \E r \in Run, t \in Status : runs' = WithStatus(r, t)
        \/ \E r \in Run : CreateRun(r)
        \/ ExpireInterrupts
        \/ RequeueExpiredLeases
    BY DEF StoreNext, storeVars, AppendRunEvent, Control, TransitionRun, ClaimNext,
           HolderOps, RenewLease, FinishClaim, CheckpointStep, CreateInterrupt, DecideInterrupt,
           StoreTick, WorkerTargets, Status, Active, Terminal
  <2> QED
    BY <2>1, <2>2, <2>3, <2>4, <2>5, <2>6
<1> QED
  BY <1>1, <1>2

\* A commit writes the same state and next nodes to the checkpoint and the run.
LEMMA CommitWritesBoth ==
    ASSUME StoreTypeOK, NEW r \in Run, CheckpointStep(r)
    PROVE  /\ runs[r].status = "RUNNING"
           /\ runs'[r].state = checkpoints'[r].state
           /\ runs'[r].next = checkpoints'[r].next
           /\ \A q \in Run : q # r => runs'[q] = runs[q] /\ checkpoints'[q] = checkpoints[q]
<1> PICK w \in Worker, st \in State, nx \in Node \cup {Done} :
        CommitCheckpoint(r, w, leases[r].token, runs[r].version,
                         checkpoints[r].sequence + 1, st, nx)
  BY DEF CheckpointStep
<1>1. runs[r].status = "RUNNING"
  BY DEF CommitCheckpoint, CommitGuard
<1>2. runs'[r] = Advanced(runs[r], st, nx)
  BY DEF CommitCheckpoint, StoreTypeOK
<1>3. runs'[r].state = st /\ runs'[r].next = nx
  BY <1>2, AdvancedRow DEF StoreTypeOK
<1>4. checkpoints'[r].state = st /\ checkpoints'[r].next = nx
  <2> checkpoints'[r] = [sequence |-> checkpoints[r].sequence + 1, state |-> st, next |-> nx]
    BY DEF CommitCheckpoint, StoreTypeOK
  <2> QED
    OBVIOUS
<1>5. \A q \in Run : q # r => runs'[q] = runs[q] /\ checkpoints'[q] = checkpoints[q]
  BY DEF CommitCheckpoint, StoreTypeOK
<1> QED
  BY <1>1, <1>3, <1>4, <1>5

\* A commit changes the status of no run.
LEMMA CommitKeepsStatus ==
    ASSUME StoreTypeOK, NEW r \in Run, CheckpointStep(r), NEW q \in Run
    PROVE  runs'[q].status = runs[q].status
<1> PICK w \in Worker, st \in State, nx \in Node \cup {Done} :
        CommitCheckpoint(r, w, leases[r].token, runs[r].version,
                         checkpoints[r].sequence + 1, st, nx)
  BY DEF CheckpointStep
<1>1. runs'[q] = IF q = r THEN Advanced(runs[q], st, nx) ELSE runs[q]
  BY DEF CommitCheckpoint, StoreTypeOK
<1> QED
  BY <1>1, AdvancedRow DEF StoreTypeOK

\* A worker that claims a run resumes from its last committed checkpoint.
THEOREM RunsResumeAtCheckpoints == StoreSpec => []ResumesAtCheckpoint
<1>1. StoreInit => ResumesAtCheckpoint
  <2> SUFFICES ASSUME StoreInit, NEW r \in Run
               PROVE  runs[r].state = checkpoints[r].state /\ runs[r].next = checkpoints[r].next
    BY DEF ResumesAtCheckpoint
  <2>1. runs[r].state = InputOf[r] /\ runs[r].next = EntryOf[r]
    BY DEF StoreInit
  <2>2. checkpoints[r].state = InputOf[r] /\ checkpoints[r].next = EntryOf[r]
    BY DEF StoreInit
  <2> QED
    BY <2>1, <2>2
<1>2. StoreTypeOK /\ ResumesAtCheckpoint /\ [StoreNext]_storeVars => ResumesAtCheckpoint'
  <2> SUFFICES ASSUME StoreTypeOK, ResumesAtCheckpoint, [StoreNext]_storeVars
               PROVE  ResumesAtCheckpoint'
    OBVIOUS
  <2>1. ASSUME NEW r \in Run, CheckpointStep(r) PROVE ResumesAtCheckpoint'
    BY <2>1, CommitWritesBoth DEF ResumesAtCheckpoint
  <2>2. CASE \A r \in Run : ~CheckpointStep(r)
    BY <2>2, OnlyCommitsAdvance DEF ResumesAtCheckpoint
  <2> QED
    BY <2>1, <2>2
<1> QED
  BY <1>1, <1>2, StoreTypes, PTL DEF StoreSpec

\* A finished run is final: no late commit, decision, sweep or claim changes its
\* row or its last checkpoint.
THEOREM FinishedRunsStay == StoreSpec => TerminalIsFinal
<1>1. StoreTypeOK /\ [StoreNext]_storeVars =>
        [TerminalStays]_storeVars
  <2> SUFFICES ASSUME StoreTypeOK, [StoreNext]_storeVars,
                      NEW r \in Run, runs[r].status \in Terminal
               PROVE  runs'[r] = runs[r] /\ checkpoints'[r] = checkpoints[r]
    BY DEF TerminalStays
  <2>1. runs[r].status # "RUNNING" /\ Exists(r)
    BY DEF Terminal, Exists
  <2>2. runs'[r] = runs[r]
    BY <2>1, RunsMoveByRowSteps, TransitionsLeaveActive DEF RowStep
  <2>3. checkpoints'[r] = checkpoints[r]
    BY <2>1, OnlyCommitsAdvance, CommitWritesBoth
  <2> QED
    BY <2>2, <2>3
<1> QED
  BY <1>1, StoreTypes, PTL DEF StoreSpec, TerminalIsFinal
-----------------------------------------------------------------------------
(* Leases *)

\* What one step may do to the lease of run q: leave holder and token, and not
\* make it active; or grant it to a worker because the run is claimed.
LeaseStep(q) ==
    \/ /\ leases'[q].holder = leases[q].holder
       /\ leases'[q].token = leases[q].token
       /\ leases'[q].active => leases[q].active
    \/ /\ runs[q].status = "QUEUED" /\ runs'[q].status = "RUNNING"
       /\ \E w \in Worker : leases'[q] = Granted(leases[q], w)

\* Every operation changes leases in one of those two ways.
LEMMA LeasesMoveByLeaseSteps ==
    ASSUME StoreTypeOK, [StoreNext]_storeVars
    PROVE  \A q \in Run : LeaseStep(q)
<1> TAKE q \in Run
<1>0. leases[q] \in LeaseRow /\ runs[q] \in RunRow
  BY DEF StoreTypeOK
<1>1. ASSUME leases' = leases PROVE LeaseStep(q)
  BY <1>1 DEF LeaseStep
<1>2. ASSUME NEW r \in Run, leases' = Released(r) PROVE LeaseStep(q)
  <2> leases'[q] = IF q = r THEN Deactivated(leases[q]) ELSE leases[q]
    BY <1>2 DEF Released, StoreTypeOK
  <2> QED
    BY <1>0, DeactivatedRow DEF LeaseStep
<1>3. ASSUME NEW r \in Run, NEW w \in Worker, ClaimNext(r, w) PROVE LeaseStep(q)
  <2>1. CASE q = r
    <3>1. leases'[q] = Granted(leases[q], w) /\ runs'[q] = Moved(runs[q], "RUNNING")
      BY <1>3, <2>1, StatusUpdate DEF ClaimNext, StoreTypeOK
    <3>2. runs'[q].status = "RUNNING"
      BY <1>0, <3>1, MovedRow DEF Status, Active
    <3> QED
      BY <1>3, <2>1, <3>1, <3>2 DEF LeaseStep, ClaimNext
  <2>2. CASE q # r
    BY <1>3, <2>2 DEF ClaimNext, StoreTypeOK, LeaseStep
  <2> QED
    BY <2>1, <2>2
<1>4. ASSUME NEW r \in Run, NEW w \in Worker, NEW tok, RenewLease(r, w, tok)
      PROVE  LeaseStep(q)
  <2> leases'[q] = IF q = r THEN Renewed(leases[q]) ELSE leases[q]
    BY <1>4 DEF RenewLease, StoreTypeOK
  <2> QED
    BY <1>0, RenewedRow DEF LeaseStep
<1>5. CASE RequeueExpiredLeases
  <2> leases'[q] = IF Lapsed(q) THEN Deactivated(leases[q]) ELSE leases[q]
    BY <1>5 DEF RequeueExpiredLeases
  <2> QED
    BY <1>0, DeactivatedRow DEF LeaseStep
<1>6. CASE StoreTick
  <2> leases'[q] = IF leases[q].active THEN Aged(leases[q]) ELSE leases[q]
    BY <1>6 DEF StoreTick, TickedLeases
  <2> QED
    BY <1>0, AgedLease DEF LeaseStep
<1>7. \/ leases' = leases
      \/ \E r \in Run : leases' = Released(r)
      \/ \E r \in Run, w \in Worker : ClaimNext(r, w)
      \/ \E r \in Run, w \in Worker : RenewLease(r, w, leases[r].token)
      \/ RequeueExpiredLeases
      \/ StoreTick
  BY DEF StoreNext, storeVars, CreateRun, AppendRunEvent, Control, TransitionRun,
         HolderOps, FinishClaim, CommitCheckpoint, CreateInterrupt, DecideInterrupt,
         ExpireInterrupts
<1> QED
  BY <1>1, <1>2, <1>3, <1>4, <1>5, <1>6, <1>7

\* Fencing tokens never decrease, and a new or revived holder gets a new one.
THEOREM TokensFence == StoreSpec => NewHolderNewToken
<1>1. StoreTypeOK /\ [StoreNext]_storeVars =>
        [\A r \in Run :
             /\ leases'[r].token >= leases[r].token
             /\ (leases'[r].holder # leases[r].holder \/ (leases'[r].active /\ ~leases[r].active))
                    => leases'[r].token = leases[r].token + 1]_storeVars
  <2> SUFFICES ASSUME StoreTypeOK, [StoreNext]_storeVars, NEW r \in Run
               PROVE  /\ leases'[r].token >= leases[r].token
                      /\ (leases'[r].holder # leases[r].holder
                             \/ (leases'[r].active /\ ~leases[r].active))
                             => leases'[r].token = leases[r].token + 1
    OBVIOUS
  <2>1. leases[r] \in LeaseRow /\ leases[r].token \in Nat
    BY DEF StoreTypeOK, LeaseRow
  <2>2. LeaseStep(r)
    BY LeasesMoveByLeaseSteps
  <2>3. CASE \E w \in Worker : leases'[r] = Granted(leases[r], w)
    <3> PICK w \in Worker : leases'[r] = Granted(leases[r], w)
      BY <2>3
    <3>1. Granted(leases[r], w).token = leases[r].token + 1
      BY <2>1, GrantedRow
    <3>2. leases'[r].token = leases[r].token + 1
      BY <3>1
    <3>3. leases'[r].token >= leases[r].token
      BY <2>1, <3>2
    <3> QED
      BY <3>2, <3>3
  <2>4. CASE /\ leases'[r].holder = leases[r].holder
             /\ leases'[r].token = leases[r].token
             /\ leases'[r].active => leases[r].active
    BY <2>1, <2>4
  <2> QED
    BY <2>2, <2>3, <2>4 DEF LeaseStep
<1> QED
  BY <1>1, StoreTypes, PTL DEF StoreSpec, NewHolderNewToken
-----------------------------------------------------------------------------
(* Recovery of executing runs *)

\* A run is RUNNING with an active lease before a step and has one after it, or
\* it is not RUNNING any more: no path leaves a RUNNING run out of the reach of
\* requeue_expired_leases.
LEMMA RecoverableStep ==
    StoreTypeOK /\ RunningIsRecoverable /\ [StoreNext]_storeVars => RunningIsRecoverable'
<1> SUFFICES ASSUME StoreTypeOK, RunningIsRecoverable, [StoreNext]_storeVars,
                    NEW q \in Run, runs'[q].status = "RUNNING"
             PROVE  leases'[q].active
  BY DEF RunningIsRecoverable
<1>0. runs[q] \in RunRow /\ leases[q] \in LeaseRow
  BY DEF StoreTypeOK
<1>1. ASSUME runs'[q].status = runs[q].status, leases'[q].active = leases[q].active
      PROVE  leases'[q].active
  BY <1>1 DEF RunningIsRecoverable
<1>2. ASSUME NEW r \in Run, NEW t \in Status, t # "RUNNING", runs' = WithStatus(r, t),
             leases' = leases \/ leases' = Released(r)
      PROVE  leases'[q].active
  <2>1. q # r
    BY <1>0, <1>2, StatusUpdate, MovedRow
  <2>2. runs'[q] = runs[q] /\ leases'[q] = leases[q]
    BY <1>2, <2>1, StatusUpdate DEF Released, StoreTypeOK
  <2> QED
    BY <1>1, <2>2
<1>3. ASSUME NEW r \in Run, CreateRun(r) PROVE leases'[q].active
  <2>1. runs'[q] = (IF q = r THEN Inserted(runs[q]) ELSE runs[q]) /\ leases' = leases
    BY <1>3 DEF CreateRun, StoreTypeOK
  <2>2. q # r
    BY <1>0, <2>1, InsertedRow
  <2> QED
    BY <1>1, <2>1, <2>2
<1>4. ASSUME NEW r \in Run, NEW w \in Worker, ClaimNext(r, w) PROVE leases'[q].active
  <2>1. CASE q = r
    <3>1. leases'[q] = Granted(leases[q], w)
      BY <1>4, <2>1 DEF ClaimNext, StoreTypeOK
    <3>2. Granted(leases[q], w).active = TRUE
      BY <1>0, GrantedRow
    <3> QED
      BY <3>1, <3>2
  <2>2. CASE q # r
    BY <1>1, <1>4, <2>2, StatusUpdate DEF ClaimNext, StoreTypeOK
  <2> QED
    BY <2>1, <2>2
<1>5. ASSUME NEW r \in Run, NEW w \in Worker, NEW tok, RenewLease(r, w, tok)
      PROVE  leases'[q].active
  <2>1. leases'[q] = (IF q = r THEN Renewed(leases[q]) ELSE leases[q]) /\ runs' = runs
    BY <1>5 DEF RenewLease, StoreTypeOK
  <2>2. leases'[q].active = leases[q].active
    BY <1>0, <2>1, RenewedRow
  <2> QED
    BY <1>1, <2>1, <2>2
<1>6. ASSUME NEW r \in Run, CheckpointStep(r) PROVE leases'[q].active
  <2>1. leases' = leases
    BY <1>6 DEF CheckpointStep, CommitCheckpoint
  <2>2. runs[q].status = "RUNNING"
    BY <1>6, CommitWritesBoth
  <2> QED
    BY <2>1, <2>2 DEF RunningIsRecoverable
<1>7. CASE ExpireInterrupts
  <2>1. runs'[q] = IF TimesOut(q) THEN Moved(runs[q], "TIMED_OUT") ELSE runs[q]
    BY <1>7 DEF ExpireInterrupts
  <2>2. runs'[q] = runs[q]
    BY <1>0, <2>1, MovedRow DEF Status, Terminal
  <2> QED
    BY <1>1, <1>7, <2>2 DEF ExpireInterrupts
<1>8. CASE RequeueExpiredLeases
  <2>1. runs'[q] = IF Requeued(q) THEN Moved(runs[q], "QUEUED") ELSE runs[q]
    BY <1>8 DEF RequeueExpiredLeases
  <2>2. ~Requeued(q) /\ runs'[q] = runs[q]
    BY <1>0, <2>1, MovedRow DEF Status, Active
  <2>3. ~Lapsed(q)
    BY <2>2 DEF Requeued
  <2>4. leases'[q] = leases[q]
    BY <1>8, <2>3 DEF RequeueExpiredLeases
  <2> QED
    BY <1>1, <2>2, <2>4
<1>9. CASE StoreTick
  <2>1. leases'[q] = IF leases[q].active THEN Aged(leases[q]) ELSE leases[q]
    BY <1>9 DEF StoreTick, TickedLeases
  <2>2. leases'[q].active = leases[q].active
    BY <1>0, <2>1, AgedLease
  <2> QED
    BY <1>1, <1>9, <2>2 DEF StoreTick
<1>10. CASE UNCHANGED <<runs, leases>>
  BY <1>1, <1>10
<1>11. \/ UNCHANGED <<runs, leases>>
       \/ \E r \in Run, t \in Status : /\ t # "RUNNING" /\ runs' = WithStatus(r, t)
                                       /\ leases' = leases \/ leases' = Released(r)
       \/ \E r \in Run : CreateRun(r) \/ CheckpointStep(r)
       \/ \E r \in Run, w \in Worker : ClaimNext(r, w)
       \/ \E r \in Run, w \in Worker : RenewLease(r, w, leases[r].token)
       \/ ExpireInterrupts \/ RequeueExpiredLeases \/ StoreTick
  BY DEF StoreNext, storeVars, AppendRunEvent, Control, TransitionRun, HolderOps, FinishClaim,
         CheckpointStep, CreateInterrupt, DecideInterrupt, WorkerTargets, Status, Active, Terminal
<1> QED
  BY <1>2, <1>3, <1>4, <1>5, <1>6, <1>7, <1>8, <1>9, <1>10, <1>11

\* A RUNNING run always has an active lease: the lease sweep can always find the
\* run of a worker that died.
THEOREM RunningRunsHaveLeases == StoreSpec => []RunningIsRecoverable
<1>1. StoreInit => RunningIsRecoverable
  BY DEF StoreInit, RunningIsRecoverable
<1> QED
  BY <1>1, RecoverableStep, StoreTypes, PTL DEF StoreSpec
-----------------------------------------------------------------------------
(* Interrupts *)

\* Rows that were never inserted carry no decision: with it, DecisionIsFinal and
\* OneOpenQuestion become inductive.
UnaskedIsUndecided ==
    \A i \in Interrupt : interrupts[i].run = Nobody => interrupts[i].decision = "none"

\* What one step may do to interrupt i: nothing that shows in its run and its
\* decision, or insert it undecided, or record a first decision.
InterruptStep(i) ==
    \/ interrupts'[i].run = interrupts[i].run /\ interrupts'[i].decision = interrupts[i].decision
    \/ /\ interrupts[i].run = Nobody
       /\ interrupts'[i].run \in Run /\ interrupts'[i].decision = "none"
    \/ /\ interrupts[i].run # Nobody /\ interrupts[i].decision = "none"
       /\ interrupts'[i].run = interrupts[i].run

\* Every operation changes interrupts in one of those ways.
LEMMA InterruptsMoveBySteps ==
    ASSUME StoreTypeOK, [StoreNext]_storeVars
    PROVE  \A i \in Interrupt : InterruptStep(i)
<1> TAKE i \in Interrupt
<1>0. interrupts[i] \in InterruptRow
  BY DEF StoreTypeOK
<1>1. ASSUME interrupts' = interrupts PROVE InterruptStep(i)
  BY <1>1 DEF InterruptStep
<1>2. ASSUME NEW j \in Interrupt, NEW r \in Run, NEW ver, NEW key, NEW ttl,
             CreateInterrupt(j, r, ver, key, ttl)
      PROVE  InterruptStep(i)
  <2>1. CASE i = j
    <3>1. interrupts'[i] = [run |-> r, key |-> key, decision |-> "none", ttl |-> ttl]
      BY <1>2, <2>1 DEF CreateInterrupt, StoreTypeOK
    <3>2. interrupts'[i].run = r /\ interrupts'[i].decision = "none"
      BY <3>1
    <3> QED
      BY <1>2, <2>1, <3>2 DEF InterruptStep, CreateInterrupt
  <2>2. CASE i # j
    BY <1>2, <2>2 DEF CreateInterrupt, StoreTypeOK, InterruptStep
  <2> QED
    BY <2>1, <2>2
<1>3. ASSUME NEW j \in Interrupt, NEW ver, NEW d \in Decisions,
             DecideInterrupt(j, ver, d)
      PROVE  InterruptStep(i)
  <2>1. interrupts'[i] = IF i = j THEN Decided(interrupts[i], d) ELSE interrupts[i]
    BY <1>3 DEF DecideInterrupt, StoreTypeOK
  <2>2. i = j => interrupts[i].run # Nobody /\ interrupts[i].decision = "none"
    BY <1>3, NobodyIsNoId DEF DecideInterrupt
  <2> QED
    BY <1>0, <2>1, <2>2, DecidedRow DEF InterruptStep
<1>4. CASE ExpireInterrupts
  <2>1. interrupts'[i] = IF Overdue(i) THEN Decided(interrupts[i], "reject") ELSE interrupts[i]
    BY <1>4 DEF ExpireInterrupts
  <2>2. Overdue(i) => interrupts[i].run # Nobody /\ interrupts[i].decision = "none"
    BY DEF Overdue
  <2> QED
    BY <1>0, <2>1, <2>2, DecidedRow, DecisionKinds DEF InterruptStep
<1>5. CASE StoreTick
  <2>1. interrupts'[i] =
          IF interrupts[i].decision = "none" THEN Aged(interrupts[i]) ELSE interrupts[i]
    BY <1>5 DEF StoreTick, TickedInterrupts
  <2> QED
    BY <1>0, <2>1, AgedInterrupt DEF InterruptStep
<1>6. \/ interrupts' = interrupts
      \/ \E j \in Interrupt, r \in Run, n \in Node,
            ttl \in {NoDeadline} \cup 1..IntTicks :
             CreateInterrupt(j, r, runs[r].version,
                             <<n, checkpoints[r].sequence + 1>>, ttl)
      \/ \E j \in Interrupt, r \in Run, d \in Decisions :
             DecideInterrupt(j, runs[r].version, d)
      \/ ExpireInterrupts
      \/ StoreTick
  BY DEF StoreNext, storeVars, CreateRun, AppendRunEvent, Control, TransitionRun, ClaimNext,
         HolderOps, RenewLease, FinishClaim, CommitCheckpoint, RequeueExpiredLeases
<1> QED
  BY <1>1, <1>2, <1>3, <1>4, <1>5, <1>6

\* Only inserted rows are ever decided.
LEMMA OnlyAskedIsDecided == StoreSpec => []UnaskedIsUndecided
<1>1. StoreInit => UnaskedIsUndecided
  BY DEF StoreInit, UnaskedIsUndecided
<1>2. StoreTypeOK /\ UnaskedIsUndecided /\ [StoreNext]_storeVars => UnaskedIsUndecided'
  BY InterruptsMoveBySteps, NobodyIsNoId DEF UnaskedIsUndecided, InterruptStep
<1> QED
  BY <1>1, <1>2, StoreTypes, PTL DEF StoreSpec

\* A recorded decision is never replaced, by a reviewer or by the expiry sweep.
THEOREM DecisionsStay == StoreSpec => DecisionIsFinal
<1>1. StoreTypeOK /\ UnaskedIsUndecided /\ [StoreNext]_storeVars =>
        [DecisionsStand]_storeVars
  BY InterruptsMoveBySteps DEF UnaskedIsUndecided, InterruptStep, DecisionsStand
<1> QED
  BY <1>1, StoreTypes, OnlyAskedIsDecided, PTL DEF StoreSpec, DecisionIsFinal

\* Neither a finished run's row and last checkpoint nor a recorded decision is
\* ever changed by a late commit, a second reviewer or a sweep.
THEOREM ThePastStays == StoreSpec => PastIsFinal
  BY FinishedRunsStay, DecisionsStay, PTL DEF PastIsFinal, TerminalIsFinal, DecisionIsFinal

\* OneOpenQuestion, for one run.
QuestionOK(q) ==
    /\ runs[q].status = "WAITING" =>
           /\ ~leases[q].active
           /\ \E i \in Undecided(q) : \A j \in Undecided(q) : i = j
    /\ Undecided(q) # {} => runs[q].status \in {"WAITING", "CANCELLED"}

\* A step that leaves the questions of q, its status and its lease alone, or
\* releases the lease, keeps the promise.
LEMMA QuestionFrame ==
    ASSUME NEW q \in Run, QuestionOK(q), runs'[q].status = runs[q].status,
           leases'[q].active => leases[q].active,
           \A i \in Interrupt : /\ interrupts'[i].run = interrupts[i].run
                                /\ interrupts'[i].decision = interrupts[i].decision
    PROVE  QuestionOK(q)'
<1>1. Undecided(q)' = Undecided(q)
  BY DEF Undecided
<1> QED
  BY <1>1 DEF QuestionOK

\* A status update of a run r that does not wait, with interrupts untouched and
\* the lease kept, granted or released, keeps the promise.
LEMMA QuestionMove ==
    ASSUME StoreTypeOK, NEW q \in Run, QuestionOK(q), NEW r \in Run, NEW t \in Status,
           runs' = WithStatus(r, t), interrupts' = interrupts,
           runs[r].status \notin {"WAITING", "CANCELLED"} \/ t = "CANCELLED", t # "WAITING",
           q # r => leases'[q] = leases[q]
    PROVE  QuestionOK(q)'
<1>1. Undecided(q)' = Undecided(q)
  BY DEF Undecided
<1>2. CASE q = r
  <2>1. runs'[q].status = t
    BY <1>2, StatusUpdate, MovedRow DEF StoreTypeOK
  <2> QED
    BY <1>1, <1>2, <2>1 DEF QuestionOK
<1>3. CASE q # r
  <2>1. runs'[q] = runs[q]
    BY <1>3, StatusUpdate
  <2> QED
    BY <1>1, <1>3, <2>1 DEF QuestionOK
<1> QED
  BY <1>2, <1>3
\* create_interrupt gives a run without open questions its only one.
LEMMA QuestionAsked ==
    ASSUME StoreTypeOK, NEW q \in Run, QuestionOK(q), NEW i \in Interrupt, NEW r \in Run,
           NEW ver, NEW key, NEW ttl, CreateInterrupt(i, r, ver, key, ttl)
    PROVE  QuestionOK(q)'
<1>0. runs[q] \in RunRow /\ leases[q] \in LeaseRow
  BY DEF StoreTypeOK
<1>1. \A j \in Interrupt : j # i => interrupts'[j] = interrupts[j]
  BY DEF CreateInterrupt, StoreTypeOK
<1>2. interrupts[i].run = Nobody
  BY DEF CreateInterrupt
<1>3. interrupts'[i].run = r /\ interrupts'[i].decision = "none"
  <2> interrupts'[i] = [run |-> r, key |-> key, decision |-> "none", ttl |-> ttl]
    BY DEF CreateInterrupt, StoreTypeOK
  <2> QED
    OBVIOUS
<1>4. CASE q = r
  <2>1. Undecided(q) = {}
    BY <1>4 DEF CreateInterrupt, InterruptGuard, CanTransition, QuestionOK
  <2>2. Undecided(q)' = {i}
    BY <1>1, <1>3, <1>4, <2>1 DEF Undecided
  <2>3. runs'[q].status = "WAITING"
    BY <1>0, <1>4, StatusUpdate, MovedRow DEF CreateInterrupt, Status, Active
  <2>4. leases'[q] = Deactivated(leases[q])
    BY <1>4 DEF CreateInterrupt, Released, StoreTypeOK
  <2>5. ~leases'[q].active
    BY <1>0, <2>4, DeactivatedRow
  <2> QED
    BY <2>2, <2>3, <2>5 DEF QuestionOK
<1>5. CASE q # r
  <2>1. Undecided(q)' = Undecided(q)
    BY <1>1, <1>2, <1>3, <1>5, NobodyIsNoId DEF Undecided
  <2>2. runs'[q] = runs[q] /\ leases'[q] = leases[q]
    BY <1>5, StatusUpdate DEF CreateInterrupt, Released, StoreTypeOK
  <2> QED
    BY <2>1, <2>2 DEF QuestionOK
<1> QED
  BY <1>4, <1>5

\* decide_interrupt closes the only question of a waiting run.
LEMMA QuestionDecided ==
    ASSUME StoreTypeOK, \A p \in Run : QuestionOK(p), NEW q \in Run, NEW i \in Interrupt,
           NEW ver, NEW d \in Decisions, DecideInterrupt(i, ver, d)
    PROVE  QuestionOK(q)'
<1> PICK r \in Run :
        /\ interrupts[i].run = r /\ interrupts[i].decision = "none"
        /\ CanTransition(runs[r].status, "QUEUED")
        /\ interrupts' = [interrupts EXCEPT ![i] = Decided(@, d)]
        /\ runs' = WithStatus(r, "QUEUED") /\ leases' = leases
  BY DEF DecideInterrupt
<1>0. runs[q] \in RunRow /\ interrupts[i] \in InterruptRow
  BY DEF StoreTypeOK
<1>1. interrupts'[i] = Decided(interrupts[i], d)
      /\ \A j \in Interrupt : j # i => interrupts'[j] = interrupts[j]
  BY DEF StoreTypeOK
<1>2. interrupts'[i].run = r /\ interrupts'[i].decision # "none"
  BY <1>0, <1>1, DecidedRow, DecisionKinds
<1>3. i \in Undecided(r)
  BY DEF Undecided
<1>4. CASE q = r
  <2>1. runs[q].status = "WAITING"
    BY <1>3, <1>4 DEF QuestionOK, CanTransition
  <2>2. \A j \in Undecided(q) : j = i
    BY <1>3, <1>4, <2>1 DEF QuestionOK
  <2>3. Undecided(q)' = {}
    BY <1>1, <1>2, <2>2 DEF Undecided
  <2>4. runs'[q].status = "QUEUED"
    BY <1>0, <1>4, StatusUpdate, MovedRow DEF Status, Active
  <2> QED
    BY <2>3, <2>4 DEF QuestionOK
<1>5. CASE q # r
  <2>1. Undecided(q)' = Undecided(q)
    BY <1>1, <1>2, <1>5 DEF Undecided
  <2>2. runs'[q] = runs[q]
    BY <1>5, StatusUpdate
  <2> QED
    BY <2>1, <2>2 DEF QuestionOK
<1> QED
  BY <1>4, <1>5

\* expire_interrupts closes the only question of every run it times out.
LEMMA QuestionExpired ==
    ASSUME StoreTypeOK, NEW q \in Run, QuestionOK(q), ExpireInterrupts
    PROVE  QuestionOK(q)'
<1>0. runs[q] \in RunRow
  BY DEF StoreTypeOK
<1>1. \A i \in Interrupt : interrupts'[i] =
          IF Overdue(i) THEN Decided(interrupts[i], "reject") ELSE interrupts[i]
  BY DEF ExpireInterrupts
<1>2. \A i \in Interrupt : /\ interrupts'[i].run = interrupts[i].run
                           /\ Overdue(i) => interrupts'[i].decision # "none"
                           /\ ~Overdue(i) => interrupts'[i].decision = interrupts[i].decision
  BY <1>1, DecidedRow, DecisionKinds DEF StoreTypeOK
<1>3. Undecided(q)' = {i \in Undecided(q) : ~Overdue(i)}
  BY <1>2 DEF Undecided, Overdue
<1>4. runs'[q] = (IF TimesOut(q) THEN Moved(runs[q], "TIMED_OUT") ELSE runs[q])
      /\ leases' = leases
  BY DEF ExpireInterrupts
<1>5. CASE TimesOut(q)
  <2>1. runs'[q].status = "TIMED_OUT"
    BY <1>0, <1>4, <1>5, MovedRow DEF Status, Terminal
  <2>2. Undecided(q)' = {}
    BY <1>3, <1>5 DEF TimesOut, QuestionOK
  <2> QED
    BY <2>1, <2>2 DEF QuestionOK
<1>6. CASE ~TimesOut(q)
  <2>1. runs[q].status = "WAITING" => Undecided(q)' = Undecided(q)
    BY <1>3, <1>6 DEF TimesOut
  <2> QED
    BY <1>3, <1>4, <1>6, <2>1 DEF QuestionOK
<1> QED
  BY <1>5, <1>6

\* Every operation keeps the promise for every run.
LEMMA QuestionStep ==
    ASSUME StoreTypeOK, OneOpenQuestion, [StoreNext]_storeVars
    PROVE  OneOpenQuestion'
<1>1. \A p \in Run : QuestionOK(p)
  BY DEF OneOpenQuestion, QuestionOK
<1> SUFFICES ASSUME NEW q \in Run PROVE QuestionOK(q)'
  BY DEF OneOpenQuestion, QuestionOK
<1>0. runs[q] \in RunRow /\ leases[q] \in LeaseRow
  BY DEF StoreTypeOK
<1>2. ASSUME UNCHANGED <<runs, interrupts>>, leases'[q].active => leases[q].active
      PROVE  QuestionOK(q)'
  BY <1>1, <1>2, QuestionFrame
<1>3. ASSUME NEW r \in Run, CreateRun(r) PROVE QuestionOK(q)'
  <2>1. CASE q = r
    <3>1. runs'[q] = Inserted(runs[q])
      BY <1>3, <2>1 DEF CreateRun, StoreTypeOK
    <3>2. runs'[q].status = "QUEUED"
      BY <1>0, <3>1, InsertedRow
    <3>3. Undecided(q)' = {}
      BY <1>1, <1>3, <2>1 DEF CreateRun, Exists, QuestionOK, Undecided
    <3> QED
      BY <3>2, <3>3 DEF QuestionOK
  <2>2. CASE q # r
    BY <1>1, <1>3, <2>2, QuestionFrame DEF CreateRun, StoreTypeOK
  <2> QED
    BY <2>1, <2>2
<1>4. ASSUME NEW r \in Run, NEW ver, Control(r, ver) PROVE QuestionOK(q)'
  BY <1>1, <1>4, QuestionMove DEF Control, TransitionRun, Status, Active, Terminal
<1>5. ASSUME NEW r \in Run, NEW w \in Worker, ClaimNext(r, w) PROVE QuestionOK(q)'
  BY <1>1, <1>5, QuestionMove DEF ClaimNext, StoreTypeOK, Status, Active
<1>6. ASSUME NEW r \in Run, NEW w \in Worker, NEW tok, NEW ver,
             NEW t \in WorkerTargets, FinishClaim(r, w, tok, ver, t)
      PROVE  QuestionOK(q)'
  <2>1. runs[r].status # "WAITING"
    BY <1>1, <1>6 DEF FinishClaim, FinishGuard, RequiredLease, QuestionOK
  <2>2. runs[r].status # "CANCELLED"
    BY <1>6 DEF FinishClaim, FinishGuard, CanTransition
  <2>3. q # r => leases'[q] = leases[q]
    BY <1>6 DEF FinishClaim, Released, StoreTypeOK
  <2> QED
    BY <1>1, <1>6, <2>1, <2>2, <2>3, QuestionMove
       DEF FinishClaim, WorkerTargets, Status, Terminal
<1>7. ASSUME NEW r \in Run, CheckpointStep(r) PROVE QuestionOK(q)'
  <2>1. leases' = leases /\ interrupts' = interrupts
    BY <1>7 DEF CheckpointStep, CommitCheckpoint
  <2> QED
    BY <1>1, <1>7, <2>1, CommitKeepsStatus, QuestionFrame
<1>8. CASE RequeueExpiredLeases
  <2>1. runs'[q] = (IF Requeued(q) THEN Moved(runs[q], "QUEUED") ELSE runs[q])
        /\ interrupts' = interrupts
        /\ leases'[q] = IF Lapsed(q) THEN Deactivated(leases[q]) ELSE leases[q]
    BY <1>8 DEF RequeueExpiredLeases
  <2>2. leases'[q].active => leases[q].active
    BY <1>0, <2>1, DeactivatedRow
  <2>3. CASE Requeued(q)
    <3>1. Undecided(q)' = {}
      BY <1>1, <2>1, <2>3 DEF Requeued, QuestionOK, Undecided
    <3>2. runs'[q].status = "QUEUED"
      BY <1>0, <2>1, <2>3, MovedRow DEF Status, Active
    <3> QED
      BY <3>1, <3>2 DEF QuestionOK
  <2>4. CASE ~Requeued(q)
    BY <1>1, <2>1, <2>2, <2>4, QuestionFrame
  <2> QED
    BY <2>3, <2>4
<1>9. CASE StoreTick
  <2>1. leases'[q] = (IF leases[q].active THEN Aged(leases[q]) ELSE leases[q]) /\ runs' = runs
    BY <1>9 DEF StoreTick, TickedLeases
  <2>2. leases'[q].active = leases[q].active
    BY <1>0, <2>1, AgedLease
  <2>3. ASSUME NEW i \in Interrupt
        PROVE  /\ interrupts'[i].run = interrupts[i].run
               /\ interrupts'[i].decision = interrupts[i].decision
    BY <1>9, AgedInterrupt DEF StoreTick, TickedInterrupts, StoreTypeOK
  <2> QED
    BY <1>1, <2>1, <2>2, <2>3, QuestionFrame
<1>10. ASSUME NEW r \in Run, NEW w \in Worker, NEW tok, RenewLease(r, w, tok)
       PROVE  QuestionOK(q)'
  <2>1. leases'[q] = IF q = r THEN Renewed(leases[q]) ELSE leases[q]
    BY <1>10 DEF RenewLease, StoreTypeOK
  <2>2. leases'[q].active = leases[q].active
    BY <1>0, <2>1, RenewedRow
  <2> QED
    BY <1>2, <1>10, <2>2 DEF RenewLease
<1>11. CASE UNCHANGED storeVars \/ \E r \in Run : AppendRunEvent(r)
  BY <1>2, <1>11 DEF storeVars, AppendRunEvent
<1>12. ASSUME NEW i \in Interrupt, NEW ver, NEW d \in Decisions,
              DecideInterrupt(i, ver, d)
       PROVE  QuestionOK(q)'
  BY <1>1, <1>12, QuestionDecided
<1>13. ASSUME NEW i \in Interrupt, NEW r \in Run, NEW ver, NEW key, NEW ttl,
              CreateInterrupt(i, r, ver, key, ttl)
       PROVE  QuestionOK(q)'
  BY <1>1, <1>13, QuestionAsked
<1>14. CASE ExpireInterrupts
  BY <1>1, <1>14, QuestionExpired
<1> QED
  BY <1>3, <1>4, <1>5, <1>6, <1>7, <1>8, <1>9, <1>10, <1>11, <1>12, <1>13, <1>14
     DEF StoreNext, HolderOps, CheckpointStep

\* A waiting run has exactly one open question and no lease holder, and open
\* questions belong to waiting or cancelled runs only.
THEOREM WaitingRunsHaveOneQuestion == StoreSpec => []OneOpenQuestion
<1>1. StoreInit => OneOpenQuestion
  <2> SUFFICES ASSUME StoreInit, NEW r \in Run
               PROVE  runs[r].status # "WAITING" /\ Undecided(r) = {}
    BY DEF OneOpenQuestion
  <2>1. runs[r].status = "ABSENT"
    BY DEF StoreInit
  <2>2. \A i \in Interrupt : interrupts[i].run = Nobody
    BY DEF StoreInit
  <2> QED
    BY <2>1, <2>2, NobodyIsNoId DEF Undecided
<1> QED
  BY <1>1, QuestionStep, StoreTypes, PTL DEF StoreSpec
-----------------------------------------------------------------------------
(* Refinement of the life cycle *)

\* A move of the life cycle that hands the run to nobody.
LegalMove(s, t) ==
    \/ t = s
    \/ Lifecycle!Submitted(s, t)
    \/ Lifecycle!Released(s, t)
    \/ Lifecycle!Stopped(s, t)
    \/ Lifecycle!Ended(s, t)

\* Lifecycle!Moves, on the rows of the store.
RowMoves(q) ==
    LET s == runs[q].status
        t == runs'[q].status
    IN  \/ s = "QUEUED" /\ t = "RUNNING" /\ leases'[q].token = leases[q].token + 1
        \/ LegalMove(s, t) /\ leases'[q].token = leases[q].token

\* LegalMove covers no start of a run.
LEMMA LegalMovesStartNothing ==
    ASSUME NEW s, NEW t, LegalMove(s, t)
    PROVE  ~Lifecycle!Started(s, t)
  BY DEF LegalMove, Lifecycle!Submitted, Lifecycle!Released, Lifecycle!Stopped, Lifecycle!Ended,
         Lifecycle!Started, Lifecycle!Live

\* A status update of r by an admitted move, tokens kept, is a move of every run.
LEMMA UpdateMoves ==
    ASSUME StoreTypeOK, NEW r \in Run, NEW t \in Status, runs' = WithStatus(r, t),
           LegalMove(runs[r].status, t), NEW q \in Run, leases'[q].token = leases[q].token
    PROVE  RowMoves(q)
<1>1. CASE q = r
  <2>1. runs'[q].status = t
    BY <1>1, StatusUpdate, MovedRow DEF StoreTypeOK
  <2> QED
    BY <1>1, <2>1 DEF RowMoves
<1>2. CASE q # r
  <2>1. runs'[q] = runs[q]
    BY <1>2, StatusUpdate
  <2> QED
    BY <2>1 DEF RowMoves, LegalMove
<1> QED
  BY <1>1, <1>2

\* Every operation moves every run as the life cycle allows.
LEMMA StoreMovesRuns ==
    ASSUME StoreTypeOK, OneOpenQuestion, [StoreNext]_storeVars, NEW q \in Run
    PROVE  RowMoves(q)
<1>0. runs[q] \in RunRow /\ leases[q] \in LeaseRow
  BY DEF StoreTypeOK
<1>a. Deactivated(leases[q]).token = leases[q].token
  BY <1>0, DeactivatedRow
<1> USE DEF Lifecycle!Submitted, Lifecycle!Released, Lifecycle!Stopped, Lifecycle!Ended,
            Lifecycle!Live
<1>1. ASSUME runs'[q].status = runs[q].status, leases'[q].token = leases[q].token
      PROVE  RowMoves(q)
  BY <1>1 DEF RowMoves, LegalMove
<1>2. ASSUME NEW r \in Run, CreateRun(r) PROVE RowMoves(q)
  <2>1. runs'[q] = (IF q = r THEN Inserted(runs[q]) ELSE runs[q]) /\ leases' = leases
    BY <1>2 DEF CreateRun, StoreTypeOK
  <2>2. q = r => runs[q].status = "ABSENT" /\ runs'[q].status = "QUEUED"
    BY <1>0, <1>2, <2>1, InsertedRow DEF CreateRun, Exists
  <2> QED
    BY <2>1, <2>2 DEF RowMoves, LegalMove
<1>3. ASSUME NEW r \in Run, NEW ver, Control(r, ver) PROVE RowMoves(q)
  <2>1. PICK t \in {"CANCELLED", "QUEUED", "NEEDS_REVIEW"} :
           /\ CanTransition(runs[r].status, t) /\ runs' = WithStatus(r, t) /\ leases' = leases
           /\ t = "QUEUED" => runs[r].status = "NEEDS_REVIEW"
    BY <1>3 DEF Control, TransitionRun
  <2>2. LegalMove(runs[r].status, t) /\ t \in Status
    BY <2>1 DEF LegalMove, CanTransition, Status, Active, Terminal
  <2> QED
    BY <2>1, <2>2, UpdateMoves
<1>4. ASSUME NEW r \in Run, NEW w \in Worker, ClaimNext(r, w) PROVE RowMoves(q)
  <2>1. CASE q = r
    <3>1. leases'[q] = Granted(leases[q], w) /\ runs'[q] = Moved(runs[q], "RUNNING")
      BY <1>4, <2>1, StatusUpdate DEF ClaimNext, StoreTypeOK
    <3>2. Granted(leases[q], w).token = leases[q].token + 1
      BY <1>0, GrantedRow
    <3>3. runs'[q].status = "RUNNING"
      BY <1>0, <3>1, MovedRow DEF Status, Active
    <3> QED
      BY <1>4, <2>1, <3>1, <3>2, <3>3 DEF RowMoves, ClaimNext
  <2>2. CASE q # r
    BY <1>1, <1>4, <2>2, StatusUpdate DEF ClaimNext, StoreTypeOK
  <2> QED
    BY <2>1, <2>2
<1>5. ASSUME NEW r \in Run, NEW w \in Worker, NEW tok, NEW ver,
             NEW t \in WorkerTargets, FinishClaim(r, w, tok, ver, t)
      PROVE  RowMoves(q)
  <2>1. runs[r].status # "WAITING"
    BY <1>5 DEF FinishClaim, FinishGuard, RequiredLease, OneOpenQuestion
  <2>2. LegalMove(runs[r].status, t) /\ t \in Status
    BY <1>5, <2>1 DEF FinishClaim, FinishGuard, LegalMove, CanTransition, WorkerTargets,
                      Status, Terminal
  <2>3. leases'[q] = IF q = r THEN Deactivated(leases[q]) ELSE leases[q]
    BY <1>5 DEF FinishClaim, Released, StoreTypeOK
  <2>4. leases'[q].token = leases[q].token
    BY <1>a, <2>3
  <2> QED
    BY <1>5, <2>2, <2>4, UpdateMoves DEF FinishClaim
<1>6. ASSUME NEW r \in Run, CheckpointStep(r) PROVE RowMoves(q)
  <2>1. leases' = leases
    BY <1>6 DEF CheckpointStep, CommitCheckpoint
  <2> QED
    BY <1>1, <1>6, <2>1, CommitKeepsStatus
<1>7. ASSUME NEW i \in Interrupt, NEW r \in Run, NEW ver, NEW key, NEW ttl,
             CreateInterrupt(i, r, ver, key, ttl)
      PROVE  RowMoves(q)
  <2>1. LegalMove(runs[r].status, "WAITING") /\ "WAITING" \in Status
    BY <1>7 DEF CreateInterrupt, InterruptGuard, CanTransition, LegalMove, Status, Active
  <2>2. leases'[q] = IF q = r THEN Deactivated(leases[q]) ELSE leases[q]
    BY <1>7 DEF CreateInterrupt, Released, StoreTypeOK
  <2>3. leases'[q].token = leases[q].token
    BY <1>a, <2>2
  <2> QED
    BY <1>7, <2>1, <2>3, UpdateMoves DEF CreateInterrupt
<1>8. ASSUME NEW i \in Interrupt, NEW ver, NEW d \in Decisions,
             DecideInterrupt(i, ver, d)
      PROVE  RowMoves(q)
  <2>1. PICK r \in Run : /\ CanTransition(runs[r].status, "QUEUED")
                         /\ runs' = WithStatus(r, "QUEUED") /\ leases' = leases
    BY <1>8 DEF DecideInterrupt
  <2>2. LegalMove(runs[r].status, "QUEUED") /\ "QUEUED" \in Status
    BY <2>1 DEF CanTransition, LegalMove, Status, Active
  <2> QED
    BY <2>1, <2>2, UpdateMoves
<1>9. CASE ExpireInterrupts
  <2>1. runs'[q] = (IF TimesOut(q) THEN Moved(runs[q], "TIMED_OUT") ELSE runs[q])
        /\ leases' = leases
    BY <1>9 DEF ExpireInterrupts
  <2>2. TimesOut(q) => runs[q].status = "WAITING" /\ runs'[q].status = "TIMED_OUT"
    BY <1>0, <2>1, MovedRow DEF TimesOut, Status, Terminal
  <2> QED
    BY <2>1, <2>2 DEF RowMoves, LegalMove
<1>10. CASE RequeueExpiredLeases
  <2>1. runs'[q] = (IF Requeued(q) THEN Moved(runs[q], "QUEUED") ELSE runs[q])
        /\ leases'[q] = IF Lapsed(q) THEN Deactivated(leases[q]) ELSE leases[q]
    BY <1>10 DEF RequeueExpiredLeases
  <2>2. Requeued(q) => runs[q].status = "RUNNING" /\ runs'[q].status = "QUEUED"
    BY <1>0, <2>1, MovedRow DEF Requeued, Status, Active
  <2>3. leases'[q].token = leases[q].token
    BY <1>a, <2>1
  <2> QED
    BY <2>1, <2>2, <2>3 DEF RowMoves, LegalMove
<1>11. CASE StoreTick
  <2>1. leases'[q] = (IF leases[q].active THEN Aged(leases[q]) ELSE leases[q]) /\ runs' = runs
    BY <1>11 DEF StoreTick, TickedLeases
  <2>2. leases'[q].token = leases[q].token
    BY <1>0, <2>1, AgedLease
  <2> QED
    BY <1>1, <2>1, <2>2
<1>12. ASSUME NEW r \in Run, NEW w \in Worker, NEW tok, RenewLease(r, w, tok)
       PROVE  RowMoves(q)
  <2>1. leases'[q] = IF q = r THEN Renewed(leases[q]) ELSE leases[q]
    BY <1>12 DEF RenewLease, StoreTypeOK
  <2>2. leases'[q].token = leases[q].token
    BY <1>0, <2>1, RenewedRow
  <2> QED
    BY <1>1, <1>12, <2>2 DEF RenewLease
<1>13. CASE UNCHANGED storeVars \/ \E r \in Run : AppendRunEvent(r)
  BY <1>1, <1>13 DEF storeVars, AppendRunEvent
<1> QED
  BY <1>2, <1>3, <1>4, <1>5, <1>6, <1>7, <1>8, <1>9, <1>10, <1>11, <1>12, <1>13
     DEF StoreNext, HolderOps, CheckpointStep

\* The store implements the life cycle a client relies on: the invariant needed
\* is that nobody holds the lease of a waiting run.
THEOREM StoreImplementsLifecycle == StoreSpec => ImplementsLifecycle
<1> DEFINE st == [r \in Run |-> runs[r].status]
           at == [r \in Run |-> leases[r].token]
<1>1. StoreInit => Lifecycle!Init
  BY DEF StoreInit, Lifecycle!Init
<1>2. StoreTypeOK /\ OneOpenQuestion /\ [StoreNext]_storeVars => [Lifecycle!Next]_<<st, at>>
  <2> SUFFICES ASSUME StoreTypeOK, OneOpenQuestion, [StoreNext]_storeVars
               PROVE  Lifecycle!Next
    OBVIOUS
  <2>1. ASSUME NEW r \in Run PROVE Lifecycle!Moves(r)
    <3>1. RowMoves(r)
      BY StoreMovesRuns
    <3> QED
      BY <3>1, LegalMovesStartNothing DEF RowMoves, LegalMove, Lifecycle!Moves, Lifecycle!Started
  <2> QED
    BY <2>1 DEF Lifecycle!Next
<1> QED
  BY <1>1, <1>2, StoreTypes, WaitingRunsHaveOneQuestion, PTL
     DEF StoreSpec, ImplementsLifecycle, Lifecycle!Spec
=============================================================================
