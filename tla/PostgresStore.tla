---------------------------- MODULE PostgresStore ----------------------------
(* PostgresRunStore (rath/runtime/postgres.py): the methods of RunStore as    *)
(* READ COMMITTED transactions that lock rows one at a time, wait for locked  *)
(* rows or skip them, and write what they computed from the rows they read.   *)
(*                                                                            *)
(* A transaction begins (with the unlocked reads its caller made), acquires   *)
(* the row locks of LockOrder one by one, checking what it read each time,    *)
(* and commits all of its writes in one step.  A failed check, a lost         *)
(* connection and a deadlock roll it back.                                    *)
(*                                                                            *)
(* Callers are the real ones: each worker has a main connection and a         *)
(* heartbeat connection, and API requests have connections of their own.      *)
EXTENDS RunStore, Sequences

CONSTANTS Api        \* connections of API requests

Conn == ({"main", "beat"} \X Worker) \cup ({"api"} \X Api)

ASSUME NobodyIsNoConnection == Nobody \notin Conn

VARIABLES
    lock,            \* lock[l]: the connection that holds a row's FOR UPDATE lock
    tx,              \* tx[c]: the open transaction of a connection
    copy,            \* copy[w]: the claim in the memory of a worker
    invoked          \* invoked[r]: highest invocation_sequence of a run

pgVars == <<lock, tx, copy, invoked>>
allVars == <<storeVars, pgVars>>

TheRun(r) == <<"run", r>>
TheLease(r) == <<"lease", r>>
TheInterrupt(i) == <<"interrupt", i>>
Lockable == ({"run", "lease"} \X Run) \cup ({"interrupt"} \X Interrupt)

NoRow == [status |-> "ABSENT", version |-> 0, state |-> Done, next |-> Done]
NoTx == [op |-> "none", todo |-> <<>>, run |-> Nobody, int |-> Nobody, token |-> 0,
         ver |-> 0, target |-> "none", row |-> NoRow, seq |-> 0, rows |-> {}]
NoClaim == [run |-> Nobody, token |-> 0, version |-> 0, sequence |-> 0, failing |-> FALSE]

PgInit ==
    /\ StoreInit
    /\ lock = [l \in Lockable |-> Nobody]
    /\ tx = [c \in Conn |-> NoTx]
    /\ copy = [w \in Worker |-> NoClaim]
    /\ invoked = [r \in Run |-> 0]

-----------------------------------------------------------------------------
(* Beginning a transaction *)

\* Mutation: renew_lease appends an event, and so locks the run as well.
LockOrder_RenewLogs(op, r, i) ==
    CASE op \in {"checkpoint", "finish", "renew"} -> <<TheLease(r), TheRun(r)>>
      [] op = "interrupt"                         -> <<TheRun(r), TheLease(r)>>
      [] op = "decide"                            -> <<TheInterrupt(i), TheRun(r)>>
      [] OTHER                                    -> <<TheRun(r)>>

\* The rows each method locks, in order.  (claim_next and the sweeps take their
\* first locks with SKIP LOCKED, when they begin.)
LockOrder(op, r, i) ==
    CASE op \in {"checkpoint", "finish"} -> <<TheLease(r), TheRun(r)>>
      [] op = "renew"                    -> <<TheLease(r)>>
      [] op = "interrupt"                -> <<TheRun(r), TheLease(r)>>
      [] op = "decide"                   -> <<TheInterrupt(i), TheRun(r)>>
      [] OTHER                           -> <<TheRun(r)>>

Begin(c, t) ==
    /\ tx[c] = NoTx
    /\ tx' = [tx EXCEPT ![c] = t]
    /\ UNCHANGED <<storeVars, copy, invoked>>

\* The same, taking the locks in S at once.
BeginLocked(c, t, S) ==
    /\ Begin(c, t)
    /\ lock' = [l \in Lockable |-> IF l \in S THEN c ELSE lock[l]]

Request(op, r, token, ver, target) ==
    [NoTx EXCEPT !.op = op, !.todo = LockOrder(op, r, Nobody), !.run = r,
                 !.token = token, !.ver = ver, !.target = target]

\* What a worker does with its claim: its own token and its copy's version.
StepRequests(w) ==
    LET k == copy[w] IN
    {Request("checkpoint", k.run, k.token, k.version, st) : st \in State}
    \cup {Request("finish", k.run, k.token, k.version, "SUCCEEDED")}
    \cup {[Request("interrupt", k.run, k.token, k.version, "WAITING") EXCEPT !.int = i] :
              i \in {j \in Interrupt : interrupts[j].run = Nobody}}
    \cup {Request(op, k.run, k.token, k.version, "none") : op \in {"event", "prepare"}}

BeginStep(w) ==
    /\ copy[w].run # Nobody
    /\ ~copy[w].failing
    /\ \E t \in StepRequests(w) : Begin(<<"main", w>>, t)
    /\ UNCHANGED lock

\* The except clause of work_once: finish_claim with the version it has just read;
\* nothing to do for a run that has ended.
BeginFail(w) ==
    LET r == copy[w].run IN
    /\ r # Nobody
    /\ tx[<<"main", w>>] = NoTx
    /\ IF runs[r].status \in Terminal
       THEN copy' = [copy EXCEPT ![w] = NoClaim] /\ UNCHANGED <<storeVars, tx, invoked>>
       ELSE /\ tx' = [tx EXCEPT ![<<"main", w>>] =
                         Request("finish", r, copy[w].token, runs[r].version, "FAILED")]
            /\ copy' = [copy EXCEPT ![w].failing = TRUE]
            /\ UNCHANGED <<storeVars, invoked>>
    /\ UNCHANGED lock

\* claim_next: the first queued run that nobody has locked, and its lease row next.
BeginClaim(w, r) ==
    /\ copy[w].run = Nobody
    /\ runs[r].status = "QUEUED"
    /\ lock[TheRun(r)] = Nobody
    /\ \A q \in Run : runs[q].status = "QUEUED" /\ lock[TheRun(q)] = Nobody => Before(r, q)
    /\ BeginLocked(<<"main", w>>,
                   [NoTx EXCEPT !.op = "claim", !.run = r, !.row = runs[r],
                                !.todo = <<TheLease(r)>>, !.seq = events[r] + 1],
                   {TheRun(r)})

BeginRenew(w) ==
    /\ copy[w].run # Nobody
    /\ Begin(<<"beat", w>>, Request("renew", copy[w].run, copy[w].token, 0, "none"))
    /\ UNCHANGED lock

\* transition_run after the caller's get_run: both reads are unlocked, and the
\* version tells whether they saw the same row.
BeginTransition(c, r, target) ==
    /\ CanTransition(runs[r].status, target)
    /\ Begin(c, [Request("transition", r, 0, runs[r].version, target) EXCEPT !.row = runs[r]])
    /\ UNCHANGED lock

\* The row locks a sweep gets with FOR UPDATE OF x, runs SKIP LOCKED, for the pairs P
\* of a row's own lock and its run's: a row whose run is locked is skipped, but its
\* own lock is kept.
Free(l) == lock[l] = Nobody

BothFree(p) == Free(p[1]) /\ Free(p[2])

SweepLocks(P) ==
    {p[1] : p \in {q \in P : Free(q[1])}} \cup {p[2] : p \in {q \in P : BothFree(q)}}

BeginRequeue(w) ==
    LET X == {r \in Run : Lapsed(r)}
        Rows(r) == <<TheLease(r), TheRun(r)>>
    IN  /\ copy[w].run = Nobody
        /\ X # {}
        /\ BeginLocked(<<"main", w>>,
                       [NoTx EXCEPT !.op = "requeue", !.rows = {r \in X : BothFree(Rows(r))}],
                       SweepLocks({Rows(r) : r \in X}))

BeginExpire(w) ==
    LET X == {i \in Interrupt : Overdue(i)}
        Rows(i) == <<TheInterrupt(i), TheRun(interrupts[i].run)>>
    IN  /\ copy[w].run = Nobody
        /\ X # {}
        /\ BeginLocked(<<"main", w>>,
                       [NoTx EXCEPT !.op = "expire", !.rows = {i \in X : BothFree(Rows(i))}],
                       SweepLocks({Rows(i) : i \in X}))

BeginDecide(c, i, d) ==
    /\ interrupts[i].run # Nobody
    /\ LET r == interrupts[i].run IN
       Begin(c, [Request("decide", r, 0, runs[r].version, d) EXCEPT
                    !.int = i, !.todo = LockOrder("decide", r, i)])
    /\ UNCHANGED lock

\* Mutation: inserts of other open transactions are not waited for.
MayInsert_NoWait(c, r) == TRUE

\* INSERT ... ON CONFLICT DO NOTHING waits for an open transaction that has
\* inserted a row with the same session or the same key.
MayInsert(c, r) ==
    \A d \in Conn \ {c} :
        tx[d].op = "create" =>
            /\ SessionOf[tx[d].run] # SessionOf[r]
            /\ KeyOf[r] = NoKey \/ KeyOf[tx[d].run] # KeyOf[r]

BeginCreate(c, r) ==
    /\ ~Exists(r)
    /\ KeyUnused(r)
    /\ SessionFree(r)
    /\ MayInsert(c, r)
    /\ BeginLocked(c, [NoTx EXCEPT !.op = "create", !.run = r, !.seq = events[r] + 1],
                   {TheRun(r)})
-----------------------------------------------------------------------------
(* Acquiring locks *)

\* _validate_checkpoint_sequence: the worker's next number follows the last one.
FollowsLast(w, r) == copy[w].sequence = checkpoints[r].sequence

\* Mutation: transition_run's UPDATE does not look at the version again.
RunPasses_NoRecheck(c, r) ==
    LET t == tx[c]
        row == runs[r]
    IN
    /\ t.op \in {"checkpoint", "finish", "interrupt", "decide"} => row.version = t.ver
    /\ t.op = "checkpoint" => row.status = "RUNNING" /\ FollowsLast(c[2], r)
    /\ t.op \in {"finish", "interrupt"} => CanTransition(row.status, t.target)
    /\ t.op = "decide" => CanTransition(row.status, "QUEUED")

RunPasses(c, r) ==
    LET t == tx[c]
        row == runs[r]
    IN
    /\ t.op \in {"checkpoint", "finish", "interrupt", "transition", "decide"} => row.version = t.ver
    /\ t.op = "checkpoint" => row.status = "RUNNING" /\ FollowsLast(c[2], r)
    /\ t.op \in {"finish", "interrupt"} => CanTransition(row.status, t.target)
    /\ t.op = "decide" => CanTransition(row.status, "QUEUED")

Passes(c, l) ==
    LET t == tx[c] IN
    CASE l[1] = "lease" ->
             t.op \in {"checkpoint", "finish", "renew"} => RequiredLease(t.run, c[2], t.token)
      [] l[1] = "run" -> RunPasses(c, t.run)
      [] l[1] = "interrupt" -> interrupts[t.int].decision = "none"

\* Mutation: claim_next takes over an existing lease row with its token.
Remember_SameToken(c, l) ==
    LET t == tx[c]
        token == leases[t.run].token
    IN
    CASE l[1] = "run" -> [t EXCEPT
             !.row = IF t.op \in {"transition", "prepare"} THEN @ ELSE runs[t.run],
             !.seq = (IF t.op = "prepare" THEN invoked[t.run] ELSE events[t.run]) + 1]
      [] l[1] = "lease" /\ t.op = "claim" -> [t EXCEPT !.token = IF token = 0 THEN 1 ELSE token]
      [] OTHER -> t

\* What a transaction remembers of a row that it has just locked.
Remember(c, l) ==
    LET t == tx[c] IN
    CASE l[1] = "run" -> [t EXCEPT
             !.row = IF t.op \in {"transition", "prepare"} THEN @ ELSE runs[t.run],
             !.seq = (IF t.op = "prepare" THEN invoked[t.run] ELSE events[t.run]) + 1]
      [] l[1] = "lease" /\ t.op = "claim" -> [t EXCEPT !.token = leases[t.run].token + 1]
      [] OTHER -> t

Unlocked(c) == [l \in Lockable |-> IF lock[l] = c THEN Nobody ELSE lock[l]]

\* After an exception the worker fails its claim; an exception while it does so
\* ends the claim (a ConflictError) or the process (any other error).
AfterRollback(c) ==
    IF c[1] # "main" \/ copy[c[2]].run = Nobody THEN copy
    ELSE IF copy[c[2]].failing THEN [copy EXCEPT ![c[2]] = NoClaim]
         ELSE [copy EXCEPT ![c[2]].failing = TRUE]

\* Mutation: the connection goes back to its pool with the transaction open.
Rollback_KeepsLocks(c) ==
    /\ tx' = [tx EXCEPT ![c] = NoTx]
    /\ copy' = AfterRollback(c)
    /\ UNCHANGED <<storeVars, lock, invoked>>

Rollback(c) ==
    /\ tx' = [tx EXCEPT ![c] = NoTx]
    /\ lock' = Unlocked(c)
    /\ copy' = AfterRollback(c)
    /\ UNCHANGED <<storeVars, invoked>>

\* Mutation: _append_event numbers its event without locking the run.
Grantable_NoEventLock(c, l) == lock[l] \in {Nobody, c} \/ tx[c].op = "event"

Grantable(c, l) == lock[l] \in {Nobody, c}

Acquire(c) ==
    /\ tx[c].todo # <<>>
    /\ LET l == Head(tx[c].todo) IN
       /\ Grantable(c, l)
       /\ IF Passes(c, l)
          THEN /\ lock' = [lock EXCEPT ![l] = c]
               /\ tx' = [tx EXCEPT ![c] = [Remember(c, l) EXCEPT !.todo = Tail(@)]]
               /\ UNCHANGED <<storeVars, copy, invoked>>
          ELSE Rollback(c)

\* PostgreSQL's deadlock detector: some transaction of the cycle is rolled back.
WaitsFor(c) ==
    IF tx[c].todo = <<>> THEN {} ELSE {lock[Head(tx[c].todo)]} \ {Nobody, c}

Deadlocked ==
    UNION {S \in SUBSET Conn :
              \A c \in S : /\ WaitsFor(c) \cap S # {}
                           /\ \E d \in S : c \in WaitsFor(d)}

DeadlockAbort(c) == c \in Deadlocked /\ Rollback(c)

\* The connection is lost, or the process with it.
Disconnect(c) == tx[c] # NoTx /\ Rollback(c)

Killed(w) ==
    /\ copy[w].run # Nobody
    /\ tx' = [tx EXCEPT ![<<"main", w>>] = NoTx, ![<<"beat", w>>] = NoTx]
    /\ lock' = [l \in Lockable |->
                   IF lock[l] \in {<<"main", w>>, <<"beat", w>>} THEN Nobody ELSE lock[l]]
    /\ copy' = [copy EXCEPT ![w] = NoClaim]
    /\ UNCHANGED <<storeVars, invoked>>
-----------------------------------------------------------------------------
(* Committing *)

Commits(c, op) == tx[c].op = op /\ tx[c].todo = <<>>

End(c) ==
    /\ tx' = [tx EXCEPT ![c] = NoTx]
    /\ lock' = Unlocked(c)

\* _append_event: one more than the MAX(sequence) read under the run's lock.
WithEvent(t) == [events EXCEPT ![t.run] = t.seq]

WithRow(t, row) == [runs EXCEPT ![t.run] = row]

\* _insert_checkpoint; the plan of this model has one node.
WithCheckpoint(t, s) ==
    [checkpoints EXCEPT ![t.run] = [sequence |-> s, state |-> t.target, next |-> Done]]

CommitCreate(c) ==
    /\ Commits(c, "create")
    /\ runs' = WithRow(tx[c], Inserted(runs[tx[c].run]))
    /\ events' = WithEvent(tx[c])
    /\ End(c)
    /\ UNCHANGED <<leases, checkpoints, interrupts, copy, invoked>>

CommitClaim(c) ==
    LET t == tx[c] IN
    /\ Commits(c, "claim")
    /\ runs' = WithRow(t, Moved(t.row, "RUNNING"))
    /\ leases' = [leases EXCEPT ![t.run] = [active |-> TRUE, holder |-> c[2],
                                            token |-> t.token, ttl |-> LeaseTicks]]
    /\ events' = WithEvent(t)
    /\ copy' = [copy EXCEPT ![c[2]] =
                   [run |-> t.run, token |-> t.token, version |-> t.row.version + 1,
                    sequence |-> checkpoints[t.run].sequence, failing |-> FALSE]]
    /\ End(c)
    /\ UNCHANGED <<checkpoints, interrupts, invoked>>

\* The step's result is some state.
CommitStep(c) ==
    LET t == tx[c]
        s == copy[c[2]].sequence + 1
    IN
    /\ Commits(c, "checkpoint")
    /\ checkpoints' = WithCheckpoint(t, s)
    /\ runs' = WithRow(t, Advanced(t.row, t.target, Done))
    /\ events' = WithEvent(t)
    /\ copy' = [copy EXCEPT ![c[2]].version = t.row.version + 1, ![c[2]].sequence = s]
    /\ End(c)
    /\ UNCHANGED <<leases, interrupts, invoked>>

CommitFinish(c) ==
    LET t == tx[c] IN
    /\ Commits(c, "finish")
    /\ runs' = WithRow(t, Moved(t.row, t.target))
    /\ leases' = Released(t.run)
    /\ events' = WithEvent(t)
    /\ copy' = [copy EXCEPT ![c[2]] = NoClaim]
    /\ End(c)
    /\ UNCHANGED <<checkpoints, interrupts, invoked>>

CommitInterrupt(c) ==
    LET t == tx[c] IN
    /\ Commits(c, "interrupt")
    /\ interrupts[t.int].run = Nobody
    /\ \E ttl \in {NoDeadline} \cup 1..IntTicks :
           interrupts' = [interrupts EXCEPT ![t.int] =
                             [run |-> t.run, key |-> <<Done, 0>>, decision |-> "none", ttl |-> ttl]]
    /\ runs' = WithRow(t, Moved(t.row, "WAITING"))
    /\ leases' = Released(t.run)
    /\ events' = WithEvent(t)
    /\ copy' = [copy EXCEPT ![c[2]] = NoClaim]
    /\ End(c)
    /\ UNCHANGED <<checkpoints, invoked>>

CommitDecide(c) ==
    LET t == tx[c] IN
    /\ Commits(c, "decide")
    /\ interrupts' = [interrupts EXCEPT ![t.int] = Decided(@, t.target)]
    /\ runs' = WithRow(t, Moved(t.row, "QUEUED"))
    /\ events' = WithEvent(t)
    /\ End(c)
    /\ UNCHANGED <<leases, checkpoints, copy, invoked>>

CommitTransition(c) ==
    LET t == tx[c] IN
    /\ Commits(c, "transition")
    /\ runs' = WithRow(t, Moved(t.row, t.target))
    /\ events' = WithEvent(t)
    /\ End(c)
    /\ UNCHANGED <<leases, checkpoints, interrupts, copy, invoked>>

CommitRenew(c) ==
    /\ Commits(c, "renew")
    /\ leases' = [leases EXCEPT ![tx[c].run] = Renewed(@)]
    /\ End(c)
    /\ UNCHANGED <<runs, checkpoints, interrupts, events, copy, invoked>>

CommitEvent(c) ==
    /\ Commits(c, "event")
    /\ events' = WithEvent(tx[c])
    /\ End(c)
    /\ UNCHANGED <<runs, leases, checkpoints, interrupts, copy, invoked>>

\* PostgresEffectLedger.prepare with a new key.
CommitPrepare(c) ==
    /\ Commits(c, "prepare")
    /\ invoked' = [invoked EXCEPT ![tx[c].run] = tx[c].seq]
    /\ End(c)
    /\ UNCHANGED <<storeVars, copy>>

CommitRequeue(c) ==
    LET S == tx[c].rows IN
    /\ Commits(c, "requeue")
    /\ runs' = [r \in Run |->
                   IF r \in S /\ runs[r].status = "RUNNING" THEN Moved(runs[r], "QUEUED") ELSE runs[r]]
    /\ leases' = [r \in Run |-> IF r \in S THEN Deactivated(leases[r]) ELSE leases[r]]
    /\ events' = [r \in Run |->
                     IF r \in S /\ runs[r].status = "RUNNING" THEN events[r] + 1 ELSE events[r]]
    /\ End(c)
    /\ UNCHANGED <<checkpoints, interrupts, copy, invoked>>

CommitExpire(c) ==
    LET S == tx[c].rows
        Out(r) == runs[r].status = "WAITING" /\ \E i \in S : interrupts[i].run = r
    IN
    /\ Commits(c, "expire")
    /\ interrupts' = [i \in Interrupt |->
                         IF i \in S THEN Decided(interrupts[i], "reject") ELSE interrupts[i]]
    /\ runs' = [r \in Run |-> IF Out(r) THEN Moved(runs[r], "TIMED_OUT") ELSE runs[r]]
    /\ events' = [r \in Run |-> IF Out(r) THEN events[r] + 1 ELSE events[r]]
    /\ End(c)
    /\ UNCHANGED <<leases, checkpoints, copy, invoked>>
-----------------------------------------------------------------------------
BeginWorker(w) ==
    \/ BeginStep(w) \/ BeginFail(w) \/ BeginRenew(w) \/ BeginRequeue(w) \/ BeginExpire(w)
    \/ \E r \in Run : \/ BeginClaim(w, r)
                      \/ /\ copy[w].run = Nobody
                         /\ runs[r].status = "RUNNING"
                         /\ BeginTransition(<<"main", w>>, r, "NEEDS_REVIEW")

BeginApi(c) ==
    \/ \E r \in Run : \/ BeginCreate(c, r)
                      \/ BeginTransition(c, r, "CANCELLED")
                      \/ runs[r].status = "NEEDS_REVIEW" /\ BeginTransition(c, r, "QUEUED")
    \/ \E i \in Interrupt, d \in Decisions : BeginDecide(c, i, d)

Commit(c) ==
    \/ CommitCreate(c) \/ CommitClaim(c) \/ CommitStep(c) \/ CommitFinish(c)
    \/ CommitInterrupt(c) \/ CommitDecide(c) \/ CommitTransition(c) \/ CommitRenew(c)
    \/ CommitEvent(c) \/ CommitPrepare(c) \/ CommitRequeue(c) \/ CommitExpire(c)

PgNext ==
    \/ \E w \in Worker : BeginWorker(w) \/ Killed(w)
    \/ \E a \in Api : BeginApi(<<"api", a>>)
    \/ \E c \in Conn : Acquire(c) \/ Commit(c) \/ DeadlockAbort(c) \/ Disconnect(c)
    \/ StoreTick /\ UNCHANGED pgVars

PgSpec == PgInit /\ [][PgNext]_allVars
-----------------------------------------------------------------------------
(* Correctness *)

\* Locks are held by open transactions only, and a claim in a worker's memory
\* names a run and a token that was once granted.
PgTypeOK ==
    /\ StoreTypeOK
    /\ lock \in [Lockable -> Conn \cup {Nobody}]
    /\ \A l \in Lockable : lock[l] # Nobody => tx[lock[l]] # NoTx
    /\ \A c \in Conn : tx[c].run \in Run \cup {Nobody} /\ tx[c].todo \in Seq(Lockable)
    /\ \A w \in Worker : copy[w].run # Nobody => copy[w].token \in 1..leases[copy[w].run].token
    /\ invoked \in [Run -> Nat]

\* _append_event and prepare number their rows with MAX + 1 under the run's lock:
\* no number is given twice and none is left out, so no insert ever fails on the
\* primary key (run_id, sequence).
SequencesAreFresh ==
    [][\A r \in Run : /\ events'[r] \in {events[r], events[r] + 1}
                      /\ invoked'[r] \in {invoked[r], invoked[r] + 1}
                      /\ runs'[r] # runs[r] => events'[r] = events[r] + 1]_allVars

\* claim_next and create_interrupt lock the run before the lease, commit_checkpoint
\* and finish_claim the lease before the run.  They meet in a deadlock only over a
\* run that an operator has resumed from review while the worker that had it still
\* holds its lease.
OnlyResumedRunsDeadlock ==
    \A c \in Deadlocked :
        /\ tx[c].op \in {"claim", "finish", "checkpoint"}
        /\ runs[tx[c].run].status = "QUEUED"
        /\ leases[tx[c].run].active
=============================================================================
