# OpenRath in TLA+

A TLA+ model of OpenRath: its durable runtime and both run stores, the server, the
agent loop with its sessions and files, and what runs and sessions hold on to
(sandboxes, memory, artifacts, configuration, the schema). It is model-checked
with TLC; the safety properties of the run stores, the runtime, the server, the
agent loop and all resources are also proved with TLAPS, for every instance.
Four runs show fourteen places where the code does not do what a comment, docstring,
test or document of the repository says. Paths below are relative to `src/src/rath/`.

## 1. The system

OpenRath runs agent workflows. A workflow class is compiled into an execution
plan; a *run* of a plan is stored in a database and executed node by node by
worker processes, which survive crashes by resuming from the last checkpoint.

| component | state | operations | hard behaviour | what makes it correct |
|---|---|---|---|---|
| Run store (`runtime/sqlite.py`, `runtime/postgres.py`) | tables runs, run_leases, checkpoints, interrupts, run_events | create, transition, claim, renew, commit, finish, interrupt, decide, expire, requeue | concurrent callers with stale versions and tokens; row locks; clocks | fencing, compare-and-swap, one active run per session, recoverability, fresh sequence numbers |
| Run life cycle (`runtime/models.py`) | status | transition table | | only the documented moves; terminal is final |
| Effect ledger (`runtime/effects.py`) | tool_invocations | prepare, dispatch, complete, fail, reconcile | a call whose outcome is unknown | no second effect of a non-idempotent call |
| Worker and local runtime (`runtime/local.py`, `runtime/execution.py`, `server/cli.py`) | in-memory copy of the claimed run | sweep, claim, execute, retry, heartbeat | crash anywhere, late heartbeat, takeover | progress; no lost or skipped step |
| Tool executor (`adapters/tool.py`) | none of its own | execute | crash between dispatch and completion | ledger and effect agree |
| Control API (`server/app.py`, `server/resources.py`) | sessions, assistants, feedback; the deployed revision | create run, cancel, resume, decide, list | several replicas; check in one transaction, insert in another | one run per key, bounded overshoot, right tenant and revision |
| Event stream (`server/app.py`, `client/remote.py`) | cursor | list, follow, resume | append between two reads, lost connections | every event, in order, in the end |
| Run signals (`runtime/signals.py`) | Redis stream | publish, receive | loss | only latency depends on it |
| Agent loop (`session/loop.py`, `_async/`) | rows, usage, the future of a lazy session | complete, dispatch tools, persist, cancel | parallel tools, threads that read the session meanwhile, cancellation | no lost update, every reader gets an answer |
| Session persistence (`session/persistence/`, `_async/awriter.py`) | partial and final file | write, close, abandon, load, prune | failing writes, torn lines, process death | a file is the transcript or a prefix of it |
| Sessions and sandboxes (`session/session.py`, `backend/`) | the slot of a session, counts, handles | to, fork, detach, merge, bind, close; open, dispatch, close | threads that open, bind and close at the same time, only the opening under a lock | counts are references |
| Streams and OpenSandbox (`backend/stream.py`, `backend/opensandbox.py`) | queues, locks, requests under way | submit, wait, synchronize; retry, time out | retries, eviction of locks, worker death | commands once and in order, futures settle |
| Memory (`memory/`) | bodies and cached vectors, blobs, commits | write, find, commit, import | a search between two file operations, crash | a kept vector is of the text beside it |
| Artifacts (`artifacts/`) | payloads and manifests | put, get, stat, delete | concurrent puts of one digest, crash | what was acknowledged stays |
| Configuration (`config/`, `persistence/manifest.py`) | two files, a cache | load, edit, save | load meets save | what was saved is read |
| Schema, revisions, evaluation data (`runtime/`, `deployment/`, `eval/`) | columns, rows | migrate, put, save | two processes migrate, one dies | an opened database is complete |
| Compiler and lineage graph (`definition/`, `session/graph/`) | plan, graph | compile, traverse, validate | cycles, shared nodes, unknown ids | the worklists compute the closure |
| LLM clients, security, observability, adapters | mostly conversion and I/O | | | |

The worker loop calls the store's three sweeps and `work_once`; `work_once`
claims a run, starts a heartbeat thread and calls `_execute_claim`, which calls
the step executor, which calls user code, which calls the tool executor (ledger)
or `context.interrupt` (store). The API handlers call the store directly. All
coordination between processes goes through the database. An agent (`flow/agent.py`)
injects memories, runs the session loop and commits the session to memory; the
loop's tools run in threads, use the session's sandbox and may read the session
itself while it is still being produced.

`PROJECT.json` lists all components and, under `hazards`, the places where this
code is hard to test, with the property that watches each.

## 2. Modules

| module | models |
|---|---|
| `RunLifecycle` | what a client may rely on: status and number of hand-outs of each run |
| `RunStore` | `SQLiteRunStore`: one action per mutating method |
| `EffectLedger` (extends `RunStore`) | `SQLiteEffectLedger` and the clock of its rows |
| `DurableRuntime` (extends `EffectLedger`) | worker loops, execution of a claim, tool calls, heartbeats, crashes, API handlers |
| `PostgresStore` (extends `RunStore`) | `PostgresRunStore`: transactions that lock rows one at a time |
| `AgentServer` (instantiates `RunLifecycle`) | replicas that create runs, pages, the event stream and its client |
| `SessionLog` | the session file: lines, writer, loader |
| `AgentLoop` (extends `SessionLog`) | the loop, its tools, the asynchronous writer, readers of the lazy session |
| `Sandbox` | sessions, their sandbox slots and the local backend, by threads |
| `OpenSandbox` | clients of the sandbox service: create, attach, calls, locks, retries, records |
| `Stream` (extends `OpenSandbox`) | streams of calls, events and waits |
| `Memory` | local memory stores and OpenViking's commit |
| `ArtifactStore` | the local and the S3 artifact store |
| `ConfigFiles` | the configuration's two files, cache and layout manifest |
| `RegistryTables` | migrations, revisions, evaluation data |
| `Traversals` | the compiler's and the lineage graph's worklists, step by step |
| `RunStoreProofs`, `DurableRuntimeProofs`, `PostgresStoreProofs`, `AgentServerProofs`, `AgentLoopProofs`, `SandboxProofs`, `StreamProofs` | TLAPS proofs about the modules they are named for |
| `ResourceProofs` | the same for `ArtifactStore`, `Memory`, `RegistryTables` and `ConfigFiles` |
| `MCRunStore`, `MCDurableRuntime`, `MCPostgresStore`, `MCAgentServer`, `MCAgentLoop`, `MCResources` | instances for TLC |
| `MCPromises` (extends `MCResources`) | lines of the repository that the code breaks, one after the other |

**RunStore.** Each method is one `BEGIN IMMEDIATE` transaction, so one action,
enabled exactly when the method commits a change; a call that raises or returns
an existing row is a stuttering step. `runs[r]` holds status, version, state and
the head of next_nodes; `leases[r]` the lease row (token 0: none yet);
`checkpoints[r]` the newest checkpoint; `interrupts[i]` the interrupt rows;
`events[r]` the highest event sequence. Deadlines are countdowns: `expires_at <=
now` is `ttl = 0`. `StoreNext` is an *open* system: any caller may call any method
at any time, with any worker id. A call that presents another version or token than
the row's changes nothing, so `StoreNext` presents the row's own. The only
restriction is which targets `transition_run` is called with, taken from its three
callers. `append_checkpoint`
has no caller and is left out.

**EffectLedger.** One row per invocation. A node calls at most one tool, so the
node stands for the tool name and the arguments digest. `age` counts up to
`GraceTicks`, where `reconcile_stale` sees the row.

**DurableRuntime.** One action is one transaction or one external call. `wk[w]`
is the memory of a worker process: program counter, its copy of the run, its
fencing token, the checkpoint sequence it read, the invocation in hand. All of it
may be stale when used. The actions follow the source:
`SweepInterrupts`, `SweepEffects`/`ReviewRead`/`ReviewFlag`, `SweepLeases`,
`Claim` are the worker loop; `CheckDurable`, `LoadCheckpoint`, `StepReturns`,
`Commit`, `Finish` are `_execute_claim`; `AskInterrupt`/`Suspend` are
`request_interrupt`; `PrepareCall` to `RejectOutput` are `ToolExecutor.execute`;
`AttemptFailed` is the step executor's retry; `HandleException`/`FailRun` are the
except clause of `work_once`; `Heartbeat` is the heartbeat thread, which ends for
good on its first exception. API handlers are a read followed by a
compare-and-swap (`CancelRead`/`CancelWrite` and so on); `Refused` is a failed
one or a client that went away. `applied[r][n]` counts the external effects of
a node's tool call; the code cannot see it.

User code is abstracted: the state is the set of nodes whose step has been
applied to it, so that a lost or skipped step shows. A step may raise at any
point, time out, or return an invalid result.

**PostgresStore.** A transaction begins with the unlocked reads of its caller,
acquires the rows of `LockOrder` one by one (`Acquire`), checking what the method
checks when it gets each, and commits all its writes in one step. `claim_next` and
the sweeps take their first locks when they begin, skipping locked rows; a sweep
keeps the lock of a row whose partner it had to skip. `transition_run` reads
without a lock and is saved by the version in its `UPDATE`. A failed check, a lost
connection, a killed process and PostgreSQL's deadlock detector roll back. Each
worker has a main connection and a heartbeat connection; `copy[w]` is the claim in
its memory.

**AgentServer.** A handler runs without interruption in its replica, but each of
its store calls is a transaction: `CheckCreate` and `Submit` are interleaved with
other replicas, `ListEvents` and `ReadStatus` with the workers. Workers are the
abstract life cycle of `RunLifecycle` only, which `RunStore` is proved to
implement. `Redeploy` replaces a replica by one that serves the next revision.

**SessionLog, AgentLoop.** A file is a sequence of lines (header, chunk, trailer,
torn). The loop is one coroutine; its tools, the writer's threads and the readers
interleave with it. A reply is a stream of deltas that `Response` puts together as
`_accumulate_stream_to_response` does, so fragments and late names of tool calls are
real. A tool's body edits a resource in two steps (read, write), reads its own
session, or starts a loop on it. `Cancel` is `drain`; the drain task's last write
may go on after it (`OrphanWrite`).

**Sandbox.** `todo[t]` holds the remaining steps of the operation a thread is in:
one step per lock region, backend call or assignment. `Compress` and `Forward` are
the two operations outside `session.py` that make sessions; that the compressed
session may be written to a file is not part of this module. Any operation may start
while any other is under way on the same session, as in the code, whose only lock is
taken by `_ensure_sandbox`; a session that is being made is not in a caller's hands yet
(`Usable`). `close_sandbox` reads its slot once here, at the start. `spoilt` is a
history: the sandboxes that a session named while two threads changed its slot without
a lock, or when a `bind_sandbox` raised.

**OpenSandbox, Stream.** A request at the service runs when the service likes
(`Serve`), also after the client has given up. `execLock` and `fsTable` are the
locks per handle and per path, the second a table of bounded size; a lock that was
released with somebody in line is free until that one takes it, as in asyncio. Commands
are of three kinds: `mutate` changes the container, `probe` prints only, and `printing`
does both, so that its text makes the client run it again. A stream is a
bounded queue with one worker; events that are waited for come from
`record_event`, and a stream is entered once.

**Memory, ArtifactStore, ConfigFiles, RegistryTables.** One action is one file
operation or one SQL statement. A text is the number of the write that made it; a
vector is the number of the text it was computed from. `excuse`, `cut`, `acked` and
`raced` are histories of the disturbances that the passing properties except; where the
repository claims those cases as well, a run of its own states the claim and shows it
violated (section 3). An artifact's put is `acked` when no delete of it was under way
since it began. A cache entry is `raced` when a file was written between its load's
read and the stamp the load kept, or later without a new stamp. `ConfigFiles` is one
process with several threads, each with store objects of its own or shared from the
cache. In `RegistryTables` a migration of PostgreSQL adds only what its file adds and
skips files that are recorded; `VerifySchema` looks at what `verify_schema` looks at;
`OpenUnchecked` is a store without `auto_migrate`, which looks at nothing. A put of a
revision compares the content it finds under the id.

**Traversals.** Each step is one turn of a worklist. The graph is chosen at the
start and may have cycles, repeated edges and unknown ids. `descendants_dfs_preorder`
has no visited set: below a cycle its loop goes on for ever, and the model cuts it off
after `MaxWalk` turns without an answer. `_visit` is recursive, and may fail at any depth
from `RecursionLimit` on (`RecursionError`).

Operators named `X_...` are deliberate mutations of `X`. No specification uses
them; each shows that some property notices that mistake.

## 3. Runs

| run | spec | instance | shows |
|---|---|---|---|
| `store` | `StoreSpec` | 3 runs (two share a session, two share a key), 2 workers, 2 interrupts, at most 6 versions in total | the nine store properties |
| `ownership` | `Spec` | 1 run, 2 workers, plan ask -> call with no checkpoint after ask, an interrupt with or without deadline, cancel and decide requests, 1 late heartbeat | ownership, committed path, refinement of the store |
| `effects` | `Spec` | keyed non-idempotent call, 2 attempts per step, 1 crash, 2 late heartbeats, resume requests | at most one effect; success is confirmed |
| `liveness` | `FairSpec` | interrupt and idempotent call, 2 attempts, 1 crash, cancel requests | runs settle, deadlines are kept, cancelled runs are dropped |
| `postgres` | `PgSpec` | 1 run, 2 workers with 2 connections each, 1 API connection, 1 interrupt, at most 4 versions | the store's transactions lose no update, number events without gaps, implement the life cycle, deadlock in one situation only |
| `server` | `MCSpec` | 2 replicas, 2 tenants, 3 sessions, 3 runs, 1 alias, 2 revisions, 2 lost connections, pages of one | bounded overshoot, tenants and revisions, retries, readers, followers |
| `session` | `MCSpec` | 2 rounds with up to 2 parallel calls, queue of 1, 1 failing write, 1 prune, 2 readers, cancellation and death anywhere | the transcript on disk, no lost update, the budget, every read returns |
| `resources` | `Spec` | one focus per behaviour, see below | sandboxes, streams, memory, artifacts, configuration, tables, traversals |
| `promises` | `PromiseSpec` | sharing by 2 threads, memory with 1 thread and no crash, artifacts and configuration without a fault, a legacy SQLite database, 5 streams with 6 calls | nine documented promises that the code breaks |
| `loop_promises` | `PromiseSpec` | a crash, then a failing write, then a tool that runs a loop on its own session | three documented promises that the code breaks |
| `replay` | `Spec` | unkeyed non-idempotent call, 1 crash, lease as long as the grace period (the defaults: 30 s each) | a documented promise that the code breaks |
| `review` | `Spec` | keyed call, no fault at all, a tool slower than the grace period | a documented promise that the code breaks |

Properties of `store`: `RunningIsRecoverable` (a RUNNING run has an active lease,
so the sweep finds it), `OneOpenQuestion` (a waiting run has exactly one undecided
interrupt and no lease holder), `ResumesAtCheckpoint`, `RunsAreUnique` (one active
run per session, one run per key), `PastIsFinal` (finished runs and recorded
decisions never change), `EveryChangeBumpsVersion`, `NewHolderNewToken`,
`ImplementsLifecycle` and the type invariant.

`CurrentCopyHoldsLease` is the central property of `ownership`: a worker whose
copy of the run carries the stored version is the newest holder and the run is
RUNNING. It is why `create_interrupt`, which does not look at the lease, is
nevertheless safe. `ImplementsStore` says that whatever the processes do, the
tables change only as the open store allows; so everything proved of the store
holds of the running system (and this, too, is proved, see section 4).

Properties of the other runs:

* `postgres`: `OnlyResumedRunsDeadlock`: `claim_next` and `create_interrupt` lock
  the run before the lease, `commit_checkpoint` and `finish_claim` the lease before
  the run, and still only one situation lets them meet: an operator resumes a run
  under review while its former worker holds a live lease. `SequencesAreFresh`: no
  event or invocation number is given twice. `EveryChangeBumpsVersion` and
  `ImplementsLifecycle` are the store's own, now of interleaved transactions.
* `server`: `QueueOvershootBounded` (the limit is exceeded by one run for each
  further replica at most), `RunsBelongTogether`, `RetriesNameOneRun`,
  `ReadersMissNothing` (events and pages), `FollowerCatchesUp` (liveness: the
  stream may end before the last events; a client that resumes gets them. Not so
  one that repeats `?after=` without `follow=true`: its first page is always taken
  from `?after=`).
* `session`: `TranscriptOnDisk`, `NoLostUpdate`, `BudgetFiresOnce`, and the
  liveness property `ReadsReturn`.
* `resources`: `CountsAreReferences` (except for the `spoilt` sandboxes: the damage of an
  unlocked overlap reaches no other), `StaleVectorsExplained` (the list of causes is
  complete), `AckedArtifactsStay`, `ConfigIsKept`, `TablesAreSound`, `TraversalsAreRight`,
  `AnsweredInOrder` (of writes, and of commands without `print(`), and the liveness property `OpsSettle`: whatever a stream accepted is settled unless the stream
  is `Stranded`, its worker dead or waiting for an event of a stream that is stranded.

**Focus.** The components of `MCResources` share no state apart from a stream's
sandbox, so a behaviour chooses one `focus` and only that part moves; every
interleaving within the part is explored. `streams` is about queues, waits and
closing, `calls` about retries and locks, `clients` about opening and closing;
`memory` about texts and vectors, `resources` about stores and imports. At most one
call of a behaviour is neither a plain command nor a write.

**Promises.** A TLC run stops at the first violation. The two promise runs therefore
make one behaviour go through several situations, and let it leave each only after a
state that breaks what the repository says of it. `SomePromiseIsKept` and
`SomeLoopPromiseIsKept` say that at least one of the promises is true; the
counterexample breaks them all, in turn. Each promise is a definition of its own
beside the component (`EverySlotCounts`, `NoStaleSidecar`, `ManifestsHavePayloads`,
`CacheHitsAreCurrent`, `SavesAreWhole`, `DigestsAreFilled`, `MutatingRunsOnce`,
`NoHanging`, `PathsSerialised`; `OnlyTheRenameCloses`, `ErrorsLeaveNoTrailer`,
`ToolsEnd`). The components of `promises` share no state, so its `View` leaves out what
a finished one has left behind; `loop_promises` starts a new loop for each promise.

**Bounds.** One run suffices for the runtime: claims of different runs touch
disjoint rows, and the cross-run rules (sessions, keys, order of claims) are
checked and proved on the store. Two workers are enough for an old and a new
holder. A lease of one tick makes every interleaving of expiry with a step
possible. In `store`, `MaxVersions` = 6 versions are enough for create, claim,
interrupt, decide, claim, finish, and for a takeover. `MaxCrashes` and `MaxLate`
bound faults; every fault needs several steps to recover from, and the budget
allows a fault during recovery from another (`effects`).

Two replicas, two readers, two threads or two processes are the least that race;
three runs with a page size of one give pages two boundaries. A queue of one fills
with the first row. One failing write, fatal error, crash or prune may come at any
point (`Faulty` lets a write of the configuration fail). In `resources`, `MaxOps` = 4
operations on two sessions are two that overlap, one before to place or open and one
after; `RecursionLimit` = 2 is below the depth three nodes reach and `MaxWalk` = 6 above
what an acyclic walk of three nodes needs. In `postgres`, four versions are create, claim, interrupt or review, and
decide or resume, with both sweeps and a second claim.

**Deadlock.** The instances of `store`, `postgres` and `server` stop at their
bounds, a loop ends, and a caller of the resources may stop calling, so deadlock is
not checked there; `ReadsReturn` and `OpsSettle` say what must not wait for ever. In
the runtime a worker can always take a step of its loop; deadlock is
checked.

**Fairness.** `server`: the server runs its generator on, the client reads and
reconnects (`StreamFairness`). `session` and `loop_promises`: the event loop runs its tasks, threads run,
a free lock is taken; a provider answers or fails, because its client has a
time-out, and a tool returns unless it waits for its own session (`LoopFairness`).
`resources`: stream workers run, and a call is answered or times out
(`WorkersRun`); a command without a time-out is assumed to be answered. `liveness`:
workers: `worker_main` loops for ever and a killed
one is restarted by its supervisor; steps and tools return because handlers have
timeouts. Heartbeats: a daemon thread per claim. Clock: time passes. Nothing is
assumed of clients. `Tick` does not let a lease lapse while its heartbeat runs,
since the heartbeat period is a third of the lease, unless the late-heartbeat
budget is spent. Symmetry is not used in this run.

**Symmetry and view.** Workers (and interrupts in `store`) are interchangeable.
`events` is written and never read, so the runtime's `View` leaves it out.

### Disagreements with the documentation

In `promises`, in the order of the counterexample:

* `EverySlotCounts`: "Every `self.sandbox` slot counts as one reference"
  (`session/session.py:140`, and `backend/abc.py:53`). One thread's `to` or
  `close_sandbox` has released the old sandbox, another thread's `bind_sandbox` fills the
  slot, and the first empties it: a reference nobody will give back. One thread can break
  it too, with a longer way (`BindRaises`): `bind_sandbox` of a closed sandbox raises
  after it has released the old one, which the slot still names.
  `CountsAreReferences` shows that only the sandboxes that session named are affected, and
  that tools racing to open (`_ensure_sandbox`) do no harm to each other.
* `NoStaleSidecar`: "Stale embedding/meta sidecars must not persist past a content
  rewrite" (`memory/adapters/local.py:245`). The memos a commit extracts overwrite
  bodies without removing their `.vec` files, and a later search ranks the new text
  by the old vector. `StaleVectorsExplained` shows that this, a crash or a failing
  unlink between the two file operations and a search that meets a write are the only
  ways.
* `ManifestsHavePayloads`: "Atomic filesystem store" (`artifacts/store.py:147`). A put has
  found its payload, a delete removes both files and returns, the put writes its manifest
  and returns: `stat` finds the artifact and `get` raises.
* `SavesAreWhole`: "safe under concurrent writers" (`config/store.py:151`). Each file is
  replaced atomically and the pair is not; the lock is the object's own, and two objects
  of one path interleave. A process that is killed between the two files (`Restart`)
  does the same to "Atomically persist" (146).
* `CacheHitsAreCurrent`: "storing the post-load stamp is what makes the next cache hit
  valid" (`config/store.py:116`), "a save-then-load pair always re-reads from disk" (78).
  The files are read before a save writes them and the entry goes into the cache, under
  the stamp `config.json` has then, after the save has invalidated it: the old content is
  returned until the next save.
  `ConfigIsKept` shows that a load overtaken only after it took its stamp does no harm.
* `DigestsAreFilled`: "every mutation is transactional" (`runtime/sqlite.py:226`). The
  column `content_digest` is added by one statement and filled by another; a process
  killed in between leaves it empty for good, since the next migration finds the column.
* `MutatingRunsOnce`: "Mutating commands such as `write_text` must never execute twice"
  (`backend/opensandbox.py:263`). What may run again is told by `print(` in the text,
  which a command that changes something may contain as well.
* `NoHanging`: "(no hanging)" (`backend/stream.py:113`). After a fatal error the worker
  drains the queue once and ends; the stream still accepts calls, and closing it settles
  none of them.
* `PathsSerialised`: "per-path locks serialise concurrent writes to the same file"
  (`backend/opensandbox.py:21`). An `asyncio.Lock` that was released with a writer in line
  reads unlocked until that writer runs; a write of another path evicts it in that moment,
  and the next write of the path gets a new lock. Both then write at once.

In `loop_promises`:

* `OnlyTheRenameCloses`: a crash between the trailer and the rename leaves a file "that
  the loader treats as `closed=False`" (`session/persistence/writer.py:157`).
  `load_session` looks for the trailer and not at the name. `TranscriptOnDisk` shows that
  what it calls closed is nevertheless whole unless a write failed.
* `ErrorsLeaveNoTrailer`: "on exception the file is left without a trailer"
  (`session/loop.py:14`). When a write of the drain task failed, `aclose` writes the
  trailer and renames the file, and raises only then: rows are missing from a file that
  says closed.
* `ToolsEnd`: "A re-entrant `run_session_loop` call from inside a tool body
  raises cleanly" (`tests/integration/test_concurrency_e2e.py`).
  `run_session_loop` joins a lazy input with `synchronize()`, which does not look
  whether the caller is a tool of that very loop, as `chunk_table` does: the tool
  waits for the future that waits for the tool.

And two runs of their own:

* `replay`: `reconcile_stale_effects` documents that non-idempotent calls "are
  never replayed automatically and move their Run to NEEDS_REVIEW". A worker is
  killed after dispatch. Another worker has just passed `reconcile_effects` when
  the call becomes stale; with the default times the lease lapses in the same
  moment, its `requeue_expired_leases` requeues the run and it claims it. The
  reconciler finds no reason to stop, and without a key the call gets a new ledger
  row and is made again. With a stable key (`effects`) it is not.
* `review`: "Non-idempotent ambiguous outcomes stop in `NEEDS_REVIEW`". The tool
  is merely slow and its worker alive. The reconciler moves the run to
  NEEDS_REVIEW and leaves the lease active; the worker then fails its
  `ledger.complete`, and the except clause of `work_once`, which re-reads the
  version, moves the run to FAILED.

## 4. Proofs

Each theorem holds for every set of runs, workers, connections, replicas, tenants,
writers, threads or processes, every plan, every queue and page size and every budget
of faults; the runs of section 3 check the same properties on their small instances.

| module | theorem | states |
|---|---|---|
| `RunStoreProofs` | `StoreTypes` | `StoreTypeOK` |
| | `VersionsTellChanges` | `EveryChangeBumpsVersion` |
| | `SessionsAreExclusive`, `KeysAreUnique`, `RunsStayUnique` | `RunsAreUnique` and its halves |
| | `RunsResumeAtCheckpoints` | `ResumesAtCheckpoint` |
| | `FinishedRunsStay`, `DecisionsStay`, `ThePastStays` | `PastIsFinal` and its halves |
| | `TokensFence` | `NewHolderNewToken` |
| | `RunningRunsHaveLeases` | `RunningIsRecoverable` |
| | `WaitingRunsHaveOneQuestion` | `OneOpenQuestion` |
| | `StoreImplementsLifecycle` | `ImplementsLifecycle` |
| `DurableRuntimeProofs` | `RuntimeTypes`, `Fencing` | `RuntimeTypeOK` and the invariant behind the rest |
| | `CopiesAreFenced` | `CurrentCopyHoldsLease` |
| | `RuntimeImplementsStore` | `ImplementsStore` |
| | `RunsFollowThePlan` | `CommittedPath` |
| | `SuccessesAreConfirmed` | `SuccessIsConfirmed` |
| | `KeyedCallsHappenOnce` | `KeyedCallOnce` |
| `PostgresStoreProofs` | `PgTypes`, `LocksProtectReads` | `PgTypeOK` and the invariant behind the rest |
| | `DeadlocksAreOverResumedRuns` | `OnlyResumedRunsDeadlock` |
| | `NumbersAreFresh` | `SequencesAreFresh` |
| | `PgVersionsTellChanges` | `EveryChangeBumpsVersion` |
| | `PgImplementsLifecycle` | `ImplementsLifecycle` |
| `AgentServerProofs` | `CreateIsSound` | the invariant of run creation |
| | `TenantsStayApart` | `RunsBelongTogether` |
| | `RetriesAreIdempotent` | `RetriesNameOneRun` |
| | `OvershootIsBounded` | `QueueOvershootBounded` |
| | `NothingIsMissed` | `ReadersMissNothing` |
| `AgentLoopProofs` | `TranscriptsAreOnDisk` | `TranscriptOnDisk` |
| | `UpdatesAreKept` | `NoLostUpdate` |
| | `HookIsCalledOnce` | `BudgetFiresOnce` |
| `SandboxProofs` | `CountsHold` | `CountsAreReferences` |
| `StreamProofs` | `CallsAnsweredInOrder` | `AnsweredInOrder` |
| `ResourceProofs` | `AcknowledgedStays` | `AckedArtifactsStay` |
| | `StalenessHasNamedCauses` | `StaleVectorsExplained` |
| | `OpenedDatabasesAreSound` | `TablesAreSound` |
| | `ConfigurationIsKept` | `ConfigIsKept` |
| | `TraversalsCompute` | `TraversalsAreRight` |

### Assumptions

They are the named `ASSUME`s of the modules; TLC evaluates each of them.

* Names that stand for "none" (`Nobody`, `None`, `NoKey`, `NoObject`, `NoRow`,
  `Missing`, ...) are not values of the type they stand in for. Bounds are naturals, lease
  times positive, plan and request functions well typed.
* `PlanConstants`: the state is the set of steps done, and every run starts with none.
* `ServerConstants`: a deployment has finitely many replicas (the overshoot is their
  number). `ConfigAssumption`: finitely many threads and loaded objects, more objects
  than threads.
* `TablesAssumption`: rows, revisions and pairs of ids and names are different things.
* `StreamConstants`: operations are numbers, given out in the order they are submitted.
* `StreamsAreDeltas`: a stream is a list of deltas whose index and tokens are numbers or
  missing. What `Response` makes of it (a list of calls, and a natural number of tokens
  if it says one) is the lemma `ReplyTypes`. `FilesAreSequences`: the rows of the user
  session are a sequence, and `Missing` is no file.
* `TraversalAssumption`: the nodes are a list without repetition, `Unknown` is not one of
  them, and edges name nodes or `Unknown`.

### The inductive invariants

**Store.** Lemmas about single rows (`MovedRow`, `GrantedRow`, ...) say what an update
yields, so that the table proofs never look into records. `RunsMoveByRowSteps`,
`LeasesMoveByLeaseSteps`, `InterruptsMoveBySteps` and `OnlyCommitsAdvance` reduce the
next-state relation to what it can do to one row. `OneOpenQuestion` is inductive as
stated, but only because its halves lean on each other: a decision requeues a run only
if the run waits, which is so because undecided interrupts belong to waiting or
cancelled runs; and a worker cannot finish a waiting run, because nobody holds its
lease. The refinement of the life cycle needs the same fact: the table of `models.py`
allows WAITING -> FAILED, and no caller can take it. `DecisionsStay` needs the extra
invariant `UnaskedIsUndecided`.

**Runtime.** `FenceInv`: everything a worker or a control request remembers of a run
(`CopyFenced`, `SequenceFenced`, `FlagFenced`, `RequestInv`) has the shape
`Fenced(r, v, P)`: the version v it read is not above the stored one, and if it is the
stored one, P is still true. Every change of a row raises the version, so P can only be
lost together with the version; and each action writes with the version it presents.
From this the refinement `ImplementsStore` follows action by action. `PathInv` says that
the rows and the copies of executing workers lie on paths of the plan; `ConfirmInv`
that every call on them has had its effect and its SUCCEEDED row; `OnceInv` that a keyed
call has one ledger row, which is PREPARED only before the one dispatch, and that the
one worker at the handler has not had the effect yet.

**PostgreSQL.** `PgInv` has a part per kind of transaction (`ClaimTx`, `LeaseFirstTx`,
`InterruptTx`, `DecideTx`, `TransitionTx`, `SweepTx`, ...): what it has read of rows it
holds locked still is what the tables say, and what it has read without a lock is
compared again by version. `WritesUnderLocks` shows that no other connection can write
those rows. For deadlocks: in a cycle of two, one holds the run and waits for the lease
(`RunFirstWaits`) and the other the reverse (`LeaseFirstWaits`); the second has shown a
live lease, the first wants to claim a QUEUED run, and that is the one situation the
property names.

**Server.** `CreateInv`: the checks `create_run` made before its insert (`ChecksHold`)
still bound, type and scope what it will insert, though other replicas and deployments
ran in between; `QueueBounded` counts, with the runs no worker has had yet, the
requests that will add one. `StreamInv` places the cursor, the lines in flight
and the client's last event in the log; `PagerInv` says which runs a page boundary has passed.

**Agent loop.** `BudgetInv` adds the type of the usage. `DispatchInv` says that of the
calls with one key only the first that is not through may run, and what it has read of
the resource is still so. `TranscriptInv` has a part for the live
process: `Drained(w)` says that the queue holds the rows from w on in their order, with
the sentinel behind the last, the drain task or the thread it left behind has row w in
hand, and `FilesInv(w)` that the file is the header and the first w rows, with a trailer
once `close` has come to it; and a part for what a dead process leaves, `DiskInv`. The
theorem needs no bound on rows, queue or write errors; once a write failed the invariant
claims nothing of the file, and a value is not returned.

**Sandboxes.** `CountsAreReferences` alone is not inductive: whether a `release` is right
depends on what its thread saw in the slot some steps before. `SandboxInv` says of the
steps a thread has still to take (`Plans`) in which order they come, that they name
sessions and sandboxes that exist, and that a thread that gives a sandbox back will then
assign the slot; that who opens holds the lock (`Held`); that a session still to take its
sandbox over is in nobody else's hands (`Newborn`). Nothing keeps two threads from
changing one slot, so the invariant splits (`Clean`): either every sandbox that the
session's slot and pending steps name is spoilt (`Sullied`), or what every thread saw in
the slot is there still (`Good`) and no two threads are changing it. A session gets from
the second case into the first in the step that starts the overlap, and the sandboxes
outside `spoilt` are never counted by a step of a sullied session.

**Streams.** `AnsweredInOrder` relates three orders: of submits, of dispatches and of
effects at the container. `OrderInv` ties them together. `Numbered`: queues, the put that
waits behind a full one, and what a stream has taken are in the order of the submits.
`Handed`: as long as a worker lives, a call that has left its queue is done or is the one
the worker is on; hence `OneAtATime`, a call starts only when the earlier ones of its
stream are done. This part has to hold after a fatal error too, when the worker is dead
and its last call goes on at the service: nothing more is started then. `Traffic`: every
request and effect is of a call that was sent, to a container its client keeps for good,
and `OnceOnly`: a request of a command that must not run twice is its first, has not run
while it is under way, and has run once when it is answered. A late request, one whose
client gave up, can run after later calls; so `InTurn` is about calls that were answered.
Locks, their table and its eviction play no part: `AnsweredInOrder` holds without them,
because a stream has one call at a time; what the locks are for, `PathsSerialised`, fails. `CallMoves` covers every step of a call.

**Artifacts, memory, tables, configuration.** `ArtifactInv`: as long as no delete of its
key overlaps it, a put that has passed its check finds the payload it relies on, and no
other put takes it away. `MemoryInv`: in every store each difference of
text and vector has its excuse. `TablesInv` says, process by process, which columns it may
take for granted at its step of the migration, and that a missing digest is awaited by a
live process or excused by a dead one. `ConfigInv` (`LoaderInv`, `SaverInv`): what each
thread has read of the two files while others save, and whether the stamp it keeps can
still be the file's.

**Traversals.** `TraversalsAreRight` speaks of the answer when a walk has ended; the
invariant `GraphInv` says of every turn how far it is. In the compiler's walk what is
visited or waits lies in the closure, and the neighbours of what is visited are visited
or wait; when nothing waits the visited set is closed and therefore is the closure. For
the ancestors `InRings` says that the queue is the rest of ring k followed by part of
ring k + 1, so the answer never goes back to a nearer ring; a ring number never exceeds
the length of the answer, which is at most the number of nodes because no node is in it
twice, and that is why rings up to the number of nodes are all there are. The descendants'
stack and output name sessions below the root, the children of what is in the output are
in the output or on the stack, and as long as some descendant lies on a cycle, something
on the stack is above such a one or on it (`CycleAhead`): the stack never gets empty.
In the acyclicity check the gray nodes
are a path (`GrayPath`), so meeting one closes a cycle; black nodes have black parents
only and lie on no cycle. `Ring`, `Children` and `Distinct` are recursive functions;
what they compute is proved by induction all the same: `LeastNat` takes the least
counterexample from the library's theorem `WFMin` on well-founded relations, which is
about sets and not about operators; `Induction`, and `Recursion`, which says that such
a function has a solution, follow from it.

### Only model-checked

All liveness (`EveryRunSettles`, `DeadlinesAreKept`, `CancelledRunsAreDropped`,
`FollowerCatchesUp`, `ReadsReturn`, `OpsSettle`) and deadlock freedom: fairness and
ENABLED are out of the prover's reach. That a walk of `Traversals` ends is neither
checked nor proved; the theorem is about the walks that do.

## 5. Plan

Done: the modules, runs and theorems above; every safety property of the runs has its
theorem. The liveness properties and deadlock freedom stay with TLC.

## 6. Not modelled

Redis signals (they only shorten a poll). Authentication, policy, audit, HTTP
parsing, telemetry, the LLM clients' payloads, scores of searches, exports of the
lineage graph: conversion and I/O without control flow that depends on an earlier
call. The pool of PostgreSQL connections: a transaction that waits for one has not
begun. `append_checkpoint` and `ensure_session` have no caller. Two interrupts in
one step, and more than one tool call per step of a run, are not modelled: the code
identifies both by the node and the checkpoint sequence or by the caller's key. The
exit handler that stops the event loop is a crash in the model: a loop it stops
leaves a partial file. A stream that is entered twice, an event that no stream
records and a budget callback that reads its own session are misuse and left out.

## 7. Weak spots without a property

The hazards in `PROJECT.json` are the ones the properties aim at. These places are
weak as well; the models contain them where it says so, and no property forbids
them, because the code claims nothing there.

| Place | What happens |
|---|---|
| `artifacts/store.py:332` | A failed manifest upload deletes a payload that an earlier put of the same content acknowledged (`S3PutCleanup`; `AckedArtifactsStay` excepts it). |
| `backend/abc.py:97` | A sandbox is acquired between the count reaching zero and the close (modelled; `CountsAreReferences` speaks of open sandboxes). |
| `backend/opensandbox.py:312`, `:620` | `code.run` is repeated after a time-out while the first execution may still run (`TryAgain`); a create that timed out or a kill that failed leaves a container behind. |
| `backend/persistence/registry.py:203` | `touch_remote` brings back a record another process has deleted (`TouchRemote`). |
| `config/store.py:111` | `load` hands out the cached object, so unsaved edits are shared (`Edit`). |
| `flow/agent.py:150` | The fork that carries recalled memories holds the sandbox and is never released (`Forward`). |
| `memory/adapters/openviking.py:264` | A commit that fails half-way leaves messages that a repeated commit adds again (`VikingAdd`, `VikingFails`). |
| `persistence/manifest.py:88` | An older release overwrites the layout version of a newer one (`NewerRelease`, `EnsureManifest`). |
| `session/persistence/loader.py:294` | `prune_sessions` deletes the partial file of a live session (`Prune`; `TranscriptOnDisk` excepts it). |
| `_async/aloop.py:396` | A seed row that cannot be written leaves the writer open and its drain task waiting (`BeginFails` models the failure, not the leak). |
| `session/graph/traverse.py:86` | `descendants_dfs_preorder` does not return when there is a cycle below its root (modelled; `TraversalsAreRight` says that it returns only where there is none). |
| `runtime/local.py:356` | Two `context.interrupt` calls in one step share the key of node and checkpoint: the second gets the decision of the first (not modelled: a node interrupts once). |
| `session/loop.py:293` | A budget callback that reads its own session waits for the loop (not modelled). |
