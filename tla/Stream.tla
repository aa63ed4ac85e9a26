------------------------------- MODULE Stream -------------------------------
(* Streams: queues of operations with a worker thread each, over sandboxes of *)
(* the OpenSandbox backend.  A caller puts an operation while it holds the    *)
(* stream's lock, and waits for room in a bounded queue with the lock held.   *)
(* The worker hands calls to the sandbox one after the other, signals events  *)
(* and waits for the events of other streams; an error that is no Exception   *)
(* ends it, after it has failed what is queued.                               *)
EXTENDS OpenSandbox

CONSTANTS
    StreamObj,   \* streams
    BoxOf,       \* BoxOf[q]: the sandbox object of stream q
    Stop,        \* the None that ends a worker
    Buffer,      \* room in a queue, 0 for no bound
    MaxFatal     \* bound on fatal errors in dispatches

ASSUME StreamConstants ==
    /\ Op \subseteq Nat /\ Stop \notin Op \cup {NoOp} /\ BoxOf \in [StreamObj -> Client]
    /\ Buffer \in Nat /\ MaxFatal \in Nat

VARIABLES
    queue,      \* queue[q]: operations and Stop
    putting,    \* putting[q]: what is being put by the thread in q._lock
    isClosed,   \* _closed
    worker,     \* "none", "idle", "busy", "failing", "dead" or "ended"
    current,    \* the operation the worker is on
    job,        \* job[o]: [k, q, event], what operation o is
    settled,    \* settled[o]: what the future, or the waiter of a sync, has got
    signaled,   \* record operations whose event is set
    taken       \* taken[q]: calls in the order q accepted them

streamOnly == <<queue, putting, isClosed, worker, current, job, settled, signaled, taken>>
streamVars == <<openSandboxVars, streamOnly>>

StreamInit ==
    /\ OpenSandboxInit
    /\ queue = [q \in StreamObj |-> <<>>] /\ putting = [q \in StreamObj |-> NoOp]
    /\ isClosed = [q \in StreamObj |-> FALSE] /\ worker = [q \in StreamObj |-> "none"]
    /\ current = [q \in StreamObj |-> NoOp]
    /\ job = [o \in Op |-> [k |-> "none", q |-> CHOOSE q \in StreamObj : TRUE, event |-> NoOp]]
    /\ settled = [o \in Op |-> "open"] /\ signaled = {}
    /\ taken = [q \in StreamObj |-> <<>>]

-----------------------------------------------------------------------------
(* Callers *)

\* __enter__; a caller enters a stream once, a second time would start a second worker.
EnterStream(q) ==
    /\ worker[q] = "none" /\ ~isClosed[q]
    /\ worker' = [worker EXCEPT ![q] = "idle"]
    /\ UNCHANGED <<openSandboxVars, queue, putting, isClosed, current, job, settled, signaled, taken>>

\* The lock of q, _check_closed, and the put: a full queue keeps the caller, and the lock.
Room(q) == Buffer = 0 \/ Len(queue[q]) < Buffer

Enqueue(q, o) ==
    /\ putting[q] = NoOp /\ ~isClosed[q]
    /\ IF Room(q) THEN queue' = [queue EXCEPT ![q] = Append(@, o)] /\ UNCHANGED putting
       ELSE putting' = [putting EXCEPT ![q] = o] /\ UNCHANGED queue

\* Operations are numbered as they come.
New(o) == job[o].k = "none" /\ \A p \in Op : p < o => job[p].k # "none"
As(o, k, q, e) == job' = [job EXCEPT ![o] = [k |-> k, q |-> q, event |-> e]]

SubmitCall(q, o, kind, p) ==
    /\ New(o) /\ Enqueue(q, o) /\ As(o, "call", q, NoOp)
    /\ call' = [call EXCEPT ![o].kind = kind, ![o].path = p, ![o].x = BoxOf[q]]
    /\ taken' = [taken EXCEPT ![q] = Append(@, o)]
    /\ UNCHANGED <<client, running, natives, index, locks, requests, ran, effects,
                   isClosed, worker, current, settled, signaled>>

\* synchronize and record_event
SubmitMark(q, o, k) ==
    /\ New(o) /\ Enqueue(q, o) /\ As(o, k, q, NoOp)
    /\ UNCHANGED <<openSandboxVars, isClosed, worker, current, settled, signaled, taken>>

\* wait_event, on an event that record_event has returned; wait_stream is both.
WaitEvent(q, o, e) ==
    /\ New(o) /\ Enqueue(q, o) /\ As(o, "wait", q, e)
    /\ job[e].k = "record" /\ putting[job[e].q] # e
    /\ UNCHANGED <<openSandboxVars, isClosed, worker, current, settled, signaled, taken>>

\* __exit__; the caller then joins the worker for at most two minutes.
ExitStream(q) ==
    /\ Enqueue(q, Stop) /\ isClosed' = [isClosed EXCEPT ![q] = TRUE]
    /\ UNCHANGED <<openSandboxVars, worker, current, job, settled, signaled, taken>>

Put(q) ==
    /\ putting[q] # NoOp /\ Room(q)
    /\ queue' = [queue EXCEPT ![q] = Append(@, putting[q])]
    /\ putting' = [putting EXCEPT ![q] = NoOp]
    /\ UNCHANGED <<openSandboxVars, isClosed, worker, current, job, settled, signaled, taken>>

\* query
QueryIdle(q) == queue[q] = <<>> /\ worker[q] # "busy"

-----------------------------------------------------------------------------
(* The worker *)

\* A dispatch that raises leaves the future as it is.
FutureOf_OnlyResults(o) == IF call[o].out = "raised" THEN "open" ELSE "result"

\* What the future gets when the dispatch has ended; failures and timeouts are results.
FutureOf(o) == IF call[o].out = "raised" THEN "exception" ELSE "result"

Settle(o, how) == settled' = [settled EXCEPT ![o] = how]

\* _run and _handle: the worker takes the next operation.  It is busy with calls, which
\* it hands to the sandbox, and with waits.
WorkerGet(q) ==
    /\ worker[q] = "idle" /\ queue[q] # <<>>
    /\ queue' = [queue EXCEPT ![q] = Tail(@)]
    /\ LET o == Head(queue[q]) IN
       \/ /\ o = Stop /\ worker' = [worker EXCEPT ![q] = "ended"]
          /\ UNCHANGED <<openSandboxVars, current, settled, signaled>>
       \/ /\ o # Stop /\ job[o].k \in {"record", "sync"} /\ Settle(o, "result")
          /\ signaled' = IF job[o].k = "record" THEN signaled \cup {o} ELSE signaled
          /\ UNCHANGED <<openSandboxVars, worker, current>>
       \/ /\ o # Stop /\ job[o].k \in {"call", "wait"}
          /\ worker' = [worker EXCEPT ![q] = "busy"] /\ current' = [current EXCEPT ![q] = o]
          /\ IF job[o].k = "wait" THEN UNCHANGED openSandboxVars
             ELSE /\ ADispatchRemote(o, BoxOf[q], call[o].kind, call[o].path)
                  /\ UNCHANGED <<client, running, natives, index, ran, effects>>
          /\ UNCHANGED <<settled, signaled>>
    /\ UNCHANGED <<putting, isClosed, job, taken>>

\* The call has come back, or the event is set.
WorkerHandle(q) ==
    /\ worker[q] = "busy"
    /\ LET o == current[q] IN
       \/ job[o].k = "call" /\ call[o].st = "done" /\ Settle(o, FutureOf(o))
       \/ job[o].k = "wait" /\ job[o].event \in signaled /\ Settle(o, "result")
    /\ worker' = [worker EXCEPT ![q] = "idle"] /\ current' = [current EXCEPT ![q] = NoOp]
    /\ UNCHANGED <<openSandboxVars, queue, putting, isClosed, job, signaled, taken>>

\* A wait with a timeout.
WaitTimesOut(q) ==
    /\ worker[q] = "busy" /\ job[current[q]].k = "wait" /\ job[current[q]].event \notin signaled
    /\ Settle(current[q], "exception")
    /\ worker' = [worker EXCEPT ![q] = "idle"] /\ current' = [current EXCEPT ![q] = NoOp]
    /\ UNCHANGED <<openSandboxVars, queue, putting, isClosed, job, signaled, taken>>

Died == {q \in StreamObj : worker[q] \in {"failing", "dead"}}

\* The dispatch ends in an error that is no Exception: the future gets it and the worker
\* leaves its loop.  The call itself goes on in the loop of the runtime.
FatalError(q) ==
    /\ worker[q] = "busy" /\ job[current[q]].k = "call" /\ Cardinality(Died) < MaxFatal
    /\ Settle(current[q], "exception")
    /\ worker' = [worker EXCEPT ![q] = "failing"] /\ current' = [current EXCEPT ![q] = NoOp]
    /\ UNCHANGED <<openSandboxVars, queue, putting, isClosed, job, signaled, taken>>

\* _fail_remaining: events are dropped, everybody else is told.
FailRemaining(q) ==
    /\ worker[q] = "failing"
    /\ IF queue[q] = <<>> THEN worker' = [worker EXCEPT ![q] = "dead"] /\ UNCHANGED <<queue, settled>>
       ELSE LET o == Head(queue[q]) IN
            /\ queue' = [queue EXCEPT ![q] = Tail(@)]
            /\ \/ o = Stop /\ worker' = [worker EXCEPT ![q] = "dead"] /\ UNCHANGED settled
               \/ /\ o # Stop /\ UNCHANGED worker
                  /\ IF job[o].k = "record" THEN UNCHANGED settled
                     ELSE Settle(o, IF job[o].k = "sync" THEN "result" ELSE "exception")
    /\ UNCHANGED <<openSandboxVars, putting, isClosed, current, job, signaled, taken>>

WorkerStep(q) == WorkerGet(q) \/ WorkerHandle(q) \/ FailRemaining(q)

CallerNext ==
    \E q \in StreamObj :
      \/ EnterStream(q) \/ ExitStream(q)
      \/ \E o \in Op :
           \/ \E kind \in CallKinds, p \in Path :
                (kind = "write" \/ p = NoCall.path) /\ SubmitCall(q, o, kind, p)
           \/ \E k \in {"sync", "record"} : SubmitMark(q, o, k)
           \/ \E e \in Op : WaitEvent(q, o, e)

RemoteNext == (ClientNext \/ CallNext \/ ServiceNext) /\ UNCHANGED streamOnly

StreamNext ==
    \/ CallerNext \/ RemoteNext
    \/ \E q \in StreamObj : Put(q) \/ WorkerStep(q) \/ WaitTimesOut(q) \/ FatalError(q)

StreamSpec == StreamInit /\ [][StreamNext]_streamVars

\* Threads and the loop run; the service answers, or the client gives up.
WorkersRun == /\ \A q \in StreamObj : WF_streamVars(Put(q)) /\ WF_streamVars(WorkerStep(q))
              /\ \A c \in Op : /\ WF_streamVars(TakeLock(c) /\ UNCHANGED streamOnly)
                               /\ WF_streamVars((Answer(c) \/ TimeOut(c)) /\ UNCHANGED streamOnly)

-----------------------------------------------------------------------------
(* Properties *)

Occurs(o, k) == {i \in DOMAIN effects[k] : effects[k][i] = o}

\* Commands whose text has no print( in it, and file writes, once a stream has been told
\* that they were done.
Told(q) == {o \in Op : /\ job[o].k = "call" /\ job[o].q = q
                       /\ settled[o] = "result" /\ call[o].out = "ok"
                       /\ call[o].kind \in {"mutate", "write"}}

\* What a stream was told is done, and which no rule of the retries lets run again, was
\* done once, and before anything that a later call of the stream did, however slow the
\* service is, whatever other streams do on the same container, and whichever requests
\* are tried again (stream.py:197-205, opensandbox.py:253-275).
AnsweredInOrder ==
    \A q \in StreamObj : LET k == client[BoxOf[q]].at IN
      \A i, j \in DOMAIN taken[q] :
        LET a == taken[q][i]
            b == taken[q][j]
        IN a \in Told(q) =>
             /\ Cardinality(Occurs(a, k)) = 1
             /\ i < j => \A m \in Occurs(a, k), n \in Occurs(b, k) : m < n

\* opensandbox.py:263-265, "Mutating commands such as write_text must never execute
\* twice": no command that changes the container is run a second time.  One that also
\* prints is taken for a probe.
MutatingRunsOnce ==
    \A k \in Container, o \in Op :
      call[o].kind \in {"mutate", "printing"} => Cardinality(Occurs(o, k)) <= 1

\* opensandbox.py:21-22, "per-path locks serialise concurrent writes to the same file
\* inside one sandbox", and 649-651, eviction never breaks mutual exclusion: the backend
\* waits for one write of a path at a time.
PathsSerialised ==
    \A c, d \in {o \in Op : call[o].st = "sent" /\ call[o].kind = "write"} :
      c # d => call[c].path # call[d].path \/ client[call[c].x].at # client[call[d].x].at

\* Streams without a worker, and those whose worker waits for an event of one that is
\* stranded.
WaitsFor(q) ==
    {job[job[current[p]].event].q : p \in
        {p \in {q} : worker[p] = "busy" /\ job[current[p]].k = "wait" /\ job[current[p]].event \notin signaled}}
Stranded(q) ==
    \A all \in SUBSET StreamObj :
      (\A p \in StreamObj : worker[p] \in {"none", "dead"} \/ WaitsFor(p) \cap all # {} => p \in all)
        => q \in all

\* Whatever a stream has accepted is settled: no order of submits, events, waits of streams
\* for each other, full queues, closes and failed dispatches keeps it open, unless the
\* stream is stranded: its own worker is dead, or waits for a stream that is stranded.
OpsSettle ==
    \A o \in Op : (job[o].k # "none") ~> (settled[o] # "open" \/ Stranded(job[o].q))

\* stream.py:111-113, "Once __exit__ returns, ... every future the public methods returned
\* is either done or will fail ... (no hanging)", also when the worker hit a fatal
\* exception (117-120, 214-217): when a stream has been left and its worker is gone, so that
\* nobody is there to settle a future any more, no call is open.
NoHanging ==
    \A o \in Op :
      LET q == job[o].q IN
      job[o].k = "call" /\ isClosed[q] /\ putting[q] = NoOp /\ worker[q] \in {"ended", "dead"}
        => settled[o] # "open"
=============================================================================
