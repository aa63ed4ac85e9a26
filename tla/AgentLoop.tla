------------------------------ MODULE AgentLoop ------------------------------
(* One run_session_loop: the coroutine _arun_session_loop on the runtime's    *)
(* event loop, the tools it dispatches to worker threads, the drain task and  *)
(* the threads of its asynchronous session writer, the threads of the caller  *)
(* that read the lazy session it returned, cancellation by the runtime's      *)
(* drain, and the death of the process at any moment.                         *)
(*                                                                            *)
(* Code between two awaits is one step.  What a tool does to a resource takes *)
(* two: it reads the resource when it starts and writes it when it ends.      *)
EXTENDS SessionLog

CONSTANTS
    Streams,         \* replies of the provider: sequences of deltas
    WholeArguments,  \* argument texts (sequences of fragments) that parse
    Tools,           \* names (sequences of fragments) in the tool table
    KeyOf,           \* resource_key of a name and its arguments; NoKey: it raises
    Body,            \* Body[name]: "plain", "reads" or "nests"
    Seeds,           \* the rows of the user session
    Reader,          \* threads that read out.chunk_table
    MaxToolRounds,
    MaxAttempts,     \* retry_max_attempts of the provider
    QueueSize,       \* maxsize of the writer's queue
    Cap,             \* budget_total_tokens
    AbortOnBudget,   \* on_budget_exceeded raises
    None, NoKey,
    MaxWriteErrors, MaxPrunes    \* bounds

ASSUME LoopConstants ==
    /\ MaxToolRounds \in Nat \ {0} /\ MaxAttempts \in Nat /\ QueueSize \in Nat \ {0} /\ Cap \in Nat
    /\ MaxWriteErrors \in Nat /\ MaxPrunes \in Nat /\ AbortOnBudget \in BOOLEAN
    /\ DOMAIN KeyOf = Tools \X WholeArguments /\ DOMAIN Body = Tools
    /\ None \notin Nat

VARIABLES
    persist,         \* whether the loop writes a session file
    pc,              \* where the coroutine is
    waiting,         \* it awaits room in the writer's queue
    attempts,        \* failed attempts of the call to the provider in hand
    rounds, finished,   \* rounds used; a reply said stop, length or content_filter
    calls,           \* tool calls of the current reply
    tool,            \* tool[i]: state of call i
    seen,            \* seen[i]: what tool i has read of its resource
    resource,        \* resource[k]: number of updates to k
    updates,         \* updates[k]: number of tools that have updated k
    rows,            \* rows_list
    written,         \* number of rows handed to the writer
    usage, fired,    \* out._cumulative_usage; calls of on_budget_exceeded
    queue, drain, orphan, failure, closer,   \* the asynchronous writer
    future,          \* the concurrent future: pending, value, error, cancelled
    out,             \* out: _chunk_table, _pending, and the holder of _sync_lock
    reads,           \* reads[r]: state and result of reader r
    alive, errors, prunes

loopVars == <<persist, pc, waiting, attempts, rounds, finished, calls, tool, seen, resource, updates, rows,
              written, usage, fired, queue, drain, orphan, failure, closer, future,
              out, reads, alive, errors, prunes, logVars>>

Key == {KeyOf[p] : p \in DOMAIN KeyOf} \ {NoKey}
Sentinel == [index |-> -1, row |-> "sentinel"]

LoopInit ==
    /\ LogInit
    /\ persist \in BOOLEAN
    /\ pc = "start" /\ waiting = FALSE /\ attempts = 0 /\ rounds = 0 /\ finished = FALSE
    /\ calls = <<>> /\ tool = <<>> /\ seen = <<>>
    /\ resource = [k \in Key |-> 0] /\ updates = [k \in Key |-> 0]
    /\ rows = Seeds /\ written = 0
    /\ usage = None /\ fired = 0
    /\ queue = <<>> /\ drain = [at |-> "idle"] /\ orphan = None /\ failure = FALSE /\ closer = "none"
    /\ future = "pending"
    /\ out = [table |-> Seeds, pending |-> "unset", lock |-> None]
    /\ reads = [r \in Reader |-> [at |-> "idle", table |-> <<>>]]
    /\ alive = TRUE /\ errors = 0 /\ prunes = 0

dispatching == <<calls, tool, seen, resource, updates>>
accounting  == <<attempts, rounds, finished, usage, fired>>
writer      == <<queue, drain, orphan, failure, closer, logVars>>
caller      == <<out, reads>>
environment == <<persist, alive, errors, prunes>>

-----------------------------------------------------------------------------
(* Replies *)

\* _accumulate_stream_to_response: fragments go to the bucket of their index, a
\* delta with an id and no index to bucket 0; buckets are sorted.
IsCallDelta(d) == d.index # None \/ d.id # None
Bucket(d) == IF d.index # None THEN d.index ELSE 0

LastGiven(values, default) ==
    LET given == {i \in DOMAIN values : values[i] # None}
    IN  IF given = {} THEN default ELSE values[Max(given)]

CallOf(stream, b) ==
    LET ds == SelectSeq(stream, LAMBDA d : IsCallDelta(d) /\ Bucket(d) = b)
    IN  [id   |-> LastGiven([i \in 1 .. Len(ds) |-> ds[i].id], ""),
         name |-> FlattenSeq([i \in 1 .. Len(ds) |-> ds[i].name]),
         args |-> FlattenSeq([i \in 1 .. Len(ds) |-> ds[i].args])]

Response(stream) ==
    LET buckets == {Bucket(d) : d \in {e \in ToSet(stream) : IsCallDelta(e)}}
        called  == [i \in 1 .. Cardinality(buckets) |-> CallOf(stream, Nth(buckets, i))]
    IN  [calls  |-> called,
         finish |-> LastGiven([i \in 1 .. Len(stream) |-> stream[i].finish],
                              IF called # <<>> THEN "tool_calls" ELSE "stop"),
         tokens |-> LastGiven([i \in 1 .. Len(stream) |-> stream[i].tokens], None)]

add_usage(a, b) == IF a = None THEN b ELSE IF b = None THEN a ELSE a + b

Tokens(u) == IF u = None THEN 0 ELSE u

\* Mutation: the guard looks at the new total only.
CrossesBudget_Every(before, after) == Tokens(after) > Cap

\* _accumulate_usage_and_check_budget: the reply that first passes the cap.
CrossesBudget(before, after) == Tokens(after) > Cap /\ ~(Tokens(before) > Cap)

-----------------------------------------------------------------------------
(* Rows, and the writer's queue *)

assistant_turn_chunk(resp) ==
    [kind |-> "assistant", calls |-> [i \in 1 .. Len(resp.calls) |-> resp.calls[i].id]]
tool_feedback_chunk(call, body) == [kind |-> "tool_result", id |-> call.id, body |-> body]

\* What the text of an answer says of its call.
Answers == {"ok", "not_ok", "invalid_tool_arguments", "unknown_tool", "tool_execution_exception"}

CallId == {c.id : c \in UNION {ToSet(Response(stream).calls) : stream \in Streams}}

Row == ToSet(Seeds) \cup {assistant_turn_chunk(Response(stream)) : stream \in Streams}
                    \cup [kind : {"tool_result"}, id : CallId, body : Answers]

\* The records of session files.
Line == {build_header, Torn, Garbage} \cup [kind : {"chunk"}, index : Nat, row : Row]
                                      \cup [kind : {"trailer"}, count : Nat, usage : Nat \cup {None}]

\* A reply is a list of deltas, in which an index or a number of tokens may be missing.
ASSUME StreamsAreDeltas ==
    \A stream \in Streams :
        /\ stream \in Seq(ToSet(stream))
        /\ \A d \in ToSet(stream) : {d.index, d.tokens} \subseteq Nat \cup {None}

ASSUME FilesAreSequences ==
    Seeds \in Seq(ToSet(Seeds)) /\ Missing \notin Seq(Line) /\ SchemaVersion \in Int

\* rows_list.append and the setter of out.chunk_table.
AppendRow(row) ==
    /\ rows' = Append(rows, row)
    /\ out' = [out EXCEPT !.table = Append(rows, row)]

NextItem == [index |-> written, row |-> rows[written + 1]]

\* awrite_chunk: the latched error is looked at once, before the wait for room.
Enqueues ==
    /\ waiting \/ ~failure
    /\ Len(queue) < QueueSize
    /\ queue' = Append(queue, NextItem) /\ written' = written + 1 /\ waiting' = FALSE

EnqueueWaits ==
    /\ ~waiting /\ ~failure /\ Len(queue) >= QueueSize
    /\ waiting' = TRUE /\ UNCHANGED <<queue, written>>

EnqueueRaises == ~waiting /\ failure

Unwritten == persist /\ written < Len(rows)

-----------------------------------------------------------------------------
(* The coroutine up to the first reply *)

\* The rest of run_session_loop once the coroutine is submitted: _set_pending.
SetPending ==
    /\ alive /\ out.pending = "unset"
    /\ out' = [out EXCEPT !.pending = "set"]
    /\ UNCHANGED <<pc, waiting, dispatching, accounting, rows, written, writer, future, reads, environment>>

\* A task that ends sets the future, unless that was cancelled before.
Resolve(result) == future' = IF future = "cancelled" THEN future ELSE result

\* _AsyncSessionWriter: the header is on its way to the disk before the first
\* await; queue and drain task start empty and idle.
StartWriter == OpenWriter /\ queue = <<>> /\ drain.at = "idle" /\ ~failure

\* The writer and its drain task are built before the first row is written.
Begin ==
    /\ alive /\ pc = "start"
    /\ IF persist THEN pc' = "seed" /\ StartWriter ELSE pc' = "complete" /\ UNCHANGED logVars
    /\ UNCHANGED <<waiting, dispatching, accounting, rows, written, queue, drain, orphan,
                   failure, closer, future, caller, environment>>

BeginFails ==
    /\ alive /\ pc = "start" /\ persist /\ errors < MaxWriteErrors
    /\ pc' = "failed" /\ Resolve("error") /\ errors' = errors + 1
    /\ UNCHANGED <<waiting, dispatching, accounting, rows, written, writer, caller, persist,
                   alive, prunes>>

\* A row goes to the writer's queue.  An error that is raised while the seed
\* rows are written is not caught: nobody abandons the writer.
PersistRow ==
    /\ alive /\ pc \in {"seed", "turn"} /\ Unwritten
    /\ \/ (Enqueues \/ EnqueueWaits) /\ UNCHANGED <<pc, future>>
       \/ /\ EnqueueRaises
          /\ IF pc = "seed" THEN pc' = "leaked" /\ Resolve("error")
             ELSE pc' = "abandon" /\ UNCHANGED future
          /\ UNCHANGED <<queue, written, waiting>>
    /\ UNCHANGED <<dispatching, accounting, rows, drain, orphan, failure, closer, logVars,
                   caller, environment>>

Seeded ==
    /\ alive /\ pc = "seed" /\ ~Unwritten
    /\ pc' = "complete"
    /\ UNCHANGED <<waiting, dispatching, accounting, rows, written, writer, future, caller, environment>>

-----------------------------------------------------------------------------
(* Rounds *)

ResourceKey(c) == KeyOf[<<c.name, c.args>>]

Callable(c) == c.args \in WholeArguments /\ c.name \in Tools /\ ResourceKey(c) # NoKey

\* Calls that cannot run have their answer at once.
Prepared(c) ==
    IF c.args \notin WholeArguments THEN "invalid_tool_arguments"
    ELSE IF c.name \notin Tools THEN "unknown_tool"
    ELSE IF ResourceKey(c) = NoKey THEN "tool_execution_exception" ELSE "queued"

\* acomplete answers: usage, budget, and the assistant row.
Complete(stream) ==
    LET resp  == Response(stream)
        total == add_usage(usage, resp.tokens)
        trips == resp.tokens # None /\ CrossesBudget(usage, total)
    IN  /\ alive /\ pc = "complete" /\ ~finished /\ rounds < MaxToolRounds
        /\ rounds' = rounds + 1 /\ attempts' = 0
        /\ usage' = total
        /\ fired' = fired + (IF trips THEN 1 ELSE 0)
        /\ IF trips /\ AbortOnBudget
           THEN pc' = "abandon" /\ UNCHANGED <<rows, out, calls, tool, seen, finished>>
           ELSE /\ AppendRow(assistant_turn_chunk(resp))
                /\ calls' = resp.calls
                /\ tool' = [i \in 1 .. Len(resp.calls) |-> Prepared(resp.calls[i])]
                /\ seen' = [i \in 1 .. Len(resp.calls) |-> 0]
                /\ finished' = (resp.calls = <<>> /\ resp.finish \in {"stop", "length", "content_filter"})
                /\ pc' = "turn"
        /\ UNCHANGED <<waiting, resource, updates, written, writer, future, reads, environment>>

\* retry_with_backoff: the first attempt is always made.
MayRetry(failed) == failed < MaxAttempts

\* A transient error of a call, or of the opening of a stream: after a pause the
\* call is made again.
CompleteRetries ==
    /\ alive /\ pc = "complete" /\ ~finished /\ rounds < MaxToolRounds
    /\ MayRetry(attempts + 1) /\ attempts' = attempts + 1
    /\ UNCHANGED <<pc, waiting, dispatching, rounds, finished, usage, fired, rows, written, writer,
                   future, caller, environment>>

\* The last attempt fails, or the error is of another kind, or a stream breaks
\* after it was opened.
CompleteFails ==
    /\ alive /\ pc = "complete" /\ ~finished /\ rounds < MaxToolRounds
    /\ pc' = "abandon" /\ rounds' = rounds + 1 /\ attempts' = 0
    /\ UNCHANGED <<waiting, dispatching, usage, fired, finished, rows, written, writer, future,
                   caller, environment>>

Dispatching == alive /\ pc = "turn" /\ ~Unwritten

\* Mutation: every call is a queue of its own.
NextInQueue_Parallel(i) == TRUE

\* _run_queue: the calls with one key run one after another, in call order.
NextInQueue(i) ==
    \A j \in 1 .. i - 1 :
        Callable(calls[j]) /\ ResourceKey(calls[j]) = ResourceKey(calls[i])
            => tool[j] \notin {"queued", "running"}

ResourceOf(i) == ResourceKey(calls[i])

\* adispatch_tool: the tool starts in a worker thread.
StartTool(i) ==
    /\ Dispatching /\ tool[i] = "queued" /\ NextInQueue(i)
    /\ tool' = [tool EXCEPT ![i] = "running"]
    /\ seen' = [seen EXCEPT ![i] = resource[ResourceOf(i)]]
    /\ UNCHANGED <<pc, waiting, calls, resource, updates, accounting, rows, written, writer,
                   future, caller, environment>>

\* synchronize on out returns or raises.
Joined == out.pending # "set" \/ future # "pending"

\* Mutation: reads within a tool synchronize like all others.
ReadReturns_Waits == Joined

\* chunk_table and cumulative_usage within a tool: the table as it is.
ReadReturns == TRUE

\* A tool that passes its session to run_session_loop joins it there, whatever
\* thread it runs in.  The tool goes on when the coroutine was cancelled.
ToolReturns(i) ==
    /\ Body[calls[i].name] = "reads" => ReadReturns
    /\ Body[calls[i].name] = "nests" => Joined

\* _summarize_dispatch_result, _loop_tool_error_payload: the text of the answer
\* says whether the call went well; a ToolExecutionFailure and an exception do not.
Summarized(raw) == IF raw = "value" THEN "ok" ELSE "not_ok"

FinishTool(i) ==
    /\ alive /\ tool[i] = "running" /\ ToolReturns(i)
    /\ \E raw \in {"value", "failure", "exception"} : tool' = [tool EXCEPT ![i] = Summarized(raw)]
    /\ resource' = [resource EXCEPT ![ResourceOf(i)] = seen[i] + 1]
    /\ updates' = [updates EXCEPT ![ResourceOf(i)] = @ + 1]
    /\ UNCHANGED <<pc, waiting, calls, seen, accounting, rows, written, writer, future, caller, environment>>

\* All queues are done; the rows follow in the order of the calls.
AnswerCall(i) ==
    /\ Dispatching
    /\ \A j \in DOMAIN tool : tool[j] \notin {"queued", "running"}
    /\ tool[i] # "answered" /\ \A j \in 1 .. i - 1 : tool[j] = "answered"
    /\ AppendRow(tool_feedback_chunk(calls[i], tool[i]))
    /\ tool' = [tool EXCEPT ![i] = "answered"]
    /\ UNCHANGED <<pc, waiting, calls, seen, resource, updates, accounting, written, writer,
                   future, reads, environment>>

EndRound ==
    /\ Dispatching /\ \A j \in DOMAIN tool : tool[j] = "answered"
    /\ pc' = "complete"
    /\ UNCHANGED <<waiting, dispatching, accounting, rows, written, writer, future, caller, environment>>

-----------------------------------------------------------------------------
(* The end of the coroutine *)

coroutine == <<dispatching, accounting, rows, written>>

LoopEnds == alive /\ pc = "complete" /\ (finished \/ rounds = MaxToolRounds)

Return ==
    /\ LoopEnds /\ ~persist
    /\ pc' = "returned" /\ Resolve("value")
    /\ UNCHANGED <<waiting, coroutine, writer, caller, environment>>

\* aclose: the sentinel waits for room like any item.
SendSentinel ==
    /\ LoopEnds /\ persist /\ Len(queue) < QueueSize
    /\ queue' = Append(queue, Sentinel) /\ pc' = "join"
    /\ UNCHANGED <<waiting, coroutine, drain, orphan, failure, closer, logVars, future, caller, environment>>

DrainJoined == drain.at = "exited"

StartClose ==
    /\ alive /\ pc = "join" /\ DrainJoined
    /\ pc' = "closing" /\ closer' = "trailer"
    /\ UNCHANGED <<waiting, coroutine, queue, drain, orphan, failure, logVars, future, caller, environment>>

\* The thread of writer.close: trailer, release, rename.  It ends whether or
\* not the coroutine still waits for it.
CloseStep ==
    /\ alive
    /\ \/ /\ closer = "trailer" /\ closer' = "release"
          /\ WriteRecord(build_trailer(Len(ChunksIn(IF partial = Missing THEN <<>> ELSE partial)), usage))
          /\ UNCHANGED errors
       \/ /\ closer = "trailer" /\ closer' = "undo" /\ errors < MaxWriteErrors
          /\ errors' = errors + 1 /\ WriteFails(build_trailer(0, usage))
       \/ /\ closer = "release" /\ closer' = "rename" /\ Release(TRUE) /\ UNCHANGED errors
       \/ /\ closer = "undo" /\ closer' = "failed" /\ UNCHANGED errors
          /\ \E flushed \in BOOLEAN : Release(flushed)
       \/ closer = "rename" /\ closer' = "done" /\ Rename /\ UNCHANGED errors
    /\ UNCHANGED <<pc, waiting, coroutine, queue, drain, orphan, failure, future, caller,
                   persist, alive, prunes>>

\* Mutation: aclose forgets the latched error.
ClosedWell_NoError == closer = "done"

ClosedWell == closer = "done" /\ ~failure

\* aclose returns, or raises the latched error after the rename.
Closed ==
    /\ alive /\ pc = "closing" /\ closer \in {"done", "failed"}
    /\ pc' = "returned" /\ Resolve(IF ClosedWell THEN "value" ELSE "error")
    /\ UNCHANGED <<waiting, coroutine, writer, caller, environment>>

\* Cancelling the drain task leaves the thread of its current write behind.
CancelDrain ==
    /\ drain' = [at |-> "cancelled"]
    /\ orphan' = IF drain.at = "writing" THEN drain.item ELSE orphan

\* The except clause: writer.abandon, then raise.
Abandon ==
    /\ alive /\ pc = "abandon" /\ persist
    /\ pc' = "releasing" /\ CancelDrain
    /\ UNCHANGED <<waiting, coroutine, queue, failure, closer, logVars, future, caller, environment>>

AbandonRelease ==
    /\ alive /\ pc = "releasing"
    /\ pc' = "failed" /\ Resolve("error")
    /\ \E flushed \in {buffered = <<>>, TRUE} : Release(flushed)
    /\ UNCHANGED <<waiting, coroutine, queue, drain, orphan, failure, closer, caller, environment>>

Raise ==
    /\ alive /\ pc = "abandon" /\ ~persist
    /\ pc' = "failed" /\ Resolve("error")
    /\ UNCHANGED <<waiting, coroutine, writer, caller, environment>>

-----------------------------------------------------------------------------
(* The drain task of the writer *)

DrainGet ==
    /\ alive /\ drain.at = "idle" /\ pc # "start" /\ queue # <<>>
    /\ drain' = IF Head(queue) = Sentinel THEN [at |-> "exited"]
                ELSE [at |-> "writing", item |-> Head(queue)]
    /\ queue' = Tail(queue)
    /\ UNCHANGED <<pc, waiting, coroutine, orphan, failure, closer, logVars, future, caller, environment>>

LineOf(item) == build_chunk_record(item.index, item.row)

DrainWrite ==
    /\ alive /\ drain.at = "writing"
    /\ drain' = [at |-> "idle"]
    /\ \/ WriteRecord(LineOf(drain.item)) /\ UNCHANGED <<failure, errors>>
       \/ /\ errors < MaxWriteErrors /\ errors' = errors + 1
          /\ WriteFails(LineOf(drain.item)) /\ failure' = TRUE
    /\ UNCHANGED <<pc, waiting, coroutine, queue, orphan, closer, future, caller, persist, alive, prunes>>

\* The write that a cancelled drain left behind, before or after the release.
OrphanWrite ==
    /\ alive /\ orphan # None
    /\ orphan' = None
    /\ IF handle = "open" THEN WriteRecord(LineOf(orphan)) ELSE UNCHANGED logVars
    /\ UNCHANGED <<pc, waiting, coroutine, queue, drain, failure, closer, future, caller, environment>>

-----------------------------------------------------------------------------
(* Cancellation, crashes, and other processes *)

\* runtime.drain cancels what is in flight: the future at once, the task later.
Cancel ==
    /\ alive /\ future = "pending"
    /\ future' = "cancelled"
    /\ UNCHANGED <<pc, waiting, coroutine, writer, caller, environment>>

\* CancelledError is raised at the await the coroutine is in.
Interrupted ==
    /\ alive /\ future = "cancelled"
    /\ \/ pc = "start" /\ pc' = "stopped" /\ UNCHANGED <<drain, orphan>>
       \/ pc = "seed" /\ pc' = "leaked" /\ UNCHANGED <<drain, orphan>>
       \/ pc \in {"complete", "turn"} /\ ~LoopEnds /\ pc' = "abandon" /\ UNCHANGED <<drain, orphan>>
       \/ LoopEnds /\ persist /\ pc' = "stopped" /\ UNCHANGED <<drain, orphan>>
       \/ pc = "join" /\ pc' = "stopped" /\ CancelDrain
       \/ pc = "closing" /\ pc' = "stopped" /\ UNCHANGED <<drain, orphan>>
    /\ UNCHANGED <<waiting, coroutine, queue, failure, closer, logVars, future, caller, environment>>

Writing == drain.at = "writing" \/ orphan # None \/ closer = "trailer"

Crash ==
    /\ alive /\ alive' = FALSE
    /\ IF Writing THEN TearLine
       ELSE IF pc = "start" /\ persist
            THEN partial' \in {Missing, <<>>, <<Torn>>} /\ UNCHANGED <<final, handle, buffered>>
            ELSE UNCHANGED logVars
    /\ UNCHANGED <<pc, waiting, coroutine, queue, drain, orphan, failure, closer, future, caller,
                   persist, errors, prunes>>

\* An operator prunes sessions while this one may still be written.
Prune ==
    /\ prunes < MaxPrunes /\ prunes' = prunes + 1
    /\ PruneSessions
    /\ UNCHANGED <<pc, waiting, coroutine, queue, drain, orphan, failure, closer, future, caller,
                   persist, alive, errors>>

-----------------------------------------------------------------------------
(* Readers of the lazy session *)

Returns(r, table) == reads' = [reads EXCEPT ![r] = [at |-> "returned", table |-> table]]

\* The getter of chunk_table, and synchronize up to its lock.
Read(r) ==
    /\ alive /\ reads[r].at = "idle" /\ out.pending # "unset"
    /\ IF out.pending = "set" THEN reads' = [reads EXCEPT ![r].at = "locking"] ELSE Returns(r, out.table)
    /\ UNCHANGED <<pc, waiting, coroutine, writer, future, out, environment>>

Lock(r) ==
    /\ alive /\ reads[r].at = "locking" /\ out.lock = None
    /\ IF out.pending = "set"
       THEN reads' = [reads EXCEPT ![r].at = "joining"] /\ out' = [out EXCEPT !.lock = r]
       ELSE Returns(r, out.table) /\ UNCHANGED out
    /\ UNCHANGED <<pc, waiting, coroutine, writer, future, environment>>

\* result() returns: the value is published, an error is raised once.
Join(r) ==
    /\ alive /\ reads[r].at = "joining" /\ future # "pending"
    /\ out' = [table |-> IF future = "value" THEN rows ELSE out.table,
               pending |-> "cleared", lock |-> None]
    /\ IF future = "value" THEN Returns(r, rows) ELSE reads' = [reads EXCEPT ![r].at = "raised"]
    /\ UNCHANGED <<pc, waiting, coroutine, writer, future, environment>>

-----------------------------------------------------------------------------
Coroutine ==
    \/ SetPending \/ Begin \/ PersistRow \/ Seeded
    \/ (\E stream \in Streams : Complete(stream)) \/ CompleteRetries \/ CompleteFails
    \/ (\E i \in DOMAIN tool : StartTool(i) \/ AnswerCall(i)) \/ EndRound
    \/ Return \/ SendSentinel \/ StartClose \/ Closed \/ Abandon \/ AbandonRelease \/ Raise
    \/ Interrupted

WriterThreads == DrainGet \/ DrainWrite \/ OrphanWrite \/ CloseStep

LoopNext ==
    \/ Coroutine \/ BeginFails \/ (\E i \in DOMAIN tool : FinishTool(i)) \/ WriterThreads
    \/ (\E r \in Reader : Read(r) \/ Lock(r) \/ Join(r))
    \/ Cancel \/ Crash \/ Prune

\* The event loop runs its tasks, threads run, and a lock that is free is
\* eventually taken.  Providers answer or fail, since their clients have
\* timeouts, and a tool returns unless it waits for its own session.
LoopFairness ==
    /\ WF_loopVars(Coroutine) /\ WF_loopVars(WriterThreads)
    /\ \A i \in 1 .. 2 : WF_loopVars(i \in DOMAIN tool /\ FinishTool(i))
    /\ \A r \in Reader : WF_loopVars(Lock(r)) /\ WF_loopVars(Join(r))

LoopSpec == LoopInit /\ [][LoopNext]_loopVars /\ LoopFairness

-----------------------------------------------------------------------------
(* Properties *)

\* What is on disk is the transcript (aloop.py _append_row, awriter.py,
\* writer.py, loader.py).  A loop that returned a value has a closed file with
\* exactly the rows and the usage it returned.  Before that, and after a
\* cancellation, an error or a crash, the file that load_session picks holds a
\* prefix of the rows, as long as no write of a row failed, and if it loads as
\* closed, under either name, all the rows and the usage of a loop that ran to
\* its end.  Only such a loop has a final file.
TranscriptOnDisk ==
    /\ persist /\ prunes = 0 /\ future = "value" =>
        /\ Loads(final) /\ LoadedRows(final) = rows
        /\ LoadedUsage(final) = usage
        /\ Meta(final) = [chunk_count |-> Len(rows), closed |-> TRUE]
    /\ Loads(Target) /\ ~failure =>
        /\ IsPrefix(LoadedRows(Target), rows)
        /\ LoadedClosed(Target) => /\ LoadedRows(Target) = rows /\ LoadedUsage(Target) = usage
                                   /\ finished \/ rounds = MaxToolRounds
    /\ final # Missing => finished \/ rounds = MaxToolRounds

\* A comment in writer.py says: "A crash between the trailer write and the rename
\* still leaves a complete-but-still-__partial__ file that the loader treats as
\* closed=False; the rename is what promotes "complete content" to "advertised as
\* closed"".
OnlyTheRenameCloses ==
    ~alive /\ final = Missing /\ Loads(partial) => ~LoadedClosed(partial)

\* The docstring of run_session_loop says: "On graceful return the trailer is
\* written; on exception the file is abandoned without a trailer".
ErrorsLeaveNoTrailer ==
    persist /\ future = "error" /\ Loads(final) => ~LoadedClosed(final)

\* Calls of one round that name the same resource do not lose updates of each
\* other, whatever else runs in parallel (aloop.py _adispatch_round).
NoLostUpdate == \A k \in Key : resource[k] = updates[k]

\* on_budget_exceeded is called once, by the reply that passes the cap, however
\* many rounds follow (loop.py _accumulate_usage_and_check_budget).
BudgetFiresOnce == fired = (IF Tokens(usage) > Cap THEN 1 ELSE 0)

\* A thread that reads the session gets an answer: the transcript, or the error
\* of the loop; it never waits for ever, neither for the loop nor for the lock
\* (session.py synchronize, aloop.py, awriter.py).
ReadsReturn ==
    \A r \in Reader :
        reads[r].at = "locking" ~> reads[r].at \in {"returned", "raised"} \/ ~alive

\* Tests say of a tool that runs a loop on its own session: "A re-entrant
\* run_session_loop call from inside a tool body raises cleanly".  So every tool
\* that was started ends.
ToolsEnd == \A i \in 1 .. 2 :
    (i \in DOMAIN tool /\ tool[i] = "running") ~> (i \in DOMAIN tool /\ tool[i] # "running") \/ ~alive
=============================================================================
