----------------------------- MODULE OpenSandbox -----------------------------
(* The OpenSandbox backend: sandboxes in containers of a remote service, made *)
(* with retries and a fallback without the workspace volume, attached to by   *)
(* their id, and killed when they are closed; and the calls on them, behind   *)
(* an exec lock per sandbox and a bounded table of locks per path.            *)
(*                                                                            *)
(* The service is external.  A request to it runs some time after it was      *)
(* sent, also after its client has given up waiting; it may be answered with  *)
(* an error; and a request to make a container may time out at the client     *)
(* and make one all the same.                                                 *)
EXTENDS Naturals, Sequences, FiniteSets, SequencesExt

CONSTANTS
    Client,          \* BackendSandbox objects of this backend
    Container,       \* containers of the service
    Op,              \* operations of callers; here those that are calls
    Path,            \* resolved paths that calls write
    NoContainer, NoOp,
    CreateAttempts,  \* _SANDBOX_CREATE_ATTEMPTS
    CodeAttempts,    \* _CODE_RUN_ATTEMPTS
    FsLockLru,       \* _FS_LOCK_LRU
    Strict           \* RATH_OPENSANDBOX_STRICT_WORKSPACE_BIND

ASSUME OpenSandboxConstants ==
    /\ NoContainer \notin Container /\ NoOp \notin Op /\ Strict \in BOOLEAN
    /\ CreateAttempts \in Nat \ {0} /\ CodeAttempts \in Nat \ {0} /\ FsLockLru \in Nat \ {0}

VARIABLES
    client,     \* client[x]: [at, st, try, vol], its container and how far its life cycle is
    running,    \* containers the service runs
    natives,    \* OpenSandboxBackend._natives, by container
    index,      \* registry records of remote sandboxes, by container
    execLock,   \* _exec_locks: a lock is named after the call that made it
    fsTable,    \* _fs_locks: pairs of a path and its lock, least recently used first
    line,       \* holders and waiters of all locks, in the order they came
    call,       \* call[c]: [kind, path, x, st, try, out]
    requests,   \* what the service has still to run: [op, try, at]
    ran,        \* requests it has run and whose clients wait for the answer
    effects     \* effects[k]: the calls that changed container k, in the order they ran

openSandboxVars == <<client, running, natives, index, execLock, fsTable, line, call,
                     requests, ran, effects>>

locks  == <<execLock, fsTable, line>>

CommandKinds == {"probe", "mutate", "printing"}
ExecKinds    == CommandKinds \cup {"code", "stdin"}
CallKinds    == ExecKinds \cup {"write", "read"}
\* Calls that change the container; "printing" is a command whose text has print( in it.
Changes(kind) == kind \in {"mutate", "printing", "code", "write"}

NoCall == [kind |-> "read", path |-> CHOOSE p \in Path : TRUE,
           x |-> CHOOSE x \in Client : TRUE, st |-> "new", try |-> 0, out |-> "none"]

OpenSandboxInit ==
    /\ client = [x \in Client |-> [at |-> NoContainer, st |-> "none", try |-> 0, vol |-> FALSE]]
    /\ running = {} /\ natives = {} /\ index = {}
    /\ execLock = [k \in Container |-> NoOp] /\ fsTable = [k \in Container |-> <<>>]
    /\ line = <<>> /\ call = [c \in Op |-> NoCall]
    /\ requests = {} /\ ran = {} /\ effects = [k \in Container |-> <<>>]

-----------------------------------------------------------------------------
(* Opening, attaching and closing *)

calls == <<locks, call, requests, ran, effects>>

Failed == [at |-> NoContainer, st |-> "failed", try |-> 0, vol |-> FALSE]
Opened(k) == [at |-> k, st |-> "open", try |-> 0, vol |-> FALSE]

\* Ids the service has not given out yet.
Fresh == {k \in Container \ running : \A x \in Client : client[x].at # k}

\* _aopen and bind_workspace_volumes_from_spec: a volume when the spec names a directory.
AOpenRemote(x, vol) ==
    /\ client[x].st = "none"
    /\ client' = [client EXCEPT ![x] = [at |-> NoContainer, st |-> "creating", try |-> 1, vol |-> vol]]
    /\ UNCHANGED <<running, natives, index, calls>>

\* _sandbox_create_once succeeded.
CreateOnce(x) ==
    /\ client[x].st = "creating"
    /\ Fresh # {}
    /\ LET k == CHOOSE k \in Fresh : TRUE IN
         /\ running' = running \cup {k}
         /\ client' = [client EXCEPT ![x].at = k, ![x].st = IF client[x].vol THEN "made" ELSE "bare"]
    /\ UNCHANGED <<natives, index, calls>>

\* A transient failure is tried again; the container may exist all the same.
CreateTransient(x) ==
    /\ client[x].st = "creating"
    /\ client' = IF client[x].try >= CreateAttempts THEN [client EXCEPT ![x] = Failed]
                 ELSE [client EXCEPT ![x].try = @ + 1]
    /\ \/ UNCHANGED running
       \/ Fresh # {} /\ running' = running \cup {CHOOSE k \in Fresh : TRUE}
    /\ UNCHANGED <<natives, index, calls>>

\* The service refuses the volume: once more without it, unless that is forbidden.
BindRejected(x) ==
    /\ client[x].st = "creating" /\ client[x].vol
    /\ client' = IF Strict THEN [client EXCEPT ![x] = Failed]
                 ELSE [client EXCEPT ![x].vol = FALSE, ![x].try = 1]
    /\ UNCHANGED <<running, natives, index, calls>>

CreateFails(x) ==
    /\ client[x].st = "creating"
    /\ client' = [client EXCEPT ![x] = Failed]
    /\ UNCHANGED <<running, natives, index, calls>>

\* The end of _open_coro: without a volume the workspace is made first, and if that
\* fails nothing knows the container.
OpenCoro(x) ==
    /\ \/ /\ client[x].st = "made" \/ client[x].st = "bare"
          /\ client' = [client EXCEPT ![x] = Opened(client[x].at)]
          /\ natives' = natives \cup {client[x].at}
       \/ /\ client[x].st = "bare"
          /\ client' = [client EXCEPT ![x] = Failed]
          /\ UNCHANGED natives
    /\ UNCHANGED <<running, index, calls>>

\* attach: a second object for a container that runs; both have the same handle.
Attach(x, k) ==
    /\ client[x].st = "none" /\ k \in running
    /\ client' = [client EXCEPT ![x] = [Opened(k) EXCEPT !.st = "attached"]]
    /\ natives' = natives \cup {k}
    /\ UNCHANGED <<running, index, calls>>

\* _aclose: the handle and its locks are forgotten, whoever else has the handle.
ACloseRemote(x) ==
    /\ client[x].st = "open"
    /\ LET k == client[x].at IN
         /\ natives' = natives \ {k}
         /\ execLock' = [execLock EXCEPT ![k] = NoOp]
         /\ fsTable' = [fsTable EXCEPT ![k] = <<>>]
         /\ client' = [client EXCEPT ![x].st = IF k \in natives THEN "killing" ELSE "closed"]
    /\ UNCHANGED <<running, index, line, call, requests, ran, effects>>

\* _close_coro: when kill fails the container goes on and nobody knows it.
CloseCoro(x) ==
    /\ client[x].st = "killing"
    /\ client' = [client EXCEPT ![x].st = "closed"]
    /\ running' \in {running, running \ {client[x].at}}
    /\ UNCHANGED <<natives, index, calls>>

\* The registry: records name containers and do not keep them alive.
RecordRemote(x) ==
    /\ client[x].st = "open" /\ index' = index \cup {client[x].at}
    /\ UNCHANGED <<client, running, natives, calls>>

DeleteRemote(k) ==
    /\ k \in index /\ index' = index \ {k}
    /\ UNCHANGED <<client, running, natives, calls>>

\* reattach_remote: an unknown id raises KeyError, a dead container what connect
\* raises; otherwise attach, and touch_remote before the caller has the object.
ReattachRemote(x, k) == k \in index /\ Attach(x, k)

\* touch_remote reads the record, if it is still there, and writes it back: a
\* record that is deleted in between is there again.
TouchRemote(x) ==
    /\ \/ /\ client[x].st = "attached" /\ UNCHANGED index
          /\ client' = [client EXCEPT ![x].st = IF client[x].at \in index THEN "touching" ELSE "open"]
       \/ /\ client[x].st = "touching" /\ index' = index \cup {client[x].at}
          /\ client' = [client EXCEPT ![x].st = "open"]
    /\ UNCHANGED <<running, natives, calls>>

\* sandbox_count
RemoteCount == Cardinality(natives)

ClientNext ==
    \E x \in Client :
      \/ \E vol \in BOOLEAN : AOpenRemote(x, vol)
      \/ CreateOnce(x) \/ CreateTransient(x) \/ BindRejected(x) \/ CreateFails(x) \/ OpenCoro(x)
      \/ ACloseRemote(x) \/ CloseCoro(x) \/ RecordRemote(x) \/ TouchRemote(x)
      \/ \E k \in Container : ReattachRemote(x, k) \/ DeleteRemote(k)

-----------------------------------------------------------------------------
(* Locks: asyncio.Lock is first come, first served; a released lock wakes its *)
(* first waiter, which takes it in a later turn of the loop                   *)

LineOf(l)   == SelectSeq(line, LAMBDA e : e.lock = l)
IsLocked(l) == \E i \in DOMAIN line : line[i].lock = l /\ line[i].holds

\* _exec_lock_for
ExecLockFor(k, c) == IF execLock[k] = NoOp THEN c ELSE execLock[k]

\* _fs_lock_for: the lock of path p, and the table as it leaves it.  A lock that is
\* not held may be dropped to make room, one that a woken waiter is about to take too.
PathLocks(k, p) == {i \in DOMAIN fsTable[k] : fsTable[k][i].path = p}

FsLockFor(k, p, c) ==
    IF PathLocks(k, p) = {} THEN c ELSE fsTable[k][CHOOSE i \in PathLocks(k, p) : TRUE].lock

Evict(table, p) ==
    LET victims == {i \in DOMAIN table : table[i].path # p /\ ~IsLocked(table[i].lock)}
    IN IF Len(table) <= FsLockLru \/ victims = {} THEN table
       ELSE RemoveAt(table, CHOOSE i \in victims : \A j \in victims : i <= j)

FsTableAfter(k, p, c) ==
    LET others == SelectSeq(fsTable[k], LAMBDA e : e.path # p)
        table  == Append(others, [path |-> p, lock |-> FsLockFor(k, p, c)])
    IN IF PathLocks(k, p) = {} THEN Evict(table, p) ELSE table

\* async with lock: at once when nobody holds it or waits for it.
Free(l) == LineOf(l) = <<>>
JoinLine(l, c) == line' = Append(line, [lock |-> l, op |-> c, holds |-> Free(l)])
Leave(c) == line' = SelectSeq(line, LAMBDA e : e.op # c)

-----------------------------------------------------------------------------
(* Calls *)

Sent(c, x, try) == [op |-> c, try |-> try, at |-> client[x].at]
Request(c) == Sent(c, call[c].x, call[c].try)

\* dispatch, _adispatch and _dispatch_coro up to the wait for a lock, or for the service.
\* A sandbox that is closed makes dispatch raise, one that was closed since, or whose
\* handle is gone, is answered with a failure.
ADispatchRemote(c, x, kind, p) ==
    LET k  == client[x].at
        as == [kind |-> kind, path |-> p, x |-> x, st |-> "sent", try |-> 1, out |-> "none"]
        l  == IF kind = "write" THEN FsLockFor(k, p, c) ELSE ExecLockFor(k, c)
    IN \/ /\ client[x].st # "open" \/ k \notin natives
          /\ \E out \in {"raised", "failed"} :
               /\ out = "raised" => client[x].st # "open"
               /\ call' = [call EXCEPT ![c] = [as EXCEPT !.st = "done", !.out = out]]
          /\ UNCHANGED <<locks, requests>>
       \/ /\ client[x].st = "open" /\ k \in natives
          /\ IF kind = "read" THEN UNCHANGED locks
             ELSE /\ JoinLine(l, c)
                  /\ execLock' = IF kind \in ExecKinds THEN [execLock EXCEPT ![k] = l] ELSE execLock
                  /\ fsTable' = IF kind = "write" THEN [fsTable EXCEPT ![k] = FsTableAfter(k, p, c)] ELSE fsTable
          /\ IF kind = "read" \/ Free(l)
             THEN /\ requests' = requests \cup {Sent(c, x, 1)} /\ call' = [call EXCEPT ![c] = as]
             ELSE /\ call' = [call EXCEPT ![c] = [as EXCEPT !.st = "waits"]] /\ UNCHANGED requests

\* A waiter is the first of its lock and nobody holds it any more.
TakeLock(c) ==
    /\ call[c].st = "waits"
    /\ \E i \in DOMAIN line :
         /\ line[i].op = c /\ ~IsLocked(line[i].lock)
         /\ \A j \in 1..(i - 1) : line[j].lock # line[i].lock
         /\ line' = [line EXCEPT ![i].holds = TRUE]
    /\ requests' = requests \cup {Request(c)}
    /\ call' = [call EXCEPT ![c].st = "sent"]
    /\ UNCHANGED <<client, running, natives, index, execLock, fsTable, ran, effects>>

Finish(c, out) ==
    call' = [call EXCEPT ![c].st = "done", ![c].out = out] /\ Leave(c)

Awaited(r) == call[r.op].st = "sent" /\ Request(r.op) = r

\* The service runs a request, if its container is still there.
Serve(r) ==
    /\ r \in requests /\ r.at \in running /\ call[r.op].kind # "stdin"
    /\ requests' = requests \ {r}
    /\ ran' = IF Awaited(r) THEN ran \cup {r} ELSE ran
    /\ effects' = IF Changes(call[r.op].kind) THEN [effects EXCEPT ![r.at] = Append(@, r.op)] ELSE effects
    /\ UNCHANGED <<client, running, natives, index, locks, call>>

\* A second run for every command without output.
CommandStdoutRerunAllowed_Any(kind) == kind \in CommandKinds

\* _command_stdout_rerun_allowed: the text of the command has print( in it.
CommandStdoutRerunAllowed(kind) == kind \in {"probe", "printing"}

\* The next try of a call, with its lock still held.
TryAgain(c, pending) ==
    /\ call' = [call EXCEPT ![c].try = @ + 1]
    /\ requests' = pending \cup {Sent(c, call[c].x, call[c].try + 1)}
    /\ UNCHANGED line

\* An answer.  A command without output may be run a second time; the code session
\* may be busy, without running the code, and is then asked again.
Answer(c) ==
    /\ call[c].st = "sent"
    /\ LET kind == call[c].kind
           r    == Request(c)
       IN
       \/ r \in ran /\ Finish(c, "ok") /\ UNCHANGED requests
       \/ /\ r \in ran /\ kind \in CommandKinds /\ CommandStdoutRerunAllowed(kind)
          /\ call[c].try = 1 /\ TryAgain(c, requests)
       \/ /\ kind = "code" /\ r \in requests
          /\ IF call[c].try < CodeAttempts THEN TryAgain(c, requests \ {r})
             ELSE Finish(c, "failed") /\ requests' = requests \ {r}
       \/ /\ kind = "stdin" /\ Finish(c, "failed") /\ requests' = requests \ {r}
       \/ /\ Finish(c, "failed")      \* the SDK raises, whether or not the request will run
          /\ requests' \in {requests, requests \ {r}}
    /\ ran' = ran \ {Request(c)}
    /\ UNCHANGED <<client, running, natives, index, execLock, fsTable, effects>>

\* The client stops waiting; the request goes its own way.  Code is sent again.
TimeOut(c) ==
    /\ call[c].st = "sent" /\ call[c].kind \in CommandKinds \cup {"code"}
    /\ ran' = ran \ {Request(c)}
    /\ IF call[c].kind = "code" /\ call[c].try < CodeAttempts THEN TryAgain(c, requests)
       ELSE Finish(c, "timeout") /\ UNCHANGED requests
    /\ UNCHANGED <<client, running, natives, index, execLock, fsTable, effects>>

ServiceNext == \E r \in requests : Serve(r)

CallNext == \E c \in Op : TakeLock(c) \/ Answer(c) \/ TimeOut(c)
=============================================================================
