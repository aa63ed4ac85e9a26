----------------------------- MODULE MCResources -----------------------------
(* Model checking of what runs and sessions hold on to: sandboxes and their   *)
(* backends, streams, memory stores, artifacts, configuration files, registry *)
(* tables and graphs.  These share no state, so each behaviour is about one   *)
(* of them: the focus.  The remote backend has three: streams that wait for   *)
(* each other, calls of all kinds, and opening, attaching and closing.        *)
EXTENDS Sandbox, Stream, Memory, ArtifactStore, ConfigFiles, RegistryTables, Traversals, TLC

CONSTANTS
    Focus, MaxOps,
    x1, q1, m1, d1, u3, k2, h1, h2, n1, n2, n3

VARIABLES
    focus,
    left     \* operations that may still start in the focus "sharing"

MCBoxOf  == [q \in StreamObj |-> x1]
MCFileOf == [u \in MemUri |-> IF u = u3 THEN Invalid ELSE d1]
MCIsS3   == [k \in Key |-> k = k2]

MCNode == <<n1, n2, n3>>
UpTo1 == {<<>>} \cup {<<a>> : a \in Everyone}
UpTo2 == UpTo1 \cup (Everyone \X Everyone)
Twice == {pair \in Everyone \X Everyone : pair[1] = pair[2]}
MCNeighbours == (n1 :> UpTo2 \ Twice) @@ (n2 :> UpTo2) @@ (n3 :> UpTo1)
Plain == [nodes |-> "marked", entries |-> 1, routers |-> {n2}, syncTimeout |-> FALSE,
          production |-> FALSE, unkeyedRetry |-> FALSE]
MCDeclaration ==
    {Plain, [Plain EXCEPT !.nodes = "none"], [Plain EXCEPT !.entries = 2], [Plain EXCEPT !.unkeyedRetry = TRUE],
     [Plain EXCEPT !.syncTimeout = TRUE], [Plain EXCEPT !.syncTimeout = TRUE, !.production = TRUE]}

ASSUME x1 \in Client /\ q1 \in StreamObj /\ MaxOps \in Nat

holdings == <<sandboxVars, streamVars, memoryVars, artifactVars, left>>
records  == <<configVars, tableVars, graphVars>>
vars == <<holdings, records, focus>>

Init ==
    /\ SandboxInit /\ StreamInit /\ MemoryInit /\ ArtifactInit
    /\ focus \in Focus /\ left = MaxOps
    /\ ConfigInit /\ (focus # "config" => config = NoFile)
    /\ TablesInit /\ (focus # "tables" => engine = "sqlite" /\ ~tables)
    /\ GraphInit

\* Sessions and threads share sandboxes.
Sharing ==
    /\ focus = "sharing"
    /\ \/ left > 0 /\ left' = left - 1 /\ \E t \in Thread : Launch(t)
       \/ UNCHANGED left /\ \E t \in Thread : Proceed(t)
    /\ UNCHANGED <<streamVars, memoryVars, artifactVars, records, focus>>

\* The sandbox of the streams is opened without trouble before they start.
PlainOpen == (AOpenRemote(x1, TRUE) \/ CreateOnce(x1) \/ OpenCoro(x1)) /\ UNCHANGED streamOnly
Started == \A q \in StreamObj : worker[q] # "none"
Unopened == client[x1].st \in {"none", "creating", "made", "bare", "attached", "touching"}

\* Streams submit, mark, wait and close; their sandbox is closed, so calls fail at once.
Streams ==
    /\ focus = "streams"
    /\ \/ client[x1].st = "closed" /\ Started /\ CallerNext /\ \A o \in Op : call'[o].kind = "read"
       \/ PlainOpen
       \/ (ACloseRemote(x1) \/ CloseCoro(x1)) /\ UNCHANGED streamOnly
       \/ \E q \in StreamObj : EnterStream(q) \/ Put(q) \/ WorkerStep(q) \/ WaitTimesOut(q)
       \/ FatalError(q1)
    /\ UNCHANGED <<sandboxVars, memoryVars, artifactVars, records, focus, left>>

\* Calls of every kind, at most one of which neither runs a plain command nor writes.
Calls ==
    /\ focus = "calls"
    /\ \/ /\ client[x1].st = "open" /\ Started
          /\ \E q \in StreamObj, o \in {1, 2}, kind \in CallKinds, p \in Path : SubmitCall(q, o, kind, p)
          /\ Cardinality({o \in Op : job'[o].k = "call" /\ call'[o].kind \notin {"mutate", "write"}}) <= 1
       \/ PlainOpen
       \/ (CallNext \/ ServiceNext) /\ UNCHANGED streamOnly
       \/ ~Unopened /\ \E q \in StreamObj : EnterStream(q) \/ Put(q) \/ WorkerStep(q)
    /\ UNCHANGED <<sandboxVars, memoryVars, artifactVars, records, focus, left>>

\* Opening, attaching and closing with all their faults, around one command.
Clients ==
    /\ focus = "clients"
    /\ \/ worker[q1] # "none" /\ ~Unopened /\ SubmitCall(q1, 1, "mutate", NoCall.path)
       \/ RemoteNext
       \/ EnterStream(q1) \/ Put(q1) \/ WorkerStep(q1)
    /\ UNCHANGED <<sandboxVars, memoryVars, artifactVars, records, focus, left>>

\* Writes, searches and commits of two threads on one open store.
Remembering ==
    /\ focus = "memory" /\ MemoryNext
    /\ commits' < 2 /\ UNCHANGED <<blob, blobMeta, received>>
    /\ \A m \in MemStore : m # m1 => storeState'[m] = "none"
    /\ \A m \in MemStore : refs'[m] = 0
    /\ UNCHANGED <<sandboxVars, streamVars, artifactVars, records, focus, left>>

\* Two stores that share a directory, resources and OpenViking commits; no text yet.
Ingesting ==
    /\ focus = "resources" /\ MemoryNext /\ version' = 0 /\ commits' < 2
    /\ \A t \in MemThread : mem'[t].op # "find"
    /\ UNCHANGED <<sandboxVars, streamVars, artifactVars, records, focus, left>>

Storing ==
    /\ focus = "artifacts" /\ ArtifactNext
    /\ UNCHANGED <<sandboxVars, streamVars, memoryVars, records, focus, left>>

\* Two threads; only one edits, and the other saves only while the first does.
Configuring ==
    /\ focus = "config"
    /\ \/ \E t \in User : LoadStep(t) \/ SaveStep(t)
       \/ user[h1].obj # NoObject /\ ~object[user[h1].obj].edited /\ saves < MaxSaves /\ Edit(h1)
       \/ saves = 0 /\ Save(h1)
       \/ user[h1].pc \in {"save"} \cup Saving /\ Save(h2)
       \/ (\E t \in User : user[t].pc = "secrets") /\ Restart
       \/ saves = MaxSaves /\ (\A t \in User : user[t].pc = "idle") /\ NewerRelease
    /\ UNCHANGED <<holdings, tableVars, graphVars, focus>>

\* Evaluation data only once every process is through with the schema.
Registering ==
    /\ focus = "tables" /\ TablesNext
    /\ <<dataset', experiment'>> = <<dataset, experiment>> \/ \A p \in Proc : proc[p].pc \in {"open", "failed"}
    /\ UNCHANGED <<holdings, configVars, graphVars, focus>>

Walking ==
    /\ focus = "graphs" /\ GraphNext
    /\ UNCHANGED <<holdings, configVars, tableVars, focus>>

Next ==
    \/ Sharing \/ Streams \/ Calls \/ Clients \/ Remembering \/ Ingesting \/ Storing
    \/ Configuring \/ Registering \/ Walking

Spec == Init /\ [][Next]_vars /\ WorkersRun
=============================================================================
