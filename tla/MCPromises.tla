----------------------------- MODULE MCPromises -----------------------------
(* Lines of the repository that the code does not keep.  One behaviour goes   *)
(* through sessions, memory, artifacts, configuration files, registry tables  *)
(* and streams, the focus; it leaves each when it has been through a state    *)
(* that breaks every line about it.  The lines are the definitions named in   *)
(* Said; each is quoted where it is defined.                                  *)
EXTENDS MCResources

CONSTANTS q2, q3, q4, q5

VARIABLE broken   \* lines that have been broken

promiseVars == <<vars, broken>>

Said == [sharing   |-> {"EverySlotCounts"},
         memory    |-> {"NoStaleSidecar"},
         artifacts |-> {"ManifestsHavePayloads"},
         config    |-> {"CacheHitsAreCurrent", "SavesAreWhole"},
         tables    |-> {"DigestsAreFilled"},
         remote    |-> {"MutatingRunsOnce", "NoHanging", "PathsSerialised"}]
Lines == UNION {Said[f] : f \in DOMAIN Said}

After == [sharing |-> "memory", memory |-> "artifacts", artifacts |-> "config",
          config |-> "tables", tables |-> "remote"]

True(says) ==
    CASE says = "EverySlotCounts"       -> EverySlotCounts
      [] says = "NoStaleSidecar"        -> NoStaleSidecar
      [] says = "ManifestsHavePayloads" -> ManifestsHavePayloads
      [] says = "CacheHitsAreCurrent"   -> CacheHitsAreCurrent
      [] says = "SavesAreWhole"         -> SavesAreWhole
      [] says = "DigestsAreFilled"      -> DigestsAreFilled
      [] says = "MutatingRunsOnce"      -> MutatingRunsOnce
      [] says = "NoHanging"             -> NoHanging
      [] says = "PathsSerialised"       -> PathsSerialised

\* No configuration file yet, and the tables of an older SQLite database.
PromiseInit ==
    /\ SandboxInit /\ StreamInit /\ MemoryInit /\ ArtifactInit /\ GraphInit
    /\ ConfigInit /\ config = NoFile
    /\ TablesInit /\ engine = "sqlite" /\ tables /\ columns = {}
    /\ focus = "sharing" /\ left = MaxOps /\ broken = {}

\* A command that prints, on q1.
Rerun ==
    \/ PlainOpen
    \/ ~Unopened /\ \E q \in StreamObj : EnterStream(q) \/ WorkerStep(q)
    \/ client[x1].st = "open" /\ Started /\ SubmitCall(q1, 1, "printing", NoCall.path)
    \/ (CallNext \/ ServiceNext) /\ UNCHANGED streamOnly

\* Its dispatch ends in a fatal error; then one call more, and the exit of q1.
Hang ==
    \/ FatalError(q1) \/ FailRemaining(q1)
    \/ worker[q1] = "dead" /\ SubmitCall(q1, 2, "read", NoCall.path)
    \/ job[2].k = "call" /\ ExitStream(q1)

\* A write on each of the other streams, the first command being left as it is.
WriterOf == (3 :> q2) @@ (4 :> q3) @@ (5 :> q4) @@ (6 :> q5)
Overlap ==
    \/ \E o \in DOMAIN WriterOf, p \in Path : SubmitCall(WriterOf[o], o, "write", p)
    \/ \E q \in StreamObj \ {q1} : WorkerStep(q)
    \/ (CallNext \/ ServiceNext) /\ UNCHANGED streamOnly /\ call'[1] = call[1]

Remote ==
    /\ focus = "remote"
    /\ \/ "MutatingRunsOnce" \notin broken /\ Rerun
       \/ "MutatingRunsOnce" \in broken /\ "NoHanging" \notin broken /\ Hang
       \/ "NoHanging" \in broken /\ Overlap
    /\ UNCHANGED <<sandboxVars, memoryVars, artifactVars, records, focus, left>>

Stay ==
    /\ ~(Said[focus] \subseteq broken)
    /\ (Sharing \/ Remembering \/ Storing \/ Configuring \/ Registering \/ Remote)
    /\ broken' = broken \cup {says \in Said[focus] : ~True(says)'}

GoOn ==
    /\ Said[focus] \subseteq broken /\ focus \in DOMAIN After
    /\ focus' = After[focus]
    /\ UNCHANGED <<holdings, records, broken>>

PromiseNext == Stay \/ GoOn
PromiseSpec == PromiseInit /\ [][PromiseNext]_promiseVars

\* The state without what an earlier focus has left behind, which no later step reads.
View ==
    <<focus, broken,
      CASE focus = "sharing"   -> <<sandboxVars, left>>
        [] focus = "memory"    -> memoryVars
        [] focus = "artifacts" -> artifactVars
        [] focus = "config"    -> configVars
        [] focus = "tables"    -> tableVars
        [] focus = "remote"    -> streamVars>>

\* At least one of the quoted lines is true of the code.  A counterexample is a behaviour
\* that has broken all of them, one after the other, and so refutes every one.
SomePromiseIsKept == broken # Lines
=============================================================================
