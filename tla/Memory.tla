------------------------------- MODULE Memory -------------------------------
(* Memory stores: the reference counts of MemoryStore objects, the local      *)
(* backend with its files (a body, a vector kept beside it, resources and     *)
(* archived commits), and the OpenViking backend, whose server is external.   *)
(*                                                                            *)
(* Threads dispatch operations on stores of one directory without any lock.   *)
(* A body is named by the version of its text, a vector by the version of the *)
(* text it was computed from.  atomic_write_text replaces a file in one step; *)
(* a crash may come between any two steps.                                    *)
EXTENDS Naturals, Sequences, FiniteSets

CONSTANTS
    MemStore,     \* MemoryStore objects of the local backend, on one directory
    MemThread,
    Doc,          \* files that bodies are kept in
    MemUri,
    FileOf,       \* FileOf[u]: the file of URI u, Invalid where _resolve_uri refuses it
    Invalid,
    Embedder,     \* whether the store has an embedding client
    Extractor,    \* and a chat client for commits
    MaxVersion,   \* bound on texts written
    MaxMemCrash,  \* bound on crashes
    MaxMessages   \* messages of the transcript that is committed to OpenViking

ASSUME MemoryConstants ==
    /\ FileOf \in [MemUri -> Doc \cup {Invalid}] /\ Invalid \notin Doc
    /\ {Embedder, Extractor} \subseteq BOOLEAN
    /\ {MaxVersion, MaxMemCrash, MaxMessages} \subseteq Nat

VARIABLES
    refs,        \* refs[m]: _refcount
    storeState,  \* storeState[m]: "none", "open" or "shut"
    bound,       \* whether _handles has the directory
    body, vec,   \* body[d], vec[d]: a version, 0 when the file does not exist
    version,     \* the last version written
    blob,        \* an ingested resource: "none", "part" or "whole"
    blobMeta,    \* and whether its meta.md exists
    commits,     \* archived transcripts
    mem,         \* mem[t]: what thread t is doing
    excuse,      \* excuse[d]: why vec[d] may be of another text, see StaleVectorsExplained
    crashes,
    received     \* messages the OpenViking session has received since its last commit

memoryVars == <<refs, storeState, bound, body, vec, version, blob, blobMeta, commits, mem,
                excuse, crashes, received>>

files == <<body, vec, version, excuse>>
store == <<refs, storeState, bound>>
other == <<blob, blobMeta, commits, crashes, received>>

Idle == [op |-> "idle", step |-> "", d |-> Invalid, seen |-> [d \in Doc |-> 0],
         have |-> {}, n |-> 0]

MemoryInit ==
    /\ refs = [m \in MemStore |-> 0] /\ storeState = [m \in MemStore |-> "none"] /\ bound = FALSE
    /\ body = [d \in Doc |-> 0] /\ vec = [d \in Doc |-> 0] /\ version = 0
    /\ blob = "none" /\ blobMeta = FALSE /\ commits = 0
    /\ mem = [t \in MemThread |-> Idle]
    /\ excuse = [d \in Doc |-> {}] /\ crashes = 0 /\ received = 0

At(t, op, step) == mem[t].op = op /\ mem[t].step = step
Becomes(t, new) == mem' = [mem EXCEPT ![t] = new]
Begin(t, new) == mem[t] = Idle /\ Becomes(t, new)
End(t) == Becomes(t, Idle)

\* _resolve_uri: a memory URI names one file, or is refused.
ResolveUri(u) == FileOf[u]

-----------------------------------------------------------------------------
(* Stores *)

\* open: a second store of the directory replaces the handle of the first.
OpenStore(m) ==
    /\ storeState[m] = "none"
    /\ storeState' = [storeState EXCEPT ![m] = "open"] /\ bound' = TRUE
    /\ UNCHANGED <<refs, files, other, mem>>

\* MemoryStore.acquire, with store:, and the slot of an Agent made by _resolve_memory.
AcquireStore(m) ==
    /\ storeState[m] = "open" /\ refs[m] < 2
    /\ refs' = [refs EXCEPT ![m] = @ + 1]
    /\ UNCHANGED <<storeState, bound, files, other, mem>>

\* release, and close at the last one; Agent.close releases once.
ReleaseStore(m) ==
    /\ refs[m] > 0
    /\ refs' = [refs EXCEPT ![m] = @ - 1]
    /\ IF storeState[m] = "open" /\ refs[m] - 1 <= 0
       THEN storeState' = [storeState EXCEPT ![m] = "shut"] /\ bound' = FALSE
       ELSE UNCHANGED <<storeState, bound>>
    /\ UNCHANGED <<files, other, mem>>

\* dispatch: a closed store raises, one without its handle raises a KeyError.
Dispatchable(m) == storeState[m] = "open" /\ bound
SomeStore == \E m \in MemStore : Dispatchable(m)

\* gc: archived commits that are old.
GcCommits ==
    /\ commits > 0 /\ commits' \in 0..(commits - 1)
    /\ UNCHANGED <<store, files, blob, blobMeta, mem, crashes, received>>

\* prune_local: the directory's own mtime is old, however new its bodies are.
PruneStore ==
    /\ body' = [d \in Doc |-> 0] /\ vec' = [d \in Doc |-> 0] /\ excuse' = [d \in Doc |-> {}]
    /\ blob' = "none" /\ blobMeta' = FALSE /\ commits' = 0
    /\ UNCHANGED <<store, version, mem, crashes, received>>

-----------------------------------------------------------------------------
(* Writes *)

\* atomic_write_text: under the lock of the path, a temporary file takes the place of the
\* old one; on any failure the old one stays.
AtomicWriteText(file, d, new) == [file EXCEPT ![d] = new]

Replace(d) ==
    /\ version < MaxVersion /\ version' = version + 1
    /\ body' = AtomicWriteText(body, d, version + 1)

\* _dispatch_write: the body first.
WriteBody(t, u) ==
    /\ SomeStore /\ ResolveUri(u) # Invalid /\ Replace(ResolveUri(u))
    /\ Begin(t, [Idle EXCEPT !.op = "write", !.step = "unlink", !.d = ResolveUri(u)])
    /\ UNCHANGED <<vec, excuse, store, other>>

\* A write that leaves the sidecars.
Unlinked_Kept(d) == vec

Unlinked(d) == [vec EXCEPT ![d] = 0]

\* Then the sidecars: they "must not persist past a content rewrite".
WriteUnlink(t) ==
    /\ At(t, "write", "unlink") /\ End(t)
    /\ vec' = Unlinked(mem[t].d)
    /\ excuse' = [excuse EXCEPT ![mem[t].d] = {}]
    /\ UNCHANGED <<body, version, store, other>>

\* unlink raises an OSError: the write is answered with a failure, after the body was
\* replaced.
WriteUnlinkFails(t) ==
    /\ At(t, "write", "unlink") /\ vec[mem[t].d] # 0 /\ End(t)
    /\ excuse' = [excuse EXCEPT ![mem[t].d] = @ \cup {"unlink"}]
    /\ UNCHANGED <<body, vec, version, store, other>>

-----------------------------------------------------------------------------
(* Finds *)

\* _dispatch_find: the documents in scope are read; the scope of a URI that names one
\* memory is empty, for its path has no suffix.
FindCollect(t, scope) ==
    /\ SomeStore
    /\ Begin(t, [Idle EXCEPT !.op = "find", !.step = "load",
                             !.seen = [d \in Doc |-> IF d \in scope THEN body[d] ELSE 0]])
    /\ UNCHANGED <<files, store, other>>

\* DefaultRecallInjection, before Agent.forward: all memories are in scope.
Inject(t) == FindCollect(t, Doc)

Found(t) == {d \in Doc : mem[t].seen[d] # 0}

\* No embedding client, or it fails: BM25, which changes nothing.
FindLexical(t) ==
    /\ mem[t].op = "find"
    /\ End(t) /\ UNCHANGED <<files, store, other>>

\* _load_vec for every document found.
FindLoad(t) ==
    /\ At(t, "find", "load") /\ Embedder
    /\ Becomes(t, [mem[t] EXCEPT !.step = "store", !.have = {d \in Found(t) : vec[d] # 0}])
    /\ UNCHANGED <<files, store, other>>

\* _store_vec for one of those that had none, from the text that was read.
FindStore(t, d) ==
    /\ At(t, "find", "store") /\ d \in Found(t) \ mem[t].have
    /\ vec' = AtomicWriteText(vec, d, mem[t].seen[d])
    /\ excuse' = [excuse EXCEPT ![d] = IF body[d] = mem[t].seen[d] THEN {} ELSE {"overlap"}]
    /\ Becomes(t, [mem[t] EXCEPT !.have = @ \cup {d}])
    /\ UNCHANGED <<body, version, store, other>>

FindRank(t) ==
    /\ At(t, "find", "store") /\ Found(t) \subseteq mem[t].have
    /\ End(t) /\ UNCHANGED <<files, store, other>>

-----------------------------------------------------------------------------
(* Reads of bodies, directories and trees change nothing *)

\* _dispatch_read
ReadMemory(u) == IF ResolveUri(u) = Invalid THEN "invalid_uri"
                 ELSE IF body[ResolveUri(u)] = 0 THEN "not_found" ELSE "found"

\* _dispatch_list and _dispatch_tree: sidecars and meta files do not show.
Listed == {d \in Doc : body[d] # 0}

-----------------------------------------------------------------------------
(* Commits *)

\* _dispatch_commit: the transcript is archived; with wait and a chat client,
\* memos follow.
CommitArchive(t, wait) ==
    /\ SomeStore /\ commits < MaxVersion /\ commits' = commits + 1
    /\ IF wait /\ Extractor THEN Begin(t, [Idle EXCEPT !.op = "commit", !.step = "memos"])
       ELSE mem[t] = Idle /\ UNCHANGED mem
    /\ UNCHANGED <<files, store, blob, blobMeta, crashes, received>>

\* Agent.forward commits what it has done, and does not wait.
AgentCommit(t) == CommitArchive(t, FALSE)

\* A memo is written over the body of its URI; the sidecar stays.  Memos of URIs that
\* _resolve_uri refuses are skipped.
Memo(t, u) ==
    /\ At(t, "commit", "memos") /\ mem[t].n < 1 /\ ResolveUri(u) # Invalid
    /\ Replace(ResolveUri(u))
    /\ excuse' = [excuse EXCEPT ![ResolveUri(u)] = IF vec[ResolveUri(u)] = 0 THEN @ ELSE @ \cup {"memo"}]
    /\ Becomes(t, [mem[t] EXCEPT !.n = 1])
    /\ UNCHANGED <<vec, store, other>>

\* The chat client failed, answered nothing that parses, or has no more memos.
CommitEnd(t) ==
    /\ At(t, "commit", "memos")
    /\ End(t) /\ UNCHANGED <<files, store, other>>

-----------------------------------------------------------------------------
(* Resources *)

\* _fetch_resource: what the policy lets through is fetched, the rest is a failure.
Fetchable(source) == source = "allowed"

\* _dispatch_resource: a whole blob is not written again, and then neither is its meta.
Ingest(t, source) ==
    /\ SomeStore /\ Fetchable(source)
    /\ IF blob = "whole" THEN mem[t] = Idle /\ UNCHANGED <<mem, blob>>
       ELSE blob' = "part" /\ Begin(t, [Idle EXCEPT !.op = "resource", !.step = "blob"])
    /\ UNCHANGED <<files, store, blobMeta, commits, crashes, received>>

IngestBlob(t) ==
    /\ At(t, "resource", "blob") /\ blob' = "whole"
    /\ Becomes(t, [mem[t] EXCEPT !.step = "meta"])
    /\ UNCHANGED <<files, store, blobMeta, commits, crashes, received>>

IngestMeta(t) ==
    /\ At(t, "resource", "meta") /\ blobMeta' = TRUE /\ End(t)
    /\ UNCHANGED <<files, store, blob, commits, crashes, received>>

-----------------------------------------------------------------------------
(* OpenViking *)

\* _dispatch_commit: every message of the transcript, then the commit.  An error in
\* between leaves the messages in the session, and the next commit sends all again.
VikingBegin(t) ==
    /\ received <= MaxMessages
    /\ Begin(t, [Idle EXCEPT !.op = "viking", !.step = "add"])
    /\ UNCHANGED <<files, store, other>>

VikingAdd(t) ==
    /\ At(t, "viking", "add") /\ mem[t].n < MaxMessages
    /\ received' = received + 1
    /\ Becomes(t, [mem[t] EXCEPT !.n = @ + 1])
    /\ UNCHANGED <<files, store, blob, blobMeta, commits, crashes>>

VikingCommit(t) ==
    /\ At(t, "viking", "add") /\ mem[t].n = MaxMessages
    /\ received' = 0 /\ End(t)
    /\ UNCHANGED <<files, store, blob, blobMeta, commits, crashes>>

\* _failure_from: any error of the client is an answer.
VikingFails(t) ==
    /\ At(t, "viking", "add")
    /\ End(t) /\ UNCHANGED <<files, store, other>>

-----------------------------------------------------------------------------
(* The process stops, between any two steps of its threads, and starts again *)

CutShort(d) == \E t \in MemThread : At(t, "write", "unlink") /\ mem[t].d = d

MemCrash ==
    /\ crashes < MaxMemCrash /\ crashes' = crashes + 1
    /\ mem' = [t \in MemThread |-> Idle]
    /\ refs' = [m \in MemStore |-> 0] /\ bound' = FALSE
    /\ storeState' = [m \in MemStore |-> "none"]
    /\ excuse' = [d \in Doc |-> IF CutShort(d) /\ vec[d] # 0 THEN excuse[d] \cup {"crash"} ELSE excuse[d]]
    /\ UNCHANGED <<body, vec, version, blob, blobMeta, commits, received>>

MemoryNext ==
    \/ \E m \in MemStore : OpenStore(m) \/ AcquireStore(m) \/ ReleaseStore(m)
    \/ GcCommits \/ PruneStore \/ MemCrash
    \/ \E t \in MemThread :
         \/ \E u \in MemUri : WriteBody(t, u) \/ Memo(t, u)
         \/ WriteUnlink(t) \/ WriteUnlinkFails(t) \/ FindLoad(t) \/ FindLexical(t) \/ FindRank(t)
         \/ Inject(t) \/ FindCollect(t, {})
         \/ \E d \in Doc : FindStore(t, d)
         \/ AgentCommit(t) \/ CommitArchive(t, TRUE)
         \/ CommitEnd(t)
         \/ \E source \in {"allowed", "denied"} : Ingest(t, source)
         \/ IngestBlob(t) \/ IngestMeta(t)
         \/ VikingBegin(t) \/ VikingAdd(t) \/ VikingCommit(t) \/ VikingFails(t)

MemorySpec == MemoryInit /\ [][MemoryNext]_memoryVars

-----------------------------------------------------------------------------
(* Properties *)

Stale(d) == vec[d] # 0 /\ vec[d] # body[d]

\* A vector that is kept is of the text beside it, so that a search ranks what it returns;
\* except while a write is between the two files, or when a crash came there or the old
\* vector could not be unlinked, when a memo was written over the body, or when a search
\* had read the text before a write and kept its vector after it.
StaleVectorsExplained == \A d \in Doc : Stale(d) => CutShort(d) \/ excuse[d] # {}

\* "Stale embedding/meta sidecars must not persist past a content rewrite": with nothing
\* under way, no crash, no write that reported a failure and no search that met a write,
\* every kept vector is of its text.
NoStaleSidecar ==
    \A d \in Doc : (\A t \in MemThread : mem[t] = Idle) /\ excuse[d] \cap {"crash", "unlink", "overlap"} = {}
                     => ~Stale(d)
=============================================================================
