---------------------------- MODULE ArtifactStore ----------------------------
(* Artifact stores: payloads under their SHA-256 digest, with a manifest      *)
(* beside each.  LocalArtifactStore keeps both as files, S3ArtifactStore as   *)
(* objects of an external service.  Threads and processes put and delete the  *)
(* same digest without a lock, and may stop between any two steps.            *)
EXTENDS Naturals, FiniteSets

CONSTANTS
    Key,          \* a tenant and digest in a store
    IsS3,         \* IsS3[k]: whether k is in the S3 store
    Writer,       \* threads that use the stores
    NoKey,
    MaxPuts,      \* bound on puts
    MaxStops      \* bound on crashes

ASSUME ArtifactConstants ==
    /\ IsS3 \in [Key -> BOOLEAN] /\ NoKey \notin Key /\ MaxPuts \in Nat /\ MaxStops \in Nat

VARIABLES
    payload,    \* payload[k]: whether the payload is there, whole
    manifest,   \* manifest[k]: whether the manifest is there
    uploads,    \* temporary files left in the root
    task,       \* task[w]: [op, step, key, clean], what w is doing
    acked,      \* keys whose put has returned and that nothing has touched since
    puts, stops

artifactVars == <<payload, manifest, uploads, task, acked, puts, stops>>

Resting == [op |-> "none", step |-> "", key |-> NoKey, clean |-> TRUE]

ArtifactInit ==
    /\ payload = [k \in Key |-> FALSE] /\ manifest = [k \in Key |-> FALSE]
    /\ uploads = 0 /\ task = [w \in Writer |-> Resting] /\ acked = {}
    /\ puts = 0 /\ stops = 0

On(w, op, step) == task[w].op = op /\ task[w].step = step
Goes(w, step) == task' = [task EXCEPT ![w].step = step]
Rests(w) == task' = [task EXCEPT ![w] = Resting]

Deleting(k) == \E w \in Writer : task[w].op = "delete" /\ task[w].key = k

\* Something removes the payload of k: no put of it that has returned, or is under way,
\* is protected any more.
Unprotected(tasks, k) ==
    [w \in Writer |-> IF tasks[w].key = k THEN [tasks[w] EXCEPT !.clean = FALSE] ELSE tasks[w]]

-----------------------------------------------------------------------------
(* put *)

\* The content is staged and its digest known, unless it is too large or unreadable.
PutStage(w, k) ==
    /\ task[w] = Resting /\ puts < MaxPuts /\ puts' = puts + 1
    /\ task' = [task EXCEPT ![w] = [op |-> "put", step |-> IF IsS3[k] THEN "s3payload" ELSE "check",
                                    key |-> k, clean |-> ~Deleting(k)]]
    /\ uploads' = IF IsS3[k] THEN uploads ELSE uploads + 1
    /\ UNCHANGED <<payload, manifest, acked, stops>>

\* payload.exists(): the upload is dropped, or takes the payload's place in a later step.
PutCheck(w) ==
    /\ On(w, "put", "check")
    /\ IF payload[task[w].key] THEN Goes(w, "manifest") /\ uploads' = uploads - 1
       ELSE Goes(w, "replace") /\ UNCHANGED uploads
    /\ UNCHANGED <<payload, manifest, acked, puts, stops>>

PutReplace(w) ==
    /\ On(w, "put", "replace") /\ Goes(w, "manifest") /\ uploads' = uploads - 1
    /\ payload' = [payload EXCEPT ![task[w].key] = TRUE]
    /\ UNCHANGED <<manifest, acked, puts, stops>>

\* _atomic_write of the manifest, and stat, which must find it.
PutManifest(w) ==
    /\ On(w, "put", "manifest") /\ Goes(w, "stat")
    /\ manifest' = [manifest EXCEPT ![task[w].key] = TRUE]
    /\ UNCHANGED <<payload, uploads, acked, puts, stops>>

Acknowledge(w) == acked' = IF task[w].clean THEN acked \cup {task[w].key} ELSE acked

PutStat(w) ==
    /\ On(w, "put", "stat") /\ Rests(w)
    /\ IF manifest[task[w].key] THEN Acknowledge(w) ELSE UNCHANGED acked
    /\ UNCHANGED <<payload, manifest, uploads, puts, stops>>

\* A failed put that removes the payload of its digest.
AfterFailedPut_Removes(k) == [payload EXCEPT ![k] = FALSE]

\* An error on the way: the finally clause drops the upload and leaves the payload, which
\* may be that of another put.
AfterFailedPut(k) == payload

PutFails(w) ==
    /\ task[w].op = "put" /\ task[w].step \in {"check", "replace", "manifest", "stat"} /\ Rests(w)
    /\ payload' = AfterFailedPut(task[w].key)
    /\ uploads' = IF task[w].step \in {"manifest", "stat"} THEN uploads ELSE uploads - 1
    /\ UNCHANGED <<manifest, acked, puts, stops>>

\* S3: both objects are written over, perhaps also by a request that is answered with an
\* error.  When the manifest fails the payload is deleted, also the one an earlier put has
\* left there; and that may fail too.
S3PutPayload(w) ==
    /\ On(w, "put", "s3payload")
    /\ \/ Goes(w, "s3manifest") /\ payload' = [payload EXCEPT ![task[w].key] = TRUE]
       \/ Rests(w) /\ payload' \in {payload, [payload EXCEPT ![task[w].key] = TRUE]}
    /\ UNCHANGED <<manifest, uploads, acked, puts, stops>>

S3PutManifest(w) ==
    /\ On(w, "put", "s3manifest")
    /\ \/ /\ manifest' = [manifest EXCEPT ![task[w].key] = TRUE]
          /\ Rests(w) /\ Acknowledge(w)
       \/ /\ Goes(w, "s3cleanup") /\ UNCHANGED acked
          /\ manifest' \in {manifest, [manifest EXCEPT ![task[w].key] = TRUE]}
    /\ UNCHANGED <<payload, uploads, puts, stops>>

S3PutCleanup(w) ==
    /\ On(w, "put", "s3cleanup")
    /\ LET k == task[w].key IN
         /\ payload' \in {payload, [payload EXCEPT ![k] = FALSE]} /\ acked' = acked \ {k}
         /\ task' = Unprotected([task EXCEPT ![w] = Resting], k)
    /\ UNCHANGED <<manifest, uploads, puts, stops>>

-----------------------------------------------------------------------------
(* get, stat and delete *)

\* get verifies the digest and does not ask for the manifest; stat does not ask for the payload.
GetArtifact(k)  == payload[k]
StatArtifact(k) == manifest[k]

\* S3 deletes only what stat finds.
DeleteBegin(w, k) ==
    /\ task[w] = Resting /\ (IsS3[k] => StatArtifact(k))
    /\ LET new == [op |-> "delete", step |-> IF IsS3[k] THEN "s3" ELSE "payload", key |-> k, clean |-> FALSE]
       IN task' = Unprotected([task EXCEPT ![w] = new], k)
    /\ acked' = acked \ {k}
    /\ UNCHANGED <<payload, manifest, uploads, puts, stops>>

DeletePayload(w) ==
    /\ On(w, "delete", "payload") /\ Goes(w, "manifest")
    /\ payload' = [payload EXCEPT ![task[w].key] = FALSE]
    /\ UNCHANGED <<manifest, uploads, acked, puts, stops>>

DeleteManifest(w) ==
    /\ On(w, "delete", "manifest") /\ Rests(w)
    /\ manifest' = [manifest EXCEPT ![task[w].key] = FALSE]
    /\ UNCHANGED <<payload, uploads, acked, puts, stops>>

\* delete_objects tells which keys it could not delete; nobody looks.
S3Delete(w) ==
    /\ On(w, "delete", "s3") /\ Rests(w)
    /\ payload' \in {payload, [payload EXCEPT ![task[w].key] = FALSE]}
    /\ manifest' \in {manifest, [manifest EXCEPT ![task[w].key] = FALSE]}
    /\ UNCHANGED <<uploads, acked, puts, stops>>

-----------------------------------------------------------------------------

\* All threads of the process stop; uploads stay in the root.
StopAll ==
    /\ stops < MaxStops /\ stops' = stops + 1
    /\ task' = [w \in Writer |-> Resting]
    /\ UNCHANGED <<payload, manifest, uploads, acked, puts>>

ArtifactNext ==
    \/ StopAll
    \/ \E w \in Writer :
         \/ \E k \in Key : PutStage(w, k) \/ DeleteBegin(w, k)
         \/ PutCheck(w) \/ PutReplace(w) \/ PutManifest(w) \/ PutStat(w) \/ PutFails(w)
         \/ S3PutPayload(w) \/ S3PutManifest(w) \/ S3PutCleanup(w)
         \/ DeletePayload(w) \/ DeleteManifest(w) \/ S3Delete(w)

ArtifactSpec == ArtifactInit /\ [][ArtifactNext]_artifactVars

-----------------------------------------------------------------------------
(* Properties *)

\* What a put has returned that no delete overlapped can be got and looked up from then on,
\* until a delete begins or the cleanup of a failing S3 put of the same content
\* (store.py:332-336): no other local put of the same digest, of this process or another,
\* no error in it and no crash costs it its payload or manifest.
AckedArtifactsStay == \A k \in acked : GetArtifact(k) /\ StatArtifact(k)

\* store.py:147, "Atomic filesystem store": once every put and delete of a local artifact
\* has returned, it is there as a whole or not at all, so that what stat finds get finds.
ManifestsHavePayloads ==
    \A k \in Key : ~IsS3[k] /\ (\A w \in Writer : task[w].key # k)
        => (StatArtifact(k) => GetArtifact(k))
=============================================================================
