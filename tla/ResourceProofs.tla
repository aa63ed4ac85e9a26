--------------------------- MODULE ResourceProofs ---------------------------
(* Proofs about the files and tables that runs and sessions leave behind:     *)
(* artifacts, memories, configuration and the registry tables; and about the  *)
(* traversals of plans and lineages.  The components share no state; each     *)
(* part has its own inductive invariant.                                      *)
EXTENDS ArtifactStore, Memory, ConfigFiles, RegistryTables, Traversals, SequenceTheorems,
        FiniteSetTheorems, TLAPS

-----------------------------------------------------------------------------
(* Artifacts *)

TaskStep == {"", "check", "replace", "manifest", "stat", "s3payload", "s3manifest", "s3cleanup",
             "payload", "s3"}
Task == [op : {"none", "put", "delete"}, step : TaskStep, key : Key \cup {NoKey}, clean : BOOLEAN]

ArtifactTyped ==
    /\ payload \in [Key -> BOOLEAN] /\ manifest \in [Key -> BOOLEAN]
    /\ task \in [Writer -> Task] /\ acked \subseteq Key

\* A writer that does something does it to a key.
TaskKeyed == \A w \in Writer : task[w].op # "none" => task[w].key \in Key

\* A protected put is not being deleted, and past its upload finds its payload.
PutsProtected ==
    \A w \in Writer : task[w].op = "put" /\ task[w].clean =>
        /\ ~Deleting(task[w].key)
        /\ task[w].step \in {"manifest", "stat", "s3manifest"} => payload[task[w].key]

\* Nobody deletes what is acknowledged: a delete withdraws it first.
AckedProtected == \A k \in acked : ~Deleting(k)

ArtifactInv == ArtifactTyped /\ TaskKeyed /\ PutsProtected /\ AckedProtected /\ AckedArtifactsStay

LEMMA RestingTask == Resting \in Task /\ Resting.op = "none"
  BY DEF Resting, Task, TaskStep

LEMMA ArtifactInitially == ArtifactInit => ArtifactInv
  <1> SUFFICES ASSUME ArtifactInit PROVE ArtifactInv
    OBVIOUS
  <1>1. ArtifactTyped
    BY RestingTask DEF ArtifactInit, ArtifactTyped
  <1>2. \A w \in Writer : task[w].op = "none"
    BY RestingTask DEF ArtifactInit
  <1>3. acked = {}
    BY DEF ArtifactInit
  <1> QED
    BY <1>1, <1>2, <1>3
    DEF ArtifactInv, TaskKeyed, PutsProtected, AckedProtected, AckedArtifactsStay

\* What a step of one writer does to the tasks.
LEMMA TaskGoes ==
    ASSUME ArtifactTyped, TaskKeyed, NEW w \in Writer, NEW s \in TaskStep, Goes(w, s)
    PROVE  /\ task' \in [Writer -> Task] /\ TaskKeyed'
           /\ \A k \in Key : Deleting(k)' => Deleting(k)
           /\ task'[w].op = task[w].op /\ task'[w].key = task[w].key
           /\ task'[w].clean = task[w].clean /\ task'[w].step = s
           /\ \A v \in Writer \ {w} : task'[v] = task[v]
  BY DEF ArtifactTyped, Task, Goes, TaskKeyed, Deleting

LEMMA TaskRests ==
    ASSUME ArtifactTyped, TaskKeyed, NEW w \in Writer, Rests(w)
    PROVE  /\ task' \in [Writer -> Task] /\ TaskKeyed'
           /\ \A k \in Key : Deleting(k)' => Deleting(k)
           /\ task'[w].op = "none"
           /\ \A v \in Writer \ {w} : task'[v] = task[v]
  BY RestingTask DEF ArtifactTyped, Rests, TaskKeyed, Deleting

\* What is unprotected stays what it is otherwise.
LEMMA UnprotectedTasks ==
    ASSUME NEW tasks \in [Writer -> Task], NEW k \in Key
    PROVE  /\ Unprotected(tasks, k) \in [Writer -> Task]
           /\ \A v \in Writer :
                 /\ Unprotected(tasks, k)[v].op = tasks[v].op
                 /\ Unprotected(tasks, k)[v].key = tasks[v].key
                 /\ Unprotected(tasks, k)[v].step = tasks[v].step
                 /\ Unprotected(tasks, k)[v].clean = (tasks[v].clean /\ tasks[v].key # k)
  BY DEF Unprotected, Task

\* Every step keeps the invariant.
LEMMA ArtifactStep == ArtifactInv /\ [ArtifactNext]_artifactVars => ArtifactInv'
  <1> SUFFICES ASSUME ArtifactInv, [ArtifactNext]_artifactVars PROVE ArtifactInv'
    OBVIOUS
  <1> USE DEF ArtifactInv
  <1>1. CASE UNCHANGED artifactVars
    BY <1>1 DEF artifactVars, ArtifactTyped, TaskKeyed, PutsProtected, AckedProtected,
            AckedArtifactsStay, Deleting, GetArtifact, StatArtifact
  <1>2. CASE StopAll
    BY <1>2, RestingTask DEF StopAll, ArtifactTyped, TaskKeyed, PutsProtected, AckedProtected,
            AckedArtifactsStay, Deleting, GetArtifact, StatArtifact
  <1>3. ASSUME NEW w \in Writer, PutCheck(w) PROVE ArtifactInv'
    <2>1. \/ payload[task[w].key] /\ Goes(w, "manifest")
          \/ Goes(w, "replace")
      BY <1>3 DEF PutCheck
    <2>2. CASE payload[task[w].key] /\ Goes(w, "manifest")
      <3>1. task' \in [Writer -> Task] /\ TaskKeyed' /\ \A k \in Key : Deleting(k)' => Deleting(k)
        BY <2>2, TaskGoes DEF TaskStep
      <3>2. /\ task'[w].op = task[w].op /\ task'[w].key = task[w].key
            /\ task'[w].clean = task[w].clean /\ task'[w].step = "manifest"
            /\ \A v \in Writer \ {w} : task'[v] = task[v]
        BY <2>2, TaskGoes DEF TaskStep
      <3>3. task[w].key \in Key
        BY <1>3 DEF PutCheck, On, TaskKeyed
      <3>4. ArtifactTyped'
        BY <1>3, <3>1, <3>3 DEF PutCheck, ArtifactTyped
      <3>5. PutsProtected'
        BY <1>3, <2>2, <3>1, <3>2, <3>3 DEF PutCheck, On, ArtifactTyped, TaskKeyed, PutsProtected, Deleting
      <3>6. AckedProtected' /\ AckedArtifactsStay'
        BY <1>3, <2>2, <3>1, <3>2, <3>3 DEF PutCheck, On, ArtifactTyped, PutsProtected, AckedProtected,
               AckedArtifactsStay, GetArtifact, StatArtifact, Deleting
      <3> QED
        BY <3>1, <3>4, <3>5, <3>6
    <2>3. CASE Goes(w, "replace")
      <3>1. task' \in [Writer -> Task] /\ TaskKeyed' /\ \A k \in Key : Deleting(k)' => Deleting(k)
        BY <2>3, TaskGoes DEF TaskStep
      <3>2. /\ task'[w].op = task[w].op /\ task'[w].key = task[w].key
            /\ task'[w].clean = task[w].clean /\ task'[w].step = "replace"
            /\ \A v \in Writer \ {w} : task'[v] = task[v]
        BY <2>3, TaskGoes DEF TaskStep
      <3>3. task[w].key \in Key
        BY <1>3 DEF PutCheck, On, TaskKeyed
      <3>4. ArtifactTyped'
        BY <1>3, <3>1, <3>3 DEF PutCheck, ArtifactTyped
      <3>5. PutsProtected'
        BY <1>3, <2>3, <3>1, <3>2, <3>3 DEF PutCheck, On, ArtifactTyped, TaskKeyed, PutsProtected, Deleting
      <3>6. AckedProtected' /\ AckedArtifactsStay'
        BY <1>3, <2>3, <3>1, <3>2, <3>3 DEF PutCheck, On, ArtifactTyped, PutsProtected, AckedProtected,
               AckedArtifactsStay, GetArtifact, StatArtifact, Deleting
      <3> QED
        BY <3>1, <3>4, <3>5, <3>6
    <2> QED
      BY <2>1, <2>2, <2>3
  <1>4. ASSUME NEW w \in Writer, PutReplace(w) PROVE ArtifactInv'
    <2>1. Goes(w, "manifest")
      BY <1>4 DEF PutReplace
    <2>2. CASE Goes(w, "manifest")
      <3>1. task' \in [Writer -> Task] /\ TaskKeyed' /\ \A k \in Key : Deleting(k)' => Deleting(k)
        BY <2>2, TaskGoes DEF TaskStep
      <3>2. /\ task'[w].op = task[w].op /\ task'[w].key = task[w].key
            /\ task'[w].clean = task[w].clean /\ task'[w].step = "manifest"
            /\ \A v \in Writer \ {w} : task'[v] = task[v]
        BY <2>2, TaskGoes DEF TaskStep
      <3>3. task[w].key \in Key
        BY <1>4 DEF PutReplace, On, TaskKeyed
      <3>4. ArtifactTyped'
        BY <1>4, <3>1, <3>3 DEF PutReplace, ArtifactTyped
      <3>5. PutsProtected'
        BY <1>4, <2>2, <3>1, <3>2, <3>3 DEF PutReplace, On, ArtifactTyped, TaskKeyed, PutsProtected, Deleting
      <3>6. AckedProtected' /\ AckedArtifactsStay'
        BY <1>4, <2>2, <3>1, <3>2, <3>3 DEF PutReplace, On, ArtifactTyped, PutsProtected, AckedProtected,
               AckedArtifactsStay, GetArtifact, StatArtifact, Deleting
      <3> QED
        BY <3>1, <3>4, <3>5, <3>6
    <2> QED
      BY <2>1, <2>2
  <1>5. ASSUME NEW w \in Writer, PutManifest(w) PROVE ArtifactInv'
    <2>1. Goes(w, "stat")
      BY <1>5 DEF PutManifest
    <2>2. CASE Goes(w, "stat")
      <3>1. task' \in [Writer -> Task] /\ TaskKeyed' /\ \A k \in Key : Deleting(k)' => Deleting(k)
        BY <2>2, TaskGoes DEF TaskStep
      <3>2. /\ task'[w].op = task[w].op /\ task'[w].key = task[w].key
            /\ task'[w].clean = task[w].clean /\ task'[w].step = "stat"
            /\ \A v \in Writer \ {w} : task'[v] = task[v]
        BY <2>2, TaskGoes DEF TaskStep
      <3>3. task[w].key \in Key
        BY <1>5 DEF PutManifest, On, TaskKeyed
      <3>4. ArtifactTyped'
        BY <1>5, <3>1, <3>3 DEF PutManifest, ArtifactTyped
      <3>5. PutsProtected'
        BY <1>5, <2>2, <3>1, <3>2, <3>3 DEF PutManifest, On, ArtifactTyped, TaskKeyed, PutsProtected, Deleting
      <3>6. AckedProtected' /\ AckedArtifactsStay'
        BY <1>5, <2>2, <3>1, <3>2, <3>3 DEF PutManifest, On, ArtifactTyped, PutsProtected, AckedProtected,
               AckedArtifactsStay, GetArtifact, StatArtifact, Deleting
      <3> QED
        BY <3>1, <3>4, <3>5, <3>6
    <2> QED
      BY <2>1, <2>2
  <1>6. ASSUME NEW w \in Writer, PutStat(w) PROVE ArtifactInv'
    <2>1. Rests(w)
      BY <1>6 DEF PutStat
    <2>2. CASE Rests(w)
      <3>1. task' \in [Writer -> Task] /\ TaskKeyed' /\ \A k \in Key : Deleting(k)' => Deleting(k)
        BY <2>2, TaskRests DEF TaskStep
      <3>2. task'[w].op = "none" /\ \A v \in Writer \ {w} : task'[v] = task[v]
        BY <2>2, TaskRests
      <3>3. task[w].key \in Key
        BY <1>6 DEF PutStat, On, TaskKeyed
      <3>4. ArtifactTyped'
        BY <1>6, <3>1, <3>3 DEF PutStat, ArtifactTyped, Acknowledge
      <3>5. PutsProtected'
        BY <1>6, <2>2, <3>1, <3>2, <3>3 DEF PutStat, On, ArtifactTyped, TaskKeyed, PutsProtected, Deleting, Acknowledge
      <3>6. AckedProtected' /\ AckedArtifactsStay'
        BY <1>6, <2>2, <3>1, <3>2, <3>3 DEF PutStat, On, ArtifactTyped, PutsProtected, AckedProtected,
               AckedArtifactsStay, GetArtifact, StatArtifact, Deleting, Acknowledge
      <3> QED
        BY <3>1, <3>4, <3>5, <3>6
    <2> QED
      BY <2>1, <2>2
  <1>7. ASSUME NEW w \in Writer, PutFails(w) PROVE ArtifactInv'
    <2>1. Rests(w)
      BY <1>7 DEF PutFails
    <2>2. CASE Rests(w)
      <3>1. task' \in [Writer -> Task] /\ TaskKeyed' /\ \A k \in Key : Deleting(k)' => Deleting(k)
        BY <2>2, TaskRests DEF TaskStep
      <3>2. task'[w].op = "none" /\ \A v \in Writer \ {w} : task'[v] = task[v]
        BY <2>2, TaskRests
      <3>3. task[w].key \in Key
        BY <1>7 DEF PutFails, On, TaskKeyed
      <3>4. ArtifactTyped'
        BY <1>7, <3>1, <3>3 DEF PutFails, ArtifactTyped, AfterFailedPut
      <3>5. PutsProtected'
        BY <1>7, <2>2, <3>1, <3>2, <3>3 DEF PutFails, On, ArtifactTyped, TaskKeyed, PutsProtected, Deleting, AfterFailedPut
      <3>6. AckedProtected' /\ AckedArtifactsStay'
        BY <1>7, <2>2, <3>1, <3>2, <3>3 DEF PutFails, On, ArtifactTyped, PutsProtected, AckedProtected,
               AckedArtifactsStay, GetArtifact, StatArtifact, Deleting, AfterFailedPut
      <3> QED
        BY <3>1, <3>4, <3>5, <3>6
    <2> QED
      BY <2>1, <2>2
  <1>8. ASSUME NEW w \in Writer, S3PutPayload(w) PROVE ArtifactInv'
    <2>1. \/ Goes(w, "s3manifest") /\ payload' = [payload EXCEPT ![task[w].key] = TRUE]
          \/ Rests(w)
      BY <1>8 DEF S3PutPayload
    <2>2. CASE Goes(w, "s3manifest") /\ payload' = [payload EXCEPT ![task[w].key] = TRUE]
      <3>1. task' \in [Writer -> Task] /\ TaskKeyed' /\ \A k \in Key : Deleting(k)' => Deleting(k)
        BY <2>2, TaskGoes DEF TaskStep
      <3>2. /\ task'[w].op = task[w].op /\ task'[w].key = task[w].key
            /\ task'[w].clean = task[w].clean /\ task'[w].step = "s3manifest"
            /\ \A v \in Writer \ {w} : task'[v] = task[v]
        BY <2>2, TaskGoes DEF TaskStep
      <3>3. task[w].key \in Key
        BY <1>8 DEF S3PutPayload, On, TaskKeyed
      <3>4. ArtifactTyped'
        BY <1>8, <3>1, <3>3 DEF S3PutPayload, ArtifactTyped
      <3>5. PutsProtected'
        BY <1>8, <2>2, <3>1, <3>2, <3>3 DEF S3PutPayload, On, ArtifactTyped, TaskKeyed, PutsProtected, Deleting
      <3>6. AckedProtected' /\ AckedArtifactsStay'
        BY <1>8, <2>2, <3>1, <3>2, <3>3 DEF S3PutPayload, On, ArtifactTyped, PutsProtected, AckedProtected,
               AckedArtifactsStay, GetArtifact, StatArtifact, Deleting
      <3> QED
        BY <3>1, <3>4, <3>5, <3>6
    <2>3. CASE Rests(w)
      <3>1. task' \in [Writer -> Task] /\ TaskKeyed' /\ \A k \in Key : Deleting(k)' => Deleting(k)
        BY <2>3, TaskRests DEF TaskStep
      <3>2. task'[w].op = "none" /\ \A v \in Writer \ {w} : task'[v] = task[v]
        BY <2>3, TaskRests
      <3>3. task[w].key \in Key
        BY <1>8 DEF S3PutPayload, On, TaskKeyed
      <3>4. ArtifactTyped'
        BY <1>8, <3>1, <3>3 DEF S3PutPayload, ArtifactTyped
      <3>5. PutsProtected'
        BY <1>8, <2>3, <3>1, <3>2, <3>3 DEF S3PutPayload, On, ArtifactTyped, TaskKeyed, PutsProtected, Deleting
      <3>6. AckedProtected' /\ AckedArtifactsStay'
        BY <1>8, <2>3, <3>1, <3>2, <3>3 DEF S3PutPayload, On, ArtifactTyped, PutsProtected, AckedProtected,
               AckedArtifactsStay, GetArtifact, StatArtifact, Deleting
      <3> QED
        BY <3>1, <3>4, <3>5, <3>6
    <2> QED
      BY <2>1, <2>2, <2>3
  <1>9. ASSUME NEW w \in Writer, S3PutManifest(w) PROVE ArtifactInv'
    <2>1. \/ Goes(w, "s3cleanup")
          \/ Rests(w)
      BY <1>9 DEF S3PutManifest
    <2>2. CASE Goes(w, "s3cleanup")
      <3>1. task' \in [Writer -> Task] /\ TaskKeyed' /\ \A k \in Key : Deleting(k)' => Deleting(k)
        BY <2>2, TaskGoes DEF TaskStep
      <3>2. /\ task'[w].op = task[w].op /\ task'[w].key = task[w].key
            /\ task'[w].clean = task[w].clean /\ task'[w].step = "s3cleanup"
            /\ \A v \in Writer \ {w} : task'[v] = task[v]
        BY <2>2, TaskGoes DEF TaskStep
      <3>3. task[w].key \in Key
        BY <1>9 DEF S3PutManifest, On, TaskKeyed
      <3>4. ArtifactTyped'
        BY <1>9, <3>1, <3>3 DEF S3PutManifest, ArtifactTyped, Acknowledge
      <3>5. PutsProtected'
        BY <1>9, <2>2, <3>1, <3>2, <3>3 DEF S3PutManifest, On, ArtifactTyped, TaskKeyed, PutsProtected, Deleting, Acknowledge
      <3>6. AckedProtected' /\ AckedArtifactsStay'
        BY <1>9, <2>2, <3>1, <3>2, <3>3 DEF S3PutManifest, On, ArtifactTyped, PutsProtected, AckedProtected,
               AckedArtifactsStay, GetArtifact, StatArtifact, Deleting, Acknowledge
      <3> QED
        BY <3>1, <3>4, <3>5, <3>6
    <2>3. CASE Rests(w)
      <3>1. task' \in [Writer -> Task] /\ TaskKeyed' /\ \A k \in Key : Deleting(k)' => Deleting(k)
        BY <2>3, TaskRests DEF TaskStep
      <3>2. task'[w].op = "none" /\ \A v \in Writer \ {w} : task'[v] = task[v]
        BY <2>3, TaskRests
      <3>3. task[w].key \in Key
        BY <1>9 DEF S3PutManifest, On, TaskKeyed
      <3>4. ArtifactTyped'
        BY <1>9, <3>1, <3>3 DEF S3PutManifest, ArtifactTyped, Acknowledge
      <3>5. PutsProtected'
        BY <1>9, <2>3, <3>1, <3>2, <3>3 DEF S3PutManifest, On, ArtifactTyped, TaskKeyed, PutsProtected, Deleting, Acknowledge
      <3>6. AckedProtected' /\ AckedArtifactsStay'
        BY <1>9, <2>3, <3>1, <3>2, <3>3 DEF S3PutManifest, On, ArtifactTyped, PutsProtected, AckedProtected,
               AckedArtifactsStay, GetArtifact, StatArtifact, Deleting, Acknowledge
      <3> QED
        BY <3>1, <3>4, <3>5, <3>6
    <2> QED
      BY <2>1, <2>2, <2>3
  <1>10. ASSUME NEW w \in Writer, DeletePayload(w) PROVE ArtifactInv'
    <2>1. Goes(w, "manifest")
      BY <1>10 DEF DeletePayload
    <2>2. CASE Goes(w, "manifest")
      <3>1. task' \in [Writer -> Task] /\ TaskKeyed' /\ \A k \in Key : Deleting(k)' => Deleting(k)
        BY <2>2, TaskGoes DEF TaskStep
      <3>2. /\ task'[w].op = task[w].op /\ task'[w].key = task[w].key
            /\ task'[w].clean = task[w].clean /\ task'[w].step = "manifest"
            /\ \A v \in Writer \ {w} : task'[v] = task[v]
        BY <2>2, TaskGoes DEF TaskStep
      <3>3. task[w].key \in Key
        BY <1>10 DEF DeletePayload, On, TaskKeyed
      <3>4. ArtifactTyped'
        BY <1>10, <3>1, <3>3 DEF DeletePayload, ArtifactTyped
      <3>5. PutsProtected'
        BY <1>10, <2>2, <3>1, <3>2, <3>3 DEF DeletePayload, On, ArtifactTyped, TaskKeyed, PutsProtected, Deleting
      <3>6. AckedProtected' /\ AckedArtifactsStay'
        BY <1>10, <2>2, <3>1, <3>2, <3>3 DEF DeletePayload, On, ArtifactTyped, PutsProtected, AckedProtected,
               AckedArtifactsStay, GetArtifact, StatArtifact, Deleting
      <3> QED
        BY <3>1, <3>4, <3>5, <3>6
    <2> QED
      BY <2>1, <2>2
  <1>11. ASSUME NEW w \in Writer, DeleteManifest(w) PROVE ArtifactInv'
    <2>1. Rests(w)
      BY <1>11 DEF DeleteManifest
    <2>2. CASE Rests(w)
      <3>1. task' \in [Writer -> Task] /\ TaskKeyed' /\ \A k \in Key : Deleting(k)' => Deleting(k)
        BY <2>2, TaskRests DEF TaskStep
      <3>2. task'[w].op = "none" /\ \A v \in Writer \ {w} : task'[v] = task[v]
        BY <2>2, TaskRests
      <3>3. task[w].key \in Key
        BY <1>11 DEF DeleteManifest, On, TaskKeyed
      <3>4. ArtifactTyped'
        BY <1>11, <3>1, <3>3 DEF DeleteManifest, ArtifactTyped
      <3>5. PutsProtected'
        BY <1>11, <2>2, <3>1, <3>2, <3>3 DEF DeleteManifest, On, ArtifactTyped, TaskKeyed, PutsProtected, Deleting
      <3>6. AckedProtected' /\ AckedArtifactsStay'
        BY <1>11, <2>2, <3>1, <3>2, <3>3 DEF DeleteManifest, On, ArtifactTyped, PutsProtected, AckedProtected,
               AckedArtifactsStay, GetArtifact, StatArtifact, Deleting
      <3> QED
        BY <3>1, <3>4, <3>5, <3>6
    <2> QED
      BY <2>1, <2>2
  <1>12. ASSUME NEW w \in Writer, S3Delete(w) PROVE ArtifactInv'
    <2>1. Rests(w)
      BY <1>12 DEF S3Delete
    <2>2. CASE Rests(w)
      <3>1. task' \in [Writer -> Task] /\ TaskKeyed' /\ \A k \in Key : Deleting(k)' => Deleting(k)
        BY <2>2, TaskRests DEF TaskStep
      <3>2. task'[w].op = "none" /\ \A v \in Writer \ {w} : task'[v] = task[v]
        BY <2>2, TaskRests
      <3>3. task[w].key \in Key
        BY <1>12 DEF S3Delete, On, TaskKeyed
      <3>4. ArtifactTyped'
        BY <1>12, <3>1, <3>3 DEF S3Delete, ArtifactTyped
      <3>5. PutsProtected'
        BY <1>12, <2>2, <3>1, <3>2, <3>3 DEF S3Delete, On, ArtifactTyped, TaskKeyed, PutsProtected, Deleting
      <3>6. AckedProtected' /\ AckedArtifactsStay'
        BY <1>12, <2>2, <3>1, <3>2, <3>3 DEF S3Delete, On, ArtifactTyped, PutsProtected, AckedProtected,
               AckedArtifactsStay, GetArtifact, StatArtifact, Deleting
      <3> QED
        BY <3>1, <3>4, <3>5, <3>6
    <2> QED
      BY <2>1, <2>2
  <1>13. ASSUME NEW w \in Writer, NEW k \in Key, PutStage(w, k) PROVE ArtifactInv'
    <2>1. /\ task' \in [Writer -> Task] /\ \A v \in Writer \ {w} : task'[v] = task[v]
          /\ task'[w].op = "put" /\ task'[w].key = k /\ task'[w].clean = ~Deleting(k)
          /\ task'[w].step \in {"s3payload", "check"}
      BY <1>13 DEF PutStage, ArtifactTyped, Task, TaskStep
    <2>2. \A x \in Key : Deleting(x)' => Deleting(x)
      BY <2>1 DEF Deleting
    <2> QED
      BY <1>13, <2>1, <2>2 DEF PutStage, ArtifactTyped, TaskKeyed, PutsProtected, AckedProtected,
         AckedArtifactsStay, GetArtifact, StatArtifact
  <1>14. ASSUME NEW w \in Writer, NEW k \in Key, DeleteBegin(w, k) PROVE ArtifactInv'
    <2> DEFINE new == [op |-> "delete", step |-> IF IsS3[k] THEN "s3" ELSE "payload", key |-> k, clean |-> FALSE]
               tasks == [task EXCEPT ![w] = new]
    <2>1. new \in Task /\ new.op = "delete"
      BY DEF Task, TaskStep
    <2>2. tasks \in [Writer -> Task] /\ tasks[w].op = "delete" /\ \A v \in Writer \ {w} : tasks[v] = task[v]
      BY <2>1 DEF ArtifactTyped
    <2>3. task' = Unprotected(tasks, k)
      BY <1>14 DEF DeleteBegin
    <2>4. tasks[w].key = k
      BY <2>1 DEF ArtifactTyped
    <2> HIDE DEF new, tasks
    <2>5. /\ task' \in [Writer -> Task]
          /\ task'[w].op = "delete" /\ task'[w].key = k
          /\ \A v \in Writer \ {w} : /\ task'[v].op = task[v].op /\ task'[v].key = task[v].key
                                     /\ task'[v].step = task[v].step
                                     /\ task'[v].clean = (task[v].clean /\ task[v].key # k)
      BY <2>2, <2>3, <2>4, UnprotectedTasks
    <2>6. \A x \in Key : Deleting(x)' => Deleting(x) \/ x = k
      BY <2>5 DEF Deleting
    <2> UNCHANGED <<payload, manifest>> /\ acked' = acked \ {k}
      BY <1>14 DEF DeleteBegin
    <2>7. ArtifactTyped' /\ TaskKeyed'
      BY <2>5 DEF ArtifactTyped, TaskKeyed
    <2>8. PutsProtected'
      BY <2>5, <2>6 DEF ArtifactTyped, TaskKeyed, PutsProtected
    <2>9. AckedProtected' /\ AckedArtifactsStay'
      BY <2>6 DEF ArtifactTyped, AckedProtected,
         AckedArtifactsStay, GetArtifact, StatArtifact
    <2> QED
      BY <2>7, <2>8, <2>9
  <1>15. ASSUME NEW w \in Writer, S3PutCleanup(w) PROVE ArtifactInv'
    <2> DEFINE k == task[w].key
               tasks == [task EXCEPT ![w] = Resting]
    <2>1. k \in Key
      BY <1>15 DEF S3PutCleanup, On, TaskKeyed
    <2>2. tasks \in [Writer -> Task] /\ tasks[w].op = "none" /\ \A v \in Writer \ {w} : tasks[v] = task[v]
      BY RestingTask DEF ArtifactTyped
    <2>3. task' = Unprotected(tasks, k)
      BY <1>15 DEF S3PutCleanup
    <2> HIDE DEF tasks
    <2>5. /\ task' \in [Writer -> Task]
          /\ task'[w].op = "none"
          /\ \A v \in Writer \ {w} : /\ task'[v].op = task[v].op /\ task'[v].key = task[v].key
                                     /\ task'[v].step = task[v].step
                                     /\ task'[v].clean = (task[v].clean /\ task[v].key # k)
      BY <2>1, <2>2, <2>3, UnprotectedTasks
    <2>6. \A x \in Key : Deleting(x)' => Deleting(x)
      BY <2>5 DEF Deleting
    <2>7. ArtifactTyped' /\ TaskKeyed'
      BY <1>15, <2>1, <2>5 DEF S3PutCleanup, ArtifactTyped, TaskKeyed
    <2>8. PutsProtected'
      BY ZenonT(60), <1>15, <2>1, <2>5, <2>6 DEF S3PutCleanup, ArtifactTyped, TaskKeyed, PutsProtected
    <2>9. AckedProtected' /\ AckedArtifactsStay'
      BY <1>15, <2>1, <2>6 DEF S3PutCleanup, ArtifactTyped, AckedProtected,
         AckedArtifactsStay, GetArtifact, StatArtifact
    <2> QED
      BY <2>7, <2>8, <2>9
  <1> QED
    BY <1>1, <1>2, <1>3, <1>4, <1>5, <1>6, <1>7, <1>8, <1>9, <1>10, <1>11, <1>12, <1>13, <1>14, <1>15 DEF ArtifactNext

\* What a put that no delete of the same content overlapped has returned stays available
\* until somebody deletes it or the clean-up of a failing S3 put of the same content does,
\* whichever writers put, fail, delete and stop at the same time: LocalArtifactStore and
\* S3ArtifactStore, any number of digests and threads.
THEOREM AcknowledgedStays == ArtifactSpec => []AckedArtifactsStay
  <1>1. ArtifactInv => AckedArtifactsStay
    BY DEF ArtifactInv
  <1> QED
    BY <1>1, ArtifactInitially, ArtifactStep, PTL DEF ArtifactSpec

-----------------------------------------------------------------------------
(* Memories *)

\* Files and threads are tables over documents and threads.
MemoryShaped ==
    /\ vec = [d \in Doc |-> vec[d]] /\ body = [d \in Doc |-> body[d]]
    /\ excuse = [d \in Doc |-> excuse[d]] /\ mem = [t \in MemThread |-> mem[t]]

MemoryInv == MemoryShaped /\ StaleVectorsExplained

LEMMA IdleIsIdle == Idle.op = "idle"
  BY DEF Idle

\* A thread that is not in a write may take up anything: writes that are between their
\* two files stay there.
LEMMA CutsStay ==
    ASSUME MemoryShaped, NEW t \in MemThread, NEW new, Becomes(t, new), mem[t].op # "write"
    PROVE  /\ mem' = [u \in MemThread |-> mem'[u]]
           /\ \A d \in Doc : CutShort(d) => CutShort(d)'
  <1>1. mem' = [u \in MemThread |-> mem'[u]] /\ \A u \in MemThread \ {t} : mem'[u] = mem[u]
    BY DEF MemoryShaped, Becomes
  <1>2. ASSUME NEW d \in Doc, CutShort(d) PROVE CutShort(d)'
    <2>1. PICK u \in MemThread : At(u, "write", "unlink") /\ mem[u].d = d
      BY <1>2 DEF CutShort
    <2>2. u # t
      BY <2>1 DEF At
    <2>3. mem'[u] = mem[u]
      BY <1>1, <2>2
    <2> QED
      BY <2>1, <2>3 DEF CutShort, At
  <1> QED
    BY <1>1, <1>2

\* Steps that leave the files alone.
LEMMA FilesKept ==
    ASSUME MemoryInv, UNCHANGED files,
           UNCHANGED mem \/ \E t \in MemThread : mem[t].op # "write" /\ \E new : Becomes(t, new)
    PROVE  MemoryInv'
  <1>1. mem' = [u \in MemThread |-> mem'[u]] /\ \A d \in Doc : CutShort(d) => CutShort(d)'
    <2>1. CASE UNCHANGED mem
      BY <2>1 DEF MemoryInv, MemoryShaped, CutShort, At
    <2>2. ASSUME NEW t \in MemThread, mem[t].op # "write", NEW new, Becomes(t, new)
          PROVE  mem' = [u \in MemThread |-> mem'[u]] /\ \A d \in Doc : CutShort(d) => CutShort(d)'
      BY <2>2, CutsStay DEF MemoryInv
    <2> QED
      BY <2>1, <2>2
  <1> QED
    BY <1>1 DEF MemoryInv, MemoryShaped, files, StaleVectorsExplained, Stale

LEMMA MemoryInitially == MemoryInit => MemoryInv
  BY DEF MemoryInit, MemoryInv, MemoryShaped, StaleVectorsExplained, Stale

\* Steps on stores, commits, resources and OpenViking, and searches that keep nothing.
LEMMA QuietSteps ==
    ASSUME MemoryInv,
           \/ \E m \in MemStore : OpenStore(m) \/ AcquireStore(m) \/ ReleaseStore(m)
           \/ GcCommits
           \/ \E t \in MemThread :
                \/ FindLoad(t) \/ FindLexical(t) \/ FindRank(t) \/ Inject(t) \/ FindCollect(t, {})
                \/ AgentCommit(t) \/ CommitArchive(t, TRUE) \/ CommitEnd(t)
                \/ \E source \in {"allowed", "denied"} : Ingest(t, source)
                \/ IngestBlob(t) \/ IngestMeta(t)
                \/ VikingBegin(t) \/ VikingAdd(t) \/ VikingCommit(t) \/ VikingFails(t)
    PROVE  MemoryInv'
  <1>1. ASSUME NEW m \in MemStore, OpenStore(m) \/ AcquireStore(m) \/ ReleaseStore(m)
        PROVE  UNCHANGED files /\ UNCHANGED mem
    BY <1>1 DEF OpenStore, AcquireStore, ReleaseStore
  <1>2. GcCommits => UNCHANGED files /\ UNCHANGED mem
    BY DEF GcCommits
  <1>3. ASSUME NEW t \in MemThread,
               \/ FindLoad(t) \/ FindLexical(t) \/ FindRank(t) \/ Inject(t) \/ FindCollect(t, {})
               \/ AgentCommit(t) \/ CommitArchive(t, TRUE) \/ CommitEnd(t)
               \/ \E source \in {"allowed", "denied"} : Ingest(t, source)
               \/ IngestBlob(t) \/ IngestMeta(t)
               \/ VikingBegin(t) \/ VikingAdd(t) \/ VikingCommit(t) \/ VikingFails(t)
        PROVE  UNCHANGED files /\ (UNCHANGED mem \/ (mem[t].op # "write" /\ \E new : Becomes(t, new)))
    <2>1. \A new : Begin(t, new) => mem[t].op # "write" /\ Becomes(t, new)
      BY IdleIsIdle DEF Begin
    <2>2. CASE Inject(t) \/ FindCollect(t, {})
      BY <2>1, <2>2, Zenon DEF Inject, FindCollect
    <2>3. CASE FindLoad(t) \/ FindLexical(t) \/ FindRank(t) \/ CommitEnd(t) \/ VikingAdd(t) \/ VikingFails(t)
                 \/ VikingCommit(t) \/ IngestBlob(t) \/ IngestMeta(t)
      <3>1. mem[t].op # "write"
        <4>1. FindLoad(t) \/ FindLexical(t) \/ FindRank(t) => mem[t].op = "find"
          BY Zenon DEF FindLoad, FindLexical, FindRank, At
        <4>2. CommitEnd(t) => mem[t].op = "commit"
          BY Zenon DEF CommitEnd, At
        <4>3. VikingAdd(t) \/ VikingFails(t) \/ VikingCommit(t) => mem[t].op = "viking"
          BY Zenon DEF VikingAdd, VikingFails, VikingCommit, At
        <4>4. IngestBlob(t) \/ IngestMeta(t) => mem[t].op = "resource"
          BY Zenon DEF IngestBlob, IngestMeta, At
        <4> QED
          BY <2>3, <4>1, <4>2, <4>3, <4>4
      <3>2. UNCHANGED files /\ \E new : Becomes(t, new)
        BY <2>3, Zenon DEF FindLoad, FindLexical, FindRank, CommitEnd, VikingAdd, VikingFails, VikingCommit,
                    IngestBlob, IngestMeta, End
      <3> QED
        BY <3>1, <3>2
    <2>4. CASE AgentCommit(t) \/ CommitArchive(t, TRUE)
      BY <2>1, <2>4 DEF AgentCommit, CommitArchive
    <2>5. CASE VikingBegin(t) \/ \E source \in {"allowed", "denied"} : Ingest(t, source)
      BY <2>1, <2>5 DEF VikingBegin, Ingest
    <2> QED
      BY <1>3, <2>2, <2>3, <2>4, <2>5
  <1> QED
    BY <1>1, <1>2, <1>3, FilesKept

LEMMA MemoryStep == MemoryInv /\ [MemoryNext]_memoryVars => MemoryInv'
  <1> SUFFICES ASSUME MemoryInv, [MemoryNext]_memoryVars PROVE MemoryInv'
    OBVIOUS
  <1>1. CASE UNCHANGED memoryVars
    BY <1>1, FilesKept DEF memoryVars, files
  <1>2. CASE PruneStore
    BY <1>2 DEF PruneStore, MemoryInv, MemoryShaped, StaleVectorsExplained, Stale
  <1>3. CASE MemCrash
    <2>1. MemoryShaped'
      BY <1>3 DEF MemCrash, MemoryInv, MemoryShaped
    <2>2. ASSUME NEW d \in Doc, Stale(d)' PROVE excuse'[d] # {}
      <3>1. Stale(d)
        BY <1>3, <2>2 DEF MemCrash, Stale
      <3>2. excuse'[d] = IF CutShort(d) THEN excuse[d] \cup {"crash"} ELSE excuse[d]
        BY <1>3, <3>1 DEF MemCrash, Stale
      <3> QED
        BY <3>1, <3>2 DEF MemoryInv, StaleVectorsExplained
    <2> QED
      BY <2>1, <2>2 DEF MemoryInv, StaleVectorsExplained
  <1>4. ASSUME NEW t \in MemThread, NEW u \in MemUri, WriteBody(t, u) PROVE MemoryInv'
    <2> DEFINE f == ResolveUri(u)
               new == [Idle EXCEPT !.op = "write", !.step = "unlink", !.d = f]
    <2>1. Becomes(t, new) /\ mem[t].op # "write" /\ UNCHANGED <<vec, excuse>>
      BY <1>4, IdleIsIdle DEF WriteBody, Begin
    <2>2. new.op = "write" /\ new.step = "unlink" /\ new.d = f
      BY DEF Idle
    <2>3. f \in Doc /\ body' = [body EXCEPT ![f] = version + 1]
      BY <1>4, MemoryConstants DEF WriteBody, Replace, ResolveUri, AtomicWriteText
    <2>4. mem'[t] = new
      BY <2>1 DEF Becomes, MemoryInv, MemoryShaped
    <2> HIDE DEF new
    <2>5. mem' = [v \in MemThread |-> mem'[v]] /\ \A d \in Doc : CutShort(d) => CutShort(d)'
      BY <2>1, CutsStay DEF MemoryInv
    <2>6. CutShort(f)'
      BY <2>2, <2>4 DEF CutShort, At
    <2> HIDE DEF f
    <2>7. MemoryShaped'
      BY <2>1, <2>3, <2>5 DEF MemoryInv, MemoryShaped
    <2>8. \A d \in Doc \ {f} : Stale(d)' => Stale(d)
      BY <2>1, <2>3 DEF Stale, MemoryInv, MemoryShaped
    <2> QED
      BY <2>1, <2>5, <2>6, <2>7, <2>8 DEF MemoryInv, StaleVectorsExplained
  <1>5. ASSUME NEW t \in MemThread, NEW u \in MemUri, Memo(t, u) PROVE MemoryInv'
    <2> DEFINE f == ResolveUri(u)
    <2>1. Becomes(t, [mem[t] EXCEPT !.n = 1]) /\ mem[t].op # "write" /\ UNCHANGED vec
      BY <1>5 DEF Memo, At
    <2>2. /\ f \in Doc /\ body' = [body EXCEPT ![f] = version + 1]
          /\ excuse' = [excuse EXCEPT ![f] = IF vec[f] = 0 THEN @ ELSE @ \cup {"memo"}]
      BY <1>5, MemoryConstants DEF Memo, Replace, ResolveUri, AtomicWriteText
    <2>3. mem' = [v \in MemThread |-> mem'[v]] /\ \A d \in Doc : CutShort(d) => CutShort(d)'
      BY <2>1, CutsStay DEF MemoryInv
    <2> HIDE DEF f
    <2>4. MemoryShaped'
      BY <2>1, <2>2, <2>3 DEF MemoryInv, MemoryShaped
    <2>5. \A d \in Doc \ {f} : excuse'[d] = excuse[d] /\ (Stale(d)' => Stale(d))
      BY <2>1, <2>2 DEF Stale, MemoryInv, MemoryShaped
    <2>6. Stale(f)' => excuse'[f] # {}
      BY <2>1, <2>2 DEF Stale, MemoryInv, MemoryShaped
    <2> QED
      BY <2>3, <2>4, <2>5, <2>6 DEF MemoryInv, StaleVectorsExplained
  <1>6. ASSUME NEW t \in MemThread, WriteUnlink(t) PROVE MemoryInv'
    <2> DEFINE f == mem[t].d
    <2>1. /\ mem' = [mem EXCEPT ![t] = Idle] /\ vec' = [vec EXCEPT ![f] = 0]
          /\ excuse' = [excuse EXCEPT ![f] = {}] /\ UNCHANGED body
      BY <1>6 DEF WriteUnlink, End, Becomes, Unlinked
    <2>2. MemoryShaped'
      BY <2>1 DEF MemoryInv, MemoryShaped
    <2>3. \A d \in Doc : Stale(d)' => Stale(d) /\ d # f /\ excuse'[d] = excuse[d]
      BY <2>1 DEF Stale, MemoryInv, MemoryShaped
    <2>4. ASSUME NEW d \in Doc, d # f, CutShort(d) PROVE CutShort(d)'
      <3>1. PICK v \in MemThread : At(v, "write", "unlink") /\ mem[v].d = d
        BY <2>4 DEF CutShort
      <3>2. mem'[v] = mem[v]
        BY <2>1, <2>4, <3>1 DEF MemoryInv, MemoryShaped
      <3> QED
        BY <3>1, <3>2 DEF CutShort, At
    <2> QED
      BY <2>2, <2>3, <2>4 DEF MemoryInv, StaleVectorsExplained
  <1>7. ASSUME NEW t \in MemThread, NEW f \in Doc, FindStore(t, f) PROVE MemoryInv'
    <2>1. /\ Becomes(t, [mem[t] EXCEPT !.have = @ \cup {f}]) /\ mem[t].op # "write" /\ UNCHANGED body
          /\ vec' = [vec EXCEPT ![f] = mem[t].seen[f]]
          /\ excuse' = [excuse EXCEPT ![f] = IF body[f] = mem[t].seen[f] THEN {} ELSE {"overlap"}]
      BY <1>7 DEF FindStore, At, AtomicWriteText
    <2>2. mem' = [v \in MemThread |-> mem'[v]] /\ \A d \in Doc : CutShort(d) => CutShort(d)'
      BY <2>1, CutsStay DEF MemoryInv
    <2>3. MemoryShaped'
      BY <2>1, <2>2 DEF MemoryInv, MemoryShaped
    <2>4. \A d \in Doc \ {f} : excuse'[d] = excuse[d] /\ (Stale(d)' => Stale(d))
      BY <2>1 DEF Stale, MemoryInv, MemoryShaped
    <2>5. Stale(f)' => excuse'[f] # {}
      BY <2>1 DEF Stale, MemoryInv, MemoryShaped
    <2> QED
      BY <2>2, <2>3, <2>4, <2>5 DEF MemoryInv, StaleVectorsExplained
  <1>8. ASSUME NEW t \in MemThread, WriteUnlinkFails(t) PROVE MemoryInv'
    <2> DEFINE f == mem[t].d
    <2>1. /\ mem' = [mem EXCEPT ![t] = Idle] /\ UNCHANGED <<vec, body>>
          /\ excuse' = [excuse EXCEPT ![f] = @ \cup {"unlink"}]
      BY <1>8 DEF WriteUnlinkFails, End, Becomes
    <2>2. MemoryShaped'
      BY <2>1 DEF MemoryInv, MemoryShaped
    <2> HIDE DEF f
    <2>3. \A d \in Doc : (d = f => excuse'[d] # {}) /\ (d # f => excuse'[d] = excuse[d])
      BY <2>1 DEF MemoryInv, MemoryShaped
    <2>4. ASSUME NEW d \in Doc, d # f, CutShort(d) PROVE CutShort(d)'
      <3>1. PICK v \in MemThread : At(v, "write", "unlink") /\ mem[v].d = d
        BY <2>4 DEF CutShort
      <3>2. mem'[v] = mem[v]
        BY <2>1, <2>4, <3>1 DEF MemoryInv, MemoryShaped, f
      <3> QED
        BY <3>1, <3>2 DEF CutShort, At
    <2>5. ASSUME NEW d \in Doc, Stale(d)' PROVE CutShort(d)' \/ excuse'[d] # {}
      <3>1. Stale(d)
        BY <2>1, <2>5 DEF Stale
      <3>2. CutShort(d) \/ excuse[d] # {}
        BY <3>1 DEF MemoryInv, StaleVectorsExplained
      <3>3. CASE d = f
        BY <2>3, <3>3
      <3>4. CASE d # f
        BY <2>3, <2>4, <3>2, <3>4
      <3> QED
        BY <3>3, <3>4
    <2> QED
      BY <2>2, <2>5 DEF MemoryInv, StaleVectorsExplained
  <1> QED
    BY <1>1, <1>2, <1>3, <1>4, <1>5, <1>6, <1>7, <1>8, QuietSteps DEF MemoryNext

\* A kept vector that is not of the text beside it is explained: a write is between its
\* two files, or a crash or an unlink that failed came there, a memo was written over the
\* body, or a search had read the text before a write.  For any stores, documents and threads
\* (memory/adapters/local.py: _dispatch_write, _dispatch_find, _dispatch_commit).
THEOREM StalenessHasNamedCauses == MemorySpec => []StaleVectorsExplained
  <1>1. MemoryInv => StaleVectorsExplained
    BY DEF MemoryInv
  <1> QED
    BY <1>1, MemoryInitially, MemoryStep, PTL DEF MemorySpec

-----------------------------------------------------------------------------
(* Registry tables *)

ProcState ==
    [pc : {"none", "open", "failed", "inspect", "alter", "fill", "index", "migrate", "put"},
     at : 0 .. 6, seen : SUBSET (All \cup Versions), rev : Revision \cup {NoRow},
     as : Content \cup {NoRow}, sure : BOOLEAN]
DataRow == [id : DataId, text : Nat]

TablesTyped ==
    /\ columns \subseteq All /\ proc \in [Proc -> ProcState]
    /\ digest \in [Revision -> {"absent", "null", "content", "code:id"}]
    /\ content \in [Revision -> Content \cup {NoRow}] /\ promised \subseteq Revision \X Content
    /\ dataset \in [DataName -> DataRow \cup {NoRow}] /\ dataSaves \in Nat

Migrating == {"inspect", "alter", "fill", "index"}

\* What a process that migrates or has opened the database has made sure of.
ProcKnows(p) ==
    /\ proc[p].pc \in Migrating => \A i \in 1 .. 5 : i < proc[p].at => Added[i] \in columns
    /\ proc[p].pc \in {"inspect", "alter"} => proc[p].at \in 1 .. 5
    /\ proc[p].pc = "alter" => proc[p].seen \subseteq columns
    /\ proc[p].pc = "fill" => proc[p].at = 3 /\ "content_digest" \in columns
    /\ proc[p].pc = "index" => proc[p].at = 6
    /\ proc[p].pc = "migrate" => \A v \in Versions : v \in proc[p].seen => applied[v] # "absent"
    /\ proc[p].sure => All \subseteq columns
    /\ proc[p].pc = "put" => proc[p].rev \in Revision /\ proc[p].as \in Content

\* A migration that is recorded has made its columns.
Recorded == \A v \in Versions : applied[v] # "absent" => ColumnsOf(v) \subseteq columns

\* A digest is missing only before its column exists, until it is filled, or for good
\* when the process that was to fill it died.
NullsAwaited ==
    /\ \A r \in Revision : digest[r] = "null" =>
          \/ "content_digest" \notin columns \/ cut \/ \E q \in Proc : proc[q].pc = "fill"
    /\ ~tables => \A r \in Revision : digest[r] # "null"

\* The id in the row of a name was given by a save of that name.
IdsWereSaved == \A n \in DataName : dataset[n] # NoRow => <<dataset[n].id, n>> \in stored

TablesInv ==
    /\ TablesTyped /\ (\A p \in Proc : ProcKnows(p)) /\ Recorded /\ NullsAwaited
    /\ IdsWereSaved /\ SavedIsFound

LEMMA AddedColumns ==
    /\ Len(Added) = 5 /\ DOMAIN Added = 1 .. 5
    /\ \A i \in 1 .. 5 : Added[i] \in All
    /\ Added[1] = "context_json" /\ Added[2] = "priority" /\ Added[3] = "content_digest"
    /\ Added[4] = "invocation_sequence" /\ Added[5] = "expires_at"
    /\ All = {"context_json", "priority", "content_digest", "invocation_sequence", "expires_at"}
  <1>1. Len(Added) = 5 /\ DOMAIN Added = 1 .. 5
    BY DEF Added
  <1>2. /\ Added[1] = "context_json" /\ Added[2] = "priority" /\ Added[3] = "content_digest"
        /\ Added[4] = "invocation_sequence" /\ Added[5] = "expires_at"
    BY DEF Added
  <1>3. All = {Added[i] : i \in 1 .. 5}
    BY <1>1 DEF All
  <1>4. \A i \in 1 .. 5 : i = 1 \/ i = 2 \/ i = 3 \/ i = 4 \/ i = 5
    OBVIOUS
  <1>5. 1 \in 1 .. 5 /\ 2 \in 1 .. 5 /\ 3 \in 1 .. 5 /\ 4 \in 1 .. 5 /\ 5 \in 1 .. 5
    OBVIOUS
  <1> QED
    BY <1>1, <1>2, <1>3, <1>4, <1>5

LEMMA FollowingStep ==
    ASSUME NEW i \in 1 .. 5
    PROVE  Following(i) \in {"index", "alter", "inspect"} /\ (Following(i) = "index" <=> i = 5)
  BY AddedColumns DEF Following

LEMMA AdvancedPlace ==
    ASSUME NEW x \in ProcState, x.at \in 1 .. 5
    PROVE  /\ Advanced(x) \in ProcState
           /\ Advanced(x).at = x.at + 1
           /\ Advanced(x).pc \in {"index", "alter", "inspect"}
           /\ Advanced(x).pc = "index" <=> x.at = 5
           /\ Advanced(x).seen \subseteq x.seen /\ Advanced(x).sure = x.sure
  <1> DEFINE next == Following(x.at)
             observed == IF next = "alter" THEN x.seen ELSE {}
  <1>1. next \in {"index", "alter", "inspect"} /\ (next = "index" <=> x.at = 5)
    BY FollowingStep
  <1>2. observed \subseteq x.seen /\ observed \in SUBSET (All \cup Versions) /\ x.at + 1 \in 0 .. 6
    BY DEF ProcState
  <1>3. Advanced(x) = [x EXCEPT !.pc = next, !.at = x.at + 1, !.seen = observed]
    BY DEF Advanced
  <1> HIDE DEF next, observed
  <1> QED
    BY <1>1, <1>2, <1>3 DEF ProcState

LEMMA OnwardsRow ==
    ASSUME proc \in [Proc -> ProcState], NEW p \in Proc, proc[p].at \in 1 .. 5
    PROVE  /\ Onwards(p) \in [Proc -> ProcState]
           /\ \A q \in Proc \ {p} : Onwards(p)[q] = proc[q]
           /\ Onwards(p)[p].at = proc[p].at + 1
           /\ Onwards(p)[p].pc \in {"index", "alter", "inspect"}
           /\ Onwards(p)[p].pc = "index" <=> proc[p].at = 5
           /\ Onwards(p)[p].seen \subseteq proc[p].seen /\ Onwards(p)[p].sure = proc[p].sure
  <1>1. Onwards(p) = [proc EXCEPT ![p] = Advanced(proc[p])]
    BY DEF Onwards
  <1> QED
    BY <1>1, AdvancedPlace

LEMMA ProcConstants ==
    /\ Outside \in ProcState /\ Outside.pc = "none" /\ ~Outside.sure
    /\ OpenNow \in ProcState /\ OpenNow.pc = "open"
    /\ Refused \in ProcState /\ Refused.pc = "failed" /\ ~Refused.sure
    /\ \A b \in BOOLEAN : LET new == [OpenNow EXCEPT !.sure = b]
                           IN  new \in ProcState /\ new.pc = "open" /\ new.sure = b
  <1>1. Outside \in ProcState /\ Outside.pc = "none" /\ ~Outside.sure
    BY DEF Outside, ProcState
  <1>3. OpenNow \in ProcState /\ OpenNow.pc = "open"
    BY <1>1 DEF OpenNow, ProcState
  <1>4. Refused \in ProcState /\ Refused.pc = "failed" /\ ~Refused.sure
    BY <1>1 DEF Refused, ProcState
  <1>5. ASSUME NEW b \in BOOLEAN
        PROVE  LET new == [OpenNow EXCEPT !.sure = b]
               IN  new \in ProcState /\ new.pc = "open" /\ new.sure = b
    BY <1>3 DEF ProcState
  <1> QED
    BY <1>1, <1>3, <1>4, <1>5

\* What a process has made sure of stays so while columns are only added.
LEMMA KnowledgeKept ==
    ASSUME NEW p \in Proc, ProcKnows(p), columns \subseteq columns', proc'[p] = proc[p],
           \A v \in Versions : applied[v] # "absent" => applied'[v] # "absent"
    PROVE  ProcKnows(p)'
  BY DEF ProcKnows

\* Migrations leave the stored rows alone.
LEMMA RowsKept ==
    ASSUME TablesTyped, IdsWereSaved, SavedIsFound, UNCHANGED rowVars,
           \A r \in Revision : Fetched(r) => digest'[r] # "absent"
    PROVE  IdsWereSaved' /\ SavedIsFound'
  BY DEF TablesTyped, IdsWereSaved, SavedIsFound, IdsInUse, Fetched, rowVars

LEMMA FilledDigests ==
    ASSUME TablesTyped
    PROVE  /\ Filled \in [Revision -> {"absent", "null", "content", "code:id"}]
           /\ \A r \in Revision : Filled[r] # "null" /\ (Fetched(r) => Filled[r] # "absent")
  BY DEF Filled, TablesTyped, Fetched

LEMMA TablesInitially == TablesInit => TablesInv
  <1> SUFFICES ASSUME TablesInit PROVE TablesInv
    OBVIOUS
  <1>1. columns \subseteq All
    BY AddedColumns DEF TablesInit, ColumnsOf
  <1>2. proc \in [Proc -> ProcState] /\ \A p \in Proc : proc[p].pc = "none" /\ ~proc[p].sure
    BY ProcConstants DEF TablesInit
  <1>3. TablesTyped
    BY <1>1, <1>2 DEF TablesInit, TablesTyped
  <1>4. \A p \in Proc : ProcKnows(p)
    BY <1>2 DEF ProcKnows, Migrating
  <1>7. Recorded
    BY AddedColumns DEF TablesInit, Recorded, Versions, ColumnsOf
  <1>5. NullsAwaited
    BY <1>1 DEF TablesInit, NullsAwaited
  <1>6. IdsWereSaved /\ SavedIsFound
    BY DEF TablesInit, IdsWereSaved, SavedIsFound
  <1> QED
    BY <1>3, <1>4, <1>5, <1>6, <1>7 DEF TablesInv

\* A process that moves on and is neither at the fill step nor changes a digest.
LEMMA ProcMoves ==
    ASSUME TablesInv, NEW p \in Proc, proc[p].pc # "fill",
           proc' \in [Proc -> ProcState], \A q \in Proc \ {p} : proc'[q] = proc[q], ProcKnows(p)',
           UNCHANGED <<tables, columns, applied, digest, rowVars, cut>>
    PROVE  TablesInv'
  <1>6. Recorded'
    BY DEF TablesInv, Recorded
  <1>1. TablesTyped'
    BY DEF TablesInv, TablesTyped, rowVars
  <1>2. \A q \in Proc : ProcKnows(q)'
    BY KnowledgeKept DEF TablesInv
  <1>3. \A q \in Proc : proc[q].pc = "fill" => proc'[q].pc = "fill"
    OBVIOUS
  <1>4. NullsAwaited'
    BY <1>3 DEF TablesInv, NullsAwaited
  <1>5. IdsWereSaved' /\ SavedIsFound'
    BY RowsKept DEF TablesInv, Fetched
  <1> QED
    BY <1>1, <1>2, <1>4, <1>5, <1>6 DEF TablesInv

\* SQLite's migration, statement by statement.
LEMMA MigrationStep ==
    ASSUME TablesInv, NEW p \in Proc,
           CreateTables(p) \/ Inspect(p) \/ Alter(p) \/ Fill(p) \/ Index(p)
    PROVE  TablesInv'
  <1> USE DEF TablesInv
  <1>0. proc \in [Proc -> ProcState] /\ ProcKnows(p) /\ columns \subseteq All
    BY DEF TablesTyped
  <1>1. CASE CreateTables(p)
    <2> DEFINE new == [proc[p] EXCEPT !.pc = "inspect", !.at = 1]
    <2>0. "inspect" \in {"none", "open", "failed", "inspect", "alter", "fill", "index", "migrate", "put"}
          /\ 1 \in 0 .. 6 /\ proc[p] \in ProcState
      BY <1>0
    <2>1. new \in ProcState /\ new.pc = "inspect" /\ new.at = 1 /\ new.sure = proc[p].sure
      BY <2>0 DEF ProcState
    <2>2. proc' = [proc EXCEPT ![p] = new]
      BY <1>1 DEF CreateTables
    <2> HIDE DEF new
    <2>3. /\ proc' \in [Proc -> ProcState] /\ proc'[p] = new
          /\ \A q \in Proc \ {p} : proc'[q] = proc[q]
      BY <1>0, <2>1, <2>2
    <2>4. columns \subseteq columns' /\ columns' \subseteq All /\ UNCHANGED applied
      BY <1>0, <1>1 DEF CreateTables
    <2>5. ProcKnows(p)' /\ Recorded'
      BY <1>0, <2>1, <2>3, <2>4 DEF ProcKnows, Migrating, Recorded
    <2>6. \A q \in Proc : ProcKnows(q)'
      BY <2>3, <2>4, <2>5, KnowledgeKept
    <2>7. TablesTyped'
      BY <1>1, <2>3, <2>4 DEF CreateTables, TablesTyped, rowVars
    <2>8. \A q \in Proc : proc[q].pc = "fill" => proc'[q].pc = "fill"
      BY <1>1, <2>3 DEF CreateTables
    <2>9. NullsAwaited'
      BY <1>1, <2>8 DEF CreateTables, NullsAwaited
    <2>10. IdsWereSaved' /\ SavedIsFound'
      BY <1>1, RowsKept DEF CreateTables, Fetched
    <2> QED
      BY <2>5, <2>6, <2>7, <2>9, <2>10
  <1>2. CASE Inspect(p)
    <2> DEFINE new == [proc[p] EXCEPT !.pc = "alter", !.seen = columns]
    <2>1. /\ new \in ProcState /\ new.pc = "alter" /\ new.at = proc[p].at /\ new.seen = columns
          /\ new.sure = proc[p].sure
      BY <1>0 DEF ProcState
    <2>2. proc' = [proc EXCEPT ![p] = new]
      BY <1>2 DEF Inspect
    <2> HIDE DEF new
    <2>3. /\ proc' \in [Proc -> ProcState] /\ proc'[p] = new
          /\ \A q \in Proc \ {p} : proc'[q] = proc[q]
      BY <1>0, <2>1, <2>2
    <2>4. ProcKnows(p)'
      BY <1>0, <1>2, <2>1, <2>3 DEF Inspect, ProcKnows, Migrating
    <2> QED
      BY <1>2, <2>3, <2>4, ProcMoves DEF Inspect
  <1>3. CASE Alter(p)
    <2> DEFINE c == Added[proc[p].at]
    <2>0. proc[p].pc = "alter" /\ proc[p].at \in 1 .. 5 /\ proc[p].seen \subseteq columns /\ c \in All
      BY <1>0, <1>3, AddedColumns DEF Alter, ProcKnows
    <2>1. ASSUME c \in columns', columns \subseteq columns', proc' = Onwards(p) PROVE ProcKnows(p)'
      <3>1. /\ proc'[p].at = proc[p].at + 1
            /\ proc'[p].pc \in {"index", "alter", "inspect"}
            /\ proc'[p].pc = "index" <=> proc[p].at = 5
            /\ proc'[p].seen \subseteq proc[p].seen /\ proc'[p].sure = proc[p].sure
        BY <1>0, <2>0, <2>1, OnwardsRow
      <3>2. \A i \in 1 .. 5 : i < proc[p].at + 1 => Added[i] \in columns'
        BY <1>0, <2>0, <2>1 DEF ProcKnows, Migrating
      <3> QED
        BY <1>0, <2>0, <2>1, <3>1, <3>2 DEF ProcKnows
    <2>2. CASE c \in proc[p].seen /\ proc' = Onwards(p) /\ UNCHANGED columns
      <3>1. proc' \in [Proc -> ProcState] /\ \A q \in Proc \ {p} : proc'[q] = proc[q]
        BY <1>0, <2>0, <2>2, OnwardsRow
      <3>2. ProcKnows(p)'
        BY <2>0, <2>1, <2>2
      <3> QED
        BY <1>3, <2>0, <2>2, <3>1, <3>2, ProcMoves DEF Alter
    <2>3. CASE proc' = [proc EXCEPT ![p] = Refused] /\ UNCHANGED columns
      <3>1. /\ proc' \in [Proc -> ProcState] /\ \A q \in Proc \ {p} : proc'[q] = proc[q]
            /\ proc'[p].pc = "failed" /\ ~proc'[p].sure
        BY <1>0, <2>3, ProcConstants
      <3>2. ProcKnows(p)'
        BY <3>1 DEF ProcKnows, Migrating
      <3> QED
        BY <1>3, <2>0, <2>3, <3>1, <3>2, ProcMoves DEF Alter
    <2>4. CASE c \notin columns /\ columns' = columns \cup {c} /\ proc' = AfterAlter(p)
      <3>1. /\ proc' \in [Proc -> ProcState] /\ \A q \in Proc \ {p} : proc'[q] = proc[q]
            /\ ProcKnows(p)' /\ (c = "content_digest" => proc'[p].pc = "fill")
        <4>1. CASE c = "content_digest"
          <5>1. proc[p].at = 3
            BY <2>0, <4>1, AddedColumns
          <5>2. proc' = [proc EXCEPT ![p].pc = "fill"]
            BY <2>4, <4>1 DEF AfterAlter
          <5>3. /\ proc' \in [Proc -> ProcState] /\ \A q \in Proc \ {p} : proc'[q] = proc[q]
                /\ proc'[p].pc = "fill" /\ proc'[p].at = proc[p].at /\ proc'[p].sure = proc[p].sure
            BY <1>0, <5>2 DEF ProcState
          <5>4. \A i \in 1 .. 5 : i < proc'[p].at => Added[i] \in columns'
            BY <1>0, <2>0, <2>4, <5>3 DEF ProcKnows, Migrating
          <5> QED
            BY <1>0, <2>4, <4>1, <5>1, <5>3, <5>4 DEF ProcKnows
        <4>2. CASE c # "content_digest"
          <5>1. proc' = Onwards(p)
            BY <2>4, <4>2 DEF AfterAlter
          <5> QED
            BY <1>0, <2>0, <2>1, <2>4, <4>2, <5>1, OnwardsRow
        <4> QED
          BY <4>1, <4>2
      <3>2. TablesTyped'
        BY <1>3, <2>0, <2>4, <3>1 DEF Alter, TablesTyped, rowVars
      <3>5. UNCHANGED <<tables, applied, digest, cut, rowVars>>
        BY <1>3 DEF Alter
      <3>3. \A q \in Proc : ProcKnows(q)'
        BY <2>4, <3>1, <3>5, KnowledgeKept
      <3>8. Recorded'
        BY <2>4, <3>5 DEF Recorded
      <3>4. \A q \in Proc : proc[q].pc = "fill" => proc'[q].pc = "fill"
        BY <2>0, <3>1
      <3>6. NullsAwaited'
        BY <2>4, <3>1, <3>4, <3>5 DEF NullsAwaited
      <3>7. IdsWereSaved' /\ SavedIsFound'
        BY <3>5, RowsKept DEF Fetched
      <3> QED
        BY <3>2, <3>3, <3>6, <3>7, <3>8
    <2> QED
      BY <1>3, <2>2, <2>3, <2>4 DEF Alter
  <1>4. CASE Fill(p)
    <2>0. /\ proc[p].pc = "fill" /\ proc[p].at = 3 /\ "content_digest" \in columns
          /\ digest' = Filled /\ proc' = Onwards(p) /\ UNCHANGED <<tables, columns, applied, rowVars, cut>>
      BY <1>0, <1>4 DEF Fill, ProcKnows
    <2>1. /\ proc' \in [Proc -> ProcState] /\ \A q \in Proc \ {p} : proc'[q] = proc[q]
          /\ proc'[p].at = 4 /\ proc'[p].pc \in {"alter", "inspect"} /\ proc'[p].seen \subseteq proc[p].seen
          /\ proc'[p].sure = proc[p].sure
      BY <1>0, <2>0, OnwardsRow
    <2>2. \A i \in 1 .. 5 : i < 4 => Added[i] \in columns
      BY <1>0, <2>0, AddedColumns DEF ProcKnows, Migrating
    <2>3. proc'[p].seen = {}
      BY <1>0, <2>0 DEF Onwards, Advanced, Following, ProcState, TableOf, Added
    <2>4. ProcKnows(p)'
      BY <1>0, <2>0, <2>1, <2>2, <2>3 DEF ProcKnows
    <2>9. Recorded'
      BY <2>0 DEF Recorded
    <2>5. TablesTyped'
      BY <2>0, <2>1, FilledDigests DEF TablesTyped, rowVars
    <2>6. \A q \in Proc : ProcKnows(q)'
      BY <2>0, <2>1, <2>4, KnowledgeKept
    <2>7. NullsAwaited'
      BY <2>0, FilledDigests DEF NullsAwaited
    <2>8. IdsWereSaved' /\ SavedIsFound'
      BY <2>0, FilledDigests, RowsKept
    <2> QED
      BY <2>5, <2>6, <2>7, <2>8, <2>9
  <1>5. CASE Index(p)
    <2>1. /\ proc' \in [Proc -> ProcState] /\ \A q \in Proc \ {p} : proc'[q] = proc[q]
          /\ proc'[p].pc = "open" /\ proc[p].pc = "index" /\ proc[p].at = 6
      BY <1>0, <1>5, ProcConstants DEF Index, ProcKnows
    <2>2. All \subseteq columns
      BY <1>0, <2>1, AddedColumns DEF ProcKnows, Migrating, All
    <2>3. UNCHANGED <<tables, columns, applied, digest, rowVars, cut>>
      BY <1>5 DEF Index
    <2>4. ProcKnows(p)'
      BY <2>1, <2>2, <2>3 DEF ProcKnows, Migrating
    <2> QED
      BY <2>1, <2>3, <2>4, ProcMoves
  <1> QED
    BY <1>1, <1>2, <1>3, <1>4, <1>5

\* PostgreSQL's migration, which is one transaction, and the death of a process.
LEMMA TransactionStep ==
    ASSUME TablesInv, NEW p \in Proc, MigrateMain(p) \/ Migrate(p) \/ OpenUnchecked(p) \/ Dies(p)
    PROVE  TablesInv'
  <1> USE DEF TablesInv
  <1>0. proc \in [Proc -> ProcState] /\ ProcKnows(p) /\ columns \subseteq All
    BY DEF TablesTyped
  <1>a. ASSUME NEW new \in ProcState, proc' = [proc EXCEPT ![p] = new]
        PROVE  proc' \in [Proc -> ProcState] /\ proc'[p] = new /\ \A q \in Proc \ {p} : proc'[q] = proc[q]
    BY <1>0, <1>a
  <1>b. ASSUME NEW new \in ProcState, proc' = [proc EXCEPT ![p] = new], proc[p].pc # "fill",
               \/ new.pc \in {"none", "failed", "open"}
               \/ new.pc = "migrate" /\ \A v \in Versions : v \in new.seen => applied[v] # "absent",
               new.sure => All \subseteq columns,
               UNCHANGED <<tables, columns, applied, digest, rowVars, cut>>
        PROVE  TablesInv'
    <2>1. ProcKnows(p)'
      BY <1>a, <1>b DEF ProcKnows, Migrating
    <2> QED
      BY <1>a, <1>b, <2>1, ProcMoves
  <1>1. CASE ReadApplied(p)
    <2> DEFINE observed == {v \in Versions : applied[v] # "absent"}
               new == [proc[p] EXCEPT !.pc = "migrate", !.seen = observed]
    <2>1. observed \in SUBSET (All \cup Versions) /\ \A v \in Versions : v \in observed => applied[v] # "absent"
      OBVIOUS
    <2>3. proc' = [proc EXCEPT ![p] = new] /\ proc[p].pc # "fill"
          /\ UNCHANGED <<tables, columns, applied, digest, rowVars, cut>>
      BY <1>1 DEF ReadApplied
    <2> HIDE DEF observed
    <2>2. /\ new \in ProcState /\ new.pc = "migrate" /\ new.seen = observed
          /\ new.sure => All \subseteq columns
      BY <1>0, <2>1 DEF ProcState, ProcKnows
    <2> HIDE DEF new
    <2> QED
      BY <1>b, <2>1, <2>2, <2>3
  <1>2. CASE VerifySchema(p)
    <2>1. /\ proc[p].pc # "fill" /\ UNCHANGED <<tables, columns, applied, digest, rowVars, cut>>
          /\ \/ proc' = [proc EXCEPT ![p] = OpenNow] /\ \A v \in Versions : applied[v] = "sealed"
             \/ proc' = [proc EXCEPT ![p] = Refused]
      BY <1>2 DEF VerifySchema
    <2>2. (\A v \in Versions : applied[v] = "sealed") => All \subseteq columns
      BY AddedColumns DEF Recorded, Versions, ColumnsOf
    <2> QED
      BY <1>b, <2>1, <2>2, ProcConstants
  <1>5. CASE OpenUnchecked(p)
    <2> DEFINE new == [OpenNow EXCEPT !.sure = FALSE]
    <2>1. new \in ProcState /\ new.pc = "open" /\ ~new.sure
      BY ProcConstants
    <2>2. /\ proc[p].pc # "fill" /\ UNCHANGED <<tables, columns, applied, digest, rowVars, cut>>
          /\ proc' = [proc EXCEPT ![p] = new]
      BY <1>5 DEF OpenUnchecked
    <2> HIDE DEF new
    <2> QED
      BY <1>b, <2>1, <2>2
  <1>3. CASE Migrate(p)
    <2>0. proc[p].pc = "migrate" /\ UNCHANGED <<rowVars, cut>>
      BY <1>3 DEF Migrate
    <2> DEFINE run == Versions \ proc[p].seen
    <2>1. CASE proc' = [proc EXCEPT ![p] = Refused] /\ UNCHANGED <<tables, columns, applied, digest>>
      BY <1>b, <2>0, <2>1, ProcConstants
    <2>2. CASE /\ proc' = [proc EXCEPT ![p] = OpenNow] /\ tables' = TRUE
               /\ columns' = columns \cup UNION {ColumnsOf(v) : v \in run}
               /\ digest' = (IF 2 \in run THEN Filled ELSE digest)
               /\ applied' = [v \in Versions |-> "sealed"]
      <3>1. /\ proc' \in [Proc -> ProcState] /\ proc'[p].pc = "open"
            /\ \A q \in Proc \ {p} : proc'[q] = proc[q]
        BY <1>a, <2>2, ProcConstants
      <3>2. \A v \in Versions : ColumnsOf(v) \subseteq All /\ ColumnsOf(v) \subseteq columns'
        <4> SUFFICES ASSUME NEW v \in Versions
                     PROVE  ColumnsOf(v) \subseteq All /\ ColumnsOf(v) \subseteq columns'
          OBVIOUS
        <4>1. ColumnsOf(v) \subseteq All
          BY AddedColumns DEF ColumnsOf, Versions
        <4>2. CASE v \in run
          BY <2>2, <4>1, <4>2
        <4>3. CASE v \in proc[p].seen
          BY <1>0, <2>0, <2>2, <4>1, <4>3 DEF ProcKnows, Recorded
        <4> QED
          BY <4>1, <4>2, <4>3
      <3>3. /\ columns \subseteq columns' /\ columns' \subseteq All /\ All \subseteq columns'
            /\ \A v \in Versions : applied'[v] # "absent"
        <4>1. columns' \subseteq All /\ columns \subseteq columns'
          BY <1>0, <2>2, <3>2
        <4>2. All \subseteq columns'
          BY <3>2, AddedColumns DEF ColumnsOf, Versions
        <4> QED
          BY <2>2, <4>1, <4>2
      <3>4. ProcKnows(p)' /\ Recorded'
        BY <3>1, <3>2, <3>3 DEF ProcKnows, Migrating, Recorded
      <3>5. \A q \in Proc : ProcKnows(q)'
        BY <3>1, <3>3, <3>4, KnowledgeKept
      <3>6. /\ digest' \in [Revision -> {"absent", "null", "content", "code:id"}]
            /\ \A r \in Revision : Fetched(r) => digest'[r] # "absent"
            /\ \A r \in Revision : digest'[r] = "null" => digest[r] = "null" /\ 2 \in proc[p].seen
        BY <2>2, FilledDigests DEF TablesTyped, Fetched, Versions
      <3>7. TablesTyped'
        BY <2>0, <3>1, <3>3, <3>6 DEF TablesTyped, rowVars
      <3>8. 2 \in proc[p].seen => "content_digest" \in columns
        BY <1>0, <2>0 DEF ProcKnows, Recorded, Versions, ColumnsOf
      <3>9. \A q \in Proc : proc[q].pc = "fill" => proc'[q].pc = "fill"
        BY <2>0, <3>1
      <3>10. NullsAwaited'
        BY <2>0, <2>2, <3>6, <3>8, <3>9 DEF NullsAwaited
      <3>11. IdsWereSaved' /\ SavedIsFound'
        BY <2>0, <3>6, RowsKept
      <3> QED
        BY <3>4, <3>5, <3>7, <3>10, <3>11
    <2> QED
      BY <1>3, <2>1, <2>2 DEF Migrate
  <1>4. CASE Dies(p)
    <2>0. /\ proc' = [proc EXCEPT ![p] = Outside] /\ cut' = (cut \/ proc[p].pc = "fill")
          /\ UNCHANGED <<tables, columns, applied, digest, rowVars>>
      BY <1>4 DEF Dies
    <2>7. Recorded'
      BY <2>0 DEF Recorded
    <2>1. /\ proc' \in [Proc -> ProcState] /\ proc'[p].pc = "none" /\ ~proc'[p].sure
          /\ \A q \in Proc \ {p} : proc'[q] = proc[q]
      BY <1>a, <2>0, ProcConstants
    <2>2. ProcKnows(p)'
      BY <2>1 DEF ProcKnows, Migrating
    <2>3. \A q \in Proc : ProcKnows(q)'
      BY <2>0, <2>1, <2>2, KnowledgeKept
    <2>4. TablesTyped'
      BY <2>0, <2>1 DEF TablesTyped, rowVars
    <2>5. NullsAwaited'
      BY <2>0, <2>1 DEF NullsAwaited
    <2>6. IdsWereSaved' /\ SavedIsFound'
      BY <2>0, RowsKept DEF Fetched
    <2> QED
      BY <2>3, <2>4, <2>5, <2>6, <2>7
  <1> QED
    BY <1>1, <1>2, <1>3, <1>4, <1>5 DEF MigrateMain

\* A save, with what it has to keep of digests and datasets.
LEMMA SavesKeep ==
    ASSUME TablesInv, NEW p \in Proc, UNCHANGED <<tables, columns, applied, cut>>,
           proc' \in [Proc -> ProcState], \A q \in Proc \ {p} : proc'[q] = proc[q],
           proc[p].pc # "fill", ProcKnows(p)',
           digest' \in [Revision -> {"absent", "null", "content", "code:id"}],
           \A r \in Revision : digest'[r] = "null" => digest[r] = "null"
    PROVE  (\A q \in Proc : ProcKnows(q)') /\ Recorded' /\ NullsAwaited'
  <1>1. /\ \A q \in Proc : proc[q].pc = "fill" => proc'[q].pc = "fill"
        /\ Recorded'
    BY DEF TablesInv, Recorded
  <1>2. NullsAwaited'
    BY <1>1 DEF TablesInv, NullsAwaited
  <1> QED
    BY <1>1, <1>2, KnowledgeKept DEF TablesInv

LEMMA RevisionStep ==
    ASSUME TablesInv, NEW p \in Proc,
           \/ InsertRevision(p)
           \/ \E r \in Revision, c \in Content : LookForRevision(p, r, c) \/ PutRevision(p, r, c)
    PROVE  TablesInv'
  <1> USE DEF TablesInv
  <1>0. proc \in [Proc -> ProcState] /\ ProcKnows(p)
    BY DEF TablesTyped
  <1>1. ASSUME NEW r \in Revision, NEW c \in Content,
               UNCHANGED <<tables, columns, applied, cut, dataset, experiment, dataSaves, stored>>,
               proc' \in [Proc -> ProcState], \A q \in Proc \ {p} : proc'[q] = proc[q],
               proc[p].pc # "fill", ProcKnows(p)',
               \/ UNCHANGED <<digest, content>>
               \/ ~Fetched(r) /\ Insert(r, c),
               \/ UNCHANGED promised
               \/ promised' = promised \cup {<<r, c>>} /\ digest'[r] # "absent" /\ content'[r] = c
        PROVE  TablesInv'
    <2>1. /\ digest' \in [Revision -> {"absent", "null", "content", "code:id"}]
          /\ content' \in [Revision -> Content \cup {NoRow}]
          /\ \A x \in Revision : digest'[x] = "null" => digest[x] = "null"
          /\ \A x \in Revision : Fetched(x) => digest'[x] # "absent" /\ content'[x] = content[x]
      BY <1>1 DEF TablesTyped, Fetched, Insert, ContentDigest
    <2>2. (\A q \in Proc : ProcKnows(q)') /\ Recorded' /\ NullsAwaited'
      BY <1>1, <2>1, SavesKeep
    <2>3. TablesTyped'
      BY <1>1, <2>1 DEF TablesTyped
    <2>4. stored' = stored /\ IdsInUse' = IdsInUse /\ experiment' = experiment
      BY <1>1 DEF IdsInUse
    <2>5. IdsWereSaved'
      BY <1>1, <2>4 DEF IdsWereSaved
    <2>6. SavedIsFound'
      <3>1. \A x \in promised' : Fetched(x[1])' /\ content'[x[1]] = x[2]
        <4>1. ASSUME NEW x \in promised PROVE Fetched(x[1])' /\ content'[x[1]] = x[2]
          <5>1. x[1] \in Revision /\ Fetched(x[1]) /\ content[x[1]] = x[2]
            BY <4>1 DEF SavedIsFound, TablesTyped
          <5> QED
            BY <2>1, <5>1 DEF Fetched
        <4>2. <<r, c>>[1] = r /\ <<r, c>>[2] = c
          OBVIOUS
        <4> QED
          BY <1>1, <4>1, <4>2 DEF Fetched
      <3> QED
        BY <2>4, <3>1 DEF SavedIsFound
    <2> QED
      BY <2>2, <2>3, <2>5, <2>6
  <1>2. ASSUME NEW r \in Revision, NEW c \in Content, LookForRevision(p, r, c) PROVE TablesInv'
    <2> DEFINE new == [proc[p] EXCEPT !.pc = "put", !.rev = r, !.as = c]
    <2>1. new \in ProcState /\ new.pc = "put" /\ new.rev = r /\ new.as = c /\ new.sure = proc[p].sure
      BY <1>0 DEF ProcState
    <2>2. /\ proc[p].pc = "open"
          /\ UNCHANGED <<tables, columns, applied, cut, dataset, experiment, dataSaves, stored, digest, content>>
          /\ \/ Fetched(r) /\ Promise(r, c) /\ UNCHANGED proc
             \/ proc' = [proc EXCEPT ![p] = new] /\ UNCHANGED promised
      BY <1>2, Zenon DEF LookForRevision
    <2> HIDE DEF new
    <2>3. /\ proc' \in [Proc -> ProcState] /\ \A q \in Proc \ {p} : proc'[q] = proc[q]
          /\ proc'[p] = proc[p] \/ proc'[p] = new
      BY <1>0, <2>1, <2>2
    <2>4. ProcKnows(p)'
      BY <1>0, <2>1, <2>2, <2>3 DEF ProcKnows, Migrating
    <2>5. \/ UNCHANGED promised
          \/ promised' = promised \cup {<<r, c>>} /\ digest'[r] # "absent" /\ content'[r] = c
      BY <2>2 DEF Promise, Returned, Fetched
    <2> QED
      BY <1>1, <2>2, <2>3, <2>4, <2>5
  <1>3. ASSUME InsertRevision(p) PROVE TablesInv'
    <2> DEFINE r == proc[p].rev
               c == proc[p].as
               new == [OpenNow EXCEPT !.sure = proc[p].sure]
    <2>1. /\ proc[p].pc = "put" /\ r \in Revision /\ c \in Content
          /\ UNCHANGED <<tables, columns, applied, cut, dataset, experiment, dataSaves, stored>>
          /\ proc' = [proc EXCEPT ![p] = new]
          /\ \/ ~Fetched(r) /\ Insert(r, c) /\ promised' = promised \cup {<<r, c>>}
             \/ UNCHANGED <<digest, content, promised>>
      BY <1>0, <1>3 DEF InsertRevision, ProcKnows
    <2>2. new \in ProcState /\ new.pc = "open" /\ new.sure = proc[p].sure
      BY <1>0, ProcConstants DEF ProcState
    <2> HIDE DEF r, c, new
    <2>3. /\ proc' \in [Proc -> ProcState] /\ \A q \in Proc \ {p} : proc'[q] = proc[q]
          /\ proc'[p] = new
      BY <1>0, <2>1, <2>2
    <2>4. ProcKnows(p)'
      BY <1>0, <2>1, <2>2, <2>3 DEF ProcKnows, Migrating
    <2>5. Insert(r, c) => digest'[r] # "absent" /\ content'[r] = c
      BY <2>1 DEF TablesTyped, Insert, ContentDigest
    <2> QED
      BY <1>1, <2>1, <2>3, <2>4, <2>5
  <1>4. ASSUME NEW r \in Revision, NEW c \in Content, PutRevision(p, r, c) PROVE TablesInv'
    <2>1. /\ proc[p].pc = "open"
          /\ UNCHANGED <<tables, columns, applied, cut, dataset, experiment, dataSaves, stored, proc>>
          /\ \/ ~Fetched(r) /\ Insert(r, c) /\ promised' = promised \cup {<<r, c>>}
             \/ Fetched(r) /\ Promise(r, c) /\ UNCHANGED <<digest, content>>
      BY <1>4 DEF PutRevision
    <2>2. ProcKnows(p)'
      BY <1>0, <2>1 DEF ProcKnows
    <2>3. Insert(r, c) => digest'[r] # "absent" /\ content'[r] = c
      BY DEF TablesTyped, Insert, ContentDigest
    <2>4. \/ UNCHANGED promised
          \/ promised' = promised \cup {<<r, c>>} /\ digest'[r] # "absent" /\ content'[r] = c
      BY <2>1, <2>3 DEF Promise, Returned, Fetched
    <2> QED
      BY <1>0, <1>1, <2>1, <2>2, <2>4
  <1> QED
    BY <1>2, <1>3, <1>4

LEMMA EvaluationStep ==
    ASSUME TablesInv, NEW p \in Proc, NEW id \in DataId,
           SaveExperiment(p, id) \/ \E n \in DataName : SaveDataset(p, id, n)
    PROVE  TablesInv'
  <1> USE DEF TablesInv
  <1>0. proc \in [Proc -> ProcState] /\ ProcKnows(p)
    BY DEF TablesTyped
  <1>a. ASSUME UNCHANGED <<tables, columns, applied, proc, digest, cut>>
        PROVE  (\A q \in Proc : ProcKnows(q)') /\ Recorded' /\ NullsAwaited'
    BY <1>a, KnowledgeKept DEF NullsAwaited, Recorded
  <1>1. CASE SaveExperiment(p, id)
    <2>1. /\ UNCHANGED <<tables, columns, applied, proc, digest, content, promised, cut, dataset,
                       dataSaves, stored>>
          /\ proc[p].pc = "open" /\ id \in IdsInUse /\ experiment' = experiment \cup {id}
      BY <1>1 DEF SaveExperiment, Accepted
    <2>2. TablesTyped' /\ IdsWereSaved'
      BY <2>1 DEF TablesTyped, IdsWereSaved
    <2>3. SavedIsFound'
      BY <2>1 DEF SavedIsFound, IdsInUse, Fetched
    <2> QED
      BY <1>a, <2>1, <2>2, <2>3
  <1>2. ASSUME NEW n \in DataName, SaveDataset(p, id, n) PROVE TablesInv'
    <2> DEFINE row == Upserted(id, n)
    <2>1. /\ UNCHANGED <<tables, columns, applied, proc, digest, content, promised, cut, experiment>>
          /\ dataset' = [dataset EXCEPT ![n] = row] /\ dataSaves' = dataSaves + 1
          /\ stored' = stored \cup {<<id, n>>}
      BY <1>2 DEF SaveDataset
    <2>2. dataset[n] = NoRow \/ (dataset[n] # NoRow /\ dataset[n].id \in DataId)
      BY DEF TablesTyped, DataRow
    <2>3. /\ row \in DataRow
          /\ dataset[n] = NoRow => row.id = id
          /\ dataset[n] # NoRow => row.id = dataset[n].id
      BY <2>2 DEF Upserted, DataRow, TablesTyped
    <2>4. row # NoRow
      BY <2>3, TablesAssumption DEF DataRow
    <2> HIDE DEF row
    <2>5. dataset'[n] = row /\ \A m \in DataName \ {n} : dataset'[m] = dataset[m]
      BY <2>1 DEF TablesTyped
    <2>6. TablesTyped'
      BY <2>1, <2>3 DEF TablesTyped
    <2>7. IdsInUse \subseteq IdsInUse' /\ row.id \in IdsInUse'
      <3>1. ASSUME NEW m \in DataName, dataset[m] # NoRow
            PROVE  dataset'[m] # NoRow /\ dataset'[m].id = dataset[m].id
        BY <2>3, <2>4, <2>5, <3>1
      <3>2. IdsInUse \subseteq IdsInUse'
        BY <3>1 DEF IdsInUse
      <3> QED
        BY <2>4, <2>5, <3>2 DEF IdsInUse
    <2>8. IdsWereSaved'
      <3>1. ASSUME NEW m \in DataName, dataset'[m] # NoRow PROVE <<dataset'[m].id, m>> \in stored'
        <4>1. CASE m # n
          BY <2>1, <2>5, <3>1, <4>1 DEF IdsWereSaved
        <4>2. CASE m = n
          BY <2>1, <2>3, <2>5, <4>2 DEF IdsWereSaved
        <4> QED
          BY <4>1, <4>2
      <3> QED
        BY <3>1 DEF IdsWereSaved
    <2>9. \A x \in promised' : Fetched(x[1])' /\ content'[x[1]] = x[2]
      BY <2>1 DEF SavedIsFound, Fetched
    <2>10. ASSUME NEW i \in DataId, NEW m \in DataName, <<i, m>> \in stored'
           PROVE  i \in IdsInUse' \/ \E x \in DataId \ {i} : <<x, m>> \in stored'
      <3>1. CASE <<i, m>> \in stored
        BY <2>1, <2>7, <2>10, <3>1 DEF SavedIsFound
      <3>2. CASE i = id /\ m = n
        <4>1. CASE row.id = id
          BY <2>7, <3>2, <4>1
        <4>2. CASE row.id # id
          <5>1. dataset[n] # NoRow /\ row.id = dataset[n].id
            BY <2>3, <4>2
          <5>2. row.id \in DataId \ {id} /\ <<row.id, n>> \in stored'
            BY <2>1, <2>2, <4>2, <5>1 DEF IdsWereSaved
          <5> QED
            BY <3>2, <5>2
        <4> QED
          BY <4>1, <4>2
      <3> QED
        BY <2>1, <2>10, <3>1, <3>2
    <2>11. experiment' \subseteq IdsInUse'
      BY <2>1, <2>7 DEF SavedIsFound
    <2>12. SavedIsFound'
      BY <2>9, <2>10, <2>11 DEF SavedIsFound
    <2> QED
      BY <1>a, <2>1, <2>6, <2>8, <2>12
  <1> QED
    BY <1>1, <1>2

LEMMA TablesStep == TablesInv /\ [TablesNext]_tableVars => TablesInv'
  <1> SUFFICES ASSUME TablesInv, [TablesNext]_tableVars PROVE TablesInv'
    OBVIOUS
  <1>1. CASE UNCHANGED tableVars
    <2>1. TablesTyped' /\ Recorded' /\ NullsAwaited' /\ \A p \in Proc : ProcKnows(p)'
      BY <1>1, KnowledgeKept DEF tableVars, TablesInv, TablesTyped, Recorded, NullsAwaited
    <2>2. IdsWereSaved' /\ SavedIsFound'
      BY <1>1, RowsKept DEF tableVars, TablesInv, rowVars, Fetched
    <2> QED
      BY <2>1, <2>2 DEF TablesInv
  <1>2. CASE TablesNext
    BY <1>2, MigrationStep, TransactionStep, RevisionStep, EvaluationStep DEF TablesNext
  <1> QED
    BY <1>1, <1>2

\* Once a process has migrated the database or found its schema current, every column is
\* there, and every legacy revision has a digest unless one is being written or its writer
\* died just before; what a put or a save has returned is found and is what was put.  For
\* any number of processes that migrate, verify, open without a look, die, start again and
\* save at the same time (runtime/sqlite.py _migrate, runtime/postgres.py migrate and
\* verify_schema, deployment, eval).
THEOREM OpenedDatabasesAreSound == TablesSpec => []TablesAreSound
  <1>1. TablesInv => TablesAreSound
    BY AddedColumns
    DEF TablesInv, TablesAreSound, OpenedIsCurrent, ProcKnows, NullsAwaited
  <1> QED
    BY <1>1, TablesInitially, TablesStep, PTL DEF TablesSpec

-----------------------------------------------------------------------------
(* Configuration *)

Data == [rev : Nat, key : Keys]
UserState ==
    [pc : {"idle", "lookup", "build", "creds", "built", "insert", "save", "secrets", "finish"},
     obj : Object \cup {NoObject}, stamp : Nat, raw : Data, raced : BOOLEAN]
ObjectState == [rev : Nat, key : Keys, edited : BOOLEAN]

ConfigTyped ==
    /\ config \in [rev : Nat, key : Keys, stamp : Nat] /\ creds \in Keys
    /\ cache \in [stamp : Nat, obj : Object \cup {NoObject}, raced : BOOLEAN]
    /\ object \in [Object -> ObjectState] /\ user \in [User -> UserState]
    /\ saves \in Nat /\ saved \in Data

\* The default revision has no provider and so no key.
KeysHaveProviders == \A o \in Object : object[o].rev = 0 => object[o].key = NoSecret

\* A store that is being loaded belongs to its loader alone; not overtaken, it holds what has
\* been read of the files, and what they hold if they still have the stamp it will get.
LoaderInv(t) ==
    user[t].pc \in Loading =>
        /\ user[t].obj \in Object /\ user[t].obj # cache.obj
        /\ \A u \in User \ {t} : user[u].obj # user[t].obj
        /\ user[t].pc = "creds" => config.stamp # 0
        /\ user[t].pc = "creds" /\ ~user[t].raced =>
              user[t].raw.rev = config.rev /\ user[t].raw.key = config.key
        /\ user[t].pc = "built" /\ ~user[t].raced => Settings(user[t].obj) = FreshRead
        /\ user[t].pc = "insert" /\ ~user[t].raced /\ user[t].stamp = config.stamp =>
              Settings(user[t].obj) = FreshRead

\* A thread that looks for a store has none; undisturbed, a save finds in the files what
\* it has written so far.
SaverInv(t) ==
    /\ user[t].pc \in {"lookup", "build"} => user[t].obj = NoObject
    /\ user[t].pc \in {"save"} \cup Saving =>
          user[t].obj \in Object /\ (user[t].raw.rev = 0 => user[t].raw.key = NoSecret)
    /\ user[t].pc = "save" => ~user[t].raced
    /\ user[t].pc \in Saving /\ ~user[t].raced =>
          config.rev = user[t].raw.rev /\ config.key = NoSecret /\ config.stamp # 0
    /\ user[t].pc = "finish" /\ ~user[t].raced => creds = user[t].raw.key

ConfigInv ==
    /\ ConfigTyped /\ KeysHaveProviders /\ ConfigIsKept
    /\ \A t \in User : LoaderInv(t) /\ SaverInv(t)

LEMMA ConfigRecords ==
    /\ AtRest \in UserState /\ AtRest.pc = "idle" /\ AtRest.obj = NoObject
    /\ Nobody \in ObjectState /\ Nobody.rev = 0 /\ Nobody.key = NoSecret
    /\ NoCache \in [stamp : Nat, obj : Object \cup {NoObject}, raced : BOOLEAN] /\ NoCache.obj = NoObject
    /\ Default \in Data
  BY DEF AtRest, UserState, Nobody, ObjectState, NoCache, Default, Data, Keys

LEMMA MergedData ==
    ASSUME NEW rev \in Nat, NEW key \in Keys, NEW raw, raw.rev = rev, raw.key = key, NEW side \in Keys
    PROVE  /\ MergeCredentials(raw, side) \in Data
           /\ MergeCredentials(raw, side).rev = rev
           /\ MergeCredentials(raw, side).key = IF rev = 0 THEN NoSecret ELSE IF key # NoSecret THEN key ELSE side
           /\ MergeCredentials(raw, side) =
                 [rev |-> rev, key |-> IF rev = 0 THEN NoSecret ELSE IF key # NoSecret THEN key ELSE side]
  BY DEF MergeCredentials, Data, Keys

LEMMA ConfigInitially == ConfigInit => ConfigInv
  <1> SUFFICES ASSUME ConfigInit PROVE ConfigInv
    OBVIOUS
  <1>1. config \in [rev : Nat, key : Keys, stamp : Nat] /\ creds \in Keys
    BY DEF ConfigInit, NoFile, Keys
  <1>2. ConfigTyped
    BY <1>1, ConfigRecords DEF ConfigInit, ConfigTyped
  <1>3. \A t \in User : user[t].pc = "idle"
    BY ConfigRecords DEF ConfigInit
  <1>4. \A t \in User : LoaderInv(t) /\ SaverInv(t)
    BY <1>3 DEF LoaderInv, SaverInv, Loading, Saving
  <1>5. KeysHaveProviders
    BY ConfigRecords DEF ConfigInit, KeysHaveProviders
  <1>6. ConfigIsKept
    BY ConfigRecords DEF ConfigInit, ConfigIsKept, CacheIsFresh, SavedIsRead
  <1> QED
    BY <1>2, <1>4, <1>5, <1>6 DEF ConfigInv

\* There is always a store to build in: every thread and the cache refer to one at most.
LEMMA SomeUnused ==
    ASSUME ConfigTyped, NEW t \in User, user[t].obj = NoObject
    PROVE  \E o \in Object : Unused(o)
  <1> DEFINE S == User \ {t}
             held == {user[u].obj : u \in S}
             used == held \cup {cache.obj}
  <1>1. IsFiniteSet(S) /\ Cardinality(S) = Cardinality(User) - 1
    BY ConfigAssumption, FS_RemoveElement
  <1>2. IsFiniteSet(held) /\ Cardinality(held) <= Cardinality(S)
    <2> DEFINE f == [u \in S |-> user[u].obj]
    <2>1. f \in Surjection(S, held)
      BY DEF Surjection
    <2> QED
      BY <1>1, <2>1, FS_Surjection
  <1>3. IsFiniteSet(used) /\ Cardinality(used) <= Cardinality(held) + 1
    <2> HIDE DEF held
    <2>1. /\ IsFiniteSet(held \cup {cache.obj})
          /\ Cardinality(held \cup {cache.obj}) =
                IF cache.obj \in held THEN Cardinality(held) ELSE Cardinality(held) + 1
      BY <1>2, FS_AddElement
    <2>2. Cardinality(held) \in Nat
      BY <1>2, FS_CardinalityType
    <2> QED
      BY <2>1, <2>2
  <1>4. Cardinality(used) < Cardinality(Object)
    BY <1>1, <1>2, <1>3, ConfigAssumption, FS_CardinalityType
  <1>5. ~(Object \subseteq used)
    BY <1>3, <1>4, ConfigAssumption, FS_Subset, FS_CardinalityType
  <1>6. PICK o \in Object : o \notin used
    BY <1>5
  <1>7. \A u \in User : user[u].obj # o
    BY <1>6, ConfigAssumption
  <1> QED
    BY <1>6, <1>7 DEF Unused

LEMMA CollectedObjects ==
    ASSUME object \in [Object -> ObjectState], KeysHaveProviders, NEW us, NEW c
    PROVE  /\ Collected(us, c) \in [Object -> ObjectState]
           /\ \A o \in Object : Collected(us, c)[o].rev = 0 => Collected(us, c)[o].key = NoSecret
           /\ \A o \in Object : c.obj = o \/ (\E t \in User : us[t].obj = o) => Collected(us, c)[o] = object[o]
  BY ConfigRecords DEF Collected, KeysHaveProviders

\* The cache entry stays fresh while files and entry stay and no save ends.
LEMMA CacheKept ==
    ASSUME ConfigInv, UNCHANGED <<config, creds, cache>>,
           cache.obj # NoObject => object'[cache.obj] = object[cache.obj] \/ object'[cache.obj].edited,
           \A u \in User : user[u].pc \in Saving => \E v \in User : user'[v].pc \in Saving
    PROVE  CacheIsFresh'
  BY DEF ConfigInv, ConfigIsKept, CacheIsFresh, FreshRead, Settings, MergeCredentials

\* A step of t that leaves the files alone and no store that another thread is loading.
LEMMA StepOfThread ==
    ASSUME ConfigInv, NEW t \in User, UNCHANGED <<config, creds>>, saves' \in Nat,
           user' \in [User -> UserState], \A u \in User \ {t} : user'[u] = user[u],
           object' \in [Object -> ObjectState], KeysHaveProviders',
           cache' \in [stamp : Nat, obj : Object \cup {NoObject}, raced : BOOLEAN],
           \A u \in User \ {t} : user[u].pc \in Loading =>
               /\ user'[t].obj # user[u].obj /\ cache'.obj # user[u].obj
               /\ object'[user[u].obj] = object[user[u].obj],
           LoaderInv(t)', SaverInv(t)', CacheIsFresh', saved' \in Data, SavedIsRead'
    PROVE  ConfigInv'
  <1>1. ConfigTyped'
    BY DEF ConfigInv, ConfigTyped
  <1>2. FreshRead' = FreshRead
    BY DEF FreshRead, MergeCredentials
  <1>4. ASSUME NEW u \in User \ {t} PROVE SaverInv(u)'
    BY <1>4 DEF ConfigInv, SaverInv
  <1>5. ASSUME NEW u \in User \ {t} PROVE LoaderInv(u)'
    <2> SUFFICES ASSUME user[u].pc \in Loading PROVE LoaderInv(u)'
      BY DEF LoaderInv
    <2>1. LoaderInv(u)
      BY DEF ConfigInv
    <2>2. user'[u] = user[u] /\ user'[t].obj # user[u].obj /\ cache'.obj # user[u].obj
          /\ object'[user[u].obj] = object[user[u].obj]
      BY <1>5
    <2>3. Settings(user[u].obj)' = Settings(user[u].obj)
      BY <2>2 DEF Settings
    <2>4. \A v \in User \ {u} : user'[v].obj # user'[u].obj
      BY <2>1, <2>2 DEF LoaderInv
    <2> QED
      BY <1>2, <2>1, <2>2, <2>3, <2>4 DEF LoaderInv
  <1> QED
    BY <1>1, <1>4, <1>5 DEF ConfigInv, ConfigIsKept

\* ... and what was saved last.
LEMMA StepOfOne ==
    ASSUME ConfigInv, NEW t \in User, UNCHANGED <<config, creds, saved>>, saves' \in Nat,
           user' \in [User -> UserState], \A u \in User \ {t} : user'[u] = user[u],
           object' \in [Object -> ObjectState], KeysHaveProviders',
           cache' \in [stamp : Nat, obj : Object \cup {NoObject}, raced : BOOLEAN],
           \A u \in User \ {t} : user[u].pc \in Loading =>
               /\ user'[t].obj # user[u].obj /\ cache'.obj # user[u].obj
               /\ object'[user[u].obj] = object[user[u].obj],
           LoaderInv(t)', SaverInv(t)', CacheIsFresh'
    PROVE  ConfigInv'
  <1>1. FreshRead' = FreshRead
    BY DEF FreshRead, MergeCredentials
  <1>2. SavedIsRead' /\ saved' \in Data
    BY <1>1 DEF ConfigInv, ConfigTyped, ConfigIsKept, SavedIsRead
  <1> QED
    BY <1>2, StepOfThread

\* The fields of a thread that holds its store again.
LEMMA HoldingState ==
    ASSUME ConfigTyped, NEW t \in User
    PROVE  Holding(t) \in UserState /\ Holding(t).pc = "idle" /\ Holding(t).obj = user[t].obj
  <1>1. user[t].obj \in Object \cup {NoObject}
    BY DEF ConfigTyped, UserState
  <1> QED
    BY <1>1 DEF Holding, AtRest, UserState, Default, Data, Keys

LEMMA LoadSteps ==
    ASSUME ConfigInv, NEW t \in User, StatStamp(t) \/ LookUp(t) \/ LoadOrDefault(t)
    PROVE  ConfigInv'
  <1>0. /\ ConfigTyped /\ user[t] \in UserState /\ LoaderInv(t) /\ KeysHaveProviders
        /\ user \in [User -> UserState] /\ object \in [Object -> ObjectState] /\ saves \in Nat
        /\ config.stamp \in Nat /\ config.rev \in Nat /\ config.key \in Keys
        /\ cache \in [stamp : Nat, obj : Object \cup {NoObject}, raced : BOOLEAN]
        /\ cache.obj \in Object \cup {NoObject}
    BY DEF ConfigInv, ConfigTyped
  <1>a. \A u \in User : user[u].pc \in Loading => user[u].obj \in Object /\ user[u].obj # cache.obj
                          /\ \A v \in User \ {u} : user[v].obj # user[u].obj
    BY DEF ConfigInv, LoaderInv
  <1>1. CASE StatStamp(t)
    <2> DEFINE new == [AtRest EXCEPT !.pc = IF config.stamp = 0 THEN "build" ELSE "lookup", !.stamp = config.stamp]
    <2>1. new \in UserState /\ new.pc \in {"build", "lookup"} /\ new.obj = NoObject
      BY <1>0 DEF AtRest, UserState, Default, Data, Keys
    <2>2. user' = [user EXCEPT ![t] = new] /\ object' = Collected(user', cache)
          /\ UNCHANGED <<config, creds, cache, saves, saved>> /\ user[t].pc = "idle"
      BY <1>1 DEF StatStamp
    <2> HIDE DEF new
    <2>3. user' \in [User -> UserState] /\ user'[t] = new /\ \A u \in User \ {t} : user'[u] = user[u]
      BY <1>0, <2>1, <2>2
    <2>4. object' \in [Object -> ObjectState] /\ KeysHaveProviders'
      BY <1>0, <2>2, CollectedObjects DEF KeysHaveProviders
    <2>5. \A o \in Object : cache.obj = o \/ (\E u \in User \ {t} : user[u].obj = o) => object'[o] = object[o]
      <3>1. ASSUME NEW o \in Object, cache.obj = o \/ \E u \in User : user'[u].obj = o
            PROVE  Collected(user', cache)[o] = object[o]
        BY <1>0, <3>1 DEF Collected
      <3> QED
        BY <2>2, <2>3, <3>1
    <2>6. LoaderInv(t)' /\ SaverInv(t)'
      BY <2>1, <2>3 DEF LoaderInv, SaverInv, Loading, Saving
    <2>7. CacheIsFresh'
      <3>1. \A u \in User : user[u].pc \in Saving => user'[u].pc \in Saving
        BY <2>2, <2>3 DEF Saving
      <3>2. cache.obj # NoObject => object'[cache.obj] = object[cache.obj]
        BY <1>0, <2>5
      <3> QED
        BY <2>2, <3>1, <3>2, CacheKept
    <2>8. \A u \in User \ {t} : user[u].pc \in Loading =>
               /\ user'[t].obj # user[u].obj /\ cache'.obj # user[u].obj
               /\ object'[user[u].obj] = object[user[u].obj]
      BY <1>0, <1>a, <2>1, <2>2, <2>3, <2>5, ConfigAssumption
    <2> QED
      BY <1>0, <2>2, <2>3, <2>4, <2>6, <2>7, <2>8, StepOfOne
  <1>2. CASE LookUp(t)
    <2> DEFINE new == IF cache.obj # NoObject /\ cache.stamp = user[t].stamp
                        THEN [AtRest EXCEPT !.obj = cache.obj] ELSE [AtRest EXCEPT !.pc = "build"]
    <2>1. new \in UserState /\ new.pc \in {"build", "idle"} /\ new.obj \in {NoObject, cache.obj}
          /\ (new.pc = "build" => new.obj = NoObject)
      BY <1>0 DEF AtRest, UserState, Default, Data, Keys
    <2>2. user' = [user EXCEPT ![t] = new]
          /\ UNCHANGED <<config, creds, cache, object, saves, saved>> /\ user[t].pc = "lookup"
      BY <1>2 DEF LookUp
    <2> HIDE DEF new
    <2>3. user' \in [User -> UserState] /\ user'[t] = new /\ \A u \in User \ {t} : user'[u] = user[u]
      BY <1>0, <2>1, <2>2
    <2>4. LoaderInv(t)' /\ SaverInv(t)' /\ KeysHaveProviders'
      BY <1>0, <2>1, <2>2, <2>3 DEF LoaderInv, SaverInv, Loading, Saving, KeysHaveProviders
    <2>5. CacheIsFresh'
      <3>1. \A u \in User : user[u].pc \in Saving => user'[u].pc \in Saving
        BY <2>2, <2>3 DEF Saving
      <3> QED
        BY <2>2, <3>1, CacheKept
    <2>6. \A u \in User \ {t} : user[u].pc \in Loading =>
               /\ user'[t].obj # user[u].obj /\ cache'.obj # user[u].obj
               /\ object'[user[u].obj] = object[user[u].obj]
      BY <1>a, <2>1, <2>2, <2>3, ConfigAssumption
    <2> QED
      BY <1>0, <2>2, <2>3, <2>4, <2>5, <2>6, StepOfOne
  <1>3. CASE LoadOrDefault(t)
    <2>0. user[t].pc = "build" /\ UNCHANGED <<config, creds, cache, saves, saved>>
      BY <1>3 DEF LoadOrDefault
    <2>s. ASSUME \A u \in User \ {t} : user'[u] = user[u]
          PROVE  \A u \in User : user[u].pc \in Saving => user'[u].pc \in Saving
      BY <2>0, <2>s DEF Saving
    <2>1. CASE user' = [user EXCEPT ![t] = AtRest] /\ UNCHANGED object
      <3>1. user' \in [User -> UserState] /\ user'[t] = AtRest /\ \A u \in User \ {t} : user'[u] = user[u]
        BY <1>0, <2>1, ConfigRecords
      <3>2. LoaderInv(t)' /\ SaverInv(t)' /\ KeysHaveProviders'
        BY <1>0, <2>1, <3>1, ConfigRecords DEF LoaderInv, SaverInv, Loading, Saving, KeysHaveProviders
      <3>3. CacheIsFresh'
        BY <2>0, <2>1, <2>s, <3>1, CacheKept
      <3>4. \A u \in User \ {t} : user[u].pc \in Loading =>
               /\ user'[t].obj # user[u].obj /\ cache'.obj # user[u].obj
               /\ object'[user[u].obj] = object[user[u].obj]
        BY <1>a, <2>0, <2>1, <3>1, ConfigRecords, ConfigAssumption
      <3> QED
        BY <1>0, <2>0, <2>1, <3>1, <3>2, <3>3, <3>4, StepOfOne
    <2>2. ASSUME NEW o, o = CHOOSE x \in Object : Unused(x), object' = [object EXCEPT ![o] = Nobody],
                 user' = [user EXCEPT ![t] = [@ EXCEPT
                    !.pc = IF config.stamp = 0 THEN "built" ELSE "creds",
                    !.obj = o, !.raw = [rev |-> config.rev, key |-> config.key]]]
          PROVE  ConfigInv'
      <3> DEFINE raw == [rev |-> config.rev, key |-> config.key]
                 pc == IF config.stamp = 0 THEN "built" ELSE "creds"
                 new == [user[t] EXCEPT !.pc = pc, !.obj = o, !.raw = raw]
      <3>0. user[t].obj = NoObject
        BY <2>0 DEF ConfigInv, SaverInv
      <3>1. o \in Object /\ Unused(o)
        BY <1>0, <2>2, <3>0, SomeUnused
      <3>2. new \in UserState /\ new.pc = pc /\ new.obj = o /\ new.raw = raw
        BY <1>0, <3>1 DEF UserState, Data
      <3>3. user' = [user EXCEPT ![t] = new] /\ object' = [object EXCEPT ![o] = Nobody]
        BY <2>2
      <3> HIDE DEF new
      <3>4. /\ user' \in [User -> UserState] /\ user'[t] = new /\ \A u \in User \ {t} : user'[u] = user[u]
            /\ object' \in [Object -> ObjectState] /\ object'[o] = Nobody
            /\ \A x \in Object \ {o} : object'[x] = object[x]
        BY <1>0, <3>1, <3>2, <3>3, ConfigRecords
      <3>5. KeysHaveProviders'
        BY <1>0, <3>1, <3>4, ConfigRecords DEF KeysHaveProviders
      <3>6. SaverInv(t)'
        BY <3>2, <3>4 DEF SaverInv, Saving
      <3>7. LoaderInv(t)'
        <4>1. o # cache'.obj /\ \A u \in User \ {t} : user'[u].obj # o
          BY <2>0, <3>1, <3>4 DEF Unused
        <4>2. config.stamp = 0 => Settings(o)' = FreshRead'
          BY <2>0, <3>4 DEF Settings, FreshRead, Default, Nobody
        <4> QED
          BY <2>0, <3>1, <3>2, <3>4, <4>1, <4>2 DEF LoaderInv
      <3>8. CacheIsFresh'
        <4>1. cache.obj # NoObject => object'[cache.obj] = object[cache.obj]
          BY <1>0, <3>1, <3>4 DEF Unused
        <4> QED
          BY <2>0, <2>s, <3>4, <4>1, CacheKept
      <3>9. \A u \in User \ {t} : user[u].pc \in Loading =>
               /\ user'[t].obj # user[u].obj /\ cache'.obj # user[u].obj
               /\ object'[user[u].obj] = object[user[u].obj]
        BY <1>a, <2>0, <3>1, <3>2, <3>4 DEF Unused
      <3> QED
        BY <1>0, <2>0, <3>4, <3>5, <3>6, <3>7, <3>8, <3>9, StepOfOne
    <2> QED
      BY <1>3, <2>1, <2>2, Zenon DEF LoadOrDefault
  <1> QED
    BY <1>1, <1>2, <1>3

LEMMA BuildSteps ==
    ASSUME ConfigInv, NEW t \in User, ReadCredentials(t) \/ PostStamp(t) \/ CacheInsert(t)
    PROVE  ConfigInv'
  <1>0. /\ ConfigTyped /\ user[t] \in UserState /\ LoaderInv(t) /\ KeysHaveProviders
        /\ user \in [User -> UserState] /\ object \in [Object -> ObjectState] /\ saves \in Nat
        /\ config.stamp \in Nat /\ config.rev \in Nat /\ config.key \in Keys /\ creds \in Keys
        /\ cache \in [stamp : Nat, obj : Object \cup {NoObject}, raced : BOOLEAN]
        /\ cache.obj \in Object \cup {NoObject}
    BY DEF ConfigInv, ConfigTyped
  <1>a. \A u \in User : user[u].pc \in Loading => user[u].obj \in Object /\ user[u].obj # cache.obj
                          /\ \A v \in User \ {u} : user[v].obj # user[u].obj
    BY DEF ConfigInv, LoaderInv
  <1>s. ASSUME user[t].pc \in Loading, \A u \in User \ {t} : user'[u] = user[u]
        PROVE  \A u \in User : user[u].pc \in Saving => user'[u].pc \in Saving
    BY <1>s DEF Saving, Loading
  <1>1. CASE ReadCredentials(t)
    <2> DEFINE o == user[t].obj
               raw == user[t].raw
               data == MergeCredentials(raw, creds)
               obj == [object[o] EXCEPT !.rev = data.rev, !.key = data.key]
               new == [user[t] EXCEPT !.pc = "built", !.raw = Default]
    <2>0. /\ user[t].pc = "creds" /\ UNCHANGED <<config, creds, cache, saves, saved>>
          /\ object' = [object EXCEPT ![o] = obj] /\ user' = [user EXCEPT ![t] = new]
      BY <1>1 DEF ReadCredentials
    <2>1. o \in Object /\ raw.rev \in Nat /\ raw.key \in Keys
      BY <1>0, <1>a, <2>0 DEF Loading, UserState, Data
    <2>2. /\ data.rev = raw.rev /\ data.key \in Keys /\ (raw.rev = 0 => data.key = NoSecret)
          /\ data = [rev |-> raw.rev, key |-> data.key]
      BY <1>0, <2>1, MergedData DEF Keys
    <2>3. new \in UserState /\ new.pc = "built" /\ new.obj = o /\ new.raced = user[t].raced
      BY <1>0, ConfigRecords DEF UserState
    <2> HIDE DEF data
    <2>4. obj \in ObjectState /\ obj.rev = raw.rev /\ obj.key = data.key
      BY <1>0, <2>1, <2>2 DEF ObjectState
    <2> HIDE DEF new, obj
    <2>5. /\ user' \in [User -> UserState] /\ user'[t] = new /\ \A u \in User \ {t} : user'[u] = user[u]
          /\ object' \in [Object -> ObjectState] /\ object'[o] = obj
          /\ \A x \in Object \ {o} : object'[x] = object[x]
      BY <1>0, <2>0, <2>1, <2>3, <2>4
    <2>6. KeysHaveProviders'
      BY <1>0, <2>1, <2>2, <2>4, <2>5 DEF KeysHaveProviders
    <2>7. SaverInv(t)'
      BY <2>3, <2>5 DEF SaverInv, Saving
    <2>8. ~user[t].raced => data = FreshRead
      <3> SUFFICES ASSUME ~user[t].raced PROVE data = FreshRead
        OBVIOUS
      <3>1. config.stamp # 0 /\ raw.rev = config.rev /\ raw.key = config.key
        BY <1>0, <2>0 DEF LoaderInv, Loading
      <3> QED
        BY <3>1 DEF FreshRead, data, MergeCredentials
    <2>9. Settings(o)' = data /\ FreshRead' = FreshRead
      <3>1. [rev |-> object'[o].rev, key |-> object'[o].key] = data
        BY <2>2, <2>4, <2>5
      <3> QED
        BY <2>0, <2>3, <2>5, <3>1 DEF Settings, FreshRead, MergeCredentials
    <2>10. LoaderInv(t)'
      <3>1. user'[t].obj = o /\ o # cache'.obj /\ \A u \in User \ {t} : user'[u].obj # o
        BY <1>a, <2>0, <2>3, <2>5 DEF Loading
      <3>2. ~user[t].raced => Settings(user[t].obj)' = FreshRead'
        <4>1. Settings(user[t].obj)' = Settings(o)'
          BY <2>3, <2>5 DEF Settings
        <4> QED
          BY <2>8, <2>9, <4>1
      <3> QED
        BY <2>1, <2>3, <2>5, <3>1, <3>2 DEF LoaderInv
    <2>11. CacheIsFresh'
      <3>1. cache.obj # NoObject => object'[cache.obj] = object[cache.obj]
        BY <1>0, <1>a, <2>0, <2>5 DEF Loading
      <3> QED
        BY <1>s, <2>0, <2>5, <3>1, CacheKept DEF Loading
    <2>12. \A u \in User \ {t} : user[u].pc \in Loading =>
               /\ user'[t].obj # user[u].obj /\ cache'.obj # user[u].obj
               /\ object'[user[u].obj] = object[user[u].obj]
      BY <1>a, <2>0, <2>3, <2>5
    <2> QED
      BY <1>0, <2>0, <2>5, <2>6, <2>7, <2>10, <2>11, <2>12, StepOfOne
  <1>2. CASE PostStamp(t)
    <2> DEFINE new == IF config.stamp = 0 THEN Holding(t)
                      ELSE [user[t] EXCEPT !.pc = "insert", !.stamp = config.stamp]
    <2>0. /\ user[t].pc = "built" /\ UNCHANGED <<config, creds, cache, object, saves, saved>>
          /\ user' = [user EXCEPT ![t] = new]
      BY <1>2 DEF PostStamp
    <2>1. /\ new \in UserState /\ new.obj = user[t].obj
          /\ new.pc = "idle" \/ (new.pc = "insert" /\ new.raced = user[t].raced)
      <3>1. CASE config.stamp = 0
        BY <1>0, <3>1, HoldingState
      <3>2. CASE config.stamp # 0
        BY <1>0, <3>2 DEF UserState
      <3> QED
        BY <3>1, <3>2
    <2> HIDE DEF new
    <2>2. user' \in [User -> UserState] /\ user'[t] = new /\ \A u \in User \ {t} : user'[u] = user[u]
      BY <1>0, <2>0, <2>1
    <2>3. SaverInv(t)' /\ KeysHaveProviders'
      BY <1>0, <2>0, <2>1, <2>2 DEF SaverInv, Saving, KeysHaveProviders
    <2>4. LoaderInv(t)'
      <3>1. /\ user[t].obj \in Object /\ user[t].obj # cache.obj /\ \A u \in User \ {t} : user[u].obj # user[t].obj
            /\ ~user[t].raced => Settings(user[t].obj) = FreshRead
        BY <1>0, <2>0 DEF LoaderInv, Loading
      <3>2. Settings(user[t].obj)' = Settings(user[t].obj) /\ FreshRead' = FreshRead
        BY <2>0, <2>1, <2>2 DEF Settings, FreshRead, MergeCredentials
      <3> QED
        BY <2>0, <2>1, <2>2, <3>1, <3>2 DEF LoaderInv, Loading
    <2>5. CacheIsFresh'
      BY <1>s, <2>0, <2>2, CacheKept DEF Loading
    <2>6. \A u \in User \ {t} : user[u].pc \in Loading =>
               /\ user'[t].obj # user[u].obj /\ cache'.obj # user[u].obj
               /\ object'[user[u].obj] = object[user[u].obj]
      BY <1>a, <2>0, <2>1, <2>2
    <2> QED
      BY <1>0, <2>0, <2>2, <2>3, <2>4, <2>5, <2>6, StepOfOne
  <1>3. CASE CacheInsert(t)
    <2> DEFINE o == user[t].obj
    <2>0. /\ user[t].pc = "insert" /\ UNCHANGED <<config, creds, saves, saved>>
          /\ cache' = [stamp |-> user[t].stamp, obj |-> o, raced |-> user[t].raced]
          /\ user' = [user EXCEPT ![t] = Holding(t)] /\ object' = Collected(user', cache')
      BY <1>3 DEF CacheInsert
    <2>1. /\ o \in Object /\ \A u \in User \ {t} : user[u].obj # o
          /\ ~user[t].raced /\ user[t].stamp = config.stamp => Settings(o) = FreshRead
      BY <1>0, <2>0 DEF LoaderInv, Loading
    <2>2. /\ user' \in [User -> UserState] /\ user'[t].pc = "idle" /\ user'[t].obj = o
          /\ \A u \in User \ {t} : user'[u] = user[u]
      BY <1>0, <2>0, HoldingState
    <2>3. cache' \in [stamp : Nat, obj : Object \cup {NoObject}, raced : BOOLEAN] /\ cache'.obj = o
          /\ cache'.raced = user[t].raced /\ cache'.stamp = user[t].stamp
      BY <1>0, <2>0, <2>1 DEF UserState
    <2>4. object' \in [Object -> ObjectState] /\ KeysHaveProviders'
      BY <1>0, <2>0, CollectedObjects DEF KeysHaveProviders
    <2>5. \A x \in Object : (\E u \in User : user'[u].obj = x) => object'[x] = object[x]
      <3>1. ASSUME NEW x \in Object, \E u \in User : user'[u].obj = x
            PROVE  Collected(user', cache')[x] = object[x]
        BY <1>0, <3>1 DEF Collected
      <3> QED
        BY <2>0, <3>1
    <2>6. object'[o] = object[o] /\ \A u \in User \ {t} : user[u].obj \in Object => object'[user[u].obj] = object[user[u].obj]
      BY <2>1, <2>2, <2>5
    <2>7. LoaderInv(t)' /\ SaverInv(t)'
      BY <2>2 DEF LoaderInv, SaverInv, Loading, Saving
    <2>8. CacheIsFresh'
      <3>1. Settings(cache.obj)' = Settings(o) /\ FreshRead' = FreshRead
        <4>1. object'[cache'.obj] = object[o]
          BY <2>3, <2>6
        <4> QED
          BY <2>0, <4>1 DEF Settings, FreshRead, MergeCredentials
      <3> QED
        BY <2>0, <2>1, <2>3, <3>1 DEF CacheIsFresh
    <2>9. \A u \in User \ {t} : user[u].pc \in Loading =>
               /\ user'[t].obj # user[u].obj /\ cache'.obj # user[u].obj
               /\ object'[user[u].obj] = object[user[u].obj]
      BY <1>a, <2>1, <2>2, <2>3, <2>6
    <2> QED
      BY <1>0, <2>0, <2>2, <2>3, <2>4, <2>7, <2>8, <2>9, StepOfOne
  <1> QED
    BY <1>1, <1>2, <1>3

LEMMA EditSteps ==
    ASSUME ConfigInv, NEW t \in User, Edit(t) \/ Save(t) \/ SaveFails(t)
    PROVE  ConfigInv'
  <1>0. /\ ConfigTyped /\ user[t] \in UserState /\ LoaderInv(t) /\ SaverInv(t) /\ KeysHaveProviders
        /\ user \in [User -> UserState] /\ object \in [Object -> ObjectState] /\ saves \in Nat
        /\ cache \in [stamp : Nat, obj : Object \cup {NoObject}, raced : BOOLEAN]
        /\ user[t].obj \in Object \cup {NoObject}
    BY DEF ConfigInv, ConfigTyped, UserState
  <1>a. \A u \in User : user[u].pc \in Loading => user[u].obj \in Object /\ user[u].obj # cache.obj
                          /\ \A v \in User \ {u} : user[v].obj # user[u].obj
    BY DEF ConfigInv, LoaderInv
  <1>1. CASE Edit(t)
    <2> DEFINE o == user[t].obj
    <2>0. /\ user[t].pc = "idle" /\ o \in Object /\ UNCHANGED <<config, creds, cache, user, saves, saved>>
      BY <1>0, <1>1 DEF Edit, Has
    <2>1. PICK k \in Keys : object' = [object EXCEPT ![o] = [rev |-> @.rev + 1, key |-> k, edited |-> TRUE]]
      BY <1>1 DEF Edit
    <2> DEFINE new == [rev |-> object[o].rev + 1, key |-> k, edited |-> TRUE]
    <2>2. object[o].rev \in Nat
      BY <1>0, <2>0 DEF ObjectState
    <2>3. new \in ObjectState /\ new.rev # 0 /\ new.edited
      BY <2>2 DEF ObjectState
    <2>4. object' = [object EXCEPT ![o] = new]
      BY <2>1
    <2> HIDE DEF new
    <2>5. /\ object' \in [Object -> ObjectState] /\ object'[o] = new
          /\ \A x \in Object \ {o} : object'[x] = object[x]
      BY <1>0, <2>0, <2>3, <2>4
    <2>6. KeysHaveProviders'
      BY <1>0, <2>0, <2>3, <2>5 DEF KeysHaveProviders
    <2>7. LoaderInv(t)' /\ SaverInv(t)'
      BY <2>0 DEF LoaderInv, SaverInv, Loading, Saving
    <2>8. CacheIsFresh'
      <3>1. cache.obj # NoObject => object'[cache.obj] = object[cache.obj] \/ object'[cache.obj].edited
        <4>1. cache.obj \in Object \cup {NoObject}
          BY <1>0
        <4> QED
          BY <2>3, <2>5, <4>1
      <3> QED
        BY <2>0, <3>1, CacheKept
    <2>9. \A u \in User \ {t} : user[u].pc \in Loading =>
               /\ user'[t].obj # user[u].obj /\ cache'.obj # user[u].obj
               /\ object'[user[u].obj] = object[user[u].obj]
      BY <1>a, <2>0, <2>5
    <2> QED
      BY <1>0, <2>0, <2>5, <2>6, <2>7, <2>8, <2>9, StepOfOne
  <1>2. CASE Save(t)
    <2> DEFINE raw == Settings(user[t].obj)
               new == [user[t] EXCEPT !.pc = "save", !.raw = raw, !.raced = FALSE]
    <2>0. /\ user[t].pc = "idle" /\ user[t].obj \in Object /\ saves' = saves + 1
          /\ UNCHANGED <<config, creds, cache, object, saved>> /\ user' = [user EXCEPT ![t] = new]
      BY <1>0, <1>2 DEF Save, Has
    <2>1. raw \in Data /\ (raw.rev = 0 => raw.key = NoSecret)
      BY <1>0, <2>0 DEF Settings, Data, ObjectState, KeysHaveProviders
    <2> HIDE DEF raw
    <2>2. new \in UserState /\ new.pc = "save" /\ new.obj = user[t].obj /\ new.raw = raw /\ ~new.raced
      BY <1>0, <2>1 DEF UserState
    <2> HIDE DEF new
    <2>3. user' \in [User -> UserState] /\ user'[t] = new /\ \A u \in User \ {t} : user'[u] = user[u]
      BY <1>0, <2>0, <2>2
    <2>4. LoaderInv(t)' /\ SaverInv(t)' /\ KeysHaveProviders'
      BY <1>0, <2>0, <2>1, <2>2, <2>3 DEF LoaderInv, SaverInv, Loading, Saving, KeysHaveProviders
    <2>5. CacheIsFresh'
      <3>1. \A u \in User : user[u].pc \in Saving => user'[u].pc \in Saving
        BY <2>0, <2>3 DEF Saving
      <3> QED
        BY <2>0, <3>1, CacheKept
    <2>6. \A u \in User \ {t} : user[u].pc \in Loading =>
               /\ user'[t].obj # user[u].obj /\ cache'.obj # user[u].obj
               /\ object'[user[u].obj] = object[user[u].obj]
      BY <1>a, <2>0, <2>2, <2>3
    <2> QED
      BY <1>0, <2>0, <2>3, <2>4, <2>5, <2>6, StepOfOne
  <1>3. CASE SaveFails(t)
    <2>0. /\ user[t].pc \in {"save", "secrets"} /\ UNCHANGED <<config, creds, object, saves, saved>>
          /\ user' = [user EXCEPT ![t] = Holding(t)]
          /\ cache' = [cache EXCEPT !.raced = @ \/ user[t].pc = "secrets"]
      BY <1>3 DEF SaveFails
    <2>1. /\ user' \in [User -> UserState] /\ user'[t].pc = "idle" /\ user'[t].obj = user[t].obj
          /\ \A u \in User \ {t} : user'[u] = user[u]
      BY <1>0, <2>0, HoldingState
    <2>2. /\ cache' \in [stamp : Nat, obj : Object \cup {NoObject}, raced : BOOLEAN]
          /\ cache'.obj = cache.obj /\ cache'.stamp = cache.stamp
          /\ cache'.raced = (cache.raced \/ user[t].pc = "secrets")
      BY <1>0, <2>0
    <2>3. LoaderInv(t)' /\ SaverInv(t)' /\ KeysHaveProviders'
      BY <1>0, <2>0, <2>1 DEF LoaderInv, SaverInv, Loading, Saving, KeysHaveProviders
    <2>4. CacheIsFresh'
      <3>1. CASE user[t].pc = "secrets"
        BY <2>2, <3>1 DEF CacheIsFresh
      <3>2. CASE user[t].pc = "save"
        <4>1. \A u \in User : user[u].pc \in Saving => user'[u].pc \in Saving
          BY <2>1, <3>2 DEF Saving
        <4>2. (\A u \in User : user'[u].pc \notin Saving) => \A u \in User : user[u].pc \notin Saving
          BY <4>1
        <4>3. FreshRead' = FreshRead /\ Settings(cache.obj)' = Settings(cache.obj)
          BY <2>0, <2>2 DEF FreshRead, Settings, MergeCredentials
        <4>4. ~cache'.raced => ~cache.raced
          BY <2>2
        <4> QED
          BY <2>0, <2>2, <4>2, <4>3, <4>4 DEF ConfigInv, ConfigIsKept, CacheIsFresh
      <3> QED
        BY <2>0, <3>1, <3>2
    <2>5. \A u \in User \ {t} : user[u].pc \in Loading =>
               /\ user'[t].obj # user[u].obj /\ cache'.obj # user[u].obj
               /\ object'[user[u].obj] = object[user[u].obj]
      BY <1>a, <2>0, <2>1, <2>2
    <2> QED
      BY <1>0, <2>0, <2>1, <2>2, <2>3, <2>4, <2>5, StepOfOne
  <1> QED
    BY <1>1, <1>2, <1>3

\* Who is overtaken by a write of t is raced; nothing else changes.
LEMMA RacedUsers ==
    ASSUME ConfigTyped, NEW t \in User, NEW p \in Saving, NEW reading, NEW stamp,
           user' = Race(t, [user EXCEPT ![t].pc = p], reading, stamp)
    PROVE  /\ user' \in [User -> UserState]
           /\ user'[t].pc = p
           /\ \A u \in User : user'[u].obj = user[u].obj /\ user'[u].raw = user[u].raw
           /\ user'[t].raced = user[t].raced
           /\ \A u \in User \ {t} : /\ user'[u].pc = user[u].pc /\ user'[u].stamp = user[u].stamp
                                    /\ user[u].pc \in Saving \cup reading => user'[u].raced
                                    /\ user[u].pc = "insert" /\ user[u].stamp = stamp => user'[u].raced
                                    /\ user[u].pc \notin Saving \cup reading \cup {"insert"} => user'[u].raced = user[u].raced
                                    /\ user[u].raced => user'[u].raced
  <1> DEFINE us == [user EXCEPT ![t].pc = p]
             row == [user[t] EXCEPT !.pc = p]
             Row(u) == [us[u] EXCEPT !.raced = @ \/ (u # t /\ Overtaken(us[u], reading, stamp))]
  <1>1. user \in [User -> UserState] /\ \A u \in User : user[u] \in UserState
    BY DEF ConfigTyped
  <1>2. row \in UserState /\ row.pc = p /\ row.obj = user[t].obj /\ row.raw = user[t].raw /\ row.raced = user[t].raced
    BY <1>1 DEF UserState, Saving
  <1>3. us[t] = row /\ \A u \in User \ {t} : us[u] = user[u]
    <2>1. us = [user EXCEPT ![t] = row]
      OBVIOUS
    <2> HIDE DEF row
    <2> QED
      BY <1>1, <2>1
  <1> HIDE DEF row
  <1>4. \A u \in User : us[u] \in UserState
    BY <1>1, <1>2, <1>3
  <1> HIDE DEF us
  <1>o. \A x : Overtaken(x, reading, stamp) \in BOOLEAN
    BY DEF Overtaken
  <1>5. \A u \in User : /\ Row(u) \in UserState
                        /\ Row(u).pc = us[u].pc /\ Row(u).obj = us[u].obj /\ Row(u).raw = us[u].raw
                        /\ Row(u).stamp = us[u].stamp
                        /\ Row(u).raced = (us[u].raced \/ (u # t /\ Overtaken(us[u], reading, stamp)))
    BY <1>4, <1>o DEF UserState
  <1>6. user' = [u \in User |-> Row(u)]
    BY DEF Race, us
  <1> HIDE DEF Row
  <1>7. user' \in [User -> UserState] /\ \A u \in User : user'[u] = Row(u)
    BY <1>5, <1>6
  <1>8. user'[t].pc = p /\ \A u \in User : user'[u].obj = user[u].obj /\ user'[u].raw = user[u].raw
    BY ZenonT(60), <1>2, <1>3, <1>5, <1>7
  <1>9. user'[t].raced = user[t].raced
    <2>1. user[t].raced \in BOOLEAN
      BY <1>1 DEF UserState
    <2> QED
      BY <1>2, <1>3, <1>5, <1>7, <2>1
  <1>10. ASSUME NEW u \in User \ {t}
         PROVE  /\ user'[u].pc = user[u].pc /\ user'[u].stamp = user[u].stamp
                /\ user[u].pc \in Saving \cup reading => user'[u].raced
                /\ user[u].pc = "insert" /\ user[u].stamp = stamp => user'[u].raced
                /\ user[u].pc \notin Saving \cup reading \cup {"insert"} => user'[u].raced = user[u].raced
                /\ user[u].raced => user'[u].raced
    <2>1. user'[u] = Row(u) /\ us[u] = user[u] /\ u # t /\ user[u].raced \in BOOLEAN
      BY <1>1, <1>3, <1>7 DEF UserState
    <2>2. user'[u].raced = (user[u].raced \/ (u # t /\ Overtaken(user[u], reading, stamp)))
      BY Zenon, <1>5, <2>1
    <2> QED
      BY <1>5, <1>o, <2>1, <2>2 DEF Overtaken
  <1> QED
    BY <1>7, <1>8, <1>9, <1>10

\* A write of one file by t, which is saving from then on.
LEMMA StepOfFile ==
    ASSUME ConfigInv, NEW t \in User, NEW p \in Saving, NEW reading, "built" \in reading, "save" \notin reading,
           user' = Race(t, [user EXCEPT ![t].pc = p], reading, config'.stamp),
           "creds" \in reading \/ config' = config,
           config' \in [rev : Nat, key : Keys, stamp : Nat], config'.stamp # 0 \/ config' = config,
           creds' \in Keys, saved' = Default, UNCHANGED <<cache, object, saves>>, SaverInv(t)'
    PROVE  ConfigInv'
  <1>0. ConfigTyped /\ KeysHaveProviders
    BY DEF ConfigInv
  <1>1. /\ user' \in [User -> UserState]
        /\ user'[t].pc = p
        /\ \A u \in User : user'[u].obj = user[u].obj /\ user'[u].raw = user[u].raw
        /\ \A u \in User \ {t} : /\ user'[u].pc = user[u].pc /\ user'[u].stamp = user[u].stamp
                                 /\ user[u].pc \in Saving \cup reading => user'[u].raced
                                 /\ user[u].pc = "insert" /\ user[u].stamp = config'.stamp => user'[u].raced
                                 /\ user[u].pc \notin Saving \cup reading \cup {"insert"} => user'[u].raced = user[u].raced
                                 /\ user[u].raced => user'[u].raced
    <2>1. user' \in [User -> UserState] /\ user'[t].pc = p
      BY <1>0, RacedUsers
    <2>2. ASSUME NEW u \in User PROVE user'[u].obj = user[u].obj /\ user'[u].raw = user[u].raw
      BY <1>0, <2>2, RacedUsers
    <2>3. ASSUME NEW u \in User \ {t}
          PROVE  /\ user'[u].pc = user[u].pc /\ user'[u].stamp = user[u].stamp
                 /\ user[u].pc \in Saving \cup reading => user'[u].raced
                 /\ user[u].pc = "insert" /\ user[u].stamp = config'.stamp => user'[u].raced
                 /\ user[u].pc \notin Saving \cup reading \cup {"insert"} => user'[u].raced = user[u].raced
                 /\ user[u].raced => user'[u].raced
      BY <1>0, <2>3, RacedUsers
    <2> QED
      BY <2>1, <2>2, <2>3
  <1>2. ConfigTyped'
    BY <1>0, <1>1, ConfigRecords DEF ConfigTyped
  <1>3. CacheIsFresh' /\ SavedIsRead' /\ KeysHaveProviders'
    BY <1>0, <1>1 DEF CacheIsFresh, SavedIsRead, KeysHaveProviders
  <1>4. LoaderInv(t)'
    BY <1>1 DEF LoaderInv, Loading, Saving
  <1>5. ASSUME NEW u \in User \ {t} PROVE LoaderInv(u)'
    <2> SUFFICES ASSUME user[u].pc \in Loading PROVE LoaderInv(u)'
      BY <1>1 DEF LoaderInv
    <2>1. LoaderInv(u) /\ user[u].raced \in BOOLEAN
      BY <1>0 DEF ConfigInv, ConfigTyped, UserState
    <2>2. /\ user'[u].pc = user[u].pc /\ user'[u].stamp = user[u].stamp /\ user'[u].raw = user[u].raw
          /\ \A v \in User : user'[v].obj = user[v].obj
          /\ user[u].pc \in Saving \cup reading => user'[u].raced
          /\ user[u].pc = "insert" /\ user[u].stamp = config'.stamp => user'[u].raced
          /\ user[u].pc \notin Saving \cup reading \cup {"insert"} => user'[u].raced = user[u].raced
          /\ user[u].raced => user'[u].raced
      BY <1>1
    <2>3. CASE user[u].pc = "built"
      <3>1. user'[u].raced
        BY <2>2, <2>3
      <3> QED
        BY <2>1, <2>2, <2>3, <3>1 DEF LoaderInv
    <2>4. CASE user[u].pc = "insert"
      <3>1. user'[u].raced \/ user'[u].stamp # config'.stamp
        BY <2>2, <2>4
      <3> QED
        BY <2>1, <2>2, <2>4, <3>1 DEF LoaderInv
    <2>5. CASE user[u].pc = "creds"
      <3>1. user'[u].raced \/ (config' = config /\ (user[u].raced => user'[u].raced))
        BY <2>1, <2>2, <2>5
      <3> QED
        BY <2>1, <2>2, <2>5, <3>1 DEF LoaderInv
    <2> QED
      BY <2>3, <2>4, <2>5 DEF Loading
  <1>6. ASSUME NEW u \in User \ {t} PROVE SaverInv(u)'
    <2>1. SaverInv(u) /\ user[u].raced \in BOOLEAN
      BY <1>0 DEF ConfigInv, ConfigTyped, UserState
    <2>2. /\ user'[u].pc = user[u].pc /\ user'[u].obj = user[u].obj /\ user'[u].raw = user[u].raw
          /\ user[u].pc \in Saving \cup reading => user'[u].raced
          /\ user[u].pc = "insert" /\ user[u].stamp = config'.stamp => user'[u].raced
          /\ user[u].pc \notin Saving \cup reading \cup {"insert"} => user'[u].raced = user[u].raced
          /\ user[u].raced => user'[u].raced
      BY <1>1
    <2>3. CASE user[u].pc \in Saving
      <3>1. user'[u].raced
        BY <2>2, <2>3
      <3> QED
        BY <2>1, <2>2, <2>3, <3>1 DEF SaverInv, Saving
    <2>4. CASE user[u].pc \notin Saving
      <3>1. user[u].pc = "save" => ~user'[u].raced
        BY <2>1, <2>2, <2>4 DEF SaverInv, Saving
      <3> QED
        BY <2>1, <2>2, <2>4, <3>1 DEF SaverInv, Saving
    <2> QED
      BY <2>3, <2>4
  <1> QED
    BY <1>2, <1>3, <1>4, <1>5, <1>6 DEF ConfigInv, ConfigIsKept

LEMMA WriteSteps ==
    ASSUME ConfigInv, NEW t \in User, WriteConfig(t) \/ WriteSecrets(t)
    PROVE  ConfigInv'
  <1>0. /\ ConfigTyped /\ SaverInv(t) /\ user[t] \in UserState /\ user[t].raw \in Data
        /\ config \in [rev : Nat, key : Keys, stamp : Nat] /\ saves \in Nat /\ creds \in Keys
        /\ config.stamp \in Nat
    BY DEF ConfigInv, ConfigTyped, UserState
  <1>a. user[t].raw.rev \in Nat /\ user[t].raw.key \in Keys /\ NoSecret \in Keys
    BY <1>0 DEF Data, Keys
  <1>1. CASE WriteConfig(t)
    <2>0. /\ user[t].pc = "save" /\ saved' = Default /\ UNCHANGED <<creds, cache, object, saves>>
          /\ user' = Race(t, [user EXCEPT ![t].pc = "secrets"], {"creds", "built"}, config'.stamp)
      BY <1>1 DEF WriteConfig
    <2>1. PICK s \in {config.stamp, MaxSaves + saves + 1} \ {0} :
              config' = [rev |-> user[t].raw.rev, key |-> NoSecret, stamp |-> s]
      BY <1>1 DEF WriteConfig, SplitConfig
    <2>2. s \in Nat \ {0}
      BY <1>0, ConfigAssumption
    <2>3. /\ config' \in [rev : Nat, key : Keys, stamp : Nat]
          /\ config'.stamp # 0 /\ config'.rev = user[t].raw.rev /\ config'.key = NoSecret
      BY <1>a, <2>1, <2>2
    <2>4. "secrets" \in Saving
      BY DEF Saving
    <2>5. /\ user'[t].pc = "secrets" /\ user'[t].obj = user[t].obj /\ user'[t].raw = user[t].raw
      BY <1>0, <2>0, <2>4, RacedUsers
    <2>6. SaverInv(t)'
      BY <1>0, <2>0, <2>3, <2>5 DEF SaverInv, Saving
    <2> QED
      BY <1>0, <2>0, <2>3, <2>4, <2>6, StepOfFile
  <1>2. CASE WriteSecrets(t)
    <2>0. /\ user[t].pc = "secrets" /\ saved' = Default /\ UNCHANGED <<config, cache, object, saves>>
          /\ user' = Race(t, [user EXCEPT ![t].pc = "finish"], {"built"}, config'.stamp) /\ creds' = user[t].raw.key
      BY <1>2 DEF WriteSecrets, SplitSecrets
    <2>1. "finish" \in Saving
      BY DEF Saving
    <2>2. /\ user'[t].pc = "finish" /\ user'[t].obj = user[t].obj /\ user'[t].raw = user[t].raw
          /\ user'[t].raced = user[t].raced
      BY <1>0, <2>0, <2>1, RacedUsers
    <2>3. SaverInv(t)'
      BY <1>0, <2>0, <2>2 DEF SaverInv, Saving
    <2> QED
      BY <1>0, <1>a, <2>0, <2>1, <2>3, StepOfFile
  <1> QED
    BY <1>1, <1>2

LEMMA FinishStep ==
    ASSUME ConfigInv, NEW t \in User, FinishSave(t)
    PROVE  ConfigInv'
  <1>0. /\ ConfigTyped /\ user[t] \in UserState /\ SaverInv(t) /\ KeysHaveProviders
        /\ user \in [User -> UserState] /\ object \in [Object -> ObjectState] /\ saves \in Nat
        /\ user[t].raw \in Data /\ config \in [rev : Nat, key : Keys, stamp : Nat] /\ creds \in Keys
    BY DEF ConfigInv, ConfigTyped, UserState
  <1>1. /\ user[t].pc = "finish" /\ cache' = NoCache /\ user' = [user EXCEPT ![t] = Holding(t)]
        /\ saved' = (IF user[t].raced THEN Default ELSE user[t].raw)
        /\ object' = Collected(user', cache') /\ UNCHANGED <<config, creds, saves>>
    BY DEF FinishSave, Invalidate
  <1>2. /\ user' \in [User -> UserState] /\ user'[t].pc = "idle" /\ user'[t].obj = user[t].obj
        /\ \A u \in User \ {t} : user'[u] = user[u]
    BY <1>0, <1>1, HoldingState
  <1>3. /\ cache' \in [stamp : Nat, obj : Object \cup {NoObject}, raced : BOOLEAN]
        /\ cache'.obj = NoObject
    BY <1>1, ConfigRecords
  <1>4. LoaderInv(t)' /\ SaverInv(t)'
    BY <1>2 DEF LoaderInv, SaverInv, Loading, Saving
  <1>5. CacheIsFresh'
    BY <1>3 DEF CacheIsFresh
  <1>6. object' \in [Object -> ObjectState] /\ KeysHaveProviders'
    BY <1>0, <1>1, CollectedObjects DEF KeysHaveProviders
  <1>7. ASSUME NEW u \in User \ {t}, user[u].pc \in Loading
        PROVE  /\ user'[t].obj # user[u].obj /\ cache'.obj # user[u].obj
               /\ object'[user[u].obj] = object[user[u].obj]
    <2>1. user[u].obj \in Object /\ user[t].obj # user[u].obj
      BY <1>7 DEF ConfigInv, LoaderInv
    <2>2. user'[u].obj = user[u].obj
      BY <1>2
    <2>3. object'[user[u].obj] = object[user[u].obj]
      BY <1>1, <2>1, <2>2 DEF Collected
    <2> QED
      BY <1>2, <1>3, <2>1, <2>3, ConfigAssumption
  <1>8. saved' \in Data /\ SavedIsRead'
    <2>1. saved' \in Data
      BY <1>0, <1>1, ConfigRecords
    <2>2. CASE user[t].raced
      <3>1. saved' = Default
        BY <1>1, <2>2
      <3> QED
        BY <2>1, <3>1 DEF SavedIsRead
    <2>3. CASE ~user[t].raced
      <3> DEFINE d == user[t].raw
      <3>1. /\ config.rev = d.rev /\ config.key = NoSecret /\ config.stamp # 0 /\ creds = d.key
            /\ d.rev = 0 => d.key = NoSecret
        BY <1>0, <1>1, <2>3 DEF SaverInv, Saving
      <3>2. FreshRead = [rev |-> d.rev, key |-> d.key]
        BY <3>1 DEF FreshRead, MergeCredentials
      <3>3. d = [rev |-> d.rev, key |-> d.key]
        BY <1>0 DEF Data
      <3>4. FreshRead' = FreshRead
        BY <1>1 DEF FreshRead, MergeCredentials
      <3>5. saved' = d
        BY <1>1, <2>3
      <3> QED
        BY <2>1, <3>2, <3>3, <3>4, <3>5 DEF SavedIsRead
    <2> QED
      BY <2>2, <2>3, <2>1
  <1> QED
    BY <1>0, <1>1, <1>2, <1>3, <1>4, <1>5, <1>6, <1>7, <1>8, StepOfThread

LEMMA ConfigStep == ConfigInv /\ [ConfigNext]_configVars => ConfigInv'
  <1> SUFFICES ASSUME ConfigInv, [ConfigNext]_configVars PROVE ConfigInv'
    OBVIOUS
  <1>1. ASSUME NEW t \in User, LoadStep(t) \/ Edit(t) \/ Save(t) \/ SaveStep(t) PROVE ConfigInv'
    BY <1>1, LoadSteps, BuildSteps, EditSteps, WriteSteps, FinishStep DEF LoadStep, SaveStep
  <1>2. CASE NewerRelease \/ UNCHANGED configVars
    <2>1. UNCHANGED <<config, creds, cache, object, user, saves, saved>>
      BY <1>2 DEF NewerRelease, configVars
    <2>2. ConfigTyped' /\ KeysHaveProviders'
      BY <2>1 DEF ConfigInv, ConfigTyped, KeysHaveProviders
    <2>3. FreshRead' = FreshRead /\ \A o \in Object \cup {NoObject} : Settings(o)' = Settings(o)
      BY <2>1 DEF FreshRead, Settings, MergeCredentials
    <2>4. ConfigIsKept'
      BY <2>1, <2>3 DEF ConfigInv, ConfigTyped, ConfigIsKept, CacheIsFresh, SavedIsRead
    <2>5. ASSUME NEW t \in User PROVE LoaderInv(t)' /\ SaverInv(t)'
      <3>1. user[t].obj \in Object \cup {NoObject}
        BY DEF ConfigInv, ConfigTyped, UserState
      <3>2. LoaderInv(t) /\ SaverInv(t) /\ Settings(user[t].obj)' = Settings(user[t].obj)
        BY <2>3, <3>1, <2>1 DEF ConfigInv, Settings
      <3> QED
        BY <2>1, <2>3, <3>2 DEF LoaderInv, SaverInv
    <2> QED
      BY <2>2, <2>4, <2>5 DEF ConfigInv
  <1>3. CASE Restart
    <2>1. /\ cache' = NoCache /\ object' = [o \in Object |-> Nobody] /\ user' = [t \in User |-> AtRest]
          /\ UNCHANGED <<config, creds, saves, saved>>
      BY <1>3 DEF Restart
    <2>2. ConfigTyped' /\ KeysHaveProviders'
      BY <2>1, ConfigRecords DEF ConfigInv, ConfigTyped, KeysHaveProviders
    <2>3. FreshRead' = FreshRead
      BY <2>1 DEF FreshRead, MergeCredentials
    <2>4. ConfigIsKept'
      BY <2>1, <2>3, ConfigRecords DEF ConfigInv, ConfigIsKept, CacheIsFresh, SavedIsRead
    <2>5. \A t \in User : LoaderInv(t)' /\ SaverInv(t)'
      BY <2>1, ConfigRecords DEF LoaderInv, SaverInv, Loading, Saving
    <2> QED
      BY <2>2, <2>4, <2>5 DEF ConfigInv
  <1> QED
    BY <1>1, <1>2, <1>3 DEF ConfigNext

\* ConfigStore: while nobody is saving, an entry the cache would return holds what
\* config.json and credentials.json hold, however loads, edits, saves, failed saves and kills
\* interleave, unless a file was written between the load's read of it and the stamp the
\* load kept (or later under that same stamp), a save failed between the two files, or the
\* store was edited in place; and what a save wrote that no other save's writes overlapped
\* is read back.  CacheHitsAreCurrent and SavesAreWhole, which the code's comments claim
\* without the exceptions, do not hold.
THEOREM ConfigurationIsKept == ConfigSpec => []ConfigIsKept
  <1>1. ConfigInv => ConfigIsKept
    BY DEF ConfigInv
  <1> QED
    BY <1>1, ConfigInitially, ConfigStep, PTL DEF ConfigSpec

-----------------------------------------------------------------------------
(* Induction, for the recursive functions of the traversals *)


LEMMA LeastNat ==
    ASSUME NEW T, T \subseteq Nat, T # {}
    PROVE  \E n \in T : \A m \in T : n <= m
  <1> DEFINE R == OpToRel(<, Nat)
  <1>1. IsWellFoundedOn(R, Nat)
    BY NatLessThanWellFounded
  <1>2. \A x, y \in Nat : y < x => <<y, x>> \in R
    BY DEF OpToRel
  <1> HIDE DEF R
  <1>3. PICK x \in T : \A y \in T : ~(<<y, x>> \in R)
    BY <1>1, WFMin
  <1>4. ASSUME NEW y \in T PROVE x <= y
    <2>1. x \in Nat /\ y \in Nat
      OBVIOUS
    <2>2. ~(y < x)
      BY <2>1, <1>2, <1>3
    <2> QED
      BY <2>1, <2>2
  <1> QED
    BY <1>4

LEMMA Induction ==
    ASSUME NEW T, 0 \in T, \A n \in Nat : n \in T => n + 1 \in T
    PROVE  \A n \in Nat : n \in T
  <1> SUFFICES ASSUME Nat \ T # {} PROVE FALSE
    OBVIOUS
  <1>1. PICK x \in Nat \ T : \A m \in Nat \ T : x <= m
    BY LeastNat
  <1>2. x # 0 /\ x - 1 \in Nat
    BY <1>1
  <1>3. x - 1 \in T
    BY <1>1, <1>2
  <1>4. (x - 1) + 1 \in T
    BY <1>2, <1>3
  <1> QED
    BY <1>1, <1>4

\* A function on 0..n that is defined by its first value and a step from each value to
\* the next.
Unrolls(f, n, V, a, G) == f \in [0..n -> V] /\ f[0] = a /\ \A i \in 1..n : f[i] = G[i][f[i - 1]]

LEMMA Recursion ==
    ASSUME NEW N \in Nat, NEW V, NEW a \in V, NEW G \in [1..N -> [V -> V]]
    PROVE  \E f : Unrolls(f, N, V, a, G)
  <1> DEFINE Solves(f, n) == Unrolls(f, n, V, a, G)
             T == {n \in Nat : n <= N => \E f : Solves(f, n)}
  <1> USE DEF Unrolls
  <1>1. 0 \in T
    <2>1. Solves([i \in 0..0 |-> a], 0)
      OBVIOUS
    <2> QED
      BY <2>1
  <1>2. ASSUME NEW n \in Nat, n \in T PROVE n + 1 \in T
    <2> SUFFICES ASSUME n + 1 <= N PROVE \E f : Solves(f, n + 1)
      OBVIOUS
    <2>1. PICK f : Solves(f, n)
      BY <1>2
    <2> DEFINE next == [i \in 0..n + 1 |-> IF i = n + 1 THEN G[n + 1][f[n]] ELSE f[i]]
    <2>2. f[n] \in V
      BY <2>1
    <2>3. G[n + 1] \in [V -> V]
      OBVIOUS
    <2>3a. G[n + 1][f[n]] \in V
      BY <2>2, <2>3
    <2>4. next \in [0..n + 1 -> V]
      BY <2>1, <2>3a
    <2>5. next[0] = a
      BY <2>1
    <2>6. ASSUME NEW i \in 1..n + 1 PROVE next[i] = G[i][next[i - 1]]
      <3>1. CASE i = n + 1
        <4>1. next[i - 1] = f[n]
          BY <3>1
        <4> QED
          BY <3>1, <4>1
      <3>2. CASE i # n + 1
        <4>1. i \in 1..n /\ i - 1 \in 0..n /\ i - 1 # n + 1
          BY <3>2
        <4>2. next[i - 1] = f[i - 1] /\ next[i] = f[i]
          BY <4>1
        <4> QED
          BY <2>1, <4>1, <4>2
      <3> QED
        BY <3>1, <3>2
    <2> HIDE DEF next
    <2> QED
      BY <2>4, <2>5, <2>6
  <1> HIDE DEF T
  <1>3. N \in T
    BY <1>1, <1>2, Induction
  <1> QED
    BY <1>3 DEF T

-----------------------------------------------------------------------------
(* Sequences and the values they hold *)


LEMMA RangeOfJoin ==
    ASSUME NEW S, NEW s \in Seq(S), NEW t \in Seq(S)
    PROVE  s \o t \in Seq(S) /\ Range(s \o t) = Range(s) \cup Range(t)
  BY RangeConcatenation

LEMMA HeadAndTail ==
    ASSUME NEW S, NEW s \in Seq(S), s # <<>>
    PROVE  /\ Len(s) \in Nat \ {0} /\ Head(s) \in S /\ Tail(s) \in Seq(S)
           /\ Head(s) = s[1] /\ Len(Tail(s)) = Len(s) - 1
           /\ \A i \in 1..Len(s) - 1 : Tail(s)[i] = s[i + 1]
           /\ Range(s) = {Head(s)} \cup Range(Tail(s))
  <1>1. /\ Len(s) \in Nat \ {0} /\ Head(s) \in S /\ Tail(s) \in Seq(S)
        /\ Head(s) = s[1] /\ Len(Tail(s)) = Len(s) - 1
        /\ \A i \in 1..Len(s) - 1 : Tail(s)[i] = s[i + 1]
    OBVIOUS
  <1>2. ASSUME NEW x \in Range(s) PROVE x \in {Head(s)} \cup Range(Tail(s))
    <2>1. PICK i \in 1..Len(s) : x = s[i]
      BY DEF Range
    <2>2. CASE i = 1
      BY <1>1, <2>1, <2>2
    <2>3. CASE i # 1
      <3>1. i - 1 \in 1..Len(s) - 1 /\ (i - 1) + 1 = i
        BY <1>1, <2>3
      <3>2. Tail(s)[i - 1] = s[(i - 1) + 1]
        BY <1>1, <3>1
      <3>3. i - 1 \in DOMAIN Tail(s) /\ Tail(s)[i - 1] = x
        BY <1>1, <2>1, <3>1, <3>2
      <3> QED
        BY <3>3 DEF Range
    <2> QED
      BY <2>2, <2>3
  <1>3. ASSUME NEW x \in Range(Tail(s)) PROVE x \in Range(s)
    <2>1. PICK i \in 1..Len(s) - 1 : x = Tail(s)[i]
      BY <1>1 DEF Range
    <2>2. i + 1 \in 1..Len(s)
      BY <1>1
    <2> QED
      BY <1>1, <2>1, <2>2 DEF Range
  <1>4. Head(s) \in Range(s)
    BY <1>1 DEF Range
  <1> QED
    BY <1>1, <1>2, <1>3, <1>4

LEMMA FrontAndLast ==
    ASSUME NEW S, NEW s \in Seq(S), s # <<>>
    PROVE  /\ Len(s) \in Nat \ {0} /\ Last(s) \in S /\ Front(s) \in Seq(S)
           /\ Last(s) = s[Len(s)] /\ Len(Front(s)) = Len(s) - 1
           /\ \A i \in 1..Len(s) - 1 : Front(s)[i] = s[i]
           /\ Range(s) = {Last(s)} \cup Range(Front(s))
  <1>1. /\ Len(s) \in Nat \ {0} /\ Last(s) \in S /\ Front(s) \in Seq(S)
        /\ Last(s) = s[Len(s)] /\ Len(Front(s)) = Len(s) - 1
        /\ \A i \in 1..Len(s) - 1 : Front(s)[i] = s[i]
    <2>1. Len(s) \in Nat \ {0} /\ s[Len(s)] \in S
      OBVIOUS
    <2>2. /\ SubSeq(s, 1, Len(s) - 1) \in Seq(S) /\ Len(SubSeq(s, 1, Len(s) - 1)) = Len(s) - 1
          /\ \A i \in 1..Len(s) - 1 : SubSeq(s, 1, Len(s) - 1)[i] = s[i]
      <3>1. PICK n \in Int : n = Len(s) - 1
        BY <2>1
      <3>2. \A i \in 1..n : s[i] \in S
        BY <2>1, <3>1
      <3>3. /\ SubSeq(s, 1, n) \in Seq(S)
            /\ Len(SubSeq(s, 1, n)) = IF 1 <= n THEN n - 1 + 1 ELSE 0
            /\ \A i \in 1..n - 1 + 1 : SubSeq(s, 1, n)[i] = s[1 + i - 1]
        BY <3>2, SubSeqProperties
      <3>4. /\ SubSeq(s, 1, n) \in Seq(S) /\ Len(SubSeq(s, 1, n)) = n
            /\ \A i \in 1..n : SubSeq(s, 1, n)[i] = s[i]
        BY <2>1, <3>1, <3>3
      <3> QED
        BY <3>1, <3>4
    <2> QED
      BY <2>1, <2>2 DEF Front, Last
  <1>2. ASSUME NEW x \in Range(s) PROVE x \in {Last(s)} \cup Range(Front(s))
    <2>1. PICK i \in 1..Len(s) : x = s[i]
      BY DEF Range
    <2>2. CASE i = Len(s)
      BY <1>1, <2>1, <2>2
    <2>3. CASE i # Len(s)
      <3>1. i \in 1..Len(s) - 1
        BY <1>1, <2>3
      <3> QED
        BY <1>1, <2>1, <3>1 DEF Range
    <2> QED
      BY <2>2, <2>3
  <1>3. ASSUME NEW x \in Range(Front(s)) PROVE x \in Range(s)
    <2>1. PICK i \in 1..Len(s) - 1 : x = Front(s)[i]
      BY <1>1 DEF Range
    <2> QED
      BY <1>1, <2>1 DEF Range
  <1>4. Last(s) \in Range(s)
    BY <1>1 DEF Range
  <1> QED
    BY <1>1, <1>2, <1>3, <1>4

LEMMA RangeOfAppend ==
    ASSUME NEW S, NEW s \in Seq(S), NEW x \in S
    PROVE  /\ Append(s, x) \in Seq(S) /\ Len(Append(s, x)) = Len(s) + 1
           /\ Append(s, x)[Len(s) + 1] = x /\ \A i \in 1..Len(s) : Append(s, x)[i] = s[i]
           /\ Range(Append(s, x)) = Range(s) \cup {x}
  <1>1. /\ Append(s, x) \in Seq(S) /\ Len(Append(s, x)) = Len(s) + 1
        /\ Append(s, x)[Len(s) + 1] = x /\ \A i \in 1..Len(s) : Append(s, x)[i] = s[i]
    OBVIOUS
  <1>2. ASSUME NEW y \in Range(Append(s, x)) PROVE y \in Range(s) \cup {x}
    <2>1. PICK i \in 1..Len(s) + 1 : y = Append(s, x)[i]
      BY <1>1 DEF Range
    <2> QED
      BY <1>1, <2>1 DEF Range
  <1>3. x \in Range(Append(s, x)) /\ Range(s) \subseteq Range(Append(s, x))
    BY <1>1 DEF Range
  <1> QED
    BY <1>1, <1>2, <1>3

LEMMA RangeOfReverse ==
    ASSUME NEW S, NEW s \in Seq(S)
    PROVE  Reverse(s) \in Seq(S) /\ Range(Reverse(s)) = Range(s)
  <1>1. Reverse(s) \in Seq(S) /\ Len(Reverse(s)) = Len(s)
        /\ \A i \in 1..Len(s) : Reverse(s)[i] = s[Len(s) - i + 1]
    BY DEF Reverse
  <1>2. \A i \in 1..Len(s) : Len(s) - i + 1 \in 1..Len(s) /\ Len(s) - (Len(s) - i + 1) + 1 = i
    OBVIOUS
  <1>3. ASSUME NEW x \in Range(Reverse(s)) PROVE x \in Range(s)
    <2>1. PICK i \in 1..Len(s) : x = Reverse(s)[i]
      BY <1>1 DEF Range
    <2> QED
      <3>1. PICK j \in 1..Len(s) : j = Len(s) - i + 1
        BY <1>2
      <3>2. j \in DOMAIN s /\ s[j] = x
        BY <1>1, <2>1, <3>1
      <3> QED
        BY <3>2 DEF Range
  <1>4. ASSUME NEW x \in Range(s) PROVE x \in Range(Reverse(s))
    <2>1. PICK i \in 1..Len(s) : x = s[i]
      BY DEF Range
    <2>2. PICK j \in 1..Len(s) : Len(s) - j + 1 = i
      BY <1>2
    <2>3. j \in DOMAIN Reverse(s) /\ Reverse(s)[j] = x
      BY <1>1, <2>1, <2>2
    <2> QED
      BY <2>3 DEF Range
  <1> QED
    BY <1>1, <1>3, <1>4

LEMMA EmptyRange == Range(<<>>) = {}
  BY DEF Range

-----------------------------------------------------------------------------
(* Traversals: the inductive invariant *)


\* A graph: a list of known or unknown ids for each node.
IsGraph(g) == g \in [Ids -> Seq(Everyone)]

GraphTyped ==
    /\ IsGraph(nexts) /\ decl \in Declaration /\ seen \subseteq Ids
    /\ algorithm \in {"none", "compile", "ancestors", "descendants", "acyclic"}
    /\ verdict = "none" => algorithm = "none"
    /\ verdict \in {"none", "start", "checked"} => pending = <<>> /\ seen = {} /\ out = <<>>

\* A worklist that started from the ids S: what is visited or waits is reachable, and
\* every neighbour of a visited id is visited or waits.
Explores(g, S, visited, waiting) ==
    /\ visited \cup Range(waiting) \subseteq Closure(g, S)
    /\ S \subseteq visited \cup Range(waiting)
    /\ \A n \in visited : Targets(g, n) \subseteq visited \cup Range(waiting)

Declared(d) == d.nodes = "marked" /\ ~d.unkeyedRetry /\ d.entries = 1

CompileWalk ==
    algorithm = "compile" =>
        /\ verdict \in {"start", "checked", "busy", "done", "error"}
        /\ verdict \in {"checked", "busy"} => Declared(decl)
        /\ verdict = "busy" => /\ \A n \in Ids : NodeAccepted(n)
                               /\ pending \in Seq(Ids) /\ Explores(nexts, {Root}, seen, pending)

\* The queue of the ancestors holds what is left of one ring, then ids of the next.
InRings(g, visited, answer, queue, k, m) ==
    LET ring == Ring(g) IN
    /\ k \in 0..Len(answer) /\ m \in 0..Len(queue) /\ (m < Len(queue) => k < Len(answer))
    /\ \A i \in DOMAIN queue : queue[i] \in ring[IF i <= m THEN k ELSE k + 1]
    /\ \A j \in 0..k : j < k => ring[j] \subseteq visited
    /\ \A n \in ring[k] : n \in visited \/ \E i \in 1..m : queue[i] = n
    /\ \A i \in DOMAIN answer : \E j \in 0..k : answer[i] \in ring[j]

AncestorWalk ==
    algorithm = "ancestors" =>
        /\ verdict \in {"start", "busy", "done", "error"}
        /\ out \in Seq(Ids) /\ IsInjective(out) /\ seen = Range(out)
        /\ verdict = "busy" => /\ pending \in Seq(Everyone)
                               /\ Explores(nexts, Succ(Root), seen, pending)
                               /\ \E k \in 0..Len(Node), m \in 0..Len(pending) :
                                    InRings(nexts, seen, out, pending, k, m)

\* The sessions below n, and below the root.
Below(g, n) == {m \in Ids : n \in Targets(g, m)}
Offspring(g) == {n \in Ids : Root \in Closure(g, Targets(g, n))}

\* A session of the list is a child of the root or of one listed before it.
ParentsFirst(g, list) ==
    \A i \in DOMAIN list :
        Root \in Targets(g, list[i]) \/ \E j \in DOMAIN list : j < i /\ list[j] \in Targets(g, list[i])

\* A cycle among the descendants stays above something that waits.
OnCycle(g, n) == n \in Closure(g, Targets(g, n))

CycleAhead(g, waiting) ==
    (\E c \in Offspring(g) : OnCycle(g, c)) =>
        \E x \in Range(waiting), c \in Offspring(g) : OnCycle(g, c) /\ x \in Closure(g, Targets(g, c))

DescendantWalk ==
    algorithm = "descendants" =>
        /\ verdict \in {"start", "busy", "done"}
        /\ verdict = "busy" =>
            /\ out \in Seq(Ids) /\ pending \in Seq(Ids)
            /\ Range(out) \cup Range(pending) \subseteq Offspring(nexts)
            /\ Below(nexts, Root) \subseteq Range(out) \cup Range(pending)
            /\ \A n \in Range(out) : Below(nexts, n) \subseteq Range(out) \cup Range(pending)
            /\ ParentsFirst(nexts, out) /\ CycleAhead(nexts, pending)
            /\ \A i \in DOMAIN pending :
                Root \in Succ(pending[i]) \/ \E j \in DOMAIN out : out[j] \in Succ(pending[i])

\* The call stack of the cycle check is a path of distinct gray sessions. What a frame
\* has iterated over is black, but for the session its successor on the stack visits.
StackFrame == [node : Ids, rest : Seq(Ids)]

FrameRight(g, black, stack, i) ==
    /\ stack[i].node \notin black
    /\ Range(stack[i].rest) \subseteq Targets(g, stack[i].node)
    /\ \A n \in Targets(g, stack[i].node) :
        n \in black \cup Range(stack[i].rest) \/ (i < Len(stack) /\ stack[i + 1].node = n)
    /\ \A j \in 1..Len(stack) : i < j =>
        stack[i].node # stack[j].node /\ stack[j].node \in Closure(g, Targets(g, stack[i].node))

GrayPath(g, black, stack) ==
    stack \in Seq(StackFrame) /\ \A i \in 1..Len(stack) : FrameRight(g, black, stack, i)

CycleWalk ==
    algorithm = "acyclic" =>
        /\ verdict \in {"start", "busy", "done", "error", "deep"}
        /\ verdict = "busy" =>
            /\ ~Dangling /\ GrayPath(nexts, seen, pending)
            /\ \A n \in seen : Succ(n) \subseteq seen /\ n \notin Closure(nexts, Succ(n))

GraphInv == GraphTyped /\ CompileWalk /\ AncestorWalk /\ DescendantWalk /\ CycleWalk /\ TraversalsAreRight

-----------------------------------------------------------------------------
(* Traversals: reachability, rings, children and repetitions *)


LEMMA NodesAreIds ==
    /\ Node \in Seq(Ids) /\ Len(Node) \in Nat \ {0} /\ Root \in Ids
    /\ \A i \in 1..Len(Node) : Node[i] \in Ids
    /\ \A n \in Ids : \E i \in 1..Len(Node) : Node[i] = n
  <1>1. Node \in Seq(Ids) /\ Len(Node) > 0
    BY TraversalAssumption
  <1>2. Len(Node) \in Nat \ {0} /\ DOMAIN Node = 1..Len(Node)
    BY <1>1
  <1>3. \A i \in 1..Len(Node) : Node[i] \in Ids
    BY <1>1
  <1>4. \A n \in Ids : \E i \in 1..Len(Node) : Node[i] = n
    BY <1>2 DEF Ids, Range
  <1> QED
    BY <1>1, <1>2, <1>3, <1>4 DEF Root

LEMMA TargetsKnown ==
    ASSUME NEW g, IsGraph(g), NEW n
    PROVE  /\ Targets(g, n) \subseteq Everyone
           /\ n \in Ids => g[n] \in Seq(Everyone) /\ Targets(g, n) = Range(g[n])
           /\ n \notin Ids => Targets(g, n) = {}
  <1>1. n \in Ids => g[n] \in Seq(Everyone)
    BY DEF IsGraph
  <1>2. n \in Ids => Range(g[n]) \subseteq Everyone
    BY <1>1 DEF Range
  <1> QED
    BY <1>1, <1>2 DEF Targets

LEMMA ClosureContains ==
    ASSUME NEW g, IsGraph(g), NEW S, S \subseteq Everyone
    PROVE  /\ S \subseteq Closure(g, S) /\ Closure(g, S) \subseteq Everyone
           /\ \A n \in Closure(g, S) : Targets(g, n) \subseteq Closure(g, S)
  <1>1. S \subseteq Closure(g, S) /\ Closure(g, S) \subseteq Everyone
    BY DEF Closure
  <1>2. ASSUME NEW n \in Closure(g, S), NEW m \in Targets(g, n) PROVE m \in Closure(g, S)
    <2>1. m \in Everyone
      BY TargetsKnown
    <2>2. ASSUME NEW C \in SUBSET Everyone, S \subseteq C, \A c \in C : Targets(g, c) \subseteq C
          PROVE  m \in C
      <3>1. n \in C
        BY <2>2 DEF Closure
      <3> QED
        BY <2>2, <3>1
    <2> QED
      BY <2>1, <2>2 DEF Closure
  <1> QED
    BY <1>1, <1>2

LEMMA ClosureLeast ==
    ASSUME NEW g, NEW S, NEW C \in SUBSET Everyone, S \subseteq C,
           \A c \in C : Targets(g, c) \subseteq C
    PROVE  Closure(g, S) \subseteq C
  BY DEF Closure

\* A worklist that has come to its end has visited exactly what is reachable.
LEMMA Explored ==
    ASSUME NEW g, IsGraph(g), NEW S, S \subseteq Everyone, NEW visited, Explores(g, S, visited, <<>>)
    PROVE  visited = Closure(g, S)
  <1>1. /\ visited \subseteq Closure(g, S) /\ S \subseteq visited
        /\ \A n \in visited : Targets(g, n) \subseteq visited
    BY EmptyRange DEF Explores
  <1>2. visited \in SUBSET Everyone
    BY <1>1, ClosureContains
  <1> QED
    BY <1>1, <1>2, ClosureLeast

LEMMA Rings ==
    ASSUME NEW g, IsGraph(g)
    PROVE  /\ Ring(g)[0] = Targets(g, Root)
           /\ \A k \in 1..Len(Node) + 1 : Ring(g)[k] = UNION {Targets(g, m) : m \in Ring(g)[k - 1]}
  <1> DEFINE V == SUBSET Everyone
             Onward(S) == UNION {Targets(g, m) : m \in S}
             Is(f) == f = [k \in 0..Len(Node) + 1 |-> IF k = 0 THEN Targets(g, Root) ELSE Onward(f[k - 1])]
  <1>1. PICK N \in Nat : N = Len(Node) + 1
    BY NodesAreIds
  <1>2. PICK a \in V : a = Targets(g, Root)
    BY TargetsKnown
  <1>3. \A S \in V : Onward(S) \in V
    BY TargetsKnown
  <1> HIDE DEF V, Onward
  <1>4. PICK G \in [1..N -> [V -> V]] : \A k \in 1..N : \A S \in V : G[k][S] = Onward(S)
    <2>1. [k \in 1..N |-> [S \in V |-> Onward(S)]] \in [1..N -> [V -> V]]
      BY <1>3
    <2> QED
      BY <2>1
  <1>5. PICK f : Unrolls(f, N, V, a, G)
    BY Recursion
  <1>6. ASSUME NEW k \in 0..N PROVE f[k] = IF k = 0 THEN a ELSE Onward(f[k - 1])
    <2>1. k # 0 => k \in 1..N /\ k - 1 \in 0..N
      OBVIOUS
    <2> QED
      BY <1>4, <1>5, <2>1 DEF Unrolls
  <1>7. f = [k \in 0..N |-> IF k = 0 THEN a ELSE Onward(f[k - 1])]
    BY <1>5, <1>6 DEF Unrolls
  <1>8. \E h : Is(h)
    BY <1>1, <1>2, <1>7
  <1>9. Is(Ring(g))
    BY <1>8 DEF Ring, Onward
  <1>10. PICK h : h = Ring(g) /\ h = [k \in 0..N |-> IF k = 0 THEN a ELSE Onward(h[k - 1])]
    BY <1>1, <1>2, <1>9
  <1>11. h[0] = a
    BY <1>10
  <1>12. ASSUME NEW k \in 1..N PROVE h[k] = Onward(h[k - 1])
    <2>1. k \in 0..N /\ k # 0
      OBVIOUS
    <2> QED
      BY <1>10, <2>1
  <1> QED
    BY <1>1, <1>2, <1>10, <1>11, <1>12 DEF Onward

\* The sessions a list of children holds.
LEMMA ChildrenAreBelow ==
    ASSUME IsGraph(nexts), NEW n
    PROVE  Children(n) \in Seq(Ids) /\ Range(Children(n)) = Below(nexts, n)
  <1> DEFINE V == Seq(Ids)
             Mentions(m) == {j \in DOMAIN nexts[m] : nexts[m][j] = n}
             Copies(i) == [j \in 1..Cardinality(Mentions(Node[i])) |-> Node[i]]
             Is(f) == f = [i \in 0..Len(Node) |-> IF i = 0 THEN <<>> ELSE f[i - 1] \o Copies(i)]
  <1>1. PICK N \in Nat \ {0} : N = Len(Node)
    BY NodesAreIds
  <1>2. PICK a \in V : a = <<>>
    <2>1. <<>> \in Seq(Ids)
      OBVIOUS
    <2> QED
      BY <2>1
  <1>3. ASSUME NEW i \in 1..N
        PROVE  /\ Copies(i) \in V
               /\ Range(Copies(i)) = IF n \in Targets(nexts, Node[i]) THEN {Node[i]} ELSE {}
    <2>1. PICK m \in Ids : m = Node[i]
      BY <1>1, NodesAreIds
    <2>2. PICK l \in Seq(Everyone) : l = nexts[m] /\ Targets(nexts, m) = Range(l)
      BY TargetsKnown
    <2>3. PICK M : M = Mentions(m)
      OBVIOUS
    <2>4. M \subseteq 1..Len(l) /\ (M = {} <=> n \notin Range(l))
      BY <2>2, <2>3 DEF Range
    <2>5. IsFiniteSet(1..Len(l))
      BY FS_Interval
    <2>6. IsFiniteSet(M)
      BY <2>4, <2>5, FS_Subset
    <2>7. PICK c \in Nat : c = Cardinality(M) /\ (c = 0 <=> M = {})
      BY <2>6, FS_CardinalityType, FS_EmptySet
    <2>8. PICK s : s = [j \in 1..c |-> m]
      OBVIOUS
    <2>9. s \in Seq(Ids) /\ (c = 0 => Range(s) = {}) /\ (c # 0 => Range(s) = {m})
      <3>1. s \in Seq(Ids) /\ DOMAIN s = 1..c /\ \A j \in 1..c : s[j] = m
        BY <2>8
      <3>2. c # 0 => 1 \in 1..c
        OBVIOUS
      <3> QED
        BY <3>1, <3>2 DEF Range
    <2>10. Copies(i) = s
      BY <2>1, <2>3, <2>7, <2>8
    <2> HIDE DEF Copies
    <2> QED
      BY <2>1, <2>2, <2>4, <2>7, <2>9, <2>10
  <1> HIDE DEF V, Copies
  <1>4. PICK G \in [1..N -> [V -> V]] : \A i \in 1..N : \A s \in V : G[i][s] = s \o Copies(i)
    <2>1. \A i \in 1..N : \A s \in V : s \o Copies(i) \in V
      BY <1>3, RangeOfJoin DEF V
    <2>2. [i \in 1..N |-> [s \in V |-> s \o Copies(i)]] \in [1..N -> [V -> V]]
      BY <2>1
    <2> QED
      BY <2>2
  <1>5. PICK f : Unrolls(f, N, V, a, G)
    BY Recursion
  <1>6. ASSUME NEW i \in 0..N PROVE f[i] = IF i = 0 THEN a ELSE f[i - 1] \o Copies(i)
    <2>1. i # 0 => i \in 1..N /\ i - 1 \in 0..N
      OBVIOUS
    <2> QED
      BY <1>4, <1>5, <2>1 DEF Unrolls
  <1>7. f = [i \in 0..N |-> IF i = 0 THEN a ELSE f[i - 1] \o Copies(i)]
    BY <1>5, <1>6 DEF Unrolls
  <1>8. \E h : Is(h)
    BY <1>1, <1>2, <1>7
  <1>9. PICK h : Is(h) /\ Children(n) = h[Len(Node)]
    BY <1>8 DEF Children, Copies
  <1>10. h = [i \in 0..N |-> IF i = 0 THEN a ELSE h[i - 1] \o Copies(i)]
    BY <1>1, <1>2, <1>9
  <1> DEFINE Good(i) == /\ h[i] \in Seq(Ids)
                        /\ \A x : x \in Range(h[i]) <=> \E j \in 1..i : x = Node[j] /\ n \in Targets(nexts, x)
             T == {i \in Nat : i <= N => Good(i)}
  <1>11. 0 \in T
    BY <1>2, <1>10, EmptyRange
  <1>12. ASSUME NEW i \in Nat, i \in T PROVE i + 1 \in T
    <2> SUFFICES ASSUME i + 1 <= N PROVE Good(i + 1)
      OBVIOUS
    <2>1. Good(i)
      <3>1. i <= N
        OBVIOUS
      <3> HIDE DEF Good
      <3> QED
        BY <1>12, <3>1
    <2>2. i + 1 \in 0..N /\ i + 1 # 0 /\ i + 1 \in 1..N /\ (i + 1) - 1 = i
      OBVIOUS
    <2>3. h[i + 1] = h[i] \o Copies(i + 1)
      BY <1>10, <2>2
    <2>4. PICK k \in 1..N : k = i + 1
      BY <2>2
    <2>5. h[k] \in Seq(Ids) /\ Range(h[k]) = Range(h[i]) \cup Range(Copies(k))
      <3>1. PICK s \in Seq(Ids) : s = h[i]
        BY <2>1
      <3>2. PICK t \in Seq(Ids) : t = Copies(k)
        BY <1>3 DEF V
      <3>3. h[k] = s \o t
        BY <2>3, <2>4, <3>1, <3>2
      <3> QED
        BY <3>1, <3>2, <3>3, RangeOfJoin
    <2>6. \A j : j \in 1..k <=> j \in 1..i \/ j = k
      BY <2>4
    <2>7. ASSUME NEW x PROVE x \in Range(h[k]) <=> \E j \in 1..k : x = Node[j] /\ n \in Targets(nexts, x)
      BY <1>3, <2>1, <2>5, <2>6
    <2> QED
      BY <2>4, <2>5, <2>7
  <1> HIDE DEF T
  <1>13. N \in T
    BY <1>11, <1>12, Induction
  <1>14. Good(N)
    BY <1>13 DEF T
  <1> HIDE DEF Is
  <1>15. \A x : x \in Below(nexts, n) <=> \E j \in 1..N : x = Node[j] /\ n \in Targets(nexts, x)
    BY <1>1, NodesAreIds DEF Below
  <1> QED
    BY <1>1, <1>9, <1>14, <1>15

\* What dict.fromkeys keeps of a list: the same sessions, each once, and each still after
\* a parent.
LEMMA DistinctKeeps ==
    ASSUME NEW g, NEW s \in Seq(Ids), ParentsFirst(g, s)
    PROVE  /\ Distinct(s) \in Seq(Ids) /\ Range(Distinct(s)) = Range(s)
           /\ IsInjective(Distinct(s)) /\ ParentsFirst(g, Distinct(s))
  <1> DEFINE V == Seq(Ids)
             WithKey(keys, x) == IF x \in Range(keys) THEN keys ELSE Append(keys, x)
             Is(f) == f = [i \in 0..Len(s) |->
                            IF i = 0 THEN <<>>
                            ELSE IF s[i] \in Range(f[i - 1]) THEN f[i - 1] ELSE Append(f[i - 1], s[i])]
  <1>1. PICK N \in Nat : N = Len(s) /\ DOMAIN s = 1..N /\ \A i \in 1..N : s[i] \in Ids
    OBVIOUS
  <1>2. PICK a \in V : a = <<>>
    <2>1. <<>> \in Seq(Ids)
      OBVIOUS
    <2> QED
      BY <2>1
  <1>3. ASSUME NEW keys \in V, NEW x \in Ids
        PROVE  WithKey(keys, x) \in V /\ Range(WithKey(keys, x)) = Range(keys) \cup {x}
    BY RangeOfAppend
  <1> HIDE DEF V, WithKey
  <1>4. PICK G \in [1..N -> [V -> V]] : \A i \in 1..N : \A keys \in V : G[i][keys] = WithKey(keys, s[i])
    <2>1. [i \in 1..N |-> [keys \in V |-> WithKey(keys, s[i])]] \in [1..N -> [V -> V]]
      BY <1>1, <1>3
    <2> QED
      BY <2>1
  <1>5. PICK f : Unrolls(f, N, V, a, G)
    BY Recursion
  <1>6. ASSUME NEW i \in 0..N PROVE f[i] = IF i = 0 THEN a ELSE WithKey(f[i - 1], s[i])
    <2>1. i # 0 => i \in 1..N /\ i - 1 \in 0..N
      OBVIOUS
    <2> QED
      BY <1>4, <1>5, <2>1 DEF Unrolls
  <1>7. f = [i \in 0..N |-> IF i = 0 THEN a ELSE WithKey(f[i - 1], s[i])]
    BY <1>5, <1>6 DEF Unrolls
  <1>8. \E h : Is(h)
    BY <1>1, <1>2, <1>7 DEF WithKey
  <1>9. PICK h : Is(h) /\ Distinct(s) = h[Len(s)]
    BY <1>8 DEF Distinct
  <1>10. h = [i \in 0..N |-> IF i = 0 THEN a ELSE WithKey(h[i - 1], s[i])]
    BY <1>1, <1>2, <1>9 DEF WithKey
  <1> DEFINE Good(i) == /\ h[i] \in Seq(Ids) /\ IsInjective(h[i]) /\ ParentsFirst(g, h[i])
                        /\ \A x : x \in Range(h[i]) <=> \E j \in 1..i : x = s[j]
             T == {i \in Nat : i <= N => Good(i)}
  <1>11. 0 \in T
    BY <1>2, <1>10, EmptyRange DEF IsInjective, ParentsFirst
  <1>12. ASSUME NEW i \in Nat, i \in T PROVE i + 1 \in T
    <2> SUFFICES ASSUME i + 1 <= N PROVE Good(i + 1)
      OBVIOUS
    <2>1. Good(i)
      <3>1. i <= N
        OBVIOUS
      <3> HIDE DEF Good
      <3> QED
        BY <1>12, <3>1
    <2>2. PICK k \in 1..N : k = i + 1 /\ k \in 0..N /\ k # 0 /\ k - 1 = i
      OBVIOUS
    <2>3. PICK keys \in Seq(Ids) : keys = h[i]
      BY <2>1
    <2>4. PICK x \in Ids : x = s[k]
      BY <1>1
    <2>5. h[k] = WithKey(keys, x)
      BY <1>10, <2>2, <2>3, <2>4
    <2>6. h[k] \in Seq(Ids) /\ Range(h[k]) = Range(keys) \cup {x}
      BY <1>3, <2>5 DEF V
    <2>7. \A j : j \in 1..k <=> j \in 1..i \/ j = k
      BY <2>2
    <2>8. \A y : y \in Range(h[k]) <=> \E j \in 1..k : y = s[j]
      BY <2>1, <2>3, <2>4, <2>6, <2>7
    <2>9. IsInjective(h[k]) /\ ParentsFirst(g, h[k])
      <3>1. CASE x \in Range(keys)
        BY <2>1, <2>3, <2>5, <3>1 DEF WithKey
      <3>2. CASE x \notin Range(keys)
        <4>1. h[k] = Append(keys, x)
          BY <2>5, <3>2 DEF WithKey
        <4>2. PICK l \in Seq(Ids) : l = h[k]
          BY <2>6
        <4>3. PICK m \in Nat : m = Len(keys) /\ DOMAIN keys = 1..m
          OBVIOUS
        <4>4. DOMAIN l = 1..m + 1 /\ l[m + 1] = x /\ \A j \in 1..m : l[j] = keys[j]
          BY <4>1, <4>2, <4>3, RangeOfAppend
        <4>5. \A j \in 1..m : l[j] # x
          BY <3>2, <4>3, <4>4 DEF Range
        <4>6. \A j : j \in 1..m + 1 <=> j \in 1..m \/ j = m + 1
          BY <4>3
        <4>7. IsInjective(l)
          BY <2>1, <2>3, <4>3, <4>4, <4>5, <4>6 DEF IsInjective
        <4>8. ASSUME NEW j \in DOMAIN l
              PROVE  \/ Root \in Targets(g, l[j])
                     \/ \E p \in DOMAIN l : p < j /\ l[p] \in Targets(g, l[j])
          <5>1. CASE j \in 1..m
            BY <2>1, <2>3, <4>3, <4>4, <4>6, <5>1 DEF ParentsFirst
          <5>2. CASE j = m + 1
            <6>1. CASE Root \in Targets(g, x)
              BY <4>4, <5>2, <6>1
            <6>2. CASE \E p \in DOMAIN s : p < k /\ s[p] \in Targets(g, x)
              <7>1. PICK p \in 1..i : s[p] \in Targets(g, x)
                BY <1>1, <2>2, <6>2
              <7>2. s[p] \in Range(keys)
                BY <2>1, <2>3, <7>1
              <7>3. PICK q \in 1..m : keys[q] = s[p]
                BY <4>3, <7>2 DEF Range
              <7>4. q \in DOMAIN l /\ q < j /\ l[q] \in Targets(g, l[j])
                BY <4>3, <4>4, <4>6, <5>2, <7>1, <7>3
              <7> QED
                BY <7>4
            <6> QED
              BY <1>1, <2>2, <2>4, <6>1, <6>2 DEF ParentsFirst
          <5> QED
            BY <4>4, <4>6, <5>1, <5>2
        <4> QED
          BY <4>2, <4>7, <4>8 DEF ParentsFirst
      <3> QED
        BY <3>1, <3>2
    <2> QED
      BY <2>2, <2>6, <2>8, <2>9
  <1> HIDE DEF T
  <1>13. N \in T
    BY <1>11, <1>12, Induction
  <1>14. Good(N)
    BY <1>13 DEF T
  <1> HIDE DEF Is
  <1>15. \A x : x \in Range(s) <=> \E j \in 1..N : x = s[j]
    BY <1>1 DEF Range
  <1> QED
    BY <1>1, <1>9, <1>14, <1>15

-----------------------------------------------------------------------------
(* Traversals: worklists *)


LEMMA ExploreSkips ==
    ASSUME NEW g, NEW S, NEW v, NEW w, Explores(g, S, v, w), NEW x \in v,
           NEW rest, Range(w) = {x} \cup Range(rest)
    PROVE  Explores(g, S, v, rest)
  BY DEF Explores

LEMMA ExploreVisits ==
    ASSUME NEW g, IsGraph(g), NEW S, S \subseteq Everyone, NEW v, NEW w, Explores(g, S, v, w), NEW x,
           NEW rest, Range(w) = {x} \cup Range(rest),
           NEW more, Range(more) = Range(rest) \cup Targets(g, x)
    PROVE  Explores(g, S, v \cup {x}, more)
  <1>1. x \in Closure(g, S)
    BY DEF Explores
  <1>2. Targets(g, x) \subseteq Closure(g, S)
    BY <1>1, ClosureContains
  <1> QED
    BY <1>1, <1>2 DEF Explores

\* What is said of one algorithm does not matter to the others.
LEMMA OtherWalks ==
    /\ algorithm' # "compile" => (CompileWalk /\ PlansAreSound)'
    /\ algorithm' # "ancestors" => (AncestorWalk /\ AncestorsAreRight)'
    /\ algorithm' # "descendants" => (DescendantWalk /\ DescendantsAreRight)'
    /\ algorithm' # "acyclic" => (CycleWalk /\ CyclesAreFound)'
  BY DEF CompileWalk, PlansAreSound, AncestorWalk, AncestorsAreRight, DescendantWalk, DescendantsAreRight,
         CycleWalk, CyclesAreFound

\* A step of one algorithm.
LEMMA OneWalk ==
    ASSUME NEW name \in {"compile", "ancestors", "descendants", "acyclic"}, algorithm' = name, GraphTyped',
           name = "compile" => (CompileWalk /\ PlansAreSound)',
           name = "ancestors" => (AncestorWalk /\ AncestorsAreRight)',
           name = "descendants" => (DescendantWalk /\ DescendantsAreRight)',
           name = "acyclic" => (CycleWalk /\ CyclesAreFound)'
    PROVE  GraphInv'
  BY OtherWalks DEF GraphInv, TraversalsAreRight

LEMMA GraphInitially == GraphInit => GraphInv
  <1> SUFFICES ASSUME GraphInit PROVE GraphInv
    OBVIOUS
  <1>1. algorithm = "none" /\ verdict = "none" /\ pending = <<>> /\ seen = {} /\ out = <<>>
    BY DEF GraphInit
  <1>2. decl \in Declaration
    BY TraversalAssumption DEF GraphInit
  <1>3. IsGraph(nexts)
    <2>1. <<>> \in Seq(Everyone)
      OBVIOUS
    <2> QED
      BY <2>1 DEF GraphInit, IsGraph
  <1>4. GraphTyped
    BY <1>1, <1>2, <1>3 DEF GraphTyped
  <1> QED
    BY <1>1, <1>4 DEF GraphInv, TraversalsAreRight, CompileWalk, PlansAreSound, AncestorWalk,
       AncestorsAreRight, DescendantWalk, DescendantsAreRight, CycleWalk, CyclesAreFound

\* A call starts with nothing visited and nothing waiting.
LEMMA CallWalkKeeps == GraphInv /\ CallWalk => GraphInv'
  <1> SUFFICES ASSUME GraphInv, CallWalk PROVE GraphInv'
    OBVIOUS
  <1>1. PICK name \in {"compile", "ancestors", "descendants", "acyclic"} : algorithm' = name
    BY DEF CallWalk
  <1>2. verdict' = "start" /\ pending' = <<>> /\ seen' = {} /\ out' = <<>>
    BY DEF CallWalk, GraphInv, GraphTyped
  <1>3. decl' \in Declaration
    BY DEF CallWalk, GraphInv, GraphTyped
  <1>4. IsGraph(nexts')
    <2>1. nexts' \in [Ids -> UNION {Neighbours[n] : n \in Ids}] /\ \A n \in Ids : nexts'[n] \in Neighbours[n]
      BY DEF CallWalk
    <2>2. \A n \in Ids : nexts'[n] \in Seq(Everyone)
      BY <2>1, TraversalAssumption
    <2> QED
      BY <2>1, <2>2 DEF IsGraph
  <1>5. GraphTyped'
    BY <1>1, <1>2, <1>3, <1>4 DEF GraphTyped
  <1>6. <<>> \in Seq(Ids) /\ IsInjective(<<>>) /\ DOMAIN <<>> = {} /\ Range(<<>>) = {}
    BY EmptyRange DEF IsInjective
  <1>7. name = "compile" => (CompileWalk /\ PlansAreSound)'
    BY <1>2 DEF CompileWalk, PlansAreSound
  <1>8. name = "ancestors" => (AncestorWalk /\ AncestorsAreRight)'
    BY <1>2, <1>6 DEF AncestorWalk, AncestorsAreRight
  <1>9. name = "descendants" => (DescendantWalk /\ DescendantsAreRight)'
    BY <1>2 DEF DescendantWalk, DescendantsAreRight
  <1>10. name = "acyclic" => (CycleWalk /\ CyclesAreFound)'
    BY <1>2 DEF CycleWalk, CyclesAreFound
  <1> QED
    BY <1>1, <1>5, <1>7, <1>8, <1>9, <1>10, OneWalk

-----------------------------------------------------------------------------
(* The compiler *)

DeclaredWell(d, g) ==
    /\ ~d.unkeyedRetry /\ d.entries = 1 /\ ~(d.production /\ d.syncTimeout)
    /\ \A n \in d.routers : Targets(g, n) # {}
    /\ Closure(g, {Root}) = Ids

LEMMA DeclType ==
    ASSUME GraphTyped
    PROVE  /\ decl.nodes \in {"none", "marked"} /\ decl.routers \subseteq Ids
           /\ decl.syncTimeout \in BOOLEAN /\ decl.production \in BOOLEAN /\ decl.unkeyedRetry \in BOOLEAN
  BY TraversalAssumption DEF GraphTyped

LEMMA NodesKeeps == GraphInv /\ Nodes => GraphInv'
  <1> SUFFICES ASSUME GraphInv, Nodes PROVE GraphInv'
    OBVIOUS
  <1>1. /\ algorithm = "compile" /\ algorithm' = "compile" /\ nexts' = nexts /\ decl' = decl
        /\ seen' = seen /\ pending' = pending
    BY DEF Nodes
  <1>2. GraphTyped'
    BY <1>1 DEF Nodes, GraphInv, GraphTyped
  <1>3. decl.nodes \in {"none", "marked"} /\ decl.unkeyedRetry \in BOOLEAN
    BY DeclType DEF GraphInv
  <1>4. CompileWalk'
    BY <1>1, <1>3 DEF Nodes, CompileWalk, Declared
  <1>5. PlansAreSound'
    BY <1>1, <1>3 DEF Nodes, PlansAreSound
  <1> QED
    BY <1>1, <1>2, <1>4, <1>5, OneWalk

LEMMA CheckNodesKeeps == GraphInv /\ CheckNodes => GraphInv'
  <1> SUFFICES ASSUME GraphInv, CheckNodes PROVE GraphInv'
    OBVIOUS
  <1>1. /\ algorithm = "compile" /\ algorithm' = "compile" /\ nexts' = nexts /\ decl' = decl
        /\ seen' = seen /\ out' = out
    BY DEF CheckNodes
  <1>2. seen = {} /\ Declared(decl) /\ IsGraph(nexts)
    BY DEF CheckNodes, GraphInv, GraphTyped, CompileWalk
  <1>3. GraphTyped'
    BY <1>1 DEF CheckNodes, GraphInv, GraphTyped
  <1>4. CASE \A n \in Ids : NodeAccepted(n)
    <2>1. verdict' = "busy" /\ pending' = <<Root>>
      BY <1>4 DEF CheckNodes
    <2>2. \A n \in Ids : NodeAccepted(n)'
      BY <1>1, <1>4 DEF NodeAccepted, Succ
    <2>3. <<Root>> \in Seq(Ids) /\ Range(<<Root>>) = {Root}
      BY NodesAreIds DEF Range
    <2>4. Explores(nexts, {Root}, {}, <<Root>>)
      <3>1. {Root} \subseteq Everyone
        BY NodesAreIds DEF Everyone
      <3> QED
        BY <1>2, <2>3, <3>1, ClosureContains DEF Explores
    <2>5. CompileWalk'
      BY <1>1, <1>2, <2>1, <2>2, <2>3, <2>4 DEF CompileWalk
    <2>6. PlansAreSound'
      BY <2>1 DEF PlansAreSound
    <2> QED
      BY <1>1, <1>3, <2>5, <2>6, OneWalk
  <1>5. CASE ~\A n \in Ids : NodeAccepted(n)
    <2>1. verdict' = "error"
      BY <1>5 DEF CheckNodes
    <2>2. PICK n \in Ids : ~NodeAccepted(n)
      BY <1>5
    <2>3. ~DeclaredWell(decl, nexts)
      <3>1. SUFFICES ASSUME DeclaredWell(decl, nexts) PROVE NodeAccepted(n)
        BY <2>2
      <3>2. {Root} \subseteq Everyone
        BY NodesAreIds DEF Everyone
      <3>3. Succ(n) \subseteq Ids
        BY <1>2, <3>1, <3>2, ClosureContains DEF DeclaredWell, Succ
      <3>4. n \in decl.routers => nexts[n] # <<>>
        BY <3>1, EmptyRange DEF DeclaredWell, Targets
      <3> QED
        BY <3>1, <3>3, <3>4 DEF NodeAccepted, DeclaredWell
    <2>4. CompileWalk'
      BY <2>1 DEF CompileWalk
    <2>5. PlansAreSound'
      BY <1>1, <1>2, <2>1, <2>3 DEF PlansAreSound, DeclaredWell, Declared, Succ
    <2> QED
      BY <1>1, <1>3, <2>4, <2>5, OneWalk
  <1> QED
    BY <1>4, <1>5

LEMMA ReachKeeps == GraphInv /\ Reach => GraphInv'
  <1> SUFFICES ASSUME GraphInv, Reach PROVE GraphInv'
    OBVIOUS
  <1>1. /\ algorithm = "compile" /\ algorithm' = "compile" /\ nexts' = nexts /\ decl' = decl
        /\ out' = out /\ verdict = "busy" /\ verdict' = "busy" /\ pending # <<>>
    BY DEF Reach
  <1>2. /\ IsGraph(nexts) /\ Declared(decl) /\ (\A n \in Ids : NodeAccepted(n)) /\ seen \subseteq Ids
        /\ pending \in Seq(Ids) /\ Explores(nexts, {Root}, seen, pending)
    BY <1>1 DEF GraphInv, GraphTyped, CompileWalk
  <1>3. \A n \in Ids : NodeAccepted(n)'
    BY <1>1, <1>2 DEF NodeAccepted, Succ
  <1>4. PICK current \in Ids, rest \in Seq(Ids) :
            /\ current = Last(pending) /\ rest = Front(pending)
            /\ Range(pending) = {current} \cup Range(rest)
    BY <1>1, <1>2, FrontAndLast
  <1>5. pending' \in Seq(Ids) /\ seen' \subseteq Ids /\ Explores(nexts, {Root}, seen', pending')
    <2>1. CASE current \in seen
      <3>1. pending' = rest /\ seen' = seen
        BY <1>4, <2>1 DEF Reach
      <3> QED
        BY <1>2, <1>4, <2>1, <3>1, ExploreSkips
    <2>2. CASE current \notin seen
      <3>1. pending' = rest \o nexts[current] /\ seen' = seen \cup {current}
        BY <1>4, <2>2 DEF Reach
      <3>2. nexts[current] \in Seq(Ids) /\ Range(nexts[current]) = Targets(nexts, current)
        <4>1. nexts[current] \in Seq(Everyone) /\ Targets(nexts, current) = Range(nexts[current])
          BY <1>2, TargetsKnown
        <4>2. Range(nexts[current]) \subseteq Ids
          BY <1>2, <4>1 DEF NodeAccepted, Succ
        <4> QED
          BY <4>1, <4>2 DEF Range
      <3>3. pending' \in Seq(Ids) /\ Range(pending') = Range(rest) \cup Targets(nexts, current)
        BY <3>1, <3>2, RangeOfJoin
      <3>4. {Root} \subseteq Everyone
        BY NodesAreIds DEF Everyone
      <3> QED
        BY <1>2, <1>4, <3>1, <3>3, <3>4, ExploreVisits
    <2> QED
      BY <2>1, <2>2
  <1>6. GraphTyped'
    BY <1>1, <1>5 DEF GraphInv, GraphTyped
  <1>7. CompileWalk'
    BY <1>1, <1>2, <1>3, <1>5 DEF CompileWalk
  <1>8. PlansAreSound'
    BY <1>1 DEF PlansAreSound
  <1> QED
    BY <1>1, <1>6, <1>7, <1>8, OneWalk

LEMMA PlanKeeps == GraphInv /\ Plan => GraphInv'
  <1> SUFFICES ASSUME GraphInv, Plan PROVE GraphInv'
    OBVIOUS
  <1>1. /\ algorithm = "compile" /\ algorithm' = "compile" /\ nexts' = nexts /\ decl' = decl
        /\ seen' = seen /\ pending' = pending /\ verdict = "busy" /\ pending = <<>>
        /\ verdict' = IF Ids \subseteq seen THEN "done" ELSE "error"
    BY DEF Plan
  <1>2. /\ IsGraph(nexts) /\ Declared(decl) /\ (\A n \in Ids : NodeAccepted(n)) /\ seen \subseteq Ids
        /\ Explores(nexts, {Root}, seen, <<>>)
    BY <1>1 DEF GraphInv, GraphTyped, CompileWalk
  <1>3. seen = Closure(nexts, {Root})
    BY <1>2, NodesAreIds, Explored DEF Everyone
  <1>4. Ids \subseteq seen <=> Closure(nexts, {Root}) = Ids
    BY <1>2, <1>3
  <1>5. ~(decl.production /\ decl.syncTimeout)
    BY <1>2, NodesAreIds DEF NodeAccepted
  <1>6. ASSUME NEW n \in decl.routers PROVE Succ(n) # {}
    <2>1. n \in Ids
      BY DeclType DEF GraphInv
    <2>2. nexts[n] # <<>> /\ nexts[n] \in Seq(Everyone) /\ Succ(n) = Range(nexts[n])
      BY <1>2, <2>1, TargetsKnown DEF NodeAccepted, Succ
    <2>3. PICK l \in Seq(Everyone) : l = nexts[n]
      BY <2>2
    <2>4. Range(l) = {Head(l)} \cup Range(Tail(l))
      BY <2>2, <2>3, HeadAndTail
    <2> QED
      BY <2>2, <2>3, <2>4
  <1>7. GraphTyped'
    BY <1>1 DEF GraphInv, GraphTyped
  <1>8. CompileWalk'
    BY <1>1 DEF CompileWalk
  <1>9. PlansAreSound'
    BY <1>1, <1>2, <1>4, <1>5, <1>6 DEF PlansAreSound, Declared, Succ
  <1> QED
    BY <1>1, <1>7, <1>8, <1>9, OneWalk

-----------------------------------------------------------------------------
(* The ancestors *)

LEMMA IntervalSize ==
    ASSUME NEW n \in Nat
    PROVE  IsFiniteSet(1..n) /\ Cardinality(1..n) = n
  <1>1. 1 \in Int /\ n \in Int
    OBVIOUS
  <1>2. IsFiniteSet(1..n) /\ Cardinality(1..n) = IF 1 > n THEN 0 ELSE n - 1 + 1
    BY <1>1, FS_Interval
  <1> QED
    BY <1>2

\* An answer without repetitions is not longer than the graph.
LEMMA AnswerFits ==
    ASSUME NEW list \in Seq(Ids), IsInjective(list)
    PROVE  Len(list) <= Len(Node)
  <1>1. IsFiniteSet(1..Len(Node)) /\ Cardinality(1..Len(Node)) = Len(Node)
    <2>1. PICK n \in Nat : n = Len(Node)
      BY NodesAreIds
    <2>2. IsFiniteSet(1..n) /\ Cardinality(1..n) = n
      BY IntervalSize
    <2> QED
      BY <2>1, <2>2
  <1>2. Node \in Surjection(1..Len(Node), Ids)
    BY NodesAreIds DEF Surjection
  <1>3. IsFiniteSet(Ids) /\ Cardinality(Ids) <= Len(Node) /\ Cardinality(Ids) \in Nat
    BY <1>1, <1>2, FS_Surjection, FS_CardinalityType
  <1>4. list \in Injection(1..Len(list), Ids)
    BY DEF Injection, IsInjective
  <1>5. Cardinality(1..Len(list)) <= Cardinality(Ids)
    BY <1>3, <1>4, FS_Injection
  <1>6. Cardinality(1..Len(list)) = Len(list) /\ Len(list) \in Nat
    <2>1. PICK n \in Nat : n = Len(list)
      OBVIOUS
    <2>2. Cardinality(1..n) = n
      BY IntervalSize
    <2> QED
      BY <2>1, <2>2
  <1> QED
    BY <1>3, <1>5, <1>6, NodesAreIds

\* When a ring is finished the queue holds the next one.
LEMMA NextRing ==
    ASSUME NEW g, IsGraph(g), NEW v, NEW o \in Seq(Ids), NEW q \in Seq(Everyone), q # <<>>,
           Explores(g, Targets(g, Root), v, q), Len(o) <= Len(Node),
           NEW k \in 0..Len(Node), NEW m \in 0..Len(q), InRings(g, v, o, q, k, m)
    PROVE  \E i \in 0..Len(Node), j \in 0..Len(q) : j # 0 /\ InRings(g, v, o, q, i, j)
  <1>1. CASE m # 0
    BY <1>1
  <1>2. CASE m = 0
    <2>1. PICK ring : ring = Ring(g)
      OBVIOUS
    <2>2. Len(q) \in Nat \ {0} /\ DOMAIN q = 1..Len(q)
      BY HeadAndTail
    <2>3. /\ k < Len(o) /\ k \in Nat
          /\ \A i \in 1..Len(q) : q[i] \in ring[k + 1]
          /\ \A j \in 0..k : j < k => ring[j] \subseteq v
          /\ ring[k] \subseteq v
          /\ \A i \in DOMAIN o : \E j \in 0..k : o[i] \in ring[j]
      <3>1. /\ (0 < Len(q) => k < Len(o))
            /\ \A i \in DOMAIN q : q[i] \in ring[IF i <= 0 THEN k ELSE k + 1]
            /\ \A j \in 0..k : j < k => ring[j] \subseteq v
            /\ \A n \in ring[k] : n \in v \/ \E i \in 1..0 : q[i] = n
            /\ \A i \in DOMAIN o : \E j \in 0..k : o[i] \in ring[j]
        BY <1>2, <2>1 DEF InRings
      <3>2. k < Len(o) /\ k \in Nat
        BY <2>2, <3>1, NodesAreIds
      <3>3. \A i \in 1..Len(q) : ~(i <= 0)
        BY <2>2
      <3>4. \A i \in 1..Len(q) : q[i] \in ring[k + 1]
        BY <2>2, <3>1, <3>3
      <3> QED
        BY <3>1, <3>2, <3>4
    <2>4. k + 1 \in 1..Len(Node) + 1 /\ (k + 1) - 1 = k
      BY NodesAreIds
    <2>5. ring[k + 1] = UNION {Targets(g, n) : n \in ring[k]}
      BY <2>1, <2>4, Rings
    <2>6. ASSUME NEW n \in ring[k + 1] PROVE n \in v \/ \E i \in 1..Len(q) : q[i] = n
      <3>1. PICK p \in ring[k] : n \in Targets(g, p)
        BY <2>5
      <3>2. n \in v \cup Range(q)
        BY <2>3, <3>1 DEF Explores
      <3> QED
        BY <2>2, <3>2 DEF Range
    <2>7. k + 1 \in 0..Len(o) /\ k + 1 \in 0..Len(Node) /\ Len(q) \in 0..Len(q)
      <3>1. PICK a \in Nat, b \in Nat, c \in Nat : a = Len(o) /\ b = Len(Node) /\ c = Len(q)
        BY NodesAreIds
      <3> QED
        BY <2>3, <3>1
    <2>8. \A j \in 0..k + 1 : j < k + 1 => ring[j] \subseteq v
      BY <2>3
    <2>9. \A i \in DOMAIN o : \E j \in 0..k + 1 : o[i] \in ring[j]
      <3> SUFFICES ASSUME NEW i \in DOMAIN o PROVE \E j \in 0..k + 1 : o[i] \in ring[j]
        OBVIOUS
      <3>1. PICK j \in 0..k : o[i] \in ring[j]
        BY <2>3
      <3>2. j \in 0..k + 1
        BY <2>3
      <3> QED
        BY <3>1, <3>2
    <2>10. \A i \in DOMAIN q : q[i] \in ring[IF i <= Len(q) THEN k + 1 ELSE (k + 1) + 1]
      BY <2>2, <2>3
    <2>11. InRings(g, v, o, q, k + 1, Len(q))
      BY <2>1, <2>2, <2>6, <2>7, <2>8, <2>9, <2>10 DEF InRings
    <2> QED
      BY <2>2, <2>7, <2>11
  <1> QED
    BY <1>1, <1>2

\* The head of the queue was visited before: the rest of the queue holds as much.
LEMMA RingSkips ==
    ASSUME NEW g, NEW v, NEW o \in Seq(Ids), NEW q \in Seq(Everyone), q # <<>>, Head(q) \in v,
           NEW k \in 0..Len(Node), NEW m \in 0..Len(q), m # 0, InRings(g, v, o, q, k, m)
    PROVE  m - 1 \in 0..Len(Tail(q)) /\ InRings(g, v, o, Tail(q), k, m - 1)
  <1>1. PICK ring : ring = Ring(g)
    OBVIOUS
  <1>2. PICK t \in Seq(Everyone) : t = Tail(q)
    BY HeadAndTail
  <1>3. /\ Len(q) \in Nat \ {0} /\ Len(t) = Len(q) - 1 /\ Head(q) = q[1]
        /\ \A i \in 1..Len(t) : t[i] = q[i + 1]
    BY <1>2, HeadAndTail
  <1>4. /\ k \in 0..Len(o) /\ (m < Len(q) => k < Len(o))
        /\ \A i \in 1..Len(q) : q[i] \in ring[IF i <= m THEN k ELSE k + 1]
        /\ \A j \in 0..k : j < k => ring[j] \subseteq v
        /\ \A n \in ring[k] : n \in v \/ \E i \in 1..m : q[i] = n
        /\ \A i \in DOMAIN o : \E j \in 0..k : o[i] \in ring[j]
    BY <1>1 DEF InRings
  <1>5. m - 1 \in 0..Len(t) /\ (m - 1 < Len(t) => k < Len(o))
    BY <1>3, <1>4
  <1>6. ASSUME NEW i \in 1..Len(t) PROVE t[i] \in ring[IF i <= m - 1 THEN k ELSE k + 1]
    <2>1. i + 1 \in 1..Len(q) /\ (i <= m - 1 <=> i + 1 <= m)
      BY <1>3
    <2> QED
      BY <1>3, <1>4, <2>1
  <1>7. ASSUME NEW n \in ring[k], n \notin v PROVE \E i \in 1..m - 1 : t[i] = n
    <2>1. PICK i \in 1..m : q[i] = n
      BY <1>4, <1>7
    <2>2. i # 1
      BY <1>3, <1>7, <2>1
    <2>3. i - 1 \in 1..m - 1 /\ i - 1 \in 1..Len(t) /\ (i - 1) + 1 = i
      BY <1>3, <2>2
    <2>4. t[i - 1] = q[(i - 1) + 1]
      BY <1>3, <2>3
    <2> QED
      BY <2>1, <2>3, <2>4
  <1>8. DOMAIN t = 1..Len(t)
    OBVIOUS
  <1>9. InRings(g, v, o, t, k, m - 1)
    BY <1>1, <1>4, <1>5, <1>6, <1>7, <1>8 DEF InRings
  <1> QED
    BY <1>2, <1>5, <1>9

\* The head of the queue is new: it is in the ring, and its neighbours are in the next.
LEMMA RingVisits ==
    ASSUME NEW g, IsGraph(g), NEW v, NEW o \in Seq(Ids), NEW q \in Seq(Everyone), q # <<>>,
           NEW x \in Ids, x = Head(q), Len(o) <= Len(Node),
           NEW k \in 0..Len(Node), NEW m \in 0..Len(q), m # 0, InRings(g, v, o, q, k, m)
    PROVE  /\ m - 1 \in 0..Len(Tail(q) \o g[x])
           /\ InRings(g, v \cup {x}, Append(o, x), Tail(q) \o g[x], k, m - 1)
  <1>1. PICK ring : ring = Ring(g)
    OBVIOUS
  <1>2. PICK t \in Seq(Everyone) : t = Tail(q)
    BY HeadAndTail
  <1>3. /\ Len(q) \in Nat \ {0} /\ Len(t) = Len(q) - 1 /\ x = q[1]
        /\ \A i \in 1..Len(t) : t[i] = q[i + 1]
    BY <1>2, HeadAndTail
  <1>4. /\ k \in 0..Len(o) /\ (m < Len(q) => k < Len(o)) /\ Len(o) \in Nat
        /\ \A i \in 1..Len(q) : q[i] \in ring[IF i <= m THEN k ELSE k + 1]
        /\ \A j \in 0..k : j < k => ring[j] \subseteq v
        /\ \A n \in ring[k] : n \in v \/ \E i \in 1..m : q[i] = n
        /\ \A i \in DOMAIN o : \E j \in 0..k : o[i] \in ring[j]
    BY <1>1 DEF InRings
  <1>5. PICK l \in Seq(Everyone) : l = g[x] /\ Range(l) = Targets(g, x)
    BY TargetsKnown
  <1>6. PICK w \in Seq(Everyone) : w = t \o l
    BY RangeOfJoin
  <1>7. /\ Len(w) = Len(t) + Len(l) /\ \A i \in 1..Len(t) : w[i] = t[i]
        /\ \A i \in 1..Len(l) : w[Len(t) + i] = l[i]
    BY <1>6
  <1>8. PICK a \in Seq(Ids) : a = Append(o, x)
    BY RangeOfAppend
  <1>9. Len(a) = Len(o) + 1 /\ a[Len(o) + 1] = x /\ \A i \in 1..Len(o) : a[i] = o[i]
    BY <1>8
  <1>10. x \in ring[k]
    <2>1. 1 \in 1..Len(q) /\ 1 <= m
      BY <1>3
    <2> QED
      BY <1>3, <1>4, <2>1
  <1>11. Targets(g, x) \subseteq ring[k + 1]
    <2>1. k + 1 \in 1..Len(Node) + 1 /\ (k + 1) - 1 = k
      BY NodesAreIds
    <2>2. ring[k + 1] = UNION {Targets(g, n) : n \in ring[k]}
      BY <1>1, <2>1, Rings
    <2> QED
      BY <1>10, <2>2
  <1>12. m - 1 \in 0..Len(w) /\ k \in 0..Len(a) /\ k < Len(a)
    BY <1>3, <1>4, <1>7, <1>9
  <1>13. ASSUME NEW i \in 1..Len(w) PROVE w[i] \in ring[IF i <= m - 1 THEN k ELSE k + 1]
    <2>1. CASE i <= Len(t)
      <3>1. i + 1 \in 1..Len(q) /\ (i <= m - 1 <=> i + 1 <= m) /\ i \in 1..Len(t)
        BY <1>3, <2>1
      <3>2. w[i] = q[i + 1]
        BY <1>3, <1>7, <3>1
      <3>3. q[i + 1] \in ring[IF i + 1 <= m THEN k ELSE k + 1]
        BY <1>4, <3>1
      <3> QED
        BY <3>1, <3>2, <3>3
    <2>2. CASE i > Len(t)
      <3>1. i - Len(t) \in 1..Len(l) /\ Len(t) + (i - Len(t)) = i /\ ~(i <= m - 1)
        BY <1>3, <1>7, <2>2
      <3>2. w[Len(t) + (i - Len(t))] = l[i - Len(t)]
        BY <1>7, <3>1
      <3>3. w[i] \in Range(l)
        BY <3>1, <3>2 DEF Range
      <3> QED
        BY <1>5, <1>11, <3>1, <3>3
    <2> QED
      BY <1>3, <2>1, <2>2
  <1>14. ASSUME NEW n \in ring[k], n \notin v \cup {x} PROVE \E i \in 1..m - 1 : w[i] = n
    <2>1. PICK i \in 1..m : q[i] = n
      BY <1>4, <1>14
    <2>2. i # 1
      BY <1>3, <1>14, <2>1
    <2>3. i - 1 \in 1..m - 1 /\ i - 1 \in 1..Len(t) /\ (i - 1) + 1 = i
      BY <1>3, <2>2
    <2>4. t[i - 1] = q[(i - 1) + 1] /\ w[i - 1] = t[i - 1]
      BY <1>3, <1>7, <2>3
    <2> QED
      BY <2>1, <2>3, <2>4
  <1>15. ASSUME NEW i \in 1..Len(a) PROVE \E j \in 0..k : a[i] \in ring[j]
    <2>1. CASE i = Len(o) + 1
      BY <1>4, <1>9, <1>10, <2>1
    <2>2. CASE i # Len(o) + 1
      <3>1. i \in 1..Len(o) /\ i \in DOMAIN o
        BY <1>4, <1>9, <2>2
      <3> QED
        BY <1>4, <1>9, <3>1
    <2> QED
      BY <2>1, <2>2
  <1>16. \A j \in 0..k : j < k => ring[j] \subseteq v \cup {x}
    BY <1>4
  <1>17. DOMAIN w = 1..Len(w) /\ DOMAIN a = 1..Len(a)
    OBVIOUS
  <1>18. InRings(g, v \cup {x}, a, w, k, m - 1)
    BY <1>1, <1>12, <1>13, <1>14, <1>15, <1>16, <1>17 DEF InRings
  <1> QED
    BY <1>2, <1>5, <1>6, <1>8, <1>12, <1>18

\* Each id of the answer is nearer than one that is found later.
LEMMA RingOrder ==
    ASSUME NEW g, NEW v, NEW o \in Seq(Ids), NEW q, NEW k \in 0..Len(Node), NEW m,
           InRings(g, v, o, q, k, m), NEW x, x \notin v, NEW i \in DOMAIN o
    PROVE  Nearer(g, o[i], x)
  <1>1. PICK ring : ring = Ring(g)
    OBVIOUS
  <1>2. PICK j \in 0..k : o[i] \in ring[j]
    BY <1>1 DEF InRings
  <1>3. \A p \in 0..k : p < k => x \notin ring[p]
    BY <1>1 DEF InRings
  <1>4. j \in 0..Len(Node) + 1 /\ \A p \in 0..j : p < j => p \in 0..k /\ p < k
    <2>1. PICK n \in Nat : n = Len(Node)
      BY NodesAreIds
    <2>2. k \in 0..n /\ j \in 0..k
      BY <2>1
    <2> QED
      BY <2>1, <2>2
  <1> QED
    BY <1>1, <1>2, <1>3, <1>4 DEF Nearer

LEMMA AncestorsKeeps == GraphInv /\ Ancestors => GraphInv'
  <1> SUFFICES ASSUME GraphInv, Ancestors PROVE GraphInv'
    OBVIOUS
  <1>1. /\ algorithm = "ancestors" /\ algorithm' = "ancestors" /\ nexts' = nexts /\ decl' = decl
        /\ seen' = {} /\ out' = <<>> /\ verdict' = "busy" /\ pending' = nexts[Root]
    BY DEF Ancestors, GraphInv, GraphTyped
  <1>2. IsGraph(nexts)
    BY DEF GraphInv, GraphTyped
  <1>3. PICK q \in Seq(Everyone) : q = nexts[Root] /\ Targets(nexts, Root) = Range(q)
    BY <1>2, NodesAreIds, TargetsKnown
  <1>4. Explores(nexts, Targets(nexts, Root), {}, q)
    BY <1>2, <1>3, TargetsKnown, ClosureContains DEF Explores
  <1>5. <<>> \in Seq(Ids) /\ IsInjective(<<>>) /\ Len(<<>>) = 0 /\ DOMAIN <<>> = {}
    BY DEF IsInjective
  <1>6. InRings(nexts, {}, <<>>, q, 0, Len(q))
    <2>1. PICK ring : ring = Ring(nexts) /\ ring[0] = Range(q)
      BY <1>2, <1>3, Rings
    <2>2. Len(q) \in Nat /\ DOMAIN q = 1..Len(q)
      OBVIOUS
    <2>3. \A i \in DOMAIN q : i <= Len(q) /\ q[i] \in ring[0]
      BY <2>1, <2>2 DEF Range
    <2>4. \A n \in ring[0] : \E i \in 1..Len(q) : q[i] = n
      BY <2>1, <2>2 DEF Range
    <2> QED
      BY <1>5, <2>1, <2>2, <2>3, <2>4 DEF InRings
  <1>7. GraphTyped'
    BY <1>1 DEF GraphInv, GraphTyped
  <1>8. AncestorWalk'
    <2>1. 0 \in 0..Len(Node) /\ Len(q) \in 0..Len(q)
      BY NodesAreIds
    <2> QED
      BY <1>1, <1>3, <1>4, <1>5, <1>6, <2>1, EmptyRange DEF AncestorWalk, Succ
  <1>9. AncestorsAreRight'
    BY <1>1, <1>5 DEF AncestorsAreRight
  <1> QED
    BY <1>1, <1>7, <1>8, <1>9, OneWalk

LEMMA NextAncestorKeeps == GraphInv /\ NextAncestor => GraphInv'
  <1> SUFFICES ASSUME GraphInv, NextAncestor PROVE GraphInv'
    OBVIOUS
  <1>1. /\ algorithm = "ancestors" /\ algorithm' = "ancestors" /\ nexts' = nexts /\ decl' = decl
        /\ verdict = "busy" /\ pending # <<>>
    BY DEF NextAncestor
  <1>2. /\ IsGraph(nexts) /\ seen \subseteq Ids /\ out \in Seq(Ids) /\ IsInjective(out) /\ seen = Range(out)
        /\ pending \in Seq(Everyone) /\ Explores(nexts, Targets(nexts, Root), seen, pending)
    BY <1>1 DEF GraphInv, GraphTyped, AncestorWalk, Succ
  <1>3. Len(out) <= Len(Node)
    BY <1>2, AnswerFits
  <1>4. PICK k \in 0..Len(Node), m \in 0..Len(pending) : m # 0 /\ InRings(nexts, seen, out, pending, k, m)
    <2>1. PICK i \in 0..Len(Node), j \in 0..Len(pending) : InRings(nexts, seen, out, pending, i, j)
      BY <1>1 DEF GraphInv, AncestorWalk
    <2> QED
      BY <1>1, <1>2, <1>3, <2>1, NextRing
  <1>5. PICK pid \in Everyone, rest \in Seq(Everyone) :
            /\ pid = Head(pending) /\ rest = Tail(pending) /\ pid = Popped.pid /\ rest = Popped.queue
            /\ Range(pending) = {pid} \cup Range(rest)
    <2>1. Popped.pid = Head(pending) /\ Popped.queue = Tail(pending)
      BY DEF Popped
    <2>2. /\ Head(pending) \in Everyone /\ Tail(pending) \in Seq(Everyone)
          /\ Range(pending) = {Head(pending)} \cup Range(Tail(pending))
      BY <1>1, <1>2, HeadAndTail
    <2> QED
      BY <2>1, <2>2
  <1>6. \A i, j \in DOMAIN out : i < j => Nearer(nexts, out[i], out[j])
    BY <1>1 DEF GraphInv, TraversalsAreRight, AncestorsAreRight
  <1>7. Targets(nexts, Root) \subseteq Everyone
    BY <1>2, TargetsKnown
  <1>8. CASE pid \in seen /\ pending' = rest /\ seen' = seen /\ out' = out /\ verdict' = verdict
    <2>1. m - 1 \in 0..Len(rest) /\ InRings(nexts, seen, out, rest, k, m - 1)
      BY <1>1, <1>2, <1>4, <1>5, <1>8, RingSkips
    <2>2. Explores(nexts, Targets(nexts, Root), seen, rest)
      BY <1>2, <1>5, <1>8, ExploreSkips
    <2>3. GraphTyped'
      BY <1>1, <1>8 DEF GraphInv, GraphTyped
    <2>4. AncestorWalk'
      BY <1>1, <1>2, <1>5, <1>8, <2>1, <2>2 DEF AncestorWalk, Succ
    <2>5. AncestorsAreRight'
      BY <1>1, <1>6, <1>8 DEF AncestorsAreRight
    <2> QED
      BY <1>1, <2>3, <2>4, <2>5, OneWalk
  <1>9. CASE pid \notin Ids /\ verdict' = "error" /\ pending' = pending /\ seen' = seen /\ out' = out
    <2>1. Unknown \in Closure(nexts, Targets(nexts, Root))
      <3>1. pid = Unknown
        BY <1>9 DEF Everyone
      <3> QED
        BY <1>2, <1>5, <3>1 DEF Explores
    <2>2. GraphTyped'
      BY <1>1, <1>9 DEF GraphInv, GraphTyped
    <2>3. AncestorWalk'
      BY <1>1, <1>2, <1>9 DEF AncestorWalk
    <2>4. AncestorsAreRight'
      BY <1>1, <1>6, <1>9, <2>1 DEF AncestorsAreRight, Succ
    <2> QED
      BY <1>1, <2>2, <2>3, <2>4, OneWalk
  <1>10. CASE /\ pid \in Ids \ seen /\ seen' = seen \cup {pid} /\ out' = Append(out, pid)
              /\ pending' = rest \o nexts[pid] /\ verdict' = verdict
    <2>1. /\ m - 1 \in 0..Len(pending')
          /\ InRings(nexts, seen', out', pending', k, m - 1)
      BY <1>1, <1>2, <1>3, <1>4, <1>5, <1>10, RingVisits
    <2>2. nexts[pid] \in Seq(Everyone) /\ Range(nexts[pid]) = Targets(nexts, pid)
      BY <1>2, <1>10, TargetsKnown
    <2>3. pending' \in Seq(Everyone) /\ Range(pending') = Range(rest) \cup Targets(nexts, pid)
      BY <1>10, <2>2, RangeOfJoin
    <2>4. Explores(nexts, Targets(nexts, Root), seen', pending')
      BY <1>2, <1>5, <1>7, <1>10, <2>3, ExploreVisits
    <2>5. PICK o \in Seq(Ids) : o = out
      BY <1>2
    <2>6. PICK a \in Seq(Ids) : a = Append(o, pid)
      BY <1>10, RangeOfAppend
    <2>7. /\ Len(a) = Len(o) + 1 /\ a[Len(o) + 1] = pid /\ (\A i \in 1..Len(o) : a[i] = o[i])
          /\ Range(a) = Range(o) \cup {pid} /\ Len(o) \in Nat
      BY <1>10, <2>6, RangeOfAppend
    <2>8. DOMAIN a = 1..Len(o) + 1 /\ DOMAIN o = 1..Len(o)
      BY <2>7
    <2>9. \A i : i \in 1..Len(o) + 1 <=> i \in 1..Len(o) \/ i = Len(o) + 1
      BY <2>7
    <2>10. \A i \in 1..Len(o) : o[i] # pid
      BY <1>2, <1>10, <2>5, <2>8 DEF Range
    <2>11. IsInjective(a)
      BY <1>2, <2>5, <2>7, <2>8, <2>9, <2>10 DEF IsInjective
    <2>12. ASSUME NEW i \in DOMAIN a, NEW j \in DOMAIN a, i < j PROVE Nearer(nexts, a[i], a[j])
      <3>1. i \in 1..Len(o)
        BY <2>7, <2>8, <2>9, <2>12
      <3>2. CASE j \in 1..Len(o)
        BY <1>6, <2>5, <2>7, <2>8, <2>12, <3>1, <3>2
      <3>3. CASE j = Len(o) + 1
        <4>1. Nearer(nexts, o[i], pid)
          BY <1>4, <1>10, <2>5, <2>8, <3>1, RingOrder
        <4> QED
          BY <2>7, <3>1, <3>3, <4>1
      <3> QED
        BY <2>8, <2>9, <3>2, <3>3
    <2>13. out' = a
      BY <1>10, <2>5, <2>6
    <2>14. GraphTyped'
      BY <1>1, <1>2, <1>10 DEF GraphInv, GraphTyped
    <2>15. AncestorWalk'
      BY <1>1, <1>2, <1>10, <2>1, <2>3, <2>4, <2>5, <2>7, <2>11, <2>13 DEF AncestorWalk, Succ
    <2>16. AncestorsAreRight'
      BY <1>1, <1>10, <2>12, <2>13 DEF AncestorsAreRight
    <2> QED
      BY <1>1, <2>14, <2>15, <2>16, OneWalk
  <1> QED
    BY <1>5, <1>8, <1>9, <1>10 DEF NextAncestor

-----------------------------------------------------------------------------
(* The descendants *)

\* A session below the root or below a descendant is a descendant, and a set that has
\* the sessions below the root and below its members has every descendant.
LEMMA OffspringGrows ==
    ASSUME NEW g, IsGraph(g)
    PROVE  /\ Below(g, Root) \subseteq Offspring(g)
           /\ \A n \in Offspring(g) : Below(g, n) \subseteq Offspring(g)
  <1>1. \A m \in Ids : Targets(g, m) \subseteq Closure(g, Targets(g, m))
    BY TargetsKnown, ClosureContains
  <1>2. Below(g, Root) \subseteq Offspring(g)
    BY <1>1 DEF Below, Offspring
  <1>3. ASSUME NEW n \in Offspring(g), NEW m \in Below(g, n) PROVE m \in Offspring(g)
    <2>1. PICK C : C = Closure(g, Targets(g, m))
      OBVIOUS
    <2>2. C \in SUBSET Everyone /\ n \in C /\ \A c \in C : Targets(g, c) \subseteq C
      BY <2>1, TargetsKnown, ClosureContains DEF Below
    <2>3. Closure(g, Targets(g, n)) \subseteq C
      BY <2>2, ClosureLeast
    <2> QED
      BY <2>1, <2>3 DEF Offspring, Below
  <1> QED
    BY <1>2, <1>3

LEMMA OffspringLeast ==
    ASSUME NEW g, IsGraph(g), NEW X, Below(g, Root) \subseteq X, \A n \in X : Below(g, n) \subseteq X
    PROVE  Offspring(g) \subseteq X
  <1> SUFFICES ASSUME NEW n \in Offspring(g), n \notin X PROVE FALSE
    OBVIOUS
  <1> DEFINE C == {c \in Everyone : c \notin X /\ c # Root}
  <1>1. \A c \in Everyone : c \notin X => Targets(g, c) \subseteq C
    <2> SUFFICES ASSUME NEW c \in Everyone, c \notin X, NEW t \in Targets(g, c) PROVE t \in C
      OBVIOUS
    <2>1. t \in Everyone
      BY TargetsKnown
    <2>2. c \in Ids
      BY TargetsKnown
    <2>3. c \in Below(g, t)
      BY <2>2 DEF Below
    <2> QED
      BY <2>1, <2>3
  <1>2. n \in Everyone /\ Root \in Closure(g, Targets(g, n))
    BY DEF Offspring, Everyone
  <1>3. Targets(g, n) \subseteq C /\ C \in SUBSET Everyone /\ \A c \in C : Targets(g, c) \subseteq C
    BY <1>1, <1>2
  <1>4. Root \in C
    <2> HIDE DEF C
    <2> QED
      BY <1>2, <1>3, ClosureLeast
  <1> QED
    BY <1>4

\* A session that can be reached from a cycle is the parent of one that can.
LEMMA CycleContinues ==
    ASSUME NEW g, IsGraph(g), NEW c \in Ids, OnCycle(g, c), NEW x \in Closure(g, Targets(g, c))
    PROVE  \E y \in Below(g, x) : y \in Closure(g, Targets(g, c))
  <1> SUFFICES ASSUME \A y \in Ids : x \in Targets(g, y) => y \notin Closure(g, Targets(g, c))
               PROVE  FALSE
    BY DEF Below
  <1>1. PICK K : K = Closure(g, Targets(g, c))
    OBVIOUS
  <1>2. K \in SUBSET Everyone /\ Targets(g, c) \subseteq K /\ \A k \in K : Targets(g, k) \subseteq K
    BY <1>1, TargetsKnown, ClosureContains
  <1>3. PICK C : C = K \ {x}
    OBVIOUS
  <1>4. \A k \in K : x \notin Targets(g, k)
    BY <1>1, TargetsKnown
  <1>5. C \in SUBSET Everyone /\ Targets(g, c) \subseteq C /\ \A k \in C : Targets(g, k) \subseteq C
    BY <1>1, <1>2, <1>3, <1>4 DEF OnCycle
  <1>6. Closure(g, Targets(g, c)) \subseteq C
    BY <1>5, ClosureLeast
  <1> QED
    BY <1>3, <1>6

\* What waits is a child of the root or of a session that is already listed.
ParentListed(g, list, stack) ==
    \A i \in DOMAIN stack :
        Root \in Targets(g, stack[i]) \/ \E j \in DOMAIN list : list[j] \in Targets(g, stack[i])

LEMMA DescendantsKeeps == GraphInv /\ Descendants => GraphInv'
  <1> SUFFICES ASSUME GraphInv, Descendants PROVE GraphInv'
    OBVIOUS
  <1>1. /\ algorithm = "descendants" /\ algorithm' = "descendants" /\ nexts' = nexts /\ decl' = decl
        /\ seen' = {} /\ out' = <<>> /\ verdict' = "busy" /\ pending' = Children(Root)
    BY DEF Descendants, GraphInv, GraphTyped
  <1>2. IsGraph(nexts)
    BY DEF GraphInv, GraphTyped
  <1>3. PICK s \in Seq(Ids) : s = Children(Root) /\ Range(s) = Below(nexts, Root)
    BY <1>2, ChildrenAreBelow
  <1>4. <<>> \in Seq(Ids) /\ DOMAIN <<>> = {} /\ Range(<<>>) = {}
    BY EmptyRange
  <1>5. \A i \in DOMAIN s : Root \in Targets(nexts, s[i])
    <2>1. \A i \in DOMAIN s : s[i] \in Below(nexts, Root)
      BY <1>3 DEF Range
    <2> QED
      BY <2>1 DEF Below
  <1>6. Below(nexts, Root) \subseteq Offspring(nexts)
    BY <1>2, OffspringGrows
  <1>7. GraphTyped'
    BY <1>1 DEF GraphInv, GraphTyped
  <1>7a. CycleAhead(nexts, s)
    <2> SUFFICES ASSUME NEW c \in Offspring(nexts), OnCycle(nexts, c)
                 PROVE  \E x \in Range(s) : x \in Closure(nexts, Targets(nexts, c))
      BY DEF CycleAhead
    <2>1. c \in Ids /\ Root \in Closure(nexts, Targets(nexts, c))
      BY DEF Offspring
    <2> QED
      BY <1>2, <1>3, <2>1, CycleContinues
  <1>8. DescendantWalk'
    BY <1>1, <1>3, <1>4, <1>5, <1>6, <1>7a DEF DescendantWalk, ParentsFirst, Succ
  <1>9. DescendantsAreRight'
    BY <1>1 DEF DescendantsAreRight
  <1> QED
    BY <1>1, <1>7, <1>8, <1>9, OneWalk

LEMMA NextDescendantKeeps == GraphInv /\ NextDescendant => GraphInv'
  <1> SUFFICES ASSUME GraphInv, NextDescendant PROVE GraphInv'
    OBVIOUS
  <1>1. /\ algorithm = "descendants" /\ algorithm' = "descendants" /\ nexts' = nexts /\ decl' = decl
        /\ seen' = seen /\ verdict = "busy" /\ verdict' = "busy" /\ pending # <<>>
    BY DEF NextDescendant
  <1>2. /\ IsGraph(nexts) /\ out \in Seq(Ids) /\ pending \in Seq(Ids)
        /\ Range(out) \cup Range(pending) \subseteq Offspring(nexts)
        /\ Below(nexts, Root) \subseteq Range(out) \cup Range(pending)
        /\ \A n \in Range(out) : Below(nexts, n) \subseteq Range(out) \cup Range(pending)
        /\ ParentsFirst(nexts, out) /\ ParentListed(nexts, out, pending) /\ CycleAhead(nexts, pending)
    BY <1>1 DEF GraphInv, GraphTyped, DescendantWalk, ParentListed, Succ
  <1>3. PICK cur \in Ids, rest \in Seq(Ids) :
            /\ cur = Last(pending) /\ rest = Front(pending)
            /\ Range(pending) = {cur} \cup Range(rest)
    BY <1>1, <1>2, FrontAndLast
  <1>4. PICK down \in Seq(Ids) : down = Reverse(Children(cur)) /\ Range(down) = Below(nexts, cur)
    BY <1>2, ChildrenAreBelow, RangeOfReverse
  <1>5. PICK o \in Seq(Ids) : o = out
    BY <1>2
  <1>6. PICK a \in Seq(Ids) : a = Append(o, cur)
    BY RangeOfAppend
  <1>7. /\ Len(o) \in Nat /\ DOMAIN o = 1..Len(o) /\ DOMAIN a = 1..Len(o) + 1 /\ a[Len(o) + 1] = cur
        /\ (\A i \in 1..Len(o) : a[i] = o[i]) /\ Range(a) = Range(o) \cup {cur}
    BY <1>6, RangeOfAppend
  <1>8. PICK w \in Seq(Ids) : w = rest \o down /\ Range(w) = Range(rest) \cup Range(down)
    BY RangeOfJoin
  <1>9. out' = a /\ pending' = w
    BY <1>3, <1>4, <1>5, <1>6, <1>8 DEF NextDescendant
  <1>10. Range(a) \cup Range(w) \subseteq Offspring(nexts)
    <2>1. cur \in Offspring(nexts)
      BY <1>2, <1>3
    <2>2. Below(nexts, cur) \subseteq Offspring(nexts)
      BY <1>2, <2>1, OffspringGrows
    <2> QED
      BY <1>2, <1>3, <1>4, <1>5, <1>7, <1>8, <2>1, <2>2
  <1>11. Below(nexts, Root) \subseteq Range(a) \cup Range(w)
    BY <1>2, <1>3, <1>5, <1>7, <1>8
  <1>12. ASSUME NEW n \in Range(a) PROVE Below(nexts, n) \subseteq Range(a) \cup Range(w)
    BY <1>2, <1>3, <1>4, <1>5, <1>7, <1>8
  <1>13. \A i : i \in 1..Len(o) + 1 <=> i \in 1..Len(o) \/ i = Len(o) + 1
    BY <1>7
  <1>14. \A x \in Range(pending) : Root \in Targets(nexts, x) \/ \E j \in 1..Len(o) : o[j] \in Targets(nexts, x)
    BY <1>2, <1>5, <1>7 DEF ParentListed, Range
  <1>15. ParentsFirst(nexts, a)
    <2> SUFFICES ASSUME NEW i \in 1..Len(o) + 1
                 PROVE  \/ Root \in Targets(nexts, a[i])
                        \/ \E j \in 1..Len(o) + 1 : j < i /\ a[j] \in Targets(nexts, a[i])
      BY <1>7 DEF ParentsFirst
    <2>1. CASE i \in 1..Len(o)
      <3>1. Root \in Targets(nexts, o[i]) \/ \E j \in 1..Len(o) : j < i /\ o[j] \in Targets(nexts, o[i])
        BY <1>2, <1>5, <1>7, <2>1 DEF ParentsFirst
      <3> QED
        BY <1>7, <1>13, <2>1, <3>1
    <2>2. CASE i = Len(o) + 1
      <3>1. \A j \in 1..Len(o) : j < i /\ j \in 1..Len(o) + 1
        BY <1>7, <2>2
      <3> QED
        BY <1>3, <1>7, <1>14, <2>2, <3>1
    <2> QED
      BY <1>13, <2>1, <2>2
  <1>16. ParentListed(nexts, a, w)
    <2> SUFFICES ASSUME NEW x \in Range(w)
                 PROVE  Root \in Targets(nexts, x) \/ \E j \in 1..Len(o) + 1 : a[j] \in Targets(nexts, x)
      BY <1>7 DEF ParentListed, Range
    <2>1. CASE x \in Range(rest)
      BY <1>3, <1>7, <1>13, <1>14, <2>1
    <2>2. CASE x \in Below(nexts, cur)
      BY <1>7, <1>13, <2>2 DEF Below
    <2> QED
      BY <1>4, <1>8, <2>1, <2>2
  <1>17. GraphTyped'
    BY <1>1 DEF GraphInv, GraphTyped
  <1>17a. CycleAhead(nexts, w)
    <2> SUFFICES ASSUME \E c \in Offspring(nexts) : OnCycle(nexts, c)
                 PROVE  \E x \in Range(w), c \in Offspring(nexts) :
                            OnCycle(nexts, c) /\ x \in Closure(nexts, Targets(nexts, c))
      BY DEF CycleAhead
    <2>1. PICK x \in Range(pending), c \in Offspring(nexts) :
              OnCycle(nexts, c) /\ x \in Closure(nexts, Targets(nexts, c))
      BY <1>2 DEF CycleAhead
    <2>2. CASE x \in Range(rest)
      BY <1>8, <2>1, <2>2
    <2>3. CASE x = cur
      <3>1. c \in Ids
        BY DEF Offspring
      <3>2. \E y \in Below(nexts, cur) : y \in Closure(nexts, Targets(nexts, c))
        BY <1>2, <2>1, <2>3, <3>1, CycleContinues
      <3> QED
        BY <1>4, <1>8, <2>1, <3>2
    <2> QED
      BY <1>3, <2>1, <2>2, <2>3
  <1>18. DescendantWalk'
    BY <1>1, <1>9, <1>10, <1>11, <1>12, <1>15, <1>16, <1>17a DEF DescendantWalk, ParentListed, Succ
  <1>19. DescendantsAreRight'
    BY <1>1 DEF DescendantsAreRight
  <1> QED
    BY <1>1, <1>17, <1>18, <1>19, OneWalk

LEMMA EndOfWalkKeeps == GraphInv /\ EndOfWalk => GraphInv'
  <1> SUFFICES ASSUME GraphInv, EndOfWalk PROVE GraphInv'
    OBVIOUS
  <1>1. /\ algorithm' = algorithm /\ nexts' = nexts /\ decl' = decl /\ seen' = seen /\ pending' = pending
        /\ verdict = "busy" /\ verdict' = "done" /\ pending = <<>>
    BY DEF EndOfWalk
  <1>2. IsGraph(nexts)
    BY DEF GraphInv, GraphTyped
  <1>3. GraphTyped'
    BY <1>1 DEF GraphInv, GraphTyped
  <1>4. CASE algorithm = "ancestors"
    <2>1. out' = out
      BY <1>4 DEF EndOfWalk
    <2>2. /\ out \in Seq(Ids) /\ IsInjective(out) /\ seen = Range(out) /\ seen \subseteq Ids
          /\ Explores(nexts, Targets(nexts, Root), seen, <<>>)
      BY <1>1, <1>4 DEF GraphInv, GraphTyped, AncestorWalk, Succ
    <2>3. seen = Closure(nexts, Targets(nexts, Root))
      BY <1>2, <2>2, TargetsKnown, Explored
    <2>4. AncestorWalk'
      BY <1>1, <2>1, <2>2 DEF AncestorWalk
    <2>5. \A i, j \in DOMAIN out : i < j => Nearer(nexts, out[i], out[j])
      BY <1>4 DEF GraphInv, TraversalsAreRight, AncestorsAreRight
    <2>6. AncestorsAreRight'
      BY <1>1, <2>1, <2>2, <2>3, <2>5 DEF AncestorsAreRight, Succ
    <2> QED
      BY <1>1, <1>3, <1>4, <2>4, <2>6, OneWalk
  <1>5. CASE algorithm = "descendants"
    <2>1. out' = Distinct(out)
      BY <1>5 DEF EndOfWalk
    <2>2. /\ out \in Seq(Ids) /\ ParentsFirst(nexts, out) /\ Range(out) \subseteq Offspring(nexts)
          /\ Below(nexts, Root) \subseteq Range(out)
          /\ \A n \in Range(out) : Below(nexts, n) \subseteq Range(out)
          /\ \A n \in Offspring(nexts) : n \notin Closure(nexts, Targets(nexts, n))
      BY <1>1, <1>5, EmptyRange DEF GraphInv, DescendantWalk, CycleAhead, OnCycle
    <2>3. Range(out) = Offspring(nexts)
      BY <1>2, <2>2, OffspringLeast
    <2>4. PICK d : d = Distinct(out) /\ Range(d) = Offspring(nexts) /\ IsInjective(d) /\ ParentsFirst(nexts, d)
      BY <2>2, <2>3, DistinctKeeps
    <2>5. DescendantWalk'
      BY <1>1 DEF DescendantWalk
    <2>6. DescendantsAreRight'
      BY <1>1, <2>1, <2>2, <2>4 DEF DescendantsAreRight, ParentsFirst, Offspring, Succ
    <2> QED
      BY <1>1, <1>3, <1>5, <2>5, <2>6, OneWalk
  <1> QED
    BY <1>4, <1>5 DEF EndOfWalk

-----------------------------------------------------------------------------
(* The cycle check *)

\* What is black leads only to black sessions and lies on no cycle.
BlackDone(g, black) ==
    \A n \in black : Targets(g, n) \subseteq black /\ n \notin Closure(g, Targets(g, n))

LEMMA CheckParentsKeeps == GraphInv /\ CheckParents => GraphInv'
  <1> SUFFICES ASSUME GraphInv, CheckParents PROVE GraphInv'
    OBVIOUS
  <1>1. /\ algorithm = "acyclic" /\ algorithm' = "acyclic" /\ nexts' = nexts /\ decl' = decl
        /\ seen' = seen /\ seen = {} /\ pending' = pending /\ pending = <<>> /\ out' = out
        /\ verdict' = IF Dangling THEN "error" ELSE "busy"
    BY DEF CheckParents, Verdict, GraphInv, GraphTyped
  <1>2. Dangling' <=> Dangling
    BY <1>1 DEF Dangling, Succ
  <1>3. <<>> \in Seq(StackFrame) /\ Len(<<>>) = 0
    OBVIOUS
  <1>4. GraphTyped'
    BY <1>1 DEF GraphInv, GraphTyped
  <1>5. GrayPath(nexts, {}, <<>>)
    BY <1>3 DEF GrayPath
  <1>6. CycleWalk'
    BY <1>1, <1>2, <1>5 DEF CycleWalk
  <1>7. CyclesAreFound'
    BY <1>1, <1>2 DEF CyclesAreFound
  <1> QED
    BY <1>1, <1>4, <1>6, <1>7, OneWalk

\* The state of the check while it runs.
LEMMA Checking ==
    ASSUME GraphInv, algorithm = "acyclic", verdict = "busy"
    PROVE  /\ IsGraph(nexts) /\ seen \subseteq Ids /\ ~Dangling
           /\ GrayPath(nexts, seen, pending) /\ BlackDone(nexts, seen)
           /\ \A n \in Ids : Targets(nexts, n) \subseteq Ids /\ nexts[n] \in Seq(Ids)
  <1>1. /\ IsGraph(nexts) /\ seen \subseteq Ids /\ ~Dangling
        /\ GrayPath(nexts, seen, pending) /\ BlackDone(nexts, seen)
    BY DEF GraphInv, GraphTyped, CycleWalk, BlackDone, Succ
  <1>2. ASSUME NEW n \in Ids PROVE Targets(nexts, n) \subseteq Ids /\ nexts[n] \in Seq(Ids)
    <2>1. /\ Targets(nexts, n) \subseteq Everyone /\ nexts[n] \in Seq(Everyone)
          /\ Targets(nexts, n) = Range(nexts[n])
      BY <1>1, TargetsKnown
    <2>2. Unknown \notin Targets(nexts, n)
      BY <1>1 DEF Dangling, Succ
    <2>3. Targets(nexts, n) \subseteq Ids
      BY <2>1, <2>2 DEF Everyone
    <2>4. \A i \in DOMAIN nexts[n] : nexts[n][i] \in Ids
      BY <2>1, <2>3 DEF Range
    <2> QED
      BY <2>1, <2>3, <2>4
  <1> QED
    BY <1>1, <1>2

\* A step that leaves the check running.
LEMMA CheckGoesOn ==
    ASSUME GraphInv, algorithm = "acyclic", verdict = "busy", algorithm' = algorithm, verdict' = verdict,
           nexts' = nexts, decl' = decl, seen' \subseteq Ids,
           GrayPath(nexts, seen', pending'), BlackDone(nexts, seen')
    PROVE  GraphInv'
  <1>1. ~Dangling'
    BY Checking DEF Dangling, Succ
  <1>2. GraphTyped'
    BY DEF GraphInv, GraphTyped
  <1>3. CycleWalk'
    BY <1>1 DEF CycleWalk, BlackDone, Succ
  <1>4. CyclesAreFound'
    BY DEF CyclesAreFound
  <1> QED
    BY <1>2, <1>3, <1>4, OneWalk

LEMMA NewFrame ==
    ASSUME NEW n \in Ids, nexts[n] \in Seq(Ids)
    PROVE  Frame(n) \in StackFrame /\ Frame(n).node = n /\ Frame(n).rest = nexts[n]
  BY DEF Frame, StackFrame

LEMMA VisitRootKeeps == GraphInv /\ VisitRoot => GraphInv'
  <1> SUFFICES ASSUME GraphInv, VisitRoot PROVE GraphInv'
    OBVIOUS
  <1>1. algorithm = "acyclic" /\ verdict = "busy" /\ pending = <<>>
    BY DEF VisitRoot
  <1>2. /\ IsGraph(nexts) /\ seen \subseteq Ids /\ ~Dangling /\ BlackDone(nexts, seen)
        /\ \A n \in Ids : Targets(nexts, n) \subseteq Ids /\ nexts[n] \in Seq(Ids)
    BY <1>1, Checking
  <1>3. CASE Ids \subseteq seen /\ Verdict("done")
    <2>1. /\ algorithm' = algorithm /\ nexts' = nexts /\ decl' = decl /\ seen' = seen /\ out' = out
          /\ pending' = pending /\ verdict' = "done"
      BY <1>3 DEF Verdict
    <2>2. ~Dangling' /\ ~Cyclic(nexts)
      BY <1>2, <1>3, <2>1 DEF Dangling, Succ, BlackDone, Cyclic
    <2>3. GraphTyped'
      BY <2>1 DEF GraphInv, GraphTyped
    <2>4. CycleWalk'
      BY <2>1 DEF CycleWalk
    <2>5. CyclesAreFound'
      BY <2>1, <2>2 DEF CyclesAreFound
    <2> QED
      BY <1>1, <2>1, <2>3, <2>4, <2>5, OneWalk
  <1>4. CASE \E i \in DOMAIN Node : /\ Node[i] \notin seen /\ pending' = <<Frame(Node[i])>>
                                    /\ UNCHANGED <<algorithm, nexts, decl, seen, out, verdict>>
    <2>1. PICK n \in Ids : n \notin seen /\ pending' = <<Frame(n)>>
      BY <1>4, NodesAreIds
    <2>2. PICK f \in StackFrame : f = Frame(n) /\ f.node = n /\ f.rest = nexts[n]
      BY <1>2, NewFrame
    <2>3. PICK s : s = <<f>>
      OBVIOUS
    <2>3a. s \in Seq(StackFrame) /\ s[1] = f /\ Len(s) = 1
      BY <2>3
    <2>4. Targets(nexts, n) = Range(f.rest)
      BY <2>2 DEF Targets
    <2>5. GrayPath(nexts, seen, s)
      <3>1. FrameRight(nexts, seen, s, 1)
        BY <2>1, <2>2, <2>3a, <2>4 DEF FrameRight
      <3> QED
        BY <2>3a, <3>1 DEF GrayPath
    <2> QED
      BY <1>1, <1>2, <1>4, <2>1, <2>2, <2>3, <2>5, CheckGoesOn
  <1> QED
    BY <1>3, <1>4 DEF VisitRoot

\* The frame on top of the stack moves to the next of its parents.
Moves(g, black, stack, top, p, moved) ==
    /\ GrayPath(g, black, stack) /\ stack # <<>>
    /\ top = Last(stack) /\ top.rest # <<>> /\ p = Head(top.rest)
    /\ moved = Append(Front(stack), [top EXCEPT !.rest = Tail(@)])

\* The stack before and after the move.
Moved(g, stack, top, p, moved, n) ==
    /\ n = Len(stack) /\ stack \in Seq(StackFrame) /\ moved \in Seq(StackFrame) /\ Len(moved) = n
    /\ \A i \in 1..n : moved[i].node = stack[i].node /\ (i # n => moved[i].rest = stack[i].rest)
    /\ top = stack[n] /\ p \in Targets(g, top.node) /\ p \in Ids
    /\ Range(top.rest) = {p} \cup Range(moved[n].rest)

LEMMA FrameMoves ==
    ASSUME NEW g, NEW black, NEW stack, NEW top, NEW p, NEW moved, Moves(g, black, stack, top, p, moved)
    PROVE  \E n \in Nat \ {0} : Moved(g, stack, top, p, moved, n)
  <1>1. /\ stack \in Seq(StackFrame) /\ stack # <<>> /\ top = Last(stack) /\ top.rest # <<>>
        /\ p = Head(top.rest) /\ moved = Append(Front(stack), [top EXCEPT !.rest = Tail(@)])
    BY DEF Moves, GrayPath
  <1>2. PICK n \in Nat \ {0} : n = Len(stack)
    BY <1>1
  <1>3. PICK front \in Seq(StackFrame) : front = Front(stack)
    BY <1>1, FrontAndLast
  <1>4. /\ top \in StackFrame /\ top = stack[n] /\ Len(front) = n - 1
        /\ \A i \in 1..n - 1 : front[i] = stack[i]
    BY <1>1, <1>2, <1>3, FrontAndLast
  <1>5. top.rest \in Seq(Ids) /\ top.node \in Ids
    BY <1>4 DEF StackFrame
  <1>6. PICK s \in Seq(Ids) : s = top.rest
    BY <1>5
  <1>7. p \in Ids /\ Tail(s) \in Seq(Ids) /\ Range(s) = {p} \cup Range(Tail(s))
    BY <1>1, <1>6, HeadAndTail
  <1>8. PICK f : f = [top EXCEPT !.rest = Tail(@)]
    OBVIOUS
  <1>9. f \in StackFrame /\ f.node = top.node /\ f.rest = Tail(s)
    BY <1>4, <1>6, <1>7, <1>8 DEF StackFrame
  <1>10. moved = Append(front, f)
    BY <1>1, <1>3, <1>8
  <1>11. /\ moved \in Seq(StackFrame) /\ Len(moved) = Len(front) + 1 /\ moved[Len(front) + 1] = f
         /\ \A i \in 1..Len(front) : moved[i] = front[i]
    BY <1>9, <1>10, RangeOfAppend
  <1>12. (n - 1) + 1 = n /\ \A i \in 1..n : i # n => i \in 1..n - 1
    BY <1>2
  <1>13. Len(moved) = n /\ moved[n] = f /\ \A i \in 1..n : i # n => moved[i] = stack[i]
    BY <1>4, <1>11, <1>12
  <1>14. p \in Targets(g, top.node)
    <2>1. n \in 1..Len(stack)
      BY <1>2
    <2>2. FrameRight(g, black, stack, n)
      BY <2>1 DEF Moves, GrayPath
    <2> QED
      BY <1>4, <1>6, <1>7, <2>2 DEF FrameRight
  <1>15. \A i \in 1..n : moved[i].node = stack[i].node /\ (i # n => moved[i].rest = stack[i].rest)
    BY <1>4, <1>9, <1>13
  <1> QED
    BY <1>1, <1>2, <1>4, <1>6, <1>7, <1>9, <1>11, <1>13, <1>14, <1>15 DEF Moved

\* Its parent is black: the path is the same.
LEMMA PathMoves ==
    ASSUME NEW g, NEW black, NEW stack, NEW top, NEW p \in black, NEW moved,
           Moves(g, black, stack, top, p, moved)
    PROVE  GrayPath(g, black, moved)
  <1>1. PICK n \in Nat \ {0} : Moved(g, stack, top, p, moved, n)
    BY FrameMoves
  <1>2. n = Len(stack) /\ Len(moved) = n /\ top = stack[n]
    BY <1>1 DEF Moved
  <1>3. \A i \in 1..n : moved[i].node = stack[i].node /\ (i # n => moved[i].rest = stack[i].rest)
    BY <1>1 DEF Moved
  <1>4. \A i \in 1..n : FrameRight(g, black, stack, i)
    BY <1>2 DEF Moves, GrayPath
  <1>5. ASSUME NEW i \in 1..n PROVE FrameRight(g, black, moved, i)
    <2>1. FrameRight(g, black, stack, i)
      BY <1>4
    <2>2. moved[i].node \notin black
      BY <1>3, <2>1 DEF FrameRight
    <2>3. \A j \in 1..n : i < j =>
            moved[i].node # moved[j].node /\ moved[j].node \in Closure(g, Targets(g, moved[i].node))
      BY <1>2, <1>3, <2>1 DEF FrameRight
    <2>4. /\ Range(moved[i].rest) \subseteq Targets(g, moved[i].node)
          /\ \A x \in Targets(g, moved[i].node) :
                x \in black \cup Range(moved[i].rest) \/ (i < n /\ moved[i + 1].node = x)
      <3>1. CASE i = n
        <4>1. Range(stack[n].rest) = {p} \cup Range(moved[n].rest)
          BY <1>1 DEF Moved
        <4> QED
          BY <1>2, <1>3, <2>1, <3>1, <4>1 DEF FrameRight
      <3>2. CASE i # n
        <4>1. i + 1 \in 1..n
          BY <3>2
        <4> QED
          BY <1>2, <1>3, <2>1, <3>2, <4>1 DEF FrameRight
      <3> QED
        BY <3>1, <3>2
    <2> QED
      BY <1>2, <2>2, <2>3, <2>4 DEF FrameRight
  <1> QED
    BY <1>1, <1>2, <1>5 DEF GrayPath, Moved

\* Its parent is white: it is visited next.
LEMMA PathGrows ==
    ASSUME NEW g, IsGraph(g), NEW black, NEW stack, NEW top, NEW p, NEW moved,
           Moves(g, black, stack, top, p, moved), p \notin black,
           \A i \in 1..Len(stack) : stack[i].node # p,
           NEW f \in StackFrame, f.node = p, Range(f.rest) = Targets(g, p)
    PROVE  GrayPath(g, black, Append(moved, f))
  <1>1. PICK n \in Nat \ {0} : Moved(g, stack, top, p, moved, n)
    BY FrameMoves
  <1>2. /\ n = Len(stack) /\ Len(moved) = n /\ top = stack[n] /\ moved \in Seq(StackFrame)
        /\ p \in Targets(g, stack[n].node)
    BY <1>1 DEF Moved
  <1>3. \A i \in 1..n : moved[i].node = stack[i].node /\ (i # n => moved[i].rest = stack[i].rest)
    BY <1>1 DEF Moved
  <1>4. \A i \in 1..n : FrameRight(g, black, stack, i)
    BY <1>2 DEF Moves, GrayPath
  <1>5. PICK w : w = Append(moved, f)
    OBVIOUS
  <1>6. w \in Seq(StackFrame) /\ Len(w) = n + 1 /\ w[n + 1] = f /\ \A i \in 1..n : w[i] = moved[i]
    BY <1>2, <1>5, RangeOfAppend
  <1>7. \A i \in 1..n : w[i].node = stack[i].node /\ (i # n => w[i].rest = stack[i].rest)
    BY <1>3, <1>6
  <1>8. \A i : i \in 1..n + 1 <=> i \in 1..n \/ i = n + 1
    OBVIOUS
  <1>9. ASSUME NEW i \in 1..n PROVE FrameRight(g, black, w, i)
    <2>1. FrameRight(g, black, stack, i)
      BY <1>4
    <2>2. w[i].node \notin black
      BY <1>7, <2>1 DEF FrameRight
    <2>3. p \in Closure(g, Targets(g, stack[i].node))
      <3>1. Targets(g, stack[i].node) \subseteq Everyone
        BY TargetsKnown
      <3>2. CASE i = n
        BY <1>2, <3>1, <3>2, ClosureContains
      <3>3. CASE i # n
        <4>1. n \in 1..n /\ i < n
          BY <3>3
        <4>2. stack[n].node \in Closure(g, Targets(g, stack[i].node))
          BY <1>2, <2>1, <4>1 DEF FrameRight
        <4> QED
          BY <1>2, <3>1, <4>2, ClosureContains
      <3> QED
        BY <3>2, <3>3
    <2>4. ASSUME NEW j \in 1..n + 1, i < j
          PROVE  w[i].node # w[j].node /\ w[j].node \in Closure(g, Targets(g, w[i].node))
      <3>1. CASE j \in 1..n
        BY <1>2, <1>7, <2>1, <2>4, <3>1 DEF FrameRight
      <3>2. CASE j = n + 1
        BY <1>2, <1>6, <1>7, <2>3, <3>2
      <3> QED
        BY <1>8, <3>1, <3>2
    <2>5. /\ Range(w[i].rest) \subseteq Targets(g, w[i].node)
          /\ \A x \in Targets(g, w[i].node) :
                x \in black \cup Range(w[i].rest) \/ (i < n + 1 /\ w[i + 1].node = x)
      <3>1. CASE i = n
        <4>1. Range(stack[n].rest) = {p} \cup Range(w[n].rest)
          BY <1>1, <1>6 DEF Moved
        <4>2. w[n + 1].node = p /\ n < n + 1
          BY <1>6
        <4> QED
          BY <1>2, <1>7, <2>1, <3>1, <4>1, <4>2 DEF FrameRight
      <3>2. CASE i # n
        <4>1. i + 1 \in 1..n /\ i < n + 1
          BY <3>2
        <4> QED
          BY <1>2, <1>7, <2>1, <3>2, <4>1 DEF FrameRight
      <3> QED
        BY <3>1, <3>2
    <2> QED
      BY <1>6, <2>2, <2>4, <2>5 DEF FrameRight
  <1>10. FrameRight(g, black, w, n + 1)
    <2>1. \A j \in 1..n + 1 : ~(n + 1 < j)
      OBVIOUS
    <2> QED
      BY <1>6, <2>1 DEF FrameRight
  <1> QED
    BY <1>5, <1>6, <1>8, <1>9, <1>10 DEF GrayPath

\* The parents of the session on top are all black: it is done and becomes black too.
LEMMA PathShrinks ==
    ASSUME NEW g, IsGraph(g), NEW black, black \subseteq Ids, BlackDone(g, black),
           NEW stack, GrayPath(g, black, stack), stack # <<>>, NEW top, top = Last(stack), top.rest = <<>>
    PROVE  /\ GrayPath(g, black \cup {top.node}, Front(stack))
           /\ BlackDone(g, black \cup {top.node}) /\ top.node \in Ids
  <1>1. stack \in Seq(StackFrame)
    BY DEF GrayPath
  <1>2. PICK n \in Nat \ {0} : n = Len(stack)
    BY <1>1
  <1>3. PICK w \in Seq(StackFrame) : w = Front(stack)
    BY <1>1, FrontAndLast
  <1>4. /\ top \in StackFrame /\ top = stack[n] /\ Len(w) = n - 1
        /\ \A i \in 1..n - 1 : w[i] = stack[i]
    BY <1>1, <1>2, <1>3, FrontAndLast
  <1>5. top.node \in Ids
    BY <1>4 DEF StackFrame
  <1>6. \A i \in 1..n : FrameRight(g, black, stack, i)
    BY <1>2 DEF GrayPath
  <1>7. top.node \notin black /\ Targets(g, top.node) \subseteq black
    <2>1. FrameRight(g, black, stack, n) /\ ~(n < n)
      BY <1>2, <1>6
    <2>2. Range(top.rest) = {}
      BY EmptyRange
    <2> QED
      BY <1>2, <1>4, <2>1, <2>2 DEF FrameRight
  <1>8. BlackDone(g, black \cup {top.node})
    <2>1. Closure(g, Targets(g, top.node)) \subseteq black
      <3>1. black \in SUBSET Everyone
        BY DEF Everyone
      <3> QED
        BY <1>7, <3>1, ClosureLeast DEF BlackDone
    <2> QED
      BY <1>7, <2>1 DEF BlackDone
  <1>9. ASSUME NEW i \in 1..n - 1 PROVE FrameRight(g, black \cup {top.node}, w, i)
    <2>1. i \in 1..n /\ i < n /\ i + 1 \in 1..n /\ n \in 1..n
      OBVIOUS
    <2>2. FrameRight(g, black, stack, i)
      BY <1>6, <2>1
    <2>3. stack[i].node # top.node
      BY <1>2, <1>4, <2>1, <2>2 DEF FrameRight
    <2>4. ASSUME NEW x \in Targets(g, stack[i].node)
          PROVE  \/ x \in (black \cup {top.node}) \cup Range(stack[i].rest)
                 \/ i < n - 1 /\ w[i + 1].node = x
      <3>1. CASE x \in black \cup Range(stack[i].rest)
        BY <3>1
      <3>2. CASE stack[i + 1].node = x
        <4>1. CASE i + 1 = n
          BY <1>4, <3>2, <4>1
        <4>2. CASE i + 1 # n
          <5>1. i + 1 \in 1..n - 1 /\ i < n - 1
            BY <4>2
          <5> QED
            BY <1>4, <3>2, <5>1
        <4> QED
          BY <4>1, <4>2
      <3> QED
        BY <2>2, <3>1, <3>2 DEF FrameRight
    <2>5. \A j \in 1..n - 1 : i < j =>
            w[i].node # w[j].node /\ w[j].node \in Closure(g, Targets(g, w[i].node))
      <3>1. \A j \in 1..n - 1 : j \in 1..n
        OBVIOUS
      <3> QED
        BY <1>2, <1>4, <2>2, <3>1 DEF FrameRight
    <2>6. w[i].node \notin black \cup {top.node} /\ Range(w[i].rest) \subseteq Targets(g, w[i].node)
      BY <1>4, <2>2, <2>3 DEF FrameRight
    <2> QED
      BY <1>4, <2>4, <2>5, <2>6 DEF FrameRight
  <1> QED
    BY <1>3, <1>4, <1>5, <1>8, <1>9 DEF GrayPath

LEMMA VisitParentKeeps == GraphInv /\ VisitParent => GraphInv'
  <1> SUFFICES ASSUME GraphInv, VisitParent PROVE GraphInv'
    OBVIOUS
  <1>1. /\ algorithm = "acyclic" /\ verdict = "busy" /\ pending # <<>>
        /\ algorithm' = algorithm /\ nexts' = nexts /\ decl' = decl /\ out' = out
    BY DEF VisitParent
  <1>2. /\ IsGraph(nexts) /\ seen \subseteq Ids /\ ~Dangling /\ GrayPath(nexts, seen, pending)
        /\ BlackDone(nexts, seen) /\ \A n \in Ids : Targets(nexts, n) \subseteq Ids /\ nexts[n] \in Seq(Ids)
    BY <1>1, Checking
  <1>3. PICK top, p, moved :
            /\ top = Last(pending) /\ p = Head(top.rest)
            /\ moved = Append(Front(pending), [top EXCEPT !.rest = Tail(@)])
    OBVIOUS
  <1>4. CASE top.rest = <<>> /\ seen' = seen \cup {top.node} /\ pending' = Front(pending) /\ verdict' = verdict
    <2>1. /\ GrayPath(nexts, seen', pending') /\ BlackDone(nexts, seen') /\ top.node \in Ids
      BY <1>1, <1>2, <1>3, <1>4, PathShrinks
    <2> QED
      BY <1>1, <1>2, <1>4, <2>1, CheckGoesOn
  <1>5. CASE top.rest # <<>> /\ seen' = seen
    <2>1. Moves(nexts, seen, pending, top, p, moved)
      BY <1>1, <1>2, <1>3, <1>5 DEF Moves
    <2>2. PICK n \in Nat \ {0} : Moved(nexts, pending, top, p, moved, n)
      BY <2>1, FrameMoves
    <2>3. /\ n = Len(pending) /\ top = pending[n] /\ p \in Targets(nexts, top.node) /\ p \in Ids
          /\ pending \in Seq(StackFrame)
      BY <2>2 DEF Moved
    <2>4. CASE p \in seen /\ pending' = moved /\ verdict' = verdict
      <3>1. GrayPath(nexts, seen, moved)
        BY <2>1, <2>4, PathMoves
      <3> QED
        BY <1>1, <1>2, <1>5, <2>4, <3>1, CheckGoesOn
    <2>5. CASE p \in Gray /\ verdict' = "error" /\ pending' = pending
      <3>1. PICK i \in 1..n : pending[i].node = p
        BY <2>3, <2>5 DEF Gray
      <3>2. p \in Closure(nexts, Targets(nexts, p))
        <4>1. Targets(nexts, p) \subseteq Everyone
          BY <1>2, TargetsKnown
        <4>2. CASE i = n
          BY <1>2, <2>3, <3>1, <4>1, <4>2, ClosureContains
        <4>3. CASE i # n
          <5>1. i < n /\ n \in 1..n /\ i \in 1..n
            BY <4>3
          <5>2. FrameRight(nexts, seen, pending, i)
            BY <1>2, <2>3, <5>1 DEF GrayPath
          <5>3. top.node \in Closure(nexts, Targets(nexts, p))
            BY <2>3, <3>1, <5>1, <5>2 DEF FrameRight
          <5> QED
            BY <1>2, <2>3, <4>1, <5>3, ClosureContains
        <4> QED
          BY <4>2, <4>3
      <3>3. Cyclic(nexts)
        BY <2>3, <3>2 DEF Cyclic
      <3>4. GraphTyped'
        BY <1>1, <1>5, <2>5 DEF GraphInv, GraphTyped
      <3>5. CycleWalk'
        BY <2>5 DEF CycleWalk
      <3>6. CyclesAreFound'
        BY <1>1, <2>5, <3>3 DEF CyclesAreFound
      <3> QED
        BY <1>1, <3>4, <3>5, <3>6, OneWalk
    <2>6. CASE p \notin seen \cup Gray /\ pending' = Append(moved, Frame(p)) /\ verdict' = verdict
      <3>1. PICK f \in StackFrame : f = Frame(p) /\ f.node = p /\ f.rest = nexts[p]
        BY <1>2, <2>3, NewFrame
      <3>2. Range(f.rest) = Targets(nexts, p)
        BY <2>3, <3>1 DEF Targets
      <3>3. \A i \in 1..Len(pending) : pending[i].node # p
        BY <2>3, <2>6 DEF Gray
      <3>4. GrayPath(nexts, seen, Append(moved, f))
        BY <1>2, <2>1, <2>6, <3>1, <3>2, <3>3, PathGrows
      <3> QED
        BY <1>1, <1>2, <1>5, <2>6, <3>1, <3>4, CheckGoesOn
    <2> QED
      BY <1>3, <1>5, <2>4, <2>5, <2>6 DEF VisitParent
  <1> QED
    BY <1>3, <1>4, <1>5 DEF VisitParent

\* The sessions on the stack are distinct, so it is no deeper than the registry.
LEMMA RecursionErrorKeeps == GraphInv /\ RecursionError => GraphInv'
  <1> SUFFICES ASSUME GraphInv, RecursionError PROVE GraphInv'
    OBVIOUS
  <1>1. /\ algorithm = "acyclic" /\ algorithm' = "acyclic" /\ verdict = "busy" /\ verdict' = "deep"
        /\ nexts' = nexts /\ decl' = decl /\ seen' = seen /\ Len(pending) >= RecursionLimit
    BY DEF RecursionError, Verdict
  <1>2. GrayPath(nexts, seen, pending)
    BY <1>1, Checking
  <1>3. PICK n \in Nat : n = Len(pending)
    BY <1>2 DEF GrayPath
  <1>4. PICK path : path = [i \in 1..n |-> pending[i].node]
    OBVIOUS
  <1>5. path \in Seq(Ids) /\ Len(path) = n
    <2>0. \A i \in 1..n : pending[i] \in StackFrame
      BY <1>2, <1>3 DEF GrayPath
    <2>1. \A i \in 1..n : pending[i].node \in Ids
      BY <2>0 DEF StackFrame
    <2> QED
      BY <1>4, <2>1
  <1>6. IsInjective(path)
    <2>1. \A i, j \in 1..n : i < j => pending[i].node # pending[j].node
      BY <1>2, <1>3 DEF GrayPath, FrameRight
    <2>2. \A i, j \in 1..n : i # j => i < j \/ j < i
      OBVIOUS
    <2>3. \A i, j \in 1..n : path[i] = path[j] => i = j
      BY <1>4, <2>1, <2>2
    <2> QED
      BY <1>4, <2>3 DEF IsInjective
  <1>7. n <= Len(Node)
    BY <1>5, <1>6, AnswerFits
  <1>8. Len(Node) >= RecursionLimit
    BY <1>1, <1>3, <1>7, NodesAreIds, TraversalAssumption
  <1>9. GraphTyped'
    BY <1>1 DEF GraphInv, GraphTyped
  <1>10. CycleWalk'
    BY <1>1 DEF CycleWalk
  <1>11. CyclesAreFound'
    BY <1>1, <1>8 DEF CyclesAreFound
  <1> QED
    BY <1>1, <1>9, <1>10, <1>11, OneWalk

LEMMA GraphStutters == GraphInv /\ UNCHANGED graphVars => GraphInv'
  <1> SUFFICES ASSUME GraphInv, UNCHANGED graphVars PROVE GraphInv'
    OBVIOUS
  <1>1. /\ algorithm' = algorithm /\ nexts' = nexts /\ decl' = decl /\ pending' = pending
        /\ seen' = seen /\ out' = out /\ verdict' = verdict
    BY DEF graphVars
  <1>2. GraphTyped'
    BY <1>1 DEF GraphInv, GraphTyped
  <1>3. CompileWalk' /\ PlansAreSound'
    BY <1>1 DEF GraphInv, TraversalsAreRight, CompileWalk, PlansAreSound, NodeAccepted, Succ
  <1>4. AncestorWalk' /\ AncestorsAreRight'
    BY <1>1 DEF GraphInv, TraversalsAreRight, AncestorWalk, AncestorsAreRight, Succ
  <1>5. DescendantWalk' /\ DescendantsAreRight'
    BY <1>1 DEF GraphInv, TraversalsAreRight, DescendantWalk, DescendantsAreRight, Succ
  <1>6. CycleWalk' /\ CyclesAreFound'
    BY <1>1 DEF GraphInv, TraversalsAreRight, CycleWalk, CyclesAreFound, Dangling, Succ
  <1> QED
    BY <1>2, <1>3, <1>4, <1>5, <1>6 DEF GraphInv, TraversalsAreRight

\* Whatever the graph, its cycles, its repeated and its unknown ids: the compiler accepts
\* exactly the plans whose nodes can all be reached, ancestors_bfs gives every ancestor
\* once and nearest first, descendants_dfs_preorder every descendant once and after a
\* parent if it returns at all, which it does only where no descendant lies on a cycle,
\* and validate_acyclic fails exactly on cycles and unknown parents, unless the registry
\* has as many sessions as the interpreter has frames.
THEOREM TraversalsCompute == GraphSpec => []TraversalsAreRight
  <1>1. GraphInit => GraphInv
    BY GraphInitially
  <1>2. GraphInv /\ [GraphNext]_graphVars => GraphInv'
    BY CallWalkKeeps, NodesKeeps, CheckNodesKeeps, ReachKeeps, PlanKeeps, AncestorsKeeps,
       NextAncestorKeeps, DescendantsKeeps, NextDescendantKeeps, EndOfWalkKeeps, CheckParentsKeeps,
       VisitRootKeeps, VisitParentKeeps, RecursionErrorKeeps, GraphStutters
    DEF GraphNext
  <1>3. GraphInv => TraversalsAreRight
    BY DEF GraphInv
  <1> QED
    BY <1>1, <1>2, <1>3, PTL DEF GraphSpec
=============================================================================
