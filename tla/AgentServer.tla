----------------------------- MODULE AgentServer -----------------------------
(* The HTTP side of the Agent Server (rath/server/app.py) as clients see it:  *)
(* several replicas over one database create runs, page through them and      *)
(* stream their events, while workers move the runs on and the replicas are   *)
(* restarted with newer revisions.  A handler without an await is one step of *)
(* its process, but each of its store calls is a transaction of its own, so   *)
(* create_run is interleaved with the other replicas between its checks and   *)
(* its insert, and a stream between listing events and reading the status.    *)
(*                                                                            *)
(* Workers appear only as the run life cycle, which RunStore is shown to      *)
(* implement; a status change and its event are one transaction.              *)
EXTENDS Integers, FiniteSets, FiniteSetsExt, Sequences

CONSTANTS
    Run,             \* run ids, numbers in the order of their uuids
    CreatedAt,       \* CreatedAt[r]: the clock of the replica that creates r
    Replica, Tenant, Session, Alias,
    OwnerOf,         \* OwnerOf[s]: the tenant that creates session s
    Call,            \* what clients post: tenant, key, session, alias
    Targets,         \* statuses that workers and operators move runs to
    Followed,        \* the run whose events the client follows
    Afters,          \* the ?after= parameters of clients, Absent for none
    Nobody, NoKey, Absent,
    MaxQueued,       \* max_queued_runs_per_tenant
    PageSize,        \* limit of /v1/runs and of the event queries
    MaxRevision, MaxAttempt, MaxEvents, MaxDrops   \* bounds

ASSUME ServerConstants ==
    /\ Run \subseteq Nat \ {0} /\ Followed \in Run
    /\ CreatedAt \in [Run -> Nat]
    /\ Call \subseteq [tenant : Tenant, key : Nat \cup {NoKey}, session : Session,
                       alias : Alias \cup {Nobody}]
    /\ OwnerOf \in [Session -> Tenant]
    /\ Afters \subseteq Nat \cup {Absent} /\ Absent \notin Nat /\ NoKey \notin Nat
    /\ MaxQueued \in Nat \ {0} /\ PageSize \in Nat \ {0}
    /\ MaxRevision \in Nat \ {0} /\ MaxAttempt \in Nat /\ MaxEvents \in Nat /\ MaxDrops \in Nat
    /\ Nobody \notin Tenant \cup Alias /\ Replica # {} /\ IsFiniteSet(Replica)

VARIABLES
    runs,            \* the table runs
    log,             \* number of rows of run_events of the run Followed
    sessions,        \* server_sessions: the owner of a session, or Nobody
    aliases,         \* server_assistants: revision of [tenant][alias], or 0
    feedback,        \* the table feedback
    serving,         \* serving[p]: revision of the template of replica p
    creating,        \* creating[p]: the create_run between its checks and submit
    answered,        \* answered[c]: runs that the answers to call c named
    stream,          \* the SSE connection of the client
    client,          \* its request parameters and what it has received
    pager,           \* the client that pages through /v1/runs
    drops            \* connections lost so far

serverVars == <<runs, log, sessions, aliases, feedback, serving, creating,
                answered, stream, client, pager, drops>>

Lifecycle == INSTANCE RunLifecycle
    WITH status <- [r \in Run |-> runs[r].status], attempt <- [r \in Run |-> runs[r].attempt]

-----------------------------------------------------------------------------
(* Rows and memory *)

Terminal == {"SUCCEEDED", "FAILED", "CANCELLED", "TIMED_OUT"}
Active   == {"QUEUED", "RUNNING", "WAITING", "NEEDS_REVIEW"}

NoRun     == [status |-> "ABSENT", attempt |-> 0, tenant |-> Nobody, session |-> Nobody,
              revision |-> 0, key |-> NoKey, alias |-> Nobody]
NoRequest == [call |-> Nobody, revision |-> 0]
Closed    == [pc |-> "closed", cursor |-> 0, wire |-> <<>>, emitted |-> FALSE]
NotPaging == [at |-> 0, present |-> {}, listed |-> {}, twice |-> FALSE, pc |-> "idle"]

ServerInit ==
    /\ runs = [r \in Run |-> NoRun]
    /\ log = 0
    /\ sessions = [s \in Session |-> Nobody]
    /\ aliases = [t \in Tenant |-> [a \in Alias |-> 0]]
    /\ feedback = {}
    /\ serving = [p \in Replica |-> 1]
    /\ creating = [p \in Replica |-> NoRequest]
    /\ answered = [c \in Call |-> {}]
    /\ stream = Closed
    /\ client \in [after : Afters, follow : BOOLEAN, last : {0}, ids : {{}}]
    /\ pager = NotPaging
    /\ drops = 0

resources == <<sessions, aliases, feedback, serving>>
follower  == <<stream, client, drops>>

Exists(r) == runs[r].status # "ABSENT"
Idle(p) == creating[p] = NoRequest

-----------------------------------------------------------------------------
(* Sessions, assistants and feedback *)

\* resources.create_session and get_session: ids are fresh, rows never change.
NewSession(s) == sessions[s] = Nobody /\ sessions' = [sessions EXCEPT ![s] = OwnerOf[s]]

OwnedBy(s, t) == sessions[s] = t

\* resources.create_assistant: INSERT OR IGNORE, then a read that raises
\* unless the row has the caller's revision.
NewAssistant(t, a, revision) ==
    /\ aliases[t][a] \in {0, revision}
    /\ aliases' = [aliases EXCEPT ![t][a] = revision]

NewFeedback(t, r) == feedback' = feedback \cup {<<t, r>>}

CreateSession(p) ==
    /\ Idle(p)
    /\ \E s \in Session : NewSession(s)
    /\ UNCHANGED <<runs, log, aliases, feedback, serving, creating, answered, follower, pager>>

CreateAssistant(p) ==
    /\ Idle(p)
    /\ \E c \in Call : c.alias # Nobody /\ NewAssistant(c.tenant, c.alias, serving[p])
    /\ UNCHANGED <<runs, log, sessions, feedback, serving, creating, answered, follower, pager>>

\* run_visible; a run that is not visible is not found.
Visible(t, r) == Exists(r) /\ runs[r].tenant = t

CreateFeedback(p) ==
    /\ Idle(p)
    /\ \E t \in Tenant, r \in Run : Visible(t, r) /\ NewFeedback(t, r)
    /\ UNCHANGED <<runs, log, sessions, aliases, serving, creating, answered, follower, pager>>

-----------------------------------------------------------------------------
(* create_run *)

Queued(t) == {r \in Run : runs[r].status = "QUEUED" /\ runs[r].tenant = t}

\* Mutation: the limit is compared with >.
BelowLimit_Strict(t) == ~(Cardinality(Queued(t)) > MaxQueued)

BelowLimit(t) == ~(Cardinality(Queued(t)) >= MaxQueued)

\* Mutation: an alias runs whatever revision the replica serves.
Deployed_Any(p, c) == c.alias # Nobody => aliases[c.tenant][c.alias] # 0

\* The assistant exists, and an alias still names the deployed revision.
Deployed(p, c) == c.alias # Nobody => aliases[c.tenant][c.alias] = serving[p]

\* A check that fails answers 400 or 429 and changes nothing.
CheckCreate(p, c) ==
    /\ Idle(p)
    /\ Deployed(p, c)
    /\ OwnedBy(c.session, c.tenant)
    /\ BelowLimit(c.tenant)
    /\ creating' = [creating EXCEPT ![p] = [call |-> c, revision |-> serving[p]]]
    /\ UNCHANGED <<runs, log, resources, answered, follower, pager>>

Keyed(c) == {r \in Run : /\ Exists(r) /\ c.key # NoKey
                         /\ runs[r].tenant = c.tenant /\ runs[r].key = c.key}

SessionFree(s) == \A q \in Run : runs[q].session = s => runs[q].status \notin Active

Logged(r) == IF r = Followed THEN log + 1 ELSE log

Insert(p, r) ==
    LET c == creating[p].call IN
    /\ SessionFree(c.session)
    /\ runs' = [runs EXCEPT ![r] = [status |-> "QUEUED", attempt |-> 0, tenant |-> c.tenant,
                                    session |-> c.session, revision |-> creating[p].revision,
                                    key |-> c.key, alias |-> c.alias]]
    /\ log' = Logged(r)
    /\ answered' = [answered EXCEPT ![c] = @ \cup {r}]

\* The row found under the key is returned if the request is the same one.
Found(p, r) ==
    LET c == creating[p].call IN
    /\ answered' = IF runs[r].session = c.session /\ runs[r].revision = creating[p].revision
                   THEN [answered EXCEPT ![c] = @ \cup {r}] ELSE answered
    /\ UNCHANGED <<runs, log>>

\* Mutation: submit looks the key up among the active runs only.
Lookup_Active(c) == {r \in Keyed(c) : runs[r].status \in Active}

Lookup(c) == Keyed(c)

\* submit: one transaction; a ConflictError answers 409.
Submit(p) ==
    /\ ~Idle(p)
    /\ LET c == creating[p].call IN
       IF Lookup(c) # {} THEN \E r \in Lookup(c) : Found(p, r)
       ELSE \/ \E r \in Run : ~Exists(r) /\ Insert(p, r)
            \/ /\ ~SessionFree(c.session)
               /\ UNCHANGED <<runs, log, answered>>
    /\ creating' = [creating EXCEPT ![p] = NoRequest]
    /\ UNCHANGED <<resources, follower, pager>>

\* The replica is replaced by one that serves the next revision.
Redeploy(p) ==
    /\ serving[p] < MaxRevision
    /\ serving' = [serving EXCEPT ![p] = @ + 1]
    /\ creating' = [creating EXCEPT ![p] = NoRequest]
    /\ UNCHANGED <<runs, log, sessions, aliases, feedback, answered, follower, pager>>

-----------------------------------------------------------------------------
(* Workers and operators *)

\* Lifecycle!Next for one run; the events of a run are numbered in order.
Advance(r) ==
    /\ Exists(r)
    /\ \E t \in Targets :
          LET s == runs[r].status IN
          /\ \/ Lifecycle!Started(s, t) \/ Lifecycle!Released(s, t)
             \/ Lifecycle!Stopped(s, t) \/ Lifecycle!Ended(s, t)
          /\ Lifecycle!Started(s, t) => runs[r].attempt < MaxAttempt
          /\ runs' = [runs EXCEPT ![r].status = t,
                                  ![r].attempt = IF Lifecycle!Started(s, t) THEN @ + 1 ELSE @]
    /\ log' = Logged(r)
    /\ UNCHANGED <<resources, creating, answered, follower, pager>>

\* append_run_event by a step that is still executing, whatever its run is by now.
AttemptFailed ==
    /\ runs[Followed].attempt > 0
    /\ log < MaxEvents
    /\ log' = log + 1
    /\ UNCHANGED <<runs, resources, creating, answered, follower, pager>>

-----------------------------------------------------------------------------
(* GET /v1/runs/{id}/stream *)

EventsAfter(n) == [i \in 1..Min({PageSize, log - n}) |-> n + i]

\* events: ?after= wins over Last-Event-ID.
FirstPage == IF client.after # Absent THEN client.after ELSE client.last

\* generate: Last-Event-ID wins over ?after=.
FirstCursor ==
    IF client.ids # {} THEN client.last ELSE IF client.after # Absent THEN client.after ELSE 0

AfterItems == IF client.follow THEN "status" ELSE "ended"

Connect ==
    /\ stream.pc = "closed"
    /\ Exists(Followed)
    /\ LET items == IF FirstPage <= log THEN EventsAfter(FirstPage) ELSE <<>> IN
       stream' = [pc |-> IF items = <<>> THEN "list" ELSE AfterItems,
                  cursor |-> IF items = <<>> THEN FirstCursor ELSE items[Len(items)],
                  wire |-> items, emitted |-> items # <<>>]
    /\ UNCHANGED <<runs, log, resources, creating, answered, client, pager, drops>>

\* Mutation: a finished run is not queried again.
ListEvents_OnlyLive ==
    /\ stream.pc = "list"
    /\ LET items == IF runs[Followed].status \in Terminal THEN <<>> ELSE EventsAfter(stream.cursor) IN
       stream' = [stream EXCEPT !.pc = AfterItems,
                                !.wire = @ \o items, !.emitted = items # <<>>,
                                !.cursor = @ + Len(items)]
    /\ UNCHANGED <<runs, log, resources, creating, answered, client, pager, drops>>

ListEvents ==
    /\ stream.pc = "list"
    /\ LET items == EventsAfter(stream.cursor) IN
       stream' = [stream EXCEPT !.pc = AfterItems,
                                !.wire = @ \o items, !.emitted = items # <<>>,
                                !.cursor = @ + Len(items)]
    /\ UNCHANGED <<runs, log, resources, creating, answered, client, pager, drops>>

\* get_run: the stream of a finished run ends once a query has found nothing.
ReadStatus ==
    /\ stream.pc = "status"
    /\ stream' = [stream EXCEPT
          !.pc = IF runs[Followed].status \in Terminal /\ ~stream.emitted THEN "ended" ELSE "list"]
    /\ UNCHANGED <<runs, log, resources, creating, answered, client, pager, drops>>

Deliver ==
    /\ stream.wire # <<>>
    /\ stream' = [stream EXCEPT !.wire = Tail(@)]
    /\ client' = [client EXCEPT !.last = Head(stream.wire), !.ids = @ \cup {Head(stream.wire)}]
    /\ UNCHANGED <<runs, log, resources, creating, answered, pager, drops>>

\* The end of the response; the client connects again if it wants more.
EndOfStream ==
    /\ stream.pc = "ended" /\ stream.wire = <<>>
    /\ stream' = Closed
    /\ UNCHANGED <<runs, log, resources, creating, answered, client, pager, drops>>

\* The connection breaks: whatever was in flight is gone.
Drop ==
    /\ stream.pc # "closed"
    /\ drops < MaxDrops
    /\ stream' = Closed
    /\ drops' = drops + 1
    /\ UNCHANGED <<runs, log, resources, creating, answered, client, pager>>

-----------------------------------------------------------------------------
(* GET /v1/runs: pages ordered by (created_at, id) *)

Earlier(q, r) == CreatedAt[q] < CreatedAt[r] \/ (CreatedAt[q] = CreatedAt[r] /\ q < r)

\* Mutation: the cursor compares creation times only.
Beyond_TimeOnly(r) == pager.at = 0 \/ CreatedAt[pager.at] < CreatedAt[r]

Beyond(r) == pager.at = 0 \/ Earlier(pager.at, r)

StartPaging ==
    /\ pager.pc = "idle"
    /\ pager' = [NotPaging EXCEPT !.pc = "next", !.present = {r \in Run : Exists(r)}]
    /\ UNCHANGED <<runs, log, resources, creating, answered, follower>>

NextPage ==
    /\ pager.pc = "next"
    /\ LET values == {r \in Run : Exists(r) /\ Beyond(r)}
           page   == {r \in values : Cardinality({q \in values : Earlier(q, r)}) < PageSize}
       IN pager' = [pager EXCEPT
             !.listed = @ \cup page,
             !.twice = @ \/ page \cap pager.listed # {},
             !.pc = IF Cardinality(values) > PageSize THEN "next" ELSE "done",
             !.at = IF Cardinality(values) > PageSize
                    THEN CHOOSE r \in page : \A q \in page : q = r \/ Earlier(q, r)
                    ELSE 0]
    /\ UNCHANGED <<runs, log, resources, creating, answered, follower>>

EndPaging ==
    /\ pager.pc = "done"
    /\ pager' = NotPaging
    /\ UNCHANGED <<runs, log, resources, creating, answered, follower>>

-----------------------------------------------------------------------------
Streaming == Connect \/ ListEvents \/ ReadStatus \/ Deliver \/ EndOfStream \/ Drop

Creating(p) == CreateSession(p) \/ (\E c \in Call : CheckCreate(p, c)) \/ Submit(p)

Requests(p) == Creating(p) \/ CreateAssistant(p) \/ CreateFeedback(p) \/ Redeploy(p)

Paging == StartPaging \/ NextPage \/ EndPaging

ServerNext ==
    \/ \E p \in Replica : Requests(p)
    \/ \E r \in Run : Advance(r)
    \/ AttemptFailed \/ Streaming \/ Paging

\* The server runs its generator on and the client reads and reconnects.
StreamFairness ==
    WF_serverVars(Connect) /\ WF_serverVars(ListEvents) /\ WF_serverVars(ReadStatus)
    /\ WF_serverVars(Deliver) /\ WF_serverVars(EndOfStream)

ServerSpec == ServerInit /\ [][ServerNext]_serverVars /\ StreamFairness

-----------------------------------------------------------------------------
(* Properties *)

\* The check and the insert of create_run are two transactions, so concurrent
\* replicas overshoot max_queued_runs_per_tenant, each by one run at most; runs
\* that workers put back into the queue come on top.
QueueOvershootBounded ==
    \A t \in Tenant :
        Cardinality({r \in Queued(t) : runs[r].attempt = 0}) <= MaxQueued + Cardinality(Replica) - 1

\* Everything a request leaves behind belongs to the caller's tenant, and a run
\* created through an alias runs the revision that the alias was created for,
\* although replicas of two revisions serve requests during a deployment.
RunsBelongTogether ==
    /\ \A r \in Run : Exists(r) => sessions[runs[r].session] = runs[r].tenant
    /\ \A f \in feedback : runs[f[2]].tenant = f[1]
    /\ \A r \in Run : runs[r].alias # Nobody =>
          runs[r].revision = aliases[runs[r].tenant][runs[r].alias]

\* However often a call with an idempotency key is posted, to whichever replica
\* and after whatever happened to the run, its answers name one run.
RetriesNameOneRun == \A c \in Call : c.key # NoKey => Cardinality(answered[c]) <= 1

\* The events a client asked for.
Wanted == {i \in 1..log : client.after = Absent \/ i > client.after}

\* The client never has an event without all the events before it, across lost
\* connections, pages and both cursor parameters.
NoEventSkipped == \A i \in client.ids : \A j \in Wanted : j < i => j \in client.ids

\* A client that pages through /v1/runs while runs are created gets every run
\* that existed when it started, and no run twice.
PagesAreComplete == pager.pc = "done" => pager.present \subseteq pager.listed /\ ~pager.twice

\* Clients that read while runs move on, connections break and replicas change
\* miss nothing that lies behind what they have got.
ReadersMissNothing == NoEventSkipped /\ PagesAreComplete

\* The stream may end before the last events, which were committed between its
\* query and its look at the status: a client that resumes catches up all the
\* same.  Not so one that repeats ?after= without follow=true: the first page is
\* taken from ?after= and not from Last-Event-ID, so it gets that page for ever.
FollowerCatchesUp ==
    []<>(client.follow \/ client.after = Absent => Wanted \subseteq client.ids)
=============================================================================
