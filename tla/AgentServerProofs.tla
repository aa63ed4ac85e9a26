-------------------------- MODULE AgentServerProofs --------------------------
(* Theorems about AgentServer. *)
EXTENDS AgentServer, FiniteSetTheorems, SequenceTheorems, WellFoundedInduction, TLAPS

-----------------------------------------------------------------------------
(* The inductive invariant of create_run and the resources it uses *)

RunRow == [status : {"ABSENT"} \cup Active \cup Terminal, attempt : Nat,
           tenant : Tenant \cup {Nobody}, session : Session \cup {Nobody},
           revision : Nat, key : Nat \cup {NoKey}, alias : Alias \cup {Nobody}]

TablesTyped ==
    /\ runs \in [Run -> RunRow]
    /\ sessions \in [Session -> Tenant \cup {Nobody}]
    /\ aliases \in [Tenant -> [Alias -> Nat]]
    /\ feedback \subseteq Tenant \X Run
    /\ serving \in [Replica -> Nat \ {0}]
    /\ creating \in [Replica -> [call : Call \cup {Nobody}, revision : Nat]]
    /\ answered \in [Call -> SUBSET Run]

\* A row that was not inserted is empty, and one that a worker has had counts it.
RowsSound ==
    /\ \A r \in Run : ~Exists(r) => runs[r] = NoRun
    /\ \A r \in Run : Exists(r) => runs[r].tenant \in Tenant /\ runs[r].session \in Session
    /\ \A r \in Run : runs[r].status \in Active \ {"QUEUED"} => runs[r].attempt > 0
    /\ IsFiniteSet({r \in Run : Exists(r)})

\* What create_run has checked still holds when it submits: sessions keep their
\* owner and aliases their revision.
ChecksHold ==
    \A p \in Replica : ~Idle(p) =>
        LET c == creating[p].call IN
        /\ c \in Call /\ creating[p].revision > 0
        /\ sessions[c.session] = c.tenant
        /\ c.alias # Nobody => aliases[c.tenant][c.alias] = creating[p].revision

\* Rows, their sessions, aliases and feedback belong together, as in
\* RunsBelongTogether, and what they refer to exists.
RefsSound ==
    /\ \A r \in Run : Exists(r) => sessions[runs[r].session] = runs[r].tenant
    /\ \A f \in feedback : Exists(f[2]) /\ runs[f[2]].tenant = f[1]
    /\ \A r \in Run : runs[r].alias # Nobody =>
          runs[r].revision > 0 /\ runs[r].revision = aliases[runs[r].tenant][runs[r].alias]

\* A key names one run of its tenant, and the answers to a call name the run
\* under its key.
KeysSound ==
    /\ \A r, q \in Run :
          /\ Exists(r) /\ Exists(q) /\ runs[r].key # NoKey
          /\ runs[r].tenant = runs[q].tenant /\ runs[r].key = runs[q].key
          => r = q
    /\ \A c \in Call : \A r \in answered[c] :
          Exists(r) /\ runs[r].tenant = c.tenant /\ runs[r].key = c.key

\* Runs that no worker has had yet, and requests that will add one.
Waiting(t) == {r \in Queued(t) : runs[r].attempt = 0}
Asking(t) == {p \in Replica : ~Idle(p) /\ creating[p].call.tenant = t}

QueueBounded ==
    \A t \in Tenant :
        Cardinality(Waiting(t)) + Cardinality(Asking(t)) <= MaxQueued + Cardinality(Replica) - 1

CreateInv ==
    TablesTyped /\ RowsSound /\ ChecksHold /\ RefsSound /\ KeysSound /\ QueueBounded
-----------------------------------------------------------------------------
(* What the steps do to the tables *)

Quiet == AttemptFailed \/ Streaming \/ Paging \/ UNCHANGED serverVars

tables == <<runs, resources, creating, answered>>

LEMMA QuietTables ==
    ASSUME Quiet
    PROVE  UNCHANGED tables
  BY DEF Quiet, tables, resources, serverVars, AttemptFailed, Streaming, Paging, Connect, ListEvents,
         ReadStatus, Deliver, EndOfStream, Drop, StartPaging, NextPage, EndPaging

\* The row that the request of replica p inserts.
NewRow(p) ==
    LET c == creating[p].call IN
    [status |-> "QUEUED", attempt |-> 0, tenant |-> c.tenant, session |-> c.session,
     revision |-> creating[p].revision, key |-> c.key, alias |-> c.alias]

\* The three outcomes of submit, and the steps of a worker.
Inserts(p, r) ==
    /\ ~Idle(p) /\ ~Exists(r) /\ Keyed(creating[p].call) = {}
    /\ runs' = [runs EXCEPT ![r] = NewRow(p)]
    /\ answered' = [answered EXCEPT ![creating[p].call] = @ \cup {r}]
    /\ creating' = [creating EXCEPT ![p] = NoRequest]
    /\ UNCHANGED resources

Finds(p, r) ==
    /\ ~Idle(p) /\ r \in Keyed(creating[p].call)
    /\ \/ answered' = answered
       \/ answered' = [answered EXCEPT ![creating[p].call] = @ \cup {r}]
    /\ creating' = [creating EXCEPT ![p] = NoRequest]
    /\ UNCHANGED <<runs, resources>>

Forgets(p) ==
    /\ creating' = [creating EXCEPT ![p] = NoRequest]
    /\ UNCHANGED <<runs, answered, sessions, aliases, feedback>>
    /\ serving' = serving \/ serving' = [serving EXCEPT ![p] = @ + 1]

LEMMA SubmitCases ==
    ASSUME NEW p \in Replica, Submit(p)
    PROVE  \/ \E r \in Run : Inserts(p, r) \/ Finds(p, r)
           \/ Forgets(p)
<1>1. CASE Lookup(creating[p].call) # {}
  BY <1>1 DEF Submit, Lookup, Keyed, Found, Finds
<1>2. CASE Lookup(creating[p].call) = {}
  BY <1>2 DEF Submit, Lookup, Insert, Inserts, NewRow, Forgets, resources
<1> QED
  BY <1>1, <1>2

\* A worker's or an operator's step changes status and attempt of one run, and a
\* run gets into the queue without an attempt only by being inserted.
Moved(r) ==
    /\ Exists(r)
    /\ \E t \in Active \cup Terminal, n \in Nat :
          /\ runs' = [runs EXCEPT ![r] = [@ EXCEPT !.status = t, !.attempt = n]]
          /\ n >= runs[r].attempt
          /\ t = "RUNNING" => n > 0
          /\ t \in Active \ {"RUNNING"} => n = runs[r].attempt /\ runs[r].status \in Active \ {"QUEUED"}
    /\ UNCHANGED <<resources, creating, answered>>

LEMMA AdvanceMoves ==
    ASSUME TablesTyped, NEW r \in Run, Advance(r)
    PROVE  Moved(r)
<1>0. runs[r] \in RunRow /\ runs[r].attempt \in Nat
  BY DEF TablesTyped, RunRow
<1>1. PICK t \in Targets :
          LET s == runs[r].status IN
          /\ \/ Lifecycle!Started(s, t) \/ Lifecycle!Released(s, t)
             \/ Lifecycle!Stopped(s, t) \/ Lifecycle!Ended(s, t)
          /\ runs' = [runs EXCEPT ![r].status = t,
                                  ![r].attempt = IF Lifecycle!Started(s, t) THEN @ + 1 ELSE @]
  BY DEF Advance
<1>2. Exists(r) /\ UNCHANGED <<resources, creating, answered>>
  BY DEF Advance
<1>3. t \in Active \cup Terminal
  BY <1>1 DEF Lifecycle!Started, Lifecycle!Released, Lifecycle!Stopped, Lifecycle!Ended, Active,
              Terminal
<1>4. CASE Lifecycle!Started(runs[r].status, t)
  <2>1. t = "RUNNING"
    BY <1>4 DEF Lifecycle!Started
  <2>2. runs[r].attempt + 1 \in Nat /\ runs[r].attempt + 1 > 0
        /\ runs[r].attempt + 1 >= runs[r].attempt
    BY <1>0
  <2>3. runs' = [runs EXCEPT ![r] = [@ EXCEPT !.status = t, !.attempt = runs[r].attempt + 1]]
    BY <1>0, <1>1, <1>4 DEF TablesTyped, RunRow
  <2> QED
    BY <1>2, <1>3, <2>1, <2>2, <2>3 DEF Moved
<1>5. CASE ~Lifecycle!Started(runs[r].status, t)
  <2>1. t # "RUNNING"
    BY <1>1, <1>5 DEF Lifecycle!Released, Lifecycle!Stopped, Lifecycle!Ended
  <2>2. t \in Active => runs[r].status \in Active \ {"QUEUED"}
    BY <1>1, <1>5 DEF Lifecycle!Released, Lifecycle!Stopped, Lifecycle!Ended, Lifecycle!Live, Active
  <2>3. runs' = [runs EXCEPT ![r] = [@ EXCEPT !.status = t, !.attempt = runs[r].attempt]]
    <3>1. runs' = [runs EXCEPT ![r].status = t, ![r].attempt = @]
      BY <1>1, <1>5
    <3>2. runs'[r] = [runs[r] EXCEPT !.status = t, !.attempt = runs[r].attempt]
      BY <1>0, <3>1 DEF TablesTyped, RunRow
    <3> QED
      BY <1>0, <3>1, <3>2 DEF TablesTyped
  <2>4. runs[r].attempt >= runs[r].attempt
    BY <1>0
  <2> DEFINE n == runs[r].attempt
  <2>5. /\ runs' = [runs EXCEPT ![r] = [@ EXCEPT !.status = t, !.attempt = n]]
        /\ n >= runs[r].attempt
        /\ t = "RUNNING" => n > 0
        /\ t \in Active \ {"RUNNING"} => n = runs[r].attempt /\ runs[r].status \in Active \ {"QUEUED"}
    BY <2>1, <2>2, <2>3, <2>4
  <2>6. n \in Nat
    BY <1>0
  <2> HIDE DEF n
  <2> QED
    BY <1>2, <1>3, <2>5, <2>6 DEF Moved
<1> QED
  BY <1>4, <1>5

-----------------------------------------------------------------------------
(* Facts about rows, calls and counts *)

LEMMA RowFields ==
    ASSUME TablesTyped, NEW r \in Run
    PROVE  /\ runs[r] \in RunRow
           /\ runs[r].status \in {"ABSENT"} \cup Active \cup Terminal
           /\ runs[r].attempt \in Nat
           /\ runs[r].tenant \in Tenant \cup {Nobody}
           /\ runs[r].session \in Session \cup {Nobody}
           /\ runs[r].revision \in Nat
           /\ runs[r].key \in Nat \cup {NoKey}
           /\ runs[r].alias \in Alias \cup {Nobody}
  BY DEF TablesTyped, RunRow

LEMMA CallFields ==
    ASSUME NEW c \in Call
    PROVE  /\ c.tenant \in Tenant
           /\ c.session \in Session
           /\ c.key \in Nat \cup {NoKey}
           /\ c.alias \in Alias \cup {Nobody}
  BY ServerConstants

\* A request between its checks and its insert carries a call.
LEMMA RequestFields ==
    ASSUME TablesTyped, ChecksHold, NEW p \in Replica, ~Idle(p)
    PROVE  /\ creating[p].call \in Call
           /\ creating[p].revision \in Nat /\ creating[p].revision > 0
           /\ NewRow(p) \in RunRow
<1>1. creating[p].call \in Call /\ creating[p].revision > 0 /\ creating[p].revision \in Nat
  BY DEF TablesTyped, ChecksHold
<1>2. NewRow(p) \in RunRow
  BY <1>1, CallFields DEF NewRow, RunRow, Active
<1> QED
  BY <1>1, <1>2

LEMMA FiniteCounts ==
    ASSUME RowsSound, NEW t \in Tenant
    PROVE  /\ IsFiniteSet(Waiting(t)) /\ Cardinality(Waiting(t)) \in Nat
           /\ IsFiniteSet(Queued(t)) /\ Cardinality(Queued(t)) \in Nat
           /\ Cardinality(Waiting(t)) <= Cardinality(Queued(t))
           /\ IsFiniteSet(Asking(t)) /\ Cardinality(Asking(t)) \in Nat
           /\ Cardinality(Asking(t)) <= Cardinality(Replica)
           /\ Cardinality(Replica) \in Nat /\ Cardinality(Replica) > 0
<1>1. IsFiniteSet(Replica) /\ Cardinality(Replica) \in Nat
  BY ServerConstants, FS_CardinalityType
<1>2. Cardinality(Replica) > 0
  BY <1>1, ServerConstants, FS_EmptySet
<1>3. Asking(t) \in SUBSET Replica
  BY DEF Asking
<1>4. IsFiniteSet(Asking(t)) /\ Cardinality(Asking(t)) <= Cardinality(Replica)
  BY <1>1, <1>3, FS_Subset
<1>5. Queued(t) \in SUBSET {r \in Run : Exists(r)}
  BY DEF Queued, Exists
<1>6. IsFiniteSet(Queued(t))
  BY <1>5, FS_Subset DEF RowsSound
<1>7. Waiting(t) \in SUBSET Queued(t)
  BY DEF Waiting
<1>8. IsFiniteSet(Waiting(t)) /\ Cardinality(Waiting(t)) <= Cardinality(Queued(t))
  BY <1>6, <1>7, FS_Subset
<1> QED
  BY <1>1, <1>2, <1>4, <1>6, <1>8, FS_CardinalityType

\* A step that adds neither a waiting run nor a request keeps the bound.
LEMMA CountsShrink ==
    ASSUME RowsSound, QueueBounded,
           NEW W, NEW A, NEW t \in Tenant, W \in SUBSET Waiting(t), A \in SUBSET Asking(t)
    PROVE  Cardinality(W) + Cardinality(A) <= MaxQueued + Cardinality(Replica) - 1
<1>1. /\ IsFiniteSet(W) /\ Cardinality(W) <= Cardinality(Waiting(t))
      /\ IsFiniteSet(A) /\ Cardinality(A) <= Cardinality(Asking(t))
  BY FiniteCounts, FS_Subset
<1>2. Cardinality(W) \in Nat /\ Cardinality(A) \in Nat
  BY <1>1, FS_CardinalityType
<1> QED
  BY <1>1, <1>2, FiniteCounts, ServerConstants DEF QueueBounded

-----------------------------------------------------------------------------
(* The steps that leave the run table alone *)

\* Sessions are created once and aliases are never redirected.
Grows ==
    /\ \A s \in Session : sessions[s] # Nobody => sessions'[s] = sessions[s]
    /\ \A t \in Tenant, a \in Alias : aliases[t][a] # 0 => aliases'[t][a] = aliases[t][a]

LEMMA GrowingRefs ==
    ASSUME TablesTyped, RowsSound, RefsSound, Grows, runs' = runs, feedback' = feedback
    PROVE  RefsSound'
<1>1. ASSUME NEW r \in Run, Exists(r) PROVE sessions'[runs[r].session] = runs[r].tenant
  <2>1. runs[r].session \in Session /\ runs[r].tenant # Nobody
        /\ sessions[runs[r].session] = runs[r].tenant
    BY <1>1, ServerConstants DEF RowsSound, RefsSound
  <2> QED
    BY <2>1 DEF Grows
<1>2. ASSUME NEW r \in Run, runs[r].alias # Nobody
      PROVE  runs[r].revision > 0 /\ runs[r].revision = aliases'[runs[r].tenant][runs[r].alias]
  <2>1. Exists(r)
    BY <1>2 DEF RowsSound, NoRun
  <2>2. runs[r].tenant \in Tenant /\ runs[r].alias \in Alias /\ runs[r].revision \in Nat
    BY <1>2, <2>1, RowFields DEF RowsSound
  <2>3. runs[r].revision > 0 /\ runs[r].revision = aliases[runs[r].tenant][runs[r].alias]
    BY <1>2 DEF RefsSound
  <2> QED
    BY <2>2, <2>3 DEF Grows
<1> QED
  BY <1>1, <1>2 DEF RefsSound, Exists

LEMMA GrowingChecks ==
    ASSUME TablesTyped, ChecksHold, Grows, creating' = creating
    PROVE  ChecksHold'
<1> SUFFICES ASSUME NEW p \in Replica, ~Idle(p)
             PROVE  /\ sessions'[creating[p].call.session] = creating[p].call.tenant
                    /\ creating[p].call.alias # Nobody =>
                         aliases'[creating[p].call.tenant][creating[p].call.alias]
                           = creating[p].revision
  BY DEF ChecksHold, Idle
<1>1. creating[p].call \in Call /\ creating[p].revision \in Nat /\ creating[p].revision > 0
  BY RequestFields
<1>2. PICK c \in Call : c = creating[p].call
  BY <1>1
<1>3. c.tenant \in Tenant /\ c.session \in Session /\ c.alias \in Alias \cup {Nobody}
      /\ c.tenant # Nobody
  BY <1>2, CallFields, ServerConstants
<1>4. sessions[c.session] = c.tenant
      /\ (c.alias # Nobody => aliases[c.tenant][c.alias] = creating[p].revision)
  BY <1>2 DEF ChecksHold
<1>5. sessions'[c.session] = c.tenant
  BY <1>3, <1>4 DEF Grows
<1>6. c.alias # Nobody => aliases'[c.tenant][c.alias] = creating[p].revision
  BY <1>1, <1>3, <1>4 DEF Grows
<1> QED
  BY <1>2, <1>5, <1>6

\* Nothing but the sessions, aliases or feedback changes.
LEMMA SameRows ==
    ASSUME RowsSound, KeysSound, QueueBounded, runs' = runs, creating' = creating,
           answered' = answered
    PROVE  RowsSound' /\ KeysSound' /\ QueueBounded'
  BY DEF RowsSound, KeysSound, QueueBounded, Exists, Waiting, Asking, Queued, Idle

LEMMA CreateSessionInv ==
    ASSUME CreateInv, NEW p \in Replica, CreateSession(p)
    PROVE  CreateInv'
<1> USE DEF CreateInv
<1>1. PICK s \in Session : sessions[s] = Nobody /\ sessions' = [sessions EXCEPT ![s] = OwnerOf[s]]
  BY DEF CreateSession, NewSession
<1>2. UNCHANGED <<runs, aliases, feedback, serving, creating, answered>>
  BY DEF CreateSession
<1>3. OwnerOf[s] \in Tenant
  BY ServerConstants
<1>4. Grows
  BY <1>1, <1>2 DEF TablesTyped, Grows
<1>5. TablesTyped'
  BY <1>1, <1>2, <1>3 DEF TablesTyped
<1> QED
  BY <1>2, <1>4, <1>5, GrowingRefs, GrowingChecks, SameRows

LEMMA CreateAssistantInv ==
    ASSUME CreateInv, NEW p \in Replica, CreateAssistant(p)
    PROVE  CreateInv'
<1> USE DEF CreateInv
<1>1. PICK c \in Call : c.alias # Nobody /\ NewAssistant(c.tenant, c.alias, serving[p])
  BY DEF CreateAssistant
<1>2. UNCHANGED <<runs, sessions, feedback, serving, creating, answered>>
  BY DEF CreateAssistant
<1>3. c.tenant \in Tenant /\ c.alias \in Alias /\ serving[p] \in Nat
  BY <1>1, CallFields DEF TablesTyped
<1>4. PICK t \in Tenant, a \in Alias, n \in Nat :
          aliases[t][a] \in {0, n} /\ aliases' = [aliases EXCEPT ![t][a] = n]
  BY <1>1, <1>3 DEF NewAssistant
<1>5. TablesTyped'
  BY <1>2, <1>4 DEF TablesTyped
<1>6. ASSUME NEW u \in Tenant, NEW b \in Alias, aliases[u][b] # 0
      PROVE  aliases'[u][b] = aliases[u][b]
  <2>1. CASE u = t /\ b = a
    BY <1>4, <1>6, <2>1 DEF TablesTyped
  <2>2. CASE ~(u = t /\ b = a)
    BY <1>4, <2>2 DEF TablesTyped
  <2> QED
    BY <2>1, <2>2
<1>7. Grows
  BY <1>2, <1>6 DEF Grows
<1> QED
  BY <1>2, <1>5, <1>7, GrowingRefs, GrowingChecks, SameRows

LEMMA CreateFeedbackInv ==
    ASSUME CreateInv, NEW p \in Replica, CreateFeedback(p)
    PROVE  CreateInv'
<1> USE DEF CreateInv
<1>1. PICK t \in Tenant, r \in Run :
          Exists(r) /\ runs[r].tenant = t /\ feedback' = feedback \cup {<<t, r>>}
  BY DEF CreateFeedback, Visible, NewFeedback
<1>2. UNCHANGED <<runs, sessions, aliases, serving, creating, answered>>
  BY DEF CreateFeedback
<1>3. TablesTyped'
  BY <1>1, <1>2 DEF TablesTyped
<1>4. RefsSound'
  BY <1>1, <1>2 DEF RefsSound, Exists
<1>5. ChecksHold'
  BY <1>2 DEF ChecksHold, Idle
<1> QED
  BY <1>2, <1>3, <1>4, <1>5, SameRows

LEMMA QuietInv ==
    ASSUME CreateInv, UNCHANGED tables
    PROVE  CreateInv'
<1> USE DEF CreateInv
<1>1. UNCHANGED <<runs, sessions, aliases, feedback, serving, creating, answered>>
  BY DEF tables, resources
<1>2. TablesTyped' /\ ChecksHold' /\ RefsSound'
  BY <1>1 DEF TablesTyped, ChecksHold, RefsSound, Idle, Exists
<1> QED
  BY <1>1, <1>2, SameRows

-----------------------------------------------------------------------------
(* The steps of create_run *)

LEMMA CheckCreateInv ==
    ASSUME CreateInv, NEW p \in Replica, NEW c \in Call, CheckCreate(p, c)
    PROVE  CreateInv'
<1> USE DEF CreateInv
<1>1. creating' = [creating EXCEPT ![p] = [call |-> c, revision |-> serving[p]]]
  BY DEF CheckCreate
<1>2. UNCHANGED <<runs, sessions, aliases, feedback, serving, answered>>
  BY DEF CheckCreate, resources
<1>3. serving[p] \in Nat /\ serving[p] > 0
  BY DEF TablesTyped
<1>4. TablesTyped'
  BY <1>1, <1>2, <1>3 DEF TablesTyped
<1>5. ChecksHold'
  <2> SUFFICES ASSUME NEW q \in Replica, ~Idle(q)'
               PROVE  LET d == creating'[q].call IN
                      /\ d \in Call /\ creating'[q].revision > 0
                      /\ sessions[d.session] = d.tenant
                      /\ d.alias # Nobody => aliases[d.tenant][d.alias] = creating'[q].revision
    BY <1>2 DEF ChecksHold
  <2>1. CASE q = p
    <3>1. creating'[q].call = c /\ creating'[q].revision = serving[p]
      BY <1>1, <2>1 DEF TablesTyped
    <3> QED
      BY <1>3, <3>1 DEF CheckCreate, Deployed, OwnedBy
  <2>2. CASE q # p
    <3>1. creating'[q] = creating[q]
      BY <1>1, <2>2 DEF TablesTyped
    <3> QED
      BY <3>1 DEF ChecksHold, Idle
  <2> QED
    BY <2>1, <2>2
<1>6. RowsSound' /\ RefsSound' /\ KeysSound'
  BY <1>2 DEF RowsSound, RefsSound, KeysSound, Exists
<1>7. QueueBounded'
  <2> SUFFICES ASSUME NEW t \in Tenant
               PROVE  Cardinality(Waiting(t)') + Cardinality(Asking(t)')
                        <= MaxQueued + Cardinality(Replica) - 1
    BY DEF QueueBounded
  <2>1. Waiting(t)' = Waiting(t)
    BY <1>2 DEF Waiting, Queued
  <2>2. CASE t = c.tenant
    <3>1. Cardinality(Queued(t)) < MaxQueued
      BY <2>2, FiniteCounts, ServerConstants DEF CheckCreate, BelowLimit
    <3>2. Cardinality(Asking(t)') \in Nat /\ Cardinality(Asking(t)') <= Cardinality(Replica)
      <4>1. Asking(t)' \in SUBSET Replica
        BY DEF Asking
      <4>2. IsFiniteSet(Asking(t)') /\ Cardinality(Asking(t)') <= Cardinality(Replica)
        BY <4>1, ServerConstants, FS_Subset
      <4> QED
        BY <4>2, FS_CardinalityType
    <3> QED
      BY <2>1, <3>1, <3>2, FiniteCounts, ServerConstants
  <2>3. CASE t # c.tenant
    <3>1. Asking(t)' \in SUBSET Asking(t)
      BY <1>1, <2>3 DEF Asking, Idle, TablesTyped
    <3> QED
      BY <2>1, <3>1, CountsShrink
  <2> QED
    BY <2>2, <2>3
<1> QED
  BY <1>4, <1>5, <1>6, <1>7

\* What a replica that is done with its request, or replaced, leaves behind.
LEMMA Finished ==
    ASSUME CreateInv, NEW p \in Replica, creating' = [creating EXCEPT ![p] = NoRequest]
    PROVE  /\ creating' \in [Replica -> [call : Call \cup {Nobody}, revision : Nat]]
           /\ \A q \in Replica : Idle(q)' \/ (creating'[q] = creating[q] /\ ~Idle(q) /\ q # p)
           /\ \A t \in Tenant : Asking(t)' = Asking(t) \ {p}
           /\ UNCHANGED <<sessions, aliases>> => ChecksHold'
<1> USE DEF CreateInv
<1>1. creating' \in [Replica -> [call : Call \cup {Nobody}, revision : Nat]]
  BY DEF TablesTyped, NoRequest
<1>2. \A q \in Replica : Idle(q)' \/ (creating'[q] = creating[q] /\ ~Idle(q) /\ q # p)
  BY DEF Idle, TablesTyped
<1>3. \A t \in Tenant : Asking(t)' = Asking(t) \ {p}
  BY DEF Asking, Idle, TablesTyped
<1>4. UNCHANGED <<sessions, aliases>> => ChecksHold'
  BY <1>2 DEF ChecksHold
<1> QED
  BY <1>1, <1>2, <1>3, <1>4

LEMMA FindsInv ==
    ASSUME CreateInv, NEW p \in Replica, NEW r \in Run, Finds(p, r)
    PROVE  CreateInv'
<1> USE DEF CreateInv
<1>1. UNCHANGED <<runs, sessions, aliases, feedback, serving>>
  BY DEF Finds, resources
<1>2. creating' = [creating EXCEPT ![p] = NoRequest] /\ ~Idle(p)
  BY DEF Finds
<1>3. creating[p].call \in Call
  BY <1>2, RequestFields
<1>4. /\ Exists(r) /\ creating[p].call.key # NoKey
      /\ runs[r].tenant = creating[p].call.tenant /\ runs[r].key = creating[p].call.key
  BY DEF Finds, Keyed
<1>5. answered' \in [Call -> SUBSET Run]
  BY <1>3 DEF Finds, TablesTyped
<1>6. TablesTyped'
  BY <1>1, <1>2, <1>5, Finished DEF TablesTyped
<1>7. RowsSound' /\ RefsSound'
  BY <1>1 DEF RowsSound, RefsSound, Exists
<1>8. KeysSound'
  <2>1. ASSUME NEW c \in Call, NEW q \in answered'[c], q \notin answered[c]
        PROVE  q = r /\ c = creating[p].call
    BY <1>3, <2>1 DEF Finds, TablesTyped
  <2>2. \A c \in Call : \A q \in answered'[c] :
            Exists(q) /\ runs[q].tenant = c.tenant /\ runs[q].key = c.key
    BY <1>4, <2>1 DEF KeysSound
  <2> QED
    BY <1>1, <2>2 DEF KeysSound, Exists
<1>9. QueueBounded'
  <2> SUFFICES ASSUME NEW t \in Tenant
               PROVE  Cardinality(Waiting(t)') + Cardinality(Asking(t)')
                        <= MaxQueued + Cardinality(Replica) - 1
    BY DEF QueueBounded
  <2>1. Waiting(t)' = Waiting(t) /\ Asking(t)' \in SUBSET Asking(t)
    BY <1>1, <1>2, Finished DEF Waiting, Queued
  <2> QED
    BY <2>1, CountsShrink
<1> QED
  BY <1>1, <1>2, <1>6, <1>7, <1>8, <1>9, Finished

LEMMA ForgetsInv ==
    ASSUME CreateInv, NEW p \in Replica, Forgets(p)
    PROVE  CreateInv'
<1> USE DEF CreateInv
<1>1. UNCHANGED <<runs, sessions, aliases, feedback, answered>>
  BY DEF Forgets
<1>2. creating' = [creating EXCEPT ![p] = NoRequest]
  BY DEF Forgets
<1>3. serving' \in [Replica -> Nat \ {0}]
  BY DEF Forgets, TablesTyped
<1>4. TablesTyped'
  BY <1>1, <1>2, <1>3, Finished DEF TablesTyped
<1>5. RowsSound' /\ RefsSound' /\ KeysSound'
  BY <1>1 DEF RowsSound, RefsSound, KeysSound, Exists
<1>6. QueueBounded'
  <2> SUFFICES ASSUME NEW t \in Tenant
               PROVE  Cardinality(Waiting(t)') + Cardinality(Asking(t)')
                        <= MaxQueued + Cardinality(Replica) - 1
    BY DEF QueueBounded
  <2>1. Waiting(t)' = Waiting(t) /\ Asking(t)' \in SUBSET Asking(t)
    BY <1>1, <1>2, Finished DEF Waiting, Queued
  <2> QED
    BY <2>1, CountsShrink
<1> QED
  BY <1>1, <1>2, <1>4, <1>5, <1>6, Finished

LEMMA InsertsInv ==
    ASSUME CreateInv, NEW p \in Replica, NEW r \in Run, Inserts(p, r)
    PROVE  CreateInv'
<1> USE DEF CreateInv
<1> DEFINE row == NewRow(p)
<1>1. UNCHANGED <<sessions, aliases, feedback, serving>>
  BY DEF Inserts, resources
<1>2. creating' = [creating EXCEPT ![p] = NoRequest] /\ ~Idle(p) /\ ~Exists(r)
  BY DEF Inserts
<1>3. PICK c \in Call : c = creating[p].call
  BY <1>2, RequestFields
<1>4. /\ row \in RunRow /\ row.status = "QUEUED" /\ row.attempt = 0 /\ row.tenant = c.tenant
      /\ row.session = c.session /\ row.revision = creating[p].revision /\ row.key = c.key
      /\ row.alias = c.alias
  BY <1>2, <1>3, RequestFields DEF NewRow
<1>5. c.tenant \in Tenant /\ c.session \in Session /\ creating[p].revision > 0
      /\ sessions[c.session] = c.tenant
      /\ (c.alias # Nobody => aliases[c.tenant][c.alias] = creating[p].revision)
  BY <1>2, <1>3, CallFields DEF ChecksHold
<1>6. runs' = [runs EXCEPT ![r] = row]
  BY DEF Inserts
<1> HIDE DEF row
<1>7. runs' \in [Run -> RunRow] /\ runs'[r] = row /\ \A q \in Run : q # r => runs'[q] = runs[q]
  BY <1>4, <1>6 DEF TablesTyped
<1>8. answered' = [answered EXCEPT ![c] = @ \cup {r}]
  BY <1>3 DEF Inserts
<1>9. TablesTyped'
  BY <1>1, <1>2, <1>7, <1>8, Finished DEF TablesTyped
<1>10. Exists(r)' /\ \A q \in Run : q # r => (Exists(q)' <=> Exists(q))
  BY <1>4, <1>7 DEF Exists
<1>11. RowsSound'
  <2>1. {q \in Run : Exists(q)}' = {q \in Run : Exists(q)} \cup {r}
    BY <1>10
  <2>2. IsFiniteSet({q \in Run : Exists(q)}')
    BY <2>1, FS_AddElement DEF RowsSound
  <2>3. \A q \in Run : ~Exists(q)' => runs'[q] = NoRun
    BY <1>7, <1>10 DEF RowsSound
  <2>4. \A q \in Run : Exists(q)' => runs'[q].tenant \in Tenant /\ runs'[q].session \in Session
    BY <1>4, <1>5, <1>7, <1>10 DEF RowsSound
  <2>5. \A q \in Run : runs'[q].status \in Active \ {"QUEUED"} => runs'[q].attempt > 0
    BY <1>4, <1>7 DEF RowsSound
  <2> QED
    BY <2>2, <2>3, <2>4, <2>5 DEF RowsSound
<1>12. RefsSound'
  <2>1. \A q \in Run : Exists(q)' => sessions'[runs'[q].session] = runs'[q].tenant
    BY <1>1, <1>4, <1>5, <1>7, <1>10 DEF RefsSound
  <2>2. \A f \in feedback' : Exists(f[2])' /\ runs'[f[2]].tenant = f[1]
    <3> SUFFICES ASSUME NEW f \in feedback PROVE Exists(f[2])' /\ runs'[f[2]].tenant = f[1]
      BY <1>1
    <3>1. f[2] \in Run /\ Exists(f[2]) /\ runs[f[2]].tenant = f[1]
      BY DEF TablesTyped, RefsSound
    <3> QED
      BY <1>2, <1>7, <1>10, <3>1
  <2>3. \A q \in Run : runs'[q].alias # Nobody =>
            runs'[q].revision > 0 /\ runs'[q].revision = aliases'[runs'[q].tenant][runs'[q].alias]
    BY <1>1, <1>4, <1>5, <1>7 DEF RefsSound
  <2> QED
    BY <2>1, <2>2, <2>3 DEF RefsSound
<1>13. KeysSound'
  <2>1. \A q \in Run : Exists(q) /\ c.key # NoKey => ~(runs[q].tenant = c.tenant /\ runs[q].key = c.key)
    BY <1>3 DEF Inserts, Keyed
  <2>2. ASSUME NEW x \in Run, NEW y \in Run, Exists(x)', Exists(y)', runs'[x].key # NoKey,
               runs'[x].tenant = runs'[y].tenant, runs'[x].key = runs'[y].key
        PROVE  x = y
    <3>1. CASE x = r /\ y # r
      BY <1>4, <1>7, <1>10, <2>1, <2>2, <3>1
    <3>2. CASE x # r /\ y = r
      BY <1>4, <1>7, <1>10, <2>1, <2>2, <3>2
    <3>3. CASE x # r /\ y # r
      BY <1>7, <1>10, <2>2, <3>3 DEF KeysSound
    <3> QED
      BY <3>1, <3>2, <3>3
  <2>3. ASSUME NEW d \in Call, NEW q \in answered'[d]
        PROVE  Exists(q)' /\ runs'[q].tenant = d.tenant /\ runs'[q].key = d.key
    <3>1. CASE q \in answered[d]
      <4>1. q \in Run /\ Exists(q) /\ runs[q].tenant = d.tenant /\ runs[q].key = d.key
        BY <3>1 DEF KeysSound, TablesTyped
      <4> QED
        BY <1>2, <1>7, <1>10, <4>1
    <3>2. CASE q \notin answered[d]
      <4>1. d = c /\ q = r
        BY <1>8, <2>3, <3>2 DEF TablesTyped
      <4> QED
        BY <1>4, <1>7, <1>10, <4>1
    <3> QED
      BY <3>1, <3>2
  <2> QED
    BY <2>2, <2>3 DEF KeysSound
<1>14. QueueBounded'
  <2> SUFFICES ASSUME NEW t \in Tenant
               PROVE  Cardinality(Waiting(t)') + Cardinality(Asking(t)')
                        <= MaxQueued + Cardinality(Replica) - 1
    BY DEF QueueBounded
  <2>1. Asking(t)' = Asking(t) \ {p}
    BY <1>2, Finished
  <2>2. CASE t = c.tenant
    <3>1. Waiting(t)' = Waiting(t) \cup {r}
      BY <1>2, <1>4, <1>7, <2>2 DEF Waiting, Queued, Exists
    <3>2. r \notin Waiting(t)
      BY <1>2 DEF Waiting, Queued, Exists
    <3>3. Cardinality(Waiting(t)') = Cardinality(Waiting(t)) + 1
      BY <3>1, <3>2, FiniteCounts, FS_AddElement
    <3>4. p \in Asking(t)
      BY <1>2, <1>3, <2>2 DEF Asking
    <3>5. Cardinality(Asking(t)') = Cardinality(Asking(t)) - 1
      BY <2>1, <3>4, FiniteCounts, FS_RemoveElement
    <3> QED
      BY <3>3, <3>5, FiniteCounts, ServerConstants DEF QueueBounded
  <2>3. CASE t # c.tenant
    <3>1. Waiting(t)' \in SUBSET Waiting(t) /\ Asking(t)' \in SUBSET Asking(t)
      BY <1>4, <1>7, <2>1, <2>3 DEF Waiting, Queued
    <3> QED
      BY <3>1, CountsShrink
  <2> QED
    BY <2>2, <2>3
<1> QED
  BY <1>1, <1>2, <1>9, <1>11, <1>12, <1>13, <1>14, Finished

LEMMA MovedInv ==
    ASSUME CreateInv, NEW r \in Run, Moved(r)
    PROVE  CreateInv'
<1> USE DEF CreateInv
<1>1. UNCHANGED <<sessions, aliases, feedback, serving, creating, answered>>
  BY DEF Moved, resources
<1>2. PICK t \in Active \cup Terminal, n \in Nat :
          /\ runs' = [runs EXCEPT ![r] = [@ EXCEPT !.status = t, !.attempt = n]]
          /\ n >= runs[r].attempt
          /\ t = "RUNNING" => n > 0
          /\ t \in Active \ {"RUNNING"} => n = runs[r].attempt /\ runs[r].status \in Active \ {"QUEUED"}
  BY DEF Moved
<1> DEFINE row == [runs[r] EXCEPT !.status = t, !.attempt = n]
<1>3. runs' = [runs EXCEPT ![r] = row]
  BY <1>2
<1>4. runs[r] \in RunRow /\ runs[r].attempt \in Nat
  BY RowFields
<1>5. /\ row \in RunRow /\ row.status = t /\ row.attempt = n /\ row.tenant = runs[r].tenant
      /\ row.session = runs[r].session /\ row.revision = runs[r].revision
      /\ row.key = runs[r].key /\ row.alias = runs[r].alias
  BY <1>2, <1>4 DEF RunRow
<1> HIDE DEF row
<1>6. runs' \in [Run -> RunRow] /\ runs'[r] = row /\ \A q \in Run : q # r => runs'[q] = runs[q]
  BY <1>3, <1>5 DEF TablesTyped
<1>7. t # "ABSENT" /\ Exists(r)
  BY <1>2 DEF Active, Terminal, Moved
<1>8. \A q \in Run : Exists(q)' <=> Exists(q)
  BY <1>5, <1>6, <1>7 DEF Exists
<1>9. \A q \in Run : /\ runs'[q].tenant = runs[q].tenant /\ runs'[q].session = runs[q].session
                     /\ runs'[q].revision = runs[q].revision /\ runs'[q].key = runs[q].key
                     /\ runs'[q].alias = runs[q].alias
  BY <1>5, <1>6
<1>10. t \in Active \ {"QUEUED"} => n > 0
  BY <1>2, <1>4 DEF RowsSound
<1>11. RowsSound'
  <2>1. {q \in Run : Exists(q)}' = {q \in Run : Exists(q)}
    BY <1>8
  <2>2. \A q \in Run : ~Exists(q)' => runs'[q] = NoRun
    BY <1>6, <1>7, <1>8 DEF RowsSound
  <2>3. \A q \in Run : Exists(q)' => runs'[q].tenant \in Tenant /\ runs'[q].session \in Session
    BY <1>8, <1>9 DEF RowsSound
  <2>4. \A q \in Run : runs'[q].status \in Active \ {"QUEUED"} => runs'[q].attempt > 0
    BY <1>5, <1>6, <1>10 DEF RowsSound
  <2> QED
    BY <2>1, <2>2, <2>3, <2>4 DEF RowsSound
<1>12. RefsSound'
  <2>1. \A f \in feedback : f[2] \in Run
    BY DEF TablesTyped
  <2> QED
    BY <1>1, <1>8, <1>9, <2>1 DEF RefsSound
<1>13. KeysSound'
  <2>1. \A c \in Call : answered[c] \subseteq Run
    BY DEF TablesTyped
  <2>2. \A c \in Call : \A q \in answered'[c] :
            Exists(q)' /\ runs'[q].tenant = c.tenant /\ runs'[q].key = c.key
    BY <1>1, <1>8, <1>9, <2>1 DEF KeysSound
  <2>3. \A x, y \in Run :
          /\ Exists(x)' /\ Exists(y)' /\ runs'[x].key # NoKey
          /\ runs'[x].tenant = runs'[y].tenant /\ runs'[x].key = runs'[y].key
          => x = y
    BY <1>8, <1>9 DEF KeysSound
  <2> QED
    BY <2>2, <2>3 DEF KeysSound
<1>14. ChecksHold'
  BY <1>1 DEF ChecksHold, Idle
<1>15. QueueBounded'
  <2> SUFFICES ASSUME NEW u \in Tenant
               PROVE  Cardinality(Waiting(u)') + Cardinality(Asking(u)')
                        <= MaxQueued + Cardinality(Replica) - 1
    BY DEF QueueBounded
  <2>1. Asking(u)' \in SUBSET Asking(u)
    BY <1>1 DEF Asking, Idle
  <2>2. ~(t = "QUEUED" /\ n = 0)
    BY <1>2, <1>4 DEF RowsSound, Active
  <2>3. r \notin Waiting(u)'
    BY <1>5, <1>6, <2>2 DEF Waiting, Queued
  <2>4. Waiting(u)' \in SUBSET Waiting(u)
    BY <1>6, <2>3 DEF Waiting, Queued
  <2> QED
    BY <2>1, <2>4, CountsShrink
<1>16. TablesTyped'
  BY <1>1, <1>6 DEF TablesTyped
<1> QED
  BY <1>11, <1>12, <1>13, <1>14, <1>15, <1>16

-----------------------------------------------------------------------------
(* The invariant of create_run, and what follows from it *)

LEMMA CreateInvInitially == ServerInit => CreateInv
<1> SUFFICES ASSUME ServerInit PROVE CreateInv
  OBVIOUS
<1> USE DEF ServerInit
<1>1. NoRun \in RunRow
  BY DEF NoRun, RunRow
<1>2. TablesTyped
  BY <1>1 DEF TablesTyped, NoRequest
<1>3. \A r \in Run : runs[r] = NoRun /\ ~Exists(r)
  BY DEF Exists, NoRun
<1>4. {r \in Run : Exists(r)} = {}
  BY <1>3
<1>5. RowsSound
  BY <1>3, <1>4, FS_EmptySet DEF RowsSound, NoRun, Active
<1>6. \A p \in Replica : Idle(p)
  BY DEF Idle
<1>7. ChecksHold
  BY <1>6 DEF ChecksHold
<1>8. RefsSound /\ KeysSound
  BY <1>3 DEF RefsSound, KeysSound, NoRun
<1>9. QueueBounded
  <2> SUFFICES ASSUME NEW t \in Tenant
               PROVE  Cardinality(Waiting(t)) + Cardinality(Asking(t))
                        <= MaxQueued + Cardinality(Replica) - 1
    BY DEF QueueBounded
  <2>1. Waiting(t) = {}
    BY <1>3 DEF Waiting, Queued, NoRun
  <2>2. Asking(t) = {}
    BY <1>6 DEF Asking
  <2>3. Cardinality(Replica) \in Nat /\ Cardinality(Replica) > 0
    BY <1>5, FiniteCounts
  <2> QED
    BY <2>1, <2>2, <2>3, FS_EmptySet, ServerConstants
<1> QED
  BY <1>2, <1>5, <1>7, <1>8, <1>9 DEF CreateInv

LEMMA CreateInvStep ==
    ASSUME CreateInv, [ServerNext]_serverVars
    PROVE  CreateInv'
<1>1. ASSUME NEW p \in Replica, Requests(p) PROVE CreateInv'
  <2>1. CASE CreateSession(p)
    BY <2>1, CreateSessionInv
  <2>2. ASSUME NEW c \in Call, CheckCreate(p, c) PROVE CreateInv'
    BY <2>2, CheckCreateInv
  <2>3. CASE Submit(p)
    BY <2>3, SubmitCases, InsertsInv, FindsInv, ForgetsInv
  <2>4. CASE CreateAssistant(p)
    BY <2>4, CreateAssistantInv
  <2>5. CASE CreateFeedback(p)
    BY <2>5, CreateFeedbackInv
  <2>6. CASE Redeploy(p)
    <3>1. Forgets(p)
      BY <2>6 DEF Redeploy, Forgets
    <3> QED
      BY <3>1, ForgetsInv
  <2> QED
    BY <1>1, <2>1, <2>2, <2>3, <2>4, <2>5, <2>6 DEF Requests, Creating
<1>2. ASSUME NEW r \in Run, Advance(r) PROVE CreateInv'
  BY <1>2, AdvanceMoves, MovedInv DEF CreateInv
<1>3. CASE Quiet
  BY <1>3, QuietTables, QuietInv
<1> QED
  BY <1>1, <1>2, <1>3 DEF ServerNext, Quiet

\* The checks of create_run outlive the transactions between them and its
\* insert, whatever other replicas, workers and deployments do meanwhile.
THEOREM CreateIsSound == ServerSpec => []CreateInv
<1>1. CreateInv /\ [ServerNext]_serverVars => CreateInv'
  BY CreateInvStep
<1> QED
  BY CreateInvInitially, <1>1, PTL DEF ServerSpec

\* Rows, feedback and aliases of different tenants and revisions never mix,
\* for any number of replicas that serve any revisions.
THEOREM TenantsStayApart == ServerSpec => []RunsBelongTogether
<1>1. CreateInv => RunsBelongTogether
  BY DEF CreateInv, RefsSound, RunsBelongTogether
<1> QED
  BY CreateIsSound, <1>1, PTL

\* Repeating a keyed POST /v1/runs never starts a second run.
THEOREM RetriesAreIdempotent == ServerSpec => []RetriesNameOneRun
<1>1. ASSUME CreateInv PROVE RetriesNameOneRun
  <2> SUFFICES ASSUME NEW c \in Call, c.key # NoKey PROVE Cardinality(answered[c]) <= 1
    BY DEF RetriesNameOneRun
  <2>1. \A r, q \in answered[c] : r = q
    <3>1. answered[c] \subseteq Run
      BY <1>1 DEF CreateInv, TablesTyped
    <3>2. \A r \in answered[c] : Exists(r) /\ runs[r].tenant = c.tenant /\ runs[r].key = c.key
      BY <1>1 DEF CreateInv, KeysSound
    <3>3. \A r, q \in Run :
            /\ Exists(r) /\ Exists(q) /\ runs[r].key # NoKey
            /\ runs[r].tenant = runs[q].tenant /\ runs[r].key = runs[q].key
            => r = q
      BY <1>1 DEF CreateInv, KeysSound
    <3> SUFFICES ASSUME NEW r \in answered[c], NEW q \in answered[c] PROVE r = q
      OBVIOUS
    <3>4. r \in Run /\ Exists(r) /\ runs[r].tenant = c.tenant /\ runs[r].key = c.key
      BY <3>1, <3>2
    <3>5. q \in Run /\ Exists(q) /\ runs[q].tenant = c.tenant /\ runs[q].key = c.key
      BY <3>1, <3>2
    <3> QED
      BY <3>3, <3>4, <3>5
  <2>2. CASE answered[c] = {}
    BY <2>2, FS_EmptySet
  <2>3. CASE answered[c] # {}
    <3>1. PICK r : r \in answered[c]
      BY <2>3
    <3>2. answered[c] = {r}
      BY <2>1, <3>1
    <3>3. Cardinality({r}) = 1
      BY FS_Singleton, Zenon
    <3> QED
      BY <3>2, <3>3
  <2> QED
    BY <2>2, <2>3
<1>2. CreateInv => RetriesNameOneRun
  BY <1>1
<1> QED
  BY CreateIsSound, <1>2, PTL

\* However many replicas there are and however their checks and inserts
\* interleave, a tenant exceeds its queue limit by at most one run a replica.
THEOREM OvershootIsBounded == ServerSpec => []QueueOvershootBounded
<1>1. ASSUME CreateInv PROVE QueueOvershootBounded
  <2> SUFFICES ASSUME NEW t \in Tenant
               PROVE  Cardinality(Waiting(t)) <= MaxQueued + Cardinality(Replica) - 1
    BY DEF QueueOvershootBounded, Waiting
  <2>1. /\ Cardinality(Waiting(t)) \in Nat /\ Cardinality(Asking(t)) \in Nat
        /\ Cardinality(Replica) \in Nat
    BY <1>1, FiniteCounts DEF CreateInv
  <2> QED
    BY <1>1, <2>1, ServerConstants DEF CreateInv, QueueBounded
<1>2. CreateInv => QueueOvershootBounded
  BY <1>1
<1> QED
  BY CreateIsSound, <1>2, PTL

-----------------------------------------------------------------------------
(* The event stream *)

\* An event that the client wants once it has been logged.
Asked(j) == j > 0 /\ (client.after = Absent \/ j > client.after)

\* The last event that the connection has put into the client's hands or passed over.
Passed == stream.cursor - Len(stream.wire)

StreamTyped ==
    /\ log \in Nat
    /\ stream \in [pc : {"closed", "list", "status", "ended"}, cursor : Nat, wire : Seq(Nat),
                   emitted : BOOLEAN]
    /\ client \in [after : Nat \cup {Absent}, follow : BOOLEAN, last : Nat, ids : SUBSET Nat]

\* On the wire are the events between Passed and the cursor, in order, and no
\* event was passed over that the client wanted and had not got.
StreamInv ==
    /\ StreamTyped
    /\ Len(stream.wire) <= stream.cursor
    /\ \A i \in 1..Len(stream.wire) : stream.wire[i] = Passed + i
    /\ stream.pc = "closed" => stream.wire = <<>>
    /\ stream.pc # "closed" => \A j \in Nat : Asked(j) /\ j <= Passed => j \in client.ids
    /\ \A i \in client.ids : \A j \in Nat : Asked(j) /\ j < i => j \in client.ids
    /\ client.ids # {} => client.last \in client.ids
    /\ client.ids = {} => client.last = 0

LEMMA EventsAfterPage ==
    ASSUME NEW n \in Nat, log \in Nat
    PROVE  /\ EventsAfter(n) \in Seq(Nat)
           /\ \A i \in 1..Len(EventsAfter(n)) : EventsAfter(n)[i] = n + i
<1>1. PICK k \in Int : k = Min({PageSize, log - n})
  <2>1. \E x \in {PageSize, log - n} : \A y \in {PageSize, log - n} : x <= y
    <3>1. PageSize \in Int /\ log - n \in Int
      BY ServerConstants
    <3>2. CASE PageSize <= log - n
      BY <3>1, <3>2
    <3>3. CASE ~(PageSize <= log - n)
      <4>1. log - n <= PageSize /\ log - n <= log - n
        BY <3>1, <3>3
      <4> QED
        BY <4>1
    <3> QED
      BY <3>2, <3>3
  <2>2. Min({PageSize, log - n}) \in {PageSize, log - n}
    BY <2>1 DEF Min
  <2> QED
    BY <2>2, ServerConstants
<1>2. EventsAfter(n) = [i \in 1..k |-> n + i]
  BY <1>1 DEF EventsAfter
<1>3. CASE k \in Nat
  <2>1. [i \in 1..k |-> n + i] \in Seq(Nat) /\ Len([i \in 1..k |-> n + i]) = k
    BY <1>3
  <2> QED
    BY <1>2, <2>1
<1>4. CASE k \notin Nat
  <2>1. 1..k = {}
    BY <1>4
  <2>2. [i \in 1..k |-> n + i] = <<>>
    BY <2>1
  <2>3. EventsAfter(n) = <<>> /\ Len(EventsAfter(n)) = 0
    BY <1>2, <2>2, EmptySeq
  <2>4. EventsAfter(n) \in Seq(Nat)
    BY <2>3, EmptySeq
  <2> QED
    BY <2>3, <2>4
<1> QED
  BY <1>3, <1>4

LEMMA StreamInvInitially == ServerInit => StreamInv
<1> SUFFICES ASSUME ServerInit PROVE StreamInv
  OBVIOUS
<1>1. stream = Closed /\ log = 0
  BY DEF ServerInit
<1>2. client \in [after : Nat \cup {Absent}, follow : BOOLEAN, last : Nat, ids : SUBSET Nat]
      /\ client.last = 0 /\ client.ids = {}
  <2>1. client \in [after : Afters, follow : BOOLEAN, last : {0}, ids : {{}}]
    BY DEF ServerInit
  <2>2. Afters \subseteq Nat \cup {Absent}
    BY ServerConstants
  <2>3. client.after \in Afters /\ client.follow \in BOOLEAN /\ client.last \in {0}
        /\ client.ids \in {{}}
    BY <2>1
  <2>4. client = [after |-> client.after, follow |-> client.follow, last |-> client.last,
                  ids |-> client.ids]
    BY <2>1
  <2>5. client.last = 0 /\ client.ids = {} /\ client.after \in Nat \cup {Absent}
    BY <2>2, <2>3
  <2>6. client.last \in Nat /\ client.ids \in SUBSET Nat
    BY <2>5
  <2> QED
    BY <2>3, <2>4, <2>5, <2>6
<1>3. stream.pc = "closed" /\ stream.cursor = 0 /\ stream.wire = <<>> /\ Len(stream.wire) = 0
  BY <1>1 DEF Closed
<1>4. StreamTyped
  BY <1>1, <1>2 DEF StreamTyped, Closed
<1> QED
  BY <1>2, <1>3, <1>4 DEF StreamInv

\* Another event of the run, or nothing the stream is about.
LEMMA LogGrows ==
    ASSUME StreamInv, log' \in Nat, UNCHANGED <<stream, client>>
    PROVE  StreamInv'
  BY DEF StreamInv, StreamTyped, Asked, Passed

\* A closed connection passes over nothing.
LEMMA Closes ==
    ASSUME StreamInv, stream' = Closed, UNCHANGED <<client, log>>
    PROVE  StreamInv'
<1>1. stream'.pc = "closed" /\ stream'.cursor = 0 /\ stream'.wire = <<>> /\ Len(stream'.wire) = 0
  BY DEF Closed
<1>2. StreamTyped'
  BY DEF StreamInv, StreamTyped, Closed
<1> QED
  BY <1>1, <1>2 DEF StreamInv, Asked

\* What the client has is all it wants up to its last event.
LEMMA LastIsSafe ==
    ASSUME StreamInv, NEW j \in Nat, Asked(j), j <= client.last
    PROVE  j \in client.ids
<1>1. client.last \in Nat /\ j > 0
  BY DEF StreamInv, StreamTyped, Asked
<1>2. client.ids # {}
  BY <1>1 DEF StreamInv
<1>3. client.last \in client.ids
  BY <1>2 DEF StreamInv
<1>4. CASE j = client.last
  BY <1>3, <1>4
<1>5. CASE j < client.last
  BY <1>3, <1>5 DEF StreamInv
<1> QED
  BY <1>1, <1>4, <1>5

LEMMA ConnectInv ==
    ASSUME StreamInv, Connect
    PROVE  StreamInv'
<1> DEFINE items == IF FirstPage <= log THEN EventsAfter(FirstPage) ELSE <<>>
<1>0. StreamTyped /\ log \in Nat /\ client.last \in Nat /\ client.after \in Nat \cup {Absent}
      /\ client.follow \in BOOLEAN
  BY DEF StreamInv, StreamTyped
<1>1. stream' = [pc |-> IF items = <<>> THEN "list" ELSE AfterItems,
                 cursor |-> IF items = <<>> THEN FirstCursor ELSE items[Len(items)],
                 wire |-> items, emitted |-> items # <<>>]
      /\ UNCHANGED <<client, log>>
  BY DEF Connect
<1>2. FirstPage \in Nat /\ FirstCursor \in Nat
  BY <1>0 DEF FirstPage, FirstCursor
<1>3. items \in Seq(Nat) /\ \A i \in 1..Len(items) : items[i] = FirstPage + i
  <2>1. CASE FirstPage <= log
    <3>1. items = EventsAfter(FirstPage)
      BY <2>1
    <3> HIDE DEF items
    <3> QED
      BY <1>0, <1>2, <3>1, EventsAfterPage
  <2>2. CASE ~(FirstPage <= log)
    <3>1. items = <<>>
      BY <2>2
    <3> HIDE DEF items
    <3> QED
      BY <3>1
  <2> QED
    BY <2>1, <2>2
<1> HIDE DEF items
<1>4. AfterItems \in {"status", "ended"}
  BY DEF AfterItems
<1>5. ASSUME NEW n \in Nat, NEW j \in Nat, n = FirstPage \/ n = FirstCursor, Asked(j), j <= n
      PROVE  j \in client.ids
  <2>1. n = client.last \/ n = client.after \/ n = 0
    BY <1>5 DEF FirstPage, FirstCursor
  <2>2. CASE n = client.last
    BY <1>5, <2>2, LastIsSafe
  <2>3. CASE n = client.after /\ n # client.last
    <3>1. client.after # Absent
      BY <2>3, ServerConstants
    <3> QED
      BY <1>5, <2>3, <3>1 DEF Asked
  <2>4. CASE n = 0
    BY <1>5, <2>4 DEF Asked
  <2> QED
    BY <2>1, <2>2, <2>3, <2>4
<1>6. CASE items = <<>>
  <2>1. stream'.pc = "list" /\ stream'.cursor = FirstCursor /\ stream'.wire = <<>>
        /\ Len(stream'.wire) = 0
    BY <1>1, <1>6
  <2>2. StreamTyped'
    BY <1>0, <1>1, <1>2, <1>6 DEF StreamTyped
  <2>3. Passed' = FirstCursor
    BY <1>2, <2>1 DEF Passed
  <2>4. \A j \in Nat : Asked(j)' /\ j <= Passed' => j \in client'.ids
    BY <1>1, <1>2, <1>5, <2>3 DEF Asked
  <2> QED
    BY <1>1, <1>2, <2>1, <2>2, <2>4 DEF StreamInv, Asked
<1>7. CASE items # <<>>
  <2>1. Len(items) \in Nat /\ Len(items) > 0
    BY <1>3, <1>7
  <2>2. stream'.pc = AfterItems /\ stream'.cursor = items[Len(items)] /\ stream'.wire = items
    BY <1>1, <1>7
  <2>3. items[Len(items)] = FirstPage + Len(items)
    BY <1>3, <2>1
  <2>4. Passed' = FirstPage /\ Len(stream'.wire) <= stream'.cursor
    BY <1>2, <2>1, <2>2, <2>3 DEF Passed
  <2>5. StreamTyped'
    <3>1. items[Len(items)] \in Nat
      BY <1>2, <2>1, <2>3
    <3> QED
      BY <1>0, <1>1, <1>3, <1>4, <1>7, <3>1 DEF StreamTyped
  <2>6. \A j \in Nat : Asked(j)' /\ j <= Passed' => j \in client'.ids
    BY <1>1, <1>2, <1>5, <2>4 DEF Asked
  <2>7. stream'.pc # "closed"
    BY <1>4, <2>2
  <2>8. \A i \in 1..Len(stream'.wire) : stream'.wire[i] = Passed' + i
    BY <1>3, <2>2, <2>4
  <2> QED
    BY <1>1, <2>4, <2>5, <2>6, <2>7, <2>8 DEF StreamInv, Asked
<1> QED
  BY <1>6, <1>7

LEMMA ListEventsInv ==
    ASSUME StreamInv, ListEvents
    PROVE  StreamInv'
<1> DEFINE items == EventsAfter(stream.cursor)
<1>0. /\ StreamTyped /\ log \in Nat /\ stream.cursor \in Nat /\ stream.wire \in Seq(Nat)
      /\ client.follow \in BOOLEAN /\ Len(stream.wire) \in Nat
  BY DEF StreamInv, StreamTyped
<1>1. stream.pc = "list" /\ UNCHANGED <<client, log>>
      /\ stream' = [stream EXCEPT !.pc = AfterItems, !.wire = @ \o items,
                                  !.emitted = items # <<>>, !.cursor = @ + Len(items)]
  BY DEF ListEvents
<1>2. items \in Seq(Nat) /\ \A i \in 1..Len(items) : items[i] = stream.cursor + i
  BY <1>0, EventsAfterPage
<1> HIDE DEF items
<1>3. AfterItems \in {"status", "ended"}
  BY DEF AfterItems
<1>4. Len(items) \in Nat
  BY <1>2
<1>5. stream'.pc = AfterItems /\ stream'.cursor = stream.cursor + Len(items)
      /\ stream'.wire = stream.wire \o items
  BY <1>0, <1>1 DEF StreamTyped
<1>6. /\ stream.wire \o items \in Seq(Nat)
      /\ Len(stream.wire \o items) = Len(stream.wire) + Len(items)
      /\ \A i \in 1..(Len(stream.wire) + Len(items)) : (stream.wire \o items)[i] =
             IF i <= Len(stream.wire) THEN stream.wire[i] ELSE items[i - Len(stream.wire)]
  BY <1>0, <1>2, ConcatProperties
<1>7. StreamTyped'
  <2>1. stream.cursor + Len(items) \in Nat /\ (items # <<>>) \in BOOLEAN
        /\ AfterItems \in {"closed", "list", "status", "ended"}
    BY <1>0, <1>3, <1>4
  <2>2. stream' \in [pc : {"closed", "list", "status", "ended"}, cursor : Nat, wire : Seq(Nat),
                     emitted : BOOLEAN]
    BY <1>0, <1>1, <1>6, <2>1 DEF StreamTyped
  <2> QED
    BY <1>0, <1>1, <2>2 DEF StreamTyped
<1>8. Passed' = Passed /\ Len(stream'.wire) <= stream'.cursor
  BY SMTT(30), <1>0, <1>4, <1>5, <1>6 DEF Passed, StreamInv
<1>9. \A i \in 1..Len(stream'.wire) : stream'.wire[i] = Passed' + i
  <2> SUFFICES ASSUME NEW i \in 1..(Len(stream.wire) + Len(items))
               PROVE  (stream.wire \o items)[i] = Passed + i
    BY <1>5, <1>6, <1>8
  <2>1. CASE i <= Len(stream.wire)
    BY <1>0, <1>4, <1>6, <2>1 DEF StreamInv
  <2>2. CASE ~(i <= Len(stream.wire))
    <3>1. i - Len(stream.wire) \in 1..Len(items)
      BY <1>0, <1>4, <2>2
    <3>2. items[i - Len(stream.wire)] = stream.cursor + (i - Len(stream.wire))
      BY <1>2, <3>1
    <3> QED
      BY <1>0, <1>6, <2>2, <3>2 DEF Passed
  <2> QED
    BY <2>1, <2>2
<1>10. \A j \in Nat : Asked(j)' /\ j <= Passed' => j \in client'.ids
  BY <1>1, <1>8 DEF StreamInv, Asked
<1> QED
  BY <1>1, <1>3, <1>5, <1>7, <1>8, <1>9, <1>10 DEF StreamInv, Asked

LEMMA ReadStatusInv ==
    ASSUME StreamInv, ReadStatus
    PROVE  StreamInv'
<1>1. PICK q \in {"ended", "list"} : stream' = [stream EXCEPT !.pc = q]
  BY DEF ReadStatus
<1>2. UNCHANGED <<client, log>> /\ stream.pc = "status"
  BY DEF ReadStatus
<1>3. stream'.pc = q /\ stream'.cursor = stream.cursor /\ stream'.wire = stream.wire
  BY <1>1 DEF StreamInv, StreamTyped
<1>4. StreamTyped'
  BY <1>1, <1>2 DEF StreamInv, StreamTyped
<1>5. Passed' = Passed
  BY <1>3 DEF Passed
<1> QED
  BY <1>1, <1>2, <1>3, <1>4, <1>5 DEF StreamInv, Asked

LEMMA DeliverInv ==
    ASSUME StreamInv, Deliver
    PROVE  StreamInv'
<1> DEFINE e == Head(stream.wire)
<1>0. /\ StreamTyped /\ stream.cursor \in Nat /\ stream.wire \in Seq(Nat) /\ stream.wire # <<>>
      /\ Len(stream.wire) \in Nat /\ Len(stream.wire) <= stream.cursor
      /\ client.ids \subseteq Nat /\ client.last \in Nat
  BY DEF StreamInv, StreamTyped, Deliver
<1>1. stream' = [stream EXCEPT !.wire = Tail(@)]
  BY DEF Deliver
<1>2. client' = [client EXCEPT !.last = e, !.ids = @ \cup {e}] /\ log' = log
  BY DEF Deliver
<1>3. /\ e \in Nat /\ Tail(stream.wire) \in Seq(Nat)
      /\ Len(Tail(stream.wire)) = Len(stream.wire) - 1
      /\ \A i \in 1..Len(Tail(stream.wire)) : Tail(stream.wire)[i] = stream.wire[i + 1]
      /\ e = stream.wire[1] /\ Len(stream.wire) > 0
  BY <1>0, HeadTailProperties
<1>4. e = Passed + 1
  BY <1>0, <1>3 DEF StreamInv
<1> HIDE DEF e
<1>5. stream'.pc = stream.pc /\ stream'.cursor = stream.cursor /\ stream'.wire = Tail(stream.wire)
      /\ stream.pc # "closed"
  BY <1>0, <1>1 DEF StreamTyped, StreamInv
<1>6. client'.after = client.after /\ client'.last = e /\ client'.ids = client.ids \cup {e}
  BY <1>0, <1>2 DEF StreamTyped
<1>7. StreamTyped'
  <2>1. stream' \in [pc : {"closed", "list", "status", "ended"}, cursor : Nat, wire : Seq(Nat),
                     emitted : BOOLEAN]
    BY <1>0, <1>1, <1>3 DEF StreamTyped
  <2>2. client' \in [after : Nat \cup {Absent}, follow : BOOLEAN, last : Nat, ids : SUBSET Nat]
    BY <1>0, <1>2, <1>3 DEF StreamTyped
  <2> QED
    BY <1>0, <1>2, <2>1, <2>2 DEF StreamTyped
<1>8. Passed' = Passed + 1 /\ Passed \in Nat /\ Len(stream'.wire) <= stream'.cursor
  BY <1>0, <1>3, <1>5 DEF Passed
<1>9. \A i \in 1..Len(stream'.wire) : stream'.wire[i] = Passed' + i
  <2> SUFFICES ASSUME NEW i \in 1..Len(Tail(stream.wire))
               PROVE  Tail(stream.wire)[i] = Passed + 1 + i
    BY <1>5, <1>8
  <2>1. i + 1 \in 1..Len(stream.wire) /\ i \in Nat
    BY <1>0, <1>3
  <2>2. stream.wire[i + 1] = Passed + (i + 1)
    BY <2>1 DEF StreamInv
  <2> QED
    BY <1>3, <1>8, <2>1, <2>2
<1>10. ASSUME NEW j \in Nat, Asked(j), j <= Passed + 1
       PROVE  j \in client'.ids
  <2>1. CASE j = Passed + 1
    BY <1>4, <1>6, <2>1
  <2>2. CASE j # Passed + 1
    <3>1. j <= Passed
      BY <1>8, <1>10, <2>2
    <3> QED
      BY <1>5, <1>6, <1>10, <3>1 DEF StreamInv
  <2> QED
    BY <2>1, <2>2
<1>11. \A j \in Nat : Asked(j)' <=> Asked(j)
  BY <1>6 DEF Asked
<1>12. ASSUME NEW i \in client'.ids, NEW j \in Nat, Asked(j), j < i
       PROVE  j \in client'.ids
  <2>1. CASE i \in client.ids
    BY <1>6, <1>12, <2>1 DEF StreamInv
  <2>2. CASE i = e
    BY <1>4, <1>8, <1>10, <1>12, <2>2
  <2> QED
    BY <1>6, <1>12, <2>1, <2>2
<1>13. \A j \in Nat : Asked(j)' /\ j <= Passed' => j \in client'.ids
  BY <1>8, <1>10, <1>11
<1>14. \A i \in client'.ids : \A j \in Nat : Asked(j)' /\ j < i => j \in client'.ids
  BY <1>11, <1>12
<1> QED
  BY <1>5, <1>6, <1>7, <1>8, <1>9, <1>13, <1>14 DEF StreamInv

LEMMA StreamInvStep ==
    ASSUME StreamInv, [ServerNext]_serverVars
    PROVE  StreamInv'
<1>1. log \in Nat
  BY DEF StreamInv, StreamTyped
<1>2. ASSUME NEW p \in Replica, Requests(p) PROVE StreamInv'
  <2>1. UNCHANGED <<stream, client>>
    BY <1>2 DEF Requests, Creating, CreateSession, CheckCreate, Submit, CreateAssistant,
                CreateFeedback, Redeploy, follower
  <2>2. log' \in Nat
    BY <1>1, <1>2 DEF Requests, Creating, CreateSession, CheckCreate, Submit, CreateAssistant,
                      CreateFeedback, Redeploy, Found, Insert, Logged
  <2> QED
    BY <2>1, <2>2, LogGrows
<1>3. ASSUME NEW r \in Run, Advance(r) PROVE StreamInv'
  <2>1. log' \in Nat /\ UNCHANGED <<stream, client>>
    BY <1>1, <1>3 DEF Advance, Logged, follower
  <2> QED
    BY <2>1, LogGrows
<1>4. CASE AttemptFailed \/ Paging \/ UNCHANGED serverVars
  <2>1. log' \in Nat /\ UNCHANGED <<stream, client>>
    BY <1>1, <1>4 DEF AttemptFailed, Paging, StartPaging, NextPage, EndPaging, follower, serverVars
  <2> QED
    BY <2>1, LogGrows
<1>5. CASE EndOfStream \/ Drop
  BY <1>5, Closes DEF EndOfStream, Drop
<1> QED
  BY <1>2, <1>3, <1>4, <1>5, ConnectInv, ListEventsInv, ReadStatusInv, DeliverInv
     DEF ServerNext, Streaming

-----------------------------------------------------------------------------
(* The order of /v1/runs *)

LEMMA EarlierIsStrict ==
    ASSUME NEW q \in Run, NEW r \in Run
    PROVE  /\ ~Earlier(r, r)
           /\ ~(Earlier(q, r) /\ Earlier(r, q))
           /\ q = r \/ Earlier(q, r) \/ Earlier(r, q)
<1>1. q \in Nat /\ r \in Nat /\ CreatedAt[q] \in Nat /\ CreatedAt[r] \in Nat
  BY ServerConstants
<1> QED
  BY <1>1 DEF Earlier

LEMMA EarlierIsTransitive ==
    ASSUME NEW q \in Run, NEW r \in Run, NEW s \in Run, Earlier(q, r), Earlier(r, s)
    PROVE  Earlier(q, s)
<1>1. /\ q \in Nat /\ r \in Nat /\ s \in Nat
      /\ CreatedAt[q] \in Nat /\ CreatedAt[r] \in Nat /\ CreatedAt[s] \in Nat
  BY ServerConstants
<1> QED
  BY <1>1 DEF Earlier

LEMMA SmallestNumber ==
    ASSUME NEW T, T \subseteq Nat, T # {}
    PROVE  \E x \in T : \A y \in T : x <= y
<1> DEFINE R == OpToRel(<, Nat)
<1>1. IsWellFoundedOn(R, Nat)
  BY NatLessThanWellFounded
<1>2. \A x, y \in Nat : x < y => <<x, y>> \in R
  BY DEF OpToRel
<1> HIDE DEF R
<1>3. PICK x \in T : \A y \in T : ~(<<y, x>> \in R)
  BY <1>1, WFMin
<1>4. ASSUME NEW y \in T PROVE x <= y
  <2>1. x \in Nat /\ y \in Nat
    OBVIOUS
  <2>2. ~(y < x)
    BY <1>2, <1>3, <2>1
  <2> QED
    BY <2>1, <2>2
<1> QED
  BY <1>3, <1>4

\* A finite set of runs has a first and a last one.
LEMMA LatestExists ==
    ASSUME NEW S, IsFiniteSet(S), S \subseteq Run, S # {}
    PROVE  \E r \in S : \A q \in S : q = r \/ Earlier(q, r)
<1> DEFINE later(r) == {q \in S : Earlier(r, q)}
<1>1. \A r \in S : IsFiniteSet(later(r)) /\ Cardinality(later(r)) \in Nat
  <2> SUFFICES ASSUME NEW r \in S PROVE IsFiniteSet(later(r)) /\ Cardinality(later(r)) \in Nat
    OBVIOUS
  <2>1. later(r) \in SUBSET S
    OBVIOUS
  <2>2. IsFiniteSet(later(r))
    BY <2>1, FS_Subset
  <2> QED
    BY <2>2, FS_CardinalityType
<1> DEFINE ranks == {Cardinality(later(r)) : r \in S}
<1>2. ranks \subseteq Nat /\ ranks # {}
  BY <1>1
<1>3. PICK n \in ranks : \A m \in ranks : n <= m
  BY <1>2, SmallestNumber
<1>4. PICK r \in S : n = Cardinality(later(r))
  BY <1>3
<1>5. ASSUME NEW q \in S, Earlier(r, q) PROVE FALSE
  <2>1. later(q) \in SUBSET later(r)
    <3> SUFFICES ASSUME NEW x \in S, Earlier(q, x) PROVE Earlier(r, x)
      OBVIOUS
    <3> QED
      BY <1>5, EarlierIsTransitive
  <2>2. q \in later(r) /\ q \notin later(q)
    BY <1>5, EarlierIsStrict
  <2>3. Cardinality(later(q)) <= Cardinality(later(r))
        /\ (Cardinality(later(r)) = Cardinality(later(q)) => later(r) = later(q))
    BY <1>1, <2>1, FS_Subset
  <2>4. Cardinality(later(q)) < Cardinality(later(r))
    BY <1>1, <2>2, <2>3
  <2>5. Cardinality(later(q)) \in ranks
    OBVIOUS
  <2>6. Cardinality(later(r)) <= Cardinality(later(q))
    BY <1>3, <1>4, <2>5
  <2>7. Cardinality(later(r)) \in Nat /\ Cardinality(later(q)) \in Nat
    BY <1>1
  <2> HIDE DEF later
  <2> QED
    BY <2>4, <2>6, <2>7
<1>6. \A q \in S : q = r \/ Earlier(q, r)
  BY <1>5, EarlierIsStrict
<1> QED
  BY <1>6

LEMMA EarliestExists ==
    ASSUME NEW S, IsFiniteSet(S), S \subseteq Run, S # {}
    PROVE  \E r \in S : {q \in S : Earlier(q, r)} = {}
<1> DEFINE before(r) == {q \in S : Earlier(q, r)}
<1>1. \A r \in S : IsFiniteSet(before(r)) /\ Cardinality(before(r)) \in Nat
  <2> SUFFICES ASSUME NEW r \in S PROVE IsFiniteSet(before(r)) /\ Cardinality(before(r)) \in Nat
    OBVIOUS
  <2>1. before(r) \in SUBSET S
    OBVIOUS
  <2>2. IsFiniteSet(before(r))
    BY <2>1, FS_Subset
  <2> QED
    BY <2>2, FS_CardinalityType
<1> DEFINE ranks == {Cardinality(before(r)) : r \in S}
<1>2. ranks \subseteq Nat /\ ranks # {}
  BY <1>1
<1>3. PICK n \in ranks : \A m \in ranks : n <= m
  BY <1>2, SmallestNumber
<1>4. PICK r \in S : n = Cardinality(before(r))
  BY <1>3
<1>5. ASSUME NEW q \in S, Earlier(q, r) PROVE FALSE
  <2>1. before(q) \in SUBSET before(r)
    <3> SUFFICES ASSUME NEW x \in S, Earlier(x, q) PROVE Earlier(x, r)
      OBVIOUS
    <3> QED
      BY <1>5, EarlierIsTransitive
  <2>2. q \in before(r) /\ q \notin before(q)
    BY <1>5, EarlierIsStrict
  <2>3. Cardinality(before(q)) <= Cardinality(before(r))
        /\ (Cardinality(before(r)) = Cardinality(before(q)) => before(r) = before(q))
    BY <1>1, <2>1, FS_Subset
  <2>4. Cardinality(before(q)) < Cardinality(before(r))
    BY <1>1, <2>2, <2>3
  <2>5. Cardinality(before(q)) \in ranks
    OBVIOUS
  <2>6. Cardinality(before(r)) <= Cardinality(before(q))
    BY <1>3, <1>4, <2>5
  <2>7. Cardinality(before(r)) \in Nat /\ Cardinality(before(q)) \in Nat
    BY <1>1
  <2> HIDE DEF before
  <2> QED
    BY <2>4, <2>6, <2>7
<1> QED
  BY <1>5

-----------------------------------------------------------------------------
(* Paging *)

PagerTyped ==
    /\ pager \in [at : Run \cup {0}, present : SUBSET Run, listed : SUBSET Run, twice : BOOLEAN,
                  pc : {"idle", "next", "done"}]
    /\ \A r \in pager.present \cup pager.listed : Exists(r)

\* The pages so far hold only runs up to the cursor, and of the runs that
\* existed at the start all of those.
PagerInv ==
    /\ PagerTyped
    /\ pager.pc = "next" =>
          /\ ~pager.twice
          /\ pager.at = 0 => pager.listed = {}
          /\ pager.at # 0 =>
                /\ \A r \in pager.listed : ~Earlier(pager.at, r)
                /\ \A r \in pager.present : Earlier(pager.at, r) \/ r \in pager.listed
    /\ PagesAreComplete

LEMMA PagerInvInitially == ServerInit => PagerInv
<1> SUFFICES ASSUME ServerInit PROVE PagerInv
  OBVIOUS
<1>1. pager = NotPaging
  BY DEF ServerInit
<1> QED
  BY <1>1 DEF PagerInv, PagerTyped, NotPaging, PagesAreComplete

\* No row is ever deleted.
LEMMA RowsStay ==
    ASSUME TablesTyped, [ServerNext]_serverVars, NEW r \in Run, Exists(r)
    PROVE  Exists(r)'
<1>1. ASSUME NEW p \in Replica, Requests(p) PROVE Exists(r)'
  <2>1. CASE Submit(p)
    <3>1. ASSUME NEW q \in Run, Inserts(p, q) PROVE Exists(r)'
      <4>1. r # q
        BY <3>1 DEF Inserts
      <4>2. runs'[r] = runs[r]
        BY <3>1, <4>1 DEF Inserts, TablesTyped
      <4> QED
        BY <4>2 DEF Exists
    <3> QED
      BY <2>1, <3>1, SubmitCases DEF Finds, Forgets, Exists
  <2>2. CASE ~Submit(p)
    BY <1>1, <2>2 DEF Requests, Creating, CreateSession, CheckCreate, CreateAssistant,
                      CreateFeedback, Redeploy, Exists
  <2> QED
    BY <2>1, <2>2
<1>2. ASSUME NEW q \in Run, Advance(q) PROVE Exists(r)'
  <2>1. Moved(q)
    BY <1>2, AdvanceMoves
  <2>2. PICK t \in Active \cup Terminal, n \in Nat :
            runs' = [runs EXCEPT ![q] = [@ EXCEPT !.status = t, !.attempt = n]]
    BY <2>1 DEF Moved
  <2>3. CASE q = r
    <3>1. runs'[r] = [runs[r] EXCEPT !.status = t, !.attempt = n]
      BY <2>2, <2>3 DEF TablesTyped
    <3>2. runs[r] \in RunRow
      BY RowFields
    <3>3. runs'[r].status = t
      BY <3>1, <3>2 DEF RunRow
    <3> QED
      BY <3>3 DEF Exists, Active, Terminal
  <2>4. CASE q # r
    BY <2>2, <2>4 DEF Exists, TablesTyped
  <2> QED
    BY <2>3, <2>4
<1>3. CASE Quiet
  BY <1>3, QuietTables DEF tables, Exists
<1> QED
  BY <1>1, <1>2, <1>3 DEF ServerNext, Quiet

LEMMA NotPagingInv ==
    ASSUME TablesTyped, PagerInv, [ServerNext]_serverVars, pager' = pager
    PROVE  PagerInv'
<1>1. \A r \in pager.present \cup pager.listed : r \in Run /\ Exists(r)
  BY DEF PagerInv, PagerTyped
<1>2. \A r \in pager.present \cup pager.listed : Exists(r)'
  BY <1>1, RowsStay
<1>3. PagerTyped'
  BY <1>2 DEF PagerInv, PagerTyped
<1> QED
  BY <1>3 DEF PagerInv, PagesAreComplete, Earlier

LEMMA StartPagingInv ==
    ASSUME StartPaging
    PROVE  PagerInv'
<1>1. pager' = [NotPaging EXCEPT !.pc = "next", !.present = {r \in Run : Exists(r)}]
      /\ runs' = runs
  BY DEF StartPaging
<1>2. pager'.pc = "next" /\ pager'.present = {r \in Run : Exists(r)} /\ pager'.listed = {}
      /\ pager'.at = 0 /\ pager'.twice = FALSE
  BY <1>1 DEF NotPaging
<1>3. pager' \in [at : Run \cup {0}, present : SUBSET Run, listed : SUBSET Run, twice : BOOLEAN,
                  pc : {"idle", "next", "done"}]
  BY <1>1 DEF NotPaging
<1>4. PagerTyped'
  BY <1>1, <1>2, <1>3 DEF PagerTyped, Exists
<1> QED
  BY <1>2, <1>4 DEF PagerInv, PagesAreComplete

LEMMA EndPagingInv ==
    ASSUME EndPaging
    PROVE  PagerInv'
<1>1. pager' = NotPaging
  BY DEF EndPaging
<1> QED
  BY <1>1 DEF PagerInv, PagerTyped, NotPaging, PagesAreComplete

LEMMA NextPageInv ==
    ASSUME RowsSound, PagerInv, NextPage
    PROVE  PagerInv'
<1> DEFINE values == {r \in Run : Exists(r) /\ Beyond(r)}
           before(r) == {q \in values : Earlier(q, r)}
           page == {r \in values : Cardinality(before(r)) < PageSize}
           last == CHOOSE r \in page : \A q \in page : q = r \/ Earlier(q, r)
           more == Cardinality(values) > PageSize
<1>0. pager \in [at : Run \cup {0}, present : SUBSET Run, listed : SUBSET Run, twice : BOOLEAN,
                 pc : {"idle", "next", "done"}]
      /\ \A r \in pager.present \cup pager.listed : Exists(r)
  BY DEF PagerInv, PagerTyped
<1>1. pager.pc = "next" /\ runs' = runs
      /\ pager' = [pager EXCEPT !.listed = @ \cup page, !.twice = @ \/ page \cap pager.listed # {},
                                !.pc = IF more THEN "next" ELSE "done",
                                !.at = IF more THEN last ELSE 0]
  BY DEF NextPage
<1>2. /\ ~pager.twice
      /\ pager.at = 0 => pager.listed = {}
      /\ pager.at # 0 =>
            /\ \A r \in pager.listed : ~Earlier(pager.at, r)
            /\ \A r \in pager.present : Earlier(pager.at, r) \/ r \in pager.listed
  BY <1>1 DEF PagerInv
<1>3. IsFiniteSet(values) /\ Cardinality(values) \in Nat
  <2>1. values \in SUBSET {r \in Run : Exists(r)}
    OBVIOUS
  <2>2. IsFiniteSet(values)
    BY <2>1, FS_Subset DEF RowsSound
  <2> QED
    BY <2>2, FS_CardinalityType
<1>4. \A r \in Run : /\ IsFiniteSet(before(r)) /\ Cardinality(before(r)) \in Nat
                     /\ Cardinality(before(r)) <= Cardinality(values)
                     /\ (r \in values => Cardinality(before(r)) < Cardinality(values))
  <2> SUFFICES ASSUME NEW r \in Run
               PROVE  /\ IsFiniteSet(before(r)) /\ Cardinality(before(r)) \in Nat
                      /\ Cardinality(before(r)) <= Cardinality(values)
                      /\ (r \in values => Cardinality(before(r)) < Cardinality(values))
    OBVIOUS
  <2>1. before(r) \in SUBSET values /\ r \notin before(r)
    BY EarlierIsStrict
  <2> HIDE DEF values, before
  <2>2. /\ IsFiniteSet(before(r)) /\ Cardinality(before(r)) <= Cardinality(values)
        /\ (Cardinality(values) = Cardinality(before(r)) => values = before(r))
    BY <1>3, <2>1, FS_Subset
  <2>3. Cardinality(before(r)) \in Nat
    BY <2>2, FS_CardinalityType
  <2> QED
    BY <1>3, <2>1, <2>2, <2>3
<1>5. page \cap pager.listed = {}
  BY <1>2 DEF Beyond
<1>6. pager'.present = pager.present /\ pager'.listed = pager.listed \cup page
      /\ pager'.twice = FALSE
  BY <1>0, <1>1, <1>2, <1>5
<1>7. \A r \in pager.present : r \in values \/ r \in pager.listed
  <2> SUFFICES ASSUME NEW r \in pager.present, r \notin pager.listed PROVE r \in values
    OBVIOUS
  <2>1. r \in Run /\ Exists(r)
    BY <1>0
  <2>2. Beyond(r)
    BY <1>2 DEF Beyond
  <2> QED
    BY <2>1, <2>2
<1>8. CASE ~more
  <2>1. ASSUME NEW r \in values PROVE r \in page
    <3>1. Cardinality(before(r)) \in Nat /\ Cardinality(before(r)) < Cardinality(values)
      BY <1>4
    <3>2. PageSize \in Nat /\ ~(Cardinality(values) > PageSize)
      BY <1>8, ServerConstants
    <3>3. Cardinality(before(r)) < PageSize
      <4> HIDE DEF values, before
      <4> QED
        BY <1>3, <3>1, <3>2
    <3> QED
      BY <3>3
  <2>2. pager'.pc = "done" /\ pager'.at = 0
    BY <1>0, <1>1, <1>8
  <2>3. pager' \in [at : Run \cup {0}, present : SUBSET Run, listed : SUBSET Run, twice : BOOLEAN,
                    pc : {"idle", "next", "done"}]
    BY <1>0, <1>1, <1>8
  <2>4. \A r \in pager'.present \cup pager'.listed : Exists(r)
    BY <1>0, <1>6
  <2>5. PagerTyped'
    BY <1>1, <2>3, <2>4 DEF PagerTyped, Exists
  <2>6. PagesAreComplete'
    BY <1>6, <1>7, <2>1 DEF PagesAreComplete
  <2> QED
    BY <2>2, <2>5, <2>6 DEF PagerInv
<1>9. CASE more
  <2>1. page # {}
    <3>0. Cardinality({}) = 0 /\ PageSize \in Nat /\ PageSize > 0
      BY FS_EmptySet, ServerConstants
    <3>1. values # {}
      <4>1. Cardinality(values) > 0
        <5> HIDE DEF values
        <5> QED
          BY <1>3, <1>9, <3>0
      <4> HIDE DEF values
      <4> QED
        BY <3>0, <4>1
    <3>2. PICK r \in values : before(r) = {}
      <4>1. values \subseteq Run
        OBVIOUS
      <4> HIDE DEF values
      <4> QED
        BY <1>3, <3>1, <4>1, EarliestExists
    <3>3. Cardinality(before(r)) < PageSize
      <4> HIDE DEF before
      <4> QED
        BY <3>0, <3>2
    <3> QED
      BY <3>3
  <2>2. IsFiniteSet(page) /\ page \subseteq Run /\ page \subseteq values
    <3>1. page \in SUBSET values
      OBVIOUS
    <3> QED
      BY <1>3, <3>1, FS_Subset
  <2>3. \E r \in page : \A q \in page : q = r \/ Earlier(q, r)
    <3> HIDE DEF page
    <3> QED
      BY <2>1, <2>2, LatestExists
  <2>4. last \in page /\ \A q \in page : q = last \/ Earlier(q, last)
    <3> HIDE DEF page
    <3> QED
      BY <2>3
  <2> HIDE DEF last
  <2>5. last \in Run /\ last # 0 /\ Beyond(last)
    BY <2>2, <2>4, ServerConstants
  <2>6. pager'.pc = "next" /\ pager'.at = last
    BY <1>0, <1>1, <1>9
  <2>7. pager' \in [at : Run \cup {0}, present : SUBSET Run, listed : SUBSET Run, twice : BOOLEAN,
                    pc : {"idle", "next", "done"}]
    <3>1. pager.listed \cup page \in SUBSET Run
      BY <1>0, <2>2
    <3> HIDE DEF page, values
    <3> QED
      BY <1>0, <1>1, <1>9, <2>5, <3>1
  <2>8. \A r \in pager'.present \cup pager'.listed : Exists(r)
    BY <1>0, <1>6
  <2>9. PagerTyped'
    BY <1>1, <2>7, <2>8 DEF PagerTyped, Exists
  <2>10. ASSUME NEW r \in pager'.listed, Earlier(last, r) PROVE FALSE
    <3>1. CASE r \in page
      <4>1. r \in Run /\ (r = last \/ Earlier(r, last))
        BY <2>2, <2>4, <3>1
      <4> QED
        BY <2>5, <2>10, <4>1, EarlierIsStrict
    <3>2. CASE r \in pager.listed
      <4>1. pager.at # 0 /\ pager.at \in Run /\ r \in Run /\ ~Earlier(pager.at, r)
        BY <1>0, <1>2, <3>2
      <4>2. Earlier(pager.at, last)
        BY <2>5, <4>1 DEF Beyond
      <4>3. Earlier(pager.at, r)
        BY <2>5, <2>10, <4>1, <4>2, EarlierIsTransitive
      <4> QED
        BY <4>1, <4>3
    <3> QED
      BY <1>6, <3>1, <3>2
  <2>11. ASSUME NEW r \in pager'.present, ~Earlier(last, r) PROVE r \in pager'.listed
    <3>1. CASE r \in pager.listed
      BY <1>6, <3>1
    <3>2. CASE r \in values
      <4>1. before(r) \in SUBSET before(last)
        <5> SUFFICES ASSUME NEW q \in values, Earlier(q, r) PROVE Earlier(q, last)
          OBVIOUS
        <5>1. r = last \/ Earlier(r, last)
          BY <2>5, <2>11, <3>2, EarlierIsStrict
        <5> QED
          BY <2>5, <3>2, <5>1, EarlierIsTransitive
      <4>2. Cardinality(before(r)) <= Cardinality(before(last))
        BY <1>4, <2>5, <4>1, FS_Subset
      <4>3. Cardinality(before(last)) < PageSize
        BY <2>4
      <4>4. Cardinality(before(r)) < PageSize
        <5>1. /\ Cardinality(before(r)) \in Nat /\ Cardinality(before(last)) \in Nat
              /\ PageSize \in Nat
          BY <1>4, <2>5, <3>2, ServerConstants
        <5> HIDE DEF before
        <5> QED
          BY <4>2, <4>3, <5>1
      <4>5. r \in page
        BY <3>2, <4>4
      <4> QED
        BY <1>6, <4>5
    <3> QED
      BY <1>6, <1>7, <3>1, <3>2
  <2>12. PagesAreComplete'
    BY <2>6 DEF PagesAreComplete
  <2>13. /\ \A r \in pager'.listed : ~Earlier(pager'.at, r)
         /\ \A r \in pager'.present : Earlier(pager'.at, r) \/ r \in pager'.listed
    BY <2>6, <2>10, <2>11
  <2> HIDE DEF page, values
  <2> QED
    BY <1>6, <2>5, <2>6, <2>9, <2>12, <2>13 DEF PagerInv, Earlier
<1> QED
  BY <1>8, <1>9

LEMMA PagerInvStep ==
    ASSUME CreateInv, PagerInv, [ServerNext]_serverVars
    PROVE  PagerInv'
<1>1. CASE Paging
  BY <1>1, StartPagingInv, NextPageInv, EndPagingInv DEF Paging, CreateInv
<1>2. CASE ~Paging
  <2>1. pager' = pager
    BY <1>2 DEF ServerNext, Streaming, Requests, Creating, CreateSession, CheckCreate, Submit,
                CreateAssistant, CreateFeedback, Redeploy, Advance, AttemptFailed, Connect,
                ListEvents, ReadStatus, Deliver, EndOfStream, Drop, serverVars
  <2> QED
    BY <2>1, NotPagingInv DEF CreateInv
<1> QED
  BY <1>1, <1>2

\* Streams and pages of any size lose and repeat nothing, whatever runs are
\* created, moved on and logged meanwhile and however often the client reconnects.
THEOREM NothingIsMissed == ServerSpec => []ReadersMissNothing
<1>1. StreamInv /\ [ServerNext]_serverVars => StreamInv'
  BY StreamInvStep
<1>2. CreateInv /\ PagerInv /\ [ServerNext]_serverVars => PagerInv'
  BY PagerInvStep
<1>3. ServerSpec => []StreamInv
  BY StreamInvInitially, <1>1, PTL DEF ServerSpec
<1>4. ServerSpec => []PagerInv
  BY PagerInvInitially, CreateIsSound, <1>2, PTL DEF ServerSpec
<1>5. ASSUME StreamInv PROVE NoEventSkipped
  <2> SUFFICES ASSUME NEW i \in client.ids, NEW j \in Wanted, j < i PROVE j \in client.ids
    BY DEF NoEventSkipped
  <2>1. j \in Nat /\ Asked(j)
    BY <1>5 DEF Wanted, Asked, StreamInv, StreamTyped
  <2> QED
    BY <1>5, <2>1 DEF StreamInv
<1>6. StreamInv /\ PagerInv => ReadersMissNothing
  BY <1>5 DEF ReadersMissNothing, PagerInv
<1> QED
  BY <1>3, <1>4, <1>6, PTL
=============================================================================
