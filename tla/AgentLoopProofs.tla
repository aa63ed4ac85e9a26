---------------------------- MODULE AgentLoopProofs ----------------------------
(* What run_session_loop keeps for every reply of the provider, every number  *)
(* of rounds, calls, resources and readers, every failure of the writer, and  *)
(* wherever it is cancelled or killed.                                        *)
EXTENDS AgentLoop, SequenceTheorems, FiniteSetTheorems, TLAPS

-----------------------------------------------------------------------------
(* Replies *)

\* A set of numbers up to n has a greatest one: its least upper bound.
LEMMA GreatestIndex ==
    ASSUME NEW n \in Nat, NEW S, S \subseteq 1 .. n, S # {}
    PROVE  Max(S) \in S
  <1> DEFINE R == OpToRel(<, Nat)
             T == {k \in Nat : \A i \in S : i <= k}
  <1>1. IsWellFoundedOn(R, Nat)
    BY NatLessThanWellFounded
  <1>2. \A x, y \in Nat : y < x => <<y, x>> \in R
    BY DEF OpToRel
  <1>3. n \in T /\ T \subseteq Nat
    OBVIOUS
  <1> HIDE DEF R
  <1>4. PICK m \in T : \A k \in T : ~(<<k, m>> \in R)
    <2> HIDE DEF T
    <2> QED
      BY <1>1, <1>3, WFMin
  <1>5. m \in Nat /\ \A i \in S : i <= m
    BY <1>4
  <1>6. m \in S
    <2> SUFFICES ASSUME m \notin S PROVE FALSE
      OBVIOUS
    <2>0. PICK i : i \in S
      OBVIOUS
    <2>1. i \in 1 .. n /\ i \in Nat /\ i >= 1 /\ i <= m
      BY <1>5, <2>0
    <2>2. m - 1 \in T
      <3>1. ASSUME NEW j \in S PROVE j <= m - 1
        <4>1. j \in Nat /\ j <= m /\ j # m
          BY <1>5
        <4> QED
          BY <1>5, <4>1
      <3> QED
        BY <1>5, <2>1, <3>1
    <2>3. m - 1 \in Nat /\ m - 1 < m
      BY <1>5, <2>1
    <2> QED
      BY <1>2, <1>4, <1>5, <2>2, <2>3
  <1>7. \A i \in S : m >= i
    BY <1>5
  <1> HIDE DEF T
  <1> QED
    BY <1>6, <1>7 DEF Max

\* LastGiven gives one of the values, or the default.
LEMMA LastGivenType ==
    ASSUME NEW V, NEW n \in Nat, NEW values \in [1 .. n -> V \cup {None}], NEW default \in V \cup {None}
    PROVE  LastGiven(values, default) \in V \cup {None}
  <1> DEFINE given == {i \in DOMAIN values : values[i] # None}
  <1>1. given \subseteq 1 .. n
    OBVIOUS
  <1> HIDE DEF given
  <1>2. given # {} => Max(given) \in 1 .. n
    BY <1>1, GreatestIndex
  <1>3. given # {} => values[Max(given)] \in V \cup {None}
    BY <1>2
  <1>4. LastGiven(values, default) = IF given = {} THEN default ELSE values[Max(given)]
    BY DEF LastGiven, given
  <1> QED
    BY <1>3, <1>4

\* A reply comes to a list of calls, and to a number of tokens if it says one.
LEMMA ReplyTypes ==
    \A stream \in Streams :
        /\ Response(stream).calls \in Seq(ToSet(Response(stream).calls))
        /\ Response(stream).tokens \in Nat \cup {None}
  <1> SUFFICES ASSUME NEW stream \in Streams
               PROVE  /\ Response(stream).calls \in Seq(ToSet(Response(stream).calls))
                      /\ Response(stream).tokens \in Nat \cup {None}
    OBVIOUS
  <1>1. PICK n \in Nat : n = Len(stream) /\ DOMAIN stream = 1 .. n
    BY StreamsAreDeltas
  <1>2. \A i \in 1 .. n : stream[i] \in ToSet(stream)
    BY <1>1 DEF ToSet
  <1>3. \A i \in 1 .. n : stream[i].tokens \in Nat \cup {None}
    BY <1>2, StreamsAreDeltas
  <1> DEFINE buckets == {Bucket(d) : d \in {e \in ToSet(stream) : IsCallDelta(e)}}
             called  == [i \in 1 .. Cardinality(buckets) |-> CallOf(stream, Nth(buckets, i))]
  <1>4. Cardinality(buckets) \in Nat
    <2> DEFINE image == {Bucket(stream[i]) : i \in 1 .. n}
               at == [i \in 1 .. n |-> Bucket(stream[i])]
    <2>1. at \in Surjection(1 .. n, image)
      BY DEF Surjection
    <2>2. IsFiniteSet(1 .. n)
      BY FS_Interval
    <2>3. buckets \subseteq image
      BY <1>1 DEF ToSet
    <2> HIDE DEF at, image, buckets
    <2>4. IsFiniteSet(image)
      BY <2>1, <2>2, FS_Surjection
    <2>5. IsFiniteSet(buckets)
      BY <2>3, <2>4, FS_Subset
    <2> QED
      BY <2>5, FS_CardinalityType
  <1>5. Response(stream).calls = called
    BY DEF Response
  <1>6. Response(stream).tokens = LastGiven([i \in 1 .. n |-> stream[i].tokens], None)
    BY <1>1 DEF Response
  <1>7. called \in Seq(ToSet(called))
    <2> HIDE DEF buckets
    <2>1. PICK c \in Nat : c = Cardinality(buckets)
      BY <1>4
    <2>2. \A i \in 1 .. c : called[i] \in ToSet(called)
      BY <2>1 DEF ToSet
    <2> QED
      BY <2>1, <2>2
  <1>8. LastGiven([i \in 1 .. n |-> stream[i].tokens], None) \in Nat \cup {None}
    <2>1. [i \in 1 .. n |-> stream[i].tokens] \in [1 .. n -> Nat \cup {None}]
      BY <1>3
    <2>2. None \in Nat \cup {None}
      OBVIOUS
    <2> QED
      BY <2>1, <2>2, LastGivenType
  <1> HIDE DEF called
  <1> QED
    BY <1>5, <1>6, <1>7, <1>8

-----------------------------------------------------------------------------
(* The budget *)

BudgetInv == usage \in Nat \cup {None} /\ BudgetFiresOnce

\* Only a reply adds to the usage.
LEMMA ReplyCounted ==
    ASSUME BudgetInv, NEW stream \in Streams, Complete(stream)
    PROVE  BudgetInv'
  <1> DEFINE tokens == Response(stream).tokens
             trips  == tokens # None /\ CrossesBudget(usage, usage')
  <1>1. tokens \in Nat \cup {None} /\ usage \in Nat \cup {None} /\ None \notin Nat /\ Cap \in Nat
    BY ReplyTypes, LoopConstants DEF BudgetInv
  <1>2. usage' = add_usage(usage, tokens) /\ fired' = fired + (IF trips THEN 1 ELSE 0)
    BY DEF Complete
  <1> HIDE DEF tokens
  <1>3. /\ usage' \in Nat \cup {None} /\ Tokens(usage) \in Nat /\ Tokens(usage') \in Nat
        /\ Tokens(usage') >= Tokens(usage) /\ (tokens = None => usage' = usage)
    BY <1>1, <1>2 DEF add_usage, Tokens
  <1>4. fired = IF Tokens(usage) > Cap THEN 1 ELSE 0
    BY DEF BudgetInv, BudgetFiresOnce
  <1>5. trips <=> Tokens(usage') > Cap /\ ~(Tokens(usage) > Cap)
    BY <1>3 DEF CrossesBudget
  <1> HIDE DEF trips
  <1>6. fired' = IF Tokens(usage') > Cap THEN 1 ELSE 0
    BY <1>1, <1>2, <1>3, <1>4, <1>5
  <1> QED
    BY <1>3, <1>6 DEF BudgetInv, BudgetFiresOnce

\* The steps that neither ask the provider nor dispatch a tool.
Aside ==
    \/ SetPending \/ Begin \/ BeginFails \/ PersistRow \/ Seeded
    \/ Return \/ SendSentinel \/ StartClose \/ Closed \/ Abandon \/ AbandonRelease \/ Raise \/ Interrupted
    \/ WriterThreads \/ (\E r \in Reader : Read(r) \/ Lock(r) \/ Join(r)) \/ Cancel \/ Crash \/ Prune
    \/ UNCHANGED loopVars

LEMMA StepKinds ==
    [LoopNext]_loopVars <=>
        \/ (\E stream \in Streams : Complete(stream)) \/ CompleteRetries \/ CompleteFails
        \/ (\E i \in DOMAIN tool : StartTool(i) \/ AnswerCall(i) \/ FinishTool(i)) \/ EndRound
        \/ Aside
  BY DEF LoopNext, Coroutine, Aside

LEMMA AsideKeeps ==
    ASSUME Aside
    PROVE  UNCHANGED <<dispatching, accounting, rows>>
  <1>1. CASE SetPending \/ Begin \/ BeginFails \/ PersistRow \/ Seeded
    BY <1>1 DEF SetPending, Begin, BeginFails, PersistRow, Seeded, dispatching, accounting
  <1>2. CASE Return \/ SendSentinel \/ StartClose \/ Closed \/ Abandon \/ AbandonRelease \/ Raise \/ Interrupted
    BY <1>2 DEF Return, SendSentinel, StartClose, Closed, Abandon, AbandonRelease, Raise, Interrupted,
       coroutine, dispatching, accounting
  <1>3. CASE WriterThreads
    BY <1>3 DEF WriterThreads, DrainGet, DrainWrite, OrphanWrite, CloseStep, coroutine, dispatching, accounting
  <1>4. CASE \E r \in Reader : Read(r) \/ Lock(r) \/ Join(r)
    BY <1>4 DEF Read, Lock, Join, coroutine, dispatching, accounting
  <1>5. CASE Cancel \/ Crash \/ Prune
    BY <1>5 DEF Cancel, Crash, Prune, coroutine, dispatching, accounting
  <1>6. CASE UNCHANGED loopVars
    BY <1>6 DEF loopVars, dispatching, accounting
  <1> QED
    BY <1>1, <1>2, <1>3, <1>4, <1>5, <1>6 DEF Aside

LEMMA BudgetStep == BudgetInv /\ [LoopNext]_loopVars => BudgetInv'
  <1> SUFFICES ASSUME BudgetInv, [LoopNext]_loopVars PROVE BudgetInv'
    OBVIOUS
  <1>1. CASE \E stream \in Streams : Complete(stream)
    BY <1>1, ReplyCounted
  <1>2. ASSUME UNCHANGED <<usage, fired>> PROVE BudgetInv'
    BY <1>2 DEF BudgetInv, BudgetFiresOnce, Tokens
  <1>3. CASE CompleteRetries \/ CompleteFails \/ EndRound
    BY <1>2, <1>3 DEF CompleteRetries, CompleteFails, EndRound, accounting
  <1>4. CASE \E i \in DOMAIN tool : StartTool(i) \/ AnswerCall(i) \/ FinishTool(i)
    BY <1>2, <1>4 DEF StartTool, AnswerCall, FinishTool, accounting
  <1>5. CASE Aside
    BY <1>2, <1>5, AsideKeeps DEF accounting
  <1> QED
    BY <1>1, <1>3, <1>4, <1>5, StepKinds

\* on_budget_exceeded is called by the reply that passes the cap and by no other, for any
\* replies, rounds and cap, whether the hook returns or raises
\* (loop.py _accumulate_usage_and_check_budget).
THEOREM HookIsCalledOnce == LoopSpec => []BudgetFiresOnce
  <1>1. LoopInit => BudgetInv
    BY LoopConstants DEF LoopInit, BudgetInv, BudgetFiresOnce, Tokens
  <1>2. BudgetInv => BudgetFiresOnce
    BY DEF BudgetInv
  <1> QED
    BY <1>1, <1>2, BudgetStep, PTL DEF LoopSpec

-----------------------------------------------------------------------------
(* Resources *)

Active(i) == tool[i] \in {"queued", "running"}

\* Of the calls on one resource only the first that is not through may run, and what it
\* has read of the resource is still so.  No tool runs while the provider is asked.
DispatchInv ==
    /\ resource \in [Key -> Nat] /\ updates \in [Key -> Nat] /\ NoLostUpdate
    /\ \E n \in Nat : DOMAIN tool = 1 .. n /\ DOMAIN seen = 1 .. n
    /\ \A i \in DOMAIN tool : Active(i) => Callable(calls[i])
    /\ \A i \in DOMAIN tool : tool[i] = "running" => seen[i] = resource[ResourceOf(i)]
    /\ \A i, j \in DOMAIN tool :
          i < j /\ Active(i) /\ tool[j] = "running" => ResourceOf(i) # ResourceOf(j)
    /\ pc \in {"start", "seed", "complete"} => \A i \in DOMAIN tool : tool[i] # "running"

LEMMA CallableKey ==
    ASSUME NEW c, Callable(c)
    PROVE  ResourceKey(c) \in Key
  BY LoopConstants DEF Callable, Key, ResourceKey

\* Which steps bring the coroutine to the provider, and from where.
LEMMA AsideStays ==
    ASSUME Aside, pc' \in {"start", "seed", "complete"}
    PROVE  pc \in {"start", "seed", "complete"}
  <1>1. CASE SetPending \/ Begin \/ BeginFails \/ PersistRow \/ Seeded
    BY <1>1 DEF SetPending, Begin, BeginFails, PersistRow, Seeded
  <1>2. CASE Return \/ SendSentinel \/ StartClose \/ Closed \/ Abandon \/ AbandonRelease \/ Raise \/ Interrupted
    BY <1>2 DEF Return, SendSentinel, StartClose, Closed, Abandon, AbandonRelease, Raise, Interrupted
  <1>3. CASE WriterThreads
    BY <1>3 DEF WriterThreads, DrainGet, DrainWrite, OrphanWrite, CloseStep
  <1>4. CASE \E r \in Reader : Read(r) \/ Lock(r) \/ Join(r)
    BY <1>4 DEF Read, Lock, Join
  <1>5. CASE Cancel \/ Crash \/ Prune
    BY <1>5 DEF Cancel, Crash, Prune
  <1>6. CASE UNCHANGED loopVars
    BY <1>6 DEF loopVars
  <1> QED
    BY <1>1, <1>2, <1>3, <1>4, <1>5, <1>6 DEF Aside

LEMMA DispatchStep == DispatchInv /\ [LoopNext]_loopVars => DispatchInv'
  <1> SUFFICES ASSUME DispatchInv, [LoopNext]_loopVars PROVE DispatchInv'
    OBVIOUS
  <1>0. PICK n \in Nat : DOMAIN tool = 1 .. n /\ DOMAIN seen = 1 .. n
    BY DEF DispatchInv
  <1>a. resource \in [Key -> Nat] /\ updates \in [Key -> Nat] /\ NoLostUpdate
    BY DEF DispatchInv
  <1>b. \A i \in 1 .. n : Active(i) => Callable(calls[i]) /\ ResourceOf(i) \in Key
    BY <1>0, CallableKey DEF DispatchInv, ResourceOf
  <1>c. \A i \in 1 .. n : tool[i] = "running" => Active(i) /\ seen[i] = resource[ResourceOf(i)]
    BY <1>0 DEF DispatchInv, Active
  <1>d. \A i, j \in 1 .. n : i < j /\ Active(i) /\ tool[j] = "running" => ResourceOf(i) # ResourceOf(j)
    BY <1>0 DEF DispatchInv
  <1>1. ASSUME NEW stream \in Streams, Complete(stream) PROVE DispatchInv'
    <2>0. pc = "complete" /\ UNCHANGED <<resource, updates>>
      BY <1>1 DEF Complete
    <2>1. CASE UNCHANGED <<calls, tool, seen>>
      BY <2>0, <2>1 DEF DispatchInv, NoLostUpdate, Active, Callable, ResourceOf
    <2>2. CASE ~UNCHANGED <<calls, tool, seen>>
      <3> DEFINE called == Response(stream).calls
      <3>1. /\ calls' = called
            /\ tool' = [i \in 1 .. Len(called) |-> Prepared(called[i])]
            /\ seen' = [i \in 1 .. Len(called) |-> 0]
        BY <1>1, <2>2 DEF Complete
      <3>2. Len(called) \in Nat
        BY ReplyTypes, LenProperties
      <3> HIDE DEF called
      <3>3. \A c : Prepared(c) # "running" /\ (Prepared(c) = "queued" => Callable(c))
        BY DEF Prepared, Callable
      <3>4. \A i \in DOMAIN tool' : tool'[i] # "running" /\ (tool'[i] = "queued" => Callable(calls'[i]))
        BY <3>1, <3>2, <3>3
      <3>5. DOMAIN tool' = 1 .. Len(called) /\ DOMAIN seen' = 1 .. Len(called)
        BY <3>1
      <3> QED
        BY <1>a, <2>0, <3>2, <3>4, <3>5 DEF DispatchInv, NoLostUpdate, Active, Callable
    <2> QED
      BY <2>1, <2>2
  <1>2. CASE CompleteRetries \/ CompleteFails \/ Aside
    <2>1. UNCHANGED dispatching
      BY <1>2, AsideKeeps DEF CompleteRetries, CompleteFails
    <2>2. pc' \in {"start", "seed", "complete"} => pc \in {"start", "seed", "complete"}
      BY <1>2, AsideStays DEF CompleteRetries, CompleteFails
    <2> QED
      BY <2>1, <2>2 DEF dispatching, DispatchInv, NoLostUpdate, Active, Callable, ResourceOf
  <1>3. CASE EndRound
    <2>1. UNCHANGED dispatching /\ \A i \in DOMAIN tool : tool[i] # "running"
      BY <1>3 DEF EndRound
    <2> QED
      BY <2>1 DEF dispatching, DispatchInv, NoLostUpdate, Active, Callable, ResourceOf
  <1>4. ASSUME NEW i \in 1 .. n, StartTool(i) PROVE DispatchInv'
    <2>0. /\ pc = "turn" /\ tool[i] = "queued" /\ NextInQueue(i)
          /\ tool' = [tool EXCEPT ![i] = "running"]
          /\ seen' = [seen EXCEPT ![i] = resource[ResourceOf(i)]]
          /\ UNCHANGED <<pc, calls, resource, updates>>
      BY <1>4 DEF StartTool, Dispatching
    <2>1. /\ DOMAIN tool' = 1 .. n /\ DOMAIN seen' = 1 .. n /\ tool'[i] = "running"
          /\ seen'[i] = resource[ResourceOf(i)]
          /\ \A j \in 1 .. n : j # i => tool'[j] = tool[j] /\ seen'[j] = seen[j]
      BY <1>0, <2>0
    <2>2. \A j \in 1 .. n : ResourceOf(j)' = ResourceOf(j)
      BY <2>0 DEF ResourceOf
    <2>3. \A j \in 1 .. n : (Active(j)' <=> Active(j)) /\ (Callable(calls[j])' <=> Callable(calls[j]))
      BY <2>0, <2>1 DEF Active, Callable
    <2>4. \A j \in 1 .. n : j < i /\ Active(j) => ResourceOf(j) # ResourceOf(i)
      BY <1>b, <2>0 DEF NextInQueue, Active, ResourceOf
    <2>5. \A j \in 1 .. n : tool'[j] = "running" => seen'[j] = resource'[ResourceOf(j)']
      BY <1>0, <2>0, <2>1, <2>2 DEF DispatchInv
    <2>6. ASSUME NEW j \in 1 .. n, NEW k \in 1 .. n, j < k, Active(j)', tool'[k] = "running"
          PROVE  ResourceOf(j)' # ResourceOf(k)'
      <3>1. Active(j)
        BY <2>3, <2>6
      <3>2. CASE k = i
        BY <2>2, <2>4, <2>6, <3>1, <3>2
      <3>3. CASE k # i
        BY <1>0, <2>1, <2>2, <2>6, <3>1, <3>3 DEF DispatchInv
      <3> QED
        BY <3>2, <3>3
    <2>7. \A j \in 1 .. n : Active(j)' => Callable(calls[j])'
      BY <1>b, <2>3
    <2>8. NoLostUpdate' /\ resource' \in [Key -> Nat] /\ updates' \in [Key -> Nat]
      BY <1>a, <2>0 DEF NoLostUpdate
    <2>9. pc' \notin {"start", "seed", "complete"}
      BY <2>0
    <2> QED
      BY <2>1, <2>5, <2>6, <2>7, <2>8, <2>9 DEF DispatchInv
  <1>5. ASSUME NEW i \in 1 .. n, AnswerCall(i) PROVE DispatchInv'
    <2>0. /\ tool' = [tool EXCEPT ![i] = "answered"] /\ UNCHANGED <<pc, calls, seen, resource, updates>>
      BY <1>5 DEF AnswerCall
    <2>1. /\ DOMAIN tool' = 1 .. n /\ DOMAIN seen' = 1 .. n /\ tool'[i] = "answered"
          /\ \A j \in 1 .. n : j # i => tool'[j] = tool[j]
      BY <1>0, <2>0
    <2>2. \A j \in 1 .. n : ResourceOf(j)' = ResourceOf(j)
      BY <2>0 DEF ResourceOf
    <2>3. \A j \in 1 .. n : (Active(j)' => Active(j) /\ j # i) /\ (tool'[j] = "running" => tool[j] = "running")
      BY <2>0, <2>1 DEF Active
    <2> QED
      BY <1>0, <2>0, <2>1, <2>2, <2>3 DEF DispatchInv, NoLostUpdate, Callable
  <1>6. ASSUME NEW i \in 1 .. n, FinishTool(i) PROVE DispatchInv'
    <2> DEFINE r == ResourceOf(i)
    <2>0. /\ tool[i] = "running" /\ UNCHANGED <<pc, calls, seen>>
          /\ resource' = [resource EXCEPT ![r] = seen[i] + 1] /\ updates' = [updates EXCEPT ![r] = @ + 1]
      BY <1>6 DEF FinishTool
    <2>1. PICK raw : tool' = [tool EXCEPT ![i] = Summarized(raw)]
      BY <1>6 DEF FinishTool
    <2>2. Summarized(raw) \notin {"queued", "running"}
      BY DEF Summarized
    <2>3. /\ DOMAIN tool' = 1 .. n /\ DOMAIN seen' = 1 .. n /\ tool'[i] \notin {"queued", "running"}
          /\ \A j \in 1 .. n : j # i => tool'[j] = tool[j]
      BY <1>0, <2>0, <2>1, <2>2
    <2>4. \A j \in 1 .. n : ResourceOf(j)' = ResourceOf(j)
      BY <2>0 DEF ResourceOf
    <2>5. \A j \in 1 .. n : (Active(j)' => Active(j) /\ j # i) /\ (tool'[j] = "running" => tool[j] = "running" /\ j # i)
      BY <2>3 DEF Active
    <2>6. r \in Key /\ seen[i] = resource[r] /\ resource[r] = updates[r]
      BY <1>0, <1>a, <1>b, <2>0 DEF DispatchInv, Active, NoLostUpdate
    <2>7. \A j \in 1 .. n : j # i /\ tool[j] = "running" => ResourceOf(j) # r
      <3>1. ASSUME NEW j \in 1 .. n, j # i, tool[j] = "running" PROVE ResourceOf(j) # r
        <4>1. j < i \/ i < j
          BY <3>1
        <4> QED
          BY <1>c, <1>d, <2>0, <3>1, <4>1
      <3> QED
        BY <3>1
    <2> HIDE DEF r
    <2>8. /\ resource' \in [Key -> Nat] /\ updates' \in [Key -> Nat] /\ NoLostUpdate'
          /\ \A k \in Key : k # r => resource'[k] = resource[k]
      BY <1>a, <2>0, <2>6 DEF NoLostUpdate
    <2>9. \A j \in 1 .. n : tool'[j] = "running" => seen'[j] = resource'[ResourceOf(j)']
      BY <1>b, <1>c, <2>0, <2>4, <2>5, <2>7, <2>8
    <2>10. \A j \in 1 .. n : Active(j)' => Callable(calls[j])'
      BY <1>b, <2>0, <2>5 DEF Callable
    <2>11. \A j, k \in 1 .. n : j < k /\ Active(j)' /\ tool'[k] = "running" => ResourceOf(j)' # ResourceOf(k)'
      BY <1>0, <2>4, <2>5 DEF DispatchInv
    <2>12. pc' \in {"start", "seed", "complete"} => \A j \in DOMAIN tool' : tool'[j] # "running"
      BY <1>0, <2>0, <2>3, <2>5 DEF DispatchInv
    <2> QED
      BY <2>3, <2>8, <2>9, <2>10, <2>11, <2>12 DEF DispatchInv
  <1> QED
    BY <1>0, <1>1, <1>2, <1>3, <1>4, <1>5, <1>6, StepKinds

\* No update of a resource is lost: the calls of a round that _adispatch_round puts into
\* one queue never overlap, for any replies, resource keys and numbers of calls, whichever
\* tools run on after a cancellation.
THEOREM UpdatesAreKept == LoopSpec => []NoLostUpdate
  <1>1. LoopInit => DispatchInv
    <2> SUFFICES ASSUME LoopInit PROVE DispatchInv
      OBVIOUS
    <2>1. /\ tool = <<>> /\ seen = <<>> /\ resource = [k \in Key |-> 0] /\ updates = [k \in Key |-> 0]
      BY DEF LoopInit
    <2>2. DOMAIN tool = 1 .. 0 /\ DOMAIN seen = 1 .. 0
      BY <2>1
    <2> QED
      BY <2>1, <2>2 DEF DispatchInv, NoLostUpdate
  <1>2. DispatchInv => NoLostUpdate
    BY DEF DispatchInv
  <1> QED
    BY <1>1, <1>2, DispatchStep, PTL DEF LoopSpec

-----------------------------------------------------------------------------
(* Session files *)

\* The header, the first w of these rows, and then nothing but trailers and a torn line.
HoldsOf(f, w, table) ==
    /\ f \in Seq(Line) /\ w + 1 <= Len(f) /\ f[1] = build_header
    /\ \A i \in 1 .. w : f[i + 1] = build_chunk_record(i - 1, table[i])
    /\ \A i \in w + 2 .. Len(f) : f[i].kind \in {"trailer", "torn"}

Holds(f, w) == HoldsOf(f, w, rows)
Chunk(i)    == build_chunk_record(i - 1, rows[i])

LEMMA LineKinds ==
    /\ build_header \in Line /\ build_header.kind = "header" /\ build_header.version = SchemaVersion
    /\ Torn \in Line /\ Torn.kind = "torn"
    /\ \A i \in Nat, r \in Row : build_chunk_record(i, r) \in Line
    /\ \A i, r : build_chunk_record(i, r).kind = "chunk" /\ build_chunk_record(i, r).row = r
    /\ \A c \in Nat, u \in Nat \cup {None} : build_trailer(c, u) \in Line
    /\ \A c, u : build_trailer(c, u).kind = "trailer" /\ build_trailer(c, u).usage = u
  BY DEF build_header, Torn, build_chunk_record, build_trailer, Line

\* The j-th of consecutive numbers.
LEMMA NthOfInterval ==
    ASSUME NEW w \in Nat, NEW j \in 1 .. w
    PROVE  Nth(2 .. w + 1, j) = j + 1
  <1> DEFINE P == 2 .. w + 1
             Below(i) == {h \in P : h <= i}
  <1>1. \A i \in P : Cardinality(Below(i)) = i - 1
    <2> TAKE i \in P
    <2>1. Below(i) = 2 .. i
      OBVIOUS
    <2>2. Cardinality(2 .. i) = i - 1
      BY FS_Interval
    <2> QED
      BY <2>1, <2>2
  <1>2. j + 1 \in P /\ \A i \in P : Cardinality(Below(i)) = j <=> i = j + 1
    BY <1>1
  <1> QED
    BY <1>2 DEF Nth

\* What is loaded from such a file: its rows, in order.
LEMMA HeldRows ==
    ASSUME NEW f, NEW w \in Nat, Holds(f, w), w <= Len(rows), rows \in Seq(Row)
    PROVE  /\ LinesOf(f, "chunk") = 2 .. w + 1 /\ LinesOf(f, "header") = {1}
           /\ Len(ChunksIn(f)) = w
           /\ LoadedRows(f) = [j \in 1 .. w |-> rows[j]]
           /\ \A i \in 1 .. Len(f) : f[i].kind # "garbage"
  <1>0. f \in Seq(Line) /\ Len(f) \in Nat /\ w + 1 <= Len(f)
    BY LenProperties DEF Holds, HoldsOf
  <1>1. \A i \in 1 .. Len(f) :
            /\ i = 1 => f[i].kind = "header"
            /\ i \in 2 .. w + 1 => f[i].kind = "chunk"
            /\ i \in w + 2 .. Len(f) => f[i].kind \in {"trailer", "torn"}
    <2> TAKE i \in 1 .. Len(f)
    <2>1. CASE i = 1
      BY <2>1, LineKinds DEF Holds, HoldsOf
    <2>2. CASE i \in 2 .. w + 1
      <3>1. i - 1 \in 1 .. w /\ (i - 1) + 1 = i
        BY <2>2
      <3>2. f[i] = Chunk(i - 1)
        BY <3>1 DEF Holds, HoldsOf, Chunk
      <3> QED
        BY <2>2, <3>2, LineKinds DEF Chunk
    <2>3. CASE i \in w + 2 .. Len(f)
      BY <2>3 DEF Holds, HoldsOf
    <2> QED
      BY <1>0, <2>1, <2>2, <2>3
  <1>2. LinesOf(f, "chunk") = 2 .. w + 1
    BY <1>0, <1>1 DEF LinesOf
  <1>3. LinesOf(f, "header") = {1}
    BY <1>0, <1>1 DEF LinesOf
  <1>4. \A i \in 1 .. Len(f) : f[i].kind # "garbage"
    BY <1>0, <1>1
  <1>5. Cardinality(2 .. w + 1) = w
    BY FS_Interval
  <1>6. ChunksIn(f) = [j \in 1 .. w |-> f[j + 1]]
    <2>1. ChunksIn(f) = [j \in 1 .. w |-> f[Nth(2 .. w + 1, j)]]
      BY <1>2, <1>5 DEF ChunksIn
    <2> QED
      BY <2>1, NthOfInterval
  <1>7. Len(ChunksIn(f)) = w
    BY <1>6
  <1>8. \A j \in 1 .. w : ChunksIn(f)[j].row = rows[j]
    <2> TAKE j \in 1 .. w
    <2>1. ChunksIn(f)[j] = Chunk(j)
      BY <1>6 DEF Holds, HoldsOf, Chunk
    <2> QED
      BY <2>1, LineKinds DEF Chunk
  <1>9. LoadedRows(f) = [j \in 1 .. w |-> rows[j]]
    BY <1>7, <1>8 DEF LoadedRows
  <1> QED
    BY <1>2, <1>3, <1>4, <1>7, <1>9

LEMMA HeldPrefix ==
    ASSUME NEW f, NEW w \in Nat, Holds(f, w), w <= Len(rows), rows \in Seq(Row)
    PROVE  IsPrefix(LoadedRows(f), rows)
  <1> DEFINE s == LoadedRows(f)
  <1>1. s = [j \in 1 .. w |-> rows[j]]
    BY HeldRows
  <1>2. Len(rows) \in Nat /\ \A j \in 1 .. Len(rows) : rows[j] \in Row
    BY LenProperties, ElementOfSeq
  <1>3. s \in Seq(Row) /\ Len(s) = w
    BY <1>1, <1>2
  <1>4. SubSeq(s, 1, w) = s
    BY <1>3, SubSeqFull
  <1>5. SubSeq(rows, 1, w) = [j \in 1 .. w |-> rows[j]]
    BY <1>2
  <1> QED
    BY <1>1, <1>2, <1>3, <1>4, <1>5 DEF IsPrefix

Exact(f, w) == Holds(f, w) /\ Len(f) = w + 1
Whole(f)    == /\ Holds(f, Len(rows)) /\ Len(f) = Len(rows) + 2
               /\ \E c \in Nat : f[Len(rows) + 2] = build_trailer(c, usage)

\* The first w rows without a trailer, and perhaps a torn line.
Unended(f, w) == Holds(f, w) /\ \A i \in w + 2 .. Len(f) : f[i].kind = "torn"

\* What load_session may find after whatever happened: at worst a file without a header,
\* and a trailer only behind all rows of a loop that is through.
Readable(f) ==
    \/ f = Missing
    \/ f \in Seq(Line) /\ \A i \in 1 .. Len(f) : f[i].kind = "torn"
    \/ \E w \in 0 .. Len(rows) : Unended(f, w)
    \/ Whole(f) /\ (finished \/ rounds = MaxToolRounds)

RowsInv ==
    /\ rows \in Seq(Row) /\ BudgetInv
    /\ \A i \in DOMAIN tool : tool[i] \in Answers \cup {"queued", "running", "answered"} /\ calls[i].id \in CallId

\* The loop is through and has handed over all its rows.
Over ==
    /\ pc \in {"join", "closing", "returned", "stopped"} /\ written = Len(rows)
    /\ finished \/ rounds = MaxToolRounds

\* Where the coroutine is, and whether there is a writer.
PlaceInv ==
    /\ written \in Nat /\ written <= Len(rows) /\ prunes \in Nat
    /\ persist /\ pc = "complete" => written = Len(rows)
    /\ pc \in {"join", "closing"} => Over
    /\ pc = "join" => closer = "none"
    /\ pc \in {"seed", "join", "closing", "releasing"} => persist
    /\ persist /\ pc \notin {"start", "failed", "stopped"} => handle # "none"
    /\ handle = "none" => /\ partial = Missing /\ final = Missing /\ buffered = <<>> /\ queue = <<>>
                          /\ drain.at = "idle" /\ closer = "none" /\ written = 0
    /\ pc = "start" => handle = "none"
    /\ drain.at = "exited" => Over
    /\ closer # "none" => drain.at = "exited" /\ handle # "none"
    /\ final # Missing => closer = "done"
    /\ persist /\ future = "value" => pc = "returned" /\ closer = "done" /\ ~failure

Item(i) == [index |-> i, row |-> rows[i + 1]]
Item0   == [index : Int, row : Row \cup {"sentinel"}]

\* The queue: the rows from m on that were handed over, and the sentinel behind them.
Waits(m) ==
    LET n == Len(queue) IN
    \/ m + n = written /\ \A i \in 1 .. n : queue[i] = Item(m + i - 1)
    \/ /\ n > 0 /\ m + n = written + 1 /\ queue[n] = Sentinel /\ Over
       /\ \A i \in 1 .. n - 1 : queue[i] = Item(m + i - 1)

\* w rows went to the file, or into the hands of a drain task that was cancelled.
Drained(w) ==
    /\ queue \in Seq(Item0) /\ drain.at \in {"idle", "writing", "exited", "cancelled"}
    /\ drain.at # "cancelled" => orphan = None
    /\ drain.at = "idle" => Waits(w)
    /\ drain.at = "writing" => w < written /\ drain.item = Item(w) /\ Waits(w + 1)
    /\ drain.at = "exited" => w = written
    /\ orphan # None => w < written /\ orphan = Item(w)

\* What the files hold, as long as no write of a row has failed.
FilesInv(w) ==
    /\ closer \in {"none", "trailer", "release", "undo", "rename", "failed", "done"}
    /\ closer \in {"none", "trailer", "undo"} => partial = Missing \/ Exact(partial, w)
    /\ closer \in {"none", "trailer", "release"} => buffered = <<>>
    /\ closer = "undo" => buffered = <<>> \/ \E c \in Nat : buffered = <<build_trailer(c, usage)>>
    /\ closer \in {"release", "rename"} => partial = Missing \/ Whole(partial)
    /\ closer = "failed" => partial = Missing \/ Exact(partial, w) \/ Whole(partial)
    /\ closer = "done" => partial = Missing /\ (final = Missing \/ Whole(final))
    /\ prunes = 0 /\ handle # "none" => IF closer = "done" THEN final # Missing ELSE partial # Missing

LiveInv == PlaceInv /\ \E w \in 0 .. written : Drained(w) /\ (~failure => FilesInv(w))

\* What stays true of the files when the process is gone.
DiskInv ==
    /\ ~failure => Readable(partial) /\ Readable(final)
    /\ final # Missing => finished \/ rounds = MaxToolRounds
    /\ persist /\ future = "value" => ~failure /\ (prunes = 0 => Whole(final))
    /\ prunes \in Nat

TranscriptInv == RowsInv /\ DiskInv /\ (alive => LiveInv)

\* What load_session makes of a file with all rows and the trailer.
LEMMA WholeFile ==
    ASSUME NEW f, Whole(f), rows \in Seq(Row)
    PROVE  /\ Loads(f) /\ LoadedRows(f) = rows /\ LoadedUsage(f) = usage
           /\ Meta(f) = [chunk_count |-> Len(rows), closed |-> TRUE]
  <1>0. Len(rows) \in Nat
    BY LenProperties
  <1>1. /\ Holds(f, Len(rows)) /\ Len(f) = Len(rows) + 2
        /\ f[Len(rows) + 2].kind = "trailer" /\ f[Len(rows) + 2].usage = usage
    BY LineKinds DEF Whole
  <1>2. /\ LinesOf(f, "header") = {1} /\ LinesOf(f, "chunk") = 2 .. Len(rows) + 1
        /\ Len(ChunksIn(f)) = Len(rows) /\ LoadedRows(f) = [j \in 1 .. Len(rows) |-> rows[j]]
        /\ \A i \in 1 .. Len(f) : f[i].kind # "garbage"
    BY <1>0, <1>1, HeldRows
  <1>3. LinesOf(f, "trailer") = {Len(rows) + 2}
    <2>1. \A i \in 1 .. Len(f) : i = Len(rows) + 2 \/ i \in LinesOf(f, "header") \cup LinesOf(f, "chunk")
      BY <1>0, <1>1, <1>2
    <2> QED
      BY <1>0, <1>1, <2>1 DEF LinesOf
  <1>4. Max(LinesOf(f, "trailer")) = Len(rows) + 2
    BY <1>0, <1>3 DEF Max
  <1>5. f \in Seq(Line) /\ f # Missing /\ f[1] = build_header
    BY <1>1, FilesAreSequences DEF Holds, HoldsOf
  <1>6. Loads(f)
    <2>1. f[1].version = SchemaVersion
      BY <1>5, LineKinds
    <2>2. Upgradable(f[1].version)
      BY <2>1, FilesAreSequences DEF Upgradable
    <2> QED
      BY <1>2, <1>5, <2>2 DEF Loads, Headers
  <1>7. LoadedRows(f) = rows
    BY <1>0, <1>2
  <1>8. LoadedUsage(f) = usage /\ LoadedClosed(f)
    BY <1>1, <1>3, <1>4 DEF LoadedUsage, LoadedClosed
  <1>9. Meta(f) = [chunk_count |-> Len(rows), closed |-> TRUE]
    BY <1>2, <1>8 DEF Meta
  <1> QED
    BY <1>6, <1>7, <1>8, <1>9

\* A file without a trailer is not closed.
LEMMA UnendedFile ==
    ASSUME NEW f, NEW w \in Nat, Unended(f, w), w <= Len(rows), rows \in Seq(Row)
    PROVE  ~LoadedClosed(f)
  <1>1. /\ LinesOf(f, "header") = {1} /\ LinesOf(f, "chunk") = 2 .. w + 1
    BY HeldRows DEF Unended
  <1>2. Len(f) \in Nat
    BY LenProperties DEF Unended, Holds, HoldsOf
  <1>3. \A i \in 1 .. Len(f) : i \in LinesOf(f, "header") \cup LinesOf(f, "chunk") \/ i \in w + 2 .. Len(f)
    BY <1>1, <1>2
  <1>4. \A i \in 1 .. Len(f) : f[i].kind \in {"header", "chunk", "torn"}
    BY <1>3 DEF LinesOf, Unended
  <1> QED
    BY <1>4 DEF LoadedClosed, LinesOf

\* The invariant is what the property needs.
LEMMA TranscriptFollows == TranscriptInv => TranscriptOnDisk
  <1> SUFFICES ASSUME TranscriptInv PROVE TranscriptOnDisk
    OBVIOUS
  <1>0. rows \in Seq(Row) /\ Len(rows) \in Nat /\ DiskInv
    BY LenProperties DEF TranscriptInv, RowsInv
  <1>1. ASSUME persist, prunes = 0, future = "value"
        PROVE  /\ Loads(final) /\ LoadedRows(final) = rows
               /\ LoadedUsage(final) = usage
               /\ Meta(final) = [chunk_count |-> Len(rows), closed |-> TRUE]
    BY <1>0, <1>1, WholeFile DEF DiskInv
  <1>2. ASSUME Loads(Target), ~failure
        PROVE  /\ IsPrefix(LoadedRows(Target), rows)
               /\ LoadedClosed(Target) => /\ LoadedRows(Target) = rows /\ LoadedUsage(Target) = usage
                                          /\ finished \/ rounds = MaxToolRounds
    <2>0. PICK f : f = Target
      OBVIOUS
    <2>1. f # Missing /\ Readable(f) /\ \E h \in Headers(f) : TRUE
      BY <1>0, <1>2, <2>0 DEF Loads, Target, DiskInv
    <2>2. ~(f \in Seq(Line) /\ \A i \in 1 .. Len(f) : f[i].kind = "torn")
      BY <2>1 DEF Headers, LinesOf
    <2>3. CASE \E w \in 0 .. Len(rows) : Unended(f, w)
      <3>1. PICK w \in 0 .. Len(rows) : Unended(f, w)
        BY <2>3
      <3>2. w \in Nat /\ w <= Len(rows) /\ Holds(f, w)
        BY <1>0, <3>1 DEF Unended
      <3>3. IsPrefix(LoadedRows(f), rows)
        BY <1>0, <3>2, HeldPrefix
      <3>4. ~LoadedClosed(f)
        BY <1>0, <3>1, <3>2, UnendedFile
      <3> QED
        BY <2>0, <3>3, <3>4
    <2>4. CASE Whole(f) /\ (finished \/ rounds = MaxToolRounds)
      <3>1. LoadedRows(f) = rows /\ LoadedUsage(f) = usage
        BY <1>0, <2>4, WholeFile
      <3>2. IsPrefix(LoadedRows(f), rows)
        <4>1. Holds(f, Len(rows)) /\ Len(rows) <= Len(rows)
          BY <1>0, <2>4 DEF Whole
        <4> QED
          BY <1>0, <4>1, HeldPrefix
      <3> QED
        BY <2>0, <2>4, <3>1, <3>2
    <2> QED
      BY <2>1, <2>2, <2>3, <2>4 DEF Readable
  <1>3. final # Missing => finished \/ rounds = MaxToolRounds
    BY <1>0 DEF DiskInv
  <1> QED
    BY <1>1, <1>2, <1>3 DEF TranscriptOnDisk

-----------------------------------------------------------------------------
(* Steps *)

LEMMA RowTypes ==
    /\ \A stream \in Streams : assistant_turn_chunk(Response(stream)) \in Row
    /\ \A call, body : call.id \in CallId /\ body \in Answers => tool_feedback_chunk(call, body) \in Row
    /\ Seeds \in Seq(Row)
    /\ \A stream \in Streams : \A i \in 1 .. Len(Response(stream).calls) : Response(stream).calls[i].id \in CallId
  <1>1. \A stream \in Streams : assistant_turn_chunk(Response(stream)) \in Row
    BY DEF Row
  <1>2. \A call, body : call.id \in CallId /\ body \in Answers => tool_feedback_chunk(call, body) \in Row
    BY DEF Row, tool_feedback_chunk
  <1>3. Seeds \in Seq(Row)
    BY FilesAreSequences, SeqMonotonic DEF Row
  <1>4. ASSUME NEW stream \in Streams, NEW i \in 1 .. Len(Response(stream).calls)
        PROVE  Response(stream).calls[i].id \in CallId
    <2> DEFINE cs == Response(stream).calls
    <2>1. cs \in Seq(ToSet(cs))
      BY ReplyTypes
    <2>2. cs[i] \in ToSet(cs)
      BY <2>1, ElementOfSeq
    <2> HIDE DEF cs
    <2>3. cs[i] \in UNION {ToSet(Response(s).calls) : s \in Streams}
      BY <2>2 DEF cs
    <2> QED
      BY <2>3 DEF CallId, cs
  <1> QED
    BY <1>1, <1>2, <1>3, <1>4

LEMMA RowsStep ==
    ASSUME RowsInv, [LoopNext]_loopVars
    PROVE  /\ RowsInv'
           /\ rows' = rows \/ \E row \in Row : rows' = Append(rows, row)
  <1>0. rows \in Seq(Row) /\ BudgetInv' /\ BudgetInv
    BY BudgetStep DEF RowsInv
  <1>a. \A row \in Row : Append(rows, row) \in Seq(Row)
    BY <1>0, AppendProperties
  <1>1. ASSUME NEW stream \in Streams, Complete(stream)
        PROVE  RowsInv' /\ (rows' = rows \/ \E row \in Row : rows' = Append(rows, row))
    <2>1. CASE UNCHANGED <<rows, calls, tool>>
      BY <1>0, <2>1 DEF RowsInv
    <2>2. CASE ~UNCHANGED <<rows, calls, tool>>
      <3> DEFINE called == Response(stream).calls
      <3>1. /\ rows' = Append(rows, assistant_turn_chunk(Response(stream))) /\ calls' = called
            /\ tool' = [i \in 1 .. Len(called) |-> Prepared(called[i])]
        BY <1>1, <2>2 DEF Complete, AppendRow
      <3>2. rows' \in Seq(Row)
        BY <1>a, <3>1, RowTypes
      <3>3. \A i \in 1 .. Len(called) : called[i].id \in CallId
        BY RowTypes
      <3>4. \A c : Prepared(c) \in Answers \cup {"queued"}
        BY DEF Prepared, Answers
      <3> HIDE DEF called
      <3>5. \A i \in DOMAIN tool' : tool'[i] \in Answers \cup {"queued", "running", "answered"} /\ calls'[i].id \in CallId
        BY <3>1, <3>3, <3>4
      <3> QED
        BY <1>0, <3>1, <3>2, <3>5, RowTypes DEF RowsInv
    <2> QED
      BY <2>1, <2>2
  <1>2. ASSUME NEW i \in DOMAIN tool, StartTool(i) \/ FinishTool(i)
        PROVE  RowsInv' /\ rows' = rows
    <2>1. PICK x \in Answers \cup {"running"} : tool' = [tool EXCEPT ![i] = x]
      BY <1>2 DEF StartTool, FinishTool, Summarized, Answers
    <2>2. UNCHANGED <<rows, calls>>
      BY <1>2 DEF StartTool, FinishTool
    <2> QED
      BY <1>0, <2>1, <2>2 DEF RowsInv
  <1>3. ASSUME NEW i \in DOMAIN tool, AnswerCall(i)
        PROVE  RowsInv' /\ \E row \in Row : rows' = Append(rows, row)
    <2>0. /\ tool[i] \in Answers /\ tool' = [tool EXCEPT ![i] = "answered"] /\ UNCHANGED calls
          /\ rows' = Append(rows, tool_feedback_chunk(calls[i], tool[i]))
      BY <1>3 DEF AnswerCall, AppendRow, RowsInv
    <2>1. tool_feedback_chunk(calls[i], tool[i]) \in Row
      BY <2>0, RowTypes DEF RowsInv
    <2>2. rows' \in Seq(Row)
      BY <1>a, <2>0, <2>1
    <2> QED
      BY <1>0, <2>0, <2>1, <2>2 DEF RowsInv
  <1>4. CASE CompleteRetries \/ CompleteFails \/ EndRound \/ Aside
    <2>1. UNCHANGED <<dispatching, rows>>
      BY <1>4, AsideKeeps DEF CompleteRetries, CompleteFails, EndRound
    <2> QED
      BY <1>0, <2>1 DEF RowsInv, dispatching
  <1> QED
    BY <1>1, <1>2, <1>3, <1>4, StepKinds

\* What has been written of a table stays written when rows are added.
LEMMA GrownTable ==
    ASSUME NEW table, NEW grown, NEW w \in Nat, NEW f,
           \A i \in 1 .. w : grown[i] = table[i], HoldsOf(f, w, table)
    PROVE  HoldsOf(f, w, grown)
  BY DEF HoldsOf

LEMMA LiveFollows ==
    ASSUME RowsInv, LiveInv
    PROVE  DiskInv
  <1>0. rows \in Seq(Row) /\ Len(rows) \in Nat /\ PlaceInv
    BY LenProperties DEF RowsInv, LiveInv
  <1>1. PICK w \in 0 .. written : Drained(w) /\ (~failure => FilesInv(w))
    BY DEF LiveInv
  <1>2. w \in 0 .. Len(rows) /\ Len(rows) \in 0 .. Len(rows)
    BY <1>0 DEF PlaceInv
  <1>3. ASSUME ~failure PROVE Readable(partial) /\ Readable(final)
    <2>1. \A f : Exact(f, w) => Readable(f)
      <3> SUFFICES ASSUME NEW f, Exact(f, w) PROVE \E v \in 0 .. Len(rows) : Unended(f, v)
        BY DEF Readable
      <3>1. Unended(f, w)
        BY <1>2 DEF Exact, Unended
      <3> QED
        BY <1>2, <3>1
    <2>2. closer # "none" => finished \/ rounds = MaxToolRounds
      BY <1>0 DEF PlaceInv, Over
    <2>3. \A f : closer # "none" /\ Whole(f) => Readable(f)
      BY <2>2 DEF Readable
    <2>4. Readable(Missing)
      BY DEF Readable
    <2>5. closer # "done" => final = Missing
      BY <1>0 DEF PlaceInv
    <2> QED
      BY <1>1, <1>3, <2>1, <2>3, <2>4, <2>5 DEF FilesInv
  <1>4. final # Missing => finished \/ rounds = MaxToolRounds
    BY <1>0, <1>1 DEF PlaceInv, Drained, Over
  <1>5. persist /\ future = "value" => ~failure /\ (prunes = 0 => Whole(final))
    BY <1>0, <1>1 DEF PlaceInv, FilesInv
  <1> QED
    BY <1>0, <1>3, <1>4, <1>5 DEF DiskInv, PlaceInv

\* A step that leaves writer and files alone.
LEMMA WriterRests ==
    ASSUME RowsInv, LiveInv, UNCHANGED <<writer, written, prunes>>,
           rows' = rows \/ \E row \in Row : rows' = Append(rows, row),
           Over => Over', closer = "none" \/ UNCHANGED <<rows, usage>>, PlaceInv'
    PROVE  LiveInv'
  <1>0. /\ rows \in Seq(Row) /\ Len(rows) \in Nat /\ PlaceInv /\ written \in Nat /\ written <= Len(rows)
        /\ UNCHANGED <<queue, drain, orphan, failure, closer, partial, final, handle, buffered, written, prunes>>
    BY LenProperties DEF RowsInv, LiveInv, PlaceInv, writer, logVars
  <1>1. PICK w \in 0 .. written : Drained(w) /\ (~failure => FilesInv(w))
    BY DEF LiveInv
  <1>2. \A i \in 1 .. Len(rows) : rows'[i] = rows[i]
    BY <1>0, AppendProperties
  <1>3. \A i \in 0 .. written - 1 : Item(i)' = Item(i)
    BY <1>0, <1>2 DEF Item
  <1>4. ASSUME NEW m \in 0 .. written, Waits(m) PROVE Waits(m)'
    <2> DEFINE n == Len(queue)
    <2>1. n \in Nat
      BY <1>1, LenProperties DEF Drained
    <2>2. CASE m + n = written /\ \A i \in 1 .. n : queue[i] = Item(m + i - 1)
      <3>1. \A i \in 1 .. n : Item(m + i - 1)' = Item(m + i - 1)
        BY <1>0, <1>3, <2>1, <2>2
      <3> QED
        BY <1>0, <2>2, <3>1 DEF Waits
    <2>3. CASE /\ n > 0 /\ m + n = written + 1 /\ queue[n] = Sentinel /\ Over
               /\ \A i \in 1 .. n - 1 : queue[i] = Item(m + i - 1)
      <3>1. \A i \in 1 .. n - 1 : Item(m + i - 1)' = Item(m + i - 1)
        BY <1>0, <1>3, <2>1, <2>3
      <3> QED
        BY <1>0, <2>3, <3>1 DEF Waits, Sentinel
    <2> QED
      BY <1>4, <2>2, <2>3 DEF Waits
  <1>5. Drained(w)'
    <2>1. w < written => w + 1 \in 0 .. written /\ Item(w)' = Item(w)
      BY <1>0, <1>3
    <2> QED
      BY <1>0, <1>1, <1>4, <2>1 DEF Drained
  <1>6. ASSUME ~failure PROVE FilesInv(w)'
    <2>1. \A f : Exact(f, w) => HoldsOf(f, w, rows') /\ Len(f) = w + 1
      BY <1>0, <1>2, GrownTable DEF Exact, Holds
    <2>2. Exact(partial, w) => Exact(partial, w)'
      BY <1>0, <2>1 DEF Exact, Holds
    <2>3. CASE closer = "none"
      BY <1>0, <1>1, <1>6, <2>2, <2>3 DEF FilesInv
    <2>4. CASE UNCHANGED <<rows, usage>>
      <3>1. (Whole(partial)' <=> Whole(partial)) /\ (Whole(final)' <=> Whole(final))
        BY <1>0, <2>4 DEF Whole, Holds
      <3>2. \A c : build_trailer(c, usage)' = build_trailer(c, usage)
        BY <2>4 DEF build_trailer
      <3> QED
        BY <1>0, <1>1, <1>6, <2>2, <3>1, <3>2 DEF FilesInv
    <2> QED
      BY <2>3, <2>4
  <1> QED
    BY <1>0, <1>1, <1>5, <1>6 DEF LiveInv

\* Steps of the coroutine, its tools and its readers that leave the writer alone.
Rounds ==
    \/ (\E stream \in Streams : Complete(stream)) \/ CompleteRetries \/ CompleteFails
    \/ (\E i \in DOMAIN tool : StartTool(i) \/ AnswerCall(i) \/ FinishTool(i)) \/ EndRound

Quiet ==
    \/ SetPending \/ BeginFails \/ (Begin /\ ~persist) \/ Seeded
    \/ (PersistRow /\ (EnqueueWaits \/ EnqueueRaises) /\ UNCHANGED <<queue, written>>)
    \/ Return \/ Closed \/ Raise \/ (Interrupted /\ UNCHANGED <<drain, orphan>>)
    \/ (\E r \in Reader : Read(r) \/ Lock(r) \/ Join(r)) \/ Cancel \/ UNCHANGED loopVars

LEMMA RoundsKeep ==
    ASSUME Rounds, PlaceInv
    PROVE  /\ UNCHANGED <<writer, written, environment, future>>
           /\ closer = "none" \/ UNCHANGED <<rows, usage>>
           /\ Over => Over'
           /\ pc \in {"complete", "turn"} => pc' \in {"complete", "turn", "abandon"}
           /\ pc \notin {"complete", "turn"} => pc' = pc /\ UNCHANGED <<rows, finished, rounds>>
           /\ pc' = "complete" => ~Unwritten \/ pc = "complete"
           /\ pc' = "complete" => rows' = rows
  <1>1. ASSUME NEW stream \in Streams, Complete(stream)
        PROVE  /\ pc = "complete" /\ pc' \in {"turn", "abandon"}
               /\ UNCHANGED <<writer, written, environment, future>>
    BY <1>1 DEF Complete
  <1>2. ASSUME CompleteRetries \/ CompleteFails
        PROVE  /\ pc = "complete" /\ pc' \in {"complete", "abandon"}
               /\ UNCHANGED <<writer, written, environment, future, rows>>
    BY <1>2 DEF CompleteRetries, CompleteFails
  <1>3. ASSUME NEW i \in DOMAIN tool, StartTool(i) \/ AnswerCall(i)
        PROVE  pc = "turn" /\ pc' = pc /\ UNCHANGED <<writer, written, environment, future>>
    BY <1>3 DEF StartTool, AnswerCall, Dispatching
  <1>4. ASSUME NEW i \in DOMAIN tool, FinishTool(i)
        PROVE  pc' = pc /\ UNCHANGED <<writer, written, environment, future, rows, accounting>>
    BY <1>4 DEF FinishTool
  <1>5. ASSUME EndRound
        PROVE  pc = "turn" /\ pc' = "complete" /\ ~Unwritten /\ UNCHANGED <<writer, written, environment, future, rows>>
    BY <1>5 DEF EndRound, Dispatching
  <1>6. pc \in {"complete", "turn"} => ~Over /\ closer = "none"
    BY DEF PlaceInv, Over
  <1> QED
    BY <1>1, <1>2, <1>3, <1>4, <1>5, <1>6 DEF Rounds, Over, accounting

LEMMA RoundsPlace ==
    ASSUME Rounds, RowsInv, PlaceInv, rows' = rows \/ \E row \in Row : rows' = Append(rows, row)
    PROVE  PlaceInv'
  <1>0. /\ rows \in Seq(Row) /\ Len(rows) \in Nat /\ Len(rows') \in Nat /\ Len(rows) <= Len(rows')
        /\ UNCHANGED <<queue, drain, orphan, failure, closer, partial, final, handle, buffered, written, prunes, persist, future>>
    BY RoundsKeep, LenProperties, AppendProperties DEF RowsInv, writer, logVars, environment
  <1>1. CASE pc \notin {"complete", "turn"}
    <2>1. UNCHANGED <<pc, rows, finished, rounds>>
      BY <1>1, RoundsKeep
    <2> QED
      BY <1>0, <2>1 DEF PlaceInv, Over
  <1>2. CASE pc \in {"complete", "turn"}
    <2>1. pc' \in {"complete", "turn", "abandon"} /\ ~Over /\ (Over => Over')
      BY <1>2, RoundsKeep DEF Over
    <2>2. persist /\ pc' = "complete" => written' = Len(rows')
      BY <1>0, <1>2, RoundsKeep DEF PlaceInv, Unwritten
    <2> QED
      BY <1>0, <1>2, <2>1, <2>2 DEF PlaceInv
  <1> QED
    BY <1>1, <1>2

LEMMA QuietPlace ==
    ASSUME Quiet, PlaceInv
    PROVE  PlaceInv' /\ UNCHANGED <<writer, written, prunes, alive, rows, usage>> /\ (Over => Over')
  <1> DEFINE still == <<queue, drain, orphan, failure, closer, partial, final, handle, buffered, written, prunes, persist,
                        alive, rows, usage, finished, rounds>>
  <1> USE DEF writer, logVars, environment, caller, coroutine, accounting, dispatching
  <1>a. ASSUME UNCHANGED still, UNCHANGED <<pc, future>>
        PROVE  PlaceInv' /\ UNCHANGED <<writer, written, prunes, alive, rows, usage>> /\ (Over => Over')
    BY <1>a DEF PlaceInv, Over
  <1>b. ASSUME UNCHANGED still, UNCHANGED pc, future' # "value"
        PROVE  PlaceInv' /\ UNCHANGED <<writer, written, prunes, alive, rows, usage>> /\ (Over => Over')
    BY <1>b DEF PlaceInv, Over
  <1>c. ASSUME UNCHANGED still, pc \in {"start", "seed", "complete", "turn", "abandon"},
               pc' \in {"abandon", "leaked", "failed", "returned", "stopped"}, pc = "start" => pc' \in {"failed", "stopped"},
               future' = "value" => future = "value" \/ ~persist
        PROVE  PlaceInv' /\ UNCHANGED <<writer, written, prunes, alive, rows, usage>> /\ (Over => Over')
    BY <1>c DEF PlaceInv, Over
  <1>1. CASE SetPending
    BY <1>1, <1>a DEF SetPending
  <1>2. CASE BeginFails
    BY <1>2, <1>c DEF BeginFails, Resolve
  <1>3. CASE Begin /\ ~persist
    <2>1. UNCHANGED still /\ UNCHANGED future /\ pc = "start" /\ pc' = "complete"
      BY <1>3 DEF Begin
    <2> QED
      BY <1>3, <2>1 DEF PlaceInv, Over
  <1>4. CASE Seeded
    <2>1. UNCHANGED still /\ UNCHANGED future /\ pc = "seed" /\ pc' = "complete" /\ ~Unwritten
      BY <1>4 DEF Seeded
    <2>2. persist => written = Len(rows)
      BY <2>1 DEF PlaceInv, Unwritten
    <2> QED
      BY <2>1, <2>2 DEF PlaceInv, Over
  <1>5. CASE PersistRow /\ (EnqueueWaits \/ EnqueueRaises) /\ UNCHANGED <<queue, written>>
    <2>1. UNCHANGED still /\ pc \in {"seed", "turn"}
      BY <1>5 DEF PersistRow
    <2>2. \/ UNCHANGED <<pc, future>>
          \/ pc' \in {"leaked", "abandon"} /\ (future' = "value" => future = "value")
      BY <1>5 DEF PersistRow, Resolve
    <2> QED
      BY <2>1, <2>2, <1>a, <1>c
  <1>6. CASE Return
    BY <1>6, <1>c DEF Return, LoopEnds, Resolve
  <1>7. CASE Closed
    <2>1. /\ UNCHANGED still /\ pc = "closing" /\ pc' = "returned"
          /\ future' = "value" => future = "value" \/ ClosedWell
      BY <1>7 DEF Closed, Resolve
    <2> QED
      BY <2>1 DEF PlaceInv, Over, ClosedWell
  <1>8. CASE Raise
    BY <1>8, <1>c DEF Raise, Resolve
  <1>9. CASE Interrupted /\ UNCHANGED <<drain, orphan>>
    <2>1. UNCHANGED still /\ UNCHANGED future /\ future = "cancelled"
      BY <1>9 DEF Interrupted
    <2>2. CASE pc \in {"join", "closing"}
      <3>1. pc' = "stopped"
        BY <1>9, <2>2 DEF Interrupted, LoopEnds
      <3> QED
        BY <2>1, <2>2, <3>1 DEF PlaceInv, Over
    <2>3. CASE pc \notin {"join", "closing"}
      <3>1. /\ pc \in {"start", "seed", "complete", "turn"} /\ pc' \in {"stopped", "leaked", "abandon"}
            /\ pc = "start" => pc' = "stopped"
        BY <1>9, <2>3 DEF Interrupted, LoopEnds
      <3> QED
        BY <2>1, <3>1, <1>c
    <2> QED
      BY <2>2, <2>3
  <1>10. CASE \E r \in Reader : Read(r) \/ Lock(r) \/ Join(r)
    <2>1. UNCHANGED still /\ UNCHANGED <<pc, future>>
      BY <1>10 DEF Read, Lock, Join
    <2> QED
      BY <2>1, <1>a
  <1>11. CASE Cancel
    BY <1>11, <1>b DEF Cancel
  <1>12. CASE UNCHANGED loopVars
    BY <1>12, <1>a DEF loopVars
  <1> QED
    BY <1>1, <1>2, <1>3, <1>4, <1>5, <1>6, <1>7, <1>8, <1>9, <1>10, <1>11, <1>12 DEF Quiet

LEMMA QuietStep ==
    ASSUME RowsInv, LiveInv, [LoopNext]_loopVars, Rounds \/ Quiet
    PROVE  LiveInv' /\ alive' = alive
  <1>0. PlaceInv /\ (rows' = rows \/ \E row \in Row : rows' = Append(rows, row))
    BY RowsStep DEF LiveInv
  <1>1. CASE Rounds
    <2>1. /\ UNCHANGED <<writer, written, prunes, alive>> /\ (Over => Over')
          /\ closer = "none" \/ UNCHANGED <<rows, usage>>
      BY <1>0, <1>1, RoundsKeep DEF environment
    <2>2. PlaceInv'
      BY <1>0, <1>1, RoundsPlace
    <2> QED
      BY <1>0, <2>1, <2>2, WriterRests
  <1>2. CASE Quiet
    BY <1>0, <1>2, QuietPlace, WriterRests
  <1> QED
    BY <1>1, <1>2

\* The last line is the header or a row.
LEMMA LastLine ==
    ASSUME NEW table, NEW w \in Nat, NEW f, HoldsOf(f, w, table), Len(f) = w + 1
    PROVE  f \in Seq(Line) /\ f # <<>> /\ Last(f).kind # "torn"
  <1>1. f \in Seq(Line) /\ f # <<>>
    BY DEF HoldsOf
  <1>2. Last(f).kind # "torn"
    <2>1. CASE w = 0
      BY <2>1, LineKinds DEF Last, HoldsOf
    <2>2. CASE w > 0
      <3>1. f[w + 1] = build_chunk_record(w - 1, table[w])
        BY <2>2 DEF HoldsOf
      <3> QED
        BY <3>1, LineKinds DEF Last
    <2> QED
      BY <2>1, <2>2
  <1> QED
    BY <1>1, <1>2

\* A line behind the last row of a file.
LEMMA AppendedLine ==
    ASSUME NEW table, NEW w \in Nat, NEW f, HoldsOf(f, w, table), Len(f) = w + 1, NEW line \in Line
    PROVE  /\ AppendLines(f, <<line>>) = Append(f, line) /\ AppendLines(f, <<>>) = f
           /\ f # Missing /\ Append(f, line) # Missing
           /\ Append(f, line) \in Seq(Line) /\ Len(Append(f, line)) = w + 2
           /\ \A i \in 1 .. w + 1 : Append(f, line)[i] = f[i]
           /\ Append(f, line)[w + 2] = line
           /\ line.kind \in {"trailer", "torn"} => HoldsOf(Append(f, line), w, table)
           /\ line = build_chunk_record(w, table[w + 1]) => HoldsOf(Append(f, line), w + 1, table)
  <1>1. f \in Seq(Line) /\ f # Missing /\ f # <<>>
    BY FilesAreSequences DEF HoldsOf
  <1>2. /\ Append(f, line) \in Seq(Line) /\ Len(Append(f, line)) = w + 2
        /\ \A i \in 1 .. w + 1 : Append(f, line)[i] = f[i]
        /\ Append(f, line)[w + 2] = line
    BY <1>1, AppendProperties
  <1>3. Last(f).kind # "torn"
    BY LastLine
  <1>4. AppendLines(f, <<line>>) = f \o <<line>> /\ AppendLines(f, <<>>) = f \o <<>>
    BY <1>3 DEF AppendLines
  <1>5. f \o <<line>> = Append(f, line) /\ f \o <<>> = f
    BY <1>1, AppendIsConcat, ConcatEmptySeq
  <1>6. Append(f, line) # Missing
    BY <1>2, FilesAreSequences
  <1>7. f[1] = build_header /\ \A i \in 1 .. w : f[i + 1] = build_chunk_record(i - 1, table[i])
    BY DEF HoldsOf
  <1> DEFINE g == Append(f, line)
  <1>8. g[1] = build_header /\ \A i \in 1 .. w : g[i + 1] = build_chunk_record(i - 1, table[i])
    BY <1>2, <1>7
  <1> HIDE DEF g
  <1>9. g \in Seq(Line) /\ Len(g) = w + 2 /\ g[w + 2] = line
    BY <1>2 DEF g
  <1>10. line.kind \in {"trailer", "torn"} => HoldsOf(g, w, table)
    BY <1>8, <1>9 DEF HoldsOf
  <1>11. line = build_chunk_record(w, table[w + 1]) => HoldsOf(g, w + 1, table)
    <2> SUFFICES ASSUME line = build_chunk_record(w, table[w + 1]) PROVE HoldsOf(g, w + 1, table)
      OBVIOUS
    <2>1. ASSUME NEW i \in 1 .. w + 1 PROVE g[i + 1] = build_chunk_record(i - 1, table[i])
      <3>1. CASE i = w + 1
        BY <1>9, <3>1
      <3>2. CASE i \in 1 .. w
        BY <1>8, <3>2
      <3> QED
        BY <3>1, <3>2
    <2> QED
      BY <1>8, <1>9, <2>1 DEF HoldsOf
  <1> QED
    BY <1>1, <1>2, <1>4, <1>5, <1>6, <1>10, <1>11 DEF g

LEMMA CountedChunks ==
    ASSUME NEW f \in Seq(Line)
    PROVE  Len(ChunksIn(f)) \in Nat
  <1>1. Len(f) \in Nat
    BY LenProperties
  <1>2. IsFiniteSet(1 .. Len(f))
    BY <1>1, FS_Interval
  <1>3. LinesOf(f, "chunk") \subseteq 1 .. Len(f)
    BY DEF LinesOf
  <1>4. Cardinality(LinesOf(f, "chunk")) \in Nat
    BY <1>2, <1>3, FS_Subset, FS_CardinalityType
  <1> QED
    BY <1>4 DEF ChunksIn

\* The header.
LEMMA WriterStarts ==
    ASSUME RowsInv, LiveInv, Begin, persist
    PROVE  LiveInv' /\ alive' = alive
  <1>0. /\ pc = "start" /\ pc' = "seed" /\ handle' = "open" /\ PlaceInv
        /\ partial' = AppendLines(IF partial = Missing THEN <<>> ELSE partial, <<build_header>>)
        /\ UNCHANGED <<queue, drain, orphan, failure, closer, final, buffered, written, prunes, persist, alive,
                       rows, usage, finished, rounds, future>>
    BY DEF Begin, StartWriter, OpenWriter, LiveInv, environment, accounting
  <1>1. /\ partial = Missing /\ final = Missing /\ buffered = <<>> /\ queue = <<>> /\ drain.at = "idle"
        /\ closer = "none" /\ written = 0 /\ future # "value"
    BY <1>0 DEF PlaceInv
  <1>2. partial' = <<build_header>>
    BY <1>0, <1>1, LineKinds, ConcatEmptySeq DEF AppendLines
  <1>3. Exact(partial, 0)' /\ partial' # Missing
    <2>1. <<build_header>> \in Seq(Line) /\ Len(<<build_header>>) = 1 /\ <<build_header>>[1] = build_header
      BY LineKinds
    <2>2. ASSUME NEW f, f = <<build_header>>, NEW table PROVE HoldsOf(f, 0, table) /\ Len(f) = 0 + 1 /\ f # Missing
      <3>1. f \in Seq(Line) /\ Len(f) = 1 /\ f[1] = build_header
        BY <2>1, <2>2
      <3>2. 0 + 1 <= Len(f) /\ 1 .. 0 = {} /\ 0 + 2 .. Len(f) = {}
        BY <3>1
      <3> QED
        BY <3>1, <3>2, FilesAreSequences DEF HoldsOf
    <2> QED
      BY <1>2, <2>2 DEF Exact, Holds
  <1>4. PlaceInv'
    BY <1>0, <1>1 DEF PlaceInv, Over
  <1>5. PICK w \in 0 .. written : Drained(w)
    BY DEF LiveInv
  <1>6. Drained(0)'
    <2>1. Waits(0)'
      BY <1>0, <1>1 DEF Waits
    <2> QED
      BY <1>0, <1>1, <1>5, <2>1 DEF Drained
  <1>7. FilesInv(0)'
    BY <1>0, <1>1, <1>3 DEF FilesInv
  <1> QED
    BY <1>0, <1>1, <1>4, <1>6, <1>7 DEF LiveInv

\* Rows and the sentinel go into the queue.
LEMMA QueueFills ==
    ASSUME RowsInv, LiveInv, (PersistRow /\ Enqueues) \/ SendSentinel
    PROVE  LiveInv' /\ alive' = alive
  <1>0. /\ rows \in Seq(Row) /\ Len(rows) \in Nat /\ PlaceInv /\ written \in Nat
        /\ \A i \in 1 .. Len(rows) : rows[i] \in Row
    BY LenProperties, ElementOfSeq DEF RowsInv, LiveInv, PlaceInv
  <1>1. PICK w \in 0 .. written : Drained(w) /\ (~failure => FilesInv(w))
    BY DEF LiveInv
  <1>2. /\ pc \in {"seed", "turn", "complete"} /\ persist
        /\ UNCHANGED <<drain, orphan, failure, closer, partial, final, handle, buffered, prunes, persist, alive,
                       rows, usage, finished, rounds, future>>
    BY DEF PersistRow, Enqueues, SendSentinel, LoopEnds, Unwritten, environment, accounting, coroutine, logVars
  <1>3. ~Over /\ drain.at # "exited" /\ closer = "none" /\ handle # "none" /\ queue \in Seq(Item0)
    BY <1>0, <1>1, <1>2 DEF PlaceInv, Over, Drained
  <1> DEFINE n == Len(queue)
  <1>4. n \in Nat
    BY <1>3, LenProperties
  <1>5. \A i \in Nat : Item(i)' = Item(i)
    BY <1>2 DEF Item
  <1>6. CASE PersistRow /\ Enqueues
    <2>1. queue' = Append(queue, Item(written)) /\ written' = written + 1 /\ written < Len(rows) /\ pc' = pc
      BY <1>6, <1>0 DEF PersistRow, Enqueues, Unwritten, NextItem, Item, EnqueueWaits, EnqueueRaises
    <2>2. Item(written) \in Item0
      BY <1>0, <2>1 DEF Item, Item0
    <2>3. /\ queue' \in Seq(Item0) /\ Len(queue') = n + 1 /\ queue'[n + 1] = Item(written)
          /\ \A i \in 1 .. n : queue'[i] = queue[i]
      BY <1>3, <2>1, <2>2, AppendProperties
    <2>4. ASSUME NEW m \in Nat, Waits(m) PROVE Waits(m)'
      <3>1. m + n = written /\ \A i \in 1 .. n : queue[i] = Item(m + i - 1)
        BY <1>3, <2>4 DEF Waits
      <3>2. \A i \in 1 .. n + 1 : queue'[i] = Item(m + i - 1)
        <4> TAKE i \in 1 .. n + 1
        <4>1. CASE i = n + 1
          BY <1>4, <2>3, <3>1, <4>1
        <4>2. CASE i \in 1 .. n
          BY <2>3, <3>1, <4>2
        <4> QED
          BY <1>4, <4>1, <4>2
      <3>3. \A i \in 1 .. n + 1 : Item(m + i - 1)' = Item(m + i - 1)
        BY <1>4, <1>5
      <3>4. m + (n + 1) = written'
        BY <1>0, <1>4, <2>1, <3>1
      <3> QED
        BY <2>3, <3>2, <3>3, <3>4 DEF Waits
    <2>5. Drained(w)'
      <3>1. w \in Nat /\ w + 1 \in Nat /\ (w < written => w < written')
        BY <1>0, <2>1
      <3> QED
        BY <1>1, <1>2, <1>3, <1>5, <2>3, <2>4, <3>1 DEF Drained
    <2>6. PlaceInv'
      BY <1>0, <1>2, <1>3, <1>6, <2>1 DEF PlaceInv, Over, PersistRow
    <2>7. ~failure => FilesInv(w)'
      BY <1>1, <1>2, <1>3 DEF FilesInv, Exact, Holds
    <2> QED
      BY <1>0, <1>2, <2>1, <2>5, <2>6, <2>7 DEF LiveInv
  <1>7. CASE SendSentinel
    <2>1. /\ queue' = Append(queue, Sentinel) /\ written' = written /\ pc = "complete" /\ pc' = "join"
          /\ finished \/ rounds = MaxToolRounds
      BY <1>7 DEF SendSentinel, LoopEnds, coroutine
    <2>2. Sentinel \in Item0
      BY DEF Sentinel, Item0
    <2>3. /\ queue' \in Seq(Item0) /\ Len(queue') = n + 1 /\ queue'[n + 1] = Sentinel
          /\ \A i \in 1 .. n : queue'[i] = queue[i]
      BY <1>3, <2>1, <2>2, AppendProperties
    <2>4. Over'
      BY <1>0, <1>2, <2>1 DEF Over, PlaceInv
    <2>5. ASSUME NEW m \in Nat, Waits(m) PROVE Waits(m)'
      <3>1. m + n = written /\ \A i \in 1 .. n : queue[i] = Item(m + i - 1)
        BY <1>3, <2>5 DEF Waits
      <3>2. \A i \in 1 .. n : queue'[i] = Item(m + i - 1) /\ Item(m + i - 1)' = Item(m + i - 1)
        BY <1>4, <1>5, <2>3, <3>1
      <3>3. m + (n + 1) = written' + 1 /\ n + 1 > 0 /\ (n + 1) - 1 = n
        <4>1. m + n = written /\ written' = written
          BY <2>1, <3>1
        <4> HIDE DEF n
        <4> QED
          BY <1>0, <1>4, <4>1
      <3>4. Sentinel' = Sentinel
        BY DEF Sentinel
      <3>5. Len(queue') > 0 /\ m + Len(queue') = written' + 1 /\ queue'[Len(queue')] = Sentinel'
        BY <2>3, <3>3, <3>4
      <3>6. \A i \in 1 .. Len(queue') - 1 : queue'[i] = Item(m + i - 1)'
        BY <2>3, <3>2, <3>3
      <3> QED
        BY <2>4, <3>5, <3>6 DEF Waits
    <2>6. Drained(w)'
      <3>1. w \in Nat /\ w + 1 \in Nat /\ (w < written => w < written')
        BY <1>0, <2>1
      <3> QED
        BY <1>1, <1>2, <1>3, <1>5, <2>3, <2>5, <3>1 DEF Drained
    <2>7. PlaceInv'
      BY <1>0, <1>2, <1>3, <2>1, <2>4 DEF PlaceInv
    <2>8. ~failure => FilesInv(w)'
      BY <1>1, <1>2, <1>3 DEF FilesInv, Exact, Holds
    <2> QED
      BY <1>0, <1>2, <2>1, <2>6, <2>7, <2>8 DEF LiveInv
  <1> QED
    BY <1>6, <1>7

\* The drain task takes the next row, or the sentinel, which is the last item.
LEMMA QueueDrains ==
    ASSUME RowsInv, LiveInv, DrainGet
    PROVE  LiveInv' /\ alive' = alive
  <1>0. /\ rows \in Seq(Row) /\ Len(rows) \in Nat /\ PlaceInv /\ written \in Nat
    BY LenProperties DEF RowsInv, LiveInv, PlaceInv
  <1>1. PICK w \in 0 .. written : Drained(w) /\ (~failure => FilesInv(w))
    BY DEF LiveInv
  <1>2. /\ drain.at = "idle" /\ queue # <<>> /\ queue' = Tail(queue)
        /\ drain' = IF Head(queue) = Sentinel THEN [at |-> "exited"] ELSE [at |-> "writing", item |-> Head(queue)]
        /\ UNCHANGED <<orphan, failure, closer, partial, final, handle, buffered, written, prunes, persist, alive,
                       rows, usage, finished, rounds, future, pc>>
    BY DEF DrainGet, environment, accounting, coroutine, logVars
  <1> DEFINE n == Len(queue)
  <1>3. queue \in Seq(Item0) /\ orphan = None /\ Waits(w) /\ closer = "none" /\ handle # "none"
    BY <1>0, <1>1, <1>2 DEF Drained, PlaceInv
  <1>4. /\ n \in Nat /\ n > 0 /\ Head(queue) = queue[1] /\ queue' \in Seq(Item0) /\ Len(queue') = n - 1
        /\ \A i \in 1 .. n - 1 : queue'[i] = queue[i + 1]
    BY <1>2, <1>3, LenProperties, HeadTailProperties
  <1>5. \A i \in Nat : Item(i)' = Item(i) /\ Item(i) # Sentinel
    BY <1>2 DEF Item, Sentinel
  <1>6. (Over' <=> Over) /\ Sentinel' = Sentinel
    BY <1>2 DEF Over, Sentinel
  <1>7. ~failure => FilesInv(w)'
    BY <1>1, <1>2, <1>3 DEF FilesInv, Exact, Holds
  <1>8. CASE Head(queue) = Sentinel
    <2>1. w = written /\ Over
      <3>1. w + 1 - 1 = w /\ w \in Nat
        BY <1>0
      <3>2. ~(w + n = written /\ \A i \in 1 .. n : queue[i] = Item(w + i - 1))
        BY <1>4, <1>5, <1>8, <3>1
      <3>3. /\ w + n = written + 1 /\ queue[n] = Sentinel /\ Over
            /\ \A i \in 1 .. n - 1 : queue[i] = Item(w + i - 1)
        BY <1>3, <3>2 DEF Waits
      <3>4. n = 1
        BY <1>4, <1>5, <1>8, <3>1, <3>3
      <3> QED
        BY <1>0, <3>3, <3>4
    <2>2. drain'.at = "exited"
      BY <1>2, <1>8
    <2>3. Drained(w)' /\ PlaceInv'
      BY <1>0, <1>2, <1>3, <1>4, <1>6, <2>1, <2>2 DEF Drained, PlaceInv
    <2> QED
      BY <1>0, <1>2, <1>7, <2>3 DEF LiveInv
  <1>9. CASE Head(queue) # Sentinel
    <2>1. drain'.at = "writing" /\ drain'.item = queue[1]
      BY <1>2, <1>4, <1>9
    <2>2. w \in Nat /\ w + 1 - 1 = w
      BY <1>0
    <2>3. w < written /\ queue[1] = Item(w) /\ Waits(w + 1)'
      <3>1. CASE w + n = written /\ \A i \in 1 .. n : queue[i] = Item(w + i - 1)
        <4>1. \A i \in 1 .. n - 1 : queue'[i] = Item(w + 1 + i - 1)
          <5> TAKE i \in 1 .. n - 1
          <5>1. i + 1 \in 1 .. n /\ w + (i + 1) - 1 = w + 1 + i - 1
            BY <1>4, <2>2
          <5> QED
            BY <1>4, <3>1, <5>1
        <4>2. \A i \in 1 .. n - 1 : Item(w + 1 + i - 1)' = Item(w + 1 + i - 1)
          BY <1>4, <1>5, <2>2
        <4>3. w + 1 + (n - 1) = written' /\ w < written
          BY <1>2, <1>4, <2>2, <3>1
        <4> QED
          BY <1>4, <2>2, <3>1, <4>1, <4>2, <4>3 DEF Waits
      <3>2. CASE /\ w + n = written + 1 /\ queue[n] = Sentinel /\ Over
                 /\ \A i \in 1 .. n - 1 : queue[i] = Item(w + i - 1)
        <4>0. n > 1
          BY <1>4, <1>9, <3>2
        <4>1. \A i \in 1 .. n - 1 - 1 : queue'[i] = Item(w + 1 + i - 1)
          <5> TAKE i \in 1 .. n - 1 - 1
          <5>1. i + 1 \in 1 .. n - 1 /\ i \in 1 .. n - 1 /\ w + (i + 1) - 1 = w + 1 + i - 1
            BY <1>4, <2>2
          <5> QED
            BY <1>4, <3>2, <5>1
        <4>2. \A i \in 1 .. n - 1 - 1 : Item(w + 1 + i - 1)' = Item(w + 1 + i - 1)
          BY <1>4, <1>5, <2>2
        <4>3. w + 1 + (n - 1) = written' + 1 /\ n - 1 > 0 /\ queue'[n - 1] = Sentinel
          BY <1>2, <1>4, <2>2, <3>2, <4>0
        <4>4. w < written /\ queue[1] = Item(w)
          <5>1. queue[1] = Item(w + 1 - 1)
            BY <1>4, <3>2, <4>0
          <5>2. w + n = written + 1
            BY <3>2
          <5> HIDE DEF n
          <5>3. w < written
            BY <1>0, <1>4, <2>2, <4>0, <5>2
          <5> QED
            BY <2>2, <5>1, <5>3
        <4>5. /\ Len(queue') > 0 /\ (w + 1) + Len(queue') = written' + 1
              /\ queue'[Len(queue')] = Sentinel' /\ Over'
          BY <1>4, <1>6, <2>2, <3>2, <4>3
        <4>6. \A i \in 1 .. Len(queue') - 1 : queue'[i] = Item((w + 1) + i - 1)'
          BY <1>4, <4>1, <4>2
        <4> QED
          BY <4>4, <4>5, <4>6 DEF Waits
      <3> QED
        BY <1>3, <1>4, <3>1, <3>2 DEF Waits
    <2>4. Drained(w)' /\ PlaceInv'
      BY <1>0, <1>2, <1>3, <1>4, <1>5, <1>6, <2>1, <2>2, <2>3 DEF Drained, PlaceInv
    <2> QED
      BY <1>0, <1>2, <1>7, <2>4 DEF LiveInv
  <1> QED
    BY <1>8, <1>9

\* The next row goes behind those that the file holds.
LEMMA RowWritten ==
    ASSUME RowsInv, PlaceInv, NEW w \in 0 .. written, w < written, FilesInv(w), closer = "none", handle # "none",
           WriteRecord(LineOf(Item(w))), UNCHANGED <<rows, closer, prunes>>
    PROVE  FilesInv(w + 1)'
  <1>0. /\ rows \in Seq(Row) /\ written \in Nat /\ written <= Len(rows) /\ w \in Nat
        /\ UNCHANGED <<final, handle, rows, closer, prunes>> /\ buffered = <<>> /\ buffered' = <<>>
    BY DEF RowsInv, PlaceInv, WriteRecord, FilesInv
  <1> DEFINE line == build_chunk_record(w, rows[w + 1])
  <1>1. rows[w + 1] \in Row
    BY <1>0, ElementOfSeq
  <1>2. line \in Line /\ LineOf(Item(w)) = line
    BY <1>0, <1>1, LineKinds DEF LineOf, Item
  <1>3. Append(<<>>, line) = <<line>>
    OBVIOUS
  <1>4. partial' = IF partial = Missing THEN Missing ELSE AppendLines(partial, <<line>>)
    BY <1>0, <1>2, <1>3 DEF WriteRecord
  <1>5. CASE partial = Missing
    BY <1>0, <1>4, <1>5 DEF FilesInv
  <1>6. CASE partial # Missing
    <2>1. HoldsOf(partial, w, rows) /\ Len(partial) = w + 1
      BY <1>6 DEF FilesInv, Exact, Holds
    <2> HIDE DEF line
    <2>a. /\ AppendLines(partial, <<line>>) = Append(partial, line) /\ Append(partial, line) # Missing
          /\ Len(Append(partial, line)) = w + 2
      BY <1>0, <1>2, <2>1, AppendedLine
    <2>2. partial' = Append(partial, line) /\ partial' # Missing /\ Len(partial') = (w + 1) + 1
      BY <1>0, <1>4, <1>6, <2>a
    <2>3. HoldsOf(partial', w + 1, rows)
      BY ZenonT(60), <1>0, <1>2, <2>1, <2>2, AppendedLine DEF line
    <2>4. Exact(partial, w + 1)'
      BY <1>0, <2>2, <2>3 DEF Exact, Holds
    <2> QED
      BY <1>0, <2>2, <2>4 DEF FilesInv
  <1> QED
    BY <1>5, <1>6

\* The thread of the drain task, or the one it left behind, writes its row.
LEMMA RowsAreWritten ==
    ASSUME RowsInv, LiveInv, DrainWrite \/ OrphanWrite
    PROVE  LiveInv' /\ alive' = alive
  <1>0. rows \in Seq(Row) /\ Len(rows) \in Nat /\ PlaceInv /\ written \in Nat
    BY LenProperties DEF RowsInv, LiveInv, PlaceInv
  <1>1. PICK w \in 0 .. written : Drained(w) /\ (~failure => FilesInv(w))
    BY DEF LiveInv
  <1>2. UNCHANGED <<pc, rows, written, usage, finished, rounds, queue, closer, future, prunes, persist, alive>>
    BY DEF DrainWrite, OrphanWrite, coroutine, accounting, environment
  <1>3. UNCHANGED <<final, handle>>
    BY DEF DrainWrite, OrphanWrite, WriteRecord, WriteFails, logVars
  <1>4. (Over' <=> Over) /\ Sentinel' = Sentinel /\ \A i \in Nat : Item(i)' = Item(i)
    BY <1>2 DEF Over, Sentinel, Item
  <1>5. CASE DrainWrite
    <2>1. drain.at = "writing" /\ drain' = [at |-> "idle"] /\ orphan' = orphan
      BY <1>5 DEF DrainWrite
    <2>2. closer = "none" /\ handle # "none" /\ orphan = None /\ w < written /\ drain.item = Item(w) /\ Waits(w + 1)
      BY <1>0, <1>1, <2>1 DEF PlaceInv, Drained
    <2>3. Waits(w + 1)'
      <3>1. queue \in Seq(Item0) /\ Len(queue) \in Nat /\ w + 1 \in Nat
        BY <1>1, LenProperties DEF Drained
      <3>2. \A i \in 1 .. Len(queue) : Item((w + 1) + i - 1)' = Item((w + 1) + i - 1)
        BY <1>4, <3>1
      <3>3. CASE (w + 1) + Len(queue) = written /\ \A i \in 1 .. Len(queue) : queue[i] = Item((w + 1) + i - 1)
        BY <1>2, <3>2, <3>3 DEF Waits
      <3>4. CASE /\ Len(queue) > 0 /\ (w + 1) + Len(queue) = written + 1 /\ queue[Len(queue)] = Sentinel /\ Over
                 /\ \A i \in 1 .. Len(queue) - 1 : queue[i] = Item((w + 1) + i - 1)
        <4>1. \A i \in 1 .. Len(queue) - 1 : queue[i] = Item((w + 1) + i - 1)'
          BY <3>1, <3>2, <3>4
        <4> QED
          BY <1>2, <1>4, <3>4, <4>1 DEF Waits
      <3> QED
        BY <2>2, <3>3, <3>4 DEF Waits
    <2>4. Drained(w + 1)'
      BY <1>1, <1>2, <2>1, <2>2, <2>3 DEF Drained
    <2>5. PlaceInv'
      BY <1>0, <1>2, <1>3, <1>4, <2>1, <2>2 DEF PlaceInv
    <2>6. ~failure' => FilesInv(w + 1)'
      <3> SUFFICES ASSUME ~failure' PROVE FilesInv(w + 1)'
        OBVIOUS
      <3>1. WriteRecord(LineOf(drain.item)) /\ ~failure
        BY <1>5 DEF DrainWrite
      <3> QED
        BY <1>0, <1>1, <1>2, <2>2, <3>1, RowWritten
    <2>7. w + 1 \in 0 .. written'
      BY <1>0, <1>2, <2>2
    <2> QED
      BY <1>2, <2>4, <2>5, <2>6, <2>7 DEF LiveInv
  <1>6. CASE OrphanWrite
    <2>1. orphan # None /\ orphan' = None /\ drain' = drain /\ failure' = failure
      BY <1>6 DEF OrphanWrite
    <2>2. /\ closer = "none" /\ handle # "none" /\ drain.at = "cancelled" /\ w < written /\ orphan = Item(w)
      BY <1>0, <1>1, <2>1 DEF PlaceInv, Drained
    <2>3. Drained(w)' /\ Drained(w + 1)'
      BY <1>1, <1>2, <2>1, <2>2 DEF Drained
    <2>4. PlaceInv'
      BY <1>0, <1>2, <1>3, <1>4, <2>1, <2>2 DEF PlaceInv
    <2>5. CASE handle = "open"
      <3>1. ~failure => FilesInv(w + 1)'
        BY <1>0, <1>1, <1>2, <1>6, <2>2, <2>5, RowWritten DEF OrphanWrite
      <3>2. w + 1 \in 0 .. written'
        BY <1>0, <1>2, <2>2
      <3> QED
        BY <1>2, <2>1, <2>3, <2>4, <3>1, <3>2 DEF LiveInv
    <2>6. CASE handle # "open"
      <3>1. UNCHANGED <<partial, buffered>>
        BY <1>6, <2>6 DEF OrphanWrite, logVars
      <3>2. ~failure => FilesInv(w)'
        BY <1>1, <1>2, <1>3, <2>2, <3>1 DEF FilesInv, Exact, Holds
      <3> QED
        BY <1>2, <2>1, <2>3, <2>4, <3>2 DEF LiveInv
    <2> QED
      BY <2>5, <2>6
  <1> QED
    BY <1>5, <1>6

\* A trailer behind all rows ends a file.
LEMMA TrailerWritten ==
    ASSUME RowsInv, NEW f, NEW w \in Nat, w = Len(rows), Exact(f, w), NEW c \in Nat
    PROVE  /\ AppendLines(f, <<build_trailer(c, usage)>>) # Missing
           /\ Whole(AppendLines(f, <<build_trailer(c, usage)>>))
  <1> DEFINE line == build_trailer(c, usage)
  <1>1. line \in Line /\ line.kind = "trailer"
    BY LineKinds DEF RowsInv, BudgetInv
  <1>2. HoldsOf(f, w, rows) /\ Len(f) = w + 1
    BY DEF Exact, Holds
  <1> HIDE DEF line
  <1>3. /\ AppendLines(f, <<line>>) = Append(f, line) /\ Append(f, line) # Missing
        /\ Len(Append(f, line)) = w + 2 /\ Append(f, line)[w + 2] = line
        /\ HoldsOf(Append(f, line), w, rows)
    BY <1>1, <1>2, AppendedLine
  <1> QED
    BY <1>3 DEF Whole, Holds, line

LEMMA NothingAppended ==
    ASSUME NEW f \in Seq(Line)
    PROVE  AppendLines(f, <<>>) = f
  BY ConcatEmptySeq DEF AppendLines

\* aclose: the trailer, the release and the rename.
LEMMA FileCloses ==
    ASSUME RowsInv, LiveInv, StartClose \/ CloseStep
    PROVE  LiveInv' /\ alive' = alive
  <1>0. rows \in Seq(Row) /\ Len(rows) \in Nat /\ PlaceInv /\ written \in Nat
    BY LenProperties DEF RowsInv, LiveInv, PlaceInv
  <1>1. PICK w \in 0 .. written : Drained(w) /\ (~failure => FilesInv(w))
    BY DEF LiveInv
  <1>2. UNCHANGED <<rows, written, usage, finished, rounds, queue, drain, orphan, failure, future, prunes, persist, alive>>
    BY DEF StartClose, CloseStep, coroutine, accounting, environment
  <1>3. drain.at = "exited" /\ Over /\ w = Len(rows) /\ w = written /\ w \in Nat /\ handle # "none"
    BY <1>0, <1>1 DEF StartClose, CloseStep, DrainJoined, PlaceInv, Drained, Over
  <1>4. Drained(w)'
    BY <1>1, <1>2, <1>3 DEF Drained
  <1>5. CASE StartClose
    <2>1. pc = "join" /\ pc' = "closing" /\ closer' = "trailer" /\ UNCHANGED <<partial, final, handle, buffered>>
      BY <1>5 DEF StartClose, logVars
    <2>2. closer = "none" /\ Over'
      BY <1>0, <1>2, <1>3, <2>1 DEF PlaceInv, Over
    <2>3. PlaceInv'
      BY <1>0, <1>2, <1>3, <2>1, <2>2 DEF PlaceInv
    <2>4. ~failure => FilesInv(w)'
      BY <1>1, <1>2, <2>1, <2>2 DEF FilesInv, Exact, Holds
    <2> QED
      BY <1>0, <1>2, <1>4, <2>3, <2>4 DEF LiveInv
  <1>6. CASE CloseStep
    <2>1. pc' = pc /\ (Over' <=> Over)
      BY <1>2, <1>6 DEF CloseStep, Over
    <2>2. closer # "none" /\ closer' # "none" /\ handle' # "none" /\ closer # "done"
      BY <1>3, <1>6 DEF CloseStep, WriteRecord, WriteFails, Release, Rename
    <2>3. final' # Missing => closer' = "done"
      BY <1>0, <1>6 DEF CloseStep, WriteRecord, WriteFails, Release, Rename, PlaceInv
    <2>4. PlaceInv'
      BY <1>0, <1>2, <1>3, <2>1, <2>2, <2>3 DEF PlaceInv
    <2>5. ASSUME ~failure PROVE FilesInv(w)'
      <3>0. FilesInv(w) /\ (closer # "done" => final = Missing)
        BY <1>0, <1>1, <2>5 DEF PlaceInv
      <3>1. CASE closer = "trailer" /\ closer' = "release"
        <4>1. \E c \in Nat : WriteRecord(build_trailer(c, usage))
          <5>1. (IF partial = Missing THEN <<>> ELSE partial) \in Seq(Line)
            BY <3>0, <3>1 DEF FilesInv, Exact, Holds, HoldsOf
          <5> QED
            BY <1>6, <3>1, <5>1, CountedChunks DEF CloseStep
        <4>2. PICK c \in Nat : WriteRecord(build_trailer(c, usage))
          BY <4>1
        <4>3. /\ partial' = IF partial = Missing THEN Missing ELSE AppendLines(partial, <<build_trailer(c, usage)>>)
              /\ buffered' = <<>> /\ final' = final /\ handle' = handle
          BY <3>0, <3>1, <4>2 DEF WriteRecord, FilesInv
        <4>4. partial # Missing => partial' # Missing /\ Whole(partial')
          BY <1>3, <3>0, <3>1, <4>3, TrailerWritten DEF FilesInv
        <4>5. Whole(partial') => Whole(partial)'
          BY <1>2 DEF Whole, Holds
        <4> QED
          BY <1>2, <3>0, <3>1, <4>3, <4>4, <4>5 DEF FilesInv
      <3>2. CASE closer = "trailer" /\ closer' = "undo"
        <4>1. /\ buffered' \in {buffered, Append(buffered, build_trailer(0, usage))}
              /\ UNCHANGED <<partial, final, handle>> /\ buffered = <<>>
          BY <1>6, <3>0, <3>2 DEF CloseStep, WriteFails, FilesInv
        <4>2. buffered' = <<>> \/ buffered' = <<build_trailer(0, usage)>>
          BY <4>1
        <4>3. build_trailer(0, usage) = build_trailer(0, usage)' /\ 0 \in Nat
          BY <1>2
        <4>4. Exact(partial, w)' <=> Exact(partial, w)
          BY <1>2, <4>1 DEF Exact, Holds
        <4> QED
          BY <1>2, <3>0, <3>2, <4>1, <4>2, <4>3, <4>4 DEF FilesInv
      <3>3. CASE closer = "release" /\ closer' = "rename"
        <4>1. UNCHANGED <<partial, final>>
          <5>1. partial # Missing => partial \in Seq(Line) /\ buffered = <<>>
            BY <3>0, <3>3 DEF FilesInv, Whole, Holds, HoldsOf
          <5> QED
            BY <1>6, <3>3, <5>1, NothingAppended DEF CloseStep, Release
        <4>2. Whole(partial)' <=> Whole(partial)
          BY <1>2, <4>1 DEF Whole, Holds
        <4> QED
          BY <1>2, <1>3, <3>0, <3>3, <4>1, <4>2 DEF FilesInv
      <3>4. CASE closer = "undo" /\ closer' = "failed"
        <4>1. PICK flushed \in BOOLEAN : Release(flushed)
          BY <1>6, <3>4 DEF CloseStep
        <4>2. /\ partial' = (IF flushed /\ partial # Missing THEN AppendLines(partial, buffered) ELSE partial)
              /\ final' = final
          BY <4>1 DEF Release
        <4>3. partial # Missing => Exact(partial, w) /\ partial \in Seq(Line)
          BY <3>0, <3>4 DEF FilesInv, Exact, Holds, HoldsOf
        <4>4. partial' = partial \/ (partial' # Missing /\ Whole(partial'))
          <5>1. CASE buffered = <<>>
            BY <4>2, <4>3, <5>1, NothingAppended
          <5>2. CASE \E c \in Nat : buffered = <<build_trailer(c, usage)>>
            BY <1>3, <4>2, <4>3, <5>2, TrailerWritten
          <5> QED
            BY <3>0, <3>4, <5>1, <5>2 DEF FilesInv
        <4>5. (Whole(partial') => Whole(partial)') /\ (Exact(partial', w) <=> Exact(partial, w)')
          BY <1>2 DEF Whole, Exact, Holds
        <4> QED
          BY <1>2, <1>3, <3>0, <3>4, <4>2, <4>3, <4>4, <4>5 DEF FilesInv
      <3>5. CASE closer = "rename" /\ closer' = "done"
        <4>1. Rename
          BY <1>6, <3>5 DEF CloseStep
        <4>2. Whole(final') => Whole(final)'
          BY <1>2 DEF Whole, Holds
        <4>3. partial' = Missing /\ (final' = Missing \/ Whole(final'))
          BY <3>0, <3>5, <4>1 DEF Rename, FilesInv
        <4>4. prunes = 0 => final' # Missing
          BY <1>3, <3>0, <3>5, <4>1 DEF Rename, FilesInv
        <4> QED
          BY <1>2, <3>5, <4>2, <4>3, <4>4 DEF FilesInv
      <3> QED
        BY <1>6, <3>1, <3>2, <3>3, <3>4, <3>5 DEF CloseStep
    <2> QED
      BY <1>0, <1>2, <1>4, <2>4, <2>5 DEF LiveInv
  <1> QED
    BY <1>5, <1>6

\* The drain task is cancelled, and the file released without a trailer.
LEMMA WriterIsAbandoned ==
    ASSUME RowsInv, LiveInv, Abandon \/ (Interrupted /\ pc = "join") \/ AbandonRelease
    PROVE  LiveInv' /\ alive' = alive
  <1>0. rows \in Seq(Row) /\ Len(rows) \in Nat /\ PlaceInv /\ written \in Nat
    BY LenProperties DEF RowsInv, LiveInv, PlaceInv
  <1>1. PICK w \in 0 .. written : Drained(w) /\ (~failure => FilesInv(w))
    BY DEF LiveInv
  <1>2. UNCHANGED <<rows, written, usage, finished, rounds, queue, failure, closer, prunes, persist, alive>>
    BY DEF Abandon, Interrupted, AbandonRelease, coroutine, accounting, environment
  <1>3. \A i \in Nat : Item(i)' = Item(i)
    BY <1>2 DEF Item
  <1>4. pc \in {"abandon", "join", "releasing"} /\ closer = "none" /\ handle # "none" /\ final = Missing /\ future # "value"
    BY <1>0 DEF Abandon, Interrupted, AbandonRelease, PlaceInv, Over
  <1>5. CASE Abandon \/ (Interrupted /\ pc = "join")
    <2>1. /\ pc' \in {"releasing", "stopped"} /\ (pc' = "releasing" => persist)
          /\ drain' = [at |-> "cancelled"] /\ UNCHANGED <<partial, final, handle, buffered, future>>
          /\ orphan' = (IF drain.at = "writing" THEN drain.item ELSE orphan)
      BY <1>5, LoopConstants DEF Abandon, Interrupted, LoopEnds, CancelDrain, logVars
    <2>2. Drained(w)'
      BY <1>1, <1>2, <1>3, <2>1 DEF Drained
    <2>3. PlaceInv'
      BY <1>0, <1>2, <1>4, <2>1 DEF PlaceInv
    <2>4. ~failure => FilesInv(w)'
      BY <1>1, <1>2, <1>4, <2>1 DEF FilesInv, Exact, Holds
    <2> QED
      BY <1>0, <1>2, <2>2, <2>3, <2>4 DEF LiveInv
  <1>6. CASE AbandonRelease
    <2>1. /\ pc = "releasing" /\ pc' = "failed" /\ future' # "value" /\ UNCHANGED <<drain, orphan>>
          /\ \E flushed \in {buffered = <<>>, TRUE} : Release(flushed)
      BY <1>4, <1>6 DEF AbandonRelease, Resolve
    <2>2. handle' = "closed" /\ final' = final /\ buffered' = <<>>
      BY <2>1 DEF Release
    <2>3. ~Over /\ drain.at # "exited"
      BY <1>0, <2>1 DEF PlaceInv, Over
    <2>4. ASSUME NEW m \in Nat, Waits(m) PROVE Waits(m)'
      <3>1. queue \in Seq(Item0) /\ Len(queue) \in Nat
        BY <1>1, LenProperties DEF Drained
      <3>2. m + Len(queue) = written /\ \A i \in 1 .. Len(queue) : queue[i] = Item(m + i - 1)
        BY <2>3, <2>4 DEF Waits
      <3>3. \A i \in 1 .. Len(queue) : Item(m + i - 1)' = Item(m + i - 1)
        BY <1>3, <3>1
      <3> QED
        BY <1>2, <3>2, <3>3 DEF Waits
    <2>5. Drained(w)'
      <3>1. w \in Nat /\ w + 1 \in Nat
        OBVIOUS
      <3> QED
        BY <1>1, <1>2, <1>3, <2>1, <2>3, <2>4, <3>1 DEF Drained
    <2>6. PlaceInv'
      BY <1>0, <1>2, <1>4, <2>1, <2>2, <2>3 DEF PlaceInv
    <2>7. ASSUME ~failure PROVE FilesInv(w)'
      <3>1. FilesInv(w) /\ buffered = <<>> /\ (partial # Missing => partial \in Seq(Line))
        BY <1>1, <1>4, <2>7 DEF FilesInv, Exact, Holds, HoldsOf
      <3>2. partial' = partial
        BY <2>1, <3>1, NothingAppended DEF Release
      <3> QED
        BY <1>2, <1>4, <2>2, <3>1, <3>2 DEF FilesInv, Exact, Holds
    <2> QED
      BY <1>0, <1>2, <2>5, <2>6, <2>7 DEF LiveInv
  <1> QED
    BY <1>5, <1>6

\* Files are pruned while their writer still has them open.
LEMMA FilesArePruned ==
    ASSUME RowsInv, Prune
    PROVE  /\ alive' = alive /\ (LiveInv => LiveInv') /\ (DiskInv => DiskInv')
  <1>1. /\ partial' \in {partial, Missing} /\ final' \in {final, Missing} /\ prunes' = prunes + 1
        /\ UNCHANGED <<rows, written, usage, finished, rounds, queue, drain, orphan, failure, closer, handle,
                       buffered, future, persist, alive, pc>>
    BY DEF Prune, PruneSessions, DeleteSession, coroutine, accounting
  <1>2. (Over' <=> Over) /\ Sentinel' = Sentinel /\ \A i : Item(i)' = Item(i)
    BY <1>1 DEF Over, Sentinel, Item
  <1>3. LiveInv => LiveInv'
    <2> SUFFICES ASSUME LiveInv PROVE LiveInv'
      OBVIOUS
    <2>1. PICK w \in 0 .. written : Drained(w) /\ (~failure => FilesInv(w))
      BY DEF LiveInv
    <2>2. PlaceInv'
      BY <1>1, <1>2 DEF PlaceInv, LiveInv
    <2>3. Drained(w)'
      BY <1>1, <1>2, <2>1 DEF Drained, Waits
    <2>4. ~failure => FilesInv(w)'
      <3>1. prunes' # 0
        BY <1>1 DEF LiveInv, PlaceInv
      <3>2. /\ Exact(partial, w) /\ partial' = partial => Exact(partial, w)'
            /\ Whole(partial) /\ partial' = partial => Whole(partial)'
            /\ Whole(final) /\ final' = final => Whole(final)'
        BY <1>1 DEF Exact, Whole, Holds
      <3>3. \A c : build_trailer(c, usage)' = build_trailer(c, usage)
        BY <1>1
      <3> QED
        BY <1>1, <2>1, <3>1, <3>2, <3>3 DEF FilesInv
    <2> QED
      BY <1>1, <2>1, <2>2, <2>3, <2>4 DEF LiveInv
  <1>4. DiskInv => DiskInv'
    <2> SUFFICES ASSUME DiskInv PROVE DiskInv'
      OBVIOUS
    <2>1. Readable(partial) => Readable(partial)'
      BY <1>1 DEF Readable, Unended, Whole, Holds
    <2>2. Readable(final) => Readable(final)'
      BY <1>1 DEF Readable, Unended, Whole, Holds
    <2> QED
      BY <1>1, <2>1, <2>2 DEF DiskInv
  <1> QED
    BY <1>1, <1>3, <1>4

\* A write that is cut leaves a torn line behind the last row.
LEMMA TornLine ==
    ASSUME NEW table, NEW w \in Nat, NEW f, HoldsOf(f, w, table), Len(f) = w + 1
    PROVE  /\ HoldsOf(AppendLines(f, <<Torn>>), w, table)
           /\ \A i \in w + 2 .. Len(AppendLines(f, <<Torn>>)) : AppendLines(f, <<Torn>>)[i].kind = "torn"
  <1> DEFINE line == Torn
  <1>1. line \in Line /\ line.kind = "torn"
    BY LineKinds
  <1> HIDE DEF line
  <1>2. /\ AppendLines(f, <<line>>) = Append(f, line) /\ HoldsOf(Append(f, line), w, table)
        /\ Len(Append(f, line)) = w + 2 /\ Append(f, line)[w + 2] = line
    <2>1. AppendLines(f, <<line>>) = Append(f, line)
      <3>1. f \in Seq(Line) /\ f # <<>> /\ Last(f).kind # "torn"
        BY LastLine
      <3>2. AppendLines(f, <<line>>) = f \o <<line>>
        BY <3>1 DEF AppendLines
      <3> QED
        BY <1>1, <3>1, <3>2, AppendIsConcat
    <2>2. HoldsOf(Append(f, line), w, table)
      BY <1>1, AppendedLine
    <2>3. Len(Append(f, line)) = w + 2
      BY <1>1, AppendedLine
    <2>4. Append(f, line)[w + 2] = line
      BY <1>1, AppendedLine
    <2> QED
      BY <2>1, <2>2, <2>3, <2>4
  <1>3. \A i \in w + 2 .. Len(Append(f, line)) : i = w + 2
    BY <1>2
  <1>4. \A i \in w + 2 .. Len(Append(f, line)) : Append(f, line)[i].kind = "torn"
    BY <1>1, <1>2, <1>3
  <1> QED
    BY <1>2, <1>4 DEF line

\* The process dies, perhaps within a write.
LEMMA ProcessDies ==
    ASSUME RowsInv, LiveInv, Crash
    PROVE  DiskInv' /\ ~alive'
  <1>0. rows \in Seq(Row) /\ Len(rows) \in Nat /\ PlaceInv /\ written \in Nat /\ written <= Len(rows) /\ DiskInv
    BY LenProperties, LiveFollows DEF RowsInv, LiveInv, PlaceInv
  <1>1. /\ alive' = FALSE
        /\ UNCHANGED <<rows, usage, finished, rounds, failure, future, persist, prunes, final>>
    BY DEF Crash, TearLine, coroutine, accounting, logVars
  <1>2. PICK w \in 0 .. written : Drained(w) /\ (~failure => FilesInv(w))
    BY DEF LiveInv
  <1>3. w \in Nat /\ w \in 0 .. Len(rows)
    BY <1>0
  <1>4. ASSUME ~failure PROVE Readable(partial')
    <2>1. CASE partial' = partial
      BY <1>0, <1>4, <2>1 DEF DiskInv
    <2>2. CASE Writing /\ partial # Missing /\ partial' = AppendLines(partial, <<Torn>>)
      <3>1. closer \in {"none", "trailer"}
        BY <1>0, <1>2, <2>2 DEF Writing, PlaceInv, Drained
      <3>2. HoldsOf(partial, w, rows) /\ Len(partial) = w + 1
        BY <1>2, <1>4, <2>2, <3>1 DEF FilesInv, Exact, Holds
      <3>3. HoldsOf(partial', w, rows) /\ \A i \in w + 2 .. Len(partial') : partial'[i].kind = "torn"
        BY <1>3, <2>2, <3>2, TornLine
      <3>4. Unended(partial', w)
        BY <3>3 DEF Unended, Holds
      <3> QED
        BY <1>3, <3>4 DEF Readable
    <2>3. CASE partial' \in {Missing, <<>>, <<Torn>>}
      <3>1. ASSUME NEW line \in Line, line.kind = "torn", NEW f, f = <<line>> \/ f = <<>>
            PROVE  f \in Seq(Line) /\ \A i \in 1 .. Len(f) : f[i].kind = "torn"
        <4>1. CASE f = <<line>>
          <5>1. f \in Seq(Line) /\ Len(f) = 1 /\ f[1] = line
            BY <4>1
          <5> QED
            BY <3>1, <5>1
        <4>2. CASE f = <<>>
          <5>1. f \in Seq(Line) /\ Len(f) = 0
            BY <4>2
          <5> QED
            BY <5>1
        <4> QED
          BY <3>1, <4>1, <4>2
      <3>2. ASSUME NEW f, f = <<Torn>> \/ f = <<>> PROVE Readable(f)
        BY <3>1, <3>2, LineKinds DEF Readable
      <3> QED
        BY <2>3, <3>2 DEF Readable
    <2> QED
      BY <2>1, <2>2, <2>3 DEF Crash, TearLine, logVars
  <1>5. (Readable(partial') => Readable(partial)') /\ (Readable(final) => Readable(final)') /\ (Whole(final) => Whole(final)')
    BY <1>1 DEF Readable, Unended, Whole, Holds
  <1> QED
    BY <1>0, <1>1, <1>4, <1>5 DEF DiskInv

\* Every step of a live process is one of these.
LEMMA StepsOfALiveLoop ==
    ASSUME [LoopNext]_loopVars
    PROVE  \/ Rounds \/ Quiet \/ (Begin /\ persist) \/ (PersistRow /\ Enqueues) \/ SendSentinel
           \/ DrainGet \/ DrainWrite \/ OrphanWrite \/ StartClose \/ CloseStep
           \/ Abandon \/ (Interrupted /\ pc = "join") \/ AbandonRelease \/ Prune \/ Crash
  <1>1. ASSUME PersistRow PROVE Quiet \/ (PersistRow /\ Enqueues)
    <2>1. CASE Enqueues
      BY <1>1, <2>1
    <2>2. CASE EnqueueWaits \/ (EnqueueRaises /\ UNCHANGED <<queue, written>>)
      <3>1. UNCHANGED <<queue, written>> /\ (EnqueueWaits \/ EnqueueRaises)
        BY <2>2 DEF EnqueueWaits
      <3> QED
        BY <1>1, <3>1 DEF Quiet
    <2> QED
      BY <1>1, <2>1, <2>2 DEF PersistRow
  <1>2. ASSUME Interrupted PROVE Quiet \/ (Interrupted /\ pc = "join")
    <2>1. pc = "join" \/ UNCHANGED <<drain, orphan>>
      BY <1>2 DEF Interrupted
    <2> QED
      BY <1>2, <2>1 DEF Quiet
  <1>3. Begin => Quiet \/ (Begin /\ persist)
    BY DEF Quiet
  <1> QED
    BY <1>1, <1>2, <1>3, StepKinds DEF Aside, WriterThreads, Rounds, Quiet

\* Once the process is gone, nothing but another process touches the files.
LEMMA StepsOfADeadLoop ==
    ASSUME [LoopNext]_loopVars, ~alive
    PROVE  Prune \/ UNCHANGED loopVars
  BY DEF LoopNext, Coroutine, WriterThreads, SetPending, Begin, BeginFails, PersistRow, Seeded, Complete,
     CompleteRetries, CompleteFails, StartTool, AnswerCall, Dispatching, EndRound, FinishTool, Return, LoopEnds,
     SendSentinel, StartClose, Closed, Abandon, AbandonRelease, Raise, Interrupted, DrainGet, DrainWrite,
     OrphanWrite, CloseStep, Read, Lock, Join, Cancel, Crash

LEMMA TranscriptStep == TranscriptInv /\ [LoopNext]_loopVars => TranscriptInv'
  <1> SUFFICES ASSUME TranscriptInv, [LoopNext]_loopVars PROVE TranscriptInv'
    OBVIOUS
  <1>0. RowsInv /\ RowsInv' /\ DiskInv
    BY RowsStep DEF TranscriptInv
  <1>1. CASE ~alive
    <2>1. CASE Prune
      BY <1>0, <1>1, <2>1, FilesArePruned DEF TranscriptInv
    <2>2. CASE UNCHANGED loopVars
      <3>1. UNCHANGED <<rows, usage, finished, rounds, failure, future, persist, prunes, final, partial, alive>>
        BY <2>2 DEF loopVars, logVars
      <3>2. (Readable(partial)' <=> Readable(partial)) /\ (Readable(final)' <=> Readable(final)) /\ (Whole(final)' <=> Whole(final))
        BY <3>1 DEF Readable, Unended, Whole, Holds
      <3> QED
        BY <1>0, <1>1, <3>1, <3>2 DEF TranscriptInv, DiskInv
    <2> QED
      BY <1>1, <2>1, <2>2, StepsOfADeadLoop
  <1>2. CASE alive
    <2>0. LiveInv
      BY <1>2 DEF TranscriptInv
    <2>1. CASE Crash
      BY <1>0, <2>0, <2>1, ProcessDies DEF TranscriptInv
    <2>2. CASE LiveInv'
      <3>1. DiskInv'
        BY <1>0, <2>2, LiveFollows, PTL
      <3> QED
        BY <1>0, <2>2, <3>1 DEF TranscriptInv
    <2>3. CASE Prune
      BY <1>0, <2>0, <2>3, <2>2, FilesArePruned
    <2> QED
      BY <1>0, <2>0, <2>1, <2>2, <2>3, StepsOfALiveLoop, QuietStep, WriterStarts, QueueFills, QueueDrains,
         RowsAreWritten, FileCloses, WriterIsAbandoned
  <1> QED
    BY <1>1, <1>2

LEMMA TranscriptInitially == LoopInit => TranscriptInv
  <1> SUFFICES ASSUME LoopInit PROVE TranscriptInv
    OBVIOUS
  <1>1. rows \in Seq(Row) /\ Len(rows) \in Nat /\ RowsInv
    <2>1. rows = Seeds /\ tool = <<>> /\ usage = None /\ fired = 0 /\ Seeds \in Seq(Row)
      BY RowTypes DEF LoopInit
    <2>2. BudgetInv
      BY <2>1, LoopConstants DEF BudgetInv, BudgetFiresOnce, Tokens
    <2>3. DOMAIN tool = 1 .. 0
      BY <2>1
    <2> QED
      BY <2>1, <2>2, <2>3, LenProperties DEF RowsInv
  <1>2. PlaceInv
    BY <1>1 DEF LoopInit, LogInit, PlaceInv, Over
  <1>3. Drained(0)
    BY DEF LoopInit, Drained, Waits
  <1>4. FilesInv(0)
    BY DEF LoopInit, LogInit, FilesInv
  <1>5. LiveInv
    BY <1>2, <1>3, <1>4 DEF LiveInv, LoopInit
  <1> QED
    BY <1>1, <1>5, LiveFollows DEF TranscriptInv

\* Whatever the provider answers, however often a write fails, wherever the
\* coroutine is cancelled and the process killed, and whatever is pruned: a loop
\* that returned a value has left exactly its rows and its usage in a closed file;
\* before that load_session finds a prefix of the rows, unless the write of a row
\* failed, and what it finds closed, renamed or not, has all the rows and the usage
\* of a loop that ran to its end; only such a loop has a final file (aloop.py,
\* awriter.py, writer.py, loader.py).
THEOREM TranscriptsAreOnDisk == LoopSpec => []TranscriptOnDisk
  BY TranscriptInitially, TranscriptStep, TranscriptFollows, PTL DEF LoopSpec
=============================================================================
