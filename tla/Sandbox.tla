------------------------------- MODULE Sandbox -------------------------------
(* Sandboxes shared by sessions: the slot of every Session, the reference     *)
(* count of every BackendSandbox, the lock under which a session opens its    *)
(* sandbox at first use, and the workspaces of the local backend.             *)
(*                                                                            *)
(* Threads run the operations.  What a thread has still to do is a sequence   *)
(* of steps, one for each stretch of code in which no other thread can        *)
(* interfere: the body of a lock, a coroutine up to its first await, or one   *)
(* assignment.  Only opening a sandbox takes a lock of the session; giving    *)
(* one back and binding one do not, so these may overlap anything.            *)
EXTENDS Naturals, Integers, Sequences, FiniteSets

CONSTANTS
    Session,     \* session objects, those not created yet included
    First,       \* the session that exists at the start
    Box,         \* sandbox objects
    Thread,
    WorkingDir,  \* a working_dir that specs may name
    NoBox, NoThread,
    MaxDepth     \* bound on nested with blocks of one session

ASSUME SandboxConstants ==
    /\ First \in Session /\ NoBox \notin Box /\ NoThread \notin Thread
    /\ WorkingDir \notin Box /\ MaxDepth \in Nat

VARIABLES
    made,        \* sessions that exist
    slot,        \* slot[s]: Session.sandbox
    placed,      \* sandbox_backend and spec: "none", "temp" or "shared"
    depth,       \* _cm_depth
    opener,      \* opener[s]: the thread in s._sandbox_lock
    opened,      \* sandboxes the backend has opened
    count,       \* _refcount
    closed,      \* BackendSandbox.closed
    handle,      \* BackendSandbox.handle: a directory
    grips,       \* grips[b]: with blocks of threads on b itself
    openHandles, ownedHandles,   \* the sets of LocalBackend
    dirs,        \* directories that exist
    todo,        \* todo[t]: steps thread t has still to take
    spoilt       \* history: the sandboxes named in a session while operations overlapped
                 \* there that no lock keeps apart, or left in a slot by a bind that raised

sandboxVars == <<made, slot, placed, depth, opener, opened, count, closed, handle, grips,
                 openHandles, ownedHandles, dirs, todo, spoilt>>

sessions == <<made, slot, placed, depth>>
boxes    == <<opened, count, closed, handle, grips>>
backend  == <<openHandles, ownedHandles, dirs>>

SandboxInit ==
    /\ made = {First}
    /\ slot = [s \in Session |-> NoBox] /\ placed = [s \in Session |-> "none"]
    /\ depth = [s \in Session |-> 0] /\ opener = [s \in Session |-> NoThread]
    /\ opened = {} /\ count = [b \in Box |-> 0] /\ closed = [b \in Box |-> FALSE]
    /\ handle = [b \in Box |-> b] /\ grips = [b \in Box |-> 0]
    /\ openHandles = {} /\ ownedHandles = {} /\ dirs = {}
    /\ todo = [t \in Thread |-> <<>>] /\ spoilt = {}

Step(do, s, b) == [do |-> do, s |-> s, b |-> b, was |-> NoBox]
\* A step that will assign the slot of s, and what its thread has seen there.
Assign(do, s, b) == [do |-> do, s |-> s, b |-> b, was |-> slot[s]]
Live(b) == b # NoBox /\ ~closed[b]

Doing(t, do) == todo[t] # <<>> /\ Head(todo[t]).do = do
Done(t)      == todo' = [todo EXCEPT ![t] = Tail(@)]
Then(t, more) == todo' = [todo EXCEPT ![t] = more \o Tail(@)]
Raise(t)     == todo' = [todo EXCEPT ![t] = <<>>]

\* A session is given to its callers once it has taken its sandbox over.
Usable(s) ==
    s \in made /\ ~\E t \in Thread : \E i \in DOMAIN todo[t] : todo[t][i].s = s /\ todo[t][i].do = "adopt"
Start(t, steps) == todo[t] = <<>> /\ todo' = [todo EXCEPT ![t] = steps]

-----------------------------------------------------------------------------
(* Reference counts: each body runs in _refcount_lock *)

\* BackendSandbox.acquire on behalf of the slot of s.
Acquire(b) == count' = [count EXCEPT ![b] = @ + 1]

\* BackendSandbox.release: the close comes after the lock is given up.
Release(t) ==
    /\ Doing(t, "release")
    /\ LET b == Head(todo[t]).b IN
         IF ~Live(b) THEN Done(t) /\ UNCHANGED count
         ELSE /\ count' = [count EXCEPT ![b] = @ - 1]
              /\ IF count[b] - 1 <= 0 THEN Then(t, <<Step("aclose", First, b)>>) ELSE Done(t)
    /\ UNCHANGED <<sessions, opener, opened, closed, handle, grips, backend>>

-----------------------------------------------------------------------------
(* The local backend, on the loop of the runtime *)

\* LocalBackend._aopen: a directory of its own, or the one the spec names.
AOpen(b, where) ==
    LET h == IF where = "shared" THEN WorkingDir ELSE b IN
    /\ opened' = opened \cup {b}
    /\ handle' = [handle EXCEPT ![b] = h]
    /\ dirs' = dirs \cup {h}
    /\ openHandles' = openHandles \cup {h}
    /\ ownedHandles' = IF where = "shared" THEN ownedHandles ELSE ownedHandles \cup {h}

\* LocalBackend._aclose up to the removal of a directory it owns.
AClose(t) ==
    /\ Doing(t, "aclose")
    /\ LET b == Head(todo[t]).b IN
         IF closed[b] THEN Done(t) /\ UNCHANGED <<closed, openHandles, ownedHandles>>
         ELSE /\ openHandles' = openHandles \ {handle[b]}
              /\ ownedHandles' = ownedHandles \ {handle[b]}
              /\ closed' = [closed EXCEPT ![b] = TRUE]
              /\ IF handle[b] \in ownedHandles THEN Then(t, <<Step("rmtree", First, b)>>) ELSE Done(t)
    /\ UNCHANGED <<sessions, opener, opened, count, handle, grips, dirs>>

RmTree(t) ==
    /\ Doing(t, "rmtree") /\ Done(t)
    /\ dirs' = dirs \ {handle[Head(todo[t]).b]}
    /\ UNCHANGED <<sessions, opener, boxes, openHandles, ownedHandles>>

\* sandbox_count counts directories: two sandboxes of one are one.
SandboxCount == Cardinality(openHandles)

\* LocalBackend._resolve: whether a path stays in the workspace.
Inside(path) == path = "in"

\* The calls in their worker threads.  Commands, reads, lists and code need the
\* directory and answer a failure without it; a write makes it.
CallEffect(kind, path, h) ==
    IF kind = "write" /\ Inside(path) THEN dirs \cup {h} ELSE dirs

\* BackendSandbox.dispatch and _adispatch: both look at closed.
Dispatch(t) ==
    /\ Doing(t, "dispatch")
    /\ IF Live(Head(todo[t]).b) THEN Then(t, <<Step("call", First, Head(todo[t]).b)>>) ELSE Raise(t)
    /\ UNCHANGED <<sessions, opener, boxes, backend>>

Call(t) ==
    /\ Doing(t, "call") /\ Done(t)
    /\ \E kind \in {"write", "command", "read", "list", "exists", "code"}, path \in {"in", "out"} :
         dirs' = CallEffect(kind, path, handle[Head(todo[t]).b])
    /\ UNCHANGED <<sessions, opener, boxes, openHandles, ownedHandles>>

-----------------------------------------------------------------------------
(* Steps of the operations of a session *)

CloseSteps(s) == <<Step("release", s, slot[s]), Assign("clear", s, NoBox)>>

ClearSlot(t) ==
    /\ Doing(t, "clear") /\ Done(t)
    /\ slot' = [slot EXCEPT ![Head(todo[t]).s] = NoBox]
    /\ UNCHANGED <<made, placed, depth, opener, boxes, backend>>

\* The end of bind_sandbox.
BindStep(t) ==
    /\ Doing(t, "bind") \/ Doing(t, "adopt")
    /\ LET s == Head(todo[t]).s
           b == Head(todo[t]).b
       IN /\ ~closed[b] /\ Acquire(b) /\ Done(t) /\ slot' = [slot EXCEPT ![s] = b]
          /\ placed' = [placed EXCEPT ![s] = IF handle[b] = WorkingDir THEN "shared" ELSE "temp"]
    /\ UNCHANGED <<made, depth, opener, opened, closed, handle, grips, backend>>

\* acquire refuses a closed sandbox, and the slot still names the one given back.
BindRaises(t) ==
    /\ Doing(t, "bind") \/ Doing(t, "adopt")
    /\ closed[Head(todo[t]).b] /\ Raise(t)
    /\ UNCHANGED <<sessions, opener, boxes, backend>>

Place(t) ==
    /\ \E where \in {"temp", "shared"} :
         Doing(t, where) /\ Done(t) /\ placed' = [placed EXCEPT ![Head(todo[t]).s] = where]
    /\ UNCHANGED <<made, slot, depth, opener, boxes, backend>>

Deepen(t) ==
    /\ Doing(t, "deepen") /\ Done(t)
    /\ depth' = [depth EXCEPT ![Head(todo[t]).s] = @ + 1]
    /\ UNCHANGED <<made, slot, placed, opener, boxes, backend>>

\* _ensure_sandbox that does not ask again under the lock.
Locked_NoRecheck(s) == TRUE

\* _ensure_sandbox: the fast path, then the lock, then the same question again.
Locked(s) == ~Live(slot[s])

Ensure(t) ==
    /\ Doing(t, "ensure")
    /\ LET s == Head(todo[t]).s IN
         IF Live(slot[s]) THEN Done(t) ELSE Then(t, <<Step("lock", s, NoBox)>>)
    /\ UNCHANGED <<sessions, opener, boxes, backend>>

WaitLock(t) ==
    /\ Doing(t, "lock")
    /\ LET s == Head(todo[t]).s IN
         /\ opener[s] = NoThread /\ opener' = [opener EXCEPT ![s] = t]
         /\ Then(t, <<Step("locked", s, NoBox)>>)
    /\ UNCHANGED <<sessions, boxes, backend>>

OpenLocked(t) ==
    /\ Doing(t, "locked")
    /\ LET s == Head(todo[t]).s
           unclosed == [slot EXCEPT ![s] = IF Live(@) THEN @ ELSE NoBox]
       IN
       \/ /\ ~Locked(s)
          /\ Done(t) /\ opener' = [opener EXCEPT ![s] = NoThread]
          /\ UNCHANGED <<slot, opened, handle, backend>>
       \/ /\ Locked(s) /\ placed[s] = "none"
          /\ Raise(t) /\ opener' = [opener EXCEPT ![s] = NoThread]
          /\ slot' = unclosed
          /\ UNCHANGED <<opened, handle, backend>>
       \/ /\ Locked(s) /\ placed[s] # "none"
          /\ slot' = unclosed
          /\ \E b \in Box \ opened :
               AOpen(b, placed[s]) /\ Then(t, <<Step("opened", s, b)>>)
          /\ UNCHANGED opener
    /\ UNCHANGED <<made, placed, depth, count, closed, grips>>

TakeOpened(t) ==
    /\ Doing(t, "opened") /\ Done(t)
    /\ LET s == Head(todo[t]).s
           b == Head(todo[t]).b
       IN Acquire(b) /\ slot' = [slot EXCEPT ![s] = b] /\ opener' = [opener EXCEPT ![s] = NoThread]
    /\ UNCHANGED <<made, placed, depth, opened, closed, handle, grips, backend>>

\* require_sandbox once more, after the sandbox was ensured.
UseEnsured(t) ==
    /\ Doing(t, "tool")
    /\ LET b == slot[Head(todo[t]).s] IN
         IF Live(b) THEN Then(t, <<Step("dispatch", First, b)>>) ELSE Raise(t)
    /\ UNCHANGED <<sessions, opener, boxes, backend>>

-----------------------------------------------------------------------------
(* Operations of callers *)

others == <<opener, boxes, backend>>

\* Session.to, the sandbox placement path.
To(t, s, where) ==
    /\ Usable(s)
    /\ Start(t, Append(CloseSteps(s), Step(where, s, NoBox)))
    /\ UNCHANGED <<sessions, others>>

CloseSandbox(t, s) ==
    /\ Usable(s) /\ Start(t, CloseSteps(s))
    /\ UNCHANGED <<sessions, others>>

\* with session: the outermost block opens the sandbox and closes it.
Enter(t, s) ==
    /\ Usable(s) /\ depth[s] < MaxDepth
    /\ Start(t, IF depth[s] = 0 THEN <<Step("ensure", s, NoBox), Step("deepen", s, NoBox)>>
                ELSE <<Step("deepen", s, NoBox)>>)
    /\ UNCHANGED <<sessions, others>>

Exit(t, s) ==
    /\ Usable(s) /\ depth[s] > 0
    /\ depth' = [depth EXCEPT ![s] = @ - 1]
    /\ Start(t, IF depth[s] = 1 THEN CloseSteps(s) ELSE <<>>)
    /\ UNCHANGED <<made, slot, placed, others>>

\* Session.bind_sandbox gives the sandbox it has back before it takes the other.
Bind(t, s, b) ==
    /\ Usable(s) /\ b \in opened /\ slot[s] # b
    /\ Start(t, <<Step("release", s, slot[s]), Assign("bind", s, b)>>)
    /\ UNCHANGED <<sessions, others>>

\* A session made from s: it has the placement of s and takes its sandbox.
Derive(t, s, n, steps) ==
    /\ Usable(s) /\ n \in Session \ made
    /\ made' = made \cup {n}
    /\ placed' = [placed EXCEPT ![n] = placed[s]]
    /\ Start(t, steps)
    /\ UNCHANGED <<slot, depth, others>>

Share(s, n) == IF Live(slot[s]) THEN <<Assign("adopt", n, slot[s])>> ELSE <<>>

Fork(t, s, n)   == Derive(t, s, n, Share(s, n))
Detach(t, s, n) == Derive(t, s, n, Share(s, n))

\* merge keeps the sandbox of the first and refuses two unbound sessions that
\* are placed on different backends.
Merge(t, s, o, n) ==
    /\ Usable(o) /\ o # s
    /\ slot[s] # NoBox \/ slot[o] # NoBox \/ (placed[s] = "none") = (placed[o] = "none")
    /\ Derive(t, s, n, Share(s, n))

\* run_session_loop: out shares the user's sandbox.
LoopOut(t, s, n) == Derive(t, s, n, Share(s, n))

\* _completion_body: a summary takes the place of the whole transcript, so one
\* that was cut off is refused, and so are tool calls and an empty text.
Reply == [finish : {"stop", "length", "content_filter", "other"}, calls : BOOLEAN, text : BOOLEAN]
UsableSummary(reply) == ~reply.calls /\ reply.finish \in {"stop", "content_filter"} /\ reply.text

\* run_session_compress: out exists only once the summary is there.
Compress(t, s, n) ==
    \E reply \in Reply : UsableSummary(reply) /\ Derive(t, s, n, Share(s, n))

\* Agent.forward with recalled memories: the loop runs on a fork f of the
\* session, which nobody can reach once out exists.
Forward(t, s, f, n) ==
    /\ Usable(s) /\ f \in Session \ made /\ n \in Session \ made /\ f # n
    /\ made' = made \cup {f, n}
    /\ placed' = [placed EXCEPT ![f] = placed[s], ![n] = placed[s]]
    /\ Start(t, Share(s, f) \o Share(s, n))
    /\ UNCHANGED <<slot, depth, others>>

\* A tool asks its session for the sandbox, opening it when there is none.
RequireSandbox(t, s) ==
    /\ Usable(s)
    /\ \/ Live(slot[s]) /\ Start(t, <<Step("dispatch", First, slot[s])>>)
       \/ /\ slot[s] = NoBox /\ placed[s] # "none"
          /\ Start(t, <<Step("ensure", s, NoBox), Step("tool", s, NoBox)>>)
    /\ UNCHANGED <<sessions, others>>

\* Backend.open by a caller, who holds no reference yet.
OpenBare(t, b, where) ==
    /\ todo[t] = <<>> /\ b \notin opened /\ AOpen(b, where)
    /\ UNCHANGED <<sessions, opener, count, closed, grips, todo>>

\* with sandbox: on the object itself.
WithBox(t, b) ==
    /\ todo[t] = <<>> /\ b \in opened /\ ~closed[b] /\ grips[b] = 0
    /\ Acquire(b) /\ grips' = [grips EXCEPT ![b] = @ + 1]
    /\ UNCHANGED <<sessions, opener, opened, closed, handle, backend, todo>>

EndWithBox(t, b) ==
    /\ grips[b] > 0
    /\ grips' = [grips EXCEPT ![b] = @ - 1]
    /\ IF closed[b] THEN Start(t, <<>>) /\ UNCHANGED count
       ELSE /\ count' = [count EXCEPT ![b] = @ - 1]
            /\ Start(t, IF count[b] - 1 <= 0 THEN <<Step("aclose", First, b)>> ELSE <<>>)
    /\ UNCHANGED <<sessions, opener, opened, closed, handle, backend>>

\* PersistentSandboxRegistry: directories for specs to name, kept by their own mtime,
\* whoever works in them.
EnsureLocal(t) ==
    /\ todo[t] = <<>> /\ dirs' = dirs \cup {WorkingDir}
    /\ UNCHANGED <<sessions, opener, boxes, openHandles, ownedHandles, todo>>

PruneLocal(t) ==
    /\ todo[t] = <<>> /\ dirs' = dirs \ {WorkingDir}
    /\ UNCHANGED <<sessions, opener, boxes, openHandles, ownedHandles, todo>>

Operation(t) ==
    \/ EnsureLocal(t) \/ PruneLocal(t)
    \/ \E s \in Session :
         \/ \E where \in {"temp", "shared"} : To(t, s, where)
         \/ CloseSandbox(t, s) \/ Enter(t, s) \/ Exit(t, s) \/ RequireSandbox(t, s)
         \/ \E b \in Box : Bind(t, s, b)
         \/ \E n \in Session :
              \/ Fork(t, s, n) \/ Detach(t, s, n) \/ LoopOut(t, s, n) \/ Compress(t, s, n)
              \/ \E o \in Session : Merge(t, s, o, n) \/ Forward(t, s, o, n)
    \/ \E b \in Box :
         \/ \E where \in {"temp", "shared"} : OpenBare(t, b, where)
         \/ WithBox(t, b) \/ EndWithBox(t, b)

ThreadStep(t) ==
    \/ Release(t) \/ AClose(t) \/ RmTree(t) \/ Dispatch(t) \/ Call(t)
    \/ ClearSlot(t) \/ BindStep(t) \/ Place(t) \/ Deepen(t)
    \/ Ensure(t) \/ WaitLock(t) \/ OpenLocked(t) \/ TakeOpened(t) \/ UseEnsured(t)

\* What threads have under way that may change the slot of s, and whether it overlaps
\* without a lock: one thread gives back or binds, another does so too or opens.
Changing == {"release", "clear", "bind"}
Opening  == {"ensure", "lock", "locked", "opened"}
Underway(t, s, deeds) == {x \in {todo[t][i] : i \in DOMAIN todo[t]} : x.s = s /\ x.do \in deeds}
Contended(s) == \E t, u \in Thread :
    t # u /\ Underway(t, s, Changing) # {} /\ Underway(u, s, Changing \cup Opening) # {}
Named(s) ==
    {slot[s]} \cup UNION {{x.b, x.was} : x \in UNION {Underway(t, s, Changing \cup Opening) : t \in Thread}}

Spoil(more) ==
    spoilt' = (spoilt \cup more \cup UNION {Named(s)' : s \in {z \in Session : Contended(z)'}}) \ {NoBox}

Launch(t) == Operation(t) /\ Spoil({})
Proceed(t) ==
    \/ ThreadStep(t) /\ Spoil({})
    \/ BindRaises(t) /\ Spoil({slot[Head(todo[t]).s]})

SandboxNext == \E t \in Thread : Launch(t) \/ Proceed(t)

SandboxSpec == SandboxInit /\ [][SandboxNext]_sandboxVars

-----------------------------------------------------------------------------
(* Properties *)

\* Session s has given back the sandbox its slot still names.
GivenBack(s) == \E t \in Thread :
    /\ \A i \in DOMAIN todo[t] : todo[t][i].do # "release"
    /\ \E i \in DOMAIN todo[t] :
         todo[t][i].s = s /\ todo[t][i].do \in {"clear", "bind"} /\ todo[t][i].was = slot[s]

Holders(b) == {s \in made : slot[s] = b /\ ~GivenBack(s)}

\* The count of an open sandbox is the number of sessions and with blocks that
\* refer to it, whatever its users do at the same time: sessions on different
\* threads share it, swap it and close it, tools race to open it, and the loser of
\* that race leaves none behind (session.py:438-446).  What overlapping closes and
\* binds of one session, or a bind that raises, do to the counts stays with the
\* sandboxes that session named then, and reaches no other.
CountsAreReferences ==
    \A b \in opened \ spoilt : ~closed[b] => count[b] = Cardinality(Holders(b)) + grips[b]

\* session.py:140-142 and backend/abc.py:53 without the exception: every slot and
\* every with block counts as one reference.
EverySlotCounts ==
    \A b \in opened : ~closed[b] => count[b] = Cardinality(Holders(b)) + grips[b]
=============================================================================
