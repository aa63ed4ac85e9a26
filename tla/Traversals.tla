----------------------------- MODULE Traversals ------------------------------
(* The algorithms that walk a graph given as lists of neighbours: the         *)
(* workflow compiler's checks of a declared plan (lists of successors), and   *)
(* the session lineage's ancestors, descendants and cycle check (lists of     *)
(* parents).  A step is one round of the algorithm's loop.  The lists may     *)
(* name ids that are not in the graph.                                        *)
EXTENDS Naturals, Sequences, FiniteSets, SequencesExt

CONSTANTS
    Node,          \* a sequence: the ids in declaration order
    Unknown,       \* an id that is not in the graph
    Neighbours,    \* the lists each node may have
    Declaration,   \* what the compiler sees of a workflow besides the lists
    RecursionLimit, \* the depth of _visit from which the interpreter may refuse a call
    MaxWalk        \* bound: rounds of the descendants' loop

VARIABLES
    algorithm,     \* "none", "compile", "ancestors", "descendants" or "acyclic"
    nexts,         \* the neighbour list of each node
    decl,
    pending,       \* the algorithm's queue, stack or call stack
    seen,          \* the visited ids; in the cycle check those marked black
    out,           \* the answer
    verdict        \* "none", "start", "checked", "busy"; then "done", "error" or "deep"

graphVars == <<algorithm, nexts, decl, pending, seen, out, verdict>>

Ids == Range(Node)
Root == Node[1]
Everyone == Ids \cup {Unknown}

ASSUME TraversalAssumption ==
    /\ Node \in Seq(Ids) /\ Len(Node) > 0 /\ IsInjective(Node) /\ Unknown \notin Ids
    /\ \A n \in Ids : \A l \in Neighbours[n] : l \in Seq(Everyone)
    /\ RecursionLimit \in Nat \ {0} /\ MaxWalk \in Nat /\ Declaration # {}
    /\ Declaration \subseteq [nodes : {"none", "marked"}, entries : 0..2, routers : SUBSET Ids,
                              syncTimeout : BOOLEAN, production : BOOLEAN, unkeyedRetry : BOOLEAN]

\* The neighbours of n in the graph whose lists are g.
Targets(g, n) == IF n \in Ids THEN Range(g[n]) ELSE {}

\* The least set that contains S and the neighbours of its members.
Closure(g, S) ==
    {n \in Everyone :
        \A C \in SUBSET Everyone : S \subseteq C /\ (\A c \in C : Targets(g, c) \subseteq C) => n \in C}

Cyclic(g) == \E n \in Ids : n \in Closure(g, Targets(g, n))

Succ(n) == Targets(nexts, n)
Dangling == \E n \in Ids : Unknown \in Succ(n)

GraphInit ==
    /\ algorithm = "none" /\ nexts = [n \in Ids |-> <<>>] /\ decl = CHOOSE d \in Declaration : TRUE
    /\ pending = <<>> /\ seen = {} /\ out = <<>> /\ verdict = "none"

\* One of the functions is called, on any lists.
CallWalk ==
    /\ verdict = "none" /\ verdict' = "start"
    /\ algorithm' \in {"compile", "ancestors", "descendants", "acyclic"}
    /\ nexts' \in {f \in [Ids -> UNION {Neighbours[n] : n \in Ids}] : \A n \in Ids : f[n] \in Neighbours[n]}
    /\ decl' \in (IF algorithm' = "compile" THEN Declaration ELSE {decl})
    /\ UNCHANGED <<pending, seen, out>>

Verdict(v) == verdict' = v /\ UNCHANGED <<algorithm, nexts, decl, pending, seen, out>>

-----------------------------------------------------------------------------
(* WorkflowCompiler.compile *)

\* A workflow without marked methods becomes one opaque node that cannot
\* resume; otherwise exactly one method is the entry, and a node that is retried
\* without being idempotent has a key.
Nodes ==
    /\ algorithm = "compile" /\ verdict = "start"
    /\ \/ decl.nodes = "none" /\ out' = <<"legacy.forward">> /\ verdict' = "done"
       \/ /\ decl.nodes = "marked" /\ UNCHANGED out
          /\ verdict' = IF decl.unkeyedRetry \/ decl.entries # 1 THEN "error" ELSE "checked"
    /\ UNCHANGED <<algorithm, nexts, decl, pending, seen>>

\* The checks of each node, in one pass.
NodeAccepted(n) ==
    /\ ~(decl.production /\ decl.syncTimeout)
    /\ Succ(n) \subseteq Ids
    /\ n \in decl.routers => nexts[n] # <<>>

CheckNodes ==
    /\ algorithm = "compile" /\ verdict = "checked"
    /\ IF \A n \in Ids : NodeAccepted(n)
         THEN verdict' = "busy" /\ pending' = <<Root>>
         ELSE verdict' = "error" /\ UNCHANGED pending
    /\ UNCHANGED <<algorithm, nexts, decl, seen, out>>

\* while pending: current = pending.pop()
Reach ==
    /\ algorithm = "compile" /\ verdict = "busy" /\ pending # <<>>
    /\ LET current == Last(pending) IN
       IF current \in seen
         THEN pending' = Front(pending) /\ UNCHANGED seen
         ELSE seen' = seen \cup {current} /\ pending' = Front(pending) \o nexts[current]
    /\ UNCHANGED <<algorithm, nexts, decl, out, verdict>>

\* The edges of the plan, in declaration order; every node must have been reached.
Plan ==
    /\ algorithm = "compile" /\ verdict = "busy" /\ pending = <<>>
    /\ IF Ids \subseteq seen
         THEN /\ verdict' = "done"
              /\ out' = FlattenSeq([i \in DOMAIN Node |->
                            [j \in DOMAIN nexts[Node[i]] |-> <<Node[i], nexts[Node[i]][j]>>]])
         ELSE verdict' = "error" /\ UNCHANGED out
    /\ UNCHANGED <<algorithm, nexts, decl, pending, seen>>

-----------------------------------------------------------------------------
(* ancestors_bfs *)

Ancestors ==
    /\ algorithm = "ancestors" /\ verdict = "start"
    /\ verdict' = "busy" /\ pending' = nexts[Root]
    /\ UNCHANGED <<algorithm, nexts, decl, seen, out>>

\* queue.popleft()
Popped_Newest == [pid |-> Last(pending), queue |-> Front(pending)]
Popped == [pid |-> Head(pending), queue |-> Tail(pending)]

NextAncestor ==
    /\ algorithm = "ancestors" /\ verdict = "busy" /\ pending # <<>>
    /\ LET pid == Popped.pid IN
       \/ pid \in seen /\ pending' = Popped.queue /\ UNCHANGED <<seen, out, verdict>>
       \/ pid \notin Ids /\ verdict' = "error" /\ UNCHANGED <<pending, seen, out>>
       \/ /\ pid \in Ids \ seen
          /\ seen' = seen \cup {pid} /\ out' = Append(out, pid)
          /\ pending' = Popped.queue \o nexts[pid]
          /\ UNCHANGED verdict
    /\ UNCHANGED <<algorithm, nexts, decl>>

-----------------------------------------------------------------------------
(* descendants_dfs_preorder; the lists are lists of parents *)

\* adj[n]: the sessions that name n as a parent, in registry order, one as
\* often as it names it.
Children(n) ==
    LET Mentions(m) == {j \in DOMAIN nexts[m] : nexts[m][j] = n}
        adj[i \in 0..Len(Node)] ==
            IF i = 0 THEN <<>>
            ELSE adj[i - 1] \o [j \in 1..Cardinality(Mentions(Node[i])) |-> Node[i]]
    IN  adj[Len(Node)]

Descendants ==
    /\ algorithm = "descendants" /\ verdict = "start"
    /\ verdict' = "busy" /\ pending' = Children(Root)
    /\ UNCHANGED <<algorithm, nexts, decl, seen, out>>

\* No session is skipped when it comes up again; only the answer is freed of
\* repetitions.  Below a cycle the loop has no end.
NextDescendant ==
    /\ algorithm = "descendants" /\ verdict = "busy" /\ pending # <<>> /\ Len(out) < MaxWalk
    /\ LET cur == Last(pending) IN
       /\ out' = Append(out, cur)
       /\ pending' = Front(pending) \o Reverse(Children(cur))
    /\ UNCHANGED <<algorithm, nexts, decl, seen, verdict>>

\* dict.fromkeys: the first of each.
Distinct(s) ==
    LET keys[i \in 0..Len(s)] ==
            IF i = 0 THEN <<>>
            ELSE IF s[i] \in Range(keys[i - 1]) THEN keys[i - 1] ELSE Append(keys[i - 1], s[i])
    IN  keys[Len(s)]

EndOfWalk ==
    /\ algorithm \in {"ancestors", "descendants"} /\ verdict = "busy" /\ pending = <<>>
    /\ verdict' = "done" /\ out' = IF algorithm = "descendants" THEN Distinct(out) ELSE out
    /\ UNCHANGED <<algorithm, nexts, decl, pending, seen>>

-----------------------------------------------------------------------------
(* validate_acyclic: _visit's call stack, whose sessions are marked gray *)

CheckParents ==
    /\ algorithm = "acyclic" /\ verdict = "start"
    /\ Verdict(IF Dangling THEN "error" ELSE "busy")

Gray == {pending[i].node : i \in DOMAIN pending}
Frame(n) == [node |-> n, rest |-> nexts[n]]

VisitRoot ==
    /\ algorithm = "acyclic" /\ verdict = "busy" /\ pending = <<>>
    /\ \/ Ids \subseteq seen /\ Verdict("done")
       \/ \E i \in DOMAIN Node :
            /\ Node[i] \notin seen /\ \A j \in DOMAIN Node : j < i => Node[j] \in seen
            /\ pending' = <<Frame(Node[i])>> /\ UNCHANGED <<algorithm, nexts, decl, seen, out, verdict>>

VisitParent ==
    /\ algorithm = "acyclic" /\ verdict = "busy" /\ pending # <<>>
    /\ LET top == Last(pending)
           p == Head(top.rest)
           moved == Append(Front(pending), [top EXCEPT !.rest = Tail(@)]) IN
       \/ top.rest = <<>> /\ seen' = seen \cup {top.node} /\ pending' = Front(pending) /\ UNCHANGED verdict
       \/ /\ top.rest # <<>> /\ UNCHANGED seen
          /\ \/ p \in seen /\ pending' = moved /\ UNCHANGED verdict
             \/ p \in Gray /\ verdict' = "error" /\ UNCHANGED pending
             \/ p \notin seen \cup Gray /\ pending' = Append(moved, Frame(p)) /\ UNCHANGED verdict
    /\ UNCHANGED <<algorithm, nexts, decl, out>>

\* _visit calls itself for each parent.  The interpreter counts the caller's frames
\* as well, so a call may fail at any depth from RecursionLimit on.
RecursionError ==
    /\ algorithm = "acyclic" /\ verdict = "busy" /\ Len(pending) >= RecursionLimit
    /\ Last(pending).rest # <<>> /\ Verdict("deep")

GraphNext ==
    \/ CallWalk
    \/ Nodes \/ CheckNodes \/ Reach \/ Plan
    \/ Ancestors \/ NextAncestor \/ Descendants \/ NextDescendant \/ EndOfWalk
    \/ CheckParents \/ VisitRoot \/ VisitParent \/ RecursionError

-----------------------------------------------------------------------------
(* What the answers should be, from the graph alone *)

\* The ids k + 1 steps from the start.
Ring(g) ==
    LET ring[k \in 0..Len(Node) + 1] ==
            IF k = 0 THEN Targets(g, Root) ELSE UNION {Targets(g, m) : m \in ring[k - 1]}
    IN  ring

Nearer(g, m, n) ==
    LET ring == Ring(g) IN
    \E k \in 0..Len(Node) + 1 : m \in ring[k] /\ \A j \in 0..k : j < k => n \notin ring[j]

\* A plan is made of exactly the declarations whose nodes can all be executed:
\* one entry, every successor declared, routers with a choice, no timeout that
\* cannot be kept, and every node on some path from the entry.
PlansAreSound ==
    algorithm = "compile" /\ verdict \in {"done", "error"} =>
        (verdict = "done" <=>
            \/ decl.nodes = "none"
            \/ /\ ~decl.unkeyedRetry /\ decl.entries = 1
               /\ ~(decl.production /\ decl.syncTimeout)
               /\ \A n \in decl.routers : Succ(n) # {}
               /\ Closure(nexts, {Root}) = Ids)

\* ancestors_bfs gives every ancestor once, nearest first, and fails only when
\* one is missing.
AncestorsAreRight ==
    algorithm = "ancestors" =>
        LET all == Closure(nexts, Succ(Root)) IN
        /\ verdict = "error" => Unknown \in all
        /\ verdict = "done" => Range(out) = all /\ all \subseteq Ids /\ IsInjective(out)
        /\ \A i, j \in DOMAIN out : i < j => Nearer(nexts, out[i], out[j])

\* descendants_dfs_preorder gives every descendant once, each after a parent, and
\* returns only where no descendant lies on a cycle.
DescendantsAreRight ==
    algorithm = "descendants" /\ verdict = "done" =>
        /\ \A n \in Range(out) : n \notin Closure(nexts, Succ(n))
        /\ Range(out) = {n \in Ids : Root \in Closure(nexts, Succ(n))}
        /\ IsInjective(out)
        /\ \A i \in DOMAIN out :
            Root \in Succ(out[i]) \/ \E j \in DOMAIN out : j < i /\ out[j] \in Succ(out[i])

\* validate_acyclic's answer is right, and it runs out of stack only in a registry
\* with at least as many sessions as the limit.
CyclesAreFound ==
    algorithm = "acyclic" =>
        /\ verdict = "done" => ~Cyclic(nexts) /\ ~Dangling
        /\ verdict = "error" => Cyclic(nexts) \/ Dangling
        /\ verdict = "deep" => Len(Node) >= RecursionLimit

\* The worklists of the compiler and of the lineage graph compute what their
\* graphs say, whatever the order of the lists, repeated visits, cycles and
\* unknown ids.
TraversalsAreRight == PlansAreSound /\ AncestorsAreRight /\ DescendantsAreRight /\ CyclesAreFound

GraphSpec == GraphInit /\ [][GraphNext]_graphVars
=============================================================================
