----------------------------- MODULE EffectLedger ----------------------------
(* The effect ledger: the table tool_invocations of SQLiteEffectLedger and    *)
(* PostgresEffectLedger (rath/runtime/effects.py).  Every method is one       *)
(* BEGIN IMMEDIATE transaction of the first and one conditional UPDATE or one *)
(* locked SELECT of the second, hence one action.  A node of the plan calls   *)
(* at most one tool, so the node stands for the tool name and the arguments   *)
(* digest.                                                                    *)
EXTENDS RunStore

CONSTANTS
    Invocation,      \* invocation ids
    EffectOf,        \* effect class of the tool that a node calls
    CallKeyOf,       \* idempotency key under which it is called, or NoKey
    GraceTicks       \* reconcile_effects' grace_seconds

EffectClass == {"NONE", "READ_ONLY", "IDEMPOTENT", "NON_IDEMPOTENT"}
InvocationStatus == {"PREPARED", "DISPATCHED", "SUCCEEDED", "FAILED", "AMBIGUOUS"}

ASSUME LedgerConstants ==
    /\ EffectOf \in [Node -> EffectClass]
    /\ GraceTicks \in Nat
    /\ Nobody \notin Invocation

VARIABLE ledger      \* ledger[i]: run, node, status, age (since updated_at)

InvocationRow == [run : Run \cup {Nobody}, node : Node \cup {Done},
                  status : InvocationStatus, age : 0..GraceTicks]

LedgerInit ==
    ledger = [i \in Invocation |->
                 [run |-> Nobody, node |-> Done, status |-> "PREPARED", age |-> 0]]

Fresh(i) == ledger[i].run = Nobody

\* The row that prepare finds under (run_id, idempotency_key), if any.
Keyed(r, n) ==
    {i \in Invocation : /\ ledger[i].run = r
                        /\ CallKeyOf[n] # NoKey
                        /\ CallKeyOf[ledger[i].node] = CallKeyOf[n]}

\* prepare inserting a row; a found row is returned unchanged.
Prepare(i, r, n) ==
    /\ Fresh(i)
    /\ Keyed(r, n) = {}
    /\ ledger' = [ledger EXCEPT ![i] =
                     [run |-> r, node |-> n, status |-> "PREPARED", age |-> 0]]

\* _transition: raises ConflictError unless the row is in an expected status.
Expected(i, from) == ~Fresh(i) /\ ledger[i].status \in from

Transition(i, from, to) ==
    /\ Expected(i, from)
    /\ ledger' = [ledger EXCEPT ![i] = [@ EXCEPT !.status = to, !.age = 0]]

MarkDispatched(i) == Transition(i, {"PREPARED"}, "DISPATCHED")
Complete(i) == Transition(i, {"PREPARED", "DISPATCHED"}, "SUCCEEDED")
FailInvocation(i) == Transition(i, {"PREPARED", "DISPATCHED"}, "FAILED")

Stale(i) == ~Fresh(i) /\ ledger[i].status = "DISPATCHED" /\ ledger[i].age = GraceTicks

\* Mutation: any call with a key is taken to be safe to repeat.
Reconciled_AnyKey(n) ==
    IF EffectOf[n] \in {"NONE", "READ_ONLY"} \/ CallKeyOf[n] # NoKey
    THEN "PREPARED" ELSE "AMBIGUOUS"

\* reconcile_stale: what a call whose outcome is unknown becomes.
Reconciled(n) ==
    IF \/ EffectOf[n] \in {"NONE", "READ_ONLY"}
       \/ EffectOf[n] = "IDEMPOTENT" /\ CallKeyOf[n] # NoKey
    THEN "PREPARED" ELSE "AMBIGUOUS"

ReconcileStale ==
    ledger' = [i \in Invocation |->
                  IF Stale(i)
                  THEN [ledger[i] EXCEPT !.status = Reconciled(ledger[i].node), !.age = 0]
                  ELSE ledger[i]]

\* The runs of the invocations that reconcile_stale has just made ambiguous.
NewlyAmbiguous ==
    {ledger[i].run : i \in {j \in Invocation : Stale(j) /\ Reconciled(ledger[j].node) = "AMBIGUOUS"}}

\* The wall clock; only the age of a dispatched row is ever read.
TickedLedger ==
    [i \in Invocation |->
        IF ledger[i].status = "DISPATCHED" /\ ledger[i].age < GraceTicks
        THEN [ledger[i] EXCEPT !.age = @ + 1]
        ELSE ledger[i]]
=============================================================================
