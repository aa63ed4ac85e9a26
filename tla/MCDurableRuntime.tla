-------------------------- MODULE MCDurableRuntime ---------------------------
(* TLC instances of DurableRuntime: one plan "ask" -> "call" whose first node *)
(* takes no checkpoint, and the variations the cfg files choose.              *)
EXTENDS DurableRuntime, TLC

CONSTANTS Effect, CallKey, Entry, s1

MCNode          == {"ask", "call"}
MCState         == SUBSET MCNode
MCSessionOf     == [r \in Run |-> s1]
MCKeyOf         == [r \in Run |-> NoKey]
MCPriorityOf    == [r \in Run |-> 0]
MCCreatedAt     == [r \in Run |-> 0]
MCInputOf       == [r \in Run |-> {}]
MCEntryOf       == [r \in Run |-> Entry]
MCSuccessors    == [n \in MCNode |-> IF n = "ask" THEN {"call"} ELSE {Done}]
MCEffectOf      == [n \in MCNode |-> Effect]
MCCallKeyOf     == [n \in MCNode |-> CallKey]

\* events is written and never read: states that differ only in it are one.
View == <<runs, leases, checkpoints, interrupts, ledger, wk, api, applied, crashes, late>>

WorkerSymmetry == Permutations(Worker)
=============================================================================
