--------------------------- MODULE MCPostgresStore ---------------------------
(* TLC instance of PostgresStore.  Bounded stops it at MaxVersion versions of  *)
(* a run, MaxVersions in total, and MaxExtra events and invocations.           *)
EXTENDS PostgresStore, TLC, FiniteSetsExt

CONSTANTS MaxVersion, MaxVersions, MaxExtra, s1

MCSessionOf     == [r \in Run |-> s1]
MCKeyOf         == [r \in Run |-> NoKey]
MCPriorityOf    == [r \in Run |-> 0]
MCCreatedAt     == [r \in Run |-> 0]
MCInputOf       == [r \in Run |-> "input"]
MCEntryOf       == [r \in Run |-> "n1"]

Bounded ==
    /\ \A r \in Run : /\ runs[r].version <= MaxVersion
                      /\ events[r] <= runs[r].version + 1 + MaxExtra
                      /\ invoked[r] <= MaxExtra
    /\ MapThenSumSet(LAMBDA r : runs[r].version, Run) <= MaxVersions

WorkerSymmetry == Permutations(Worker)
=============================================================================
