----------------------------- MODULE MCRunStore -----------------------------
(* TLC instance of RunStore: three submissions, two of one session and two   *)
(* under one idempotency key.  The open system is unbounded; the constraint  *)
(* Bounded stops it at MaxVersion versions and MaxExtraEvents events that no *)
(* version accounts for, both per run, and at MaxVersions versions in total. *)
EXTENDS RunStore, TLC, FiniteSetsExt

CONSTANTS MaxVersion, MaxVersions, MaxExtraEvents, s1, s2, k1

MCSessionOf     == [r \in Run |-> IF r = 3 THEN s2 ELSE s1]
MCKeyOf         == [r \in Run |-> IF r = 2 THEN NoKey ELSE k1]
MCPriorityOf    == [r \in Run |-> IF r = 2 THEN 1 ELSE 0]
MCCreatedAt     == [r \in Run |-> 0]
MCInputOf       == [r \in Run |-> "input"]
MCEntryOf       == [r \in Run |-> "n1"]

Bounded ==
    /\ \A r \in Run : /\ runs[r].version <= MaxVersion
                      /\ events[r] <= runs[r].version + 1 + MaxExtraEvents
    /\ MapThenSumSet(LAMBDA r : runs[r].version, Run) <= MaxVersions

IdSymmetry == Permutations(Worker) \cup Permutations(Interrupt)
=============================================================================
