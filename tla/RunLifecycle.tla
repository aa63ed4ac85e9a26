---------------------------- MODULE RunLifecycle -----------------------------
(* What a client of the API may rely on: the life of a run as its status and  *)
(* the number of times it was handed to a worker.  It allows less than the    *)
(* transition table of rath/runtime/models.py: some entries of that table are *)
(* never taken, because no worker holds the lease of a run that waits.        *)
EXTENDS Naturals

CONSTANT Run
VARIABLES status, attempt

Live == {"QUEUED", "RUNNING", "WAITING", "NEEDS_REVIEW"}

Init == status = [r \in Run |-> "ABSENT"] /\ attempt = [r \in Run |-> 0]

Submitted(s, t) == s = "ABSENT" /\ t = "QUEUED"
Started(s, t)   == s = "QUEUED" /\ t = "RUNNING"
Released(s, t)  == s \in Live \ {"QUEUED"} /\ t = "QUEUED"
Stopped(s, t)   == s = "RUNNING" /\ t \in {"WAITING", "NEEDS_REVIEW"}
Ended(s, t)     ==
    \/ t = "SUCCEEDED" /\ s = "RUNNING"
    \/ t = "FAILED"    /\ s \in {"RUNNING", "NEEDS_REVIEW"}
    \/ t = "TIMED_OUT" /\ s \in {"QUEUED", "RUNNING", "WAITING"}
    \/ t = "CANCELLED" /\ s \in Live

\* One run's part of a step; a sweep moves several runs at once.
Moves(r) ==
    LET s == status[r]
        t == status'[r]
    IN IF Started(s, t) THEN attempt'[r] = attempt[r] + 1
       ELSE /\ attempt'[r] = attempt[r]
            /\ t = s \/ Submitted(s, t) \/ Released(s, t) \/ Stopped(s, t) \/ Ended(s, t)

Next ==
    /\ status' = [r \in Run |-> status'[r]]
    /\ attempt' = [r \in Run |-> attempt'[r]]
    /\ \A r \in Run : Moves(r)

Spec == Init /\ [][Next]_<<status, attempt>>
=============================================================================
