---------------------------- MODULE MCAgentServer ----------------------------
(* TLC instance of AgentServer: a tenant with a keyed call and a call through *)
(* an alias, and a second tenant that posts to the first one's session.  The  *)
(* event stream of one run and the creation and paging of several runs share  *)
(* nothing but the run, so a behaviour exercises one of them: the state space *)
(* is the union of the two and not their product.                             *)
EXTENDS AgentServer, TLC

CONSTANTS t1, t2, s1, s2, s3, a1

VARIABLE focus

MCOwnerOf == [s \in Session |-> t1]
MCCall == {[tenant |-> t1, key |-> 1, session |-> s1, alias |-> Nobody],
           [tenant |-> t1, key |-> NoKey, session |-> s2, alias |-> a1],
           [tenant |-> t1, key |-> NoKey, session |-> s3, alias |-> Nobody],
           [tenant |-> t2, key |-> 1, session |-> s1, alias |-> Nobody]}
MCCreatedAt == [r \in Run |-> IF r = 3 THEN 2 ELSE 1]

Focus == {"stream", "queue", "paging", "deployment"}

MCInit ==
    /\ ServerInit
    /\ focus \in Focus
    /\ focus # "stream" => client.follow /\ client.after = Absent

MCNext ==
    /\ \/ /\ focus = "stream"
          /\ \/ Streaming \/ AttemptFailed \/ Advance(Followed)
             \/ ~Exists(Followed) /\ \E p \in Replica : Creating(p)
       \/ focus = "queue" /\ ((\E p \in Replica : Creating(p)) \/ \E r \in Run : Advance(r))
       \/ focus = "paging" /\ ((\E p \in Replica : Creating(p)) \/ Paging \/ Advance(1))
       \/ focus = "deployment" /\ ((\E p \in Replica : Requests(p)) \/ Advance(1))
    /\ UNCHANGED focus

MCSpec == MCInit /\ [][MCNext]_<<serverVars, focus>> /\ StreamFairness
=============================================================================
