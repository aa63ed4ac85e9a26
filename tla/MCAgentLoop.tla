----------------------------- MODULE MCAgentLoop -----------------------------
(* TLC instance of AgentLoop: one seed row, replies with two calls on one     *)
(* resource, with two calls on two resources and a call nobody can run,       *)
(* replies that end the loop, and one that neither calls nor ends it.  A      *)
(* behaviour is about the file on disk, about the readers, or about the       *)
(* tools, so that the state space is the union of the three.                  *)
EXTENDS AgentLoop, TLC

CONSTANTS edit, look, sub, path, mem, user, c1, c2, r1, r2

MCSeeds == <<user>>
MCTools == {<<edit, edit>>, <<look>>, <<sub>>}
MCWholeArguments == {<<path>>, <<mem>>}
MCKeyOf == [p \in MCTools \X MCWholeArguments |->
              IF p[1] = <<look>> /\ p[2] = <<mem>> THEN NoKey ELSE p[2][1]]
MCBody == [n \in MCTools |-> IF n = <<look>> THEN "reads" ELSE IF n = <<sub>> THEN "nests" ELSE "plain"]

Delta(index, id, name, args, finish, tokens) ==
    [index |-> index, id |-> id, name |-> name, args |-> args, finish |-> finish, tokens |-> tokens]

Stop  == <<Delta(None, None, <<>>, <<>>, "stop", 1)>>
Idle  == <<Delta(None, None, <<>>, <<>>, "other", None)>>
\* Fragments of two calls, interleaved.
Same  == <<Delta(2, c2, <<look>>, <<>>, None, None), Delta(1, c1, <<edit>>, <<>>, None, None),
           Delta(2, None, <<>>, <<path>>, None, None), Delta(1, None, <<edit>>, <<path>>, None, 1)>>
Apart == <<Delta(1, c1, <<edit, edit>>, <<path>>, None, None),
           Delta(2, c2, <<look>>, <<mem>>, "tool_calls", 2)>>
Wrong == <<Delta(None, c1, <<edit>>, <<path>>, None, None), Delta(2, c2, <<look>>, <<>>, None, None)>>
Nest  == <<Delta(None, c1, <<sub>>, <<path>>, None, None)>>

MCStreams     == {Stop, Idle, Same, Apart, Wrong}
PromiseStreams == {Stop, Nest}

VARIABLE focus

MCInit == LoopInit /\ focus \in {"disk", "readers", "tools"} /\ persist = (focus # "tools")

MCNext ==
    /\ LoopNext
    /\ focus = "disk" => reads' = reads
    /\ focus = "readers" => prunes' = 0 /\ alive' /\ Len(calls') < 2 /\ (rounds' > 1 => finished')
    /\ focus = "tools" => \A r \in Reader \ {r1} : reads'[r] = reads[r]
    /\ UNCHANGED focus

MCSpec == MCInit /\ [][MCNext]_<<loopVars, focus>> /\ LoopFairness

\* Three loops, each started anew: one whose process crashes, one whose writer meets an
\* error, and, when both have left a closed file, one with a tool that nests.  Nobody
\* reads or cancels and nothing is pruned.
Undisturbed == prunes' = 0 /\ future' # "cancelled" /\ UNCHANGED focus
PromiseNext ==
    \/ focus = "crash" /\ LoopNext /\ Undisturbed /\ tool' = <<>> /\ reads' = reads /\ errors' = 0
    \/ focus = "error" /\ LoopNext /\ Undisturbed /\ tool' = <<>> /\ reads' = reads /\ alive'
    \/ focus = "nest" /\ LoopNext /\ Undisturbed /\ errors' = 0 /\ alive'

NewLoop ==
    /\ partial' = Missing /\ final' = Missing /\ handle' = "none" /\ buffered' = <<>>
    /\ persist' = TRUE
    /\ pc' = "start" /\ waiting' = FALSE /\ attempts' = 0 /\ rounds' = 0 /\ finished' = FALSE
    /\ calls' = <<>> /\ tool' = <<>> /\ seen' = <<>> /\ rows' = Seeds /\ written' = 0
    /\ resource' = [k \in Key |-> 0] /\ updates' = [k \in Key |-> 0]
    /\ usage' = None /\ fired' = 0 /\ future' = "pending"
    /\ queue' = <<>> /\ drain' = [at |-> "idle"] /\ orphan' = None /\ failure' = FALSE /\ closer' = "none"
    /\ out' = [table |-> Seeds, pending |-> "unset", lock |-> None]
    /\ reads' = [r \in Reader |-> [at |-> "idle", table |-> <<>>]]
    /\ alive' = TRUE /\ errors' = 0 /\ prunes' = 0
Broken ==
    /\ \/ focus = "crash" /\ ~OnlyTheRenameCloses /\ focus' = "error"
       \/ focus = "error" /\ ~ErrorsLeaveNoTrailer /\ focus' = "nest"
    /\ NewLoop

PromiseSpec ==
    /\ LoopInit /\ persist = TRUE /\ focus = "crash"
    /\ [][PromiseNext \/ Broken]_<<loopVars, focus>> /\ LoopFairness

\* One of three lines of the repository is true of the code: a file that was not renamed
\* is not loaded as closed, a loop that raises leaves no trailer, and the tools of a loop
\* end.  A counterexample breaks the first two and then runs a tool that never ends.
SomeLoopPromiseIsKept == [](focus # "nest") \/ ToolsEnd
=============================================================================
