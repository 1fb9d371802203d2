---------------------------- MODULE MCBrainQueue ----------------------------
(***************************************************************************)
(* Small instances of the distributed task queue for TLC.                  *)
(***************************************************************************)
EXTENDS BrainQueue, TLC

CONSTANTS w1, w2, t1, t2

MCWorkers == {w1, w2}

\* A command for any node and a task that only a node with the web may
\* claim, equally urgent: the order of submission decides which is offered first.
MCTasks == {t1, t2}
MCType == t1 :> "shell" @@ t2 :> "research"
MCPriority == t1 :> 0 @@ t2 :> 0

\* One node with everything and one with the capabilities every node has.
MCCapabilities ==
    w1 :> {"general", "shell", "file_ops", "git", "gpu", "creative", "web",
           "research", "ollama"}
    @@ w2 :> {"general", "shell", "file_ops", "git"}

=============================================================================
