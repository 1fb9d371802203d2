----------------------------- MODULE BrainQueue -----------------------------
(***************************************************************************)
(* The distributed task queue of the brain: the tasks table that rqlite    *)
(* replicates (src/brain/client.py) and the workers that claim tasks from  *)
(* it, run them and report back (src/brain/worker.py).  A worker talks to  *)
(* the table over HTTP: the statement may be executed although the answer  *)
(* never arrives, and the process may die between two calls.               *)
(***************************************************************************)
EXTENDS Integers, FiniteSets

CONSTANTS
    Workers,        \* the worker processes
    Tasks,          \* the tasks submitted during a behaviour
    NoTask,         \* what claim_task returns when there is none
    Type,           \* Type[t]: the task_type of t
    Priority,       \* Priority[t]
    Capabilities,   \* Capabilities[w]: what w detected, or its CLI override
    MaxFaults       \* bound on lost answers and crashes together

ASSUME QueueAssumption ==
    /\ NoTask \notin Tasks
    /\ IsFiniteSet(Tasks)
    /\ Type \in [Tasks -> STRING]
    /\ Priority \in [Tasks -> Int]
    /\ Capabilities \in [Workers -> SUBSET STRING]
    /\ MaxFaults \in Nat

VARIABLES
    status,     \* status[t]: the column of the tasks table
    claimedBy,  \* claimedBy[t]: the worker in the claimed_by column
    created,    \* created[t]: the rank of created_at
    pc,         \* pc[w]: where run() of worker w is
    job,        \* job[w]: the task w claimed
    running,    \* running[w]: self.running
    faults,     \* lost answers and crashes so far
    runs,       \* runs[t]: how often a handler was called for t
    returned,   \* the tasks for which a handler returned a result
    struck      \* history: the tasks that a fault took from their worker

vars == <<status, claimedBy, created, pc, job, running, faults, runs, returned, struck>>

table == <<status, claimedBy, created>>

Finished == {"done", "failed"}

\* Not yet submitted, then the values of the column.
TaskStatuses == {"unknown", "pending", "claimed"} \cup Finished

WorkerPCs == {"claiming", "claimed", "executing", "succeeded", "raised",
              "sleeping", "stopped", "crashed"}

Init ==
    /\ status = [t \in Tasks |-> "unknown"]
    /\ claimedBy = [t \in Tasks |-> {}]
    /\ created = [t \in Tasks |-> 0]
    /\ pc = [w \in Workers |-> "claiming"]
    /\ job = [w \in Workers |-> NoTask]
    /\ running = [w \in Workers |-> TRUE]
    /\ faults = 0
    /\ runs = [t \in Tasks |-> 0]
    /\ returned = {}
    /\ struck = {}

-----------------------------------------------------------------------------
(* The table.                                                              *)

\* submit_task: the row is inserted after the rows that exist.
Submit(t) ==
    /\ status[t] = "unknown"
    /\ status' = [status EXCEPT ![t] = "pending"]
    /\ created' = [created EXCEPT
                      ![t] = Cardinality({u \in Tasks : status[u] # "unknown"}) + 1]
    /\ UNCHANGED <<claimedBy, pc, job, running, faults, runs, returned, struck>>

\* ORDER BY priority DESC, created_at ASC
Before(t, u) ==
    \/ Priority[t] > Priority[u]
    \/ Priority[t] = Priority[u] /\ created[t] <= created[u]

\* Mutant: the types are compared after LIMIT 1 instead of before it.
ClaimableHead(w) ==
    {t \in Tasks : /\ status[t] = "pending"
                   /\ \A u \in Tasks : status[u] = "pending" => Before(t, u)
                   /\ Type[t] \in Capabilities[w] \/ Type[t] = "general"}

\* Mutant: the claim forgets that the task must be pending.
ClaimableAnyStatus(w) ==
    {t \in Tasks : /\ status[t] \in {"pending", "claimed"}
                   /\ Type[t] \in Capabilities[w] \/ Type[t] = "general"}

\* The rows the inner SELECT of claim_task may pick for w.
Claimable(w) ==
    {t \in Tasks : /\ status[t] = "pending"
                   /\ Type[t] \in Capabilities[w] \/ Type[t] = "general"}

\* claim_task, executed by the table as one statement.  The request is under
\* way, so that a stop() comes too late for it.
Claim(w) ==
    /\ pc[w] = "claiming"
    /\ pc' = [pc EXCEPT ![w] = "claimed"]
    /\ \/ \E t \in Claimable(w) :
             /\ \A u \in Claimable(w) : Before(t, u)
             /\ status' = [status EXCEPT ![t] = "claimed"]
             /\ claimedBy' = [claimedBy EXCEPT ![t] = {w}]
             /\ job' = [job EXCEPT ![w] = t]
       \/ /\ Claimable(w) = {}
          /\ job' = [job EXCEPT ![w] = NoTask]
          /\ UNCHANGED <<status, claimedBy>>
    /\ UNCHANGED <<created, running, faults, runs, returned, struck>>

-----------------------------------------------------------------------------
(* The worker.                                                             *)

\* A fault, of which the table learns nothing.
LosesTask(w) ==
    /\ faults' = faults + 1
    /\ struck' = struck \cup ({job[w]} \ {NoTask})
    /\ job' = [job EXCEPT ![w] = NoTask]
    /\ UNCHANGED <<table, running, runs, returned>>

\* The answer to the claim is lost or is an HTTP error: claim_task returns None
\* whatever the table did.
ClaimLost(w) ==
    /\ pc[w] = "claimed"
    /\ faults < MaxFaults
    /\ pc' = [pc EXCEPT ![w] = "sleeping"]
    /\ LosesTask(w)

\* run_once goes on with the answer: execute_task calls the handler.
ClaimAnswered(w) ==
    /\ pc[w] = "claimed"
    /\ IF job[w] = NoTask
       THEN /\ pc' = [pc EXCEPT ![w] = "sleeping"]
            /\ UNCHANGED runs
       ELSE /\ pc' = [pc EXCEPT ![w] = "executing"]
            /\ runs' = [runs EXCEPT ![job[w]] = @ + 1]
    /\ UNCHANGED <<table, job, running, faults, returned, struck>>

\* The handlers registered by default; any other type gets the general one.
HandlerOf(type) ==
    IF type \in {"shell", "creative", "code", "research"} THEN type ELSE "general"

\* A creative or a general handler ends with remember(), and so does a shell
\* handler on a node with zeroclaw.  It raises: the embedding is bytes, which
\* the request cannot carry as JSON.  Research raises on a node without the web.
HandlerReturns(w) ==
    /\ pc[w] = "executing"
    /\ HandlerOf(Type[job[w]]) \in
          {"shell", "code"} \cup IF "web" \in Capabilities[w] THEN {"research"} ELSE {}
    /\ pc' = [pc EXCEPT ![w] = "succeeded"]
    /\ returned' = returned \cup {job[w]}
    /\ UNCHANGED <<table, job, running, faults, runs, struck>>

HandlerRaises(w) ==
    /\ pc[w] = "executing"
    /\ HandlerOf(Type[job[w]]) \in
          {"shell", "creative", "general"}
              \cup IF "web" \in Capabilities[w] THEN {} ELSE {"research"}
    /\ pc' = [pc EXCEPT ![w] = "raised"]
    /\ UNCHANGED <<table, job, running, faults, runs, returned, struck>>

\* These handlers wait for a command (proc.communicate()) without a limit.
RunsCommand(w) == HandlerOf(Type[job[w]]) \in {"shell", "general"}

\* Mutant: the branch of the exception reports success.
CompletedAlwaysDone(w) ==
    /\ pc[w] \in {"succeeded", "raised"}
    /\ status' = [status EXCEPT ![job[w]] = "done"]
    /\ pc' = [pc EXCEPT ![w] = "sleeping"]
    /\ job' = [job EXCEPT ![w] = NoTask]
    /\ UNCHANGED <<claimedBy, created, running, faults, runs, returned, struck>>

\* Mutant: a failed task stays claimed.
CompletedOnSuccess(w) ==
    /\ pc[w] \in {"succeeded", "raised"}
    /\ status' = [status EXCEPT ![job[w]] = IF pc[w] = "succeeded" THEN "done" ELSE @]
    /\ pc' = [pc EXCEPT ![w] = "sleeping"]
    /\ job' = [job EXCEPT ![w] = NoTask]
    /\ UNCHANGED <<claimedBy, created, running, faults, runs, returned, struck>>

\* complete_task reaches the table; the row is updated whatever its state.
\* The loop does the same when only the answer to it is lost.
Completed(w) ==
    /\ pc[w] \in {"succeeded", "raised"}
    /\ status' = [status EXCEPT
                     ![job[w]] = IF pc[w] = "succeeded" THEN "done" ELSE "failed"]
    /\ pc' = [pc EXCEPT ![w] = "sleeping"]
    /\ job' = [job EXCEPT ![w] = NoTask]
    /\ UNCHANGED <<claimedBy, created, running, faults, runs, returned, struck>>

\* complete_task does not reach the table and swallows the error.
CompletionLost(w) ==
    /\ pc[w] \in {"succeeded", "raised"}
    /\ faults < MaxFaults
    /\ pc' = [pc EXCEPT ![w] = "sleeping"]
    /\ LosesTask(w)

\* The head of the loop of run(), after the pause.
Loop(w) ==
    /\ pc[w] = "sleeping"
    /\ pc' = [pc EXCEPT ![w] = IF running[w] THEN "claiming" ELSE "stopped"]
    /\ UNCHANGED <<table, job, running, faults, runs, returned, struck>>

\* stop(), called while the loop is paused in one of its awaits.
Stop(w) ==
    /\ pc[w] \notin {"stopped", "crashed"}
    /\ running[w]
    /\ running' = [running EXCEPT ![w] = FALSE]
    /\ UNCHANGED <<table, pc, job, faults, runs, returned, struck>>

Crash(w) ==
    /\ pc[w] \notin {"stopped", "crashed"}
    /\ faults < MaxFaults
    /\ pc' = [pc EXCEPT ![w] = "crashed"]
    /\ LosesTask(w)

\* A new process starts in the place of one that died or was stopped.
Restart(w) ==
    /\ pc[w] \in {"stopped", "crashed"}
    /\ pc' = [pc EXCEPT ![w] = "claiming"]
    /\ running' = [running EXCEPT ![w] = TRUE]
    /\ UNCHANGED <<table, job, faults, runs, returned, struck>>

WorkerStep(w) ==
    \/ Claim(w) \/ ClaimAnswered(w)
    \/ HandlerReturns(w) \/ HandlerRaises(w)
    \/ Completed(w) \/ Loop(w)

Fault(w) == ClaimLost(w) \/ CompletionLost(w) \/ Crash(w)

Next ==
    \/ \E t \in Tasks : Submit(t)
    \/ \E w \in Workers : WorkerStep(w) \/ Fault(w) \/ Stop(w) \/ Restart(w)

\* A worker that is up keeps running: its HTTP calls have a timeout and its loop
\* never exits on an exception; but a command may run for ever.  Nobody has to
\* submit, stop or restart.
Fairness ==
    \A w \in Workers :
        WF_vars(~(pc[w] = "executing" /\ RunsCommand(w)) /\ WorkerStep(w))

Spec == Init /\ [][Next]_vars /\ Fairness

-----------------------------------------------------------------------------
(* Properties.                                                             *)

\* The variables have their types.
TypeOK ==
    /\ status \in [Tasks -> TaskStatuses]
    /\ claimedBy \in [Tasks -> SUBSET Workers]
    /\ created \in [Tasks -> Nat]
    /\ pc \in [Workers -> WorkerPCs]
    /\ job \in [Workers -> Tasks \cup {NoTask}]
    /\ running \in [Workers -> BOOLEAN]
    /\ faults \in 0..MaxFaults
    /\ runs \in [Tasks -> Nat]
    /\ returned \in SUBSET Tasks
    /\ struck \in SUBSET Tasks

\* No task is ever run twice, by whatever workers, with lost answers, crashes
\* and restarts: "only one node wins", and a task nobody reported on is never
\* offered again.
AtMostOnce == \A t \in Tasks : runs[t] <= 1

Working == {"claimed", "executing", "succeeded", "raised"}

\* A worker that holds a task is the one the table names, the task is still
\* claimed, and nobody else holds it.
HolderIsClaimer ==
    \A w \in Workers :
        job[w] # NoTask =>
            /\ pc[w] \in Working
            /\ status[job[w]] = "claimed"
            /\ claimedBy[job[w]] = {w}
            /\ \A v \in Workers \ {w} : job[v] # job[w]

\* The table says done only of tasks whose handler returned a result, and
\* failed only of tasks whose handler ran and returned none.
OutcomeIsTrue ==
    \A t \in Tasks :
        /\ status[t] = "done" => t \in returned
        /\ status[t] = "failed" => runs[t] = 1 /\ t \notin returned

\* A command that w runs for t never ends.
Hangs(w, t) == <>[](pc[w] = "executing" /\ job[w] = t)

\* A task does not stay pending that a worker is able to claim that is up for
\* good and no command of which hangs: no stream of other tasks, claims or faults
\* keeps the worker from it, nor do other workers that hang.
PendingIsClaimed ==
    \A t \in Tasks : \A w \in Workers :
        /\ <>[](pc[w] \notin {"crashed", "stopped"} /\ running[w])
        /\ \A u \in Tasks : ~Hangs(w, u)
        /\ Type[t] \in Capabilities[w] \cup {"general"}
        => (status[t] = "pending" ~> status[t] # "pending")

\* Without a lease a task stays claimed for ever if its claim or its outcome is
\* lost, if its worker dies or if its command hangs, but for no other reason:
\* whatever becomes of other tasks and workers, of stops and of restarts, it is
\* reported on unless such a thing befell this very task.
ClaimedIsFinished ==
    \A t \in Tasks :
        (\A w \in Workers : ~Hangs(w, t))
        => (status[t] = "claimed" ~> status[t] \in Finished \/ t \in struck)

=============================================================================
