---------------------------- MODULE AgenticLoop ----------------------------
(***************************************************************************)
(* The agentic loop (timmy/agentic_loop.py) and the tool plan_and_execute  *)
(* that starts one (timmy/tools.py).                                       *)
(*                                                                         *)
(* A loop plans, executes the steps one by one, adapts a step that failed  *)
(* and sums up; each of these is a call of agent.run() made with           *)
(* asyncio.to_thread().  The tool finds out where it was called.  In a     *)
(* thread (a chat of the browser, or a call of another loop, whose agent   *)
(* has the same tool) it runs the loop to its end on an event loop of its  *)
(* own, with threads of its own, while the thread waits.  On the server's  *)
(* event loop (a chat of the phone) it leaves the loop behind as a task,   *)
(* whose calls take the server's threads.                                  *)
(*                                                                         *)
(* Prompts, sessions and texts are left out, and so is on_progress, which  *)
(* no caller passes.  A broadcast never raises: _broadcast_progress        *)
(* catches what the WebSocket manager throws.  A call whose agent cannot   *)
(* be made raises before there is a loop (_get_loop_agent), and is left    *)
(* out as well.  Where an answer has no text (its content is None), the    *)
(* code that slices or parses it raises; records made before that stay.    *)
(***************************************************************************)
EXTENDS Naturals, Sequences, SequencesExt, FiniteSets

CONSTANTS
    Loops,      \* the calls of plan_and_execute made during a behaviour
    MaxSteps,   \* settings.max_agent_steps (10)
    MaxPlanned, \* bound on the steps that a plan names
    Workers,    \* the threads of the server's executor
    Silent      \* bound: the loops whose agent may answer without a text

ASSUME LoopAssumption ==
    /\ IsFiniteSet(Loops)
    /\ MaxSteps \in Nat \ {0}
    /\ MaxPlanned \in Nat
    /\ Workers \in Nat \ {0}
    /\ Silent \subseteq Loops

VARIABLES
    phase,    \* where run_agentic_loop is; "unused" before it, "ended" after it
    running,  \* the loops whose agent.run() has a thread; the others wait for one
    origin,   \* what called the tool: "thread", "server", or another loop's call
    planned,  \* len(steps) of the plan before it is cut
    current,  \* i, the number of the step that is executed or adapted
    records,  \* result.steps: <<step_num, status>>
    outcome,  \* result.status; "none" before the end, "raised" when there is no result
    announced \* history: the events broadcast so far

loopVars == <<phase, running, origin, planned, current, records, outcome, announced>>

----------------------------------------------------------------------------
Phases == {"planning", "step", "adapting", "summing"}
Statuses == {"completed", "adapted", "failed"}

ActiveLoops == {l \in Loops : phase[l] \in Phases}
Total(l) == IF planned[l] < MaxSteps THEN planned[l] ELSE MaxSteps    \* steps[:max_steps]

Outcomes == {"none", "completed", "partial", "failed", "raised"}
Broadcasts == {"plan_ready", "step_complete", "step_adapted", "task_complete"}

\* Types; only a loop under way has a thread, and no step beyond the cut is taken.
LoopsTypeOK ==
    /\ phase \in [Loops -> Phases \cup {"unused", "ended"}]
    /\ running \subseteq ActiveLoops
    /\ origin \in [Loops -> Loops \cup {"none", "thread", "server"}]
    /\ planned \in [Loops -> 0 .. MaxPlanned]
    /\ current \in [Loops -> Nat]
    /\ outcome \in [Loops -> Outcomes]
    /\ records \in [Loops -> Seq(Nat \X Statuses)]
    /\ announced \in [Loops -> Seq(Broadcasts)]
    /\ \A l \in Loops : current[l] <= Total(l) /\ (outcome[l] = "none") = (phase[l] # "ended")

LoopsInit ==
    /\ phase = [l \in Loops |-> "unused"]
    /\ running = {}
    /\ origin = [l \in Loops |-> "none"]
    /\ planned = [l \in Loops |-> 0]
    /\ current = [l \in Loops |-> 0]
    /\ records = [l \in Loops |-> <<>>]
    /\ outcome = [l \in Loops |-> "none"]
    /\ announced = [l \in Loops |-> <<>>]

----------------------------------------------------------------------------
(* Threads.  A chat of the browser keeps its thread of the server while    *)
(* the loop that it started runs.                                          *)
BusyWorkers ==
    {l \in ActiveLoops : origin[l] = "thread" \/ (origin[l] = "server" /\ l \in running)}

\* A call in whose thread another loop runs returns only after it.
Waits(l) == \E k \in ActiveLoops : origin[k] = l

\* plan_and_execute: where an event loop runs, and where none does.
PlanAndExecute(l) ==
    /\ phase[l] = "unused"
    /\ \/ Cardinality(BusyWorkers) < Workers /\ origin' = [origin EXCEPT ![l] = "thread"]
       \/ origin' = [origin EXCEPT ![l] = "server"]
       \/ \E k \in running : ~Waits(k) /\ origin' = [origin EXCEPT ![l] = k]
    /\ phase' = [phase EXCEPT ![l] = "planning"]
    /\ UNCHANGED <<running, planned, current, records, outcome, announced>>

\* Mutant: every call takes a thread of the server.
ThreadIsFreeOfServer(l) == Cardinality(BusyWorkers) < Workers

\* A loop on an event loop of its own finds a thread at once.
ThreadIsFree(l) == origin[l] = "server" => Cardinality(BusyWorkers) < Workers

\* asyncio.to_thread(agent.run, ...).
ToThread(l) ==
    /\ l \in ActiveLoops \ running
    /\ ThreadIsFree(l)
    /\ running' = running \cup {l}
    /\ UNCHANGED <<phase, origin, planned, current, records, outcome, announced>>

\* The call of loop l in phase p returns or raises.
Returns(l, p) ==
    /\ l \in running /\ ~Waits(l)
    /\ phase[l] = p
    /\ running' = running \ {l}

----------------------------------------------------------------------------
(* The phases. *)
EndsAs(l, status) ==
    /\ phase' = [phase EXCEPT ![l] = "ended"]
    /\ outcome' = [outcome EXCEPT ![l] = status]

Tells(l, event) == announced' = [announced EXCEPT ![l] = Append(@, event)]

\* The loop raises, and so does the tool; nobody looks at the exception of a task.
Raises(l) == EndsAs(l, "raised") /\ UNCHANGED <<origin, planned, current, records, announced>>

\* Planning raised, or _parse_steps found no step.
PlanFails(l) ==
    /\ Returns(l, "planning")
    /\ EndsAs(l, "failed")
    /\ UNCHANGED <<origin, planned, current, records, announced>>

\* _parse_steps(None) raises, outside the try.
PlanHasNoText(l) == l \in Silent /\ Returns(l, "planning") /\ Raises(l)

PlanIsReady(l) ==
    /\ Returns(l, "planning")
    /\ \E n \in 1 .. MaxPlanned : planned' = [planned EXCEPT ![l] = n]
    /\ current' = [current EXCEPT ![l] = 1]
    /\ phase' = [phase EXCEPT ![l] = "step"]
    /\ Tells(l, "plan_ready")
    /\ UNCHANGED <<origin, records, outcome>>

\* result.steps.append(step).
Records(l, statuses) ==
    records' = [records EXCEPT ![l] = @ \o [j \in DOMAIN statuses |-> <<current[l], statuses[j]>>]]

\* On to the next step.
NextStep(l) ==
    IF current[l] = Total(l)
    THEN phase' = [phase EXCEPT ![l] = "summing"] /\ UNCHANGED current
    ELSE /\ phase' = [phase EXCEPT ![l] = "step"]
         /\ current' = [current EXCEPT ![l] = @ + 1]

StepCompletes(l) ==
    /\ Returns(l, "step")
    /\ Records(l, <<"completed">>)
    /\ NextStep(l)
    /\ Tells(l, "step_complete")
    /\ UNCHANGED <<origin, planned, outcome>>

StepFails(l) ==
    /\ Returns(l, "step")
    /\ phase' = [phase EXCEPT ![l] = "adapting"]
    /\ UNCHANGED <<origin, planned, current, records, outcome, announced>>

\* The step is recorded before step_result[:200] raises; then it is adapted.
StepHasNoText(l) ==
    /\ l \in Silent
    /\ Returns(l, "step")
    /\ Records(l, <<"completed">>)
    /\ phase' = [phase EXCEPT ![l] = "adapting"]
    /\ UNCHANGED <<origin, planned, current, outcome, announced>>

StepIsAdapted(l) ==
    /\ Returns(l, "adapting")
    /\ Records(l, <<"adapted">>)
    /\ NextStep(l)
    /\ Tells(l, "step_adapted")
    /\ UNCHANGED <<origin, planned, outcome>>

\* A step that fails twice is recorded; nothing is broadcast.
AdaptationFails(l) ==
    /\ Returns(l, "adapting")
    /\ Records(l, <<"failed">>)
    /\ NextStep(l)
    /\ UNCHANGED <<origin, planned, outcome, announced>>

\* The adaptation is recorded before adapt_result[:200] raises, then the failure.
AdaptationHasNoText(l) ==
    /\ l \in Silent
    /\ Returns(l, "adapting")
    /\ Records(l, <<"adapted", "failed">>)
    /\ NextStep(l)
    /\ UNCHANGED <<origin, planned, outcome, announced>>

\* Mutant: the status looks at the failed steps alone.
FinalStatusOfSteps(l) ==
    IF \E i \in DOMAIN records[l] : records[l][i][2] = "failed" THEN "partial" ELSE "completed"

FinalStatus(l) ==
    IF \/ planned[l] > Total(l)
       \/ Len(records[l]) < Total(l)
       \/ \E i \in DOMAIN records[l] : records[l][i][2] = "failed"
    THEN "partial" ELSE "completed"

\* The summary; when its call raises there is a stock phrase instead.
SumUp(l) ==
    /\ Returns(l, "summing")
    /\ EndsAs(l, FinalStatus(l))
    /\ Tells(l, "task_complete")
    /\ UNCHANGED <<origin, planned, current, records>>

\* result.summary[:300] raises, after the status was computed.
SummaryHasNoText(l) == l \in Silent /\ Returns(l, "summing") /\ Raises(l)

CallEnds(l) ==
    \/ PlanFails(l) \/ PlanHasNoText(l) \/ PlanIsReady(l)
    \/ StepCompletes(l) \/ StepFails(l) \/ StepHasNoText(l)
    \/ StepIsAdapted(l) \/ AdaptationFails(l) \/ AdaptationHasNoText(l)
    \/ SumUp(l) \/ SummaryHasNoText(l)

LoopsNext == \E l \in Loops : PlanAndExecute(l) \/ ToThread(l) \/ CallEnds(l)

\* A call of the agent returns or raises in the end, and threads are handed out.
LoopsFairness == \A l \in Loops : WF_loopVars(ToThread(l)) /\ WF_loopVars(CallEnds(l))

LoopsSpec == LoopsInit /\ [][LoopsNext]_loopVars /\ LoopsFairness

----------------------------------------------------------------------------
(* "completed" is only said of a loop whose plan was not cut, whose steps   *)
(* all have a record, none of which is a failure, and of each of which the *)
(* dashboard was told once: neither a cut plan, a step that was adapted in *)
(* vain, nor an answer without a text (whose step has several records, so  *)
(* that their number says nothing) hides a step.                           *)
CompletedMeansAllSteps ==
    \A l \in Loops : outcome[l] = "completed" =>
        /\ 1 .. planned[l] \subseteq {records[l][i][1] : i \in DOMAIN records[l]}
        /\ \A i \in DOMAIN records[l] : records[l][i][2] # "failed"
        /\ Len(announced[l]) = planned[l] + 2

(* Every loop ends, however deep the loops are nested and with a single    *)
(* thread in the server's executor: no thread that waits for a loop is one *)
(* that the loop needs.                                                    *)
EveryLoopEnds == \A l \in Loops : phase[l] = "planning" ~> phase[l] = "ended"
=============================================================================
