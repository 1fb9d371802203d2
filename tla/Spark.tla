-------------------------------- MODULE Spark --------------------------------
(***************************************************************************)
(* The Spark intelligence engine: events of the swarm are recorded, EIDOS  *)
(* predicts the outcome of a task and scores the prediction against what   *)
(* happened, outcomes are consolidated into memories, and the advisor      *)
(* derives recommendations from all of it.                                 *)
(*                                                                         *)
(* Every insert and update is a transaction of its own on data/spark.db: a *)
(* handler of the engine is a sequence of commits, and the process may die *)
(* between two of them.  Tools record their events from other threads      *)
(* meanwhile.                                                              *)
(***************************************************************************)
EXTENDS Integers, Sequences, FiniteSets, SequencesExt, FiniteSetsExt, Filters

CONSTANTS
    Agents,       \* agent ids
    Tasks,        \* task ids
    Bids,         \* amounts of winning and submitted bids, in sats
    NoAgent,      \* NULL in the column agent_id
    NoTask,       \* NULL in the column task_id
    NoBid,        \* None for a winning bid
    RecentLimit,  \* the 50 newest rows that consolidation and failure checks read
    WideLimit,    \* the 100 newest rows that the other checks read
    MinEvents,    \* events of an agent before it is consolidated
    MinOutcomes,  \* outcomes before an agent is judged
    MinAdvice,    \* _MIN_EVENTS of the advisor
    MinBids,      \* bids before they are judged
    MaxEvents     \* bound: no handler begins beyond so many events

ASSUME LimitsAssumption ==
    /\ {RecentLimit, WideLimit, MinEvents, MinOutcomes, MinAdvice, MinBids, MaxEvents}
           \subseteq Nat \ {0}
    /\ RecentLimit <= WideLimit
    /\ MinOutcomes >= 2
    /\ Bids \subseteq Nat

VARIABLES
    events,       \* spark_events, in the order of created_at
    predictions,  \* spark_predictions, in the order of created_at
    memories,     \* spark_memories, in the order of created_at
    call          \* what the handler that is under way has still to do

sparkVars == <<events, predictions, memories, call>>

NoCall == [step |-> "idle"]

AgentEvents == {"bid_submitted", "task_assigned", "task_completed", "task_failed",
                "agent_joined", "tool_executed", "creative_step"}
EventTypes == AgentEvents \union {"task_posted", "prediction_result"}

SparkInit ==
    /\ events = <<>>
    /\ predictions = <<>>
    /\ memories = <<>>
    /\ call = NoCall

------------------------------------------------------------------------------
(* The tables.                                                              *)

\* spark.memory.record_event: one row, one commit.
Event(type, agent, task, bid) == [type |-> type, agent |-> agent, task |-> task, bid |-> bid]

EventRow == [type : EventTypes, agent : Agents \union {NoAgent},
             task : Tasks \union {NoTask}, bid : Bids \union {NoBid}]

OfType(type) == {e \in EventRow : e.type = type}
OfAgent(a) == {e \in EventRow : e.agent = a}

RecordEvent(type, agent, task, bid) ==
    events' = Append(events, Event(type, agent, task, bid))

\* The n newest of the rows that satisfy a filter (ORDER BY created_at DESC LIMIT n).
Newest(rows, n) == SubSeq(rows, IF Len(rows) > n THEN Len(rows) - n + 1 ELSE 1, Len(rows))

GetEventsOfType(type, n) == Newest(Filter(events, OfType(type)), n)
GetEventsOfAgent(a, n) == Newest(Filter(events, OfAgent(a)), n)

CountOf(rows, type) == Len(Filter(rows, OfType(type)))
CountFor(rows, a) == Len(Filter(rows, OfAgent(a)))

------------------------------------------------------------------------------
(* EIDOS.                                                                   *)

\* predict_task_outcome as the engine calls it, without a history: the first
\* candidate wins, succeeds with 70 %, and bids between 20 and 80 sats.
Predicted(task, candidate) ==
    [task |-> task, winner |-> candidate, success |-> 70, low |-> 20, high |-> 80,
     evaluated |-> FALSE, accuracy |-> 0]

Distance(x, y) == IF x > y THEN x - y ELSE y - x

\* The share of 20 points for the bid: all of them inside the range, fewer the
\* farther outside it is.
BidPoints(p, bid) ==
    IF p.low <= bid /\ bid <= p.high THEN 20
    ELSE LET d == Min({Distance(bid, p.low), Distance(bid, p.high)})
             size == Max({1, p.high - p.low})
         IN  IF d >= size THEN 0 ELSE (20 * (size - d)) \div size

\* _compute_accuracy, in per cent: 40 points for the winner, 40 for the success,
\* 20 for the bid if there is one.
ComputeAccuracy(p, winner, succeeded, bid) ==
    LET won == IF p.winner = winner THEN 40 ELSE 0
        success == (40 * (100 - Distance(p.success, IF succeeded THEN 100 ELSE 0))) \div 100
    IN  IF bid = NoBid
        THEN (100 * (won + success)) \div 80
        ELSE won + success + BidPoints(p, bid)

Pending(task) == {i \in DOMAIN predictions : predictions[i].task = task /\ ~predictions[i].evaluated}

Evaluated == {i \in DOMAIN predictions : predictions[i].evaluated}


\* get_accuracy_stats: the average, rounded down to a per cent.
AverageAccuracy ==
    MapThenSumSet(LAMBDA i : predictions[i].accuracy, Evaluated) \div Cardinality(Evaluated)

------------------------------------------------------------------------------
(* The handlers of the engine.                                              *)

Idle == call.step = "idle" /\ Len(events) < MaxEvents

OnTaskPosted(t) ==
    /\ Idle
    /\ RecordEvent("task_posted", NoAgent, t, NoBid)
    /\ \/ UNCHANGED call
       \/ \E a \in Agents : call' = [step |-> "predict", task |-> t, agent |-> a]
    /\ UNCHANGED <<predictions, memories>>

PredictTaskOutcome ==
    /\ call.step = "predict"
    /\ predictions' = Append(predictions, Predicted(call.task, call.agent))
    /\ call' = NoCall
    /\ UNCHANGED <<events, memories>>

OnBidSubmitted(t, a, bid) ==
    /\ Idle
    /\ RecordEvent("bid_submitted", a, t, bid)
    /\ UNCHANGED <<predictions, memories, call>>

OnTaskAssigned(t, a) ==
    /\ Idle
    /\ RecordEvent("task_assigned", a, t, NoBid)
    /\ UNCHANGED <<predictions, memories, call>>

OnTaskCompleted(t, a, bid) ==
    /\ Idle
    /\ RecordEvent("task_completed", a, t, NoBid)
    /\ call' = [step |-> "evaluate", task |-> t, agent |-> a, succeeded |-> TRUE, bid |-> bid]
    /\ UNCHANGED <<predictions, memories>>

OnTaskFailed(t, a) ==
    /\ Idle
    /\ RecordEvent("task_failed", a, t, NoBid)
    /\ call' = [step |-> "evaluate", task |-> t, agent |-> a, succeeded |-> FALSE, bid |-> NoBid]
    /\ UNCHANGED <<predictions, memories>>

OnAgentJoined(a) ==
    /\ Idle
    /\ RecordEvent("agent_joined", a, NoTask, NoBid)
    /\ UNCHANGED <<predictions, memories, call>>

\* In the thread of whoever runs the tool.
OnToolExecuted(a) ==
    /\ Len(events) < MaxEvents
    /\ RecordEvent("tool_executed", a, NoTask, NoBid)
    /\ UNCHANGED <<predictions, memories, call>>

OnCreativeStep(a) ==
    /\ Idle
    /\ RecordEvent("creative_step", a, NoTask, NoBid)
    /\ UNCHANGED <<predictions, memories, call>>

\* The newest prediction of the task that was not evaluated, if there is one.
EvaluatePrediction ==
    /\ call.step = "evaluate"
    /\ LET open == Pending(call.task)
       IN  IF open = {}
           THEN call' = [step |-> "consolidate", agent |-> call.agent] /\ UNCHANGED predictions
           ELSE /\ predictions' =
                       [predictions EXCEPT ![Max(open)] =
                           [@ EXCEPT !.evaluated = TRUE,
                                     !.accuracy = ComputeAccuracy(predictions[Max(open)], call.agent,
                                                                  call.succeeded, call.bid)]]
                /\ call' = IF call.succeeded
                           THEN [step |-> "report", task |-> call.task, agent |-> call.agent]
                           ELSE [step |-> "consolidate", agent |-> call.agent]
    /\ UNCHANGED <<events, memories>>

\* on_task_completed, but not on_task_failed, records the accuracy.
ReportAccuracy ==
    /\ call.step = "report"
    /\ RecordEvent("prediction_result", NoAgent, call.task, NoBid)
    /\ call' = [step |-> "consolidate", agent |-> call.agent]
    /\ UNCHANGED <<predictions, memories>>

\* Mutant: the rate of failures is taken for the rate of success.
JudgementOfFailures(wins, total) ==
    IF total < MinOutcomes THEN "none"
    ELSE CASE 10 * (total - wins) >= 8 * total -> "pattern"
           [] 10 * (total - wins) <= 3 * total -> "anomaly"
           [] OTHER                            -> "none"

\* What an agent's outcomes say of it: consolidated into a memory if at least 80 %
\* or at most 30 % of them are completions.
Judgement(wins, total) ==
    IF total < MinOutcomes THEN "none"
    ELSE CASE 10 * wins >= 8 * total -> "pattern"
           [] 10 * wins <= 3 * total -> "anomaly"
           [] OTHER                  -> "none"

\* _maybe_consolidate: over the newest events of the agent, of whatever type.
MaybeConsolidate ==
    /\ call.step = "consolidate"
    /\ LET seen == GetEventsOfAgent(call.agent, RecentLimit)
           wins == CountOf(seen, "task_completed")
           total == wins + CountOf(seen, "task_failed")
           kind == Judgement(wins, total)
       IN  memories' = IF Len(seen) < MinEvents \/ kind = "none"
                       THEN memories
                       ELSE Append(memories, [type |-> kind, subject |-> call.agent,
                                              source_events |-> total])
    /\ call' = NoCall
    /\ UNCHANGED <<events, predictions>>

\* The process dies between two commits, and is started again.
Crash ==
    /\ call.step # "idle"
    /\ call' = NoCall
    /\ UNCHANGED <<events, predictions, memories>>

SparkNext ==
    \/ \E t \in Tasks : OnTaskPosted(t)
    \/ PredictTaskOutcome
    \/ \E t \in Tasks, a \in Agents, b \in Bids : OnBidSubmitted(t, a, b)
    \/ \E t \in Tasks, a \in Agents : OnTaskAssigned(t, a) \/ OnTaskFailed(t, a)
    \/ \E t \in Tasks, a \in Agents, b \in Bids \union {NoBid} : OnTaskCompleted(t, a, b)
    \/ \E a \in Agents : OnAgentJoined(a) \/ OnToolExecuted(a) \/ OnCreativeStep(a)
    \/ EvaluatePrediction
    \/ ReportAccuracy
    \/ MaybeConsolidate
    \/ Crash

\* Agents are interchangeable.
AgentSymmetry == Permutations(Agents)

SparkSpec == SparkInit /\ [][SparkNext]_sparkVars

------------------------------------------------------------------------------
(* The advisor reads the tables whenever a page asks for it.                *)

Advisory(category, subject, evidence) ==
    [category |-> category, subject |-> subject, evidence |-> evidence]

\* Mutant: an off-by-one in the number of failures.
CheckFailurePatternsLate ==
    LET failures == GetEventsOfType("task_failed", RecentLimit)
    IN  {Advisory("failure_prevention", a, CountFor(failures, a)) :
             a \in {x \in Agents : CountFor(failures, x) > 2}}

CheckFailurePatterns ==
    LET failures == GetEventsOfType("task_failed", RecentLimit)
    IN  {Advisory("failure_prevention", a, CountFor(failures, a)) :
             a \in {x \in Agents : CountFor(failures, x) >= 2}}

Verdict(wins, total) ==
    IF total < MinOutcomes THEN "none"
    ELSE CASE 10 * wins >= 8 * total -> "excels"
           [] 10 * wins <= 3 * total -> "struggling"
           [] OTHER                  -> "none"

CheckAgentPerformance ==
    LET completions == GetEventsOfType("task_completed", WideLimit)
        failures == GetEventsOfType("task_failed", WideLimit)
        wins(a) == CountFor(completions, a)
        total(a) == wins(a) + CountFor(failures, a)
        verdict(a) == Verdict(wins(a), total(a))
    IN  {Advisory(verdict(a), a, total(a)) : a \in {x \in Agents : verdict(x) # "none"}}

\* A spread above one and a half times the average bid, an average above 70 sats.
CheckBidPatterns ==
    LET bids == GetEventsOfType("bid_submitted", WideLimit)
        paid == Filter(bids, {e \in EventRow : e.bid > 0})
        amounts == {paid[i].bid : i \in DOMAIN paid}
        sum == MapThenSumSet(LAMBDA i : paid[i].bid, DOMAIN paid)
    IN  IF Len(bids) < MinBids \/ paid = <<>> THEN {}
        ELSE (IF 2 * Len(paid) * (Max(amounts) - Min(amounts)) > 3 * sum
              THEN {Advisory("wide_spread", NoAgent, Len(paid))} ELSE {})
             \union
             (IF sum > 70 * Len(paid)
              THEN {Advisory("high_average", NoAgent, Len(paid))} ELSE {})

CheckPredictionAccuracy ==
    LET n == Cardinality(Evaluated)
    IN  IF n < MinOutcomes THEN {}
        ELSE IF AverageAccuracy < 40 THEN {Advisory("low_accuracy", NoAgent, n)}
        ELSE IF AverageAccuracy >= 75 THEN {Advisory("strong_accuracy", NoAgent, n)}
        ELSE {}

CheckSystemActivity ==
    LET recent == Newest(events, WideLimit)
        posted == CountOf(recent, "task_posted")
    IN  IF /\ CountOf(recent, "task_completed") = 0
           /\ CountOf(recent, "task_failed") = 0
           /\ posted > 3
        THEN {Advisory("none_completing", NoAgent, posted)}
        ELSE {}

GenerateAdvisories ==
    IF Len(events) < MinAdvice
    THEN {Advisory("insufficient_data", NoAgent, Len(events))}
    ELSE CheckFailurePatterns \union CheckAgentPerformance \union CheckBidPatterns
            \union CheckPredictionAccuracy \union CheckSystemActivity

------------------------------------------------------------------------------

SparkTypeOK ==
    /\ events \in Seq(EventRow)
    /\ \A i \in DOMAIN events : events[i].type \in AgentEvents => events[i].agent \in Agents
    /\ predictions \in Seq([task : Tasks, winner : Agents, success : {70}, low : {20},
                            high : {80}, evaluated : BOOLEAN, accuracy : 0..100])
    /\ memories \in Seq([type : {"pattern", "anomaly"}, subject : Agents,
                         source_events : MinOutcomes..RecentLimit])
    /\ call \in {NoCall}
               \union [step : {"predict", "report"}, task : Tasks, agent : Agents]
               \union [step : {"consolidate"}, agent : Agents]
               \union [step : {"evaluate"}, task : Tasks, agent : Agents,
                       succeeded : BOOLEAN, bid : Bids \union {NoBid}]

\* The engine's memory and the advisor judge by different windows: the newest events
\* of the agent, and the newest outcomes of everybody.  As long as the agent's events
\* and everybody's outcomes fit into them, the engine never stores that an agent is
\* reliable while the advisor calls it struggling, nor the other way round.
WindowsSuffice(a) ==
    /\ CountFor(events, a) <= RecentLimit
    /\ CountOf(events, "task_completed") <= WideLimit
    /\ CountOf(events, "task_failed") <= WideLimit

MemoryAgreesWithAdvice ==
    [][memories' # memories =>
          LET m == Last(memories')
          IN  WindowsSuffice(m.subject) =>
                  ~ \E adv \in CheckAgentPerformance :
                      /\ adv.subject = m.subject
                      /\ adv.category = IF m.type = "pattern" THEN "struggling" ELSE "excels"]_sparkVars

\* The advisor never calls an agent struggling without the warning about its
\* failures, unless failures of other agents have pushed them out of its sight.
StrugglingIsWarned ==
    CountOf(events, "task_failed") <= RecentLimit =>
        \A adv \in GenerateAdvisories :
            adv.category = "struggling" =>
                \E w \in GenerateAdvisories :
                    w.category = "failure_prevention" /\ w.subject = adv.subject

==============================================================================
