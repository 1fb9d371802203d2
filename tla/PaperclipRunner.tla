--------------------------- MODULE PaperclipRunner ---------------------------
(***************************************************************************)
(* The task runner of integrations/paperclip: a polling loop that takes    *)
(* the issues of a remote tracker that are assigned to Timmy, works on     *)
(* them, closes them and files a follow-up for itself, next to the         *)
(* dashboard's routes by which people create, delegate and close issues.   *)
(*                                                                         *)
(* Each call of the tracker is one action: the coroutine is suspended      *)
(* until the answer is there, and the client turns a failure into None or  *)
(* an empty list, whether or not the tracker has executed the call; but an *)
(* answer that is not the comment or the issue it should be raises, and    *)
(* ends the cycle.                                                         *)
(***************************************************************************)
EXTENDS Integers, FiniteSets

CONSTANTS
    Issues,         \* the issues filed during a behaviour
    Loops,          \* the calls of start() that can be under way at once
    NoIssue,        \* what grab_next_task returns when there is none
    MaxUnclosed     \* bound on the times one issue is worked on and not closed

ASSUME RunnerAssumption ==
    /\ NoIssue \notin Issues
    /\ IsFiniteSet(Issues)
    /\ IsFiniteSet(Loops)
    /\ MaxUnclosed \in Nat

VARIABLES
    status,     \* status[i]: "none" before i is filed, then its status
    assignee,   \* assignee[i]: Timmy, or anybody else
    running,    \* self._running
    pc,         \* pc[l]: where the loop l is
    issue,      \* issue[l]: the issue of its current cycle
    results,    \* results[i]: how often process_task returned a result for i
    unclosed,   \* unclosed[i]: how often that was not followed by closing i
    parent,     \* parent[i]: the issue that i is the follow-up of
    signedOff   \* the issues that were closed through the dashboard

tracker == <<status, assignee, parent, signedOff>>

vars == <<status, assignee, running, pc, issue, results, unclosed, parent,
          signedOff>>

LoopPCs == {"off", "listing", "checkout", "processing", "commenting",
            "closing", "follow-up", "sleeping"}

Init ==
    /\ status = [i \in Issues |-> "none"]
    /\ assignee = [i \in Issues |-> "other"]
    /\ running = FALSE
    /\ pc = [l \in Loops |-> "off"]
    /\ issue = [l \in Loops |-> NoIssue]
    /\ results = [i \in Issues |-> 0]
    /\ unclosed = [i \in Issues |-> 0]
    /\ parent = [i \in Issues |-> NoIssue]
    /\ signedOff = {}

-----------------------------------------------------------------------------
(* The tracker.                                                            *)

\* POST /api/companies/{cid}/issues
File(i, who, origin) ==
    /\ status[i] = "none"
    /\ status' = [status EXCEPT ![i] = "open"]
    /\ assignee' = [assignee EXCEPT ![i] = who]
    /\ parent' = [parent EXCEPT ![i] = origin]

\* PATCH /api/issues/{id} with status "done"
SetDone(i) == status' = [status EXCEPT ![i] = "done"]

\* The routes of the dashboard, by way of the bridge.
CreateAndAssign(i) ==
    /\ \E who \in {"Timmy", "other"} : File(i, who, NoIssue)
    /\ UNCHANGED <<running, pc, issue, results, unclosed, signedOff>>

DelegateIssue(i) ==
    /\ status[i] # "none"
    /\ \E who \in {"Timmy", "other"} : assignee' = [assignee EXCEPT ![i] = who]
    /\ UNCHANGED <<status, running, pc, issue, results, unclosed, parent,
                   signedOff>>

CloseIssue(i) ==
    /\ status[i] # "none"
    /\ SetDone(i)
    /\ signedOff' = signedOff \cup {i}
    /\ UNCHANGED <<assignee, running, pc, issue, results, unclosed, parent>>

-----------------------------------------------------------------------------
(* One cycle of a loop.                                                    *)

GoTo(l, where) ==
    /\ pc' = [pc EXCEPT ![l] = where]
    /\ issue' = [issue EXCEPT ![l] = IF where = "sleeping" THEN NoIssue ELSE @]

\* Mutant: the status in the request is ignored.
QueueAnyStatus == {i \in Issues : status[i] # "none" /\ assignee[i] = "Timmy"}

\* The open issues that are assigned to Timmy.
Queue == {i \in Issues : status[i] = "open" /\ assignee[i] = "Timmy"}

\* grab_next_task: the tracker decides which issue is the first of its list,
\* and a call that fails looks like an empty list.
GrabNextTask(l) ==
    /\ pc[l] = "listing"
    /\ \/ \E i \in Queue : /\ pc' = [pc EXCEPT ![l] = "checkout"]
                           /\ issue' = [issue EXCEPT ![l] = i]
       \/ GoTo(l, "sleeping")
    /\ UNCHANGED <<tracker, running, results, unclosed>>

\* checkout_issue, which assigns the issue to Timmy if it reaches the tracker.
Checkout(l) ==
    /\ pc[l] = "checkout"
    /\ GoTo(l, "processing")
    /\ \/ assignee' = [assignee EXCEPT ![issue[l]] = "Timmy"]
       \/ UNCHANGED assignee
    /\ UNCHANGED <<status, running, results, unclosed, parent, signedOff>>

\* process_fn returns.
ProcessReturns(l) ==
    /\ pc[l] = "processing"
    /\ GoTo(l, "commenting")
    /\ results' = [results EXCEPT ![issue[l]] = @ + 1]
    /\ UNCHANGED <<tracker, running, unclosed>>

\* Mutant: a failed task is completed like any other one.
ProcessRaisesCompletes(l) ==
    /\ pc[l] = "processing"
    /\ GoTo(l, "commenting")
    /\ UNCHANGED <<tracker, running, results, unclosed>>

\* process_fn raises: the exception ends the cycle in start().
ProcessRaises(l) ==
    /\ pc[l] = "processing"
    /\ GoTo(l, "sleeping")
    /\ UNCHANGED <<tracker, running, results, unclosed>>

\* One more result without a closing.
CountUnclosed(i) ==
    /\ unclosed[i] < MaxUnclosed
    /\ unclosed' = [unclosed EXCEPT ![i] = @ + 1]

\* add_comment: whether there is an answer is not looked at.
Comment(l) ==
    /\ pc[l] = "commenting"
    /\ GoTo(l, "closing")
    /\ UNCHANGED <<tracker, running, results, unclosed>>

\* The answer is not a comment.
CommentRaises(l) ==
    /\ pc[l] = "commenting"
    /\ GoTo(l, "sleeping")
    /\ CountUnclosed(issue[l])
    /\ UNCHANGED <<tracker, running, results>>

\* The bridge's close_issue; a failure is only logged, and an answer that is not
\* an issue raises.
Close(l) ==
    /\ pc[l] = "closing"
    /\ GoTo(l, "follow-up") \/ GoTo(l, "sleeping")
    /\ \/ SetDone(issue[l]) /\ UNCHANGED unclosed
       \/ CountUnclosed(issue[l]) /\ UNCHANGED status
    /\ UNCHANGED <<assignee, running, results, parent, signedOff>>

\* create_follow_up; a failure is only reported, or raises after the last step.
CreateFollowUp(l) ==
    /\ pc[l] = "follow-up"
    /\ GoTo(l, "sleeping")
    /\ \/ \E i \in Issues : File(i, "Timmy", issue[l])
       \/ UNCHANGED <<status, assignee, parent>>
    /\ UNCHANGED <<running, results, unclosed, signedOff>>

-----------------------------------------------------------------------------
(* The loops.                                                              *)

\* start(), with a positive poll interval.
Start(l) ==
    /\ pc[l] = "off"
    /\ running' = TRUE
    /\ pc' = [pc EXCEPT ![l] = "listing"]
    /\ UNCHANGED <<tracker, issue, results, unclosed>>

\* Mutant: the loop does not look at _running.
WakeAlways(l) ==
    /\ pc[l] = "sleeping"
    /\ pc' = [pc EXCEPT ![l] = "listing"]
    /\ UNCHANGED <<tracker, running, issue, results, unclosed>>

\* The poll interval is over.
Wake(l) ==
    /\ pc[l] = "sleeping"
    /\ pc' = [pc EXCEPT ![l] = IF running THEN "listing" ELSE "off"]
    /\ UNCHANGED <<tracker, running, issue, results, unclosed>>

Stop ==
    /\ running
    /\ running' = FALSE
    /\ UNCHANGED <<tracker, pc, issue, results, unclosed>>

\* The process dies, between any two calls: nothing of the runner is kept.
Crash ==
    /\ \E l \in Loops : pc[l] # "off"
    /\ running' = FALSE
    /\ pc' = [l \in Loops |-> "off"]
    /\ issue' = [l \in Loops |-> NoIssue]
    /\ unclosed' = [i \in Issues |->
          unclosed[i] + Cardinality({l \in Loops : /\ issue[l] = i
                                                   /\ pc[l] \in {"commenting", "closing"}})]
    /\ \A i \in Issues : unclosed'[i] <= MaxUnclosed
    /\ UNCHANGED <<tracker, results>>

LoopStep(l) ==
    \/ GrabNextTask(l) \/ Checkout(l) \/ ProcessReturns(l) \/ ProcessRaises(l)
    \/ Comment(l) \/ CommentRaises(l) \/ Close(l) \/ CreateFollowUp(l) \/ Wake(l)

Next ==
    \/ \E i \in Issues : CreateAndAssign(i) \/ DelegateIssue(i) \/ CloseIssue(i)
    \/ \E l \in Loops : Start(l) \/ LoopStep(l)
    \/ Stop
    \/ Crash

\* Every call of the tracker has a timeout, the sleep is finite, and the work
\* on an issue is assumed to end one way or the other.
Fairness == \A l \in Loops : WF_vars(LoopStep(l))

Spec == Init /\ [][Next]_vars /\ Fairness

-----------------------------------------------------------------------------
(* Properties.                                                             *)

\* The variables have their types.
TypeOK ==
    /\ status \in [Issues -> {"none", "open", "done"}]
    /\ assignee \in [Issues -> {"Timmy", "other"}]
    /\ running \in BOOLEAN
    /\ pc \in [Loops -> LoopPCs]
    /\ issue \in [Loops -> Issues \cup {NoIssue}]
    /\ results \in [Issues -> Nat]
    /\ unclosed \in [Issues -> 0..MaxUnclosed]
    /\ parent \in [Issues -> Issues \cup {NoIssue}]
    /\ signedOff \in SUBSET Issues

\* An issue is only done because somebody signed it off or because there is a
\* result for it: failing work, crashes and failing calls never close one.
DoneMeansHandled ==
    \A i \in Issues : status[i] = "done" => i \in signedOff \/ results[i] > 0

FollowUps(i) == {j \in Issues : parent[j] = i}

\* Every follow-up answers a result of its own: none is filed for work that
\* raised, and none twice for the same result.
FollowUpsHaveResults ==
    \A i \in Issues : Cardinality(FollowUps(i)) <= results[i]

\* One loop works on an issue again only if it could not close it: it never
\* takes an issue that has been done, however people and crashes interfere.
RepeatedOnlyIfUnclosed == \A i \in Issues : results[i] <= unclosed[i] + 1

\* A runner that is stopped for good comes to rest, whatever it was doing.
StopEndsLoops == <>[]~running => <>[](\A l \in Loops : pc[l] = "off")

=============================================================================
