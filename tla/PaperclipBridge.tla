---------------------------- MODULE PaperclipBridge ----------------------------
(***************************************************************************)
(* The routes by which people direct the agents of a Paperclip company     *)
(* (dashboard/routes/paperclip.py), and the bridge and the client behind   *)
(* them (integrations/paperclip/bridge.py, client.py).  A request is up to *)
(* three calls of the tracker, one after the other, interleaved with those *)
(* of other requests.  Any call may fail, and the client does not tell a   *)
(* call that failed from one whose answer was lost; an answer that is not  *)
(* the issue or the comment it should be raises.                           *)
(*                                                                         *)
(* PaperclipRunner has the part of the tracker that the task runner works  *)
(* on.  Here are the assignments and the agents that are woken; titles,    *)
(* comments, goals, runs and the queries are left out.                     *)
(***************************************************************************)
EXTENDS Naturals, Sequences, FiniteSets

CONSTANTS
    Routes,       \* the requests made during a behaviour
    Agents,       \* of the company
    NoAgent,      \* an issue may be filed for nobody
    Tickets,      \* the issues that may be filed
    NoTicket      \* of a request that has not filed its issue, or is about none

ASSUME BridgeAssumption == NoAgent \notin Agents /\ NoTicket \notin Tickets

VARIABLES
    filed,       \* the issues that the tracker has
    given,       \* history: who was assigned which issue
    closed,      \* history: the issues that were set done
    woken,       \* history: who was woken for which issue
    request      \* per request: what it is about, the calls to come, its answer

bridgeVars == <<filed, given, closed, woken, request>>

----------------------------------------------------------------------------
ApiCalls == {"create", "assign", "comment", "done", "wake"}
Unsent == [op |-> "none", agent |-> NoAgent, ticket |-> NoTicket, calls |-> <<>>,
           answer |-> "none"]

BridgeTypeOK ==
    /\ filed \subseteq Tickets /\ closed \subseteq Tickets
    /\ given \subseteq Agents \X Tickets
    /\ woken \subseteq Agents \X (Tickets \cup {NoTicket})
    /\ request \in [Routes -> [op : {"none", "file", "delegate", "close", "wake"},
                               agent : Agents \cup {NoAgent}, ticket : Tickets \cup {NoTicket},
                               calls : Seq(ApiCalls), answer : {"none", "ok", "error"}]]

BridgeInit ==
    /\ filed = {} /\ given = {} /\ closed = {} /\ woken = {}
    /\ request = [r \in Routes |-> Unsent]

----------------------------------------------------------------------------
(* The requests. *)
Sends(r, op, who, i, calls) ==
    /\ request[r] = Unsent
    /\ request' = [request EXCEPT ![r] =
                      [op |-> op, agent |-> who, ticket |-> i, calls |-> calls, answer |-> "none"]]
    /\ UNCHANGED <<filed, given, closed, woken>>

\* POST /issues: create_and_assign(), which wakes the assignee unless told not to.
RequestIssue(r) ==
    \E who \in Agents \cup {NoAgent}, wake \in BOOLEAN :
        Sends(r, "file", who, NoTicket,
              IF who # NoAgent /\ wake THEN <<"create", "wake">> ELSE <<"create">>)

\* POST /issues/{id}/delegate: delegate_issue(), with or without a message.
RequestDelegation(r) ==
    \E who \in Agents, i \in filed,
       calls \in {<<"assign", "wake">>, <<"assign", "comment", "wake">>} :
        Sends(r, "delegate", who, i, calls)

\* POST /issues/{id}/close: close_issue(), with or without a comment.
RequestClosing(r) ==
    \E i \in filed, calls \in {<<"done">>, <<"comment", "done">>} :
        Sends(r, "close", NoAgent, i, calls)

\* POST /agents/{id}/wake: the client's wake_agent(), for any issue or for none.
RequestWaking(r) ==
    \E who \in Agents, i \in filed \cup {NoTicket} : Sends(r, "wake", who, i, <<"wake">>)

----------------------------------------------------------------------------
(* The calls. *)

\* What the tracker does when a call reaches it.  A new issue gets an id: which
\* one makes no difference.
Execute(call, who, i) ==
    /\ filed' = IF call = "create" THEN filed \cup {i} ELSE filed
    /\ given' = IF call \in {"create", "assign"} /\ who # NoAgent
                THEN given \cup {<<who, i>>} ELSE given
    /\ closed' = IF call = "done" THEN closed \cup {i} ELSE closed
    /\ woken' = IF call = "wake" THEN woken \cup {<<who, i>>} ELSE woken

Target(r) ==
    IF Head(request[r].calls) = "create" THEN CHOOSE i \in Tickets : i \notin filed
    ELSE request[r].ticket

Pending(r) ==
    /\ request[r].calls # <<>>
    /\ Head(request[r].calls) = "create" => filed # Tickets    \* bound

\* The last call was made: a request whose own call was answered is ok.
Answer(rest) == IF rest = <<>> THEN "ok" ELSE "none"

ApiCallAnswered(r) ==
    /\ Pending(r)
    /\ Execute(Head(request[r].calls), request[r].agent, Target(r))
    /\ LET rest == Tail(request[r].calls)
       IN  request' = [request EXCEPT ![r].ticket = Target(r), ![r].calls = rest,
                                      ![r].answer = Answer(rest)]

\* Mutant: the bridge goes on when the call that its request stands for has failed.
GoOnAfterFailure(r, call) ==
    LET rest == Tail(request[r].calls)
    IN  request' = [request EXCEPT ![r].ticket = Target(r), ![r].calls = rest,
                                   ![r].answer = Answer(rest)]

\* Without its own call a request is an error, at once; a message, or an agent that
\* does not wake for an issue, are not.
GoOn(r, call) ==
    LET rest == Tail(request[r].calls)
    IN  request' = IF call \in {"create", "assign", "done"} \/ request[r].op = "wake"
                   THEN [request EXCEPT ![r].calls = <<>>, ![r].answer = "error"]
                   ELSE [request EXCEPT ![r].calls = rest, ![r].answer = Answer(rest)]

\* The call does not reach the tracker, or is refused.
ApiCallFails(r) ==
    /\ Pending(r)
    /\ GoOn(r, Head(request[r].calls))
    /\ UNCHANGED <<filed, given, closed, woken>>

\* The tracker executes it, and the answer is lost or comes too late.
AnswerIsLost(r) ==
    /\ Pending(r)
    /\ Execute(Head(request[r].calls), request[r].agent, Target(r))
    /\ GoOn(r, Head(request[r].calls))

\* The tracker executes it, and the answer does not make an issue or a comment:
\* the route raises.  Nothing is made of the answer to a wake-up.
AnswerIsUnparsed(r) ==
    /\ Pending(r)
    /\ Head(request[r].calls) # "wake"
    /\ Execute(Head(request[r].calls), request[r].agent, Target(r))
    /\ request' = [request EXCEPT ![r].calls = <<>>, ![r].answer = "error"]

BridgeNext ==
    \E r \in Routes :
        \/ RequestIssue(r) \/ RequestDelegation(r) \/ RequestClosing(r) \/ RequestWaking(r)
        \/ ApiCallAnswered(r) \/ ApiCallFails(r) \/ AnswerIsLost(r) \/ AnswerIsUnparsed(r)

BridgeSpec == BridgeInit /\ [][BridgeNext]_bridgeVars

----------------------------------------------------------------------------
\* The wake-ups that were asked for as such.
Asked == {<<request[r].agent, request[r].ticket>> : r \in {r \in Routes : request[r].op = "wake"}}

\* Whatever fails, is lost or cannot be parsed, and however requests overlap, an
\* agent is woken for an issue only if it was given that issue first or if somebody
\* asked for just that, and a request that is told ok has had its issue filed,
\* given or closed, or its agent woken.
OkIsTrue ==
    /\ woken \subseteq given \cup Asked
    /\ \A r \in Routes :
          LET q == request[r]
          IN  q.answer = "ok" =>
                 /\ q.op # "wake" => q.ticket \in filed
                 /\ q.op \in {"file", "delegate"} /\ q.agent # NoAgent =>
                       <<q.agent, q.ticket>> \in given
                 /\ q.op = "close" => q.ticket \in closed
                 /\ q.op = "wake" => <<q.agent, q.ticket>> \in woken
=============================================================================
