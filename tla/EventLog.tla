------------------------------- MODULE EventLog -------------------------------
(***************************************************************************)
(* The event log (log_event of swarm/event_log.py) and the broadcaster     *)
(* that tells the clients of the live dashboard of its events              *)
(* (infrastructure/events/broadcaster.py): a row, and then a task of the   *)
(* event loop that broadcasts it.  In src log_event() is called from the   *)
(* event loop, when errors are captured and thoughts are stored; from a    *)
(* thread that has no loop an event would not be broadcast.  Other         *)
(* broadcasts go to the WebSocket manager directly.                        *)
(***************************************************************************)
EXTENDS WsManager

VARIABLES
    rows,        \* the table events: a row is written or it fails
    logged,      \* the events that log_event() has been called for
    tasks,       \* the tasks that the event loop will run, in this order
    present      \* history, per event: the clients that were in the list when it was
                 \* logged in the event loop, but for those whose peer has left since

logVars == <<rows, logged, tasks, present>>

LogTypeOK ==
    /\ rows \in SUBSET Events /\ logged \in SUBSET Events
    /\ rows \subseteq logged
    /\ tasks \in Seq(Events)
    /\ present \in [Events -> SUBSET Clients]

LogInit ==
    /\ Init
    /\ rows = {} /\ logged = {} /\ tasks = <<>>
    /\ present = [e \in Events |-> {}]

-----------------------------------------------------------------------------
\* The row of the event, unless the table cannot be written.
Persist(e) ==
    /\ bpc[e] = "idle" /\ e \notin logged
    /\ logged' = logged \cup {e}
    /\ rows' \in {rows, rows \cup {e}}

\* log_event() in the event loop: broadcast_sync() makes a task.
LogInLoop(e) ==
    /\ Persist(e)
    /\ tasks' = Append(tasks, e)
    /\ present' = [present EXCEPT ![e] = Elements(conns) \cap alive]
    /\ UNCHANGED vars

\* log_event() in a thread without a loop, by a caller outside src: there is no task.
LogInThread(e) ==
    /\ Persist(e)
    /\ UNCHANGED <<tasks, present, vars>>

\* Mutant: while another event is being broadcast, the event is dropped.
RunTaskUnlessBusy ==
    /\ tasks # <<>>
    /\ tasks' = Tail(tasks)
    /\ IF Walks = {} THEN BroadcastJson(Head(tasks)) ELSE UNCHANGED vars
    /\ UNCHANGED <<rows, logged, present>>

\* The task begins: EventBroadcaster.broadcast().
RunTask ==
    /\ tasks # <<>>
    /\ tasks' = Tail(tasks)
    /\ BroadcastJson(Head(tasks))
    /\ UNCHANGED <<rows, logged, present>>

\* Everything else that the WebSocket manager does.
ManagerStep ==
    /\ \/ \E c \in Clients : Connect(c) \/ Replay(c) \/ PeerLeaves(c) \/ EndpointEnds(c)
       \/ \E e \in Events : GoOn(e)
       \/ \E e \in Events \ logged : Broadcast(e) \/ BroadcastJson(e)
    /\ present' = [e \in Events |-> present[e] \cap alive']
    /\ UNCHANGED <<rows, logged, tasks>>

LogNext == RunTask \/ ManagerStep \/ \E e \in Events : LogInLoop(e) \/ LogInThread(e)

LogSpec == LogInit /\ [][LogNext]_<<vars, logVars>>

-----------------------------------------------------------------------------
\* An event that is logged in the event loop is told to everybody who was connected
\* then and still is, whatever is broadcast, connects or leaves before its task
\* begins, unless somebody leaves the list during its own walk; and the task is
\* never lost.
LoggedIsTold ==
    \A e \in Events :
        \/ \E i \in DOMAIN tasks : tasks[i] = e
        \/ bpc[e] = "sending"
        \/ removed[e] > 0
        \/ \A c \in present[e] : e \in live[c]
=============================================================================
