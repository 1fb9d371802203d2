----------------------------- MODULE TaskBoard -----------------------------
(***************************************************************************)
(* The task board of the dashboard (dashboard/routes/tasks.py) and the     *)
(* error capture that files bug reports on it                              *)
(* (infrastructure/error_capture.py, swarm/task_queue/models.py, called by *)
(* the request logging middleware).                                        *)
(*                                                                         *)
(* Both write the table tasks of data/tasks.db.  A handler reads its body  *)
(* and then runs to its end without an await, and capture_error() is a     *)
(* plain call made on the event loop, so a handler is one action.          *)
(* capture_error() is two: the error is marked as seen, and later its      *)
(* report is written, because the process may die between the two and      *)
(* because the second may fail on its own.                                 *)
(*                                                                         *)
(* Time is kept as ages, in ticks that are long against a handler.  The    *)
(* column completed_at matters by its order alone: stamps lists the rows   *)
(* that have one, oldest first.  Titles, priorities, assignees and the     *)
(* event log (read by nobody) are left out.                                *)
(***************************************************************************)
EXTENDS Naturals, FiniteSets, Filters

CONSTANTS
    Tasks,         \* the ids uuid4() may draw
    Errors,        \* the classes _stack_hash() tells apart
    NoError,       \* neither a class of errors
    Window,        \* settings.error_dedup_window_seconds, in ticks
    ColumnLimit    \* LIMIT of the completed column (50)

ASSUME BoardAssumption ==
    /\ NoError \notin Errors
    /\ Window \in Nat \ {0}
    /\ ColumnLimit \in Nat \ {0}

VARIABLES
    status,    \* tasks: the column status of each row, "absent" without a row
    reportOf,  \* tasks: the error class a bug report names, NoError of the others
    stamps,    \* tasks: the rows with a completed_at, oldest first
    seen,      \* _dedup_cache: the age of each entry, NotSeen without one
    capture,   \* the error whose report capture_error() has yet to write
    ended,     \* history: the rows in the order in which they last ended
    filed      \* history: the classes ever reported

board == <<status, reportOf, stamps>>
boardVars == <<status, reportOf, stamps, seen, capture, ended, filed>>

----------------------------------------------------------------------------
(* VALID_STATUSES and the three columns of the page. *)
Finished == {"completed", "vetoed", "failed"}
Active == {"approved", "running", "paused"}
ValidStatuses == {"pending_approval", "backlogged"} \cup Active \cup Finished

OldAge == 2 * Window + 1     \* older than the cutoff of the pruning
NotSeen == OldAge + 1

Rows == {t \in Tasks : status[t] # "absent"}
Unused == Tasks \ Rows

BoardTypeOK ==
    /\ status \in [Tasks -> ValidStatuses \cup {"absent"}]
    /\ reportOf \in [Tasks -> Errors \cup {NoError}]
    /\ \A t \in Unused : reportOf[t] = NoError
    /\ \A s \in {stamps, ended} :
          s \in Seq(Tasks) /\ Injective(s) /\ Elements(s) \subseteq Rows
    /\ seen \in [Errors -> 0 .. NotSeen]
    /\ capture \in Errors \cup {NoError}
    /\ capture # NoError => seen[capture] = 0
    /\ filed \in SUBSET Errors

BoardInit ==
    /\ status = [t \in Tasks |-> "absent"]
    /\ reportOf = [t \in Tasks |-> NoError]
    /\ stamps = <<>>
    /\ ended = <<>>
    /\ seen = [e \in Errors |-> NotSeen]
    /\ capture = NoError
    /\ filed = {}

----------------------------------------------------------------------------
(* What the page shows.  ORDER BY completed_at DESC puts a row without a   *)
(* completed_at last.                                                      *)
Stamped(t) == t \in Elements(stamps)
Place(t, s) == CHOOSE i \in DOMAIN s : s[i] = t
Newer(u, t) ==
    Stamped(u) /\ (Stamped(t) => Place(u, stamps) > Place(t, stamps))

PendingColumn == {t \in Tasks : status[t] = "pending_approval"}
ActiveColumn == {t \in Tasks : status[t] \in Active}
CompletedColumn ==
    {t \in Tasks : /\ status[t] \in Finished
                   /\ Cardinality({u \in Tasks : status[u] \in Finished /\ Newer(u, t)})
                          < ColumnLimit}
Shown == PendingColumn \cup ActiveColumn \cup CompletedColumn

----------------------------------------------------------------------------
(* The handlers. *)
Idle == capture = NoError      \* capture_error() holds the event loop

Without(t, s) == Filter(s, Tasks \ {t})
ToEnd(t, s) == Append(Without(t, s), t)

\* POST /tasks/create and POST /api/tasks.
CreateTask ==
    /\ Idle
    /\ \E t \in Unused : status' = [status EXCEPT ![t] = "pending_approval"]
    /\ UNCHANGED <<reportOf, stamps, seen, capture, ended, filed>>

\* Mutant: COALESCE(completed_at, ?).
CompletedFirst(t, s) ==
    IF s \in Finished /\ ~Stamped(t) THEN ToEnd(t, stamps) ELSE stamps

\* completed_at = COALESCE(?, completed_at): now for a finished status, as it was otherwise.
Completed(t, s) == IF s \in Finished THEN ToEnd(t, stamps) ELSE stamps

SetStatus(t, s) ==
    /\ Idle
    /\ t \in Rows
    /\ status' = [status EXCEPT ![t] = s]
    /\ stamps' = Completed(t, s)
    /\ ended' = IF s \in Finished THEN ToEnd(t, ended) ELSE ended
    /\ UNCHANGED <<reportOf, seen, capture, filed>>

\* No handler looks at the status it replaces.
Approve(t) == SetStatus(t, "approved")
Veto(t) == SetStatus(t, "vetoed")
Pause(t) == SetStatus(t, "paused")
Cancel(t) == SetStatus(t, "vetoed")
Retry(t) == SetStatus(t, "approved")

\* PATCH /api/tasks/{id}/status.
UpdateStatus(t) == \E s \in ValidStatuses : SetStatus(t, s)

DeleteTask(t) ==
    /\ Idle
    /\ t \in Rows
    /\ status' = [status EXCEPT ![t] = "absent"]
    /\ reportOf' = [reportOf EXCEPT ![t] = NoError]
    /\ stamps' = Without(t, stamps)
    /\ ended' = Without(t, ended)
    /\ UNCHANGED <<seen, capture, filed>>

----------------------------------------------------------------------------
(* The error capture. *)
IsDuplicate(e) == seen[e] < Window

\* The cache after an error that was no duplicate: marked, and pruned of what
\* is older than two windows.
Marked(e) == [x \in Errors |-> IF x = e THEN 0
                               ELSE IF seen[x] = OldAge THEN NotSeen ELSE seen[x]]

\* A request ends in an exception of class e: dispatch() calls capture_error().
RequestFails(e) ==
    /\ Idle
    /\ ~IsDuplicate(e)
    /\ seen' = Marked(e)
    /\ capture' = e
    /\ UNCHANGED <<board, ended, filed>>

\* Mutant: a repetition counts as a new sighting.
RepeatIsMarked(e) ==
    /\ Idle
    /\ IsDuplicate(e)
    /\ seen' = [seen EXCEPT ![e] = 0]
    /\ UNCHANGED <<board, capture, ended, filed>>

\* Within the window the error is dropped, and the entry keeps its age.
RepeatIsDropped(e) ==
    /\ Idle
    /\ IsDuplicate(e)
    /\ UNCHANGED boardVars

\* create_task() with auto_approve.
FileReport(e) ==
    /\ capture = e
    /\ \E t \in Unused :
          /\ status' = [status EXCEPT ![t] = "approved"]
          /\ reportOf' = [reportOf EXCEPT ![t] = e]
    /\ filed' = filed \cup {e}
    /\ capture' = NoError
    /\ UNCHANGED <<stamps, seen, ended>>

\* The insertion raises: the exception is logged, the entry stays in the cache.
FilingFails(e) ==
    /\ capture = e
    /\ capture' = NoError
    /\ UNCHANGED <<board, seen, ended, filed>>

----------------------------------------------------------------------------
(* The environment. *)
\* The process dies, maybe in the middle of a capture, and is started again.
Restart ==
    /\ seen' = [e \in Errors |-> NotSeen]
    /\ capture' = NoError
    /\ UNCHANGED <<board, ended, filed>>

Older(age, oldest) == IF age < oldest THEN age + 1 ELSE age

Tick ==
    /\ Idle
    /\ seen' = [e \in Errors |-> Older(seen[e], IF seen[e] = NotSeen THEN NotSeen ELSE OldAge)]
    /\ UNCHANGED <<board, capture, ended, filed>>

BoardNext ==
    \/ CreateTask
    \/ \E t \in Tasks : Approve(t) \/ Veto(t) \/ Pause(t) \/ Cancel(t) \/ Retry(t)
    \/ \E t \in Tasks : UpdateStatus(t) \/ DeleteTask(t)
    \/ \E e \in Errors :
          RequestFails(e) \/ RepeatIsDropped(e) \/ FileReport(e) \/ FilingFails(e)
    \/ Restart
    \/ Tick

\* Time passes, an error whose cause is not removed keeps coming back, and the
\* database does not refuse every report.
BoardFairness ==
    /\ WF_boardVars(Tick)
    /\ \A e \in Errors :
          /\ WF_boardVars(FileReport(e) \/ FilingFails(e))
          /\ SF_boardVars(RequestFails(e))
          /\ SF_boardVars(FileReport(e))

BoardSpec == BoardInit /\ [][BoardNext]_boardVars /\ BoardFairness

----------------------------------------------------------------------------
(* Properties. *)

\* Every task of the table is on the page, unless it is backlogged or at least
\* ColumnLimit tasks ended after it did - whatever was retried, vetoed again or
\* deleted in between.
EndedAfter(u, t) == Place(u, ended) > Place(t, ended)
HiddenTasksAreOld ==
    \A t \in Rows \ Shown :
       \/ status[t] = "backlogged"
       \/ /\ status[t] \in Finished
          /\ Cardinality({u \in Rows : status[u] \in Finished /\ EndedAfter(u, t)})
                 >= ColumnLimit

\* An error that keeps coming back is reported in the end, although a failed
\* insertion leaves the mark that silences the repetitions of it (while the
\* model has an id for the report).
RecurringErrorIsReported ==
    \A e \in Errors : <>[](Unused # {}) => <>(e \in filed)

=============================================================================
