-------------------------------- MODULE Calm --------------------------------
(***************************************************************************)
(* The focus stack of the dashboard (dashboard/routes/calm.py): tasks that *)
(* are LATER, NEXT or NOW, moved by the user's requests and by             *)
(* promote_tasks().  A handler has no await and runs as one step; but it   *)
(* commits more than once, and a process that dies between two commits     *)
(* leaves what the first of them wrote.                                    *)
(***************************************************************************)
EXTENDS Integers, FiniteSets

CONSTANT MaxTasks   \* bound on the tasks created during a behaviour

ASSUME CalmAssumption == MaxTasks \in Nat

\* The primary keys, given out in order.
Ids == 1..MaxTasks

VARIABLES
    tasks,      \* tasks[t]: the row of task t
    journal     \* is there a JournalEntry of today?

vars == <<tasks, journal>>

Active == {"LATER", "NEXT", "NOW"}

\* "none" is a row that does not exist yet.
TaskStates == Active \cup {"none", "DONE", "DEFERRED"}

Task == [state : TaskStates, is_mit : BOOLEAN, sort_order : 0..MaxTasks]

NewTask(mit) == [state |-> "LATER", is_mit |-> mit, sort_order |-> 0]

Init ==
    /\ tasks = [t \in Ids |-> [NewTask(FALSE) EXCEPT !.state = "none"]]
    /\ journal = FALSE

-----------------------------------------------------------------------------
(* Queries and promote_tasks(), over the rows ts.                          *)

With(ts, state) == {t \in Ids : ts[t].state = state}

Change(ts, t, row) == [u \in Ids |-> IF u = t THEN row ELSE ts[u]]

Put(ts, t, state) == Change(ts, t, [ts[t] EXCEPT !.state = state])

Exists(t) == tasks[t].state # "none"

\* ORDER BY is_mit DESC, sort_order
Precedes(ts, t, u) ==
    \/ ts[t].is_mit /\ ~ts[u].is_mit
    \/ ts[t].is_mit = ts[u].is_mit /\ ts[t].sort_order <= ts[u].sort_order

\* The tasks of T that may come first; SQL leaves open which of equals does.
FirstOf(ts, T) == {t \in T : \A u \in T : Precedes(ts, t, u)}

\* The sort of promote_tasks is by (is_mit, sort_order), both descending.
Outranks(ts, t, u) ==
    \/ ts[t].is_mit /\ ~ts[u].is_mit
    \/ ts[t].is_mit = ts[u].is_mit /\ ts[t].sort_order >= ts[u].sort_order

DemoteExtras(ts) ==
    LET now == With(ts, "NOW")
        kept == {t \in now : \A u \in now : Outranks(ts, t, u)}
    IN  IF kept = {} THEN {ts}
        ELSE {[u \in Ids |-> IF u \in now \ {t} THEN [ts[u] EXCEPT !.state = "NEXT"]
                             ELSE ts[u]] : t \in kept}

\* The rows after one of the candidates takes the place of the given state,
\* unless the place is taken.
Fill(ts, state, candidates) ==
    IF With(ts, state) # {} \/ candidates = {} THEN {ts}
    ELSE {Put(ts, t, state) : t \in candidates}

FillNow(ts) == Fill(ts, "NOW", With(ts, "NEXT"))

FillNext(ts) == Fill(ts, "NEXT", FirstOf(ts, With(ts, "LATER")))

\* Mutant: NEXT is filled before it is emptied into NOW.
PromotedNextFirst(ts) ==
    UNION {FillNow(v) : v \in UNION {FillNext(u) : u \in DemoteExtras(ts)}}

\* What promote_tasks() may make of the rows.
Promoted(ts) ==
    UNION {FillNext(v) : v \in UNION {FillNow(u) : u \in DemoteExtras(ts)}}

-----------------------------------------------------------------------------
(* The requests.                                                           *)

\* n rows exist.
Count(n) == \A t \in Ids : Exists(t) <=> t <= n

CreateTask ==
    /\ \E t \in Ids : \E mit \in BOOLEAN :
          /\ Count(t - 1)
          /\ tasks' = [tasks EXCEPT ![t] = NewTask(mit)]
    /\ UNCHANGED journal

\* start_task up to its first commit.
Started(t) ==
    LET now == With(tasks, "NOW")
    IN  {Put(ts, t, "NOW") :
            ts \in IF now = {} THEN {tasks}
                   ELSE {IF u = t THEN tasks ELSE Put(tasks, u, "NEXT") : u \in now}}

StartTask(t) ==
    /\ Exists(t)
    /\ \E ts \in Started(t) : tasks' \in Promoted(ts)
    /\ UNCHANGED journal

CompleteTask(t) ==
    /\ Exists(t)
    /\ tasks' \in Promoted(Put(tasks, t, "DONE"))
    /\ UNCHANGED journal

DeferTask(t) ==
    /\ Exists(t)
    /\ tasks' \in Promoted(Put(tasks, t, "DEFERRED"))
    /\ UNCHANGED journal

\* The process dies between the commit of one of these three and the commit of
\* promote_tasks().
DiesBeforePromotion(t) ==
    /\ Exists(t)
    /\ tasks' \in Started(t) \cup {Put(tasks, t, "DONE"), Put(tasks, t, "DEFERRED")}
    /\ UNCHANGED journal

\* The lists of ids a form may send: some of the LATER tasks in any order.  An
\* id of another task is ignored.
IdLists ==
    {ids \in UNION {[1..n -> With(tasks, "LATER")] : n \in 0..MaxTasks} :
        \A i, j \in DOMAIN ids : ids[i] = ids[j] => i = j}

\* The LATER tasks among the ids get their position.
Reordered(ids) ==
    [t \in Ids |->
        IF \E i \in DOMAIN ids : ids[i] = t
        THEN [tasks[t] EXCEPT !.sort_order = (CHOOSE i \in DOMAIN ids : ids[i] = t) - 1]
        ELSE tasks[t]]

\* A NEXT task goes back to LATER.  Its position is a count of rows in the
\* database, where nothing of this request has been written yet.
Demoted(ts, u) ==
    Change(ts, u, [ts[u] EXCEPT !.state = "LATER",
                                !.sort_order = Cardinality(With(tasks, "LATER"))])

\* Mutant: any task may be made NEXT.
MadeNextAnyState(ts, t) ==
    {Change(us, t, [us[t] EXCEPT !.state = "NEXT", !.sort_order = 0]) :
        us \in IF With(ts, "NEXT") = {} THEN {ts}
               ELSE {Demoted(ts, u) : u \in With(ts, "NEXT")}}

MadeNext(ts, t) ==
    IF ts[t].state # "LATER" THEN {ts}
    ELSE {Change(us, t, [us[t] EXCEPT !.state = "NEXT", !.sort_order = 0]) :
             us \in IF With(ts, "NEXT") = {} THEN {ts}
                    ELSE {Demoted(ts, u) : u \in With(ts, "NEXT")}}

\* The form names the new order, or a task to make NEXT, or both.
ReorderTasks(ids) ==
    /\ \/ tasks' = Reordered(ids)
       \/ \E t \in Ids : tasks' \in MadeNext(Reordered(ids), t)
    /\ UNCHANGED journal

\* The rows after the ritual has added tasks n+1..m with is_mit and m+1..k without.
Added(n, m, k) ==
    [t \in Ids |-> IF t \in (n + 1)..k THEN NewTask(t <= m) ELSE tasks[t]]

\* The first LATER task is NOW and the second one NEXT, whatever is so already.
FirstTwo(ts) ==
    UNION {FillNext(Put(ts, t, "NOW")) : t \in FirstOf(ts, With(ts, "LATER"))}

\* Mutant: one empty place is enough to set both.
OpenedEither(ts) ==
    IF (With(ts, "NOW") # {} /\ With(ts, "NEXT") # {}) \/ With(ts, "LATER") = {}
    THEN {ts}
    ELSE FirstTwo(ts)

\* The ritual sets NOW and NEXT if neither place is taken.
Opened(ts) ==
    IF With(ts, "NOW") # {} \/ With(ts, "NEXT") # {} \/ With(ts, "LATER") = {}
    THEN {ts}
    ELSE FirstTwo(ts)

\* The journal admits one ritual a day; a second one fails at its first commit.
MorningRitual ==
    /\ ~journal
    /\ journal' = TRUE
    /\ \E n, m, k \in 0..MaxTasks :
          /\ Count(n)
          /\ n <= m /\ m <= n + 3 /\ m <= k
          /\ tasks' \in Opened(Added(n, m, k))

\* The process dies with the entry written and some of the tasks, but before
\* NOW and NEXT are set.
MorningDies ==
    /\ ~journal
    /\ journal' = TRUE
    /\ \E n, m, k \in 0..MaxTasks :
          /\ Count(n)
          /\ n <= m /\ m <= n + 3 /\ m <= k
          /\ tasks' = Added(n, m, k)

\* The evening archives what is left.
EveningRitual ==
    /\ journal
    /\ tasks' = [t \in Ids |-> IF tasks[t].state \in Active
                               THEN [tasks[t] EXCEPT !.state = "DEFERRED"]
                               ELSE tasks[t]]
    /\ UNCHANGED journal

\* Midnight: there is no entry for the new day.
NewDay ==
    /\ journal
    /\ journal' = FALSE
    /\ UNCHANGED tasks

Next ==
    \/ CreateTask
    \/ \E t \in Ids : StartTask(t) \/ CompleteTask(t) \/ DeferTask(t)
                      \/ DiesBeforePromotion(t)
    \/ \E ids \in IdLists : ReorderTasks(ids)
    \/ MorningRitual
    \/ MorningDies
    \/ EveningRitual
    \/ NewDay

Spec == Init /\ [][Next]_vars

-----------------------------------------------------------------------------
(* Properties.                                                             *)

\* The rows have their types, and ids are given out without gaps.
TypeOK ==
    /\ tasks \in [Ids -> Task]
    /\ journal \in BOOLEAN
    /\ \A t, u \in Ids : Exists(t) /\ u < t => Exists(u)

\* "Ensure only one NOW task exists": whatever requests come in whatever order,
\* and wherever the process dies, the user is never given two tasks at once.
OnlyOneNow == \A t, u \in With(tasks, "NOW") : t = u

\* A task the user is on is taken from them only when it is completed or
\* deferred, or because they start another one; then it is NEXT.
FocusIsKept ==
    [][\A t \in With(tasks, "NOW") :
          \/ tasks'[t].state \in {"NOW", "DONE", "DEFERRED"}
          \/ tasks'[t].state = "NEXT" /\ \E u \in Ids \ {t} : tasks'[u].state = "NOW"]_vars

\* A request that promotes leaves no place open that it could have filled: a
\* NEXT task it found has become NOW unless one was, and with anything left
\* for later something is NEXT.  Only a crash before the promotion is excused.
PromotionFillsPlaces ==
    [][\A t \in Ids :
          \/ /\ With(tasks, "NEXT") \ {t} # {} => With(tasks', "NOW") # {}
             /\ With(tasks', "LATER") # {} => With(tasks', "NEXT") # {}
          \/ ~(StartTask(t) \/ CompleteTask(t) \/ DeferTask(t))
          \/ DiesBeforePromotion(t)]_vars

=============================================================================
