--------------------------- MODULE DashboardProofs ----------------------------
(***************************************************************************)
(* Proofs about parts of the dashboard: the focus stack, the briefing, the *)
(* agentic loops and the prediction loop of Spark, for any number of       *)
(* tasks, items, loops, agents and events.                                 *)
(***************************************************************************)
EXTENDS Dashboard, Spark, FilterTheorems, TLAPS

----------------------------------------------------------------------------
(***************************************************************************)
(* The focus stack, for any number of tasks.                               *)
(***************************************************************************)

(* The rows.                                                               *)

Rows(ts) == ts \in [Ids -> Task]

OneNow(ts) == \A t, u \in With(ts, "NOW") : t = u

\* Promoting moves tasks towards NOW and leaves all others where they are.
MovesUp(ts, vs) ==
    \A t \in Ids :
        \/ vs[t].state = ts[t].state
        \/ ts[t].state = "LATER" /\ vs[t].state \in {"NEXT", "NOW"}
        \/ ts[t].state = "NEXT" /\ vs[t].state = "NOW"

\* What a promotion makes of rows with at most one NOW task.
GoodPromotion(ts, vs) == Rows(vs) /\ OneNow(vs) /\ MovesUp(ts, vs)

\* A change of one row.
LEMMA PutRows ==
    ASSUME NEW ts, Rows(ts), NEW t \in Ids, NEW state \in TaskStates
    PROVE  /\ Rows(Put(ts, t, state))
           /\ Put(ts, t, state)[t].state = state
           /\ \A u \in Ids \ {t} : Put(ts, t, state)[u] = ts[u]
<1>1. [ts[t] EXCEPT !.state = state] \in Task
  BY DEF Rows, Task
<1>2. [ts[t] EXCEPT !.state = state].state = state
  BY DEF Rows, Task
<1> QED
  BY <1>1, <1>2 DEF Rows, Put, Change

\* With one NOW task there are no extras to demote.
LEMMA NoExtras ==
    ASSUME NEW ts, Rows(ts), OneNow(ts), NEW us \in DemoteExtras(ts)
    PROVE  us = ts
<1> DEFINE now == With(ts, "NOW")
           Result(t) == [u \in Ids |-> IF u \in now \ {t}
                                       THEN [ts[u] EXCEPT !.state = "NEXT"]
                                       ELSE ts[u]]
<1>1. ASSUME NEW t \in now
      PROVE  Result(t) = ts
  <2>1. now \ {t} = {}
    BY <1>1 DEF OneNow
  <2>2. ts = [u \in Ids |-> ts[u]]
    BY DEF Rows
  <2> QED
    BY <2>1, <2>2
<1>2. us = ts \/ \E t \in now : us = Result(t)
  BY DEF DemoteExtras
<1> QED
  BY <1>1, <1>2

\* Filling the place of NOW.
LEMMA FillNowOK ==
    ASSUME NEW ts, Rows(ts), OneNow(ts), NEW vs \in FillNow(ts)
    PROVE  GoodPromotion(ts, vs)
<1>1. CASE vs = ts
  BY <1>1 DEF GoodPromotion, MovesUp
<1>2. CASE /\ With(ts, "NOW") = {}
           /\ \E t \in With(ts, "NEXT") : vs = Put(ts, t, "NOW")
  <2>1. PICK t \in With(ts, "NEXT") : vs = Put(ts, t, "NOW")
    BY <1>2
  <2>2. t \in Ids /\ ts[t].state = "NEXT"
    BY <2>1 DEF With
  <2>p. t \in Ids /\ "NOW" \in TaskStates
    BY <2>2 DEF TaskStates, Active
  <2>q. /\ Rows(Put(ts, t, "NOW")) /\ Put(ts, t, "NOW")[t].state = "NOW"
        /\ \A u \in Ids \ {t} : Put(ts, t, "NOW")[u] = ts[u]
    BY <2>p, PutRows
  <2>3. /\ Rows(vs) /\ vs[t].state = "NOW"
        /\ \A u \in Ids \ {t} : vs[u] = ts[u]
    BY <2>1, <2>q
  <2>4. \A u \in Ids \ {t} : ts[u].state # "NOW"
    BY <1>2 DEF With
  <2>5. OneNow(vs)
    BY <2>3, <2>4 DEF OneNow, With
  <2> QED
    BY <2>2, <2>3, <2>5 DEF GoodPromotion, MovesUp
<1> QED
  BY <1>1, <1>2 DEF FillNow, Fill

\* Filling the place of NEXT.
LEMMA FillNextOK ==
    ASSUME NEW ts, Rows(ts), OneNow(ts), NEW vs \in FillNext(ts)
    PROVE  GoodPromotion(ts, vs)
<1>1. CASE vs = ts
  BY <1>1 DEF GoodPromotion, MovesUp
<1>2. CASE \E t \in With(ts, "LATER") : vs = Put(ts, t, "NEXT")
  <2>1. PICK t \in With(ts, "LATER") : vs = Put(ts, t, "NEXT")
    BY <1>2
  <2>2. t \in Ids /\ ts[t].state = "LATER"
    BY <2>1 DEF With
  <2>p. t \in Ids /\ "NEXT" \in TaskStates
    BY <2>2 DEF TaskStates, Active
  <2>q. /\ Rows(Put(ts, t, "NEXT")) /\ Put(ts, t, "NEXT")[t].state = "NEXT"
        /\ \A u \in Ids \ {t} : Put(ts, t, "NEXT")[u] = ts[u]
    BY <2>p, PutRows
  <2>3. /\ Rows(vs) /\ vs[t].state = "NEXT"
        /\ \A u \in Ids \ {t} : vs[u] = ts[u]
    BY <2>1, <2>q
  <2>4. \A u \in Ids : vs[u].state = "NOW" => ts[u].state = "NOW"
    BY <2>3
  <2>5. OneNow(vs)
    BY <2>4 DEF OneNow, With
  <2> QED
    BY <2>2, <2>3, <2>5 DEF GoodPromotion, MovesUp
<1> QED
  BY <1>1, <1>2 DEF FillNext, Fill, FirstOf

\* promote_tasks() as a whole.
LEMMA PromotedOK ==
    ASSUME NEW ts, Rows(ts), OneNow(ts), NEW vs \in Promoted(ts)
    PROVE  GoodPromotion(ts, vs)
<1>1. PICK us \in DemoteExtras(ts) : \E ws \in FillNow(us) : vs \in FillNext(ws)
  BY DEF Promoted
<1>2. us = ts
  BY <1>1, NoExtras
<1>3. PICK ws \in FillNow(ts) : vs \in FillNext(ws)
  BY <1>1, <1>2
<1>4. GoodPromotion(ts, ws)
  BY <1>3, FillNowOK
<1>5. GoodPromotion(ws, vs)
  BY <1>3, <1>4, FillNextOK DEF GoodPromotion
<1>6. MovesUp(ts, vs)
  BY <1>4, <1>5 DEF GoodPromotion, MovesUp
<1> QED
  BY <1>5, <1>6 DEF GoodPromotion

-----------------------------------------------------------------------------
(* The inductive invariant, and what a step makes of the rows.             *)

NoGaps(ts) ==
    \A t, u \in Ids : ts[t].state # "none" /\ u < t => ts[u].state # "none"

CalmIInv == TypeOK /\ OnlyOneNow

\* The focus of the user is kept from ts to vs.
Kept(ts, vs) ==
    \A t \in With(ts, "NOW") :
        \/ vs[t].state \in {"NOW", "DONE", "DEFERRED"}
        \/ vs[t].state = "NEXT" /\ \E u \in Ids \ {t} : vs[u].state = "NOW"

SameRows(ts, vs) ==
    \A t \in Ids : vs[t].state = "none" <=> ts[t].state = "none"

\* A step of a request leaves the rows in order and the focus alone.
GoodStep == Rows(tasks') /\ NoGaps(tasks') /\ OneNow(tasks') /\ Kept(tasks, tasks')

\* The invariant in terms of the rows.
LEMMA IInvRows ==
    CalmIInv <=> Rows(tasks) /\ journal \in BOOLEAN /\ NoGaps(tasks) /\ OneNow(tasks)
BY DEF CalmIInv, TypeOK, OnlyOneNow, Rows, NoGaps, OneNow, Exists

\* A good step with a good journal keeps the invariant.
LEMMA GoodStepIInv ==
    ASSUME GoodStep, journal' \in BOOLEAN
    PROVE  CalmIInv'
BY DEF GoodStep, CalmIInv, TypeOK, OnlyOneNow, Rows, NoGaps, OneNow, With, Exists

\* Rows that exist as before have no gaps.
LEMMA SameRowsNoGaps ==
    ASSUME NEW ts, NEW vs, NoGaps(ts), SameRows(ts, vs)
    PROVE  NoGaps(vs)
BY DEF NoGaps, SameRows

\* A promotion after a change that keeps the focus keeps it as well.
LEMMA PromotionKeeps ==
    ASSUME NEW ts, NEW us, NEW vs, Kept(ts, us), SameRows(ts, us),
           GoodPromotion(us, vs)
    PROVE  Kept(ts, vs) /\ SameRows(ts, vs)
<1>1. SameRows(ts, vs)
  BY DEF SameRows, GoodPromotion, MovesUp
<1>2. ASSUME NEW t \in With(ts, "NOW")
      PROVE  \/ vs[t].state \in {"NOW", "DONE", "DEFERRED"}
             \/ vs[t].state = "NEXT" /\ \E u \in Ids \ {t} : vs[u].state = "NOW"
  <2>0. t \in Ids
    BY DEF With
  <2>1. CASE us[t].state \in {"NOW", "DONE", "DEFERRED"}
    BY <2>0, <2>1 DEF GoodPromotion, MovesUp
  <2>2. CASE us[t].state = "NEXT" /\ \E u \in Ids \ {t} : us[u].state = "NOW"
    <3>1. vs[t].state \in {"NEXT", "NOW"}
      BY <2>0, <2>2 DEF GoodPromotion, MovesUp
    <3>2. \E u \in Ids \ {t} : vs[u].state = "NOW"
      BY <2>2 DEF GoodPromotion, MovesUp
    <3> QED
      BY <3>1, <3>2
  <2> QED
    BY <1>2, <2>1, <2>2 DEF Kept
<1> QED
  BY <1>1, <1>2 DEF Kept

\* Finishing or deferring one task, before the promotion.
LEMMA PutOK ==
    ASSUME CalmIInv, NEW t \in Ids, Exists(t), NEW state \in {"DONE", "DEFERRED"}
    PROVE  LET vs == Put(tasks, t, state)
           IN  Rows(vs) /\ OneNow(vs) /\ SameRows(tasks, vs) /\ Kept(tasks, vs)
<1> DEFINE vs == Put(tasks, t, state)
<1>0. state \in TaskStates /\ state # "NOW" /\ state # "none" /\ Rows(tasks)
      /\ OneNow(tasks)
  BY IInvRows DEF TaskStates
<1>1. /\ Rows(vs) /\ vs[t].state = state
      /\ \A u \in Ids \ {t} : vs[u] = tasks[u]
  BY <1>0, PutRows
<1> HIDE DEF vs
<1>2. OneNow(vs)
  BY <1>0, <1>1 DEF OneNow, With
<1>3. SameRows(tasks, vs)
  BY <1>0, <1>1 DEF SameRows, Exists
<1>4. Kept(tasks, vs)
  BY <1>1 DEF Kept, With
<1> QED
  BY <1>1, <1>2, <1>3, <1>4 DEF vs

\* Starting a task, before the promotion.
LEMMA StartedOK ==
    ASSUME CalmIInv, NEW t \in Ids, Exists(t), NEW vs \in Started(t)
    PROVE  Rows(vs) /\ OneNow(vs) /\ SameRows(tasks, vs) /\ Kept(tasks, vs)
<1>0. /\ Rows(tasks) /\ OneNow(tasks)
      /\ "NOW" \in TaskStates /\ "NEXT" \in TaskStates
  BY IInvRows DEF TaskStates, Active
<1>1. CASE With(tasks, "NOW") = {}
  <2>1. vs = Put(tasks, t, "NOW")
    BY <1>1 DEF Started
  <2>2. /\ Rows(vs) /\ vs[t].state = "NOW"
        /\ \A u \in Ids \ {t} : vs[u] = tasks[u]
    BY <1>0, <2>1, PutRows
  <2> QED
    BY <1>1, <2>2 DEF OneNow, SameRows, Kept, With, Exists
<1>2. CASE With(tasks, "NOW") # {}
  <2>1. PICK n \in With(tasks, "NOW") :
           vs = Put(IF n = t THEN tasks ELSE Put(tasks, n, "NEXT"), t, "NOW")
    BY <1>2 DEF Started
  <2>2. n \in Ids /\ tasks[n].state = "NOW"
    BY DEF With
  <2>3. \A u \in Ids \ {n} : tasks[u].state # "NOW"
    BY <1>0, <2>2 DEF OneNow, With
  <2>4. CASE n = t
    <3>1. vs = Put(tasks, t, "NOW")
      BY <2>1, <2>4
    <3>2. /\ Rows(vs) /\ vs[t].state = "NOW"
          /\ \A u \in Ids \ {t} : vs[u] = tasks[u]
      BY <1>0, <3>1, PutRows
    <3> QED
      BY <2>3, <2>4, <3>2 DEF OneNow, SameRows, Kept, With, Exists
  <2>5. CASE n # t
    <3> DEFINE us == Put(tasks, n, "NEXT")
    <3>1. vs = Put(us, t, "NOW")
      BY <2>1, <2>5
    <3>2. /\ Rows(us) /\ us[n].state = "NEXT"
          /\ \A u \in Ids \ {n} : us[u] = tasks[u]
      BY <1>0, <2>2, PutRows
    <3> HIDE DEF us
    <3>3. /\ Rows(vs) /\ vs[t].state = "NOW"
          /\ \A u \in Ids \ {t} : vs[u] = us[u]
      BY <1>0, <3>1, <3>2, PutRows
    <3>4. /\ vs[n].state = "NEXT"
          /\ \A u \in Ids \ {n, t} : vs[u] = tasks[u]
      BY <2>2, <2>5, <3>2, <3>3
    <3>5. OneNow(vs)
      BY <2>3, <3>3, <3>4 DEF OneNow, With
    <3>6. SameRows(tasks, vs)
      BY <2>2, <3>3, <3>4 DEF SameRows, Exists
    <3>7. Kept(tasks, vs)
      BY <2>2, <2>3, <2>5, <3>3, <3>4 DEF Kept, With
    <3> QED
      BY <3>3, <3>5, <3>6, <3>7
  <2> QED
    BY <2>4, <2>5
<1> QED
  BY <1>1, <1>2

\* The three requests that end with a promotion, and a crash before it.
LEMMA PromotingGood ==
    ASSUME CalmIInv, NEW t \in Ids,
           StartTask(t) \/ CompleteTask(t) \/ DeferTask(t) \/ DiesBeforePromotion(t)
    PROVE  GoodStep /\ journal' \in BOOLEAN
<1>0. Exists(t) /\ journal' = journal /\ journal \in BOOLEAN /\ NoGaps(tasks)
  BY IInvRows DEF StartTask, CompleteTask, DeferTask, DiesBeforePromotion
<1>1. PICK us \in Started(t) \cup {Put(tasks, t, "DONE"), Put(tasks, t, "DEFERRED")} :
         tasks' = us \/ tasks' \in Promoted(us)
  BY DEF StartTask, CompleteTask, DeferTask, DiesBeforePromotion
<1>2. Rows(us) /\ OneNow(us) /\ SameRows(tasks, us) /\ Kept(tasks, us)
  BY <1>0, PutOK, StartedOK
<1>3. CASE tasks' = us
  BY <1>0, <1>2, <1>3, SameRowsNoGaps DEF GoodStep
<1>4. CASE tasks' \in Promoted(us)
  <2>1. GoodPromotion(us, tasks')
    BY <1>2, <1>4, PromotedOK
  <2>2. Kept(tasks, tasks') /\ SameRows(tasks, tasks')
    BY <1>2, <2>1, PromotionKeeps
  <2>3. NoGaps(tasks')
    BY <1>0, <2>2, SameRowsNoGaps
  <2> QED
    BY <1>0, <2>1, <2>2, <2>3 DEF GoodStep, GoodPromotion
<1> QED
  BY <1>1, <1>3, <1>4

\* A new task.
LEMMA CreateGood ==
    ASSUME CalmIInv, CreateTask
    PROVE  GoodStep /\ journal' \in BOOLEAN
<1>0. Rows(tasks) /\ OneNow(tasks) /\ journal' \in BOOLEAN
  BY IInvRows DEF CreateTask
<1>1. PICK t \in Ids, mit \in BOOLEAN :
         Count(t - 1) /\ tasks' = [tasks EXCEPT ![t] = NewTask(mit)]
  BY DEF CreateTask
<1>2. NewTask(mit) \in Task /\ NewTask(mit).state = "LATER"
  BY CalmAssumption DEF CalmAssumption, NewTask, Task, TaskStates, Active
<1>3. \A u \in Ids : tasks'[u] = IF u = t THEN NewTask(mit) ELSE tasks[u]
  BY <1>0, <1>1 DEF Rows
<1>4. \A u \in Ids : tasks[u].state # "none" <=> u < t
  BY <1>1, CalmAssumption DEF Count, Exists, Ids, CalmAssumption
<1>5. Rows(tasks')
  BY <1>0, <1>1, <1>2 DEF Rows
<1>6. NoGaps(tasks')
  BY <1>2, <1>3, <1>4, CalmAssumption DEF NoGaps, Ids, CalmAssumption
<1>7. OneNow(tasks')
  BY <1>0, <1>2, <1>3 DEF OneNow, With
<1>8. Kept(tasks, tasks')
  BY <1>3, <1>4, CalmAssumption DEF Kept, With, Ids, CalmAssumption
<1> QED
  BY <1>0, <1>5, <1>6, <1>7, <1>8 DEF GoodStep

\* The number of LATER tasks.
LEMMA LaterCount == Cardinality(With(tasks, "LATER")) \in 0..MaxTasks
<1>1. IsFiniteSet(Ids) /\ Cardinality(Ids) = MaxTasks
  BY CalmAssumption, FS_Interval DEF CalmAssumption, Ids
<1>2. With(tasks, "LATER") \subseteq Ids
  BY DEF With
<1>3. /\ Cardinality(With(tasks, "LATER")) \in Nat
      /\ Cardinality(With(tasks, "LATER")) <= Cardinality(Ids)
  BY <1>1, <1>2, FS_Subset, FS_CardinalityType
<1> QED
  BY <1>1, <1>3, CalmAssumption DEF CalmAssumption

\* Rows whose LATER and NEXT tasks were exchanged in any way.
Exchanged(ts, vs) ==
    \A t \in Ids :
        \/ vs[t].state = ts[t].state
        \/ ts[t].state \in {"LATER", "NEXT"} /\ vs[t].state \in {"LATER", "NEXT"}

\* Writing the positions.
LEMMA ReorderedOK ==
    ASSUME Rows(tasks), NEW ids \in IdLists
    PROVE  Rows(Reordered(ids)) /\ \A t \in Ids : Reordered(ids)[t].state = tasks[t].state
<1>1. PICK n \in 0..MaxTasks : ids \in [1..n -> With(tasks, "LATER")]
  BY DEF IdLists
<1>2. ASSUME NEW t \in Ids
      PROVE  Reordered(ids)[t] \in Task /\ Reordered(ids)[t].state = tasks[t].state
  <2>1. tasks[t] \in Task
    BY DEF Rows
  <2>2. CASE \E i \in DOMAIN ids : ids[i] = t
    <3> DEFINE i == CHOOSE j \in DOMAIN ids : ids[j] = t
    <3>1. i \in 1..n
      BY <1>1, <2>2
    <3>2. i - 1 \in 0..MaxTasks
      BY <3>1, CalmAssumption DEF CalmAssumption
    <3>3. Reordered(ids)[t] = [tasks[t] EXCEPT !.sort_order = i - 1]
      BY <2>2 DEF Reordered
    <3> HIDE DEF i
    <3> QED
      BY <2>1, <3>2, <3>3 DEF Task
  <2>3. CASE ~\E i \in DOMAIN ids : ids[i] = t
    BY <2>1, <2>3 DEF Reordered
  <2> QED
    BY <2>2, <2>3
<1> QED
  BY <1>2 DEF Rows, Reordered

\* Making a LATER task NEXT.
LEMMA MadeNextOK ==
    ASSUME NEW ts, Rows(ts), NEW t \in Ids, NEW vs \in MadeNext(ts, t)
    PROVE  Rows(vs) /\ Exchanged(ts, vs)
<1>1. CASE ts[t].state # "LATER"
  BY <1>1 DEF MadeNext, Exchanged
<1>2. CASE ts[t].state = "LATER"
  <2>1. PICK us \in {ts} \cup {Demoted(ts, u) : u \in With(ts, "NEXT")} :
           vs = Change(us, t, [us[t] EXCEPT !.state = "NEXT", !.sort_order = 0])
    BY <1>2 DEF MadeNext
  <2>2. Rows(us) /\ Exchanged(ts, us) /\ us[t] = ts[t]
    <3>1. CASE us = ts
      BY <3>1 DEF Exchanged
    <3>2. CASE \E u \in With(ts, "NEXT") : us = Demoted(ts, u)
      <4>1. PICK u \in With(ts, "NEXT") : us = Demoted(ts, u)
        BY <3>2
      <4>2. u \in Ids /\ ts[u].state = "NEXT" /\ u # t
        BY <1>2 DEF With
      <4> DEFINE row == [ts[u] EXCEPT !.state = "LATER",
                                      !.sort_order = Cardinality(With(tasks, "LATER"))]
      <4>3. row \in Task /\ row.state = "LATER"
        BY <4>2, LaterCount DEF Rows, Task, TaskStates, Active
      <4>4. us = Change(ts, u, row)
        BY <4>1 DEF Demoted
      <4> HIDE DEF row
      <4> QED
        BY <4>2, <4>3, <4>4 DEF Change, Rows, Exchanged
    <3> QED
      BY <2>1, <3>1, <3>2
  <2> DEFINE row == [us[t] EXCEPT !.state = "NEXT", !.sort_order = 0]
  <2>3. row \in Task /\ row.state = "NEXT"
    <3>1. us[t] \in Task
      BY <2>2 DEF Rows
    <3>2. 0 \in 0..MaxTasks
      BY CalmAssumption DEF CalmAssumption
    <3>3. "NEXT" \in TaskStates
      BY DEF TaskStates, Active
    <3> QED
      BY <3>1, <3>2, <3>3 DEF Task
  <2>4. vs = Change(us, t, row)
    BY <2>1
  <2> HIDE DEF row
  <2> QED
    BY <1>2, <2>2, <2>3, <2>4 DEF Change, Rows, Exchanged
<1> QED
  BY <1>1, <1>2

\* A new order.
LEMMA ReorderGood ==
    ASSUME CalmIInv, NEW ids \in IdLists, ReorderTasks(ids)
    PROVE  GoodStep /\ journal' \in BOOLEAN
<1>0. Rows(tasks) /\ OneNow(tasks) /\ NoGaps(tasks) /\ journal' \in BOOLEAN
  BY IInvRows DEF ReorderTasks
<1> DEFINE us == Reordered(ids)
<1>1. Rows(us) /\ \A t \in Ids : us[t].state = tasks[t].state
  BY <1>0, ReorderedOK
<1>2. tasks' = us \/ \E t \in Ids : tasks' \in MadeNext(us, t)
  BY DEF ReorderTasks
<1> HIDE DEF us
<1>3. Rows(tasks') /\ Exchanged(us, tasks')
  BY <1>1, <1>2, MadeNextOK DEF Exchanged
<1>4. Exchanged(tasks, tasks')
  BY <1>1, <1>3 DEF Exchanged
<1>5. SameRows(tasks, tasks') /\ OneNow(tasks') /\ Kept(tasks, tasks')
  BY <1>0, <1>4 DEF Exchanged, SameRows, OneNow, Kept, With
<1> QED
  BY <1>0, <1>3, <1>5, SameRowsNoGaps DEF GoodStep

\* The morning ritual up to its last commit.
LEMMA AddedOK ==
    ASSUME CalmIInv, NEW n \in 0..MaxTasks, NEW m \in 0..MaxTasks, NEW k \in 0..MaxTasks,
           Count(n), n <= m, m <= k
    PROVE  LET vs == Added(n, m, k)
           IN  Rows(vs) /\ OneNow(vs) /\ NoGaps(vs) /\ Kept(tasks, vs)
<1> DEFINE vs == Added(n, m, k)
<1>0. Rows(tasks) /\ OneNow(tasks)
  BY IInvRows
<1>1. \A t \in Ids : tasks[t].state # "none" <=> t <= n
  BY DEF Count, Exists
<1>a. \A mit \in BOOLEAN : NewTask(mit) \in Task /\ NewTask(mit).state = "LATER"
  BY CalmAssumption DEF CalmAssumption, NewTask, Task, TaskStates, Active
<1>b. ASSUME NEW t \in Ids
      PROVE  (t <= m) \in BOOLEAN
  OBVIOUS
<1>2. \A t \in Ids : NewTask(t <= m) \in Task /\ NewTask(t <= m).state = "LATER"
  BY <1>a, <1>b, Zenon
<1>3. \A t \in Ids : vs[t] = IF t \in (n + 1)..k THEN NewTask(t <= m) ELSE tasks[t]
  BY DEF Added
<1>4. Rows(vs)
  BY <1>0, <1>2 DEF Added, Rows
<1> HIDE DEF vs
<1>5. \A t \in Ids : vs[t].state # "none" <=> t <= k
  BY <1>1, <1>2, <1>3, CalmAssumption DEF CalmAssumption, Ids
<1>6. NoGaps(vs)
  BY <1>5, CalmAssumption DEF NoGaps, Ids, CalmAssumption
<1>7. \A t \in Ids : t \in (n + 1)..k => vs[t].state = "LATER"
  BY <1>2, <1>3
<1>8. \A t \in Ids : t \notin (n + 1)..k => vs[t] = tasks[t]
  BY <1>3
<1>9. \A t \in Ids : t \in (n + 1)..k => tasks[t].state # "NOW"
  BY <1>1, CalmAssumption DEF CalmAssumption, Ids
<1>10. OneNow(vs)
  BY <1>0, <1>7, <1>8 DEF OneNow, With
<1>11. Kept(tasks, vs)
  BY <1>8, <1>9 DEF Kept, With
<1> QED
  BY <1>4, <1>6, <1>10, <1>11 DEF vs

\* Setting NOW and NEXT.
LEMMA OpenedOK ==
    ASSUME NEW ts, Rows(ts), OneNow(ts), NEW vs \in Opened(ts)
    PROVE  GoodPromotion(ts, vs)
<1>1. CASE vs = ts
  BY <1>1 DEF GoodPromotion, MovesUp
<1>2. CASE With(ts, "NOW") = {} /\ vs \in FirstTwo(ts)
  <2>1. PICK t \in With(ts, "LATER") : vs \in FillNext(Put(ts, t, "NOW"))
    BY <1>2 DEF FirstTwo, FirstOf
  <2>2. t \in Ids /\ ts[t].state = "LATER" /\ "NOW" \in TaskStates
    BY <2>1 DEF With, TaskStates, Active
  <2> DEFINE us == Put(ts, t, "NOW")
  <2>3. /\ Rows(us) /\ us[t].state = "NOW"
        /\ \A u \in Ids \ {t} : us[u] = ts[u]
    BY <2>2, PutRows
  <2>4. vs \in FillNext(us)
    BY <2>1
  <2> HIDE DEF us
  <2>5. OneNow(us)
    BY <1>2, <2>3 DEF OneNow, With
  <2>6. MovesUp(ts, us)
    BY <2>2, <2>3 DEF MovesUp
  <2>7. GoodPromotion(us, vs)
    BY <2>3, <2>4, <2>5, FillNextOK
  <2>8. MovesUp(ts, vs)
    BY <2>6, <2>7 DEF GoodPromotion, MovesUp
  <2> QED
    BY <2>7, <2>8 DEF GoodPromotion
<1> QED
  BY <1>1, <1>2 DEF Opened

\* The morning ritual, and a crash during it.
LEMMA MorningGood ==
    ASSUME CalmIInv, MorningRitual \/ MorningDies
    PROVE  GoodStep /\ journal' \in BOOLEAN
<1>1. journal' \in BOOLEAN
  BY DEF MorningRitual, MorningDies
<1>2. PICK n \in 0..MaxTasks, m \in 0..MaxTasks, k \in 0..MaxTasks :
         /\ Count(n) /\ n <= m /\ m <= k
         /\ tasks' = Added(n, m, k) \/ tasks' \in Opened(Added(n, m, k))
  BY DEF MorningRitual, MorningDies
<1> DEFINE us == Added(n, m, k)
<1>3. Rows(us) /\ OneNow(us) /\ NoGaps(us) /\ Kept(tasks, us)
  BY <1>2, AddedOK
<1>4. tasks' = us \/ tasks' \in Opened(us)
  BY <1>2
<1> HIDE DEF us
<1>5. GoodPromotion(us, tasks')
  BY <1>3, <1>4, OpenedOK DEF GoodPromotion, MovesUp
<1>6. SameRows(us, tasks')
  BY <1>5 DEF GoodPromotion, MovesUp, SameRows
<1>7. NoGaps(tasks')
  BY <1>3, <1>6, SameRowsNoGaps
<1>8. Kept(tasks, tasks')
  <2>1. ASSUME NEW t \in With(tasks, "NOW")
        PROVE  \/ tasks'[t].state \in {"NOW", "DONE", "DEFERRED"}
               \/ /\ tasks'[t].state = "NEXT"
                  /\ \E u \in Ids \ {t} : tasks'[u].state = "NOW"
    <3>0. t \in Ids
      BY DEF With
    <3>1. CASE us[t].state \in {"NOW", "DONE", "DEFERRED"}
      BY <1>5, <3>0, <3>1 DEF GoodPromotion, MovesUp
    <3>2. CASE us[t].state = "NEXT" /\ \E u \in Ids \ {t} : us[u].state = "NOW"
      BY <1>5, <3>0, <3>2 DEF GoodPromotion, MovesUp
    <3> QED
      BY <1>3, <3>1, <3>2 DEF Kept
  <2> QED
    BY <2>1 DEF Kept
<1> QED
  BY <1>1, <1>5, <1>7, <1>8 DEF GoodStep, GoodPromotion

\* The evening ritual.
LEMMA EveningGood ==
    ASSUME CalmIInv, EveningRitual
    PROVE  GoodStep /\ journal' \in BOOLEAN
<1>0. Rows(tasks) /\ NoGaps(tasks) /\ journal' \in BOOLEAN
  BY IInvRows DEF EveningRitual
<1>1. \A t \in Ids : /\ tasks'[t] \in Task
                     /\ tasks'[t].state = IF tasks[t].state \in Active THEN "DEFERRED"
                                          ELSE tasks[t].state
  BY <1>0 DEF EveningRitual, Rows, Task, TaskStates
<1>2. Rows(tasks')
  BY <1>1 DEF EveningRitual, Rows
<1>3. SameRows(tasks, tasks')
  BY <1>1 DEF SameRows, Active
<1>4. OneNow(tasks') /\ Kept(tasks, tasks')
  BY <1>1 DEF OneNow, Kept, With, Active
<1> QED
  BY <1>0, <1>2, <1>3, <1>4, SameRowsNoGaps DEF GoodStep

\* Every step keeps the invariant and the focus.
LEMMA NextGood ==
    ASSUME CalmIInv, [Next]_vars
    PROVE  CalmIInv' /\ Kept(tasks, tasks')
<1>1. CASE CreateTask
  BY <1>1, CreateGood, GoodStepIInv DEF GoodStep
<1>2. CASE \E t \in Ids : StartTask(t) \/ CompleteTask(t) \/ DeferTask(t)
                          \/ DiesBeforePromotion(t)
  BY <1>2, PromotingGood, GoodStepIInv DEF GoodStep
<1>3. CASE \E ids \in IdLists : ReorderTasks(ids)
  BY <1>3, ReorderGood, GoodStepIInv DEF GoodStep
<1>4. CASE MorningRitual \/ MorningDies
  BY <1>4, MorningGood, GoodStepIInv DEF GoodStep
<1>5. CASE EveningRitual
  BY <1>5, EveningGood, GoodStepIInv DEF GoodStep
<1>6. CASE NewDay \/ UNCHANGED vars
  <2>1. tasks' = tasks /\ (journal' = journal \/ journal' = FALSE)
    BY <1>6 DEF NewDay, vars
  <2>2. CalmIInv'
    BY <2>1 DEF CalmIInv, TypeOK, OnlyOneNow, With, Exists
  <2>3. Kept(tasks, tasks')
    BY <2>1 DEF Kept, With
  <2> QED
    BY <2>2, <2>3
<1> QED
  BY <1>1, <1>2, <1>3, <1>4, <1>5, <1>6 DEF Next

\* The initial rows are in order.
LEMMA InitCalmIInv == Init => CalmIInv
<1> SUFFICES ASSUME Init PROVE CalmIInv
  OBVIOUS
<1> DEFINE row == [NewTask(FALSE) EXCEPT !.state = "none"]
<1>a. \A mit \in BOOLEAN : NewTask(mit) \in Task
  BY CalmAssumption DEF CalmAssumption, NewTask, Task, TaskStates, Active
<1>b. NewTask(FALSE) \in Task
  BY <1>a, Zenon
<1>c. "none" \in TaskStates
  BY DEF TaskStates
<1>1. row \in Task /\ row.state = "none"
  BY <1>b, <1>c DEF Task
<1>2. tasks = [t \in Ids |-> row] /\ journal = FALSE
  BY DEF Init
<1> HIDE DEF row
<1> QED
  BY <1>1, <1>2 DEF CalmIInv, TypeOK, OnlyOneNow, With, Exists

-----------------------------------------------------------------------------
(* What a promotion leaves open.                                           *)

\* Among some rows one comes first.
LEMMA FirstExists ==
    ASSUME NEW ts, Rows(ts), NEW T \in SUBSET Ids, T # {}
    PROVE  FirstOf(ts, T) # {}
<1> DEFINE Mits == {t \in T : ts[t].is_mit}
<1>0. \A t \in T : ts[t].sort_order \in Nat
  BY CalmAssumption DEF Rows, Task, CalmAssumption
<1>1. ASSUME NEW U \in SUBSET T, U # {}
      PROVE  \E t \in U : \A u \in U : ts[t].sort_order <= ts[u].sort_order
  <2> DEFINE Orders == {ts[u].sort_order : u \in U}
  <2>1. Orders \in SUBSET Nat /\ Orders # {}
    BY <1>0, <1>1
  <2>2. PICK x \in Orders : \A y \in Orders : x <= y
    <3> HIDE DEF Orders
    <3> QED
      BY <2>1, Smallest
  <2>3. PICK t \in U : x = ts[t].sort_order
    BY <2>2
  <2> QED
    BY <2>2, <2>3
<1>2. CASE Mits # {}
  <2>1. PICK t \in Mits : \A u \in Mits : ts[t].sort_order <= ts[u].sort_order
    BY <1>1, <1>2
  <2>2. \A u \in T : (ts[u].is_mit /\ ts[t].sort_order <= ts[u].sort_order)
                     \/ ~ts[u].is_mit
    BY <2>1
  <2>3. t \in T /\ ts[t].is_mit
    BY <2>1
  <2>4. \A u \in T : ts[u].is_mit => ts[t].is_mit = ts[u].is_mit
    <3>1. ts[t].is_mit \in BOOLEAN /\ \A u \in T : ts[u].is_mit \in BOOLEAN
      BY <2>3 DEF Rows, Task
    <3> QED
      BY <2>3, <3>1, Zenon
  <2> QED
    BY <2>2, <2>3, <2>4, Zenon DEF FirstOf, Precedes
<1>3. CASE Mits = {}
  <2>1. PICK t \in T : \A u \in T : ts[t].sort_order <= ts[u].sort_order
    BY <1>1
  <2>2. \A u \in T : ts[u].is_mit \in BOOLEAN /\ ~ts[u].is_mit
    BY <1>3 DEF Rows, Task
  <2>3. \A u \in T : ts[t].is_mit = ts[u].is_mit
    BY <2>2, Zenon
  <2> QED
    BY <2>1, <2>3, Zenon DEF FirstOf, Precedes
<1> QED
  BY <1>2, <1>3

\* Filling NOW uses a NEXT task if there is one.
LEMMA NowFilled ==
    ASSUME NEW ts, Rows(ts), NEW vs \in FillNow(ts), With(ts, "NEXT") # {}
    PROVE  With(vs, "NOW") # {}
<1>1. CASE With(ts, "NOW") # {}
  BY <1>1 DEF FillNow, Fill
<1>2. CASE With(ts, "NOW") = {}
  <2>1. PICK t \in With(ts, "NEXT") : vs = Put(ts, t, "NOW")
    BY <1>2 DEF FillNow, Fill
  <2>2. t \in Ids /\ "NOW" \in TaskStates
    BY DEF With, TaskStates, Active
  <2>3. Put(ts, t, "NOW")[t].state = "NOW"
    BY <2>2, PutRows
  <2> QED
    BY <2>1, <2>2, <2>3 DEF With
<1> QED
  BY <1>1, <1>2

\* Filling NEXT leaves the NOW task alone, and LATER tasks only with a NEXT one.
LEMMA NextFilled ==
    ASSUME NEW ts, Rows(ts), NEW vs \in FillNext(ts)
    PROVE  /\ With(ts, "NOW") # {} => With(vs, "NOW") # {}
           /\ With(vs, "LATER") # {} => With(vs, "NEXT") # {}
<1> DEFINE first == FirstOf(ts, With(ts, "LATER"))
<1>1. CASE With(ts, "NEXT") # {}
  <2>1. vs = ts
    BY <1>1 DEF FillNext, Fill
  <2> QED
    BY <1>1, <2>1
<1>2. CASE With(ts, "NEXT") = {} /\ first = {}
  <2>1. vs = ts
    BY <1>2 DEF FillNext, Fill
  <2>2. With(ts, "LATER") \in SUBSET Ids
    BY DEF With
  <2>3. With(ts, "LATER") = {}
    BY <1>2, <2>2, FirstExists
  <2> QED
    BY <2>1, <2>3
<1>3. CASE With(ts, "NEXT") = {} /\ first # {}
  <2>1. PICK t \in With(ts, "LATER") : vs = Put(ts, t, "NEXT")
    BY <1>3 DEF FillNext, Fill, FirstOf
  <2>2. t \in Ids /\ ts[t].state = "LATER" /\ "NEXT" \in TaskStates
    BY <2>1 DEF With, TaskStates, Active
  <2>3. /\ vs[t].state = "NEXT"
        /\ \A u \in Ids \ {t} : vs[u] = ts[u]
    BY <2>1, <2>2, PutRows
  <2> QED
    BY <2>2, <2>3 DEF With
<1> QED
  BY <1>1, <1>2, <1>3

\* promote_tasks() leaves no place open that it could have filled.
LEMMA PromotedFills ==
    ASSUME NEW ts, Rows(ts), OneNow(ts), NEW vs \in Promoted(ts)
    PROVE  /\ With(ts, "NEXT") # {} => With(vs, "NOW") # {}
           /\ With(vs, "LATER") # {} => With(vs, "NEXT") # {}
<1>1. PICK us \in DemoteExtras(ts) : \E ws \in FillNow(us) : vs \in FillNext(ws)
  BY DEF Promoted
<1>2. us = ts
  BY <1>1, NoExtras
<1>3. PICK ws \in FillNow(ts) : vs \in FillNext(ws)
  BY <1>1, <1>2
<1>4. Rows(ws)
  BY <1>3, FillNowOK DEF GoodPromotion
<1> QED
  BY <1>3, <1>4, NowFilled, NextFilled

\* What a request has written before its promotion: the other NEXT tasks still are.
LEMMA OthersStayNext ==
    ASSUME CalmIInv, NEW t \in Ids, Exists(t),
           NEW us \in Started(t) \cup {Put(tasks, t, "DONE"), Put(tasks, t, "DEFERRED")}
    PROVE  With(tasks, "NEXT") \ {t} \subseteq With(us, "NEXT")
<1>0. Rows(tasks) /\ {"NOW", "NEXT", "DONE", "DEFERRED"} \subseteq TaskStates
  BY IInvRows DEF TaskStates, Active
<1>1. ASSUME NEW state \in TaskStates
      PROVE  With(tasks, "NEXT") \ {t} \subseteq With(Put(tasks, t, state), "NEXT")
  <2>1. \A u \in Ids \ {t} : Put(tasks, t, state)[u] = tasks[u]
    BY <1>0, PutRows
  <2> QED
    BY <2>1 DEF With
<1>2. CASE \E state \in TaskStates : us = Put(tasks, t, state)
  BY <1>1, <1>2
<1>3. CASE \E n \in With(tasks, "NOW") : us = Put(Put(tasks, n, "NEXT"), t, "NOW")
  <2>1. PICK n \in With(tasks, "NOW") : us = Put(Put(tasks, n, "NEXT"), t, "NOW")
    BY <1>3
  <2>2. n \in Ids
    BY DEF With
  <2> DEFINE vs == Put(tasks, n, "NEXT")
  <2>3. Rows(vs) /\ vs[n].state = "NEXT" /\ \A u \in Ids \ {n} : vs[u] = tasks[u]
    BY <1>0, <2>2, PutRows
  <2>4. us = Put(vs, t, "NOW")
    BY <2>1
  <2> HIDE DEF vs
  <2>a. t \in Ids /\ "NOW" \in TaskStates
    BY <1>0
  <2>b. Rows(vs)
    BY <2>3
  <2>c. \A u \in Ids \ {t} : Put(vs, t, "NOW")[u] = vs[u]
    BY <2>a, <2>b, PutRows
  <2>5. \A u \in Ids \ {t} : us[u] = vs[u]
    BY <2>4, <2>c
  <2> QED
    BY <2>3, <2>5 DEF With
<1>4. us \in Started(t) => \/ us = Put(tasks, t, "NOW")
                           \/ \E n \in With(tasks, "NOW") :
                                 us = Put(Put(tasks, n, "NEXT"), t, "NOW")
  BY DEF Started
<1> QED
  BY <1>0, <1>2, <1>3, <1>4

\* A request that promotes fills the places.
LEMMA PromotingFills ==
    ASSUME CalmIInv, NEW t \in Ids, StartTask(t) \/ CompleteTask(t) \/ DeferTask(t)
    PROVE  /\ With(tasks, "NEXT") \ {t} # {} => With(tasks', "NOW") # {}
           /\ With(tasks', "LATER") # {} => With(tasks', "NEXT") # {}
<1>0. Exists(t)
  BY DEF StartTask, CompleteTask, DeferTask
<1>1. PICK us \in Started(t) \cup {Put(tasks, t, "DONE"), Put(tasks, t, "DEFERRED")} :
         tasks' \in Promoted(us)
  BY DEF StartTask, CompleteTask, DeferTask
<1>2. Rows(us) /\ OneNow(us)
  BY <1>0, PutOK, StartedOK
<1>3. /\ With(us, "NEXT") # {} => With(tasks', "NOW") # {}
      /\ With(tasks', "LATER") # {} => With(tasks', "NEXT") # {}
  BY <1>1, <1>2, PromotedFills
<1> QED
  BY <1>0, <1>3, OthersStayNext

-----------------------------------------------------------------------------
(* The theorems.                                                           *)

\* The rows keep their types and there is never more than one NOW task.
THEOREM FocusInvariant == Spec => []CalmIInv
<1>1. CalmIInv /\ [Next]_vars => CalmIInv'
  BY NextGood
<1> QED
  BY InitCalmIInv, <1>1, PTL DEF Spec

\* The rows of the focus stack keep their types and their ids have no gaps.
THEOREM CalmTypeCorrect == Spec => []TypeOK
<1>1. CalmIInv => TypeOK
  BY DEF CalmIInv
<1> QED
  BY <1>1, FocusInvariant, PTL

\* No sequence of requests and crashes gives the user two NOW tasks.
THEOREM OneNowTask == Spec => []OnlyOneNow
<1>1. CalmIInv => OnlyOneNow
  BY DEF CalmIInv
<1> QED
  BY <1>1, FocusInvariant, PTL

\* A NOW task is lost only by being finished, deferred or replaced.
THEOREM FocusKept == Spec => FocusIsKept
<1>1. CalmIInv /\ [Next]_vars =>
         [\A t \in With(tasks, "NOW") :
             \/ tasks'[t].state \in {"NOW", "DONE", "DEFERRED"}
             \/ tasks'[t].state = "NEXT" /\ \E u \in Ids \ {t} : tasks'[u].state = "NOW"]_vars
  BY NextGood DEF Kept
<1> QED
  BY <1>1, FocusInvariant, PTL DEF Spec, FocusIsKept

\* A request that promotes leaves no place open that it could have filled.
THEOREM PlacesFilled == Spec => PromotionFillsPlaces
<1> DEFINE Filled(t) == /\ With(tasks, "NEXT") \ {t} # {} => With(tasks', "NOW") # {}
                        /\ With(tasks', "LATER") # {} => With(tasks', "NEXT") # {}
<1>1. CalmIInv =>
         [\A t \in Ids :
             \/ Filled(t)
             \/ ~(StartTask(t) \/ CompleteTask(t) \/ DeferTask(t))
             \/ DiesBeforePromotion(t)]_vars
  BY PromotingFills
<1> QED
  BY <1>1, FocusInvariant, PTL DEF Spec, PromotionFillsPlaces

----------------------------------------------------------------------------
(***************************************************************************)
(* The briefing, for any set of items, any freshness and any interval      *)
(* between the turns of the scheduler.                                     *)
(***************************************************************************)

\* The items that nobody was told of, although nothing went wrong.
Unnoticed == PendingItems \ (told \cup excused)

\* Such an item came after the latest briefing, and the turn that will notice it
\* comes in time.
Soon == \A i \in Unnoticed : waited[i] <= age /\ waited[i] + sleep < Old

\* An item waits from its creation on.
Created == \A i \in Items : status[i] = "absent" => waited[i] = 0

BriefingIInv == BriefingTypeOK /\ Created /\ Soon

\* Items have a status, and pending ones were created.
LEMMA PendingFacts ==
    /\ PendingItems \subseteq Items
    /\ \A i \in PendingItems : status[i] # "absent"
BY DEF PendingItems

\* The initial state satisfies the invariant.
LEMMA InitBriefingIInv == BriefingInit => BriefingIInv
<1> SUFFICES ASSUME BriefingInit PROVE BriefingIInv
  OBVIOUS
<1>1. PendingItems = {}
  BY DEF BriefingInit, PendingItems
<1>2. Old \in Nat
  BY BriefingAssumption DEF Old
<1>3. BriefingTypeOK
  BY <1>1, <1>2, BriefingAssumption DEF BriefingInit, BriefingTypeOK
<1>4. Created /\ Soon
  BY <1>1 DEF BriefingInit, Created, Soon, Unnoticed
<1> QED
  BY <1>3, <1>4 DEF BriefingIInv

\* A step that tells of some of the pending items and excuses the others, in
\* whatever way it changes the rest.
LEMMA NoticedIInv ==
    ASSUME BriefingIInv, PendingItems \subseteq told' \cup excused',
           told' \subseteq told \cup PendingItems, excused' \subseteq excused \cup PendingItems,
           told \subseteq told', excused \subseteq excused',
           age' \in 0 .. Old, up' \in BOOLEAN, sleep' \in 0 .. Interval, ~up' => sleep' = 0,
           cards' \subseteq cards \cup PendingItems,
           UNCHANGED <<status, waited>>
    PROVE  BriefingIInv'
<1>1. Unnoticed' = {} /\ PendingItems' = PendingItems
  BY DEF Unnoticed, PendingItems
<1>2. BriefingTypeOK'
  BY <1>1, PendingFacts DEF BriefingIInv, BriefingTypeOK, Old
<1>3. Created' /\ Soon'
  BY <1>1 DEF BriefingIInv, Created, Soon
<1> QED
  BY <1>2, <1>3 DEF BriefingIInv

----------------------------------------------------------------------------
\* The turns of the scheduler that find no fresh briefing or fail.
LEMMA TurnIInv == ASSUME BriefingIInv, Turn \/ TurnFails \/ DiesBeforeNotice PROVE BriefingIInv'
<1> USE DEF Old
<1>1. Interval \in Nat /\ Old \in Nat /\ 0 \in 0 .. Old /\ 0 \in 0 .. Interval /\ Interval \in 0 .. Interval
  BY BriefingAssumption
<1>2. CASE Turn
  <2>1. PICK items \in {PendingItems, {}} :
           /\ told' = told \cup items /\ excused' = excused \cup (PendingItems \ items)
           /\ age' = 0 /\ sleep' = Interval /\ up /\ UNCHANGED <<status, up, cards, waited>>
    BY <1>2 DEF Turn, Generate, NotifyBriefingReady, Excuse, Sleeps, Wakes, ItemsRead
  <2> QED
    BY <1>1, <2>1, NoticedIInv DEF BriefingIInv, BriefingTypeOK
<1>3. CASE TurnFails
  BY <1>1, <1>3, NoticedIInv DEF TurnFails, Wakes, Sleeps, Excuse, table, BriefingIInv, BriefingTypeOK
<1>4. CASE DiesBeforeNotice
  BY <1>1, <1>4, NoticedIInv DEF DiesBeforeNotice, Wakes, Generate, Excuse, BriefingIInv, BriefingTypeOK
<1> QED
  BY <1>2, <1>3, <1>4

\* A turn that is skipped leaves the items of less than a fresh briefing's age to
\* the next one.
LEMMA TurnSkipsIInv == ASSUME BriefingIInv, TurnSkips PROVE BriefingIInv'
<1>1. /\ sleep' = Interval /\ up /\ age < Fresh
      /\ UNCHANGED <<age, status, up, cards, told, waited, excused>>
  BY DEF TurnSkips, Wakes, Sleeps, IsFresh, table
<1>2. BriefingTypeOK'
  BY <1>1, BriefingAssumption DEF BriefingIInv, BriefingTypeOK, PendingItems, Old
<1>3. Created'
  BY <1>1 DEF BriefingIInv, Created
<1>4. ASSUME NEW i \in Unnoticed' PROVE (waited[i] <= age /\ waited[i] + sleep < Old)'
  <2>1. i \in Unnoticed /\ i \in Items
    BY <1>1, <1>4 DEF Unnoticed, PendingItems
  <2>2. waited[i] <= age /\ waited[i] \in Nat /\ age \in Nat
    BY <2>1, BriefingAssumption DEF BriefingIInv, Soon, BriefingTypeOK, Old
  <2> QED
    BY <1>1, <2>2, BriefingAssumption DEF Old
<1> QED
  BY <1>2, <1>3, <1>4 DEF BriefingIInv, Soon

\* The page.
LEMMA PageIInv ==
    ASSUME BriefingIInv, GetBriefing \/ GetApprovals \/ RegenerateBriefing PROVE BriefingIInv'
<1>1. age \in 0 .. Old /\ 0 \in 0 .. Old
  BY BriefingAssumption DEF BriefingIInv, BriefingTypeOK, Old
<1>2. CASE GetBriefing
  <2>1. PICK items \in {PendingItems, {}} :
           /\ told' = told \cup items /\ excused' = excused \cup (PendingItems \ items)
           /\ age' \in {age, 0} /\ UNCHANGED <<status, up, sleep, cards, waited>>
    BY <1>2 DEF GetBriefing, Generate, Excuse, ItemsRead
  <2> QED
    BY <1>1, <2>1, NoticedIInv DEF BriefingIInv, BriefingTypeOK
<1>3. CASE GetApprovals
  BY <1>1, <1>3, NoticedIInv DEF GetApprovals, table, BriefingIInv, BriefingTypeOK
<1>4. CASE RegenerateBriefing
  BY <1>1, <1>4, NoticedIInv DEF RegenerateBriefing, Generate, Excuse, BriefingIInv, BriefingTypeOK
<1> QED
  BY <1>2, <1>3, <1>4

\* An answer makes an item wait no more.
LEMMA AnswerItemIInv ==
    ASSUME BriefingIInv, NEW i \in Items, NEW v \in {"approved", "rejected"}, AnswerItem(i, v)
    PROVE  BriefingIInv'
<1>1. /\ status' = [status EXCEPT ![i] = v] /\ cards' \subseteq cards
      /\ UNCHANGED <<age, up, sleep, told, waited, excused>>
  BY DEF AnswerItem, history
<1>2. PendingItems' \subseteq PendingItems
  BY <1>1 DEF BriefingIInv, BriefingTypeOK, PendingItems
<1>3. BriefingTypeOK'
  BY <1>1, <1>2 DEF BriefingIInv, BriefingTypeOK, Old
<1>4. Created' /\ Soon'
  BY <1>1, <1>2 DEF BriefingIInv, BriefingTypeOK, Created, Soon, Unnoticed, Old
<1> QED
  BY <1>3, <1>4 DEF BriefingIInv

\* An item that is created has not waited.
LEMMA CreateItemIInv == ASSUME BriefingIInv, NEW i \in Items, CreateItem(i) PROVE BriefingIInv'
<1>1. /\ status' = [status EXCEPT ![i] = "pending"] /\ status[i] = "absent"
      /\ UNCHANGED <<age, up, sleep, cards, told, waited, excused>>
  BY DEF CreateItem, history
<1>2. PendingItems' = PendingItems \cup {i} /\ waited[i] = 0
  BY <1>1 DEF BriefingIInv, BriefingTypeOK, PendingItems, Created
<1>3. BriefingTypeOK'
  BY <1>1, <1>2 DEF BriefingIInv, BriefingTypeOK, Old
<1>4. Created'
  BY <1>1 DEF BriefingIInv, BriefingTypeOK, Created
<1>5. ASSUME NEW k \in Unnoticed' PROVE (waited[k] <= age /\ waited[k] + sleep < Old)'
  <2>1. CASE k = i
    BY <1>1, <1>2, <2>1, BriefingAssumption DEF BriefingIInv, BriefingTypeOK, Old
  <2>2. CASE k # i
    BY <1>1, <1>2, <1>5, <2>2 DEF BriefingIInv, Soon, Unnoticed, Old
  <2> QED
    BY <2>1, <2>2
<1> QED
  BY <1>3, <1>4, <1>5 DEF BriefingIInv, Soon

\* The process stops and starts.
LEMMA ProcessIInv == ASSUME BriefingIInv, Stop \/ Start PROVE BriefingIInv'
<1>1. /\ up' \in BOOLEAN /\ sleep' \in {sleep, 0} /\ (~up' => sleep' = 0)
      /\ PendingItems' = PendingItems
      /\ UNCHANGED <<age, status, cards, told, waited>> /\ excused' = excused
  BY DEF Stop, Start, table, history, PendingItems, BriefingIInv, BriefingTypeOK
<1>2. BriefingTypeOK'
  BY <1>1, BriefingAssumption DEF BriefingIInv, BriefingTypeOK, Old
<1>3. Created'
  BY <1>1 DEF BriefingIInv, Created
<1>4. ASSUME NEW i \in Unnoticed' PROVE (waited[i] <= age /\ waited[i] + sleep < Old)'
  <2>1. i \in Unnoticed /\ i \in Items
    BY <1>1, <1>4, PendingFacts DEF Unnoticed
  <2>2. /\ waited[i] <= age /\ waited[i] + sleep < Old
        /\ waited[i] \in Nat /\ sleep \in Nat /\ Old \in Nat
    BY <2>1, BriefingAssumption DEF BriefingIInv, Soon, BriefingTypeOK, Old
  <2> QED
    BY <1>1, <2>2 DEF Old
<1> QED
  BY <1>2, <1>3, <1>4 DEF BriefingIInv, Soon

\* Time passes: the item waits and the turn comes nearer.
LEMMA TickIInv == ASSUME BriefingIInv, Tick PROVE BriefingIInv'
<1>1. /\ age' = Capped(age, Old) /\ sleep' = IF up THEN sleep - 1 ELSE sleep
      /\ waited' = [i \in Items |-> IF i \in PendingItems THEN Capped(waited[i], Old) ELSE waited[i]]
      /\ excused' = excused \cup (IF up THEN {} ELSE PendingItems)
      /\ PendingItems' = PendingItems /\ ~(up /\ sleep = 0)
      /\ UNCHANGED <<status, up, cards, told>>
  BY DEF Tick, Excuse, Wakes, PendingItems
<1>2. Old \in Nat /\ age \in 0 .. Old /\ sleep \in 0 .. Interval /\ waited \in [Items -> 0 .. Old]
  BY BriefingAssumption DEF BriefingIInv, BriefingTypeOK, Old
<1>3. /\ age' \in 0 .. Old /\ sleep' \in 0 .. Interval /\ (~up' => sleep' = 0)
      /\ waited' \in [Items -> 0 .. Old]
  BY <1>1, <1>2, BriefingAssumption DEF Capped, BriefingIInv, BriefingTypeOK
<1>4. BriefingTypeOK'
  BY <1>1, <1>3, PendingFacts DEF BriefingIInv, BriefingTypeOK, Old
<1>5. Created'
  BY <1>1, PendingFacts DEF BriefingIInv, Created
<1>6. ASSUME NEW i \in Unnoticed' PROVE (waited[i] <= age /\ waited[i] + sleep < Old)'
  <2>1. i \in Unnoticed /\ i \in Items /\ up /\ i \in PendingItems
    BY <1>1, <1>6, PendingFacts DEF Unnoticed
  <2>2. waited[i] <= age /\ waited[i] + sleep < Old
    BY <2>1 DEF BriefingIInv, Soon
  <2>3. /\ waited'[i] = Capped(waited[i], Old) /\ sleep' = sleep - 1
    BY <1>1, <2>1
  <2> QED
    BY <1>1, <1>2, <2>1, <2>2, <2>3, BriefingAssumption DEF Capped, Old
<1> QED
  BY <1>4, <1>5, <1>6 DEF BriefingIInv, Soon

----------------------------------------------------------------------------
\* Every step keeps the invariant.
LEMMA NextBriefingIInv == BriefingIInv /\ [BriefingNext]_briefingVars => BriefingIInv'
<1> SUFFICES ASSUME BriefingIInv, [BriefingNext]_briefingVars PROVE BriefingIInv'
  OBVIOUS
<1>1. CASE UNCHANGED briefingVars
  BY <1>1 DEF briefingVars, table, history, BriefingIInv, BriefingTypeOK, Created, Soon, Unnoticed,
              PendingItems, Old
<1> QED
  BY <1>1, TurnIInv, TurnSkipsIInv, PageIInv, AnswerItemIInv, CreateItemIInv, ProcessIInv, TickIInv
     DEF BriefingNext

\* The inductive invariant holds in every reachable state.
THEOREM BriefingInvariant == BriefingSpec => []BriefingIInv
BY InitBriefingIInv, NextBriefingIInv, PTL DEF BriefingSpec

\* The types are right, and only items that were created have buttons and notices.
THEOREM BriefingTypeCorrect == BriefingSpec => []BriefingTypeOK
<1>1. BriefingIInv => BriefingTypeOK
  BY DEF BriefingIInv
<1> QED
  BY <1>1, BriefingInvariant, PTL

\* Whatever the freshness and the interval, an item that met no fault is announced
\* before it has waited for both.
THEOREM PendingAnnounced == BriefingSpec => []PendingIsAnnounced
<1>1. BriefingIInv => PendingIsAnnounced
  <2> SUFFICES ASSUME BriefingIInv, NEW i \in PendingItems \ (told \cup excused)
               PROVE  waited[i] < Fresh + Interval
    BY DEF PendingIsAnnounced
  <2>1. waited[i] + sleep < Old /\ waited[i] \in Nat /\ sleep \in Nat
    BY PendingFacts, BriefingAssumption DEF BriefingIInv, Soon, Unnoticed, BriefingTypeOK, Old
  <2> QED
    BY <2>1, BriefingAssumption DEF Old
<1> QED
  BY <1>1, BriefingInvariant, PTL

----------------------------------------------------------------------------
(***************************************************************************)
(* The agentic loops, for any number of loops, any nesting of them, any    *)
(* number of threads and any length of a plan.                             *)
(***************************************************************************)

\* The steps that records are about, and records without a failure.
Steps(s) == {s[i][1] : i \in DOMAIN s}
Unfailed(s) == \A i \in DOMAIN s : s[i][2] # "failed"

\* Every step before the current one has a record, and every step at the end.
StepsSoFar(l) ==
    /\ phase[l] \in {"step", "adapting"} =>
           current[l] > 0 /\ 1 .. current[l] - 1 \subseteq Steps(records[l])
    /\ phase[l] = "summing" => 1 .. Total(l) \subseteq Steps(records[l])

\* Unless one failed, the plan and every step before the current one were broadcast.
ToldSoFar(l) ==
    /\ phase[l] \in {"unused", "planning"} => announced[l] = <<>>
    /\ phase[l] \in {"step", "adapting"} /\ Unfailed(records[l]) =>
           Len(announced[l]) = current[l]
    /\ phase[l] = "summing" /\ Unfailed(records[l]) => Len(announced[l]) = Total(l) + 1

\* What CompletedMeansAllSteps says of one loop.
CompletedOK(l) ==
    outcome[l] = "completed" =>
        /\ 1 .. planned[l] \subseteq Steps(records[l])
        /\ Unfailed(records[l])
        /\ Len(announced[l]) = planned[l] + 2

LoopOK(l) == StepsSoFar(l) /\ ToldSoFar(l) /\ CompletedOK(l)

LoopsIInv == LoopsTypeOK /\ \A l \in Loops : LoopOK(l)

----------------------------------------------------------------------------
\* More records are about more steps, and none of them failed if none of all did.
LEMMA ConcatRecords ==
    ASSUME NEW s \in Seq(Nat \X Statuses), NEW t \in Seq(Nat \X Statuses)
    PROVE  /\ s \o t \in Seq(Nat \X Statuses)
           /\ Steps(s) \subseteq Steps(s \o t) /\ Steps(t) \subseteq Steps(s \o t)
           /\ Unfailed(s \o t) => Unfailed(s) /\ Unfailed(t)
<1>1. s \o t \in Seq(Nat \X Statuses)
  OBVIOUS
<1>2. ASSUME NEW i \in DOMAIN s
      PROVE  i \in DOMAIN (s \o t) /\ (s \o t)[i] = s[i]
  OBVIOUS
<1>3. ASSUME NEW i \in DOMAIN t
      PROVE  Len(s) + i \in DOMAIN (s \o t) /\ (s \o t)[Len(s) + i] = t[i]
  OBVIOUS
<1>4. Steps(s) \subseteq Steps(s \o t)
  BY <1>2 DEF Steps
<1>5. Steps(t) \subseteq Steps(s \o t)
  BY <1>3 DEF Steps
<1>6. Unfailed(s \o t) => Unfailed(s) /\ Unfailed(t)
  BY <1>2, <1>3 DEF Unfailed
<1> QED
  BY <1>1, <1>4, <1>5, <1>6

\* The records of one step n.
LEMMA StepRecords ==
    ASSUME NEW n \in Nat, NEW x \in Seq(Statuses), Len(x) > 0, NEW t,
           t = [j \in DOMAIN x |-> <<n, x[j]>>]
    PROVE  /\ t \in Seq(Nat \X Statuses)
           /\ n \in Steps(t)
           /\ Unfailed(t) => x[Len(x)] # "failed"
<1>1. DOMAIN x = 1 .. Len(x) /\ Len(x) \in Nat /\ \A j \in DOMAIN x : x[j] \in Statuses
  OBVIOUS
<1>2. t \in Seq(Nat \X Statuses) /\ DOMAIN t = 1 .. Len(x)
  BY <1>1
<1>3. Len(x) \in DOMAIN t /\ t[Len(x)] = <<n, x[Len(x)]>>
  BY <1>1
<1> QED
  BY <1>2, <1>3 DEF Steps, Unfailed

\* The initial state satisfies the invariant.
LEMMA InitLoopsIInv == LoopsInit => LoopsIInv
<1> SUFFICES ASSUME LoopsInit PROVE LoopsIInv
  OBVIOUS
<1>1. LoopsTypeOK
  <2>1. \A l \in Loops : Total(l) = 0
    BY LoopAssumption DEF LoopsInit, Total
  <2>2. 0 \in 0 .. MaxPlanned
    BY LoopAssumption
  <2> QED
    BY <2>1, <2>2 DEF LoopsInit, LoopsTypeOK, Outcomes
<1>2. \A l \in Loops : LoopOK(l)
  BY DEF LoopsInit, LoopOK, StepsSoFar, ToldSoFar, CompletedOK
<1> QED
  BY <1>1, <1>2 DEF LoopsIInv

\* What a step of loop l leaves alone: every loop but l keeps its part.
LEMMA OthersKeep ==
    ASSUME LoopsIInv, NEW l \in Loops,
           NEW p, NEW r, NEW a, NEW o, NEW c,
           phase' = [phase EXCEPT ![l] = p], records' = [records EXCEPT ![l] = r],
           announced' = [announced EXCEPT ![l] = a], outcome' = [outcome EXCEPT ![l] = o],
           current' = [current EXCEPT ![l] = c],
           \A k \in Loops \ {l} : planned'[k] = planned[k]
    PROVE  \A k \in Loops \ {l} :
              /\ LoopOK(k)' /\ Total(k)' = Total(k)
              /\ (k \in ActiveLoops)' = (k \in ActiveLoops)
              /\ current'[k] <= Total(k)' /\ (outcome'[k] = "none") = (phase'[k] # "ended")
<1> SUFFICES ASSUME NEW k \in Loops \ {l}
             PROVE  /\ LoopOK(k)' /\ Total(k)' = Total(k)
                    /\ (k \in ActiveLoops)' = (k \in ActiveLoops)
                    /\ current'[k] <= Total(k)'
                    /\ (outcome'[k] = "none") = (phase'[k] # "ended")
  OBVIOUS
<1>1. /\ phase'[k] = phase[k] /\ records'[k] = records[k] /\ announced'[k] = announced[k]
      /\ outcome'[k] = outcome[k] /\ planned'[k] = planned[k] /\ current'[k] = current[k]
  BY DEF LoopsIInv, LoopsTypeOK
<1>2. LoopOK(k) /\ current[k] <= Total(k) /\ (outcome[k] = "none") = (phase[k] # "ended")
  BY DEF LoopsIInv, LoopsTypeOK
<1>3. Total(k)' = Total(k)
  BY <1>1 DEF Total
<1>4. StepsSoFar(k)'
  BY <1>1, <1>2, <1>3 DEF LoopOK, StepsSoFar
<1>5. ToldSoFar(k)'
  BY <1>1, <1>2, <1>3 DEF LoopOK, ToldSoFar
<1>6. CompletedOK(k)'
  BY <1>1, <1>2 DEF LoopOK, CompletedOK
<1> QED
  BY <1>1, <1>2, <1>3, <1>4, <1>5, <1>6 DEF LoopOK, ActiveLoops

\* A step that gives loop l values of the right types and leaves it fine keeps
\* the invariant.
LEMMA StepKeeps ==
    ASSUME LoopsIInv, NEW l \in Loops,
           NEW p \in Phases \cup {"unused", "ended"}, NEW r \in Seq(Nat \X Statuses),
           NEW a \in Seq(Broadcasts), NEW o \in Outcomes, NEW c \in Nat,
           phase' = [phase EXCEPT ![l] = p], records' = [records EXCEPT ![l] = r],
           announced' = [announced EXCEPT ![l] = a], outcome' = [outcome EXCEPT ![l] = o],
           current' = [current EXCEPT ![l] = c],
           planned' \in [Loops -> 0 .. MaxPlanned],
           \A k \in Loops \ {l} : planned'[k] = planned[k],
           origin' \in [Loops -> Loops \cup {"none", "thread", "server"}],
           running' \subseteq ActiveLoops',
           LoopOK(l)', c <= Total(l)', (o = "none") = (p # "ended")
    PROVE  LoopsIInv'
<1>1. \A k \in Loops \ {l} :
        LoopOK(k)' /\ current'[k] <= Total(k)' /\ (outcome'[k] = "none") = (phase'[k] # "ended")
  BY OthersKeep
<1>2. current'[l] = c /\ outcome'[l] = o /\ phase'[l] = p
  BY DEF LoopsIInv, LoopsTypeOK
<1>3. \A k \in Loops : current'[k] <= Total(k)' /\ (outcome'[k] = "none") = (phase'[k] # "ended")
  BY <1>1, <1>2
<1>4. /\ phase' \in [Loops -> Phases \cup {"unused", "ended"}]
      /\ outcome' \in [Loops -> Outcomes] /\ current' \in [Loops -> Nat]
      /\ records' \in [Loops -> Seq(Nat \X Statuses)] /\ announced' \in [Loops -> Seq(Broadcasts)]
  BY DEF LoopsIInv, LoopsTypeOK
<1> QED
  BY <1>1, <1>3, <1>4 DEF LoopsIInv, LoopsTypeOK

\* While the call of loop l returns, the loop is under way and has a thread no more.
LEMMA ReturnsKeeps ==
    ASSUME LoopsIInv, NEW l \in Loops, NEW p \in Phases, Returns(l, p),
           NEW q, phase' = [phase EXCEPT ![l] = q]
    PROVE  /\ phase[l] = p /\ outcome[l] = "none"
           /\ running' \subseteq ActiveLoops'
<1>1. phase[l] = p /\ running' = running \ {l}
  BY DEF Returns
<1>2. outcome[l] = "none"
  BY <1>1 DEF LoopsIInv, LoopsTypeOK, Phases
<1>3. ASSUME NEW k \in running, k # l PROVE k \in ActiveLoops'
  <2>1. k \in Loops /\ phase[k] \in Phases
    BY <1>3 DEF LoopsIInv, LoopsTypeOK, ActiveLoops
  <2>2. phase'[k] = phase[k]
    BY <1>3, <2>1 DEF LoopsIInv, LoopsTypeOK
  <2> QED
    BY <2>1, <2>2 DEF ActiveLoops
<1> QED
  BY <1>1, <1>2, <1>3

\* A plan within its bounds has a step at least.
LEMMA TotalBounds ==
    ASSUME NEW l \in Loops, planned \in [Loops -> 0 .. MaxPlanned]
    PROVE  /\ Total(l) \in Nat /\ Total(l) <= planned[l]
           /\ planned[l] > 0 => Total(l) > 0
BY LoopAssumption DEF Total

----------------------------------------------------------------------------
\* A call of the tool begins a loop.
LEMMA PlanAndExecuteIInv == ASSUME LoopsIInv, NEW l \in Loops, PlanAndExecute(l) PROVE LoopsIInv'
<1>1. /\ phase' = [phase EXCEPT ![l] = "planning"] /\ phase[l] = "unused"
      /\ records' = [records EXCEPT ![l] = records[l]] /\ announced' = [announced EXCEPT ![l] = announced[l]]
      /\ outcome' = [outcome EXCEPT ![l] = outcome[l]] /\ planned' = planned /\ running' = running
      /\ current' = [current EXCEPT ![l] = current[l]]
  BY DEF PlanAndExecute, LoopsIInv, LoopsTypeOK
<1>2. origin' \in [Loops -> Loops \cup {"none", "thread", "server"}]
  BY DEF PlanAndExecute, LoopsIInv, LoopsTypeOK, ActiveLoops
<1>3. running' \subseteq ActiveLoops'
  BY <1>1 DEF LoopsIInv, LoopsTypeOK, ActiveLoops, Phases
<1>4. outcome[l] = "none" /\ LoopOK(l) /\ current[l] <= Total(l) /\ Total(l)' = Total(l)
  BY <1>1 DEF LoopsIInv, LoopsTypeOK, Total
<1>5. /\ phase'[l] = "planning" /\ records'[l] = records[l] /\ announced'[l] = announced[l]
      /\ outcome'[l] = outcome[l]
  BY <1>1 DEF LoopsIInv, LoopsTypeOK
<1>6. LoopOK(l)'
  BY <1>1, <1>4, <1>5 DEF LoopOK, StepsSoFar, ToldSoFar, CompletedOK
<1>7. /\ "planning" \in Phases /\ records[l] \in Seq(Nat \X Statuses) /\ announced[l] \in Seq(Broadcasts)
      /\ outcome[l] \in Outcomes /\ current[l] \in Nat /\ planned' \in [Loops -> 0 .. MaxPlanned]
      /\ \A k \in Loops \ {l} : planned'[k] = planned[k]
  BY <1>1 DEF LoopsIInv, LoopsTypeOK, Phases
<1>8. outcome[l] = "none" /\ current[l] <= Total(l)'
  BY <1>4
<1>9. "planning" \in Phases \cup {"unused", "ended"} /\ (outcome[l] = "none") = ("planning" # "ended")
  BY <1>7, <1>8
<1>10. /\ phase' = [phase EXCEPT ![l] = "planning"] /\ records' = [records EXCEPT ![l] = records[l]]
       /\ announced' = [announced EXCEPT ![l] = announced[l]]
       /\ outcome' = [outcome EXCEPT ![l] = outcome[l]] /\ current' = [current EXCEPT ![l] = current[l]]
  BY <1>1
<1> QED
  BY <1>2, <1>3, <1>6, <1>7, <1>8, <1>9, <1>10, StepKeeps

\* A thread for a call changes nothing else.
LEMMA ToThreadIInv == ASSUME LoopsIInv, NEW l \in Loops, ToThread(l) PROVE LoopsIInv'
<1>1. running' \subseteq ActiveLoops
  BY DEF ToThread, LoopsIInv, LoopsTypeOK
<1> QED
  BY <1>1 DEF ToThread, LoopsIInv, LoopsTypeOK, LoopOK, StepsSoFar, ToldSoFar, CompletedOK, Total, ActiveLoops

\* A loop that ends without "completed" has nothing to account for.
LEMMA EndIInv ==
    ASSUME LoopsIInv, NEW l \in Loops, NEW p \in Phases, Returns(l, p),
           NEW o \in {"failed", "raised"}, EndsAs(l, o),
           UNCHANGED <<origin, planned, current, records, announced>>
    PROVE  LoopsIInv'
<1>1. /\ phase' = [phase EXCEPT ![l] = "ended"] /\ outcome' = [outcome EXCEPT ![l] = o]
      /\ records' = [records EXCEPT ![l] = records[l]] /\ announced' = [announced EXCEPT ![l] = announced[l]]
      /\ current' = [current EXCEPT ![l] = current[l]]
      /\ planned' = planned /\ origin' = origin
  BY DEF EndsAs, LoopsIInv, LoopsTypeOK
<1>2. running' \subseteq ActiveLoops'
  BY <1>1, ReturnsKeeps
<1>3. phase'[l] = "ended" /\ outcome'[l] = o
  BY <1>1 DEF LoopsIInv, LoopsTypeOK
<1>4. LoopOK(l)'
  BY <1>3 DEF LoopOK, StepsSoFar, ToldSoFar, CompletedOK
<1>5. /\ records[l] \in Seq(Nat \X Statuses) /\ announced[l] \in Seq(Broadcasts)
      /\ o \in Outcomes /\ current[l] \in Nat /\ planned' \in [Loops -> 0 .. MaxPlanned]
      /\ \A k \in Loops \ {l} : planned'[k] = planned[k]
      /\ origin' \in [Loops -> Loops \cup {"none", "thread", "server"}]
      /\ current[l] <= Total(l)'
  BY <1>1 DEF LoopsIInv, LoopsTypeOK, Outcomes, Total
<1>6. (o = "none") = ("ended" # "ended")
  OBVIOUS
<1> QED
  BY <1>1, <1>2, <1>4, <1>5, <1>6, StepKeeps

\* A plan has a step, and nothing but the plan was broadcast.
LEMMA PlanIsReadyIInv == ASSUME LoopsIInv, NEW l \in Loops, PlanIsReady(l) PROVE LoopsIInv'
<1>1. PICK n \in 1 .. MaxPlanned : planned' = [planned EXCEPT ![l] = n]
  BY DEF PlanIsReady
<1>2. /\ phase' = [phase EXCEPT ![l] = "step"] /\ outcome' = [outcome EXCEPT ![l] = outcome[l]]
      /\ records' = [records EXCEPT ![l] = records[l]]
      /\ announced' = [announced EXCEPT ![l] = Append(announced[l], "plan_ready")]
      /\ current' = [current EXCEPT ![l] = 1]
      /\ origin' = origin
  BY DEF PlanIsReady, Tells, LoopsIInv, LoopsTypeOK
<1>3. phase[l] = "planning" /\ outcome[l] = "none" /\ running' \subseteq ActiveLoops'
  BY <1>2, ReturnsKeeps DEF PlanIsReady, Phases
<1>4. announced[l] = <<>>
  BY <1>3 DEF LoopsIInv, LoopOK, ToldSoFar
<1>5. /\ phase'[l] = "step" /\ outcome'[l] = "none" /\ current'[l] = 1
      /\ announced'[l] = <<"plan_ready">> /\ planned'[l] = n
  BY <1>1, <1>2, <1>3, <1>4 DEF LoopsIInv, LoopsTypeOK
<1>6. planned' \in [Loops -> 0 .. MaxPlanned] /\ \A k \in Loops \ {l} : planned'[k] = planned[k]
  BY <1>1, LoopAssumption DEF LoopsIInv, LoopsTypeOK
<1>7. 1 <= Total(l)' /\ Total(l)' \in Nat
  BY <1>5, LoopAssumption DEF Total
<1>8. LoopOK(l)'
  BY <1>5 DEF LoopOK, StepsSoFar, ToldSoFar, CompletedOK
<1>9. /\ Append(announced[l], "plan_ready") \in Seq(Broadcasts) /\ records[l] \in Seq(Nat \X Statuses)
      /\ origin' \in [Loops -> Loops \cup {"none", "thread", "server"}]
  BY <1>2 DEF LoopsIInv, LoopsTypeOK, Broadcasts
<1>10. "step" \in Phases \cup {"unused", "ended"} /\ outcome[l] \in Outcomes /\ 1 \in Nat
  BY <1>3 DEF Phases, Outcomes
<1>11. (outcome[l] = "none") = ("step" # "ended")
  BY <1>3
<1> QED
  BY <1>2, <1>3, <1>6, <1>7, <1>8, <1>9, <1>10, <1>11, StepKeeps

\* A step that is done with, and broadcast unless it failed.
LEMMA RecordIInv ==
    ASSUME LoopsIInv, NEW l \in Loops, NEW p \in {"step", "adapting"}, Returns(l, p),
           NEW x \in Seq(Statuses), Len(x) > 0, Records(l, x), NextStep(l), NEW a \in Seq(Broadcasts),
           announced' = [announced EXCEPT ![l] = a],
           x[Len(x)] # "failed" => Len(a) = Len(announced[l]) + 1,
           UNCHANGED <<origin, planned, outcome>>
    PROVE  LoopsIInv'
<1>1. records[l] \in Seq(Nat \X Statuses) /\ current[l] \in Nat /\ announced[l] \in Seq(Broadcasts)
  BY DEF LoopsIInv, LoopsTypeOK
<1>2. PICK t : t = [j \in DOMAIN x |-> <<current[l], x[j]>>]
  OBVIOUS
<1>3. /\ t \in Seq(Nat \X Statuses) /\ current[l] \in Steps(t)
      /\ Unfailed(t) => x[Len(x)] # "failed"
  BY <1>1, <1>2, StepRecords
<1>4. PICK r : r = records[l] \o t
  OBVIOUS
<1>5. /\ r \in Seq(Nat \X Statuses)
      /\ Steps(records[l]) \subseteq Steps(r) /\ current[l] \in Steps(r)
      /\ Unfailed(r) => Unfailed(records[l]) /\ Unfailed(t)
  BY <1>1, <1>3, <1>4, ConcatRecords
<1>6. PICK q : q = IF current[l] = Total(l) THEN "summing" ELSE "step"
  OBVIOUS
<1>7. PICK c : c = IF current[l] = Total(l) THEN current[l] ELSE current[l] + 1
  OBVIOUS
<1>8. /\ phase' = [phase EXCEPT ![l] = q] /\ outcome' = [outcome EXCEPT ![l] = outcome[l]]
      /\ records' = [records EXCEPT ![l] = r] /\ planned' = planned /\ origin' = origin
      /\ current' = [current EXCEPT ![l] = c]
  BY <1>2, <1>4, <1>6, <1>7 DEF Records, NextStep, LoopsIInv, LoopsTypeOK
<1>9. p \in Phases /\ q \in Phases
  BY <1>6 DEF Phases
<1>10. phase[l] = p /\ outcome[l] = "none" /\ running' \subseteq ActiveLoops'
  BY <1>8, <1>9, ReturnsKeeps
<1>11. /\ phase'[l] = q /\ outcome'[l] = "none" /\ records'[l] = r /\ announced'[l] = a
       /\ current'[l] = c /\ Total(l)' = Total(l)
  BY <1>8, <1>10 DEF LoopsIInv, LoopsTypeOK, Total
<1>12. /\ Total(l) \in Nat /\ current[l] <= Total(l) /\ current[l] > 0
       /\ 1 .. current[l] - 1 \subseteq Steps(records[l])
       /\ Unfailed(records[l]) => Len(announced[l]) = current[l]
  BY <1>10, TotalBounds DEF LoopsIInv, LoopsTypeOK, LoopOK, StepsSoFar, ToldSoFar
<1>13. 1 .. current[l] \subseteq Steps(r)
  <2>1. \A i \in 1 .. current[l] : i \in 1 .. current[l] - 1 \/ i = current[l]
    BY <1>1
  <2> QED
    BY <1>5, <1>12, <2>1
<1>14. Unfailed(r) => Len(a) = current[l] + 1
  BY <1>3, <1>5, <1>12
<1>15. c \in Nat /\ c <= Total(l)' /\ c > 0
  BY <1>1, <1>7, <1>11, <1>12
<1>16. StepsSoFar(l)'
  <2>1. CASE current[l] = Total(l)
    BY <1>6, <1>11, <1>13, <2>1 DEF StepsSoFar
  <2>2. CASE current[l] # Total(l)
    <3>1. c = current[l] + 1 /\ q = "step"
      BY <1>6, <1>7, <2>2
    <3>2. c - 1 = current[l] /\ c > 0
      BY <1>1, <1>15, <3>1
    <3> QED
      BY <1>11, <1>13, <3>1, <3>2 DEF StepsSoFar
  <2> QED
    BY <2>1, <2>2
<1>17. ToldSoFar(l)'
  <2>1. CASE current[l] = Total(l)
    BY <1>6, <1>11, <1>14, <2>1 DEF ToldSoFar
  <2>2. CASE current[l] # Total(l)
    <3>1. c = current[l] + 1 /\ q = "step"
      BY <1>6, <1>7, <2>2
    <3> QED
      BY <1>11, <1>14, <3>1 DEF ToldSoFar
  <2> QED
    BY <2>1, <2>2
<1>18. LoopOK(l)'
  BY <1>11, <1>16, <1>17 DEF LoopOK, CompletedOK
<1>19. /\ q \in Phases \cup {"unused", "ended"} /\ outcome[l] \in Outcomes
       /\ planned' \in [Loops -> 0 .. MaxPlanned] /\ \A k \in Loops \ {l} : planned'[k] = planned[k]
       /\ origin' \in [Loops -> Loops \cup {"none", "thread", "server"}]
  BY <1>8, <1>9 DEF LoopsIInv, LoopsTypeOK
<1>20. (outcome[l] = "none") = (q # "ended")
  BY <1>9, <1>10 DEF Phases
<1> QED
  BY <1>5, <1>8, <1>10, <1>15, <1>18, <1>19, <1>20, StepKeeps

\* Loop l goes on to adapt its step, with records r.
ToAdapt(l, r) ==
    /\ records' = [records EXCEPT ![l] = r] /\ phase' = [phase EXCEPT ![l] = "adapting"]
    /\ UNCHANGED <<origin, planned, current, outcome, announced>>

\* A step that fails is adapted; one whose answer has no text has a record before.
LEMMA ToAdaptIInv ==
    ASSUME LoopsIInv, NEW l \in Loops, Returns(l, "step"), NEW r \in Seq(Nat \X Statuses),
           Steps(records[l]) \subseteq Steps(r), Unfailed(r) => Unfailed(records[l]),
           ToAdapt(l, r)
    PROVE  LoopsIInv'
<1>1. /\ outcome' = [outcome EXCEPT ![l] = outcome[l]] /\ current' = [current EXCEPT ![l] = current[l]]
      /\ announced' = [announced EXCEPT ![l] = announced[l]]
      /\ planned' = planned /\ origin' = origin
      /\ records' = [records EXCEPT ![l] = r] /\ phase' = [phase EXCEPT ![l] = "adapting"]
  BY DEF ToAdapt, LoopsIInv, LoopsTypeOK
<1>2. phase[l] = "step" /\ outcome[l] = "none" /\ running' \subseteq ActiveLoops'
  BY <1>1, ReturnsKeeps DEF Phases
<1>3. /\ phase'[l] = "adapting" /\ outcome'[l] = "none" /\ records'[l] = r
      /\ current'[l] = current[l] /\ announced'[l] = announced[l]
  BY <1>1, <1>2 DEF LoopsIInv, LoopsTypeOK
<1>4. /\ current[l] > 0 /\ 1 .. current[l] - 1 \subseteq Steps(records[l])
      /\ Unfailed(records[l]) => Len(announced[l]) = current[l]
  BY <1>2 DEF LoopsIInv, LoopOK, StepsSoFar, ToldSoFar
<1>5. LoopOK(l)'
  BY <1>3, <1>4 DEF LoopOK, StepsSoFar, ToldSoFar, CompletedOK
<1>6. /\ "adapting" \in Phases \cup {"unused", "ended"} /\ outcome[l] \in Outcomes
      /\ current[l] \in Nat /\ announced[l] \in Seq(Broadcasts)
      /\ planned' \in [Loops -> 0 .. MaxPlanned] /\ \A k \in Loops \ {l} : planned'[k] = planned[k]
      /\ origin' \in [Loops -> Loops \cup {"none", "thread", "server"}]
      /\ current[l] <= Total(l)'
  BY <1>1 DEF LoopsIInv, LoopsTypeOK, Phases, Total
<1>7. (outcome[l] = "none") = ("adapting" # "ended") /\ running' \subseteq ActiveLoops'
  BY <1>2
<1>8. /\ outcome' = [outcome EXCEPT ![l] = outcome[l]] /\ current' = [current EXCEPT ![l] = current[l]]
      /\ announced' = [announced EXCEPT ![l] = announced[l]]
      /\ records' = [records EXCEPT ![l] = r] /\ phase' = [phase EXCEPT ![l] = "adapting"]
  BY <1>1
<1>9. PICK t : t = r
  OBVIOUS
<1>10. t \in Seq(Nat \X Statuses) /\ records' = [records EXCEPT ![l] = t]
  BY <1>8, <1>9
<1> QED
  BY <1>2, <1>5, <1>6, <1>7, <1>8, <1>10, StepKeeps

\* The summary looks at the plan, the cut and the failed steps.
LEMMA SumUpIInv == ASSUME LoopsIInv, NEW l \in Loops, SumUp(l) PROVE LoopsIInv'
<1> DEFINE a == Append(announced[l], "task_complete")
           o == FinalStatus(l)
<1>1. /\ phase' = [phase EXCEPT ![l] = "ended"] /\ outcome' = [outcome EXCEPT ![l] = o]
      /\ records' = [records EXCEPT ![l] = records[l]] /\ announced' = [announced EXCEPT ![l] = a]
      /\ current' = [current EXCEPT ![l] = current[l]]
      /\ planned' = planned /\ origin' = origin
  BY DEF SumUp, EndsAs, Tells, LoopsIInv, LoopsTypeOK
<1>2. phase[l] = "summing" /\ outcome[l] = "none" /\ running' \subseteq ActiveLoops'
  BY <1>1, ReturnsKeeps DEF SumUp, Phases
<1>3. o \in {"completed", "partial"}
  BY DEF FinalStatus
<1>4. /\ phase'[l] = "ended" /\ outcome'[l] = o /\ records'[l] = records[l] /\ announced'[l] = a
      /\ planned'[l] = planned[l] /\ Total(l)' = Total(l)
  BY <1>1 DEF LoopsIInv, LoopsTypeOK, Total
<1>5. /\ records[l] \in Seq(Nat \X Statuses) /\ announced[l] \in Seq(Broadcasts) /\ planned[l] \in Nat
      /\ current[l] \in Nat /\ current[l] <= Total(l)
  BY DEF LoopsIInv, LoopsTypeOK
<1>6. a \in Seq(Broadcasts) /\ Len(a) = Len(announced[l]) + 1
  BY <1>5 DEF Broadcasts
<1>7. 1 .. Total(l) \subseteq Steps(records[l]) /\ Total(l) \in Nat /\ Total(l) <= planned[l]
  BY <1>2, TotalBounds DEF LoopsIInv, LoopsTypeOK, LoopOK, StepsSoFar
<1>8. o = "completed" => /\ 1 .. planned[l] \subseteq Steps(records[l]) /\ Unfailed(records[l])
                         /\ Len(a) = planned[l] + 2
  <2> SUFFICES ASSUME o = "completed"
               PROVE  /\ 1 .. planned[l] \subseteq Steps(records[l]) /\ Unfailed(records[l])
                      /\ Len(a) = planned[l] + 2
    OBVIOUS
  <2>1. planned[l] <= Total(l) /\ Unfailed(records[l])
    BY <1>5, <1>7 DEF FinalStatus, Unfailed
  <2>2. Total(l) = planned[l]
    BY <1>5, <1>7, <2>1
  <2>3. Len(announced[l]) = Total(l) + 1
    BY <1>2, <2>1 DEF LoopsIInv, LoopOK, ToldSoFar
  <2> QED
    BY <1>5, <1>6, <1>7, <2>1, <2>2, <2>3
<1> HIDE DEF a, o
<1>9. LoopOK(l)' /\ current[l] <= Total(l)'
  BY <1>4, <1>5, <1>8 DEF LoopOK, StepsSoFar, ToldSoFar, CompletedOK
<1>10. /\ o \in Outcomes /\ planned' \in [Loops -> 0 .. MaxPlanned]
       /\ \A k \in Loops \ {l} : planned'[k] = planned[k]
       /\ origin' \in [Loops -> Loops \cup {"none", "thread", "server"}]
  BY <1>1, <1>3 DEF LoopsIInv, LoopsTypeOK, Outcomes
<1>11. (o = "none") = ("ended" # "ended")
  BY <1>3
<1> QED
  BY <1>1, <1>2, <1>5, <1>6, <1>9, <1>10, <1>11, StepKeeps

----------------------------------------------------------------------------
\* The end of a call keeps the invariant.
LEMMA CallEndsIInv == ASSUME LoopsIInv, NEW l \in Loops, CallEnds(l) PROVE LoopsIInv'
<1>1. CASE PlanFails(l)
  BY <1>1, EndIInv DEF PlanFails, Phases
<1>2. CASE PlanHasNoText(l)
  BY <1>2, EndIInv DEF PlanHasNoText, Raises, Phases
<1>3. CASE PlanIsReady(l)
  BY <1>3, PlanIsReadyIInv
<1>4. CASE StepCompletes(l)
  <2> DEFINE a == Append(announced[l], "step_complete")
  <2>1. a \in Seq(Broadcasts) /\ Len(a) = Len(announced[l]) + 1
    BY DEF LoopsIInv, LoopsTypeOK, Broadcasts
  <2>2. announced' = [announced EXCEPT ![l] = a]
    BY <1>4 DEF StepCompletes, Tells
  <2>3. <<"completed">> \in Seq(Statuses) /\ Len(<<"completed">>) > 0
    BY DEF Statuses
  <2> HIDE DEF a
  <2> QED
    BY <1>4, <2>1, <2>2, <2>3, RecordIInv DEF StepCompletes
<1>5. CASE StepFails(l)
  <2>1. records' = [records EXCEPT ![l] = records[l]] /\ records[l] \in Seq(Nat \X Statuses)
    BY <1>5 DEF StepFails, LoopsIInv, LoopsTypeOK
  <2> QED
    BY <1>5, <2>1, ToAdaptIInv DEF StepFails, ToAdapt
<1>6. CASE StepHasNoText(l)
  <2> DEFINE x == <<"completed">>
  <2>1. PICK t : t = [j \in DOMAIN x |-> <<current[l], x[j]>>]
    OBVIOUS
  <2>2. records[l] \in Seq(Nat \X Statuses) /\ current[l] \in Nat
    BY DEF LoopsIInv, LoopsTypeOK
  <2>3. x \in Seq(Statuses) /\ Len(x) > 0
    BY DEF Statuses
  <2>4. records' = [records EXCEPT ![l] = records[l] \o t]
    BY <1>6, <2>1 DEF StepHasNoText, Records
  <2> HIDE DEF x
  <2>5. t \in Seq(Nat \X Statuses)
    BY <2>1, <2>2, <2>3, StepRecords
  <2>6. /\ records[l] \o t \in Seq(Nat \X Statuses)
        /\ Steps(records[l]) \subseteq Steps(records[l] \o t)
        /\ Unfailed(records[l] \o t) => Unfailed(records[l])
    BY <2>2, <2>5, ConcatRecords
  <2> QED
    BY <1>6, <2>4, <2>6, ToAdaptIInv DEF StepHasNoText, ToAdapt
<1>7. CASE StepIsAdapted(l)
  <2> DEFINE a == Append(announced[l], "step_adapted")
  <2>1. a \in Seq(Broadcasts) /\ Len(a) = Len(announced[l]) + 1
    BY DEF LoopsIInv, LoopsTypeOK, Broadcasts
  <2>2. announced' = [announced EXCEPT ![l] = a]
    BY <1>7 DEF StepIsAdapted, Tells
  <2>3. <<"adapted">> \in Seq(Statuses) /\ Len(<<"adapted">>) > 0
    BY DEF Statuses
  <2> HIDE DEF a
  <2> QED
    BY <1>7, <2>1, <2>2, <2>3, RecordIInv DEF StepIsAdapted
<1>8. CASE AdaptationFails(l)
  <2>1. announced' = [announced EXCEPT ![l] = announced[l]] /\ announced[l] \in Seq(Broadcasts)
    BY <1>8 DEF AdaptationFails, LoopsIInv, LoopsTypeOK
  <2>2. /\ <<"failed">> \in Seq(Statuses) /\ Len(<<"failed">>) > 0
        /\ <<"failed">>[Len(<<"failed">>)] = "failed"
    BY DEF Statuses
  <2> QED
    BY <1>8, <2>1, <2>2, RecordIInv DEF AdaptationFails
<1>9. CASE AdaptationHasNoText(l)
  <2>1. announced' = [announced EXCEPT ![l] = announced[l]] /\ announced[l] \in Seq(Broadcasts)
    BY <1>9 DEF AdaptationHasNoText, LoopsIInv, LoopsTypeOK
  <2> DEFINE x == <<"adapted", "failed">>
  <2>2. x \in Seq(Statuses) /\ Len(x) > 0 /\ x[Len(x)] = "failed"
    BY DEF Statuses
  <2>3. Records(l, x) /\ NextStep(l) /\ Returns(l, "adapting") /\ UNCHANGED <<origin, planned, outcome>>
    BY <1>9 DEF AdaptationHasNoText
  <2> HIDE DEF x
  <2> QED
    BY <2>1, <2>2, <2>3, RecordIInv
<1>10. CASE SumUp(l)
  BY <1>10, SumUpIInv
<1>11. CASE SummaryHasNoText(l)
  BY <1>11, EndIInv DEF SummaryHasNoText, Raises, Phases
<1> QED
  BY <1>1, <1>2, <1>3, <1>4, <1>5, <1>6, <1>7, <1>8, <1>9, <1>10, <1>11 DEF CallEnds

\* Every step keeps the invariant.
LEMMA NextLoopsIInv == LoopsIInv /\ [LoopsNext]_loopVars => LoopsIInv'
<1> SUFFICES ASSUME LoopsIInv, [LoopsNext]_loopVars PROVE LoopsIInv'
  OBVIOUS
<1>1. CASE UNCHANGED loopVars
  BY <1>1 DEF loopVars, LoopsIInv, LoopsTypeOK, LoopOK, StepsSoFar, ToldSoFar, CompletedOK, Total,
              ActiveLoops
<1> QED
  BY <1>1, PlanAndExecuteIInv, ToThreadIInv, CallEndsIInv DEF LoopsNext

\* The inductive invariant holds in every reachable state.
THEOREM LoopsInvariant == LoopsSpec => []LoopsIInv
BY InitLoopsIInv, NextLoopsIInv, PTL DEF LoopsSpec

\* The types are right, and a thread is only held by a loop under way.
THEOREM LoopsTypeCorrect == LoopsSpec => []LoopsTypeOK
<1>1. LoopsIInv => LoopsTypeOK
  BY DEF LoopsIInv
<1> QED
  BY <1>1, LoopsInvariant, PTL

\* Whatever the plan, the nesting, the threads and the answers, "completed" is said
\* of a loop that took every step of its plan, none of which failed at last, and
\* told of all.
THEOREM CompletedIsComplete == LoopsSpec => []CompletedMeansAllSteps
<1>1. LoopsIInv => CompletedMeansAllSteps
  BY DEF LoopsIInv, LoopOK, CompletedOK, Unfailed, Steps, CompletedMeansAllSteps
<1> QED
  BY <1>1, LoopsInvariant, PTL

----------------------------------------------------------------------------
(***************************************************************************)
(* Spark: for any agents, tasks, bids and numbers of events.               *)
(***************************************************************************)

(* Scores. *)

LEMMA OfTwo ==
    ASSUME NEW a \in Int, NEW b \in Int
    PROVE  Min({a, b}) \in {a, b} /\ Max({a, b}) \in {a, b} /\ Max({a, b}) >= a /\ Max({a, b}) >= b
<1>1. PICK x \in {a, b} : \A y \in {a, b} : x <= y
  <2>1. CASE a <= b
    BY <2>1
  <2>2. CASE ~(a <= b)
    <3>1. b <= a
      BY <2>2
    <3> QED BY <3>1
  <2> QED BY <2>1, <2>2
<1>2. PICK z \in {a, b} : \A y \in {a, b} : z >= y
  <2>1. CASE a >= b
    BY <2>1
  <2>2. CASE ~(a >= b)
    <3>1. b >= a
      BY <2>2
    <3> QED BY <3>1
  <2> QED BY <2>1, <2>2
<1>3. Min({a, b}) \in {a, b}
  BY <1>1 DEF Min
<1>4. Max({a, b}) \in {a, b} /\ \A y \in {a, b} : Max({a, b}) >= y
  BY <1>2 DEF Max
<1> QED BY <1>3, <1>4

Prediction == [task : Tasks, winner : Agents, success : {70}, low : {20},
               high : {80}, evaluated : BOOLEAN, accuracy : 0..100]

\* The bid is worth no more than its share.
LEMMA BidPointsBounded ==
    ASSUME NEW p \in Prediction, NEW bid \in Nat
    PROVE  BidPoints(p, bid) \in 0..20
<1> DEFINE d == Min({Distance(bid, p.low), Distance(bid, p.high)})
           size == Max({1, p.high - p.low})
<1>1. p.low = 20 /\ p.high = 80
  BY DEF Prediction
<1>2. CASE p.low <= bid /\ bid <= p.high
  BY <1>2 DEF BidPoints
<1>3. CASE ~(p.low <= bid /\ bid <= p.high)
  <2>1. Distance(bid, p.low) \in Nat /\ Distance(bid, p.high) \in Nat
    BY <1>1 DEF Distance
  <2>2. d \in Nat
    <3>1. PICK x \in Nat, y \in Nat : x = Distance(bid, p.low) /\ y = Distance(bid, p.high)
      BY <2>1
    <3>2. Min({x, y}) \in {x, y}
      BY OfTwo
    <3> QED BY <3>1, <3>2
  <2>3. size = 60
    <3>1. p.high - p.low = 60
      BY <1>1
    <3>2. Max({1, 60}) = 60
      BY OfTwo
    <3> QED BY <3>1, <3>2
  <2>4. BidPoints(p, bid) = IF d >= 60 THEN 0 ELSE (20 * (60 - d)) \div 60
    <3>1. BidPoints(p, bid) = IF d >= size THEN 0 ELSE (20 * (size - d)) \div size
      BY <1>3 DEF BidPoints
    <3> HIDE DEF d, size
    <3> QED BY <2>3, <3>1
  <2> HIDE DEF d, size
  <2> QED BY <2>2, <2>4
<1> QED BY <1>2, <1>3

\* A score is a percentage.
LEMMA AccuracyBounded ==
    ASSUME NEW p \in Prediction, NEW winner, NEW succeeded \in BOOLEAN,
           NEW bid \in Bids \cup {NoBid}
    PROVE  ComputeAccuracy(p, winner, succeeded, bid) \in 0..100
<1> DEFINE won == IF p.winner = winner THEN 40 ELSE 0
           success == (40 * (100 - Distance(p.success, IF succeeded THEN 100 ELSE 0))) \div 100
<1>1. won \in {0, 40}
  OBVIOUS
<1>2. success \in {12, 28}
  <2>1. p.success = 70
    BY DEF Prediction
  <2>2. Distance(70, IF succeeded THEN 100 ELSE 0) \in {30, 70}
    BY DEF Distance
  <2> QED BY <2>1, <2>2
<1>3. CASE bid = NoBid
  <2>1. ComputeAccuracy(p, winner, succeeded, bid) = (100 * (won + success)) \div 80
    BY <1>3 DEF ComputeAccuracy
  <2> HIDE DEF won, success
  <2>2. PICK w : w = won + success
    OBVIOUS
  <2>3. w \in {12, 28, 52, 68}
    BY <1>1, <1>2, <2>2
  <2>4. (100 * w) \div 80 \in 0..100
    BY <2>3
  <2> QED BY <2>1, <2>2, <2>4
<1>4. CASE bid # NoBid
  <2>1. ComputeAccuracy(p, winner, succeeded, bid) = won + success + BidPoints(p, bid)
    BY <1>4 DEF ComputeAccuracy
  <2>2. BidPoints(p, bid) \in 0..20
    BY <1>4, LimitsAssumption, BidPointsBounded
  <2> HIDE DEF won, success
  <2> QED BY <1>1, <1>2, <2>1, <2>2
<1> QED BY <1>3, <1>4

----------------------------------------------------------------------------
(* Rows. *)

\* The newest n of no more than n rows are all of them.
LEMMA NewestAll ==
    ASSUME NEW S, NEW rows \in Seq(S), NEW n \in Nat, Len(rows) <= n
    PROVE  Newest(rows, n) = rows
<1>1. PICK k \in Nat : k = Len(rows)
  OBVIOUS
<1>2. ~(k > n)
  BY <1>1
<1>3. Newest(rows, n) = SubSeq(rows, 1, k)
  BY <1>1, <1>2 DEF Newest
<1> QED BY <1>1, <1>3, SubSeqFull

LEMMA NewestRows ==
    ASSUME NEW S, NEW rows \in Seq(S), NEW n \in Nat \ {0}
    PROVE  Newest(rows, n) \in Seq(S) /\ Len(Newest(rows, n)) <= n
<1>1. PICK k \in Nat : k = Len(rows)
  OBVIOUS
<1>2. CASE k > n
  <2>1. Newest(rows, n) = SubSeq(rows, k - n + 1, k)
    BY <1>1, <1>2 DEF Newest
  <2>2. k - n + 1 \in 1..k + 1
    BY <1>2
  <2> QED BY <1>1, <2>1, <2>2
<1>3. CASE ~(k > n)
  BY <1>1, <1>3, NewestAll
<1> QED BY <1>2, <1>3

LEMMA Counted ==
    ASSUME NEW rows \in Seq(EventRow), NEW a, NEW type
    PROVE  CountOf(rows, type) \in 0..Len(rows) /\ CountFor(rows, a) \in 0..Len(rows)
BY FilterProperties DEF CountOf, CountFor

\* A row is of one type.
LEMMA DisjointCounts ==
    ASSUME NEW rows \in Seq(EventRow)
    PROVE  CountOf(rows, "task_completed") + CountOf(rows, "task_failed") <= Len(rows)
<1> DEFINE C == OfType("task_completed")
           F == OfType("task_failed")
           T == {s \in Seq(EventRow) : Len(Filter(s, C)) + Len(Filter(s, F)) <= Len(s)}
<1>1. <<>> \in T
  <2>1. Filter(<<>>, C) = <<>> /\ Filter(<<>>, F) = <<>>
    BY FilterEmpty
  <2> QED BY <2>1
<1>2. C \cap F = {}
  BY DEF OfType
<1> HIDE DEF C, F
<1>3. ASSUME NEW s \in Seq(EventRow), NEW x \in EventRow, s \in T
      PROVE  Append(s, x) \in T
  <2>1. PICK c, f, n : /\ c = Len(Filter(s, C)) /\ f = Len(Filter(s, F)) /\ n = Len(s)
                       /\ c \in Nat /\ f \in Nat /\ n \in Nat /\ c + f <= n
    <3>1. Filter(s, C) \in Seq(EventRow) /\ Filter(s, F) \in Seq(EventRow)
      BY FilterProperties
    <3>2. Len(Filter(s, C)) \in Nat /\ Len(Filter(s, F)) \in Nat /\ Len(s) \in Nat
      BY <3>1
    <3>3. Len(Filter(s, C)) + Len(Filter(s, F)) <= Len(s)
      BY <1>3
    <3> QED BY <3>2, <3>3
  <2>2. Len(Append(s, x)) = n + 1 /\ Append(s, x) \in Seq(EventRow)
    BY <2>1, AppendProperties
  <2>3. Len(Filter(Append(s, x), C)) = IF x \in C THEN c + 1 ELSE c
    <3>1. Filter(s, C) \in Seq(EventRow)
      BY FilterProperties
    <3>2. CASE x \in C
      <4>1. Filter(Append(s, x), C) = Append(Filter(s, C), x)
        BY <3>2, FilterAppend
      <4> QED BY <2>1, <3>1, <3>2, <4>1, AppendProperties
    <3>3. CASE x \notin C
      BY <2>1, <3>3, FilterAppend
    <3> QED BY <3>2, <3>3
  <2>4. Len(Filter(Append(s, x), F)) = IF x \in F THEN f + 1 ELSE f
    <3>1. Filter(s, F) \in Seq(EventRow)
      BY FilterProperties
    <3>2. CASE x \in F
      <4>1. Filter(Append(s, x), F) = Append(Filter(s, F), x)
        BY <3>2, FilterAppend
      <4> QED BY <2>1, <3>1, <3>2, <4>1, AppendProperties
    <3>3. CASE x \notin F
      BY <2>1, <3>3, FilterAppend
    <3> QED BY <3>2, <3>3
  <2>5. Len(Filter(Append(s, x), C)) + Len(Filter(Append(s, x), F)) <= n + 1
    <3>1. PICK c1, f1 : /\ c1 = Len(Filter(Append(s, x), C)) /\ f1 = Len(Filter(Append(s, x), F))
                        /\ c1 = c \/ (x \in C /\ c1 = c + 1)
                        /\ f1 = f \/ (x \in F /\ f1 = f + 1)
      BY <2>3, <2>4
    <3>2. c1 + f1 <= n + 1
      BY <1>2, <2>1, <3>1
    <3> QED BY <3>1, <3>2
  <2> QED BY <2>2, <2>5
<1> HIDE DEF T
<1>4. Seq(EventRow) \subseteq T
  BY <1>1, <1>3, SeqSetInduction
<1> QED BY <1>4 DEF T, C, F, CountOf

LEMMA EventsOfType ==
    ASSUME NEW type, NEW n \in Nat \ {0}, events \in Seq(EventRow)
    PROVE  /\ Filter(events, OfType(type)) \in Seq(EventRow)
           /\ GetEventsOfType(type, n) \in Seq(EventRow)
           /\ CountOf(events, type) <= n =>
                  GetEventsOfType(type, n) = Filter(events, OfType(type))
<1>1. Filter(events, OfType(type)) \in Seq(EventRow)
  BY FilterProperties
<1>2. GetEventsOfType(type, n) \in Seq(EventRow)
  BY <1>1, NewestRows DEF GetEventsOfType
<1>3. ASSUME CountOf(events, type) <= n
      PROVE  GetEventsOfType(type, n) = Filter(events, OfType(type))
  BY <1>1, <1>3, NewestAll DEF GetEventsOfType, CountOf
<1> QED BY <1>1, <1>2, <1>3

----------------------------------------------------------------------------
(* Judgements. *)

\* Of the same outcomes the memories and the advisor never say the opposite.
LEMMA JudgementsAgree ==
    ASSUME NEW wins \in Nat, NEW total \in Nat
    PROVE  /\ Verdict(wins, total) = "struggling" =>
                  total >= MinOutcomes /\ 10 * wins <= 3 * total
           /\ Judgement(wins, total) = "pattern" => Verdict(wins, total) # "struggling"
           /\ Judgement(wins, total) = "anomaly" => Verdict(wins, total) # "excels"
           /\ Judgement(wins, total) \in {"none", "pattern", "anomaly"}
           /\ Judgement(wins, total) # "none" => total >= MinOutcomes
<1>1. MinOutcomes \in Nat /\ MinOutcomes >= 2
  BY LimitsAssumption
<1>2. CASE total < MinOutcomes
  <2>1. ~(total >= MinOutcomes)
    BY <1>1, <1>2
  <2> QED BY <1>2 DEF Verdict, Judgement
<1>3. CASE ~(total < MinOutcomes)
  <2>1. total >= MinOutcomes
    BY <1>1, <1>3
  <2>2. CASE 10 * wins >= 8 * total
    <3>1. ~(10 * wins <= 3 * total)
      BY <1>1, <2>1, <2>2
    <3>2. Verdict(wins, total) = "excels" /\ Judgement(wins, total) = "pattern"
      BY <1>3, <2>2, <3>1 DEF Verdict, Judgement
    <3> QED BY <2>1, <3>2
  <2>3. CASE ~(10 * wins >= 8 * total) /\ 10 * wins <= 3 * total
    <3>1. Verdict(wins, total) = "struggling" /\ Judgement(wins, total) = "anomaly"
      BY <1>3, <2>3 DEF Verdict, Judgement
    <3> QED BY <2>1, <2>3, <3>1
  <2>4. CASE ~(10 * wins >= 8 * total) /\ ~(10 * wins <= 3 * total)
    <3>1. Verdict(wins, total) = "none" /\ Judgement(wins, total) = "none"
      BY <1>3, <2>4 DEF Verdict, Judgement
    <3> QED BY <3>1
  <2> QED BY <2>2, <2>3, <2>4
<1> QED BY <1>2, <1>3

\* Advice about the performance of an agent comes from CheckAgentPerformance alone.
LEMMA StrugglingIsOfPerformance ==
    ASSUME NEW adv \in GenerateAdvisories, adv.category = "struggling"
    PROVE  /\ adv \in CheckAgentPerformance
           /\ CheckFailurePatterns \subseteq GenerateAdvisories
<1>1. CASE Len(events) < MinAdvice
  BY <1>1 DEF GenerateAdvisories, Advisory
<1>2. CASE ~(Len(events) < MinAdvice)
  <2>1. GenerateAdvisories =
            CheckFailurePatterns \union CheckAgentPerformance \union CheckBidPatterns
                \union CheckPredictionAccuracy \union CheckSystemActivity
    BY <1>2 DEF GenerateAdvisories
  <2>2. \A x \in CheckFailurePatterns : x.category = "failure_prevention"
    BY DEF CheckFailurePatterns, Advisory
  <2>3. \A x \in CheckBidPatterns : x.category \in {"wide_spread", "high_average"}
    BY DEF CheckBidPatterns, Advisory
  <2>4. \A x \in CheckPredictionAccuracy : x.category \in {"low_accuracy", "strong_accuracy"}
    BY DEF CheckPredictionAccuracy, Advisory
  <2>5. \A x \in CheckSystemActivity : x.category = "none_completing"
    BY DEF CheckSystemActivity, Advisory
  <2> QED BY <2>1, <2>2, <2>3, <2>4, <2>5
<1> QED BY <1>1, <1>2

LEMMA WarnedOf == SparkTypeOK => StrugglingIsWarned
<1> SUFFICES ASSUME SparkTypeOK, CountOf(events, "task_failed") <= RecentLimit,
                    NEW adv \in GenerateAdvisories, adv.category = "struggling"
             PROVE  \E w \in GenerateAdvisories :
                        w.category = "failure_prevention" /\ w.subject = adv.subject
  BY DEF StrugglingIsWarned
<1> DEFINE F == Filter(events, OfType("task_failed"))
           C == GetEventsOfType("task_completed", WideLimit)
<1>1. /\ RecentLimit \in Nat \ {0} /\ WideLimit \in Nat \ {0} /\ RecentLimit <= WideLimit
      /\ MinOutcomes \in Nat /\ MinOutcomes >= 2
  BY LimitsAssumption
<1>2. events \in Seq(EventRow)
  BY DEF SparkTypeOK
<1>3. F \in Seq(EventRow) /\ C \in Seq(EventRow)
  BY <1>1, <1>2, EventsOfType
<1>4. CountOf(events, "task_failed") \in Nat
  BY <1>2, Counted
<1>5. /\ GetEventsOfType("task_failed", RecentLimit) = F
      /\ GetEventsOfType("task_failed", WideLimit) = F
  BY <1>1, <1>2, <1>4, EventsOfType
<1>6. adv \in CheckAgentPerformance
  BY StrugglingIsOfPerformance
<1> HIDE DEF F, C
<1>7. PICK a \in Agents :
          LET total == CountFor(C, a) + CountFor(F, a)
          IN  adv = Advisory(Verdict(CountFor(C, a), total), a, total)
  BY <1>5, <1>6 DEF CheckAgentPerformance, C
<1>8. PICK wins, fails :
          wins = CountFor(C, a) /\ fails = CountFor(F, a) /\ wins \in Nat /\ fails \in Nat
  <2>1. CountFor(C, a) \in Nat
    BY <1>3, Counted
  <2>2. CountFor(F, a) \in Nat
    BY <1>3, Counted
  <2> QED BY <2>1, <2>2
<1>9. Verdict(wins, wins + fails) = "struggling" /\ adv.subject = a
  BY <1>7, <1>8 DEF Advisory
<1>10. PICK total \in Nat : total = wins + fails
  BY <1>8
<1>11. fails >= 2
  <2>1. wins \in Nat /\ Verdict(wins, total) = "struggling"
    BY <1>8, <1>9, <1>10
  <2>2. total >= MinOutcomes /\ 10 * wins <= 3 * total
    BY <2>1, JudgementsAgree
  <2>3. total >= 2
    BY <1>1, <2>2
  <2> QED BY <1>8, <1>10, <2>2, <2>3
<1>12. Advisory("failure_prevention", a, fails) \in CheckFailurePatterns
  BY <1>5, <1>8, <1>11 DEF CheckFailurePatterns
<1>13. Advisory("failure_prevention", a, fails) \in GenerateAdvisories
  BY <1>12, StrugglingIsOfPerformance
<1> QED BY <1>9, <1>13 DEF Advisory

----------------------------------------------------------------------------
(* The inductive invariant: the tables keep their types. *)

LEMMA InitSpark == SparkInit => SparkTypeOK
<1> SUFFICES ASSUME SparkInit PROVE SparkTypeOK
  OBVIOUS
<1>1. PICK none : none = <<>>
  OBVIOUS
<1>2. \A S : none \in Seq(S)
  BY <1>1
<1>3. DOMAIN none = {}
  BY <1>1
<1>4. events = none /\ predictions = none /\ memories = none /\ call = NoCall
  BY <1>1 DEF SparkInit
<1> QED BY <1>2, <1>3, <1>4 DEF SparkTypeOK

EventsOK == /\ events \in Seq(EventRow)
            /\ \A i \in DOMAIN events : events[i].type \in AgentEvents => events[i].agent \in Agents

\* A recorded event is a row of the table.
LEMMA RecordedIsRow ==
    ASSUME EventsOK, NEW type \in EventTypes, NEW agent \in Agents \cup {NoAgent},
           NEW task \in Tasks \cup {NoTask}, NEW bid \in Bids \cup {NoBid},
           type \in AgentEvents => agent \in Agents, RecordEvent(type, agent, task, bid)
    PROVE  EventsOK'
<1> DEFINE e == Event(type, agent, task, bid)
<1>1. e \in EventRow /\ e.type = type /\ e.agent = agent
  BY DEF Event, EventRow
<1>2. events' = Append(events, e) /\ events \in Seq(EventRow)
  BY DEF RecordEvent, EventsOK
<1>3. events' \in Seq(EventRow)
  BY <1>1, <1>2, AppendProperties
<1> HIDE DEF e
<1>4. ASSUME NEW i \in DOMAIN events', events'[i].type \in AgentEvents
      PROVE  events'[i].agent \in Agents
  <2>1. PICK n \in Nat : n = Len(events) /\ DOMAIN events = 1..n
    BY <1>2
  <2>2. DOMAIN events' = 1..n + 1 /\ events'[n + 1] = e /\ \A j \in 1..n : events'[j] = events[j]
    BY <1>1, <1>2, <2>1, AppendProperties
  <2>3. CASE i = n + 1
    BY <1>1, <1>4, <2>2, <2>3
  <2>4. CASE i \in 1..n
    BY <1>4, <2>1, <2>2, <2>4 DEF EventsOK
  <2> QED BY <1>4, <2>2, <2>3, <2>4
<1> QED BY <1>3, <1>4 DEF EventsOK

Idling == {NoCall}
              \union [step : {"predict", "report"}, task : Tasks, agent : Agents]
              \union [step : {"consolidate"}, agent : Agents]
              \union [step : {"evaluate"}, task : Tasks, agent : Agents,
                      succeeded : BOOLEAN, bid : Bids \union {NoBid}]

Memory == [type : {"pattern", "anomaly"}, subject : Agents,
           source_events : MinOutcomes..RecentLimit]

LEMMA SparkTypes ==
    SparkTypeOK <=> /\ EventsOK /\ predictions \in Seq(Prediction)
                    /\ memories \in Seq(Memory) /\ call \in Idling
BY DEF SparkTypeOK, EventsOK, Prediction, Memory, Idling

LEMMA SparkTypesNext ==
    SparkTypeOK' <=> /\ EventsOK' /\ predictions' \in Seq(Prediction)
                     /\ memories' \in Seq(Memory) /\ call' \in Idling
BY DEF SparkTypeOK, EventsOK, Prediction, Memory, Idling

\* The handlers in mid-call.
LEMMA Calls ==
    ASSUME call \in Idling
    PROVE  /\ call.step = "predict" => call.task \in Tasks /\ call.agent \in Agents
           /\ call.step = "report" => call.task \in Tasks /\ call.agent \in Agents
           /\ call.step = "consolidate" => call.agent \in Agents
           /\ call.step = "evaluate" =>
                  /\ call.task \in Tasks /\ call.agent \in Agents
                  /\ call.succeeded \in BOOLEAN /\ call.bid \in Bids \cup {NoBid}
BY DEF Idling, NoCall

----------------------------------------------------------------------------
(* Consolidation. *)

\* What is consolidated is a memory of the agent's outcomes among its events.
LEMMA Consolidated ==
    ASSUME SparkTypeOK, MaybeConsolidate
    PROVE  LET seen == GetEventsOfAgent(call.agent, RecentLimit)
               wins == CountOf(seen, "task_completed")
               fails == CountOf(seen, "task_failed")
           IN  /\ call.agent \in Agents
               /\ seen \in Seq(EventRow)
               /\ wins \in Nat /\ fails \in Nat /\ wins + fails <= RecentLimit
               /\ \/ memories' = memories
                  \/ /\ Judgement(wins, wins + fails) # "none"
                     /\ memories' = Append(memories,
                            [type |-> Judgement(wins, wins + fails), subject |-> call.agent,
                             source_events |-> wins + fails])
<1> DEFINE seen == GetEventsOfAgent(call.agent, RecentLimit)
           wins == CountOf(seen, "task_completed")
           fails == CountOf(seen, "task_failed")
<1>1. events \in Seq(EventRow) /\ RecentLimit \in Nat \ {0}
  BY LimitsAssumption DEF SparkTypeOK
<1>2. Filter(events, OfAgent(call.agent)) \in Seq(EventRow)
  BY <1>1, FilterProperties
<1>3. seen \in Seq(EventRow) /\ Len(seen) <= RecentLimit
  BY <1>1, <1>2, NewestRows DEF GetEventsOfAgent
<1>4. call.agent \in Agents
  BY SparkTypes, Calls DEF MaybeConsolidate
<1> HIDE DEF seen
<1>5. wins \in Nat /\ fails \in Nat /\ wins + fails <= RecentLimit
  <2>1. Len(seen) \in Nat
    BY <1>3
  <2>2. wins + fails <= Len(seen)
    BY <1>3, DisjointCounts
  <2>3. wins \in Nat /\ fails \in Nat
    BY <1>3, Counted
  <2> HIDE DEF wins, fails
  <2> QED BY <1>1, <1>3, <2>1, <2>2, <2>3
<1>6. \/ memories' = memories
      \/ /\ Judgement(wins, wins + fails) # "none"
         /\ memories' = Append(memories,
                [type |-> Judgement(wins, wins + fails), subject |-> call.agent,
                 source_events |-> wins + fails])
  BY DEF MaybeConsolidate, seen
<1> QED BY <1>3, <1>4, <1>5, <1>6 DEF seen

LEMMA ConsolidatedTypes ==
    ASSUME SparkTypeOK, MaybeConsolidate
    PROVE  memories' \in Seq(Memory)
<1> DEFINE seen == GetEventsOfAgent(call.agent, RecentLimit)
           wins == CountOf(seen, "task_completed")
           fails == CountOf(seen, "task_failed")
           m == [type |-> Judgement(wins, wins + fails), subject |-> call.agent,
                 source_events |-> wins + fails]
<1>1. /\ call.agent \in Agents /\ wins \in Nat /\ fails \in Nat /\ wins + fails <= RecentLimit
      /\ \/ memories' = memories
         \/ Judgement(wins, wins + fails) # "none" /\ memories' = Append(memories, m)
  BY Consolidated
<1>2. memories \in Seq(Memory)
  BY SparkTypes
<1>3. MinOutcomes \in Nat /\ RecentLimit \in Nat
  BY LimitsAssumption
<1> HIDE DEF wins, fails
<1>4. PICK total \in Nat : total = wins + fails
  BY <1>1
<1>5. CASE memories' = memories
  BY <1>2, <1>5
<1>6. CASE Judgement(wins, wins + fails) # "none" /\ memories' = Append(memories, m)
  <2>1. Judgement(wins, total) \in {"pattern", "anomaly"} /\ total >= MinOutcomes
    BY <1>1, <1>4, <1>6, JudgementsAgree
  <2>2. total \in MinOutcomes..RecentLimit
    BY <1>1, <1>3, <1>4, <2>1
  <2>3. m \in Memory
    BY <1>1, <1>4, <2>1, <2>2 DEF Memory
  <2> QED BY <1>2, <1>6, <2>3, AppendProperties
<1> QED BY <1>1, <1>5, <1>6

MemoryFits ==
    LET m == Last(memories')
    IN  WindowsSuffice(m.subject) =>
            ~ \E adv \in CheckAgentPerformance :
                /\ adv.subject = m.subject
                /\ adv.category = IF m.type = "pattern" THEN "struggling" ELSE "excels"

\* Counting the outcomes of an agent is counting the agent among the outcomes.
LEMMA ConsolidatedFits ==
    ASSUME SparkTypeOK, MaybeConsolidate, memories' # memories
    PROVE  MemoryFits
<1> DEFINE seen == GetEventsOfAgent(call.agent, RecentLimit)
           wins == CountOf(seen, "task_completed")
           fails == CountOf(seen, "task_failed")
           m == [type |-> Judgement(wins, wins + fails), subject |-> call.agent,
                 source_events |-> wins + fails]
<1>1. /\ call.agent \in Agents /\ wins \in Nat /\ fails \in Nat
      /\ Judgement(wins, wins + fails) # "none" /\ memories' = Append(memories, m)
  BY Consolidated
<1>2. memories \in Seq(Memory) /\ memories' \in Seq(Memory) /\ events \in Seq(EventRow)
  BY SparkTypes, ConsolidatedTypes DEF EventsOK
<1>3. Last(memories') = m
  <2> HIDE DEF m
  <2>1. Len(memories') = Len(memories) + 1 /\ memories'[Len(memories) + 1] = m
    BY <1>1, <1>2, AppendProperties
  <2> QED BY <2>1 DEF Last
<1> SUFFICES ASSUME WindowsSuffice(call.agent), NEW adv \in CheckAgentPerformance,
                    adv.subject = call.agent,
                    adv.category = IF Judgement(wins, wins + fails) = "pattern"
                                   THEN "struggling" ELSE "excels"
             PROVE  FALSE
  BY <1>3 DEF MemoryFits
<1>4. RecentLimit \in Nat \ {0} /\ WideLimit \in Nat \ {0}
  BY LimitsAssumption
<1>5. seen = Filter(events, OfAgent(call.agent))
  <2>1. Filter(events, OfAgent(call.agent)) \in Seq(EventRow)
    BY <1>2, FilterProperties
  <2>2. Len(Filter(events, OfAgent(call.agent))) <= RecentLimit
    BY DEF WindowsSuffice, CountFor
  <2> QED BY <1>4, <2>1, <2>2, NewestAll DEF GetEventsOfAgent
<1>6. ASSUME NEW type \in {"task_completed", "task_failed"}
      PROVE  CountOf(seen, type) = CountFor(GetEventsOfType(type, WideLimit), call.agent)
  <2>1. GetEventsOfType(type, WideLimit) = Filter(events, OfType(type))
    BY <1>2, <1>4, EventsOfType DEF WindowsSuffice
  <2>2. Filter(Filter(events, OfAgent(call.agent)), OfType(type))
            = Filter(events, OfAgent(call.agent) \cap OfType(type))
    BY <1>2, FilterTwice
  <2>3. Filter(Filter(events, OfType(type)), OfAgent(call.agent))
            = Filter(events, OfType(type) \cap OfAgent(call.agent))
    BY <1>2, FilterTwice
  <2>4. OfAgent(call.agent) \cap OfType(type) = OfType(type) \cap OfAgent(call.agent)
    OBVIOUS
  <2> QED BY <1>5, <2>1, <2>2, <2>3, <2>4 DEF CountOf, CountFor
<1>7. /\ wins = CountFor(GetEventsOfType("task_completed", WideLimit), call.agent)
      /\ fails = CountFor(GetEventsOfType("task_failed", WideLimit), call.agent)
  BY <1>6
<1> HIDE DEF seen, wins, fails
<1>8. PICK total \in Nat : total = wins + fails
  BY <1>1
<1>9. adv.category = Verdict(wins, total)
  <2>1. PICK a \in Agents :
            LET w == CountFor(GetEventsOfType("task_completed", WideLimit), a)
                f == CountFor(GetEventsOfType("task_failed", WideLimit), a)
            IN  adv = Advisory(Verdict(w, w + f), a, w + f)
    BY DEF CheckAgentPerformance
  <2>2. a = call.agent
    BY <2>1 DEF Advisory
  <2> QED BY <1>7, <1>8, <2>1, <2>2 DEF Advisory
<1> QED BY <1>1, <1>8, <1>9, JudgementsAgree


LEMMA NextSpark == SparkTypeOK /\ [SparkNext]_sparkVars => SparkTypeOK'
<1> SUFFICES ASSUME SparkTypeOK, [SparkNext]_sparkVars PROVE SparkTypeOK'
  OBVIOUS
<1>0. EventsOK /\ predictions \in Seq(Prediction) /\ memories \in Seq(Memory) /\ call \in Idling
  BY SparkTypes
<1>a. ASSUME EventsOK', UNCHANGED <<predictions, memories>>, call' \in Idling
      PROVE  SparkTypeOK'
  BY <1>0, <1>a, SparkTypesNext
<1>b. ASSUME UNCHANGED events PROVE EventsOK'
  BY <1>0, <1>b DEF EventsOK
<1>c. {"bid_submitted", "task_assigned", "task_completed", "task_failed", "agent_joined",
       "tool_executed", "creative_step"} \subseteq EventTypes
      /\ {"task_posted", "prediction_result"} \subseteq EventTypes \ AgentEvents
  BY DEF EventTypes, AgentEvents
<1>d. NoCall \in Idling
  BY DEF Idling
<1>1. ASSUME NEW t \in Tasks, OnTaskPosted(t) PROVE SparkTypeOK'
  <2>1. EventsOK'
    BY <1>0, <1>1, <1>c, RecordedIsRow DEF OnTaskPosted
  <2>2. call' \in Idling
    BY <1>0, <1>1 DEF OnTaskPosted, Idling
  <2> QED BY <1>1, <1>a, <2>1, <2>2 DEF OnTaskPosted
<1>2. CASE PredictTaskOutcome
  <2>1. Predicted(call.task, call.agent) \in Prediction
    BY <1>0, <1>2, Calls DEF PredictTaskOutcome, Predicted, Prediction
  <2>2. predictions' \in Seq(Prediction)
    BY <1>0, <1>2, <2>1, AppendProperties DEF PredictTaskOutcome
  <2> QED BY <1>0, <1>2, <1>b, <1>d, <2>2, SparkTypesNext DEF PredictTaskOutcome
<1>3. ASSUME NEW t \in Tasks, NEW a \in Agents, NEW b \in Bids, OnBidSubmitted(t, a, b)
      PROVE  SparkTypeOK'
  <2>1. EventsOK'
    BY <1>0, <1>3, <1>c, RecordedIsRow DEF OnBidSubmitted
  <2> QED BY <1>0, <1>3, <1>a, <2>1 DEF OnBidSubmitted
<1>4. ASSUME NEW t \in Tasks, NEW a \in Agents, OnTaskAssigned(t, a) PROVE SparkTypeOK'
  <2>1. EventsOK'
    BY <1>0, <1>4, <1>c, RecordedIsRow DEF OnTaskAssigned
  <2> QED BY <1>0, <1>4, <1>a, <2>1 DEF OnTaskAssigned
<1>5. ASSUME NEW t \in Tasks, NEW a \in Agents, OnTaskFailed(t, a) PROVE SparkTypeOK'
  <2>1. EventsOK'
    BY <1>0, <1>5, <1>c, RecordedIsRow DEF OnTaskFailed
  <2>2. call' \in Idling
    BY <1>5 DEF OnTaskFailed, Idling
  <2> QED BY <1>5, <1>a, <2>1, <2>2 DEF OnTaskFailed
<1>6. ASSUME NEW t \in Tasks, NEW a \in Agents, NEW b \in Bids \cup {NoBid},
             OnTaskCompleted(t, a, b)
      PROVE  SparkTypeOK'
  <2>1. EventsOK'
    BY <1>0, <1>6, <1>c, RecordedIsRow DEF OnTaskCompleted
  <2>2. call' \in Idling
    BY <1>6 DEF OnTaskCompleted, Idling
  <2> QED BY <1>6, <1>a, <2>1, <2>2 DEF OnTaskCompleted
<1>7. ASSUME NEW a \in Agents, OnAgentJoined(a) \/ OnToolExecuted(a) \/ OnCreativeStep(a)
      PROVE  SparkTypeOK'
  <2>1. \E type \in {"agent_joined", "tool_executed", "creative_step"} :
            RecordEvent(type, a, NoTask, NoBid)
    BY <1>7 DEF OnAgentJoined, OnToolExecuted, OnCreativeStep
  <2>2. EventsOK'
    BY <1>0, <1>c, <2>1, RecordedIsRow
  <2>3. UNCHANGED <<predictions, memories, call>>
    BY <1>7 DEF OnAgentJoined, OnToolExecuted, OnCreativeStep
  <2> QED BY <1>0, <1>a, <2>2, <2>3
<1>8. CASE EvaluatePrediction
  <2> DEFINE k == Max(Pending(call.task))
             score == ComputeAccuracy(predictions[k], call.agent, call.succeeded, call.bid)
  <2>1. call' \in Idling
    <3>1. call' = [step |-> "consolidate", agent |-> call.agent]
          \/ call' = [step |-> "report", task |-> call.task, agent |-> call.agent]
      BY <1>8 DEF EvaluatePrediction
    <3> QED BY <1>0, <1>8, <3>1, Calls DEF EvaluatePrediction, Idling
  <2>2. \/ predictions' = predictions
        \/ predictions' = [predictions EXCEPT ![k] =
                           [@ EXCEPT !.evaluated = TRUE, !.accuracy = score]]
    BY <1>8 DEF EvaluatePrediction
  <2>3. ASSUME k \in DOMAIN predictions PROVE score \in 0..100
    <3>1. predictions[k] \in Prediction
      BY <1>0, <2>3
    <3>2. call.succeeded \in BOOLEAN /\ call.bid \in Bids \cup {NoBid}
      BY <1>0, <1>8, Calls DEF EvaluatePrediction
    <3> HIDE DEF k
    <3> QED BY <3>1, <3>2, AccuracyBounded
  <2> HIDE DEF k, score
  <2>4. predictions' \in Seq(Prediction)
    <3>1. CASE predictions' = predictions
      BY <1>0, <3>1
    <3>2. CASE predictions' = [predictions EXCEPT ![k] =
                           [@ EXCEPT !.evaluated = TRUE, !.accuracy = score]]
      <4>1. DOMAIN predictions' = 1..Len(predictions) /\ Len(predictions) \in Nat
        BY <1>0, <3>2
      <4>a. DOMAIN predictions = 1..Len(predictions)
        BY <1>0
      <4>2. \A i \in 1..Len(predictions) : predictions'[i] \in Prediction
        <5> SUFFICES ASSUME NEW i \in 1..Len(predictions) PROVE predictions'[i] \in Prediction
          OBVIOUS
        <5>1. predictions[i] \in Prediction
          BY <1>0
        <5>2. CASE i # k
          BY <1>0, <3>2, <5>1, <5>2
        <5>3. CASE i = k
          <6>1. predictions'[i] = [predictions[i] EXCEPT !.evaluated = TRUE, !.accuracy = score]
            BY <1>0, <4>a, <3>2, <5>3
          <6>2. score \in 0..100
            BY <4>a, <2>3, <5>3
          <6>3. PICK p \in Prediction : p = predictions[i]
            BY <5>1
          <6>4. [p EXCEPT !.evaluated = TRUE, !.accuracy = score] \in Prediction
            BY <6>2 DEF Prediction
          <6> QED BY <6>1, <6>3, <6>4
        <5> QED BY <5>2, <5>3
      <4>3. predictions' \in [1..Len(predictions) -> Prediction]
        BY <1>0, <3>2, <4>1, <4>2
      <4> QED BY <4>1, <4>3, SeqDef
    <3> QED BY <2>2, <3>1, <3>2
  <2> QED BY <1>0, <1>8, <1>b, <2>1, <2>4, SparkTypesNext DEF EvaluatePrediction
<1>9. CASE ReportAccuracy
  <2>1. EventsOK'
    BY <1>0, <1>9, <1>c, Calls, RecordedIsRow DEF ReportAccuracy
  <2>2. call' \in Idling
    BY <1>0, <1>9, Calls DEF ReportAccuracy, Idling
  <2> QED BY <1>9, <1>a, <2>1, <2>2 DEF ReportAccuracy
<1>10. CASE MaybeConsolidate
  <2>1. memories' \in Seq(Memory)
    BY <1>0, <1>10, ConsolidatedTypes
  <2> QED BY <1>0, <1>10, <1>b, <1>d, <2>1, SparkTypesNext DEF MaybeConsolidate
<1>11. CASE Crash
  BY <1>0, <1>11, <1>a, <1>b, <1>d DEF Crash
<1>12. CASE UNCHANGED sparkVars
  BY <1>0, <1>12, <1>a, <1>b DEF sparkVars
<1> QED BY <1>1, <1>2, <1>3, <1>4, <1>5, <1>6, <1>7, <1>8, <1>9, <1>10, <1>11, <1>12 DEF SparkNext

\* The rows of the tables keep their types: every event is about an agent where its
\* type says so, scores are percentages, and a memory stands for enough outcomes.
THEOREM SparkTypeCorrect == SparkSpec => []SparkTypeOK
<1> QED BY InitSpark, NextSpark, PTL DEF SparkSpec

\* The advisor (generate_advisories) never calls an agent struggling without the
\* warning about its failures, unless failures of other agents have pushed them out
\* of its sight.
THEOREM StrugglingWarned == SparkSpec => []StrugglingIsWarned
<1> QED BY SparkTypeCorrect, WarnedOf, PTL

\* As long as the windows hold an agent's events and everybody's outcomes,
\* _maybe_consolidate() never stores of an agent the opposite of what the advisor
\* says of it.
THEOREM MemoryAgrees == SparkSpec => MemoryAgreesWithAdvice
<1>1. SparkTypeOK /\ [SparkNext]_sparkVars =>
          [memories' # memories => MemoryFits]_sparkVars
  <2> SUFFICES ASSUME SparkTypeOK, SparkNext, memories' # memories PROVE MemoryFits
    OBVIOUS
  <2>1. MaybeConsolidate
    BY DEF SparkNext, OnTaskPosted, PredictTaskOutcome, OnBidSubmitted, OnTaskAssigned,
           OnTaskFailed, OnTaskCompleted, OnAgentJoined, OnToolExecuted, OnCreativeStep,
           EvaluatePrediction, ReportAccuracy, Crash
  <2> QED BY <2>1, ConsolidatedFits
<1> QED BY <1>1, SparkTypeCorrect, PTL DEF SparkSpec, MemoryAgreesWithAdvice, MemoryFits

----------------------------------------------------------------------------
(* The parts of the dashboard side by side.                               *)
LEMMA DashboardComposes ==
    DashboardSpec => Spec /\ BriefingSpec /\ LoopsSpec
<1>1. DashboardInit => Init /\ BriefingInit /\ LoopsInit
  BY DEF DashboardInit
<1>2. [DashboardNext]_<<vars, briefingVars, loopVars>> =>
          [Next]_vars /\ [BriefingNext]_briefingVars /\ [LoopsNext]_loopVars
  BY DEF DashboardNext
<1> QED BY <1>1, <1>2, PTL DEF DashboardSpec, Spec, BriefingSpec, LoopsSpec

\* Side by side too the parts of the dashboard keep what they promise: one NOW task
\* which is not lost, no place left open, no item unannounced, and "completed" only of
\* what is complete.
THEOREM DashboardCorrect ==
    DashboardSpec => /\ [](OnlyOneNow /\ PendingIsAnnounced /\ CompletedMeansAllSteps)
                     /\ FocusIsKept
                     /\ PromotionFillsPlaces
<1> QED BY DashboardComposes, OneNowTask, FocusKept, PlacesFilled, PendingAnnounced,
           CompletedIsComplete, PTL
=============================================================================
