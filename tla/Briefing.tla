------------------------------ MODULE Briefing ------------------------------
(***************************************************************************)
(* The briefing (timmy/briefing.py), the scheduler that renews it          *)
(* (dashboard/app.py), its page (dashboard/routes/briefing.py), the items  *)
(* that await the owner's approval (timmy/approvals.py) and the notice     *)
(* that tells of them (infrastructure/notifications/push.py).              *)
(*                                                                         *)
(* Briefings and items are tables in files.  generate() is a plain call,   *)
(* the language model's answer included, made on the event loop: it is one *)
(* step with what its caller does next.  A step may fail when a table      *)
(* cannot be written or read, and the process may die after a briefing is  *)
(* saved and before its notice is sent.                                    *)
(*                                                                         *)
(* Time is kept as ages in ticks, long against a call.  The sleep of the   *)
(* scheduler ends on its tick, before the next one.  Only the latest       *)
(* briefing is ever read, and of it only its age decides anything: none at *)
(* all is one that is too old.  What the prompt and the summary say is     *)
(* left out.                                                               *)
(***************************************************************************)
EXTENDS Naturals, FiniteSets

CONSTANTS
    Items,      \* the approval items
    Fresh,      \* _CACHE_MINUTES (30), in ticks
    Interval    \* _BRIEFING_INTERVAL_HOURS (6), in ticks

ASSUME BriefingAssumption == Fresh \in Nat \ {0} /\ Interval \in Nat \ {0}

VARIABLES
    age,       \* of the latest briefing, Old for older ones and for none
    status,    \* approval_items: the column status, "absent" without a row
    up,        \* the process runs
    sleep,     \* the ticks left in the scheduler's asyncio.sleep
    cards,     \* the items whose card a tab of the browser shows with its buttons
    told,      \* history: the items the owner was told of
    waited,    \* history: the ticks an item has been pending
    excused    \* history: the pending items that met a fault or a POST /regenerate

table == <<age, status>>
history == <<told, waited, excused>>
briefingVars == <<table, up, sleep, cards, history>>

----------------------------------------------------------------------------
Old == Fresh + Interval
PendingItems == {i \in Items : status[i] = "pending"}    \* list_pending

\* Types; buttons, waiting and notices belong to items that were created.
BriefingTypeOK ==
    /\ age \in 0 .. Old
    /\ status \in [Items -> {"absent", "pending", "approved", "rejected"}]
    /\ up \in BOOLEAN
    /\ sleep \in 0 .. Interval /\ (~up => sleep = 0)
    /\ waited \in [Items -> 0 .. Old]
    /\ \A i \in cards \cup told \cup excused : status[i] # "absent"
    /\ PendingItems \cup cards \cup told \cup excused \subseteq Items

BriefingInit ==
    /\ age = Old
    /\ status = [i \in Items |-> "absent"]
    /\ up = TRUE /\ sleep = 0
    /\ cards = {} /\ told = {} /\ excused = {}
    /\ waited = [i \in Items |-> 0]

----------------------------------------------------------------------------
\* Mutant: fresh for as long as the scheduler sleeps.
IsFreshForAnInterval == age <= Interval

\* is_fresh of the latest briefing; not needs_refresh.
IsFresh == age < Fresh

\* _load_pending_items: none when the table cannot be read.
ItemsRead == {PendingItems, {}}

\* generate() up to the saved briefing.
Generate(items) ==
    /\ items \in ItemsRead
    /\ age' = 0

\* notify_briefing_ready: a notice when there is an item to approve.
NotifyBriefingReady(items) ==
    told' = told \cup items

Excuse(items) == excused' = excused \cup items

----------------------------------------------------------------------------
(* The scheduler. *)
Wakes == up /\ sleep = 0
Sleeps == sleep' = Interval

\* A turn that finds no fresh briefing.
Turn ==
    /\ Wakes /\ ~IsFresh
    /\ \E items \in ItemsRead :
           /\ Generate(items)
           /\ NotifyBriefingReady(items)
           /\ Excuse(PendingItems \ items)
    /\ Sleeps
    /\ UNCHANGED <<status, up, cards, waited>>

\* "Briefing is fresh; skipping generation."
TurnSkips ==
    /\ Wakes /\ IsFresh
    /\ Sleeps
    /\ UNCHANGED <<table, up, cards, told, waited, excused>>

\* The table of briefings cannot be read or written: the turn is given up.
TurnFails ==
    /\ Wakes
    /\ Sleeps
    /\ Excuse(PendingItems)
    /\ UNCHANGED <<table, up, cards, told, waited>>

\* The process dies between _save_briefing and the notice.
DiesBeforeNotice ==
    /\ Wakes /\ ~IsFresh
    /\ Generate({})
    /\ Excuse(PendingItems)
    /\ up' = FALSE
    /\ UNCHANGED <<status, sleep, cards, told, waited>>

----------------------------------------------------------------------------
(* The page. *)

\* GET /briefing, get_or_generate: the page counts the live items, of a fresh briefing too.
GetBriefing ==
    /\ up
    /\ \E items \in ItemsRead :
           /\ IF IsFresh THEN UNCHANGED age ELSE Generate(items)
           /\ told' = told \cup items
           /\ Excuse(PendingItems \ items)
    /\ UNCHANGED <<status, up, sleep, cards, waited>>

\* GET /briefing/approvals.
GetApprovals ==
    /\ up
    /\ cards' = cards \cup PendingItems
    /\ told' = told \cup PendingItems
    /\ UNCHANGED <<table, up, sleep, waited, excused>>

\* POST /briefing/approvals/{id}/approve and /reject, whatever the status is by then.
AnswerItem(i, verdict) ==
    /\ up
    /\ i \in cards
    /\ status' = [status EXCEPT ![i] = verdict]
    /\ \/ cards' = cards \ {i}
       \/ cards' = cards          \* another tab still shows the card with its buttons
    /\ UNCHANGED <<age, up, sleep, history>>

\* POST /briefing/regenerate: the response names no item.
RegenerateBriefing ==
    /\ up
    /\ Generate({})
    /\ Excuse(PendingItems)
    /\ UNCHANGED <<status, up, sleep, cards, told, waited>>

----------------------------------------------------------------------------
(* The surroundings. *)

\* create_item, by an agent.
CreateItem(i) ==
    /\ status[i] = "absent"
    /\ status' = [status EXCEPT ![i] = "pending"]
    /\ UNCHANGED <<age, up, sleep, cards, history>>

Stop ==
    /\ up
    /\ up' = FALSE /\ sleep' = 0
    /\ UNCHANGED <<table, cards, told, waited, excused>>

\* The scheduler sleeps two seconds and takes its first turn.
Start ==
    /\ ~up
    /\ up' = TRUE
    /\ UNCHANGED <<table, sleep, cards, history>>

Capped(n, bound) == IF n < bound THEN n + 1 ELSE n

Tick ==
    /\ ~Wakes
    /\ age' = Capped(age, Old)
    /\ waited' = [i \in Items |-> IF i \in PendingItems THEN Capped(waited[i], Old) ELSE waited[i]]
    /\ sleep' = IF up THEN sleep - 1 ELSE sleep
    /\ Excuse(IF up THEN {} ELSE PendingItems)
    /\ UNCHANGED <<status, up, cards, told>>

BriefingNext ==
    \/ Turn \/ TurnSkips \/ TurnFails \/ DiesBeforeNotice
    \/ GetBriefing \/ GetApprovals \/ RegenerateBriefing
    \/ \E i \in Items, v \in {"approved", "rejected"} : AnswerItem(i, v)
    \/ \E i \in Items : CreateItem(i)
    \/ Stop \/ Start \/ Tick

BriefingSpec == BriefingInit /\ [][BriefingNext]_briefingVars

----------------------------------------------------------------------------
(* An item is not left unnoticed: unless a table failed, the process was   *)
(* down or POST /regenerate made a briefing nobody was told of, the owner  *)
(* has seen it counted on the page, listed or in a notice before it has    *)
(* waited for an interval and the freshness.                               *)
PendingIsAnnounced ==
    \A i \in PendingItems \ (told \cup excused) : waited[i] < Fresh + Interval

=============================================================================
