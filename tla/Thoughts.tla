------------------------------ MODULE Thoughts ------------------------------
(***************************************************************************)
(* The thinking engine (timmy/thinking.py): a process that thinks adds     *)
(* thoughts to the table thoughts, each with the one before as its parent, *)
(* and the dashboard shows the thoughts and follows their chains           *)
(* (dashboard/routes/thinking.py).                                         *)
(*                                                                         *)
(* Whoever calls think_once() is outside src.  The call does not give up   *)
(* control between the questions it asks and the thought it stores, so     *)
(* that cycles of one process follow one another; but any process that     *)
(* imports the module has an engine of its own on the same table.          *)
(***************************************************************************)
EXTENDS Naturals, SequencesExt, Filters

CONSTANTS
    Engines,      \* processes
    Thought,      \* the ids that uuid4() may draw
    NoThought,    \* None
    MaxDepth      \* of a chain that is shown (20)

ASSUME ThoughtsAssumption ==
    /\ Thought \cap (Engines \cup {NoThought, "down"}) = {} /\ NoThought # "down"
    /\ MaxDepth \in Nat \ {0}

VARIABLES
    thoughts,      \* the table by created_at
    parent,        \* per thought: parent_id
    lastThought,   \* per engine: _last_thought_id, "down" without a process
    asking,        \* the engines that wait for the model
    author,        \* history, per thought: the engine that had it
    blind          \* history: the engines that could not load the latest thought, and
                   \* the thoughts that have no parent for it

thoughtVars == <<thoughts, parent, lastThought, asking, author, blind>>

----------------------------------------------------------------------------
Down == "down"

ThoughtsTypeOK ==
    /\ thoughts \in Seq(Thought) /\ Injective(thoughts)
    /\ parent \in [Thought -> Thought \cup {NoThought}]
    /\ lastThought \in [Engines -> Thought \cup {NoThought, Down}]
    /\ asking \subseteq Engines
    /\ author \in [Thought -> Engines \cup {NoThought}]
    /\ blind \subseteq Engines \cup Thought

ThoughtsInit ==
    /\ thoughts = <<>>
    /\ parent = [t \in Thought |-> NoThought]
    /\ lastThought = [e \in Engines |-> Down]
    /\ asking = {}
    /\ author = parent
    /\ blind = {}

StoredThoughts == Elements(thoughts)

\* From thought to parent, while there is a row.
WalkedUp(t) ==
    LET up[n \in 1 .. MaxDepth] ==
            IF n = 1 THEN t
            ELSE IF up[n - 1] \in StoredThoughts THEN parent[up[n - 1]] ELSE NoThought
    IN  [n \in 1 .. MaxDepth |-> up[n]]

\* get_thought_chain(): the oldest first.
ThoughtChain(t) == Reverse(Filter(WalkedUp(t), StoredThoughts))

----------------------------------------------------------------------------
Loads(e, t) ==
    /\ lastThought[e] = Down
    /\ lastThought' = [lastThought EXCEPT ![e] = t]
    /\ UNCHANGED <<thoughts, parent, asking, author>>

\* Mutant: a process that starts has no last thought.
StartAfresh(e) == Loads(e, NoThought) /\ blind' = blind \ {e}

\* The module is imported: the engine goes on from the latest thought, ...
StartEngine(e) ==
    /\ Loads(e, IF thoughts = <<>> THEN NoThought ELSE Last(thoughts))
    /\ blind' = blind \ {e}

\* ... or from none if the table cannot be read.
StartEngineBlind(e) == Loads(e, NoThought) /\ blind' = blind \cup {e}

\* think_once() up to the call of the model, with a seed and the recent thoughts.
AskModel(e) ==
    /\ lastThought[e] # Down /\ e \notin asking
    /\ asking' = asking \cup {e}
    /\ UNCHANGED <<thoughts, parent, lastThought, author, blind>>

\* uuid4(): which of the unused ids makes no difference.
NewThought(t) ==
    LET unused == Thought \ StoredThoughts
    IN  unused # {} /\ t = CHOOSE x \in unused : TRUE

\* The model has an answer, which is stored and becomes the last thought, and
\* then logged and broadcast, in vain if that fails.
StoreThought(e, t) ==
    /\ e \in asking /\ NewThought(t)
    /\ thoughts' = Append(thoughts, t)
    /\ parent' = [parent EXCEPT ![t] = lastThought[e]]
    /\ lastThought' = [lastThought EXCEPT ![e] = t]
    /\ asking' = asking \ {e}
    /\ author' = [author EXCEPT ![t] = e]
    /\ blind' = IF e \in blind /\ lastThought[e] = NoThought THEN blind \cup {t} ELSE blind

\* The model fails, or has nothing to say.
ThinkingFails(e) ==
    /\ e \in asking
    /\ asking' = asking \ {e}
    /\ UNCHANGED <<thoughts, parent, lastThought, author, blind>>

StopEngine(e) ==
    /\ lastThought[e] # Down
    /\ lastThought' = [lastThought EXCEPT ![e] = Down]
    /\ asking' = asking \ {e}
    /\ UNCHANGED <<thoughts, parent, author, blind>>

ThoughtsNext ==
    \E e \in Engines :
        \/ StartEngine(e) \/ StartEngineBlind(e) \/ AskModel(e) \/ ThinkingFails(e) \/ StopEngine(e)
        \/ \E t \in Thought : StoreThought(e, t)

ThoughtsSpec == ThoughtsInit /\ [][ThoughtsNext]_thoughtVars

----------------------------------------------------------------------------
PlaceOf(t) == CHOOSE i \in DOMAIN thoughts : thoughts[i] = t

\* However processes stop, fail and think side by side, a thought goes on from
\* the one before of its engine, or from the latest of another since: it leaves out
\* none of its own engine, unless that could not read the table when it started.
\* The chain of a thought is in the order in which its thoughts were had, and whole
\* up to its depth.
ChainsGoOn ==
    \A i \in DOMAIN thoughts :
        LET t == thoughts[i]
            chain == ThoughtChain(t)
            from == IF parent[t] = NoThought THEN 0 ELSE PlaceOf(parent[t])
        IN  /\ from < i
            /\ \A j \in from + 1 .. i - 1 :
                  author[thoughts[j]] = author[t] => t \in blind
            /\ \A n \in 1 .. Len(chain) - 1 : PlaceOf(chain[n]) < PlaceOf(chain[n + 1])
            /\ chain # <<>> /\ Last(chain) = t
            /\ Len(chain) = MaxDepth \/ parent[Head(chain)] = NoThought
=============================================================================
