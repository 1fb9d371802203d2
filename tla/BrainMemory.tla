----------------------------- MODULE BrainMemory -----------------------------
(***************************************************************************)
(* The unified memory of the brain (brain/memory.py) over a local database *)
(* or, through the memory half of brain/client.py, over rqlite.  It is an  *)
(* interface for agents outside src: whoever calls it, calls it in any     *)
(* order, from several processes on the same tables.                       *)
(*                                                                         *)
(* A text is the set of what it contains: the search by keyword, LIKE      *)
(* '%text%', finds the texts that contain the one it is given.  A memory   *)
(* whose text could not be embedded is stored by the local half without a  *)
(* vector, and only the search by keyword sees it.  Equal texts are        *)
(* equally similar and more similar than others; sources, tags and         *)
(* metadata are left out.                                                  *)
(*                                                                         *)
(* Over rqlite neither half of the search is ever made: remember() and     *)
(* recall() put the bytes of the vector in the body of the request, which  *)
(* JSON cannot express, so that httpx raises before anything is sent.      *)
(* remember() raises in its turn, and recall() makes it an empty answer.   *)
(***************************************************************************)
EXTENDS Naturals, Sequences, SequencesExt, FiniteSets, Filters

CONSTANTS
    Topics,        \* texts of memories and questions, each the set of what it contains
    Prompts,       \* calls of get_context
    Facts,         \* the ids that uuid4() may draw
    FactReaders,   \* callers of get_facts
    MaxMemories,   \* bound: rows of memories
    RecentMax,     \* recent memories in a context (5)
    RecallMax,     \* relevant memories in a context (5)
    FactMax,       \* facts that a reader asks for
    MaxReads       \* bound: how often each of them asks

ASSUME BrainAssumption ==
    /\ MaxMemories \in Nat /\ MaxReads \in Nat
    /\ IsFiniteSet(FactReaders)
    /\ RecentMax \in Nat \ {0} /\ RecallMax \in Nat \ {0} /\ FactMax \in Nat \ {0}

VARIABLES
    rqlite,       \* settings.rqlite_url is set
    memories,     \* the table memories by created_at: texts, with a vector or without
    aged,         \* how many of them get_recent leaves out as too old
    prompt,       \* per get_context: where it is and what it has
    touched,      \* the table facts by last_accessed
    confidence,   \* per fact
    count,        \* per fact: access_count
    reading,      \* per reader: the facts it has selected, with their counts
    answers       \* history, per reader: the facts of each of its answers

brainVars == <<rqlite, memories, aged, prompt, touched, confidence, count, reading, answers>>

----------------------------------------------------------------------------
Memory == [text : Topics, vector : BOOLEAN]
Idle == [stage |-> "idle"]
Ways == {"semantic", "keyword", "rqlite"}

\* History: known, the text was in the table with a vector when the call began;
\* fresh, too few newer texts contain it to hide it from the search by keyword.
PromptState ==
    {Idle}
    \cup [stage : {"recall"}, text : Topics, known : BOOLEAN, found : SUBSET Topics]
    \cup [stage : {"done"}, text : Topics, known : BOOLEAN, found : SUBSET Topics,
          way : Ways, fresh : BOOLEAN]

BrainTypeOK ==
    /\ rqlite \in BOOLEAN
    /\ memories \in Seq(Memory) /\ aged \in 0 .. Len(memories)
    /\ prompt \in [Prompts -> PromptState]
    /\ touched \in Seq(Facts) /\ Injective(touched)
    /\ confidence \in [Facts -> {1, 2}]
    /\ count \in [Facts -> Nat]
    /\ reading \in [FactReaders -> Seq(Facts \X Nat)]
    /\ answers \in [FactReaders -> Seq(SUBSET Facts)]

BrainInit ==
    /\ rqlite \in BOOLEAN
    /\ memories = <<>> /\ aged = 0
    /\ prompt = [p \in Prompts |-> Idle]
    /\ touched = <<>>
    /\ confidence = [f \in Facts |-> 1]
    /\ count = [f \in Facts |-> 0]
    /\ reading = [r \in FactReaders |-> <<>>]
    /\ answers = reading

factVars == <<touched, confidence, count, reading, answers>>

----------------------------------------------------------------------------
(* Memories. *)
FirstN(s, n) == SubSeq(s, 1, IF Len(s) < n THEN Len(s) ELSE n)
TextsOf(s) == {s[i].text : i \in DOMAIN s}
WithVector == {m \in Memory : m.vector}
OfText(t) == {m \in Memory : m.text = t}
Containing(t) == {m \in Memory : t \subseteq m.text}

\* remember_sync() stores without a vector what it cannot embed.
RememberLocally(t, embedded) ==
    /\ ~rqlite
    /\ memories' = Append(memories, [text |-> t, vector |-> embedded])

\* BrainClient.remember() raises before anything is sent.
RememberRemotely == rqlite /\ UNCHANGED memories

Remember(t) ==
    /\ Len(memories) < MaxMemories
    /\ RememberRemotely \/ \E embedded \in BOOLEAN : RememberLocally(t, embedded)
    /\ UNCHANGED <<rqlite, aged, prompt, factVars>>

\* The oldest memory becomes older than the hours asked for.
MemoryAges ==
    /\ aged < Len(memories)
    /\ aged' = aged + 1
    /\ UNCHANGED <<rqlite, memories, prompt, factVars>>

\* get_recent(): the newest that are not too old.
Recent == LastN(SubSeq(memories, aged + 1, Len(memories)), RecentMax)

\* Mutant: the statement limits the rows before they are ranked.
SimilarOfNewest(t) ==
    LET s == Filter(LastN(memories, RecallMax), WithVector)
    IN  Filter(s, OfText(t)) \o Filter(s, Memory \ OfText(t))

\* The memories with a vector, the most similar first and the oldest of those.
Similar(t) ==
    LET s == Filter(memories, WithVector)
    IN  Filter(s, OfText(t)) \o Filter(s, Memory \ OfText(t))

RecallSemantic(t) == FirstN(Similar(t), RecallMax)

\* LIKE '%t%' ORDER BY created_at DESC LIMIT, oldest first here.
RecallKeyword(t) == LastN(Filter(memories, Containing(t)), RecallMax)

Known(t) == \E i \in DOMAIN memories : memories[i].text = t /\ memories[i].vector

Fresh(t) ==
    \E i \in DOMAIN memories :
        /\ memories[i].text = t
        /\ Len(Filter(SubSeq(memories, i + 1, Len(memories)), Containing(t))) < RecallMax

\* get_context() asks first for the recent memories, ...
GetRecent(p, t) ==
    /\ prompt[p] = Idle
    /\ prompt' = [prompt EXCEPT ![p] = [stage |-> "recall", text |-> t, known |-> Known(t),
                                        found |-> TextsOf(Recent)]]
    /\ UNCHANGED <<rqlite, memories, aged, factVars>>

Recalled(p, way, answer) ==
    LET c == prompt[p]
    IN  /\ c.stage = "recall"
        /\ prompt' = [prompt EXCEPT ![p] =
               [stage |-> "done", text |-> c.text, known |-> c.known, way |-> way,
                fresh |-> Fresh(c.text), found |-> c.found \cup TextsOf(answer)]]
        /\ UNCHANGED <<rqlite, memories, aged, factVars>>

\* ... then for the relevant ones: of the local database by keyword if the embedder
\* is off or fails.
RecallLocally(p) ==
    /\ ~rqlite
    /\ \/ Recalled(p, "semantic", RecallSemantic(prompt[p].text))
       \/ Recalled(p, "keyword", RecallKeyword(prompt[p].text))

\* BrainClient.recall() returns no rows.
RecallRemotely(p) == rqlite /\ Recalled(p, "rqlite", <<>>)

----------------------------------------------------------------------------
(* Facts are in the local database, whatever the backend: without it each  *)
(* of these raises.                                                        *)
\* uuid4(): which of the unused ids makes no difference.
NewFact(f) ==
    LET unused == Facts \ Elements(touched)
    IN  unused # {} /\ f = CHOOSE x \in unused : TRUE

StoreFact(f, c) ==
    /\ ~rqlite
    /\ NewFact(f)
    /\ touched' = Append(touched, f)
    /\ confidence' = [confidence EXCEPT ![f] = c]
    /\ UNCHANGED <<rqlite, memories, aged, prompt, count, reading, answers>>

\* ORDER BY confidence DESC, last_accessed DESC, of the facts that match.
Ranked(wanted) ==
    LET s == Filter(Reverse(touched), wanted)
        Sure(c) == {f \in Facts : confidence[f] = c}
    IN  Filter(s, Sure(2)) \o Filter(s, Sure(1))

\* get_facts() is two transactions: it selects, ...
SelectFacts(r) ==
    /\ ~rqlite
    /\ reading[r] = <<>> /\ Len(answers[r]) < MaxReads
    /\ \E wanted \in SUBSET Elements(touched) :
          LET rows == FirstN(Ranked(wanted), FactMax)
          IN  reading' = [reading EXCEPT ![r] =
                             [i \in DOMAIN rows |-> <<rows[i], count[rows[i]]>>]]
    /\ UNCHANGED <<rqlite, memories, aged, prompt, touched, confidence, count, answers>>

Selected(r) == {reading[r][i][1] : i \in DOMAIN reading[r]}

\* Mutant: the count that was selected is written back, increased.
CountedFromRows(r) ==
    [f \in Facts |-> IF f \in Selected(r)
                     THEN 1 + (CHOOSE x \in Elements(reading[r]) : x[1] = f)[2] ELSE count[f]]

Counted(r) == [f \in Facts |-> IF f \in Selected(r) THEN count[f] + 1 ELSE count[f]]

\* ... and counts; every row that it returns becomes the last accessed in its turn.
CountAccess(r) ==
    /\ reading[r] # <<>>
    /\ count' = Counted(r)
    /\ touched' = Filter(touched, Facts \ Selected(r))
                     \o [i \in DOMAIN reading[r] |-> reading[r][i][1]]
    /\ answers' = [answers EXCEPT ![r] = Append(@, Selected(r))]
    /\ reading' = [reading EXCEPT ![r] = <<>>]
    /\ UNCHANGED <<rqlite, memories, aged, prompt, confidence>>

----------------------------------------------------------------------------
\* Bound: the two tables have nothing in common, and a behaviour uses one of them.
OneTable ==
    \/ touched = <<>>
    \/ memories = <<>> /\ \A p \in Prompts : prompt[p] = Idle

BrainStep ==
    \/ \E t \in Topics : Remember(t)
    \/ MemoryAges
    \/ \E p \in Prompts, t \in Topics : GetRecent(p, t)
    \/ \E p \in Prompts : RecallLocally(p) \/ RecallRemotely(p)
    \/ \E f \in Facts, c \in {1, 2} : StoreFact(f, c)
    \/ \E r \in FactReaders : SelectFacts(r) \/ CountAccess(r)

BrainNext == BrainStep /\ OneTable'

BrainSpec == BrainInit /\ [][BrainStep]_brainVars

----------------------------------------------------------------------------
\* The context of a question contains what was known of it when it was asked for,
\* however many other memories there are, however old it is, and whatever other
\* processes remember meanwhile.  A search by keyword finds it too, with a vector
\* or without, unless as many newer memories as it returns contain the text.  (Over
\* rqlite, nothing is known.)
KnownIsInContext ==
    \A p \in Prompts :
        prompt[p].stage = "done" =>
            /\ prompt[p].known => prompt[p].way \in {"semantic", "keyword"}
            /\ prompt[p].way = "semantic" /\ prompt[p].known => prompt[p].text \in prompt[p].found
            /\ prompt[p].way = "keyword" /\ prompt[p].fresh => prompt[p].text \in prompt[p].found

\* A fact was accessed as often as it was returned, by however many processes at
\* once, although each reads its row before it counts.
EveryAccessCounts ==
    \A f \in Facts :
        count[f] = Cardinality({at \in FactReaders \X (1 .. MaxReads) :
                                   at[2] \in DOMAIN answers[at[1]] /\ f \in answers[at[1]][at[2]]})
=============================================================================
