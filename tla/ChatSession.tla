----------------------------- MODULE ChatSession -----------------------------
(***************************************************************************)
(* Chatting with the agent: the two chat endpoints of the dashboard        *)
(* (routes/agents.py, routes/chat_api.py), timmy/session.py, and what a    *)
(* chat reads and writes - the agent singleton, the message log            *)
(* (dashboard/store.py) and the two files that hold the user's name        *)
(* (timmy/memory_system.py).                                               *)
(*                                                                         *)
(* A browser chat runs session.chat() in a worker thread of the default    *)
(* executor and returns to the event loop; a mobile chat calls it on the   *)
(* event loop, which it holds until it has its answer.  Chats in different *)
(* threads interleave at every read and write of a file.                   *)
(*                                                                         *)
(* MEMORY.md is its "User Profile" section and the rest, a version number  *)
(* that counts the edits the owner made with an editor.  Reading a file    *)
(* and writing it back are two actions; what happens when two of these     *)
(* overlap is more than the model follows (write_text() truncates first),  *)
(* so an overlap only marks the files as torn.                             *)
(***************************************************************************)
EXTENDS Naturals, Sequences, SequencesExt, FiniteSets

CONSTANTS
    Browser,    \* chats posted to /agents/default/chat
    Mobile,     \* chats posted to /api/chat
    Names,      \* names a user may give
    NoName,     \* no name in a message, "(unknown)" in a file
    NoChat,     \* no chat
    Workers,    \* threads of the default executor
    MaxEdits    \* bound: edits of MEMORY.md by the owner

Chats == Browser \cup Mobile

ASSUME ChatAssumption ==
    /\ Browser \cap Mobile = {} /\ NoChat \notin Chats
    /\ NoName \notin Names
    /\ Workers \in Nat \ {0} /\ MaxEdits \in Nat

VARIABLES
    pc,       \* where every chat is
    told,     \* the name extract_user_name() finds in the message of a chat, while it matters
    queue,    \* browser chats waiting for a worker thread
    loop,     \* the mobile chat that holds the event loop
    agent,    \* session._agent: the chat that created it
    wordless, \* chats whose agent answered without a text (run.content is None)
    log,      \* message_log: <<role, chat>>
    profile,  \* the name in memory/self/user_profile.md
    hot,      \* MEMORY.md
    cache,    \* HotMemory._content
    valid,    \* HotMemory._last_modified is the modification time of the file
    base,     \* per chat: what it read of the file it is about to write
    torn,     \* history: two accesses overlapped, or one ended in an exception
    last      \* history: the name learned last

files == <<profile, hot, cache, valid, base, torn, last>>
vars == <<pc, told, queue, loop, agent, wordless, log, files>>

----------------------------------------------------------------------------
InThread == {"start", "create", "learn", "profile", "hot", "run"}
HotFile == [name : Names \cup {NoName}, rest : 0 .. MaxEdits]
NoContent == [name |-> NoName, rest |-> MaxEdits + 1]
Roles == {"user", "agent", "error"}

Free == loop = NoChat
Running == {c \in Browser : pc[c] \in InThread}
Updating == {c \in Chats : pc[c] \in {"profile", "hot"}}

TypeOK ==
    /\ pc \in [Chats -> InThread \cup {"idle", "queued", "reply", "failed", "done", "lost"}]
    /\ told \in [Chats -> Names \cup {NoName}]
    /\ IsInjective(queue) /\ ToSet(queue) = {c \in Browser : pc[c] = "queued"}
    /\ Cardinality(Running) <= Workers
    /\ loop \in Mobile \cup {NoChat}
    /\ \A c \in Mobile : loop = c <=> pc[c] \in InThread \cup {"reply", "failed"}
    /\ agent \in Chats \cup {NoChat}
    /\ wordless \subseteq Chats
    /\ log \in Seq(Roles \X Chats)
    /\ profile \in Names \cup {NoName}
    /\ hot \in HotFile
    /\ cache \in HotFile \cup {NoContent}
    /\ valid \in BOOLEAN /\ torn \in BOOLEAN
    /\ base \in [Chats -> HotFile \cup {NoContent}]
    /\ last \in Names \cup {NoName}

Init ==
    /\ pc = [c \in Chats |-> "idle"]
    /\ told = [c \in Chats |-> NoName]
    /\ queue = <<>>
    /\ loop = NoChat
    /\ agent = NoChat
    /\ wordless = {}
    /\ log = <<>>
    /\ profile = NoName
    /\ hot = [name |-> NoName, rest |-> 0]
    /\ cache = NoContent
    /\ valid = FALSE
    /\ base = [c \in Chats |-> NoContent]
    /\ torn = FALSE
    /\ last = NoName

Goto(c, place) == pc' = [pc EXCEPT ![c] = place]
Told(c, n) == told' = [told EXCEPT ![c] = n]

----------------------------------------------------------------------------
(* The requests. *)
\* Mutant: the question is logged when the chat is posted, not with its answer.
PostBrowserLogs(c) ==
    /\ Free
    /\ pc[c] = "idle"
    /\ \E n \in Names \cup {NoName} : Told(c, n)
    /\ Goto(c, "queued")
    /\ queue' = Append(queue, c)
    /\ log' = Append(log, <<"user", c>>)
    /\ UNCHANGED <<loop, agent, wordless, files>>

\* chat_agent() hands session.chat() to the executor.
PostBrowser(c) ==
    /\ Free
    /\ pc[c] = "idle"
    /\ \E n \in Names \cup {NoName} : Told(c, n)
    /\ Goto(c, "queued")
    /\ queue' = Append(queue, c)
    /\ UNCHANGED <<loop, agent, wordless, log, files>>

StartWorker ==
    /\ queue # <<>>
    /\ Cardinality(Running) < Workers
    /\ Goto(Head(queue), "start")
    /\ queue' = Tail(queue)
    /\ UNCHANGED <<told, loop, agent, wordless, log, files>>

\* api_chat() calls session.chat() itself.
PostMobile(c) ==
    /\ Free
    /\ pc[c] = "idle"
    /\ \E n \in Names \cup {NoName} : Told(c, n)
    /\ Goto(c, "start")
    /\ loop' = c
    /\ UNCHANGED <<queue, agent, wordless, log, files>>

----------------------------------------------------------------------------
(* session.chat(). *)
\* _get_agent() finds the singleton, or none.
GetAgent(c) ==
    /\ pc[c] = "start"
    /\ Goto(c, IF agent = NoChat THEN "create" ELSE "learn")
    /\ UNCHANGED <<told, queue, loop, agent, wordless, log, files>>

\* Mutant: a cache that never looks at the file again.
ReadOnce == IF cache # NoContent THEN cache ELSE hot

\* HotMemory.read().
Read == IF cache # NoContent /\ valid THEN cache ELSE hot

\* create_timmy() reads MEMORY.md for the prompt (get_system_context()); a
\* second thread that found no agent either replaces the first one's.
CreateAgent(c) ==
    /\ pc[c] = "create"
    /\ agent' = c
    /\ cache' = Read
    /\ valid' = TRUE
    /\ torn' = (torn \/ Updating # {})
    /\ Goto(c, "learn")
    /\ UNCHANGED <<told, queue, loop, wordless, log, profile, hot, base, last>>

\* create_timmy() raises: so does session.chat().
CreationFails(c) ==
    /\ pc[c] = "create"
    /\ Goto(c, "failed")
    /\ Told(c, NoName)
    /\ UNCHANGED <<queue, loop, agent, wordless, log, files>>

\* _extract_facts(): no name in the message.
NothingToLearn(c) ==
    /\ pc[c] = "learn"
    /\ told[c] = NoName
    /\ Goto(c, "run")
    /\ UNCHANGED <<told, queue, loop, agent, wordless, log, files>>

\* update_user_fact(): update_user_profile() reads the profile ...
ReadProfile(c) ==
    /\ pc[c] = "learn"
    /\ told[c] # NoName
    /\ torn' = (torn \/ Updating # {})
    /\ Goto(c, "profile")
    /\ UNCHANGED <<told, queue, loop, agent, wordless, log, profile, hot, cache, valid, base, last>>

\* ... and writes it with the name; then update_section() reads MEMORY.md ...
WriteProfile(c) ==
    /\ pc[c] = "profile"
    /\ profile' = told[c]
    /\ base' = [base EXCEPT ![c] = Read]
    /\ cache' = Read
    /\ valid' = TRUE
    /\ torn' = (torn \/ Updating # {c})
    /\ Goto(c, "hot")
    /\ UNCHANGED <<told, queue, loop, agent, wordless, log, hot, last>>

\* ... and writes what it read with the new "User Profile" section.
WriteHot(c) ==
    /\ pc[c] = "hot"
    /\ hot' = [base[c] EXCEPT !.name = told[c]]
    /\ cache' = hot'
    /\ valid' = TRUE
    /\ base' = [base EXCEPT ![c] = NoContent]
    /\ torn' = (torn \/ Updating # {c})
    /\ last' = told[c]
    /\ Goto(c, "run")
    /\ Told(c, NoName)
    /\ UNCHANGED <<queue, loop, agent, wordless, log, profile>>

\* A file cannot be read or written: _extract_facts() goes on without it.
LearningFails(c) ==
    /\ pc[c] \in {"profile", "hot"}
    /\ base' = [base EXCEPT ![c] = NoContent]
    /\ torn' = TRUE
    /\ Goto(c, "run")
    /\ Told(c, NoName)
    /\ UNCHANGED <<queue, loop, agent, wordless, log, profile, hot, cache, valid, last>>

\* agent.run() answers, with a text or without one (chat() returns None), or it
\* raises, when its back end is away or too slow: that gives a text, too.
RunAgent(c) ==
    /\ pc[c] = "run"
    /\ wordless' \in {wordless, wordless \cup {c}}
    /\ Goto(c, "reply")
    /\ UNCHANGED <<told, queue, loop, agent, log, files>>

----------------------------------------------------------------------------
(* Back on the event loop. *)
\* chat_agent() logs no answer without a text, api_chat() logs it all the same.
AnswerIsLogged(c) == ~(c \in Browser /\ c \in wordless)

Exchange(c) ==
    IF AnswerIsLogged(c)
    THEN << <<"user", c>>, <<IF pc[c] = "failed" THEN "error" ELSE "agent", c>> >>
    ELSE << <<"user", c>> >>

\* Mutant: nobody catches the exception of a chat.
AnswerReplies(c) ==
    /\ pc[c] = "reply"
    /\ loop \in {NoChat, c}
    /\ log' = log \o Exchange(c)
    /\ loop' = NoChat
    /\ Goto(c, "done")
    /\ UNCHANGED <<told, queue, agent, wordless, files>>

Answer(c) ==
    /\ pc[c] \in {"reply", "failed"}
    /\ loop \in {NoChat, c}
    /\ log' = log \o Exchange(c)
    /\ loop' = NoChat
    /\ Goto(c, "done")
    /\ UNCHANGED <<told, queue, agent, wordless, files>>

\* DELETE of either history.
ClearHistory ==
    /\ Free
    /\ log # <<>>
    /\ log' = <<>>
    /\ UNCHANGED <<pc, told, queue, loop, agent, wordless, files>>

----------------------------------------------------------------------------
(* The environment. *)
\* The owner saves MEMORY.md from an editor.
EditHot ==
    /\ hot.rest < MaxEdits
    /\ hot' = [hot EXCEPT !.rest = @ + 1]
    /\ valid' = FALSE
    /\ torn' = (torn \/ Updating # {})
    /\ UNCHANGED <<pc, told, queue, loop, agent, wordless, log, profile, cache, base, last>>

\* The process dies and is started again; chats under way are lost.
Restart ==
    /\ pc' = [c \in Chats |-> IF pc[c] \in {"idle", "done"} THEN pc[c] ELSE "lost"]
    /\ queue' = <<>>
    /\ loop' = NoChat
    /\ agent' = NoChat
    /\ log' = <<>>
    /\ cache' = NoContent
    /\ valid' = FALSE
    /\ base' = [c \in Chats |-> NoContent]
    /\ told' = [c \in Chats |-> NoName]
    /\ torn' = (torn \/ Updating # {})
    /\ UNCHANGED <<wordless, profile, hot, last>>

Chat(c) ==
    \/ GetAgent(c) \/ CreateAgent(c) \/ CreationFails(c)
    \/ NothingToLearn(c) \/ ReadProfile(c) \/ WriteProfile(c) \/ WriteHot(c)
    \/ LearningFails(c) \/ RunAgent(c) \/ Answer(c)

Next ==
    \/ \E c \in Browser : PostBrowser(c)
    \/ \E c \in Mobile : PostMobile(c)
    \/ StartWorker
    \/ \E c \in Chats : Chat(c)
    \/ ClearHistory
    \/ EditHot
    \/ Restart

\* Threads are scheduled.  agent.run() has no limit of its own; it ends as the calls
\* of its back end do, which time out (timmy/agent.py).
Fairness ==
    /\ WF_vars(StartWorker)
    /\ \A c \in Chats : WF_vars(Chat(c))

Spec == Init /\ [][Next]_vars /\ Fairness

----------------------------------------------------------------------------
(* Properties. *)

\* However chats overlap, fail or are cut off, and whenever the history is
\* cleared, nothing comes between a question and what answers it: an answer or an
\* error directly follows its own question, and a question is directly followed by
\* its own answer or error, unless it is of a browser chat whose agent answered
\* without a text.
IsAnswered(i) ==
    i < Len(log) /\ log[i + 1] \in {<<"agent", log[i][2]>>, <<"error", log[i][2]>>}

LogIsExchanges ==
    \A i \in 1 .. Len(log) :
        IF log[i][1] = "user"
        THEN IsAnswered(i) <=> AnswerIsLogged(log[i][2])
        ELSE i > 1 /\ log[i - 1] = <<"user", log[i][2]>>

\* As long as no two accesses to the files overlapped and none failed, both
\* files hold the name learned last between two chats, the prompts are made
\* from what MEMORY.md holds, and an update never undoes an edit of the owner,
\* although it writes the whole file from a cached copy.
MemoryIsWhole ==
    ~torn =>
       /\ Updating = {} => profile = last /\ hot.name = last
       /\ Read = hot
       /\ \A c \in Updating : base[c] \in {NoContent, hot}

\* Every chat is answered, whatever fails on the way, unless the process dies:
\* chats that wait for a worker and chats that find the event loop held included.
EveryChatIsAnswered ==
    \A c \in Chats : pc[c] \in {"queued", "start"} ~> pc[c] \in {"done", "lost"}

=============================================================================
