---------------------------- MODULE DiscordThreads ----------------------------
(***************************************************************************)
(* How the Discord bot answers a mention (_handle_message of               *)
(* vendors/discord.py): it opens a thread, asks the agent in a thread of   *)
(* the executor, gives up after five minutes, and sends the answer in      *)
(* chunks.  Handlers of several messages run side by side; an agent that   *)
(* hangs keeps its worker.  DiscordBot has the life of the client, which   *)
(* here is open and then closed.                                           *)
(*                                                                         *)
(* A text is a sequence of letters, each its own position, and newlines,   *)
(* which are 0.  The bot remembers the newest thread of a channel          *)
(* (_active_threads) but never looks it up: that is left out.              *)
(***************************************************************************)
EXTENDS Naturals, Sequences, SequencesExt, FiniteSets, Filters

CONSTANTS
    Mentions,      \* messages that mention the bot, or come to it directly
    Posts,         \* calls of send_message() and create_thread()
    PoolSize,      \* workers of the executor
    ChunkMax,      \* characters of a message that Discord takes (2000)
    Answers,       \* texts that an agent may answer
    TextMax        \* bound: characters of a text

VARIABLES
    clientOpen,    \* the client has not been closed
    threads,       \* threads of the channel, named after what opened them
    handler,       \* per mention: where its handler is
    target,        \* per mention: where its answer goes
    job,           \* per mention: agent.run() in the executor
    reply,         \* per mention: the text that the handler has for it
    unsent,        \* per mention: the chunks that are still to be sent
    cutOff,        \* history: the mentions for which a chunk could not be sent
    posted,        \* the posts that were made
    shown          \* per place: the messages in it, with what they belong to

threadVars == <<clientOpen, threads, handler, target, job, reply, unsent,
                cutOff, posted, shown>>

----------------------------------------------------------------------------
Newline == 0
Places == {"channel", "dm"} \cup Mentions \cup Posts

\* What _clean_response() leaves: no blank lines, none at the ends; perhaps nothing.
Texts ==
    {s \in BoundedSeq(0 .. TextMax, TextMax) :
        /\ \A i \in DOMAIN s : s[i] \in {Newline, i}
        /\ \A i \in DOMAIN s : s[i] = Newline =>
              i \notin {1, Len(s)} /\ s[i - 1] # Newline}

ASSUME ThreadsAssumption ==
    /\ PoolSize \in Nat \ {0} /\ ChunkMax \in Nat \ {0} /\ TextMax \in Nat \ {0}
    /\ Answers \subseteq Texts
    /\ Mentions \cap Posts = {} /\ {"channel", "dm"} \cap (Mentions \cup Posts) = {}

Letters(text) == Filter(text, Nat \ {Newline})

\* "Sorry, that took too long", or "I'm having trouble": one chunk.
Excuse == <<1>>

\* Where a chunk that begins at i ends: at the last newline that fits, or with as
\* much as fits.
NewlinesIn(text, i) == {j \in i .. i + ChunkMax - 1 : text[j] = Newline}

SplitAt(text, i) ==
    LET newlines == NewlinesIn(text, i)
    IN  IF newlines = {} THEN i + ChunkMax
        ELSE CHOOSE j \in newlines : \A k \in newlines : k <= j

\* The next chunk begins after the newlines that follow.
NextFrom(text, i) ==
    CHOOSE j \in i .. Len(text) : /\ text[j] # Newline
                                  /\ \A k \in i .. j - 1 : text[k] = Newline

\* _chunk_message().
ChunkMessage(text) ==
    LET n == Len(text)
        from[i \in 1 .. n + 1] ==
            IF n - i + 1 <= ChunkMax THEN <<SubSeq(text, i, n)>>
            ELSE <<SubSeq(text, i, SplitAt(text, i) - 1)>>
                     \o from[NextFrom(text, SplitAt(text, i))]
    IN  from[1]

\* Every text comes out of it as it went in, but for newlines, and fits.
ChunksAreTexts ==
    \A text \in Texts :
        /\ Letters(FlattenSeq(ChunkMessage(text))) = Letters(text)
        /\ \A i \in DOMAIN ChunkMessage(text) : Len(ChunkMessage(text)[i]) <= ChunkMax
        /\ text # <<>> => <<>> \notin ToSet(ChunkMessage(text))

ThreadsTypeOK ==
    /\ clientOpen \in BOOLEAN
    /\ threads \subseteq Mentions \cup Posts
    /\ handler \in [Mentions -> {"new", "threading", "waiting", "sending", "over"}]
    /\ target \in [Mentions -> Places]
    /\ job \in [Mentions -> {"none", "queued", "running", "cancelled", "done"}]
    /\ reply \in [Mentions -> Texts]
    /\ unsent \in [Mentions -> Seq(Seq(Nat))]
    /\ cutOff \subseteq Mentions /\ posted \subseteq Posts
    /\ shown \in [Places -> Seq((Mentions \cup Posts) \X Seq(Nat))]

ThreadsInit ==
    /\ clientOpen = TRUE
    /\ threads = {}
    /\ handler = [m \in Mentions |-> "new"]
    /\ target = [m \in Mentions |-> "channel"]
    /\ job = [m \in Mentions |-> "none"]
    /\ reply = [m \in Mentions |-> <<>>]
    /\ unsent = reply
    /\ cutOff = {} /\ posted = {}
    /\ shown = [p \in Places |-> <<>>]

----------------------------------------------------------------------------
(* The executor. *)
JobsRunning == {m \in Mentions : job[m] = "running"}

StartJob(m) ==
    /\ job[m] = "queued" /\ Cardinality(JobsRunning) < PoolSize
    /\ job' = [job EXCEPT ![m] = "running"]
    /\ UNCHANGED <<clientOpen, threads, handler, target, reply, unsent,
                   cutOff, posted, shown>>

\* The handler has a text, cleaned, which it starts to send.
Replies(m, text) ==
    /\ handler' = [handler EXCEPT ![m] = "sending"]
    /\ reply' = [reply EXCEPT ![m] = text]
    /\ unsent' = [unsent EXCEPT ![m] = ChunkMessage(text)]

\* The agent has run, well or not; nobody may be waiting any more.  An answer without
\* a text counts as an empty one: of neither is anything sent.
JobEnds(m) ==
    /\ job[m] = "running"
    /\ job' = [job EXCEPT ![m] = "done"]
    /\ IF handler[m] = "waiting" THEN \E text \in Answers \cup {Excuse} : Replies(m, text)
       ELSE UNCHANGED <<handler, reply, unsent>>
    /\ UNCHANGED <<clientOpen, threads, target, cutOff, posted, shown>>

\* wait_for() gives up, and cancels what has not begun.
TimesOutAs(m, j) ==
    /\ job' = [job EXCEPT ![m] = j]
    /\ Replies(m, Excuse)
    /\ UNCHANGED <<clientOpen, threads, target, cutOff, posted, shown>>

\* Mutant: the five minutes begin when the agent does.
RunTimesOut(m) == handler[m] = "waiting" /\ job[m] = "running" /\ TimesOutAs(m, "running")

AgentTimesOut(m) ==
    /\ handler[m] = "waiting"
    /\ TimesOutAs(m, IF job[m] = "queued" THEN "cancelled" ELSE job[m])

----------------------------------------------------------------------------
(* The handler. *)

\* The agent is asked, unless there is none or the client cannot be typing.
AskAgent(m) ==
    \/ /\ handler' = [handler EXCEPT ![m] = "waiting"]
       /\ job' = [job EXCEPT ![m] = "queued"]
       /\ UNCHANGED <<reply, unsent>>
    \/ Replies(m, Excuse) /\ UNCHANGED job

\* Mentioned in the channel, where a thread is opened first.
MentionInChannel(m) ==
    /\ clientOpen /\ handler[m] = "new"
    /\ handler' = [handler EXCEPT ![m] = "threading"]
    /\ UNCHANGED <<clientOpen, threads, target, job, reply, unsent,
                   cutOff, posted, shown>>

\* Mentioned in a thread, or written to directly.
MentionElsewhere(m) ==
    /\ clientOpen /\ handler[m] = "new"
    /\ \E p \in threads \cup {"dm"} : target' = [target EXCEPT ![m] = p]
    /\ AskAgent(m)
    /\ UNCHANGED <<clientOpen, threads, cutOff, posted, shown>>

ThreadOpens(m) ==
    /\ clientOpen /\ handler[m] = "threading"
    /\ threads' = threads \cup {m}
    /\ target' = [target EXCEPT ![m] = m]
    /\ AskAgent(m)
    /\ UNCHANGED <<clientOpen, cutOff, posted, shown>>

\* The answer will go to the channel.
ThreadFails(m) ==
    /\ handler[m] = "threading"
    /\ AskAgent(m)
    /\ UNCHANGED <<clientOpen, threads, target, cutOff, posted, shown>>

SendChunk(m) ==
    /\ clientOpen /\ handler[m] = "sending" /\ Head(unsent[m]) # <<>>
    /\ shown' = [shown EXCEPT ![target[m]] = Append(@, <<m, Head(unsent[m])>>)]
    /\ unsent' = [unsent EXCEPT ![m] = Tail(@)]
    /\ handler' = [handler EXCEPT ![m] = IF Len(unsent[m]) = 1 THEN "over" ELSE @]
    /\ UNCHANGED <<clientOpen, threads, target, job, reply, cutOff, posted>>

\* Mutant: a chunk that cannot be sent is skipped.
ChunkSkipped(m) ==
    /\ handler[m] = "sending"
    /\ unsent' = [unsent EXCEPT ![m] = Tail(@)]
    /\ handler' = [handler EXCEPT ![m] = IF Len(unsent[m]) = 1 THEN "over" ELSE @]
    /\ cutOff' = cutOff \cup {m}
    /\ UNCHANGED <<clientOpen, threads, target, job, reply, posted, shown>>

\* A chunk cannot be sent, an empty one never: the rest is not tried.
ChunkFails(m) ==
    /\ handler[m] = "sending"
    /\ unsent' = [unsent EXCEPT ![m] = <<>>]
    /\ handler' = [handler EXCEPT ![m] = "over"]
    /\ cutOff' = cutOff \cup {m}
    /\ UNCHANGED <<clientOpen, threads, target, job, reply, posted, shown>>

----------------------------------------------------------------------------
(* send_message() and create_thread(), for whoever calls them. *)
SendMessage(c) ==
    /\ clientOpen /\ c \notin posted
    /\ \E p \in threads \cup {"channel", "dm"} :
          shown' = [shown EXCEPT ![p] = Append(@, <<c, Excuse>>)]
    /\ posted' = posted \cup {c}
    /\ UNCHANGED <<clientOpen, threads, handler, target, job, reply, unsent,
                   cutOff>>

\* The thread is there even if its first message cannot be sent.
CreateThread(c) ==
    /\ clientOpen /\ c \notin posted
    /\ threads' = threads \cup {c} /\ posted' = posted \cup {c}
    /\ shown' \in {shown, [shown EXCEPT ![c] = <<<<c, Excuse>>>>]}
    /\ UNCHANGED <<clientOpen, handler, target, job, reply, unsent, cutOff>>

\* stop(), from outside.
CloseClient ==
    /\ clientOpen /\ clientOpen' = FALSE
    /\ UNCHANGED <<threads, handler, target, job, reply, unsent, cutOff,
                   posted, shown>>

ThreadsNext ==
    \/ CloseClient
    \/ \E m \in Mentions :
          \/ MentionInChannel(m) \/ MentionElsewhere(m) \/ ThreadOpens(m) \/ ThreadFails(m)
          \/ StartJob(m) \/ JobEnds(m) \/ AgentTimesOut(m)
          \/ SendChunk(m) \/ ChunkFails(m)
    \/ \E c \in Posts : SendMessage(c) \/ CreateThread(c)

\* Discord answers or refuses, and time passes; the agent may hang for ever.
ThreadsFairness ==
    \A m \in Mentions :
        /\ WF_threadVars(ThreadOpens(m) \/ ThreadFails(m))
        /\ WF_threadVars(AgentTimesOut(m))
        /\ WF_threadVars(SendChunk(m) \/ ChunkFails(m))

ThreadsSpec == ThreadsInit /\ [][ThreadsNext]_threadVars /\ ThreadsFairness

----------------------------------------------------------------------------
\* What is shown of the answer to m at a place, among other messages.
Of(m, p) == Filter(shown[p], {m} \X Seq(Nat))

Sent(m) == FlattenSeq([i \in DOMAIN Of(m, target[m]) |-> Of(m, target[m])[i][2]])

\* What is shown of an answer, among whatever else is sent to the same place, is
\* its text from the beginning, in order and without a gap, in messages that
\* Discord takes; all of it, when the handler is over and nothing failed.  An
\* answer that comes after the excuse is not shown.
RepliesAreWhole ==
    /\ \A m \in Mentions :
            /\ IsPrefix(Letters(Sent(m)), Letters(reply[m]))
            /\ handler[m] = "over" /\ m \notin cutOff => Letters(Sent(m)) = Letters(reply[m])
            /\ \A p \in Places \ {target[m]} : Of(m, p) = <<>>
            /\ \A i \in DOMAIN Of(m, target[m]) : Len(Of(m, target[m])[i][2]) <= ChunkMax
    /\ ChunksAreTexts

\* A handler comes to its end, even while agents that hang have all the workers.
EveryMentionIsHandled ==
    \A m \in Mentions : handler[m] \in {"threading", "waiting", "sending"} ~> handler[m] = "over"
=============================================================================
