---------------------------- MODULE CloudBackend ----------------------------
(***************************************************************************)
(* The cloud back ends of timmy/backends.py, and who calls them: the page  *)
(* POST /grok/chat (dashboard/routes/grok.py), which holds the event loop  *)
(* for the whole call, and in worker threads the tool consult_grok         *)
(* (timmy/tools.py) and the chats of an agent that is a ClaudeBackend.     *)
(*                                                                         *)
(* Calls in several threads share a back end, and with it the conversation *)
(* that is sent along with every question.  A thread may lose the          *)
(* interpreter between any two calls of a method, so that the question,    *)
(* the answer and the trimming of one call are three actions; an           *)
(* assignment with a slice is one.                                         *)
(***************************************************************************)
EXTENDS Naturals, Sequences, SequencesExt, FiniteSets

CONSTANTS
    Consults,     \* calls of consult_grok
    GrokPages,    \* POST /grok/chat requests
    ClaudeChats,  \* calls of a ClaudeBackend
    NoBackend,    \* None
    Context,      \* messages sent along (10)
    Kept          \* messages kept (20)

GrokCalls == Consults \cup GrokPages
Calls == GrokCalls \cup ClaudeChats

ASSUME BackendAssumption ==
    /\ Consults \cap GrokPages = {} /\ GrokCalls \cap ClaudeChats = {}
    /\ NoBackend \notin Calls /\ "claude" \notin Calls
    \* Both count whole exchanges.
    /\ Context \in Nat \ {0} /\ Context % 2 = 0
    /\ Kept \in Nat \ {0} /\ Kept % 2 = 0

\* Every GrokBackend is named after the call that created it.
Backends == Calls \cup {"claude"}

VARIABLES
    stage,       \* where every call is
    singleton,   \* _grok_backend
    uses,        \* per call: its back end
    past,        \* per back end: _history
    sent,        \* per call: what went along with its question
    requests,    \* per GrokBackend: stats.total_requests
    errors,      \* per GrokBackend: stats.errors
    shared       \* history: the back ends that had two calls at once

backendVars == <<stage, singleton, uses, past, sent, requests, errors, shared>>

----------------------------------------------------------------------------
Recording == {"question", "answer", "trim"}
Message == {"user", "assistant"} \X Calls

BackendTypeOK ==
    /\ stage \in [Calls -> Recording \cup {"idle", "create", "asking", "over", "failed"}]
    /\ singleton \in GrokCalls \cup {NoBackend}
    /\ uses \in [Calls -> Backends \cup {NoBackend}]
    /\ past \in [Backends -> Seq(Message)]
    /\ sent \in [Calls -> Seq(Message)]
    /\ requests \in [GrokCalls -> Nat] /\ errors \in [GrokCalls -> Nat]
    /\ shared \subseteq Backends

BackendInit ==
    /\ stage = [c \in Calls |-> "idle"]
    /\ singleton = NoBackend
    /\ uses = [c \in Calls |-> NoBackend]
    /\ past = [b \in Backends |-> <<>>]
    /\ sent = [c \in Calls |-> <<>>]
    /\ requests = [b \in GrokCalls |-> 0]
    /\ errors = [b \in GrokCalls |-> 0]
    /\ shared = {}

Under(c) == stage[c] \in Recording \cup {"asking"}
Newest(s, n) == SubSeq(s, IF Len(s) > n THEN Len(s) - n + 1 ELSE 1, Len(s))

----------------------------------------------------------------------------
(* Asking. *)
\* run() with a key configured: _build_messages().
Ask(c, b) ==
    /\ stage' = [stage EXCEPT ![c] = "asking"]
    /\ uses' = [uses EXCEPT ![c] = b]
    /\ sent' = [sent EXCEPT ![c] = Newest(past[b], Context)]
    /\ shared' = shared \cup {b : d \in {e \in Calls : uses[e] = b /\ Under(e)}}
    /\ UNCHANGED <<past, requests, errors>>

\* get_grok_backend() finds none.
MissesBackend(c) ==
    /\ singleton = NoBackend
    /\ stage' = [stage EXCEPT ![c] = "create"]
    /\ UNCHANGED <<singleton, uses, past, sent, requests, errors, shared>>

FindsBackend(c) ==
    /\ singleton # NoBackend
    /\ Ask(c, singleton)
    /\ UNCHANGED singleton

\* consult_grok() of an agent, in its thread.
ConsultGrok(c) ==
    /\ stage[c] = "idle"
    /\ MissesBackend(c) \/ FindsBackend(c)

\* _run_grok_query() for POST /grok/chat: one after the other.
RunGrokQuery(c) ==
    /\ stage[c] = "idle"
    /\ \A d \in GrokPages : stage[d] \in {"idle", "over", "failed"}
    /\ MissesBackend(c) \/ FindsBackend(c)

\* Two threads that find none create one each, and the later one stays.
CreateBackend(c) ==
    /\ stage[c] = "create"
    /\ singleton' = c
    /\ Ask(c, c)

AskClaude(c) ==
    /\ stage[c] = "idle"
    /\ Ask(c, "claude")
    /\ UNCHANGED singleton

----------------------------------------------------------------------------
(* The answer. *)
GrokAnswers(c) ==
    /\ stage[c] = "asking"
    /\ stage' = [stage EXCEPT ![c] = "question"]
    /\ requests' = [requests EXCEPT ![uses[c]] = @ + 1]
    /\ UNCHANGED <<singleton, uses, past, sent, errors, shared>>

\* Mutant: the question of a call that fails stays in the history.
GrokFailsRemembered(c) ==
    /\ stage[c] = "asking"
    /\ stage' = [stage EXCEPT ![c] = "failed"]
    /\ errors' = [errors EXCEPT ![uses[c]] = @ + 1]
    /\ past' = [past EXCEPT ![uses[c]] = Append(@, <<"user", c>>)]
    /\ UNCHANGED <<singleton, uses, sent, requests, shared>>

\* The error becomes the content of the result.
GrokFails(c) ==
    /\ stage[c] = "asking"
    /\ stage' = [stage EXCEPT ![c] = "failed"]
    /\ errors' = [errors EXCEPT ![uses[c]] = @ + 1]
    /\ UNCHANGED <<singleton, uses, past, sent, requests, shared>>

ClaudeAnswers(c) ==
    /\ stage[c] = "asking"
    /\ stage' = [stage EXCEPT ![c] = "question"]
    /\ UNCHANGED <<singleton, uses, past, sent, requests, errors, shared>>

ClaudeFails(c) ==
    /\ stage[c] = "asking"
    /\ stage' = [stage EXCEPT ![c] = "failed"]
    /\ UNCHANGED <<singleton, uses, past, sent, requests, errors, shared>>

Record(c, from, to, role) ==
    /\ stage[c] = from
    /\ stage' = [stage EXCEPT ![c] = to]
    /\ past' = [past EXCEPT ![uses[c]] = Append(@, <<role, c>>)]
    /\ UNCHANGED <<singleton, uses, sent, requests, errors, shared>>

RecordQuestion(c) == Record(c, "question", "answer", "user")
RecordAnswer(c) == Record(c, "answer", "trim", "assistant")

TrimHistory(c) ==
    /\ stage[c] = "trim"
    /\ stage' = [stage EXCEPT ![c] = "over"]
    /\ past' = [past EXCEPT ![uses[c]] = Newest(@, Kept)]
    /\ UNCHANGED <<singleton, uses, sent, requests, errors, shared>>

\* Bound: Grok and Claude share nothing, so a behaviour uses one of them.
OneService == (\A c \in GrokCalls : stage[c] = "idle") \/ (\A c \in ClaudeChats : stage[c] = "idle")

BackendStep ==
    \/ \E c \in Consults : ConsultGrok(c)
    \/ \E c \in GrokPages : RunGrokQuery(c)
    \/ \E c \in GrokCalls : CreateBackend(c) \/ GrokAnswers(c) \/ GrokFails(c)
    \/ \E c \in ClaudeChats : AskClaude(c) \/ ClaudeAnswers(c) \/ ClaudeFails(c)
    \/ \E c \in Calls : RecordQuestion(c) \/ RecordAnswer(c) \/ TrimHistory(c)

BackendNext == BackendStep /\ OneService'

BackendSpec == BackendInit /\ [][BackendStep]_backendVars

----------------------------------------------------------------------------
\* What goes along with a question is a conversation - questions and answers in
\* turn, a question first - as long as no two calls used the back end at once,
\* although messages are cut off at both ends.  (Once two did, the cut can fall
\* between them, and Claude takes no conversation that begins with an answer.)
ContextIsConversation ==
    \A c \in Calls :
        uses[c] # NoBackend /\ uses[c] \notin shared =>
            \A i \in DOMAIN sent[c] : sent[c][i][1] = (IF i % 2 = 1 THEN "user" ELSE "assistant")
=============================================================================
