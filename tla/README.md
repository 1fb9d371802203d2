# TLA+ models of Timmy Time

TLA+ modules, TLC configurations and TLAPS proofs about the dashboard and agent
platform in this repository. Every definition is translated from the source named in
`PROJECT.json` ("map"); paths below are relative to `src/` of the repository.

## 1. Inventory

The program is one asyncio process (FastAPI dashboard, agents, background loops), any
number of worker processes that share a replicated task table, and thin clients.
Within the process everything between two `await`s is atomic, except for what runs in
the threads of the default executor. Hard behaviour comes from what happens at the
`await`s, from threads that share an object or a file, from remote calls that are lost,
and from processes that die between two writes.

| Component | State | Operations | Hard behaviour | Correct if |
|---|---|---|---|---|
| Cascade router (`infrastructure/router`) | provider objects: status, circuit, opening time, counters | `complete`, control and health endpoints | requests interleave at retries and failovers; late answers; operators | metrics account for requests, breakers move legally, what stays usable is tried, requests end |
| Choice of a model (`cascade.py`, `infrastructure/models/multimodal.py`) | the models seen at Ollama | select, pull, fall back | models come and go behind the manager's back | an image gets a model that sees |
| Brain queue (`brain/client.py`, `worker.py`) | `tasks` table; per worker: loop, claimed task | submit, claim, run, complete, stop | claims race, answers are lost, workers die, commands hang | a task runs at most once, the table tells the truth, pending tasks are claimed |
| Brain memory (`brain/memory.py`) | memories with vectors, facts with counts | remember, recall, facts, context | several processes on a table, limits, missing vectors, calls that always raise | what is known is in the context, accesses are counted |
| WebSocket manager (`ws_manager`), broadcaster, event log | list of connections, bounded history, table of events | connect with replay, disconnect, broadcast, log | the list changes while it is iterated; an event is told later than it is logged | no gap after the replay, misses only from removals, what is logged is told |
| CALM focus stack (`dashboard/routes/calm.py`) | task rows, journal | create, start, complete, defer, reorder, rituals | order of requests, crash between commits, unflushed reads | one NOW task, focus kept, promotions complete |
| Paperclip (`integrations/paperclip`) | running flag; remote issues | runner: poll, check out, comment, close, follow up; bridge: file, delegate, close, wake | HTTP calls that swallow errors, answers that cannot be parsed; one step of several fails; two loops | one result per issue unless it cannot be closed; ok is true; stop ends the loop |
| Discord bot (`integrations/chat_bridge`) | state, client, task; threads | start, stop, events, mentions | time-out against late callback, double start, agents that hang, chunks that fail | the state tells the truth, no client is lost, mentions are handled |
| Telegram bot (`integrations/telegram_bot`) | running flag, application | start, stop | overlapping starts, calls that raise half way | running means polling |
| Chat sessions (`timmy/session.py`, `memory_system.py`, chat routes) | log, agent, two files with a cache | browser and mobile chats, edits | threads read and rewrite whole files | log and memory are whole, chats are answered |
| Grok and Claude back ends (`timmy/backends.py`) | history, singleton, counters | run, history cut | calls of several threads share a history | the context is a conversation |
| Agentic loop (`timmy/agentic_loop.py`) | steps, status | plan, step, adapt, sum up | nested loops need threads, steps fail, answers have no text | completed means completed, loops end |
| Task board and error capture (`dashboard/routes/tasks.py`, `error_capture.py`) | task rows, deduplication cache | status changes, capture, report | any order of requests; marked before reported | hidden tasks are old, a recurring error is reported |
| Briefing and approvals (`timmy/briefing.py`, `approvals.py`) | latest briefing, items | scheduler, page, answers | timers against requests, failures | a pending item is announced |
| Spark (`spark/`) | events, predictions, memories | record, predict, evaluate, consolidate, advise | several commits per event, windows that differ | memory and advice agree |
| Model registry (`infrastructure/models/registry.py`) | two dictionaries, two tables | register, assign, activate, load | failing statements, partial load | models in use survive a restart |
| Memory store (`timmy/memory/vector_store.py`) | entries with embeddings | store, search, edit, prune | embeddings of other processes, calls of the library that fail, limits | what was written is found |
| Thinking engine (`timmy/thinking.py`) | thoughts, last thought | think, chain | several engines, restarts | chains go on |
| Event bus, orchestrator agents, work orders, hands, OpenFang client, pages, voice, shortcuts, serve, mobile app, deployment | little or none | adapters | none of their own, see section 6 | – |

`PROJECT.json` lists each component with its status and each hazard at its line.

## 2. The modules

One module per component; seven small ones compose or instantiate them: `MCBrainQueue` and
`MCWsManager` instantiate, and `ChatPlatforms` (`DiscordBot`, `DiscordThreads`,
`TelegramBot`), `Chats` (`ChatSession`, `CloudBackend`, `ModelChoice`), `Dashboard` (`Calm`,
`Briefing`, `AgenticLoop`), `Stores` (`ModelRegistry`, `MemoryStore`, `BrainMemory`,
`Thoughts`) and `Paperclip` (`PaperclipRunner`, `PaperclipBridge`) put components side by
side that are parts of one process. `Filters` has the operators on sequences that several of
them share. The start of the dashboard is one step of `ModelRegistry` and `MemoryStore`
together. Otherwise the parts share no variable, so that each property only depends on the
steps of its own part; a behaviour therefore moves one part and leaves the others in their
initial states. This loses no behaviour of any part: the product of two systems without a
common variable, projected to one of them, is that system (with stuttering). `EventLog`
extends `WsManager`, with which it does interact.

### Router and models

**CascadeRouter, with CircuitBreaker as its abstract specification.** `prov[p]` is a
`Provider` with its metrics; `opened` abstracts `circuit_opened_at` to "none", younger or
older than the recovery time-out, which is all `_can_close_circuit` tells apart. Each
`complete()` call is a request `r`; `pc[r]` says at which await it is (`calling`: in
`_try_provider`, `sleeping`: between attempts), `at` and `attempt` are its loop variables,
`errors[r]` the providers it has given up on, `served[r]` the one it names in its result.
`NextProvider` is the head of the loop, which skips providers until one is admitted or the
list ends, and is part of the step that leads to it. `usable[r]` is history, kept by
`Watched` beside each step: the providers that have been enabled and healthy (or ready to be
probed) in every state since the request was called. `ControlProvider` and `HealthCheck` are
the operator endpoints, each without an await. `CircuitBreaker` promises that a breaker is
probed only when it is not closed and its time-out has elapsed, and closes only from
half-open or by an operator. `TripAndProbe` is in it because `_record_failure` of one
provider and the probe of the next are one step.

**ModelChoice.** The router's choice is a function of its inputs, and `ImageIsRouted`
compares it with what the configuration and the manager say for every provider of a few
models. The manager has a state: `listed` grows with what it sees of `served`, which
Ollama's user changes. `PullModel` may fail or time out.

### Brain

**BrainQueue.** `status`, `claimedBy` and `created` are columns of the `tasks` table;
`claim_task` is one SQL statement and so one action. Its answer is a second step:
`ClaimAnswered` or `ClaimLost` (lost, or an HTTP error, which the client turns into `None`).
Handlers end in `HandlerReturns` or `HandlerRaises`, which types may do which follows the
five handlers, or stay in a command that hangs (`RunsCommand`); reporting is `Completed` or
`CompletionLost`, as `complete_task` swallows errors. `Crash` and `Restart` are the process,
and `struck` the tasks that such a fault took from their worker (`LosesTask`). `created_at`
is taken as the order of submission.

**BrainMemory.** `memories` is the table by time with or without a vector, `prompt[p]` a
call of `get_context` between its two queries, `reading[r]` a call of `get_facts` between
its SELECT and its UPDATE. A text is the set of what it contains, as `LIKE '%text%'`
compares it. `rqlite` says which half is used. Over rqlite `remember()` and `recall()`
raise before they send anything, since their vector is bytes in a JSON body
(`RememberRemotely`, `RecallRemotely`), and no memory is ever stored.

### Events

**WsManager.** `conns` is the list of connections and `pos[e]` the index kept by the list
iterator in the broadcast of event `e`. A removal moves later clients to the left under
the iterator, an append makes the walk longer. `EndpointEnds` is `swarm_ws`. `live`,
`replayed`, `began`, `audience` and `removed` are history.

**EventLog.** `log_event` writes a row, or fails to, and makes a task of the event loop;
`tasks` is the queue of these. `RunTask` is the head of it. Events that are broadcast
directly are steps of the manager.

### Dashboard

**Calm.** A row of the `tasks` table has a state, `is_mit` and `sort_order`; a handler is
one action, as none awaits. `Promoted` is the set of outcomes of `promote_tasks()`: a set
because SQL leaves the order of equal rows open. `DiesBeforePromotion` and `MorningDies`
are crashes between commits. `Demoted` counts LATER rows as the database has them, since
the session does not autoflush.

**TaskBoard.** One action per request. `stamps` keeps the order of `completed_at`;
`ended` is the order in which tasks really ended, which the property compares with the
column on the page. The error capture marks (`RequestFails`), then files or fails.

**Briefing.** Time in ticks: `Fresh` of them make a briefing old, `Interval` lie between
two turns of the scheduler. `excused` collects the items of turns that met a fault.

**ChatSession.** `pc[c]` follows a chat from its request through the executor's queue to the
log. Each read and each write of the two files is an action; `torn` marks that two
overlapped, after which nothing is promised of them; `wordless` has the chats whose agent
answered without a text, of which those of the browser log the question only
(`AnswerIsLogged`). `hot`, `cache` and `valid` are `MEMORY.md`, the cached copy, and whether
the time stamp still matches.

**CloudBackend.** Question, answer and cut are three actions, since a thread may lose the
interpreter between them; `shared` marks a back end that two calls used at once.

**AgenticLoop.** `origin[l]` says what called the tool: a thread (the loop then has an
event loop and threads of its own), the server, or another loop. An answer without a text
raises where it is parsed or sliced: a plan or a summary out of the loop, a step or an
adaptation after it was recorded (`StepHasNoText`, `AdaptationHasNoText`).

### Integrations

**DiscordBot.** `state`, `current` and `task` are the vendor's attributes; `life[c]` is
what the library's client is doing, `pc[k]` where the startup task, the watcher that it
leaves behind, the setup requests and the shutdown are. The shutdown goes on after
Discord's `stop()` until Telegram's has returned and the startup task is cancelled
(`Leave`); the watcher is cancelled by nobody and runs until the event loop is gone.

**DiscordThreads.** `handler[m]` follows a mention through its thread, the agent in a
worker and its chunks; `job[m]` is the worker, which an agent that hangs keeps.

**TelegramBot.** `being[a]` is what an application of the library is; a library call
raises when it is made in the wrong state, or for reasons of its own.

**PaperclipRunner.** `status`, `assignee` and `parent` are what the calls tell the
tracker; every call may fail before or after it took effect. `pc[l]` is the await at
which loop `l` is. Which open issue comes first is not known to the code, so any does.
An answer that is not a comment ends the cycle before the issue is closed (`CommentRaises`).

**PaperclipBridge.** A request is the list of the calls it has still to make: to file,
delegate or close an issue, or to wake an agent, for any issue or none.
`ApiCallAnswered`, `ApiCallFails`, `AnswerIsLost` and `AnswerIsUnparsed` are the four fates
of a call.

### Stores

**Spark.** `call` is what the handler under way still has to commit; tools add events
from their threads in between. The advisor is a function of the tables.

**ModelRegistry.** Order matters: `cached` and `rows` are sequences.

**MemoryStore.** A vector is the text with what made it: the library, or the salt of the
process where the process has no library or its call failed. A text too short for the
hash then has the vector `Zero`, which is like no other and not like itself.

**Thoughts.** An engine is a process; `lastThought` is read at its start.

## 3. The runs

Ten runs are expected to pass; each ends within three minutes with two TLC workers. The last
two state what a comment of the source says, and TLC finds it violated (section 5).

| Run | Instance | What it shows |
|---|---|---|
| `Cascade.cfg` | 2 requests, 2 providers, 2 attempts, threshold 1, 1 probe, operators | metrics, failover to whatever stayed usable, refinement, legal moves of the breakers, every request ends. Two providers are enough for a failover and for exhausting the list; the thresholds are 1 so that one request trips a breaker and the other closes it again. The proofs cover every number |
| `BrainQueue.cfg` | 2 workers with different capabilities, a shell task for both and a research task for one, 2 faults | four properties; the shell's command may hang; two faults allow a lost claim followed by a crash |
| `WsManager.cfg` | 3 clients, 2 events, history 2, replay 1 | three clients allow a removal before and a survivor after the iterator; the second event passes while a client is still being sent the first |
| `Dashboard.cfg` | 3 tasks; 2 items, freshness 2, interval 4; 2 loops, plans of up to 3 steps cut to 2, 1 thread | three tasks fill NOW, NEXT and LATER and tie in the order; an item per turn and one that comes in between; loops nested, side by side, and waiting for the only thread, one of them with answers without a text |
| `Paperclip.cfg` | 1 loop, 3 issues, each left unclosed once at most; 3 requests, 2 agents, 2 issues | three issues make a follow-up of a follow-up and one that somebody else files; three requests file, delegate, close and wake |
| `ChatPlatforms.cfg` | 2 setup requests per bot beside the startup task, the watcher and the shutdown, 3 clients; 2 mentions, 1 post, 1 worker, answers of up to 5 characters in chunks of 2 | a third client replaces one that replaced another; the second mention waits for a worker; texts fall into up to three chunks with and without a line break |
| `Spark.cfg` | 2 agents, 1 task, 5 events, windows of 4 and 5 | five events do not fit the smaller window; two agents push each other's out of it |
| `TaskBoard.cfg` | 2 tasks, 2 classes of errors, window 2, a column of 1 | the second task hides the first; the second class prunes the first |
| `Chats.cfg` | 2 browser chats, 1 mobile chat, 1 worker; 3 Grok and 3 Claude calls, context 2, history 4; 3 models | one chat waits for the worker; three exchanges overflow the history; a model that sees in neither, in one and in both of the chains |
| `Stores.cfg` | 2 models, 2 agents; 3 entries; 3 memories, 3 facts, 2 readers; 2 engines, 4 thoughts, chains of 3 | each limit is exceeded by one; one text contains another; one text is too short for the hash |
| `CascadeOpen.cfg` (violation) | 1 provider, 4 requests, threshold 1, no operator | `OpenCircuitRejects`: a request is sent to a provider whose breaker has just opened |
| `WsSkipped.cfg` (violation) | 2 clients, 1 event | `AllConnectedReceive`: a broadcast passes over a client that is connected throughout |

Bounds. The sets of requests, tasks, clients, events, mentions, calls and ids bound what
happens in a behaviour; `MaxFaults` bounds lost answers and crashes, `MaxUnclosed` how often
an issue is worked on in vain, `Silent` which loops may get an answer without a text,
`MaxClients`, `MaxEvents`, `MaxMemories`, `MaxReads` and `MaxEdits` what their names say,
and `Spare` and `OneService` are named where they are used. Symmetry is used in runs without
liveness properties only. Deadlock is not checked where a finished behaviour simply stops
because its finite requests are over.

Fairness is assumed of steps that the code or its runtime completes, never of people:

- Router: weak fairness of each request's steps: every call of a provider has a time-out
  and the retry delay is finite.
- Queue: weak fairness of each worker's own steps: its loop survives every exception and
  its calls of the table time out. A command that a handler waits for has no limit
  (`proc.communicate()`), and nothing is assumed of it. `PendingIsClaimed` speaks of a
  worker that is up for good and whose commands end; `ClaimedIsFinished` excuses a task
  only if a fault or a hanging command befell this very task, since there is no lease.
- Runner: weak fairness of each loop's steps; that the work on an issue ends is an
  assumption, since `process_task` sets no limit.
- Discord: Discord answers or refuses, and time passes; an agent may hang for ever, as
  nothing ends its thread.
- Chats: the executor hands out a free worker, and a chat goes on: `agent.run()` has no
  limit of its own, and ends because its back end is given a time-out (`timmy/agent.py:278`).
- Agentic loop: the same, and threads are handed out.
- Error capture: time passes, an error whose cause is not removed comes back for ever,
  and the database does not refuse every report (strong fairness of a report that
  succeeds).

The other modules are checked for safety only.

Every property has a mutant in `PROJECT.json`: a change of one mapped definition such as
a plausible bug would make, under which the run fails.

## 4. Proofs

Every safety property that a run checks, invariants and action properties alike, is also a
theorem, for every value of the constants that satisfies the named assumptions. The type
invariant of every component is one too. The exceptions are the eight liveness
properties, named at the end.

The assumptions (`ASSUME`, named, in the module that declares the constants; TLC evaluates
all of them) are of these kinds: bounds that are natural numbers, mostly not 0; finite sets
where something is counted; a "none" that is no element, and sets of names that are
disjoint; and these facts of the code: the limits of a history count whole exchanges
(`BackendAssumption`), the models of the vision chain see (`ModelsAssumption`), the newer
window is not longer than the wide one and the engine remembers no agent after one outcome
(`LimitsAssumption`), answers are cleaned (`ThreadsAssumption`), the library has a salt as
every process has (`StoreAssumption`).

| Module | Theorems about |
|---|---|
| `CascadeRouterProofs` | the router, and that it implements `CircuitBreaker` |
| `StoresProofs` | the model registry, the memory store, the brain's memory, the thoughts, the brain's queue |
| `LiveProofs` | the WebSocket manager; the event log, and that it implements the manager; the task board |
| `DashboardProofs` | the focus stack, the briefing, the agentic loops, Spark |
| `PaperclipProofs` | the task runner, the bridge |
| `ChatPlatformsProofs` | the lives of the Discord and the Telegram bot, the answers of the former |
| `ChatsProofs` | chats with their log and files, the cloud back ends, the choice of a model |
| `FilterTheorems` | no component: facts about sequences, filters and induction |

Theorems about a component are about its own specification. Where a run checks a
composition, a last theorem (`StoresCorrect`, `DashboardCorrect`, `PaperclipCorrect`,
`PlatformsCorrect`, `ChatsCorrect`) shows that the composed specification implies those of
its parts and therefore their invariants.

**Induction.** The library's theorems on induction take an operator as a parameter, which
no installed prover can instantiate. `FilterTheorems` therefore derives, from the
well-foundedness of `<` on `Nat`, induction for a *set*: a set with 0 and the successors of
its naturals contains `Nat` (`NatSetInduction`), one with `<<>>` and all `Append`s of its
sequences contains `Seq(S)` (`SeqSetInduction`). With these the recursive functions of the
models can be reasoned about: `Filter` of module `Filters` (what `disconnect()`, a deletion
or a query leaves), `FlattenSeq` and `ChunkMessage`, `GetChain`. `Filter` is there because
`SelectSeq` is opaque to the provers.

### Router

`IInv` joins the type invariant with one condition per provider object (opening time
against circuit, probes below the maximum, failures in a row at most the failures) and one
per coroutine (which loop variables are set at which await). `MetricsAccountForRequests`
is not inductive by itself: that a request is counted once needs that it is not yet in
`errors` of the provider it is calling, which follows from `FailoverInOrder`; it also needs
that the sets of requests counted are finite. Each method of a provider object has a lemma
of its own, each action one built on these. `RefinesBreaker` maps every step to a step of
`CircuitBreaker` or a stutter; `RequestsMoveLegally` is an action property from the same
invariant. It says what the refinement does not: `CircuitBreaker` lets an operator close any
breaker, a request must not, however late its answer comes; `ImplementsBreaker` is both.
`UsableTried` has an invariant
of its own (`UsableInv`): the history only shrinks, and what is in it admits a request now;
so what a request goes past while it is being called cannot be in it, and what it tried it
had given up on. `ProbesAreBounded`, `BreakerConsistent` and `FailoverOrdered` are proved
although no run lists them.

### Stores and queue

- *Registry.* `SavedOK`: what the dictionaries have is in the tables, and equal to it but
  for what is marked as unsaved. `LoadedOK`: after a complete load, what they lack is
  inactive. `OrderOK`: without the names that were moved, dictionary and table agree in
  their order. The look-up takes the first active model of a role, so `RestartKeeps` needs
  the order and not only the contents; that a filter commutes with the load is the lemma.
- *Memory store.* `WrittenOK`: what this process wrote and nobody edited has the embedding
  that the process would give its text now, by the library if it has it. `WrittenAreFound`
  then is about the search: the rows are cut at `Limit * Factor` before they are compared,
  so the proof counts those that come before an entry.
- *Brain memory.* `MemoriesOK`: a call that waits for its second answer still finds what was
  known when it began, since memories are only added and only age, and over rqlite there is
  none. `FreshIsFound`, for the search by keyword, counts the newer memories that contain the
  text: fewer than the limit of the search leave the text in its last rows. `ReadsOK`: a reader
  selects a fact once and has an answer left to give; `AccessesCounted` counts pairs of
  reader and answer, a set that each UPDATE makes larger by one per fact.
- *Thoughts.* Parents come before their children in the table, none of an engine's own
  thoughts lies between, and `lastThought` of a running engine is its latest thought.
  `ChainsAreWhole` follows the chain by induction on its length.
- *Queue.* `AtMostOnce` holds because a task that is claimed is never pending again; the
  inductive form ties `runs` to the holder's program counter (`WorkIsCounted`), gives every
  busy worker a task (`BusyHolds`) and every unclaimed task no history
  (`UnclaimedUntouched`). `ClaimedHeld` is the safety half of `ClaimedIsFinished`: a claimed
  task is held by a worker or was taken from one by a fault.

### Events and the task board

- *WebSocket manager.* `WalkOf`: the connected clients that a broadcast has passed over are
  at most the removals since it began. A removal moves at most one client across the
  iterator's index (`FilterMoves`); an append moves none. `CaughtUp`: what a client was or
  will be sent from the history is one stretch of the recorded events, and it is in the
  audience of every event after that stretch. `MissedAreFew` and `NobodyHasAGap` follow.
- *Event log.* Each step of `LogNext` is a step of the manager or leaves it alone
  (`LogImplementsManager`), so the manager's invariant holds without being proved again.
  `PresentOK` adds that whoever was there when an event was logged is in its audience once
  its task ran.
- *Task board.* `StampsOK`: the column `completed_at` orders the finished rows as they last
  ended. Hidden tasks are those that the LIMIT cuts off.

### Dashboard

- *Focus stack.* `OnlyOneNow` with the types is inductive. The lemmas follow the code: one
  per helper on rows (`NoExtras` shows that the demotion at the head of `promote_tasks()`
  never has anything to do), then `PromotedOK`, then one per request. `FocusKept` comes from
  what each of these does to NOW tasks; `PlacesFilled` from the existence of a first row
  among the finitely many that could be promoted.
- *Briefing.* `PendingIsAnnounced` is a bound on time. `Soon` carries it: an item that
  nobody was told of, although nothing went wrong, has waited no longer than the latest
  briefing is old, and the next turn comes before its time is up (`waited + sleep` stays
  below the sum of freshness and interval). A turn that is skipped restores the sum because
  the briefing it finds is fresh.
- *Agentic loops.* `StepsSoFar`: each step before the current one has a record (it may have
  several, so that the length of the records says nothing). `ToldSoFar` ties the broadcasts
  to the current step as long as no step failed: a step that is recorded and then raises is
  not told of until it is adapted. The final status then implies that no step of the plan
  was cut. A step of one loop leaves the others alone.
- *Spark.* The types suffice, with what they say of events: an event of an agent names one.
  `StrugglingWarned` compares two filters of two windows of the same table, and
  `MemoryAgrees` is an action property: it looks at the step that adds a memory.

### Paperclip

- *Runner.* The invariant says that a loop that reports on an issue has a result for it, and
  that what was never filed has no traces; `DoneMeansHandled` is part of it. A second one
  (`FollowUpsAnswerResults`) counts, besides the follow-ups, the loops that are still going
  to file one. `OneLoopRepeats` is a theorem about one loop: `OnceOK` says when the last
  result of an issue is still on its way to closing it.
- *Bridge.* `RequestOK`: a request is not sent yet, was told of an error, was told ok and has
  had its effect, or is on its way, and then either its own call is still to come or only
  a comment and a wake-up are. An agent is woken by what is left of a request whose issue it
  was given, or by a request for just that (`Asked`).

### Chat platforms and chats

- *Discord, the life of the client.* `ConnectedIsReady` and `LiveIsKnown` need the types,
  that a task which has not ended belongs to a client that was created
  (`TasksHaveClients`), and that the client a `stop()` set out to close is closing or closed
  after each of its awaits, whatever ran meanwhile (`ClosingCloses`), and that the startup task
  and the watcher never stop the bot (`BackgroundStarts`). `ReplaceIInv` is the
  heart: whatever `start()` finds, what it forgets is either closed or counted as abandoned.
- *Discord, answers.* `ChunksWhole` is about the code's `_chunk_message`, for every text and
  every length: by induction on what is left of the text, the chunks from a position on
  have its letters, fit, and are not empty. The invariant (`AnswerAt`) then says of a
  handler that sends: the letters of the answer are those that are shown, followed by those
  of the chunks that are not sent. Nothing is shown where no thread is (`ThreadsOK`), so that
  a new thread has no old messages in it.
- *Telegram.* As long as no two coroutines start or stop the bot at once, a start works on
  its own Application, which polls from its last call on (`Starting`), and a stop on the
  one that is there, while none polls (`Stopping`). `BuiltOnce` holds in any case.
- *Chats.* `WhereOK`: chats that wait are in the queue once, and no more run than there are
  workers. `LogOK`: question and answer are appended in one step, and only by chats that are
  done then, so that a later answer without a text changes nothing about an entry.
  `Whole`: while the files are not torn, one chat at most updates them, and what it writes
  to the second file is what it read there with what it wrote to the first one.
- *Cloud back ends.* `TalksOK`: the history of a back end that was never shared by two calls
  at once alternates, and lacks an answer exactly while the call under way is about to
  record it. That cutting it keeps this is a matter of parity (`NewestOK`).
- *Choice of a model.* `SubstituteSees`: no blind substitute is given for an image while a
  model that sees is listed. The router's choice is a function of its inputs; that half of
  `ImageIsSeen` is proved about the operators.

**Only model-checked:** `EveryRequestEnds`, `PendingIsClaimed`, `ClaimedIsFinished`,
`StopEndsLoops`, `EveryMentionIsHandled`, `EveryChatIsAnswered`, `EveryLoopEnds` and
`RecurringErrorIsReported` are liveness under fairness, which is out of reach of the
provers (they do not handle ENABLED, and so not WF and SF).

## 5. Divergences from the docs

Two of them are runs that fail. The code does otherwise than what its comment says:

- `OpenCircuitRejects`: `cascade.py:45` says `OPEN = "open"  # Failing, rejecting
  requests`, but `_record_failure` overwrites the UNHEALTHY of `_open_circuit` with
  DEGRADED when the error rate is above 0.3 and not above 0.5, and `complete()` looks at the
  status only.
- `AllConnectedReceive`: `handler.py:65` says "all connected WebSocket clients", but the
  loop iterates over the list that `disconnect()` shortens while a send is awaited.

The others are in the models, which follow the code, and are listed here for whoever
reads a docstring instead. Where they limit a property, the property says so.

Router and models
- `cascade.py:38` calls UNHEALTHY "Circuit breaker open"; an error rate above one half
  sets it without a trip, and such a provider is then passed over until a request under
  way, an operator or a health check changes it.
- A health check closes a breaker without clearing the failures in a row, so that the
  next failure opens it again.
- `complete()` documents image URLs (`cascade.py:393`); the transformation for Ollama
  skips them. Only VISION is matched with a model, though the capability map names
  more kinds of content.
- `get_model_for_content` (`multimodal.py:384`, "we need a vision-capable model") returns
  any listed model of the chain that the manager was asked for by name.

Brain
- `brain/client.py:54` says of `remember()` "Store a memory with embedding.", but the
  embedding is bytes (`embeddings.py:63`) in the JSON body of the request, which therefore
  always raises before it is sent. `recall()` (`client.py:109`) fails likewise and returns an
  empty list.
- "code" is a documented task type (`client.py:257`) that no worker's detected capabilities
  include: such tasks stay pending. Failed tasks are not retried.
- Tasks of the types "creative" and "general", and those of type "shell" where `zeroclaw` is
  installed, always fail: their handlers end with `remember()`, which raises. A command that
  a handler waits for has no limit (`worker.py:176`, 196, 254), and its worker claims nothing
  more while it hangs.
- The "keyword search" (`brain/memory.py:217`) returns the newest memories that contain the
  question, so that a memory equal to it is not among them when enough newer ones are.
- The memory has the "same API" over rqlite (`brain/memory.py:5`), but its facts then go
  to a local database that nothing initialises. `get_recent` compares ISO strings that
  have a `T` with `datetime('now')`, which has none.

Dashboard
- "This cannot be undone." (`task_card.html:43`) of a veto, yet the status of a vetoed task
  can be changed again; a task with status `backlogged` is in no column.
- The notice "Bug Report Filed" (`error_capture.py:216`) is also sent when the report could
  not be written.
- Memory files are read and written without a lock from several threads, against "without
  data loss" (`memory_system.py:437`); two first chats may build two agents.
- `plan_and_execute` "will run in the background" (`tools.py:466`) only when the chat comes
  from the phone; `steps_completed` counts records, also of failed steps, and a step that
  failed twice is not broadcast. An answer without a text is recorded as completed before it
  raises (`agentic_loop.py:187`), so that a step may have three records and
  `steps_completed` may exceed the number of steps; a plan or a summary without a text raises
  out of the loop.
- A browser chat whose answer has no text and no error logs the question only
  (`agents.py:79`); a mobile chat logs the empty answer.
- `/briefing/regenerate` tells nobody of the items. Of two answers to an item the later one
  wins. `_gather_task_queue_summary` (`briefing.py:169`) fails unless every status occurs.
- Spark's advisor and its memories look at windows of different lengths, so that they
  agree only while both windows reach back far enough (`WindowsSuffice`).

Integrations
- Paperclip's `stop()` (`task_runner.py:208`, "Signal the loop to stop.") followed by
  `start()` within the pause leaves two loops; the result of a checkout is ignored. The
  bridge answers 502 although the tracker may have executed the call. An answer that is not
  an issue or a comment raises outside the client's `try` (`client.py:192`, 203, 225). The
  route that wakes an agent (`routes/paperclip.py:183`) does not look whether the agent has
  the issue.
- Discord: `start()` during a start replaces the client; `stop()` may clear a client that
  another `start()` made meanwhile. `_get_or_create_thread` ("Get the active thread",
  `discord.py:393`) never looks for one. An answer that is empty after cleaning shows
  nothing, nor does one without a text, on which `_chunk_message` raises; a timed-out agent
  keeps its thread and its answer is not sent. The shutdown does not cancel the token
  watcher (`app.py:154`, 251), which may start the bot once more before the event loop ends;
  `on_ready` of a client that is no longer there raises (`discord.py:309`).
- Grok's errors are recorded as answers by its callers, and invoices are made before the
  query. Overlapping calls of a shared Claude back end may send a context that begins
  with an answer.

Stores
- `set_active` works "without removing" the model (`registry.py:188`), but a disabled model
  is not loaded at the next start.
- A memory is "now searchable across all channels" (`semantic_memory.py:441`): its vector
  comes from `hash()`, which differs in every process, when the library is missing or its call
  fails; a text under three characters then has no vector to be found by, and an edited fact
  keeps the vector of its old text.
- `memory_read` filters for facts after the limit, so that newer entries hide them.

Code that has no caller in `src/`, and is left out: `is_grok_mode_active` ("used by other
modules"), `arun` ("used by cascade router and tools"), `expire_old`, the session log's
flush, `register_handler`. `think_once` and the memory of the brain have no caller either,
but are interfaces for agents outside, and are modelled (`Thoughts`, `BrainMemory`).

## 6. Not modelled

| Part | Why |
|---|---|
| Event bus (`infrastructure/events/bus.py`) | publishing appends to a history and runs the matching handlers in one gather; its subscribers are the agents of `timmy/agents`, which nothing creates |
| Agents and adapters (`timmy/agents`) | the orchestrator cannot be built (its tools come from a registry that is `None`), and nothing builds it; the adapters wrap one call |
| Work orders | three requests set a status whatever it was; nothing executes or completes an order, so that no property relates two steps |
| Hands | subprocess calls with a time-out, without state of their own |
| OpenFang client | an HTTP client that only its own package imports |
| Pages, CSRF, templates | functions of one request, without state |
| Voice, shortcuts | regular expressions and calls of other services |
| Timmy serve, inter-agent messages | lists per agent that one caller appends to and reads |
| Configuration | read once at startup |
| Mobile app, deployment | a separate client; build and installation files |

Of the components that are modelled the following is left out: what an agent answers (any
text, or none), scores of similarity (equality of text or of vectors), latencies, costs and
statistics, the Discord OAuth page and tokens, Paperclip's goals, approvals and queries (one
call each, without state), the handoff and notes of the vault and the topics of a
conversation (no caller), and requests that only read.

## 7. Plan

Done: the components of section 1 and, of each of them, proofs of every safety property
that is checked. Next, in this order:

1. Action properties that the inductive invariants make cheap: that the log of chats, the
   history of the manager and what is shown of an answer only ever grow, and that a task of
   the queue that is completed or failed never changes again.
2. An abstract specification of what a chat promises, shared by the browser, the phone and
   Discord, with the three as refinements; and one of a store that the registry implements.
3. Chats and agentic loops over one executor, instead of side by side: how many threads a
   server needs so that chats which start loops are answered.
