------------------------------ MODULE DiscordBot ------------------------------
(***************************************************************************)
(* The life of the Discord bot (DiscordVendor of vendors/discord.py): one  *)
(* singleton whose attributes _state, _client and _task are shared by      *)
(* every coroutine that starts or stops it - the startup task and the      *)
(* token watcher of the dashboard, the POST /discord/setup requests and    *)
(* the shutdown - and by the event handlers of every client it ever made.  *)
(*                                                                         *)
(* A coroutine runs without interruption from one await to the next, so an *)
(* action is the code between two awaits.  The clients themselves belong   *)
(* to the discord library: they log in, lose their connection, resume it   *)
(* and fail on their own.                                                  *)
(***************************************************************************)
EXTENDS Naturals, FiniteSets

CONSTANTS
    Requests,     \* POST /discord/setup requests
    MaxClients,   \* bound: clients that are ever created
    NoClient      \* None

ASSUME ClientsAssumption == MaxClients \in Nat \ {0}
ASSUME NoClientAssumption == NoClient \notin 1..MaxClients
ASSUME NamesAssumption == {"startup", "watcher", "shutdown"} \cap Requests = {}

VARIABLES
    state,      \* DiscordVendor._state
    current,    \* DiscordVendor._client
    task,       \* DiscordVendor._task, named after the client it was created for
    life,       \* what every client is doing; "none" before it is created
    run,        \* what every background task is doing
    runs,       \* per background task: the client it is running
    pc,         \* where every coroutine is
    closing,    \* per coroutine: the client that its stop() has set out to close
    cancelled,  \* per coroutine: the task it has cancelled and awaits in stop()
    abandoned   \* history: clients that were forgotten without being closed, by a
                \* start() that did not find CONNECTED or a stop() of another client

bot == <<state, current, task>>
calls == <<pc, closing, cancelled>>
vars == <<bot, life, run, runs, calls, abandoned>>

Clients == 1..MaxClients
\* The startup task, and the token watcher that it may leave behind.
Background == {"startup", "watcher"}
Coroutines == Background \union {"shutdown"} \union Requests
PlatformStates == {"DISCONNECTED", "CONNECTING", "CONNECTED", "ERROR"}
ClientStates == {"none", "created", "connecting", "ready", "lost", "closing", "closed", "dead"}
TaskStates == {"none", "new", "running", "over"}

\* The clients that have a session with Discord or are on their way to one.
LiveIn(lf) == {c \in Clients : lf[c] \in {"created", "connecting", "ready", "lost"}}

\* Bound: a coroutine that may create a client begins only while one is left
\* for it and for every request that is still in stop().
Spare ==
    Cardinality({c \in Clients : life[c] = "none"}) >
        Cardinality({r \in Requests : pc[r] \in {"closing", "cancelling"}})

Init ==
    /\ state = "DISCONNECTED"
    /\ current = NoClient
    /\ task = NoClient
    /\ life = [c \in Clients |-> "none"]
    /\ run = [c \in Clients |-> "none"]
    /\ runs = [c \in Clients |-> NoClient]
    /\ pc = [k \in Coroutines |-> "idle"]
    /\ closing = [k \in Coroutines |-> NoClient]
    /\ cancelled = [k \in Coroutines |-> NoClient]
    /\ abandoned = {}

------------------------------------------------------------------------------
(* start()                                                                  *)

\* The event loop is gone once the lifespan has ended.
Up == pc["shutdown"] # "done"

\* Where coroutines are once start() has returned: unless the bot is connected, the
\* startup task leaves a watcher behind and the watcher goes on; a request is answered.
Returned(k, connected) ==
    [j \in Coroutines |->
        IF j = "watcher" /\ k \in Background /\ ~connected THEN "asleep"
        ELSE IF j = k THEN "done" ELSE pc[j]]

\* History: what is forgotten with the current client.
Forgotten(st, lf, own) ==
    abandoned \union
        (IF st = "CONNECTED" THEN {} ELSE ({current} \ {own}) \intersect LiveIn(lf))

\* A new client and its background task replace the ones that are there,
\* closed or not.  st, lf and rn are the state, the clients and the tasks that
\* start() finds, own is the client that the caller has just tried to close.
NewClient(k, st, lf, rn, own) ==
    \E c \in Clients :
        /\ lf[c] = "none"
        /\ \A d \in 1..(c - 1) : lf[d] # "none"
        /\ state' = "CONNECTING"
        /\ current' = c
        /\ task' = c
        /\ life' = [lf EXCEPT ![c] = "created"]
        /\ run' = [rn EXCEPT ![c] = "new"]
        /\ abandoned' = Forgotten(st, lf, own)
        /\ pc' = [pc EXCEPT ![k] = "starting"]

\* The client could not even be constructed: _client is cleared all the same.
NoNewClient(k, st, lf, rn, own, tk) ==
    /\ state' = "ERROR"
    /\ current' = NoClient
    /\ task' = tk
    /\ life' = lf
    /\ run' = rn
    /\ abandoned' = Forgotten(st, lf, own)
    /\ pc' = Returned(k, FALSE)

\* start() up to its first sleep.
Start(k) ==
    \/ /\ state = "CONNECTED"
       /\ pc' = Returned(k, TRUE)
       /\ UNCHANGED <<bot, life, run, abandoned>>
    \/ state # "CONNECTED" /\ NewClient(k, state, life, run, NoClient)
    \/ state # "CONNECTED" /\ NoNewClient(k, state, life, run, NoClient, task)

\* One of the thirty looks at _state.
SeesOutcome(k) ==
    /\ Up
    /\ pc[k] = "starting"
    /\ state \in {"CONNECTED", "ERROR"}
    /\ pc' = Returned(k, state = "CONNECTED")
    /\ UNCHANGED <<bot, life, run, runs, closing, cancelled, abandoned>>

\* The last of the thirty looks.
TimesOut(k) ==
    /\ Up
    /\ pc[k] = "starting"
    /\ state \notin {"CONNECTED", "ERROR"}
    /\ state' = "ERROR"
    /\ pc' = Returned(k, FALSE)
    /\ UNCHANGED <<current, task, life, run, runs, closing, cancelled, abandoned>>

------------------------------------------------------------------------------
(* stop(): close the client, cancel the task, clear the attributes.  It     *)
(* reads _client and _task anew after each await.                           *)

\* Mutant: the attributes are cleared but for _state.
AfterStopKeepsState(k, lf, rn, own) ==
    IF k = "shutdown"
    THEN /\ current' = NoClient
         /\ task' = NoClient
         /\ life' = lf
         /\ run' = rn
         /\ abandoned' = Forgotten("DISCONNECTED", lf, own)
         /\ pc' = [pc EXCEPT ![k] = "leaving"]
         /\ UNCHANGED state
    ELSE \/ NewClient(k, "DISCONNECTED", lf, rn, own)
         \/ NoNewClient(k, "DISCONNECTED", lf, rn, own, NoClient)

\* What the caller does next, without another await: a request goes straight
\* into start(), where _state is DISCONNECTED; the shutdown stops the other bot.
AfterStop(k, lf, rn, own) ==
    IF k = "shutdown"
    THEN /\ state' = "DISCONNECTED"
         /\ current' = NoClient
         /\ task' = NoClient
         /\ life' = lf
         /\ run' = rn
         /\ abandoned' = Forgotten("DISCONNECTED", lf, own)
         /\ pc' = [pc EXCEPT ![k] = "leaving"]
    ELSE \/ NewClient(k, "DISCONNECTED", lf, rn, own)
         \/ NoNewClient(k, "DISCONNECTED", lf, rn, own, NoClient)

\* From the end of close() on: cancel the task that is current now, if any.
CancelTask(k, lf, own) ==
    IF task # NoClient /\ run[task] # "over"
    THEN /\ pc' = [pc EXCEPT ![k] = "cancelling"]
         /\ closing' = [closing EXCEPT ![k] = own]
         /\ cancelled' = [cancelled EXCEPT ![k] = task]
         /\ life' = lf
         /\ UNCHANGED <<bot, run, abandoned>>
    ELSE /\ AfterStop(k, lf, run, own)
         /\ closing' = [closing EXCEPT ![k] = NoClient]
         /\ UNCHANGED cancelled

\* Mutant: a client that is reconnecting is not closed.
StopReadyOnly(k) ==
    IF current # NoClient /\ life[current] = "ready"
    THEN /\ pc' = [pc EXCEPT ![k] = "closing"]
         /\ closing' = [closing EXCEPT ![k] = current]
         /\ life' = [life EXCEPT ![current] = "closing"]
         /\ UNCHANGED <<bot, run, cancelled, abandoned>>
    ELSE CancelTask(k, life, current)

Stop(k) ==
    IF current # NoClient /\ life[current] \notin {"closing", "closed"}
    THEN /\ pc' = [pc EXCEPT ![k] = "closing"]
         /\ closing' = [closing EXCEPT ![k] = current]
         /\ life' = [life EXCEPT ![current] = "closing"]
         /\ UNCHANGED <<bot, run, cancelled, abandoned>>
    ELSE CancelTask(k, life, current)

\* close() has returned, or raised.
Closed(k) ==
    /\ Up
    /\ pc[k] = "closing"
    /\ CancelTask(k, [life EXCEPT ![closing[k]] = "closed"], closing[k])
    /\ UNCHANGED <<runs>>

\* The cancelled task has ended, and with it the session it was running.
Cancelled(k) ==
    /\ Up
    /\ pc[k] = "cancelling"
    /\ LET t == cancelled[k]
       IN  /\ AfterStop(k,
                  [c \in Clients |-> IF runs[t] = c /\ c \in LiveIn(life) THEN "dead" ELSE life[c]],
                  [run EXCEPT ![t] = "over"],
                  closing[k])
           /\ runs' = [runs EXCEPT ![t] = NoClient]
    /\ closing' = [closing EXCEPT ![k] = NoClient]
    /\ cancelled' = [cancelled EXCEPT ![k] = NoClient]

------------------------------------------------------------------------------
(* The coroutines of the dashboard.                                         *)

\* _start_chat_integrations_background: start the bot if there is a token.
Startup ==
    /\ Up
    /\ pc["startup"] = "idle"
    /\ \/ Spare /\ Start("startup")
       \/ /\ pc' = Returned("startup", state = "CONNECTED")
          /\ UNCHANGED <<bot, life, run, abandoned>>
    /\ UNCHANGED <<runs, closing, cancelled>>

\* _discord_token_watcher: it has slept, and there is a token by now.
Watch ==
    /\ Up
    /\ pc["watcher"] = "asleep"
    /\ Spare
    /\ Start("watcher")
    /\ UNCHANGED <<runs, closing, cancelled>>

\* POST /discord/setup: stop a connected bot, then start it.
Setup(r) ==
    /\ Up
    /\ pc["shutdown"] = "idle"
    /\ pc[r] = "idle"
    /\ Spare
    /\ IF state = "CONNECTED"
       THEN Stop(r)
       ELSE Start(r) /\ UNCHANGED <<closing, cancelled>>
    /\ UNCHANGED <<runs>>

\* The lifespan ends once the server has answered its requests.
Shutdown ==
    /\ pc["shutdown"] = "idle"
    /\ \A r \in Requests : pc[r] \in {"idle", "done"}
    /\ Stop("shutdown")
    /\ UNCHANGED <<runs>>

\* Telegram's stop() has returned, the startup task has ended, cancelled wherever it
\* waited, and so has the lifespan; nobody cancels the watcher before the loop ends.
Leave ==
    /\ pc["shutdown"] = "leaving"
    /\ pc' = [pc EXCEPT !["shutdown"] = "done", !["startup"] = "done"]
    /\ UNCHANGED <<bot, life, run, runs, closing, cancelled, abandoned>>

------------------------------------------------------------------------------
(* The background tasks and the clients.                                    *)

\* _run_client begins: it reads _client only now.
RunClient(t) ==
    /\ Up
    /\ run[t] = "new"
    /\ IF current = NoClient
       THEN /\ run' = [run EXCEPT ![t] = "over"]
            /\ state' = "ERROR"
            /\ UNCHANGED <<life, runs>>
       ELSE /\ run' = [run EXCEPT ![t] = "running"]
            /\ runs' = [runs EXCEPT ![t] = current]
            /\ life' = [life EXCEPT ![current] = IF @ = "created" THEN "connecting" ELSE @]
            /\ UNCHANGED state
    /\ UNCHANGED <<current, task, calls, abandoned>>

\* Client.start() raises: a bad token, or a connection that cannot be resumed.
ClientFails(t) ==
    /\ Up
    /\ run[t] = "running"
    /\ life[runs[t]] \notin {"closing", "closed"}
    /\ state' = "ERROR"
    /\ run' = [run EXCEPT ![t] = "over"]
    /\ runs' = [runs EXCEPT ![t] = NoClient]
    /\ life' = [life EXCEPT ![runs[t]] = "dead"]
    /\ UNCHANGED <<current, task, calls, abandoned>>

\* Client.start() returns: the client was closed.
ClientEnds(t) ==
    /\ Up
    /\ run[t] = "running"
    /\ life[runs[t]] = "closed"
    /\ run' = [run EXCEPT ![t] = "over"]
    /\ runs' = [runs EXCEPT ![t] = NoClient]
    /\ UNCHANGED <<bot, life, calls, abandoned>>

\* on_ready of whichever client, in a new session: it counts the guilds of _client
\* first, which raises without one.
OnReady(c) ==
    /\ Up
    /\ life[c] \in {"connecting", "lost"}
    /\ life' = [life EXCEPT ![c] = "ready"]
    /\ state' = IF current = NoClient THEN state ELSE "CONNECTED"
    /\ UNCHANGED <<current, task, run, runs, calls, abandoned>>

\* on_disconnect of whichever client: the library is going to reconnect.
OnDisconnect(c) ==
    /\ Up
    /\ life[c] \in {"connecting", "ready"}
    /\ life' = [life EXCEPT ![c] = IF @ = "ready" THEN "lost" ELSE @]
    /\ state' = IF state = "DISCONNECTED" THEN state ELSE "CONNECTING"
    /\ UNCHANGED <<current, task, run, runs, calls, abandoned>>

\* The library resumes the session: there is no on_ready, and no handler for it.
Resume(c) ==
    /\ Up
    /\ life[c] = "lost"
    /\ life' = [life EXCEPT ![c] = "ready"]
    /\ UNCHANGED <<bot, run, runs, calls, abandoned>>

------------------------------------------------------------------------------

Next ==
    \/ Startup
    \/ Watch
    \/ \E r \in Requests : Setup(r)
    \/ Shutdown
    \/ Leave
    \/ \E k \in Coroutines : SeesOutcome(k) \/ TimesOut(k) \/ Closed(k) \/ Cancelled(k)
    \/ \E t \in Clients : RunClient(t) \/ ClientFails(t) \/ ClientEnds(t)
    \/ \E c \in Clients : OnReady(c) \/ OnDisconnect(c) \/ Resume(c)

Spec == Init /\ [][Next]_vars

------------------------------------------------------------------------------

\* Every attribute and every coroutine is in one of its documented states.
TypeOK ==
    /\ state \in PlatformStates
    /\ current \in Clients \union {NoClient}
    /\ task \in Clients \union {NoClient}
    /\ life \in [Clients -> ClientStates]
    /\ run \in [Clients -> TaskStates]
    /\ runs \in [Clients -> Clients \union {NoClient}]
    /\ \A t \in Clients : run[t] = "running" <=> runs[t] # NoClient
    /\ pc \in [Coroutines -> {"idle", "asleep", "starting", "closing",
                              "cancelling", "leaving", "done"}]
    /\ closing \in [Coroutines -> Clients \union {NoClient}]
    /\ cancelled \in [Coroutines -> Clients \union {NoClient}]
    /\ abandoned \subseteq Clients

\* CONNECTED is no leftover: but for a stop() that is under way, some client is
\* ready, whatever clients were replaced, failed or lost their connection in
\* between (send_message, create_thread and setup rely on the state alone).
ConnectedIsReady ==
    state = "CONNECTED" =>
        \/ \E c \in Clients : life[c] = "ready"
        \/ \E k \in Coroutines : pc[k] \in {"closing", "cancelling"}

\* Nobody else leaks a client: one that is live and not the current one was
\* replaced by a start() while it was connecting or reconnecting, or put in place
\* by a start() while a stop() of another client was waiting.
LiveIsKnown == LiveIn(life) \subseteq {current} \union abandoned

==============================================================================
