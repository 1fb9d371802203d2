------------------------- MODULE ChatPlatformsProofs --------------------------
(***************************************************************************)
(* Proofs about the lives of the two bots, for any set of requests, any    *)
(* number of clients and of Applications, and any order of the calls that  *)
(* start and stop them; and about the answers of the Discord bot, for any  *)
(* messages, texts and length of a chunk.                                  *)
(***************************************************************************)
EXTENDS ChatPlatforms, FilterTheorems, TLAPS

----------------------------------------------------------------------------
(***************************************************************************)
(* The Discord bot.                                                        *)
(***************************************************************************)

\* A task that has not ended belongs to a client that was created.
TasksHaveClients == \A t \in Clients : run[t] \in {"new", "running"} => life[t] # "none"

\* The client that a stop() has set out to close is closing, or closed.
ClosingCloses ==
    \A k \in Coroutines : closing[k] \in Clients => life[closing[k]] \in {"closing", "closed"}

\* The startup task and the watcher only start the bot.
BackgroundStarts == \A k \in Background : pc[k] \notin {"closing", "cancelling"}

IInv ==
    /\ TypeOK /\ TasksHaveClients /\ ClosingCloses /\ BackgroundStarts
    /\ ConnectedIsReady /\ LiveIsKnown

----------------------------------------------------------------------------
\* The initial state satisfies the invariant.
LEMMA InitIInv == Init => IInv
<1> SUFFICES ASSUME Init PROVE IInv
  OBVIOUS
<1>1. TypeOK
  BY NoClientAssumption DEF Init, TypeOK, PlatformStates, ClientStates, TaskStates
<1>2. TasksHaveClients /\ ConnectedIsReady /\ LiveIsKnown
  BY DEF Init, TasksHaveClients, ConnectedIsReady, LiveIsKnown, LiveIn
<1>3. ClosingCloses /\ BackgroundStarts
  BY NoClientAssumption DEF Init, ClosingCloses, Clients, BackgroundStarts, Coroutines
<1> QED
  BY <1>1, <1>2, <1>3 DEF IInv

\* start() returns: whoever is in stop() stays there.
LEMMA ReturnedPlaces ==
    ASSUME TypeOK, BackgroundStarts, NEW k \in Coroutines, NEW connected \in BOOLEAN,
           pc' = Returned(k, connected)
    PROVE  /\ pc' \in [Coroutines -> {"idle", "asleep", "starting", "closing",
                                       "cancelling", "leaving", "done"}]
           /\ BackgroundStarts'
           /\ \A j \in Coroutines \ {k} : pc[j] \in {"closing", "cancelling"} => pc'[j] = pc[j]
<1>1. "watcher" \in Background /\ Background \subseteq Coroutines
  BY DEF Background, Coroutines
<1>2. \A j \in Coroutines : pc'[j] \in {pc[j], "asleep", "done"}
  BY DEF Returned
<1>3. \A j \in Coroutines \ {k} : j # "watcher" => pc'[j] = pc[j]
  BY DEF Returned
<1>4. pc' \in [Coroutines -> {"idle", "asleep", "starting", "closing",
                              "cancelling", "leaving", "done"}]
  BY DEF TypeOK, Returned
<1> QED
  BY <1>1, <1>2, <1>3, <1>4 DEF BackgroundStarts

\* A start() that makes a client, or fails to, keeps the invariant: what it finds
\* as lf and rn is what it left but for clients that ended or are closing, and own
\* is not live any more.
LEMMA ReplaceIInv ==
    ASSUME IInv, NEW k \in Coroutines, NEW st, st # "CONNECTED",
           NEW lf \in [Clients -> ClientStates], NEW rn \in [Clients -> TaskStates],
           NEW own, NEW tk \in Clients \union {NoClient},
           LiveIn(lf) \subseteq LiveIn(life), own \notin LiveIn(lf),
           runs' \in [Clients -> Clients \union {NoClient}],
           \A t \in Clients : rn[t] = "running" <=> runs'[t] # NoClient,
           \A t \in Clients : rn[t] \in {"new", "running"} => lf[t] # "none",
           closing' \in [Coroutines -> Clients \union {NoClient}],
           cancelled' \in [Coroutines -> Clients \union {NoClient}],
           \A j \in Coroutines : closing'[j] \in Clients => lf[closing'[j]] \in {"closing", "closed"},
           NewClient(k, st, lf, rn, own) \/ NoNewClient(k, st, lf, rn, own, tk)
    PROVE  IInv'
<1>1. abandoned' = abandoned \union (({current} \ {own}) \intersect LiveIn(lf))
  BY DEF NewClient, NoNewClient, Forgotten
<1>2. LiveIn(lf) \subseteq abandoned' /\ abandoned' \subseteq Clients
  BY <1>1 DEF IInv, LiveIsKnown, TypeOK, LiveIn
<1>3. CASE NewClient(k, st, lf, rn, own)
  <2>1. PICK c \in Clients :
           /\ lf[c] = "none"
           /\ state' = "CONNECTING" /\ current' = c /\ task' = c
           /\ life' = [lf EXCEPT ![c] = "created"] /\ run' = [rn EXCEPT ![c] = "new"]
           /\ pc' = [pc EXCEPT ![k] = "starting"]
    BY <1>3 DEF NewClient
  <2>2. TypeOK'
    BY <1>2, <2>1 DEF IInv, TypeOK, PlatformStates, ClientStates, TaskStates
  <2>3. TasksHaveClients' /\ ClosingCloses' /\ ConnectedIsReady'
    BY <2>1 DEF TasksHaveClients, ClosingCloses, ConnectedIsReady
  <2>4. LiveIsKnown'
    BY <1>2, <2>1 DEF LiveIsKnown, LiveIn
  <2>5. BackgroundStarts'
    BY <2>1 DEF IInv, TypeOK, BackgroundStarts, Background, Coroutines
  <2> QED
    BY <2>2, <2>3, <2>4, <2>5 DEF IInv
<1>4. CASE NoNewClient(k, st, lf, rn, own, tk)
  <2>1. /\ state' = "ERROR" /\ current' = NoClient /\ task' = tk /\ life' = lf /\ run' = rn
        /\ pc' = Returned(k, FALSE)
    BY <1>4 DEF NoNewClient
  <2>2. /\ pc' \in [Coroutines -> {"idle", "asleep", "starting", "closing",
                                    "cancelling", "leaving", "done"}]
        /\ BackgroundStarts'
    BY <2>1, ReturnedPlaces DEF IInv
  <2>3. TypeOK'
    BY <1>2, <2>1, <2>2 DEF IInv, TypeOK, PlatformStates
  <2>4. TasksHaveClients' /\ ClosingCloses' /\ ConnectedIsReady'
    BY <2>1 DEF TasksHaveClients, ClosingCloses, ConnectedIsReady
  <2>5. LiveIsKnown'
    BY <1>2, <2>1 DEF LiveIsKnown, LiveIn
  <2> QED
    BY <2>2, <2>3, <2>4, <2>5 DEF IInv
<1> QED
  BY <1>3, <1>4

\* start(), called by a coroutine that is not in stop().
LEMMA StartIInv ==
    ASSUME IInv, NEW k \in Coroutines, pc[k] \in {"idle", "asleep"}, Start(k),
           UNCHANGED <<runs, closing, cancelled>>
    PROVE  IInv'
<1>1. CASE state = "CONNECTED" /\ pc' = Returned(k, TRUE) /\ UNCHANGED <<bot, life, run, abandoned>>
  <2>1. /\ pc' \in [Coroutines -> {"idle", "asleep", "starting", "closing",
                                    "cancelling", "leaving", "done"}]
        /\ BackgroundStarts'
        /\ \A j \in Coroutines \ {k} : pc[j] \in {"closing", "cancelling"} => pc'[j] = pc[j]
    BY <1>1, ReturnedPlaces DEF IInv
  <2>2. TypeOK'
    BY <1>1, <2>1 DEF IInv, TypeOK, bot
  <2>3. ConnectedIsReady'
    <3>1. (\E c \in Clients : life[c] = "ready")
          \/ (\E j \in Coroutines : j # k /\ pc[j] \in {"closing", "cancelling"})
      BY <1>1 DEF IInv, ConnectedIsReady
    <3> QED
      BY <1>1, <2>1, <3>1 DEF ConnectedIsReady
  <2>4. TasksHaveClients' /\ ClosingCloses' /\ LiveIsKnown'
    BY <1>1 DEF IInv, TasksHaveClients, ClosingCloses, LiveIsKnown, LiveIn, bot
  <2> QED
    BY <2>1, <2>2, <2>3, <2>4 DEF IInv
<1>2. CASE /\ state # "CONNECTED"
           /\ NewClient(k, state, life, run, NoClient) \/ NoNewClient(k, state, life, run, NoClient, task)
  <2>1. NoClient \notin LiveIn(life)
    BY NoClientAssumption DEF LiveIn, Clients
  <2>2. /\ life \in [Clients -> ClientStates] /\ run \in [Clients -> TaskStates]
        /\ task \in Clients \union {NoClient} /\ LiveIn(life) \subseteq LiveIn(life)
    BY DEF IInv, TypeOK
  <2>3. /\ runs' \in [Clients -> Clients \union {NoClient}]
        /\ \A t \in Clients : run[t] = "running" <=> runs'[t] # NoClient
        /\ \A t \in Clients : run[t] \in {"new", "running"} => life[t] # "none"
        /\ closing' \in [Coroutines -> Clients \union {NoClient}]
        /\ cancelled' \in [Coroutines -> Clients \union {NoClient}]
        /\ \A j \in Coroutines : closing'[j] \in Clients => life[closing'[j]] \in {"closing", "closed"}
    BY DEF IInv, TypeOK, TasksHaveClients, ClosingCloses
  <2> QED
    BY <1>2, <2>1, <2>2, <2>3, ReplaceIInv
<1> QED
  BY <1>1, <1>2 DEF Start

----------------------------------------------------------------------------
(* stop().                                                                  *)

\* What follows the end of a stop(): the attributes are cleared or replaced.
LEMMA AfterStopIInv ==
    ASSUME IInv, NEW k \in Coroutines,
           NEW lf \in [Clients -> ClientStates], NEW rn \in [Clients -> TaskStates], NEW own,
           LiveIn(lf) \subseteq LiveIn(life), own \notin LiveIn(lf),
           runs' \in [Clients -> Clients \union {NoClient}],
           \A t \in Clients : rn[t] = "running" <=> runs'[t] # NoClient,
           \A t \in Clients : rn[t] \in {"new", "running"} => lf[t] # "none",
           closing' \in [Coroutines -> Clients \union {NoClient}],
           cancelled' \in [Coroutines -> Clients \union {NoClient}],
           \A j \in Coroutines : closing'[j] \in Clients => lf[closing'[j]] \in {"closing", "closed"},
           AfterStop(k, lf, rn, own)
    PROVE  IInv'
<1>1. CASE k = "shutdown"
  <2>1. /\ state' = "DISCONNECTED" /\ current' = NoClient /\ task' = NoClient
        /\ life' = lf /\ run' = rn /\ pc' = [pc EXCEPT ![k] = "leaving"]
        /\ abandoned' = abandoned \union (({current} \ {own}) \intersect LiveIn(lf))
    BY <1>1 DEF AfterStop, Forgotten
  <2>2. LiveIn(lf) \subseteq abandoned' /\ abandoned' \subseteq Clients
    BY <2>1 DEF IInv, LiveIsKnown, TypeOK, LiveIn
  <2>3. TypeOK'
    BY <2>1, <2>2 DEF IInv, TypeOK, PlatformStates
  <2>4. TasksHaveClients' /\ ClosingCloses' /\ ConnectedIsReady'
    BY <2>1 DEF TasksHaveClients, ClosingCloses, ConnectedIsReady
  <2>5. LiveIsKnown'
    BY <2>1, <2>2 DEF LiveIsKnown, LiveIn
  <2>6. BackgroundStarts'
    BY <2>1 DEF IInv, TypeOK, BackgroundStarts, Background, Coroutines
  <2> QED
    BY <2>3, <2>4, <2>5, <2>6 DEF IInv
<1>2. CASE k # "shutdown"
  <2>1. \/ NewClient(k, "DISCONNECTED", lf, rn, own)
        \/ NoNewClient(k, "DISCONNECTED", lf, rn, own, NoClient)
    BY <1>2 DEF AfterStop
  <2> QED
    BY <2>1, ReplaceIInv
<1> QED
  BY <1>1, <1>2

\* The rest of a stop() whose client, if there was one, is closing or closed.
LEMMA CancelTaskIInv ==
    ASSUME IInv, NEW k \in Coroutines \ Background,
           NEW lf \in [Clients -> ClientStates], NEW own \in Clients \union {NoClient},
           LiveIn(lf) \subseteq LiveIn(life), \A c \in Clients : lf[c] = "none" <=> life[c] = "none",
           own \in Clients => lf[own] \in {"closing", "closed"},
           \A j \in Coroutines : closing[j] \in Clients => lf[closing[j]] \in {"closing", "closed"},
           CancelTask(k, lf, own), UNCHANGED runs
    PROVE  IInv'
<1>1. own \notin LiveIn(lf)
  BY NoClientAssumption DEF LiveIn, Clients
<1>2. CASE task # NoClient /\ run[task] # "over"
  <2>1. /\ pc' = [pc EXCEPT ![k] = "cancelling"] /\ closing' = [closing EXCEPT ![k] = own]
        /\ cancelled' = [cancelled EXCEPT ![k] = task] /\ life' = lf
        /\ UNCHANGED <<bot, run, abandoned>>
    BY <1>2 DEF CancelTask
  <2>2. TypeOK'
    BY <2>1 DEF IInv, TypeOK, bot
  <2>3. TasksHaveClients' /\ ClosingCloses'
    BY <2>1 DEF IInv, TypeOK, TasksHaveClients, ClosingCloses
  <2>4. pc'[k] = "cancelling"
    BY <2>1 DEF IInv, TypeOK
  <2>5. LiveIsKnown'
    BY <2>1 DEF IInv, LiveIsKnown, LiveIn, bot
  <2>6. BackgroundStarts'
    BY <2>1 DEF IInv, TypeOK, BackgroundStarts
  <2> QED
    BY <2>2, <2>3, <2>4, <2>5, <2>6 DEF IInv, ConnectedIsReady
<1>3. CASE ~(task # NoClient /\ run[task] # "over")
  <2>1. /\ AfterStop(k, lf, run, own) /\ closing' = [closing EXCEPT ![k] = NoClient]
        /\ UNCHANGED cancelled
    BY <1>3 DEF CancelTask
  <2>2. /\ run \in [Clients -> TaskStates]
        /\ runs' \in [Clients -> Clients \union {NoClient}]
        /\ \A t \in Clients : run[t] = "running" <=> runs'[t] # NoClient
        /\ \A t \in Clients : run[t] \in {"new", "running"} => lf[t] # "none"
        /\ closing' \in [Coroutines -> Clients \union {NoClient}]
        /\ cancelled' \in [Coroutines -> Clients \union {NoClient}]
    BY <2>1 DEF IInv, TypeOK, TasksHaveClients
  <2>3. \A j \in Coroutines : closing'[j] \in Clients => lf[closing'[j]] \in {"closing", "closed"}
    BY <2>1, NoClientAssumption DEF IInv, TypeOK, Clients
  <2> QED
    BY <1>1, <2>1, <2>2, <2>3, AfterStopIInv
<1> QED
  BY <1>2, <1>3

\* stop() up to its first await.
LEMMA StopIInv ==
    ASSUME IInv, NEW k \in Coroutines \ Background, Stop(k), UNCHANGED runs
    PROVE  IInv'
<1>1. CASE current # NoClient /\ life[current] \notin {"closing", "closed"}
  <2>1. /\ pc' = [pc EXCEPT ![k] = "closing"] /\ closing' = [closing EXCEPT ![k] = current]
        /\ life' = [life EXCEPT ![current] = "closing"]
        /\ UNCHANGED <<bot, run, cancelled, abandoned>>
    BY <1>1 DEF Stop
  <2>2. current \in Clients
    BY <1>1 DEF IInv, TypeOK
  <2>3. TypeOK'
    BY <2>1, <2>2 DEF IInv, TypeOK, bot, ClientStates
  <2>4. TasksHaveClients' /\ ClosingCloses'
    BY <2>1, <2>2 DEF IInv, TypeOK, TasksHaveClients, ClosingCloses
  <2>5. pc'[k] = "closing"
    BY <2>1 DEF IInv, TypeOK
  <2>6. LiveIsKnown'
    BY <2>1, <2>2 DEF IInv, TypeOK, LiveIsKnown, LiveIn, bot
  <2>7. BackgroundStarts'
    BY <2>1 DEF IInv, TypeOK, BackgroundStarts
  <2> QED
    BY <2>3, <2>4, <2>5, <2>6, <2>7 DEF IInv, ConnectedIsReady
<1>2. CASE ~(current # NoClient /\ life[current] \notin {"closing", "closed"})
  <2>1. CancelTask(k, life, current)
    BY <1>2 DEF Stop
  <2>2. /\ life \in [Clients -> ClientStates] /\ current \in Clients \union {NoClient}
        /\ LiveIn(life) \subseteq LiveIn(life)
        /\ current \in Clients => life[current] \in {"closing", "closed"}
    BY <1>2, NoClientAssumption DEF IInv, TypeOK, Clients
  <2>3. \A j \in Coroutines : closing[j] \in Clients => life[closing[j]] \in {"closing", "closed"}
    BY DEF IInv, ClosingCloses
  <2> QED
    BY <2>1, <2>2, <2>3, CancelTaskIInv
<1> QED
  BY <1>1, <1>2

\* close() returns.
LEMMA ClosedIInv == ASSUME IInv, NEW k \in Coroutines, Closed(k) PROVE IInv'
<1> DEFINE lf == [life EXCEPT ![closing[k]] = "closed"]
<1>1. CancelTask(k, lf, closing[k]) /\ UNCHANGED runs
  BY DEF Closed
<1>2. /\ lf \in [Clients -> ClientStates] /\ closing[k] \in Clients \union {NoClient}
      /\ closing[k] \in Clients => lf[closing[k]] \in {"closing", "closed"}
  BY DEF IInv, TypeOK, ClientStates
<1>3. LiveIn(lf) \subseteq LiveIn(life)
  BY DEF IInv, TypeOK, LiveIn
<1>4. \A c \in Clients : lf[c] = "none" <=> life[c] = "none"
  BY DEF IInv, TypeOK, ClosingCloses
<1>5. \A j \in Coroutines : closing[j] \in Clients => lf[closing[j]] \in {"closing", "closed"}
  BY DEF IInv, TypeOK, ClosingCloses
<1>6. k \in Coroutines \ Background
  BY DEF IInv, BackgroundStarts, Closed
<1> HIDE DEF lf
<1> QED
  BY <1>1, <1>2, <1>3, <1>4, <1>5, <1>6, CancelTaskIInv

\* The cancelled task ends.
LEMMA CancelledIInv == ASSUME IInv, NEW k \in Coroutines, Cancelled(k) PROVE IInv'
<1> DEFINE t == cancelled[k]
           lf == [c \in Clients |-> IF runs[t] = c /\ c \in LiveIn(life) THEN "dead" ELSE life[c]]
           rn == [run EXCEPT ![t] = "over"]
<1>1. /\ AfterStop(k, lf, rn, closing[k]) /\ runs' = [runs EXCEPT ![t] = NoClient]
      /\ closing' = [closing EXCEPT ![k] = NoClient]
      /\ cancelled' = [cancelled EXCEPT ![k] = NoClient]
  BY DEF Cancelled
<1>2. lf \in [Clients -> ClientStates] /\ rn \in [Clients -> TaskStates]
  BY DEF IInv, TypeOK, ClientStates, TaskStates
<1>3. LiveIn(lf) \subseteq LiveIn(life)
  BY DEF LiveIn
<1>4. \A c \in Clients : lf[c] = "none" <=> life[c] = "none"
  BY DEF LiveIn
<1>5. \A c \in Clients : life[c] \in {"closing", "closed"} => lf[c] = life[c]
  BY DEF LiveIn
<1>6. /\ runs' \in [Clients -> Clients \union {NoClient}]
      /\ closing' \in [Coroutines -> Clients \union {NoClient}]
      /\ cancelled' \in [Coroutines -> Clients \union {NoClient}]
  BY <1>1 DEF IInv, TypeOK
<1>7. \A u \in Clients : rn[u] = "running" <=> runs'[u] # NoClient
  BY <1>1 DEF IInv, TypeOK
<1>8. \A u \in Clients : rn[u] \in {"new", "running"} => lf[u] # "none"
  BY <1>4 DEF IInv, TypeOK, TasksHaveClients
<1>9. \A j \in Coroutines : closing'[j] \in Clients => lf[closing'[j]] \in {"closing", "closed"}
  <2>1. NoClient \notin Clients
    BY NoClientAssumption DEF Clients
  <2> QED
    BY <1>1, <1>5, <2>1 DEF IInv, TypeOK, ClosingCloses
<1>10. closing[k] \notin LiveIn(lf)
  BY <1>3 DEF IInv, ClosingCloses, LiveIn
<1> HIDE DEF t, lf, rn
<1> QED
  BY <1>1, <1>2, <1>3, <1>6, <1>7, <1>8, <1>9, <1>10, AfterStopIInv

----------------------------------------------------------------------------
(* The coroutines that call them.                                           *)

\* The startup task and the token watcher.
LEMMA BackgroundIInv == ASSUME IInv, Startup \/ Watch PROVE IInv'
<1>1. PICK k \in Background :
         \/ Start(k) /\ pc[k] \in {"idle", "asleep"} /\ UNCHANGED <<runs, closing, cancelled>>
         \/ /\ pc[k] = "idle" /\ pc' = Returned(k, state = "CONNECTED")
            /\ UNCHANGED <<bot, life, run, abandoned, runs, closing, cancelled>>
  BY DEF Startup, Watch, Background
<1>2. k \in Coroutines
  BY DEF Coroutines
<1>3. CASE Start(k) /\ pc[k] \in {"idle", "asleep"} /\ UNCHANGED <<runs, closing, cancelled>>
  BY <1>2, <1>3, StartIInv
<1>4. CASE /\ pc[k] = "idle" /\ pc' = Returned(k, state = "CONNECTED")
           /\ UNCHANGED <<bot, life, run, abandoned, runs, closing, cancelled>>
  <2>1. PICK connected \in BOOLEAN : pc' = Returned(k, connected)
    BY <1>4
  <2>2. /\ pc' \in [Coroutines -> {"idle", "asleep", "starting", "closing",
                                    "cancelling", "leaving", "done"}]
        /\ BackgroundStarts'
        /\ \A j \in Coroutines \ {k} : pc[j] \in {"closing", "cancelling"} => pc'[j] = pc[j]
    BY <1>2, <2>1, ReturnedPlaces DEF IInv
  <2>3. TypeOK'
    BY <1>4, <2>2 DEF IInv, TypeOK, bot
  <2>4. ConnectedIsReady'
    BY <1>4, <2>2 DEF IInv, ConnectedIsReady, bot
  <2>5. TasksHaveClients' /\ ClosingCloses' /\ LiveIsKnown'
    BY <1>4 DEF IInv, TasksHaveClients, ClosingCloses, LiveIsKnown, LiveIn, bot
  <2> QED
    BY <2>2, <2>3, <2>4, <2>5 DEF IInv
<1> QED
  BY <1>1, <1>3, <1>4

\* A setup request and the shutdown.
LEMMA SetupIInv == ASSUME IInv, NEW r \in Requests, Setup(r) PROVE IInv'
<1>1. r \in Coroutines \ Background
  BY NamesAssumption DEF Coroutines, Background
<1>2. CASE Stop(r) /\ UNCHANGED runs
  BY <1>1, <1>2, StopIInv
<1>3. CASE Start(r) /\ UNCHANGED <<runs, closing, cancelled>>
  BY <1>1, <1>3, StartIInv DEF Setup
<1> QED
  BY <1>2, <1>3 DEF Setup

\* A look at the state, the last one included.
LEMMA LooksIInv ==
    ASSUME IInv, NEW k \in Coroutines, SeesOutcome(k) \/ TimesOut(k) PROVE IInv'
<1>1. /\ pc[k] = "starting" /\ state' \in {state, "ERROR"}
      /\ \E connected \in BOOLEAN : pc' = Returned(k, connected)
      /\ UNCHANGED <<current, task, life, run, runs, closing, cancelled, abandoned>>
  BY DEF SeesOutcome, TimesOut, bot
<1>2. /\ pc' \in [Coroutines -> {"idle", "asleep", "starting", "closing",
                                  "cancelling", "leaving", "done"}]
      /\ BackgroundStarts'
      /\ \A j \in Coroutines \ {k} : pc[j] \in {"closing", "cancelling"} => pc'[j] = pc[j]
  BY <1>1, ReturnedPlaces DEF IInv
<1>3. TypeOK'
  BY <1>1, <1>2 DEF IInv, TypeOK, PlatformStates
<1>4. ConnectedIsReady'
  BY <1>1, <1>2 DEF IInv, ConnectedIsReady
<1>5. TasksHaveClients' /\ ClosingCloses' /\ LiveIsKnown'
  BY <1>1 DEF IInv, TasksHaveClients, ClosingCloses, LiveIsKnown, LiveIn
<1> QED
  BY <1>2, <1>3, <1>4, <1>5 DEF IInv

\* The lifespan ends, and takes the startup task with it.
LEMMA LeaveIInv == ASSUME IInv, Leave PROVE IInv'
<1>1. /\ pc["shutdown"] = "leaving"
      /\ pc' = [pc EXCEPT !["shutdown"] = "done", !["startup"] = "done"]
      /\ UNCHANGED <<state, current, task, life, run, runs, closing, cancelled, abandoned>>
  BY DEF Leave, bot
<1>2. "shutdown" \in Coroutines /\ "startup" \in Background /\ Background \subseteq Coroutines
  BY DEF Coroutines, Background
<1>3. \A j \in Coroutines : pc'[j] = IF j \in {"shutdown", "startup"} THEN "done" ELSE pc[j]
  BY <1>1 DEF IInv, TypeOK
<1>4. TypeOK'
  BY <1>1 DEF IInv, TypeOK
<1>5. BackgroundStarts'
  BY <1>2, <1>3 DEF IInv, BackgroundStarts
<1>6. ConnectedIsReady'
  <2>1. pc["startup"] \notin {"closing", "cancelling"}
    BY <1>2 DEF IInv, BackgroundStarts
  <2>2. \A j \in Coroutines : pc[j] \in {"closing", "cancelling"} => pc'[j] = pc[j]
    BY <1>1, <1>3, <2>1
  <2> QED
    BY <1>1, <2>2 DEF IInv, ConnectedIsReady
<1>7. TasksHaveClients' /\ ClosingCloses' /\ LiveIsKnown'
  BY <1>1 DEF IInv, TasksHaveClients, ClosingCloses, LiveIsKnown, LiveIn
<1> QED
  BY <1>4, <1>5, <1>6, <1>7 DEF IInv

----------------------------------------------------------------------------
(* The background tasks and the clients.                                    *)

\* The background task begins, with the client that is current by then.
LEMMA RunClientIInv == ASSUME IInv, NEW t \in Clients, RunClient(t) PROVE IInv'
<1>1. CASE current = NoClient
  <2>1. /\ run' = [run EXCEPT ![t] = "over"] /\ state' = "ERROR" /\ run[t] = "new"
        /\ UNCHANGED <<current, task, life, runs, calls, abandoned>>
    BY <1>1 DEF RunClient
  <2>2. TypeOK'
    BY <2>1 DEF IInv, TypeOK, PlatformStates, TaskStates, calls
  <2>3. TasksHaveClients' /\ ClosingCloses' /\ ConnectedIsReady' /\ LiveIsKnown'
        /\ BackgroundStarts'
    BY <2>1 DEF IInv, TypeOK, TasksHaveClients, ClosingCloses, ConnectedIsReady, LiveIsKnown,
                LiveIn, calls, BackgroundStarts
  <2> QED
    BY <2>2, <2>3 DEF IInv
<1>2. CASE current # NoClient
  <2>1. /\ run' = [run EXCEPT ![t] = "running"] /\ runs' = [runs EXCEPT ![t] = current]
        /\ life' = [life EXCEPT ![current] = IF @ = "created" THEN "connecting" ELSE @]
        /\ run[t] = "new" /\ UNCHANGED <<bot, calls, abandoned>>
    BY <1>2 DEF RunClient, bot
  <2>2. current \in Clients
    BY <1>2 DEF IInv, TypeOK
  <2>3. TypeOK'
    BY <2>1, <2>2, NoClientAssumption DEF IInv, TypeOK, ClientStates, TaskStates, bot, calls, Clients
  <2>4. TasksHaveClients' /\ ClosingCloses' /\ BackgroundStarts'
    BY <2>1, <2>2 DEF IInv, TypeOK, TasksHaveClients, ClosingCloses, calls, BackgroundStarts
  <2>5. ConnectedIsReady'
    BY <2>1, <2>2 DEF IInv, TypeOK, ConnectedIsReady, bot, calls
  <2>6. LiveIsKnown'
    BY <2>1, <2>2 DEF IInv, TypeOK, LiveIsKnown, LiveIn, bot
  <2> QED
    BY <2>3, <2>4, <2>5, <2>6 DEF IInv
<1> QED
  BY <1>1, <1>2

\* A client fails, or ends because it was closed.
LEMMA ClientOverIInv ==
    ASSUME IInv, NEW t \in Clients, ClientFails(t) \/ ClientEnds(t) PROVE IInv'
<1>1. runs[t] \in Clients
  BY DEF IInv, TypeOK, ClientFails, ClientEnds
<1>2. CASE ClientFails(t)
  <2>1. /\ state' = "ERROR" /\ run' = [run EXCEPT ![t] = "over"]
        /\ runs' = [runs EXCEPT ![t] = NoClient] /\ life' = [life EXCEPT ![runs[t]] = "dead"]
        /\ life[runs[t]] \notin {"closing", "closed"}
        /\ UNCHANGED <<current, task, calls, abandoned>>
    BY <1>2 DEF ClientFails
  <2>2. TypeOK'
    BY <1>1, <2>1 DEF IInv, TypeOK, PlatformStates, ClientStates, TaskStates, calls
  <2>3. TasksHaveClients' /\ ClosingCloses' /\ ConnectedIsReady' /\ BackgroundStarts'
    BY <1>1, <2>1 DEF IInv, TypeOK, TasksHaveClients, ClosingCloses, ConnectedIsReady, calls,
                      BackgroundStarts
  <2>4. LiveIsKnown'
    BY <1>1, <2>1 DEF IInv, TypeOK, LiveIsKnown, LiveIn
  <2> QED
    BY <2>2, <2>3, <2>4 DEF IInv
<1>3. CASE ClientEnds(t)
  <2>1. /\ run' = [run EXCEPT ![t] = "over"] /\ runs' = [runs EXCEPT ![t] = NoClient]
        /\ UNCHANGED <<bot, life, calls, abandoned>>
    BY <1>3 DEF ClientEnds
  <2>2. TypeOK'
    BY <2>1 DEF IInv, TypeOK, TaskStates, bot, calls
  <2>3. TasksHaveClients' /\ ClosingCloses' /\ ConnectedIsReady' /\ LiveIsKnown'
        /\ BackgroundStarts'
    BY <2>1 DEF IInv, TypeOK, TasksHaveClients, ClosingCloses, ConnectedIsReady, LiveIsKnown,
                LiveIn, bot, calls, BackgroundStarts
  <2> QED
    BY <2>2, <2>3 DEF IInv
<1> QED
  BY <1>2, <1>3

\* What the library does with a client that is connected or on its way: the state
\* is CONNECTED afterwards only if it was, or if the client is ready.
LEMMA SessionIInv ==
    ASSUME IInv, NEW c \in Clients, OnReady(c) \/ OnDisconnect(c) \/ Resume(c) PROVE IInv'
<1>1. PICK q \in {"connecting", "ready", "lost"} :
         /\ life' = [life EXCEPT ![c] = q]
         /\ state' \in PlatformStates /\ (state' = "CONNECTED" => q = "ready")
  BY DEF IInv, TypeOK, OnReady, OnDisconnect, Resume, PlatformStates, ClientStates, bot
<1>2. /\ life[c] \in {"connecting", "ready", "lost"}
      /\ UNCHANGED <<current, task, run, runs, calls, abandoned>>
  BY DEF OnReady, OnDisconnect, Resume, bot
<1>3. TypeOK'
  BY <1>1, <1>2 DEF IInv, TypeOK, ClientStates, calls
<1>4. TasksHaveClients' /\ ClosingCloses' /\ ConnectedIsReady' /\ BackgroundStarts'
  BY <1>1, <1>2 DEF IInv, TypeOK, TasksHaveClients, ClosingCloses, ConnectedIsReady, calls,
                    BackgroundStarts
<1>5. LiveIsKnown'
  BY <1>1, <1>2 DEF IInv, TypeOK, LiveIsKnown, LiveIn
<1> QED
  BY <1>3, <1>4, <1>5 DEF IInv

----------------------------------------------------------------------------
\* Every step keeps the invariant.
LEMMA NextIInv == IInv /\ [Next]_vars => IInv'
<1> SUFFICES ASSUME IInv, [Next]_vars PROVE IInv'
  OBVIOUS
<1>1. CASE UNCHANGED vars
  <2>1. TypeOK'
    BY <1>1 DEF vars, bot, calls, IInv, TypeOK
  <2>2. TasksHaveClients' /\ ClosingCloses' /\ ConnectedIsReady' /\ LiveIsKnown'
        /\ BackgroundStarts'
    BY <1>1 DEF vars, bot, calls, IInv, TasksHaveClients, ClosingCloses, ConnectedIsReady,
                LiveIsKnown, LiveIn, BackgroundStarts
  <2> QED
    BY <2>1, <2>2 DEF IInv
<1>2. CASE Shutdown
  <2>1. "shutdown" \in Coroutines \ Background
    BY DEF Coroutines, Background
  <2> QED
    BY <1>2, <2>1, StopIInv DEF Shutdown
<1> QED
  BY <1>1, <1>2, BackgroundIInv, SetupIInv, LooksIInv, LeaveIInv, ClosedIInv, CancelledIInv, RunClientIInv,
     ClientOverIInv, SessionIInv DEF Next

\* The inductive invariant holds in every reachable state.
THEOREM BotInvariant == Spec => []IInv
BY InitIInv, NextIInv, PTL DEF Spec

\* The attributes keep their types for any number of requests and clients.
THEOREM BotTypeCorrect == Spec => []TypeOK
<1>1. IInv => TypeOK
  BY DEF IInv
<1> QED
  BY <1>1, BotInvariant, PTL

\* CONNECTED is said of a bot that is ready, or of one that is being stopped, in
\* whatever order starts, stops and the library's events come.
THEOREM ConnectedReady == Spec => []ConnectedIsReady
<1>1. IInv => ConnectedIsReady
  BY DEF IInv
<1> QED
  BY <1>1, BotInvariant, PTL

\* No client is lost but by a start() during another start() or stop().
THEOREM LiveKnown == Spec => []LiveIsKnown
<1>1. IInv => LiveIsKnown
  BY DEF IInv
<1> QED
  BY <1>1, BotInvariant, PTL

----------------------------------------------------------------------------
(***************************************************************************)
(* The Telegram bot.                                                       *)
(***************************************************************************)

\* An Application is touched only once its coroutine has built it, which it does
\* once, and the shutdown builds none.
BuiltOnce ==
    /\ step["shutdown"] \notin StartCalls
    /\ \A a \in Starters :
          (a = app \/ being[a] # {} \/ \E k \in Callers : on[k] = a) =>
              step[a] \in StartCalls \cup {"over"}

OneAtOnce == \A j, k \in Callers : Under(j) /\ Under(k) => j = k

\* Alone, a start() works on its own Application, which polls from the last call on, ...
Starting ==
    \A k \in Starters : step[k] \in StartCalls =>
        /\ ~polls /\ app = k /\ on[k] = k
        /\ "polling" \in being[k] <=> step[k] = "poll"

\* ... and a stop() on the one that is there, while none polls.
Stopping ==
    \A k \in Callers : step[k] \in StopCalls =>
        /\ app = on[k]
        /\ \A a \in Starters : "polling" \notin being[a]

TelegramIInv ==
    /\ TelegramTypeOK
    /\ BuiltOnce
    /\ ~overlapped => OneAtOnce /\ Starting /\ Stopping
    /\ RunningIsPolling

----------------------------------------------------------------------------
Modes == {"initialized", "running", "polling"}
Applications == [Starters -> SUBSET Modes]

\* What the calls make of an Application, and that one call alone makes it poll.
LEMMA CallEffects ==
    ASSUME NEW is \in SUBSET Modes
    PROVE  /\ \A call \in {"start", "poll", "unpoll", "halt", "close"} :
                 /\ Entered(call, is) \in SUBSET Modes
                 /\ "polling" \in Entered(call, is) <=>
                       call = "poll" \/ (call # "unpoll" /\ "polling" \in is)
           /\ \A call \in StartCalls \cup StopCalls :
                 /\ Left(call, is) \in SUBSET Modes
                 /\ "polling" \in Left(call, is) <=> "polling" \in is
                 /\ Raised(call, is) \in SUBSET Modes
                 /\ "polling" \in Raised(call, is) <=> "polling" \in is /\ call # "poll"
BY DEF Modes, Entered, Left, Raised, StartCalls, StopCalls

LEMMA Names ==
    /\ "shutdown" \notin Starters /\ "startup" \in Starters
    /\ NoApp \notin Starters /\ Starters \subseteq Callers /\ Setups \subseteq Starters
BY TelegramAssumption DEF Starters, Callers

LEMMA InitTelegram == TelegramInit => TelegramIInv
<1> SUFFICES ASSUME TelegramInit PROVE TelegramIInv
  OBVIOUS
<1>1. \A k \in Callers : ~Under(k) /\ step[k] = "idle" /\ on[k] = NoApp
  BY DEF TelegramInit, Under, StartCalls, StopCalls
<1>2. TelegramTypeOK
  BY <1>1 DEF TelegramInit, TelegramTypeOK
<1>3. BuiltOnce
  BY <1>1, Names DEF TelegramInit, BuiltOnce, StartCalls, Callers
<1>4. OneAtOnce /\ Starting /\ Stopping
  BY <1>1, Names DEF OneAtOnce, Starting, Stopping, StartCalls, StopCalls
<1>5. RunningIsPolling
  BY DEF TelegramInit, RunningIsPolling
<1> QED
  BY <1>2, <1>3, <1>4, <1>5 DEF TelegramIInv

\* A coroutine that returns, or raises, keeps the invariant if it leaves _running
\* true to the Application that is there.
LEMMA EndKeeps ==
    ASSUME TelegramIInv, NEW k \in Callers, End(k),
           polls' \in BOOLEAN, app' \in {app, NoApp}, being' \in Applications,
           \A a \in Starters : being'[a] # {} => being[a] # {} \/ on[k] = a,
           ~overlapped' =>
               /\ polls' => app' # NoApp /\ "polling" \in being'[app']
               /\ \A a \in Starters : "polling" \in being'[a] => a = app' /\ polls'
    PROVE  TelegramIInv'
<1>1. /\ step' = [step EXCEPT ![k] = "over"]
      /\ on' = [on EXCEPT ![k] = NoApp]
      /\ overlapped' = (overlapped \/ \E j \in Callers \ {k} : Under(j))
  BY DEF End, At
<1>2. TelegramTypeOK
  BY DEF TelegramIInv
<1>3. TelegramTypeOK'
  BY <1>1, <1>2 DEF TelegramTypeOK, Applications, Modes, Under, StartCalls, StopCalls
<1>4. BuiltOnce'
  BY <1>1, <1>2, Names DEF TelegramIInv, BuiltOnce, TelegramTypeOK, StartCalls
<1>5. ASSUME ~overlapped' PROVE OneAtOnce' /\ Starting' /\ Stopping'
  <2>1. \A j \in Callers : ~(step'[j] \in StartCalls \cup StopCalls)
    BY <1>1, <1>2, <1>5 DEF TelegramTypeOK, Under, StartCalls, StopCalls
  <2> QED
    BY <2>1, Names DEF OneAtOnce, Starting, Stopping, Under
<1>6. RunningIsPolling'
  BY DEF RunningIsPolling
<1> QED
  BY <1>3, <1>4, <1>5, <1>6 DEF TelegramIInv

\* A coroutine that goes on to the next call keeps it if a start() works on its own
\* Application, and a stop() on one that no longer polls.
LEMMA AwaitKeeps ==
    ASSUME TelegramIInv, NEW k \in Callers, NEW call \in StartCalls \cup StopCalls,
           NEW a \in Starters, Await(k, call, a),
           polls' \in BOOLEAN, app' = a, being' \in Applications,
           \A b \in Starters : being'[b] # {} => being[b] # {} \/ on[k] = b \/ b = a,
           call \in StartCalls => k # "shutdown",
           step[k] # "over", step[k] \in StartCalls => call \in StartCalls,
           step'[a] \in StartCalls \cup {"over"},
           ~overlapped' =>
               /\ call \in StartCalls =>
                     /\ ~polls' /\ a = k
                     /\ "polling" \in being'[k] <=> call = "poll"
                     /\ \A b \in Starters : "polling" \in being'[b] => b = k
               /\ call \in StopCalls => \A b \in Starters : "polling" \notin being'[b]
    PROVE  TelegramIInv'
<1>1. /\ step' = [step EXCEPT ![k] = call]
      /\ on' = [on EXCEPT ![k] = a]
      /\ overlapped' = (overlapped \/ \E j \in Callers \ {k} : Under(j))
  BY DEF Await, At
<1>2. TelegramTypeOK
  BY DEF TelegramIInv
<1>3. TelegramTypeOK'
  BY <1>1, <1>2 DEF TelegramTypeOK, Applications, Modes, Under
<1>4. BuiltOnce'
  <2>1. step'["shutdown"] \notin StartCalls
    BY <1>1, <1>2 DEF TelegramIInv, BuiltOnce, TelegramTypeOK, Callers
  <2>2. \A b \in Starters : step[b] \in StartCalls \cup {"over"} => step'[b] \in StartCalls \cup {"over"}
    BY <1>1, <1>2, Names DEF TelegramTypeOK
  <2>3. \A b \in Starters :
           (b = app' \/ being'[b] # {} \/ \E j \in Callers : on'[j] = b) =>
              b = a \/ being[b] # {} \/ \E j \in Callers : on[j] = b
    BY <1>1, <1>2 DEF TelegramTypeOK
  <2> QED
    BY <2>1, <2>2, <2>3 DEF TelegramIInv, BuiltOnce
<1>5. ASSUME ~overlapped' PROVE OneAtOnce' /\ Starting' /\ Stopping' /\ RunningIsPolling'
  <2>1. \A j \in Callers : j # k => ~(step'[j] \in StartCalls \cup StopCalls)
    BY <1>1, <1>2, <1>5 DEF TelegramTypeOK, Under
  <2>2. step'[k] = call /\ on'[k] = a
    BY <1>1, <1>2 DEF TelegramTypeOK
  <2>3. StartCalls \cap StopCalls = {}
    BY DEF StartCalls, StopCalls
  <2>4. OneAtOnce'
    BY <2>1 DEF OneAtOnce, Under
  <2>5. Starting'
    BY <2>1, <2>2, <2>3, <1>5, Names DEF Starting
  <2>6. Stopping'
    BY <2>1, <2>2, <2>3, <1>5 DEF Stopping
  <2>7. RunningIsPolling'
    BY <2>2, <2>3, <1>5 DEF RunningIsPolling
  <2> QED
    BY <2>4, <2>5, <2>6, <2>7
<1> QED
  BY <1>3, <1>4, <1>5 DEF TelegramIInv, RunningIsPolling

\* start() of a bot that does not run, by a coroutine that has built nothing yet.
LEMMA BuildAppKeeps ==
    ASSUME TelegramIInv, NEW k \in Starters, step[k] \in {"idle"} \cup StopCalls,
           NEW is \in Applications, BuildApp(k, is),
           \A a \in Starters : is[a] # {} => being[a] # {} \/ on[k] = a,
           ~overlapped' => \A a \in Starters : "polling" \notin is[a]
    PROVE  TelegramIInv'
<1>1. k \in Callers /\ k # "shutdown" /\ TelegramTypeOK
  BY Names DEF TelegramIInv
<1>2. polls' = FALSE /\ being' = is
  BY DEF BuildApp
<1>3. CASE app' = k /\ Await(k, "initialize", k)
  <2>1. step[k] \notin StartCalls \cup {"over"} /\ "initialize" \in StartCalls
    BY DEF StartCalls, StopCalls
  <2>2. step'[k] = "initialize"
    BY <1>1, <1>3 DEF Await, At, TelegramTypeOK
  <2>3. \A b \in Starters : being'[b] # {} => being[b] # {} \/ on[k] = b \/ b = k
    BY <1>2
  <2>4. ~overlapped' => \A a \in Starters : "polling" \notin being'[a]
    BY <1>2
  <2>5. "initialize" # "poll" /\ "initialize" \notin StopCalls
    BY DEF StopCalls
  <2> QED
    BY <1>1, <1>2, <1>3, <2>1, <2>2, <2>3, <2>4, <2>5, AwaitKeeps
<1>4. CASE app' \in {app, NoApp} /\ End(k)
  <2>1. /\ \A a \in Starters : being'[a] # {} => being[a] # {} \/ on[k] = a
        /\ ~overlapped' => \A a \in Starters : "polling" \notin being'[a]
    BY <1>2
  <2> QED
    BY <1>1, <1>2, <1>4, <2>1, EndKeeps
<1> QED
  BY <1>3, <1>4 DEF BuildApp

\* The end of a stop(), and what follows it.
LEMMA StopEndsKeeps ==
    ASSUME TelegramIInv, NEW k \in Callers, step[k] \in {"idle"} \cup StopCalls,
           NEW is \in Applications, StopEnds(k, is),
           \A a \in Starters : is[a] # {} => being[a] # {} \/ on[k] = a,
           ~overlapped' => \A a \in Starters : "polling" \notin is[a]
    PROVE  TelegramIInv'
<1>1. CASE k \in Setups
  BY <1>1, BuildAppKeeps, Names DEF StopEnds
<1>2. CASE k \notin Setups
  <2>1. polls' = FALSE /\ being' = is /\ End(k) /\ app' = app
    BY <1>2 DEF StopEnds
  <2>2. /\ \A a \in Starters : being'[a] # {} => being[a] # {} \/ on[k] = a
        /\ ~overlapped' => \A a \in Starters : "polling" \notin being'[a]
    BY <2>1
  <2> QED
    BY <2>1, <2>2, EndKeeps
<1> QED
  BY <1>1, <1>2

\* A start() or stop() that ends by a call that is refused, fails or, for a stop(), returns.
LEMMA EndsKeeps ==
    ASSUME TelegramIInv, NEW k \in Callers, Under(k),
           NEW is \in Applications, Ends(k, is),
           \A a \in Starters : is[a] # {} => being[a] # {} \/ on[k] = a,
           ~overlapped' => \A a \in Starters : "polling" \notin is[a]
    PROVE  TelegramIInv'
<1>1. CASE step[k] \in StopCalls
  BY <1>1, StopEndsKeeps DEF Ends
<1>2. CASE step[k] \notin StopCalls
  <2>1. polls' = FALSE /\ being' = is /\ End(k) /\ app' = NoApp
    BY <1>2 DEF Ends, StartEnds
  <2>2. /\ \A a \in Starters : being'[a] # {} => being[a] # {} \/ on[k] = a
        /\ ~overlapped' => \A a \in Starters : "polling" \notin being'[a]
    BY <2>1
  <2> QED
    BY <2>1, <2>2, EndKeeps
<1> QED
  BY <1>1, <1>2

\* What a coroutine finds that acts alone.
LEMMA Alone ==
    ASSUME TelegramIInv, NEW k \in Callers, NEW place, NEW a, At(k, place, a), ~overlapped'
    PROVE  /\ ~overlapped /\ \A j \in Callers \ {k} : ~Under(j)
           /\ step[k] \in StopCalls =>
                 app = on[k] /\ \A b \in Starters : "polling" \notin being[b]
           /\ step[k] \in StartCalls =>
                 /\ k \in Starters /\ ~polls /\ app = k /\ on[k] = k
                 /\ \A b \in Starters : "polling" \in being[b] <=> b = k /\ step[k] = "poll"
           /\ ~Under(k) => \A b \in Starters : "polling" \in being[b] => b = app /\ polls
<1>1. ~overlapped /\ \A j \in Callers \ {k} : ~Under(j)
  BY DEF At
<1>2. Starting /\ Stopping /\ RunningIsPolling /\ TelegramTypeOK /\ BuiltOnce
  BY <1>1 DEF TelegramIInv
<1>3. step[k] \in StartCalls => k \in Starters
  BY <1>2 DEF BuiltOnce, Callers
<1>4. \A b \in Starters : "polling" \in being[b] => b = app /\ (polls \/ step[b] = "poll")
  BY <1>1, <1>2 DEF RunningIsPolling
<1>5. \A b \in Starters : step[b] = "poll" => b = k /\ Under(k)
  BY <1>1, Names DEF Under, StartCalls
<1>6. step[k] \in StartCalls =>
         /\ k \in Starters /\ ~polls /\ app = k /\ on[k] = k
         /\ "polling" \in being[k] <=> step[k] = "poll"
  BY <1>2, <1>3 DEF Starting
<1> QED
  BY <1>1, <1>2, <1>4, <1>5, <1>6 DEF Stopping

----------------------------------------------------------------------------
LEMMA StartKeeps == ASSUME TelegramIInv, StartTelegram PROVE TelegramIInv'
<1>1. /\ "startup" \in Starters /\ "startup" \in Callers /\ TelegramTypeOK
      /\ being \in Applications /\ step["startup"] = "idle" /\ ~Under("startup")
  BY Names DEF TelegramIInv, TelegramTypeOK, Applications, Modes, StartTelegram, Under, StartCalls, StopCalls
<1>2. CASE polls
  <2>1. End("startup") /\ UNCHANGED <<polls, app, being>>
    BY <1>2 DEF StartTelegram
  <2>2. ~overlapped' => app # NoApp /\ "polling" \in being[app]
    <3>1. SUFFICES ASSUME ~overlapped' PROVE app # NoApp /\ "polling" \in being[app]
      OBVIOUS
    <3>2. ~overlapped /\ \A j \in Callers \ {"startup"} : ~Under(j)
      BY <1>1, <2>1, <3>1, Alone DEF End
    <3>3. \A j \in Callers : step[j] \notin StopCalls
      BY <1>1, <3>2 DEF Under
    <3> QED
      BY <1>2, <3>2, <3>3 DEF TelegramIInv, RunningIsPolling
  <2>3. ~overlapped' => \A a \in Starters : "polling" \in being[a] => a = app
    BY <1>1, <2>1, Alone DEF End
  <2>4. polls \in BOOLEAN
    BY <1>1 DEF TelegramTypeOK
  <2> QED
    BY <1>1, <1>2, <2>1, <2>2, <2>3, <2>4, EndKeeps
<1>3. CASE ~polls
  <2>1. BuildApp("startup", being)
    BY <1>3 DEF StartTelegram
  <2>2. ~overlapped' => \A a \in Starters : "polling" \notin being[a]
    BY <1>1, <1>3, <2>1, Alone DEF BuildApp, Await, End
  <2> QED
    BY <1>1, <2>1, <2>2, BuildAppKeeps
<1> QED
  BY <1>2, <1>3

\* The beginning of a stop(), called by a setup request or the shutdown.
LEMMA StopKeeps ==
    ASSUME TelegramIInv, NEW k \in Callers, step[k] = "idle", app # NoApp, StopTelegram(k)
    PROVE  TelegramIInv'
<1>1. /\ TelegramTypeOK /\ being \in Applications /\ app \in Starters /\ ~Under(k)
      /\ being[app] \in SUBSET Modes
  BY DEF TelegramIInv, TelegramTypeOK, Applications, Modes, Under, StartCalls, StopCalls
<1>2. CASE Accepts("unpoll", being[app])
  <2>1. /\ being' = [being EXCEPT ![app] = Entered("unpoll", @)]
        /\ Await(k, "unpoll", app) /\ UNCHANGED <<polls, app>>
    BY <1>2 DEF StopTelegram
  <2>2. /\ Entered("unpoll", being[app]) \in SUBSET Modes
        /\ "polling" \notin Entered("unpoll", being[app])
    BY <1>1, CallEffects
  <2>3. being' \in Applications /\ \A b \in Starters : b # app => being'[b] = being[b]
    BY <1>1, <2>1, <2>2 DEF Applications
  <2>4. "unpoll" \in StopCalls /\ "unpoll" \notin StartCalls
        /\ step[k] \notin StartCalls \cup {"over"}
    BY DEF StartCalls, StopCalls
  <2>5. step'[app] \in StartCalls \cup {"over"}
    <3>1. step[app] \in StartCalls \cup {"over"}
      BY <1>1 DEF TelegramIInv, BuiltOnce
    <3> QED
      BY <1>1, <2>1, <2>4, <3>1, Names DEF Await, At, TelegramTypeOK
  <2>6. ~overlapped' => \A b \in Starters : "polling" \notin being'[b]
    BY <1>1, <2>1, <2>2, <2>3, Alone DEF Await, Applications
  <2>7. polls' \in BOOLEAN /\ app' = app
    BY <1>1, <2>1 DEF TelegramTypeOK
  <2>8. \A b \in Starters : being'[b] # {} => being[b] # {} \/ on[k] = b \/ b = app
    BY <2>3
  <2> QED
    BY <1>1, <2>1, <2>3, <2>4, <2>5, <2>6, <2>7, <2>8, AwaitKeeps
<1>3. CASE ~Accepts("unpoll", being[app])
  <2>1. StopEnds(k, being)
    BY <1>3 DEF StopTelegram, StopEnds
  <2>2. "polling" \notin being[app]
    BY <1>3 DEF Accepts
  <2>3. ~overlapped' => \A a \in Starters : "polling" \notin being[a]
    BY <1>1, <2>1, <2>2, Alone DEF StopEnds, BuildApp, Await, End
  <2> QED
    BY <1>1, <2>1, <2>3, StopEndsKeeps
<1> QED
  BY <1>2, <1>3

LEMMA SetupKeeps == ASSUME TelegramIInv, NEW k \in Setups, SetupTelegram(k) PROVE TelegramIInv'
<1>1. /\ k \in Starters /\ k \in Callers /\ TelegramTypeOK
      /\ being \in Applications /\ step[k] = "idle" /\ ~Under(k)
  BY Names DEF TelegramIInv, TelegramTypeOK, Applications, Modes, SetupTelegram, Under, StartCalls, StopCalls
<1>2. CASE ~polls
  <2>1. BuildApp(k, being)
    BY <1>2 DEF SetupTelegram
  <2>2. ~overlapped' => \A a \in Starters : "polling" \notin being[a]
    BY <1>1, <1>2, <2>1, Alone DEF BuildApp, Await, End
  <2> QED
    BY <1>1, <2>1, <2>2, BuildAppKeeps
<1>3. CASE polls /\ app = NoApp
  <2>1. End(k) /\ UNCHANGED <<polls, app, being>>
    BY <1>3 DEF SetupTelegram
  <2>2. overlapped'
    <3>1. SUFFICES ASSUME ~overlapped' PROVE FALSE
      BY <1>1, <2>1 DEF End, At, TelegramTypeOK
    <3>2. ~overlapped /\ \A j \in Callers : ~Under(j)
      BY <1>1, <2>1, <3>1, Alone DEF End
    <3> QED
      BY <1>3, <3>2 DEF TelegramIInv, RunningIsPolling, Under
  <2>3. polls \in BOOLEAN
    BY <1>1 DEF TelegramTypeOK
  <2> QED
    BY <1>1, <2>1, <2>2, <2>3, EndKeeps
<1>4. CASE polls /\ app # NoApp
  BY <1>1, <1>4, StopKeeps DEF SetupTelegram
<1> QED
  BY <1>2, <1>3, <1>4

LEMMA ShutKeeps == ASSUME TelegramIInv, ShutTelegram PROVE TelegramIInv'
<1>1. /\ "shutdown" \in Callers /\ TelegramTypeOK
      /\ being \in Applications /\ step["shutdown"] = "idle" /\ ~Under("shutdown")
  BY DEF TelegramIInv, TelegramTypeOK, Applications, Modes, ShutTelegram, Under, StartCalls, StopCalls, Callers
<1>2. CASE ~polls \/ app = NoApp
  <2>1. End("shutdown") /\ UNCHANGED <<polls, app, being>>
    BY <1>2 DEF ShutTelegram
  <2>2. ~overlapped' => ~polls /\ \A a \in Starters : "polling" \notin being[a]
    <3>1. SUFFICES ASSUME ~overlapped' PROVE ~polls /\ \A a \in Starters : "polling" \notin being[a]
      OBVIOUS
    <3>2. /\ ~overlapped /\ \A j \in Callers : ~Under(j)
          /\ \A b \in Starters : "polling" \in being[b] => polls
      BY <1>1, <2>1, <3>1, Alone DEF End
    <3>3. polls => app # NoApp
      BY <3>2 DEF TelegramIInv, RunningIsPolling, Under
    <3> QED
      BY <1>2, <3>2, <3>3
  <2>3. polls \in BOOLEAN
    BY <1>1 DEF TelegramTypeOK
  <2> QED
    BY <1>1, <2>1, <2>2, <2>3, EndKeeps
<1>3. CASE polls /\ app # NoApp
  BY <1>1, <1>3, StopKeeps DEF ShutTelegram
<1> QED
  BY <1>2, <1>3

\* One Application is another one by a call: what that means for all of them.
LEMMA OneChanges ==
    ASSUME TelegramIInv, NEW k \in Callers, Under(k), NEW to \in SUBSET Modes,
           NEW is, is = [being EXCEPT ![on[k]] = to]
    PROVE  /\ is \in Applications /\ on[k] \in Starters /\ is[on[k]] = to
           /\ being[on[k]] \in SUBSET Modes
           /\ \A a \in Starters : a # on[k] => is[a] = being[a]
           /\ \A a \in Starters : is[a] # {} => being[a] # {} \/ on[k] = a
BY DEF TelegramIInv, TelegramTypeOK, Applications, Modes

LEMMA GoesOnKeeps == ASSUME TelegramIInv, NEW k \in Callers, GoesOn(k) PROVE TelegramIInv'
<1> DEFINE call == After[step[k]]
           is == [being EXCEPT ![on[k]] = Left(step[k], @)]
<1>1. \/ step[k] \in {"initialize", "start"} /\ call \in {"start", "poll"}
      \/ step[k] \in {"unpoll", "halt"} /\ call \in {"halt", "close"}
  BY DEF GoesOn, After
<1>2. /\ TelegramTypeOK /\ Under(k) /\ step[k] # "over"
      /\ being[on[k]] \in SUBSET Modes /\ call \in StartCalls \cup StopCalls
      /\ step[k] \in StartCalls <=> call \in StartCalls
      /\ step[k] \in StopCalls <=> call \in StopCalls
  BY <1>1 DEF TelegramIInv, TelegramTypeOK, Modes, Under, StartCalls, StopCalls
<1> HIDE DEF call
<1>3. /\ Left(step[k], being[on[k]]) \in SUBSET Modes
      /\ "polling" \in Left(step[k], being[on[k]]) <=> "polling" \in being[on[k]]
  BY <1>1, <1>2, CallEffects DEF StartCalls, StopCalls
<1>4. /\ is \in Applications /\ on[k] \in Starters
      /\ \A a \in Starters : a # on[k] => is[a] = being[a]
      /\ \A a \in Starters : is[a] # {} => being[a] # {} \/ on[k] = a
      /\ is[on[k]] = Left(step[k], being[on[k]])
  BY <1>2, <1>3, OneChanges, SMTT(30)
<1>5. \A a \in Starters : "polling" \in is[a] <=> "polling" \in being[a]
  BY <1>3, <1>4
<1> HIDE DEF is
<1>6. CASE app # NoApp /\ Accepts(call, is[app])
  <2>1. /\ being' = [is EXCEPT ![app] = Entered(call, @)]
        /\ Await(k, call, app) /\ UNCHANGED <<polls, app>>
    BY <1>6 DEF GoesOn, call, is
  <2>2. app \in Starters /\ is[app] \in SUBSET Modes
    BY <1>2, <1>4, <1>6 DEF TelegramTypeOK, Applications
  <2>3. /\ Entered(call, is[app]) \in SUBSET Modes
        /\ "polling" \in Entered(call, is[app]) <=>
              call = "poll" \/ (call # "unpoll" /\ "polling" \in is[app])
    BY <1>1, <2>2, CallEffects
  <2>4. /\ being' \in Applications /\ being'[app] = Entered(call, is[app])
        /\ \A b \in Starters : b # app => being'[b] = is[b]
    BY <1>4, <2>1, <2>2, <2>3 DEF Applications
  <2>5. call \in StartCalls => k # "shutdown"
    BY <1>2 DEF TelegramIInv, BuiltOnce
  <2>6. step'[app] \in StartCalls \cup {"over"}
    <3>1. step[app] \in StartCalls \cup {"over"}
      BY <2>2 DEF TelegramIInv, BuiltOnce
    <3> QED
      BY <1>2, <2>1, <2>2, <3>1, Names DEF Await, At, TelegramTypeOK
  <2>7. ASSUME ~overlapped'
        PROVE  /\ call \in StartCalls =>
                     /\ ~polls' /\ app = k
                     /\ "polling" \in being'[k] <=> call = "poll"
                     /\ \A b \in Starters : "polling" \in being'[b] => b = k
               /\ call \in StopCalls => \A b \in Starters : "polling" \notin being'[b]
    <3>1. /\ step[k] \in StopCalls => \A b \in Starters : "polling" \notin being[b]
          /\ step[k] \in StartCalls =>
                /\ k \in Starters /\ ~polls /\ app = k
                /\ \A b \in Starters : "polling" \in being[b] <=> b = k /\ step[k] = "poll"
      BY <2>1, <2>7, Alone DEF Await
    <3>2. call \in StopCalls => call # "poll"
      BY DEF StopCalls
    <3>3. CASE call \in StartCalls
      <4>1. ~polls' /\ app = k /\ k \in Starters /\ step[k] # "poll" /\ call \notin StopCalls
        BY <1>1, <1>2, <2>1, <3>1, <3>3 DEF StartCalls, StopCalls
      <4>2. \A b \in Starters : "polling" \notin is[b]
        BY <1>2, <1>5, <3>1, <3>3, <4>1
      <4> QED
        BY <2>3, <2>4, <4>1, <4>2
    <3>4. CASE call \in StopCalls
      <4>1. \A b \in Starters : "polling" \notin is[b]
        BY <1>2, <1>5, <3>1, <3>4
      <4>2. call \notin StartCalls
        BY <3>4 DEF StartCalls, StopCalls
      <4> QED
        BY <2>3, <2>4, <3>2, <3>4, <4>1, <4>2
    <3> QED
      BY <1>2, <3>3, <3>4
  <2>8. \A b \in Starters : being'[b] # {} => being[b] # {} \/ on[k] = b \/ b = app
    BY <1>4, <2>4
  <2>9. polls' \in BOOLEAN /\ app' = app
    BY <1>2, <2>1 DEF TelegramTypeOK
  <2> QED
    BY <1>2, <2>1, <2>2, <2>4, <2>5, <2>6, <2>7, <2>8, <2>9, AwaitKeeps, ZenonT(60)
<1>7. CASE ~(app # NoApp /\ Accepts(call, is[app]))
  <2>1. Ends(k, is)
    BY <1>7 DEF GoesOn, call, is
  <2>2. step[k] # "poll" /\ (step[k] \in StartCalls \/ step[k] \in StopCalls)
    BY <1>1 DEF StartCalls, StopCalls
  <2>3. ~overlapped' => \A a \in Starters : "polling" \notin is[a]
    BY <1>5, <2>1, <2>2, Alone DEF Ends, StartEnds, StopEnds, BuildApp, Await, End
  <2> QED
    BY <1>2, <1>4, <2>1, <2>3, EndsKeeps
<1> QED
  BY <1>6, <1>7

LEMMA IsStartedKeeps == ASSUME TelegramIInv, NEW k \in Callers, IsStarted(k) PROVE TelegramIInv'
<1>1. /\ End(k) /\ polls' = TRUE /\ UNCHANGED <<app, being>>
      /\ step[k] = "poll" /\ being \in Applications
  BY DEF IsStarted, TelegramIInv, TelegramTypeOK, Applications, Modes
<1>2. "poll" \in StartCalls
  BY DEF StartCalls
<1>3. ~overlapped' => /\ app # NoApp /\ "polling" \in being[app]
                      /\ \A a \in Starters : "polling" \in being[a] => a = app
  BY <1>1, <1>2, Alone, Names DEF End
<1> QED
  BY <1>1, <1>3, EndKeeps

LEMMA IsStoppedKeeps == ASSUME TelegramIInv, NEW k \in Callers, IsStopped(k) PROVE TelegramIInv'
<1> DEFINE is == [being EXCEPT ![on[k]] = Left("close", @)]
<1>1. /\ StopEnds(k, is) /\ step[k] \in StopCalls /\ Under(k)
      /\ being[on[k]] \in SUBSET Modes /\ "close" \in StopCalls
  BY DEF IsStopped, Under, StopCalls, TelegramIInv, TelegramTypeOK, StartCalls, Modes
<1>2. /\ Left("close", being[on[k]]) \in SUBSET Modes
      /\ "polling" \in Left("close", being[on[k]]) <=> "polling" \in being[on[k]]
  BY <1>1, CallEffects
<1>3. /\ is \in Applications /\ is[on[k]] = Left("close", being[on[k]]) /\ on[k] \in Starters
      /\ \A a \in Starters : a # on[k] => is[a] = being[a]
      /\ \A a \in Starters : is[a] # {} => being[a] # {} \/ on[k] = a
  BY <1>1, <1>2, OneChanges
<1> HIDE DEF is
<1>4. ~overlapped' => \A a \in Starters : "polling" \notin being[a]
  BY <1>1, Alone DEF StopEnds, BuildApp, Await, End
<1>5. ~overlapped' => \A a \in Starters : "polling" \notin is[a]
  BY <1>2, <1>3, <1>4
<1> QED
  BY <1>1, <1>3, <1>5, StopEndsKeeps

LEMMA CallFailsKeeps == ASSUME TelegramIInv, NEW k \in Callers, CallFails(k) PROVE TelegramIInv'
<1> DEFINE is == [being EXCEPT ![on[k]] = Raised(step[k], @)]
<1>1. /\ Ends(k, is) /\ step[k] \in StartCalls \cup StopCalls /\ Under(k)
      /\ being[on[k]] \in SUBSET Modes
  BY DEF CallFails, Under, TelegramIInv, TelegramTypeOK, Modes
<1>2. /\ Raised(step[k], being[on[k]]) \in SUBSET Modes
      /\ "polling" \in Raised(step[k], being[on[k]]) <=>
            "polling" \in being[on[k]] /\ step[k] # "poll"
  BY <1>1, CallEffects
<1>3. /\ is \in Applications /\ is[on[k]] = Raised(step[k], being[on[k]]) /\ on[k] \in Starters
      /\ \A a \in Starters : a # on[k] => is[a] = being[a]
      /\ \A a \in Starters : is[a] # {} => being[a] # {} \/ on[k] = a
  BY <1>1, <1>2, OneChanges
<1> HIDE DEF is
<1>4. ASSUME ~overlapped' PROVE \A a \in Starters : "polling" \notin is[a]
  <2>1. /\ step[k] \in StopCalls => \A b \in Starters : "polling" \notin being[b]
        /\ step[k] \in StartCalls =>
              /\ on[k] = k
              /\ \A b \in Starters : "polling" \in being[b] <=> b = k /\ step[k] = "poll"
    BY <1>1, <1>4, Alone DEF Ends, StartEnds, StopEnds, BuildApp, Await, End
  <2> QED
    BY <1>1, <1>2, <1>3, <2>1
<1> QED
  BY <1>1, <1>3, <1>4, EndsKeeps

----------------------------------------------------------------------------
LEMMA NextTelegram == TelegramIInv /\ [TelegramNext]_telegramVars => TelegramIInv'
<1> SUFFICES ASSUME TelegramIInv, [TelegramNext]_telegramVars PROVE TelegramIInv'
  OBVIOUS
<1>1. CASE StartTelegram
  BY <1>1, StartKeeps
<1>2. CASE \E k \in Setups : SetupTelegram(k)
  BY <1>2, SetupKeeps
<1>3. CASE ShutTelegram
  BY <1>3, ShutKeeps
<1>4. CASE \E k \in Callers : GoesOn(k) \/ IsStarted(k) \/ IsStopped(k) \/ CallFails(k)
  BY <1>4, GoesOnKeeps, IsStartedKeeps, IsStoppedKeeps, CallFailsKeeps
<1>5. CASE UNCHANGED telegramVars
  BY <1>5 DEF telegramVars, TelegramIInv, TelegramTypeOK, BuiltOnce, OneAtOnce, Starting, Stopping,
              RunningIsPolling, Under
<1> QED
  BY <1>1, <1>2, <1>3, <1>4, <1>5 DEF TelegramNext

\* The inductive invariant of the Telegram bot.
THEOREM TelegramInvariant == TelegramSpec => []TelegramIInv
<1> QED
  BY InitTelegram, NextTelegram, PTL DEF TelegramSpec

\* The attributes of the bot, the Applications and the coroutines have their types
\* (TelegramBot of bot.py).
THEOREM TelegramTypeCorrect == TelegramSpec => []TelegramTypeOK
<1>1. TelegramIInv => TelegramTypeOK
  BY DEF TelegramIInv
<1> QED
  BY <1>1, TelegramInvariant, PTL

\* While no two coroutines start or stop the Telegram bot at once, is_running says
\* whether its Application polls, and no other one does, for any number of setup
\* requests and whichever calls fail.
THEOREM RunningPolls == TelegramSpec => []RunningIsPolling
<1>1. TelegramIInv => RunningIsPolling
  BY DEF TelegramIInv
<1> QED
  BY <1>1, TelegramInvariant, PTL

----------------------------------------------------------------------------
(***************************************************************************)
(* The answers of the Discord bot.                                         *)
(***************************************************************************)

(* Flattened sequences. *)
\* The function that the definition of FlattenSeq defines.
FlatIs(f, ss, n) == f = [i \in 1 .. n |-> IF i = 1 THEN ss[i] ELSE f[i - 1] \o ss[i]]

LEMMA FlatExists ==
    ASSUME NEW ss
    PROVE  \A n \in Nat : \E f : FlatIs(f, ss, n)
<1> DEFINE N == {n \in Nat : \E f : FlatIs(f, ss, n)}
<1>1. 0 \in N
  <2> DEFINE f == [i \in 1 .. 0 |-> <<>>]
  <2>1. FlatIs(f, ss, 0)
    BY DEF FlatIs
  <2> QED BY <2>1
<1>2. ASSUME NEW n \in Nat, n \in N PROVE n + 1 \in N
  <2>1. PICK f : FlatIs(f, ss, n)
    BY <1>2
  <2> DEFINE g == [i \in 1 .. n + 1 |->
                      IF i = n + 1 THEN IF i = 1 THEN ss[i] ELSE f[n] \o ss[i] ELSE f[i]]
  <2>2. \A i \in 1 .. n : g[i] = f[i]
    OBVIOUS
  <2>3. ASSUME NEW i \in 1 .. n + 1
        PROVE  g[i] = IF i = 1 THEN ss[i] ELSE g[i - 1] \o ss[i]
    <3>1. CASE i = n + 1
      <4>1. CASE i = 1
        BY <3>1, <4>1
      <4>2. CASE i # 1
        <5>1. n \in 1 .. n /\ i - 1 = n
          BY <3>1, <4>2
        <5>2. g[i - 1] = f[n]
          BY <2>2, <5>1
        <5> QED BY <3>1, <4>2, <5>2
      <4> QED BY <4>1, <4>2
    <3>2. CASE i # n + 1
      <4>1. i \in 1 .. n /\ (i # 1 => i - 1 \in 1 .. n)
        BY <3>2
      <4>2. f[i] = IF i = 1 THEN ss[i] ELSE f[i - 1] \o ss[i]
        BY <2>1, <4>1 DEF FlatIs
      <4> QED BY <2>2, <4>1, <4>2
    <3> QED BY <3>1, <3>2
  <2>4. FlatIs(g, ss, n + 1)
    <3> DEFINE h == [i \in 1 .. n + 1 |-> IF i = 1 THEN ss[i] ELSE g[i - 1] \o ss[i]]
    <3>1. \A i \in 1 .. n + 1 : g[i] = h[i]
      BY <2>3
    <3>2. g = h
      BY <3>1
    <3> QED BY <3>2 DEF FlatIs
  <2> QED BY <2>4
<1>3. Nat \subseteq N
  <2> HIDE DEF N
  <2> QED BY <1>1, <1>2, NatSetInduction
<1> QED BY <1>3

\* A value of such a function.
LEMMA FlatStep ==
    ASSUME NEW ss, NEW f, NEW n \in Nat, FlatIs(f, ss, n), NEW k \in Nat, k # 0, k + 1 <= n
    PROVE  f[k + 1] = f[k] \o ss[k + 1]
<1> DEFINE j == k + 1
<1>1. j \in 1 .. n /\ j # 1 /\ j - 1 = k
  OBVIOUS
<1> HIDE DEF j
<1>2. f[j] = f[j - 1] \o ss[j]
  BY <1>1 DEF FlatIs
<1> QED BY <1>1, <1>2 DEF j

\* Two such functions agree as far as their sequences do.
LEMMA FlatAgree ==
    ASSUME NEW ss, NEW tt, NEW f, NEW g, NEW m \in Nat, NEW n \in Nat,
           FlatIs(f, ss, m), FlatIs(g, tt, n), m <= n, \A i \in 1 .. m : ss[i] = tt[i]
    PROVE  \A i \in 1 .. m : f[i] = g[i]
<1> DEFINE N == {k \in Nat : k \in 1 .. m => f[k] = g[k]}
<1>1. 0 \in N
  OBVIOUS
<1>2. ASSUME NEW k \in Nat, k \in N PROVE k + 1 \in N
  <2> SUFFICES ASSUME k + 1 <= m PROVE f[k + 1] = g[k + 1]
    OBVIOUS
  <2>1. ss[k + 1] = tt[k + 1]
    OBVIOUS
  <2>2. CASE k = 0
    <3>1. 1 \in 1 .. m /\ 1 \in 1 .. n
      BY <2>2
    <3>2. f[1] = ss[1] /\ g[1] = tt[1]
      BY <3>1 DEF FlatIs
    <3> QED BY <2>1, <2>2, <3>2
  <2>3. CASE k # 0
    <3>1. f[k] = g[k]
      BY <1>2, <2>3
    <3>a. k + 1 <= n
      OBVIOUS
    <3>b. f[k + 1] = f[k] \o ss[k + 1]
      BY <2>3, FlatStep
    <3>c. g[k + 1] = g[k] \o tt[k + 1]
      BY <2>3, <3>a, FlatStep
    <3>2. f[k + 1] = f[k] \o ss[k + 1] /\ g[k + 1] = g[k] \o tt[k + 1]
      BY <3>b, <3>c
    <3> QED BY <2>1, <3>1, <3>2
  <2> QED BY <2>2, <2>3
<1>3. Nat \subseteq N
  <2> HIDE DEF N
  <2> QED BY <1>1, <1>2, NatSetInduction
<1> QED BY <1>3

LEMMA FlattenIsFlat ==
    ASSUME NEW ss, Len(ss) \in Nat, Len(ss) # 0
    PROVE  \E f : FlatIs(f, ss, Len(ss)) /\ FlattenSeq(ss) = f[Len(ss)]
<1> DEFINE f == CHOOSE f : FlatIs(f, ss, Len(ss))
<1>1. FlatIs(f, ss, Len(ss))
  BY FlatExists
<1>2. FlattenSeq(ss) = f[Len(ss)]
  BY DEF FlattenSeq, FlatIs
<1> QED BY <1>1, <1>2

\* What FlattenSeq makes of longer sequences.
LEMMA FlattenEmpty == FlattenSeq(<<>>) = <<>>
BY DEF FlattenSeq

LEMMA FlattenOne ==
    ASSUME NEW S, NEW x \in Seq(S)
    PROVE  FlattenSeq(<<x>>) = x
<1> DEFINE ss == <<x>>
<1>1. Len(ss) = 1 /\ ss[1] = x
  OBVIOUS
<1> HIDE DEF ss
<1>a. Len(ss) \in Nat /\ Len(ss) # 0
  BY <1>1
<1>b. \E f : FlatIs(f, ss, Len(ss)) /\ FlattenSeq(ss) = f[Len(ss)]
  BY <1>a, FlattenIsFlat
<1>2. PICK f : FlatIs(f, ss, 1) /\ FlattenSeq(ss) = f[1]
  BY <1>1, <1>b
<1>3. f[1] = ss[1]
  BY <1>2 DEF FlatIs
<1> QED BY <1>1, <1>2, <1>3 DEF ss

LEMMA FlattenAppendNonempty ==
    ASSUME NEW S, NEW ss \in Seq(Seq(S)), NEW x \in Seq(S), ss # <<>>
    PROVE  FlattenSeq(Append(ss, x)) = FlattenSeq(ss) \o x
<1> DEFINE tt == Append(ss, x)
<1>0. PICK n \in Nat : n = Len(ss) /\ n # 0
  OBVIOUS
<1>k. PICK k \in Nat : k = n + 1
  OBVIOUS
<1>1. Len(tt) = k /\ tt[k] = x /\ \A i \in 1 .. n : ss[i] = tt[i]
  BY <1>0, <1>k
<1> HIDE DEF tt
<1>2. PICK f : FlatIs(f, ss, n) /\ FlattenSeq(ss) = f[n]
  BY <1>0, FlattenIsFlat
<1>a. k # 0 /\ n <= k
  BY <1>k
<1>b. \E g : FlatIs(g, tt, Len(tt)) /\ FlattenSeq(tt) = g[Len(tt)]
  BY <1>1, <1>a, FlattenIsFlat
<1>3. PICK g : FlatIs(g, tt, k) /\ FlattenSeq(tt) = g[k]
  BY <1>1, <1>b
<1>4. \A i \in 1 .. n : f[i] = g[i]
  <2>1. FlatIs(f, ss, n) /\ FlatIs(g, tt, k) /\ n <= k /\ \A i \in 1 .. n : ss[i] = tt[i]
    BY <1>1, <1>2, <1>3, <1>a
  <2> QED BY <2>1, FlatAgree, SMTT(30)
<1>c. g[n + 1] = g[n] \o tt[n + 1]
  <2>1. FlatIs(g, tt, k) /\ n # 0 /\ n + 1 <= k
    BY <1>0, <1>3, <1>k
  <2> QED BY <2>1, FlatStep, Zenon
<1>5. g[k] = g[n] \o tt[k]
  BY <1>c, <1>k
<1>6. f[n] = g[n]
  BY <1>0, <1>4
<1> QED BY <1>1, <1>2, <1>3, <1>5, <1>6 DEF tt

\* A flattened sequence of sequences is a sequence of their elements.
LEMMA FlattenType ==
    ASSUME NEW S, NEW ss \in Seq(Seq(S))
    PROVE  FlattenSeq(ss) \in Seq(S)
<1> DEFINE T == {tt \in Seq(Seq(S)) : FlattenSeq(tt) \in Seq(S)}
<1>1. <<>> \in T
  <2>1. <<>> \in Seq(Seq(S)) /\ <<>> \in Seq(S)
    OBVIOUS
  <2> QED BY <2>1, FlattenEmpty
<1>2. ASSUME NEW tt \in Seq(Seq(S)), NEW x \in Seq(S), tt \in T PROVE Append(tt, x) \in T
  <2>1. CASE tt = <<>>
    <3>1. Append(tt, x) = <<x>>
      BY <2>1
    <3>2. FlattenSeq(<<x>>) = x
      BY FlattenOne
    <3> QED BY <3>1, <3>2
  <2>2. CASE tt # <<>>
    <3>1. FlattenSeq(Append(tt, x)) = FlattenSeq(tt) \o x
      BY <2>2, FlattenAppendNonempty
    <3>2. FlattenSeq(tt) \o x \in Seq(S)
      BY <1>2, ConcatProperties
    <3>3. Append(tt, x) \in Seq(Seq(S))
      OBVIOUS
    <3> QED BY <3>1, <3>2, <3>3
  <2> QED BY <2>1, <2>2
<1>3. Seq(Seq(S)) \subseteq T
  <2> HIDE DEF T
  <2> QED BY <1>1, <1>2, SeqSetInduction
<1> QED BY <1>3

LEMMA FlattenAppend ==
    ASSUME NEW S, NEW ss \in Seq(Seq(S)), NEW x \in Seq(S)
    PROVE  FlattenSeq(Append(ss, x)) = FlattenSeq(ss) \o x
<1>1. CASE ss = <<>>
  <2>1. Append(ss, x) = <<x>> /\ <<>> \o x = x
    BY <1>1, ConcatEmptySeq
  <2> QED BY <1>1, <2>1, FlattenOne, FlattenEmpty
<1> QED BY <1>1, FlattenAppendNonempty

LEMMA FlattenCons ==
    ASSUME NEW S, NEW ss \in Seq(Seq(S)), NEW x \in Seq(S)
    PROVE  FlattenSeq(<<x>> \o ss) = x \o FlattenSeq(ss)
<1> DEFINE T == {tt \in Seq(Seq(S)) : FlattenSeq(<<x>> \o tt) = x \o FlattenSeq(tt)}
<1>0. <<x>> \in Seq(Seq(S))
  OBVIOUS
<1>1. <<>> \in T
  <2>1. <<x>> \o <<>> = <<x>> /\ x \o <<>> = x
    BY <1>0, ConcatEmptySeq
  <2> QED BY <2>1, FlattenEmpty, FlattenOne
<1>2. ASSUME NEW tt \in Seq(Seq(S)), NEW y \in Seq(S), tt \in T PROVE Append(tt, y) \in T
  <2> DEFINE uu == <<x>> \o tt
  <2>1. uu \in Seq(Seq(S)) /\ <<x>> \o Append(tt, y) = Append(uu, y)
    <3>1. <<y>> \in Seq(Seq(S))
      OBVIOUS
    <3>2. uu \in Seq(Seq(S))
      BY <1>0, ConcatProperties
    <3>3. Append(tt, y) = tt \o <<y>> /\ Append(uu, y) = uu \o <<y>>
      <4> HIDE DEF uu
      <4> QED BY <3>2, AppendIsConcat
    <3>4. <<x>> \o (tt \o <<y>>) = (<<x>> \o tt) \o <<y>>
      BY <1>0, <3>1, ConcatAssociative, SMTT(60)
    <3> QED BY <3>2, <3>3, <3>4
  <2>2. FlattenSeq(uu) = x \o FlattenSeq(tt)
    BY <1>2
  <2> HIDE DEF uu
  <2>3. FlattenSeq(Append(uu, y)) = FlattenSeq(uu) \o y
    BY <2>1, FlattenAppend
  <2>4. FlattenSeq(Append(tt, y)) = FlattenSeq(tt) \o y
    BY FlattenAppend
  <2>5. FlattenSeq(tt) \in Seq(S)
    BY FlattenType
  <2>6. (x \o FlattenSeq(tt)) \o y = x \o (FlattenSeq(tt) \o y)
    BY <2>5, ConcatAssociative, SMTT(60)
  <2>7. Append(tt, y) \in Seq(Seq(S))
    OBVIOUS
  <2> QED BY <2>1, <2>2, <2>3, <2>4, <2>6, <2>7 DEF uu
<1>3. Seq(Seq(S)) \subseteq T
  <2> HIDE DEF T
  <2> QED BY <1>1, <1>2, SeqSetInduction
<1> QED BY <1>3

----------------------------------------------------------------------------
(* The chunks of a text. *)
\* A text is a sequence that neither begins nor ends with a newline.
LEMMA TextIsSeq ==
    ASSUME NEW text \in Texts
    PROVE  /\ text \in Seq(Nat)
           /\ \A i \in DOMAIN text : text[i] = Newline => i # 1 /\ i # Len(text)
<1>1. PICK m \in 0 .. TextMax : text \in [1 .. m -> 0 .. TextMax]
  BY DEF Texts, BoundedSeq, SeqOf
<1>2. m \in Nat /\ text \in [1 .. m -> Nat]
  BY <1>1
<1>3. text \in Seq(Nat)
  BY <1>2, SeqDef
<1> QED BY <1>3 DEF Texts

\* Where the first chunk of the rest of a text ends.
LEMMA SplitOK ==
    ASSUME NEW text \in Texts, NEW n \in Nat, n = Len(text), NEW i \in 1 .. n,
           ChunkMax < n - i + 1
    PROVE  /\ SplitAt(text, i) \in i .. i + ChunkMax /\ SplitAt(text, i) <= n
           /\ SplitAt(text, i) = i => text[i] = Newline
<1> DEFINE newlines == NewlinesIn(text, i)
<1>0. ChunkMax \in Nat /\ ChunkMax # 0
  BY ThreadsAssumption DEF ThreadsAssumption
<1>1. CASE newlines = {}
  BY <1>0, <1>1 DEF SplitAt
<1>2. CASE newlines # {}
  <2> DEFINE Rests == {i + ChunkMax - j : j \in newlines}
             Latest(j) == \A k \in newlines : k <= j
  <2>1. newlines \subseteq i .. i + ChunkMax - 1
    BY DEF NewlinesIn
  <2>2. Rests \in SUBSET Nat /\ Rests # {}
    BY <1>0, <1>2, <2>1
  <2>3. PICK x \in Rests : \A y \in Rests : x <= y
    <3> HIDE DEF Rests
    <3> QED BY <2>2, Smallest
  <2>4. PICK j \in newlines : x = i + ChunkMax - j
    BY <2>3
  <2>5. Latest(j)
    <3> SUFFICES ASSUME NEW k \in newlines PROVE k <= j
      OBVIOUS
    <3>1. x <= i + ChunkMax - k
      BY <2>3
    <3>2. j \in Nat /\ k \in Nat
      BY <1>0, <2>1
    <3> QED BY <1>0, <2>4, <3>1, <3>2
  <2>6. SplitAt(text, i) = CHOOSE k \in newlines : Latest(k)
    BY <1>2 DEF SplitAt
  <2>7. (CHOOSE k \in newlines : Latest(k)) \in newlines
    <3> HIDE DEF Latest
    <3> QED BY <2>4, <2>5
  <2>8. SplitAt(text, i) \in newlines
    BY <2>6, <2>7
  <2>9. \A k \in newlines : text[k] = Newline
    BY DEF NewlinesIn
  <2>10. PICK c \in newlines : SplitAt(text, i) = c
    BY <2>8
  <2>11. c \in i .. i + ChunkMax - 1 /\ text[c] = Newline
    BY <2>1, <2>9
  <2>12. c \in i .. i + ChunkMax /\ c <= n
    BY <1>0, <2>11
  <2> QED BY <2>10, <2>11, <2>12
<1> QED BY <1>1, <1>2

\* Where the next letter is.
LEMMA NextOK ==
    ASSUME NEW text \in Texts, NEW n \in Nat, n = Len(text), NEW i \in 1 .. n
    PROVE  /\ NextFrom(text, i) \in i .. n
           /\ text[NextFrom(text, i)] # Newline
           /\ \A k \in i .. NextFrom(text, i) - 1 : text[k] = Newline
<1> DEFINE Letter == {j \in i .. n : text[j] # Newline}
           First(j) == text[j] # Newline /\ \A k \in i .. j - 1 : text[k] = Newline
<1>1. n \in Letter
  BY TextIsSeq
<1>2. PICK j \in Letter : \A k \in Letter : j <= k
  <2>1. Letter \in SUBSET Nat
    OBVIOUS
  <2> HIDE DEF Letter
  <2> QED BY <1>1, <2>1, Smallest
<1>3. First(j)
  BY <1>2
<1>4. NextFrom(text, i) = CHOOSE k \in i .. n : First(k)
  BY DEF NextFrom
<1>5. /\ (CHOOSE k \in i .. n : First(k)) \in i .. n
      /\ First(CHOOSE k \in i .. n : First(k))
  <2>1. j \in i .. n
    BY <1>2
  <2> HIDE DEF First
  <2> QED BY <1>3, <2>1
<1> DEFINE c == CHOOSE k \in i .. n : First(k)
<1>6. c \in i .. n /\ First(c) /\ NextFrom(text, i) = c
  BY <1>4, <1>5
<1> HIDE DEF c
<1> QED BY <1>6

\* Where the second chunk of the rest of a text begins.
After1st(text, i) == NextFrom(text, SplitAt(text, i))

LEMMA After1stOK ==
    ASSUME NEW text \in Texts, NEW n \in Nat, n = Len(text), NEW i \in 1 .. n,
           ChunkMax < n - i + 1
    PROVE  /\ SplitAt(text, i) \in i .. n /\ SplitAt(text, i) <= i + ChunkMax
           /\ text[i] # Newline => i < SplitAt(text, i)
           /\ After1st(text, i) \in i + 1 .. n /\ SplitAt(text, i) <= After1st(text, i)
           /\ text[After1st(text, i)] # Newline
           /\ \A k \in SplitAt(text, i) .. After1st(text, i) - 1 : text[k] = Newline
<1>0. ChunkMax \in Nat
  BY ThreadsAssumption DEF ThreadsAssumption
<1> DEFINE sp == SplitAt(text, i)
<1>1. sp \in i .. i + ChunkMax /\ sp <= n /\ (sp = i => text[i] = Newline)
  BY SplitOK
<1> HIDE DEF sp
<1>2. sp \in 1 .. n
  BY <1>0, <1>1
<1> DEFINE j == NextFrom(text, sp)
<1>3. j \in sp .. n /\ text[j] # Newline /\ \A k \in sp .. j - 1 : text[k] = Newline
  BY <1>2, NextOK
<1>4. After1st(text, i) = j
  BY DEF After1st, sp
<1> HIDE DEF j
<1>5. j # i
  BY <1>1, <1>3
<1>6. /\ sp \in i .. n /\ sp <= i + ChunkMax
      /\ text[i] # Newline => i < sp
      /\ j \in i + 1 .. n /\ sp <= j
  BY <1>0, <1>1, <1>2, <1>3, <1>5
<1> QED BY <1>3, <1>4, <1>6 DEF sp

\* The function that the definition of ChunkMessage defines, from a position on.
FromIs(f, text, lo) ==
    f = [i \in lo .. Len(text) + 1 |->
            IF Len(text) - i + 1 <= ChunkMax THEN <<SubSeq(text, i, Len(text))>>
            ELSE <<SubSeq(text, i, SplitAt(text, i) - 1)>>
                     \o f[NextFrom(text, SplitAt(text, i))]]

LEMMA FromExists ==
    ASSUME NEW text \in Texts
    PROVE  \E f : FromIs(f, text, 1)
<1>0. PICK n \in Nat : n = Len(text)
  BY TextIsSeq
<1>c. ChunkMax \in Nat
  BY ThreadsAssumption DEF ThreadsAssumption
<1> DEFINE N == {k \in Nat : k <= n => \E f : FromIs(f, text, n + 1 - k)}
           Chunks(f, i) == IF n - i + 1 <= ChunkMax THEN <<SubSeq(text, i, n)>>
                           ELSE <<SubSeq(text, i, SplitAt(text, i) - 1)>> \o f[After1st(text, i)]
<1>a. \A f, lo : FromIs(f, text, lo) <=> f = [i \in lo .. n + 1 |-> Chunks(f, i)]
  BY <1>0 DEF FromIs, After1st
<1>1. 0 \in N
  <2> DEFINE f == [i \in n + 1 .. n + 1 |-> <<SubSeq(text, n + 1, n)>>]
  <2>1. \A i \in n + 1 .. n + 1 : Chunks(f, i) = <<SubSeq(text, n + 1, n)>>
    BY <1>c
  <2>2. f = [i \in n + 1 .. n + 1 |-> Chunks(f, i)]
    <3> HIDE DEF Chunks
    <3> QED BY <2>1
  <2>3. FromIs(f, text, n + 1)
    <3> HIDE DEF f, Chunks
    <3> QED BY <1>a, <2>2
  <2>4. n + 1 - 0 = n + 1
    OBVIOUS
  <2> HIDE DEF f, Chunks
  <2> QED BY <2>3, <2>4
<1>2. ASSUME NEW k \in Nat, k \in N PROVE k + 1 \in N
  <2> SUFFICES ASSUME k + 1 <= n PROVE \E f : FromIs(f, text, n + 1 - (k + 1))
    OBVIOUS
  <2>0. PICK lo \in Nat : lo = n - k
    OBVIOUS
  <2>1. PICK f : FromIs(f, text, lo + 1)
    <3>1. n + 1 - k = lo + 1
      BY <2>0
    <3> QED BY <1>2, <3>1
  <2>2. f = [i \in lo + 1 .. n + 1 |-> Chunks(f, i)]
    <3> HIDE DEF Chunks
    <3> QED BY <1>a, <2>1
  <2> DEFINE g == [i \in lo .. n + 1 |-> IF i = lo THEN Chunks(f, i) ELSE f[i]]
  <2>3. \A i \in lo + 1 .. n + 1 : g[i] = f[i]
    BY <2>0
  <2>4. ASSUME NEW i \in lo .. n + 1 PROVE Chunks(g, i) = Chunks(f, i)
    <3>1. CASE n - i + 1 <= ChunkMax
      BY <3>1
    <3>2. CASE ~(n - i + 1 <= ChunkMax)
      <4>1. i \in 1 .. n /\ ChunkMax < n - i + 1
        BY <1>c, <2>0, <3>2
      <4>2. After1st(text, i) \in i + 1 .. n
        BY <1>0, <4>1, After1stOK
      <4>3. After1st(text, i) \in lo + 1 .. n + 1
        BY <2>0, <4>2
      <4>4. g[After1st(text, i)] = f[After1st(text, i)]
        <5> HIDE DEF g
        <5> QED BY <2>3, <4>3
      <4> HIDE DEF g
      <4> QED BY <3>2, <4>4
    <3> QED BY <3>1, <3>2
  <2>5. \A i \in lo .. n + 1 : g[i] = Chunks(f, i)
    <3> SUFFICES ASSUME NEW i \in lo .. n + 1 PROVE g[i] = Chunks(f, i)
      OBVIOUS
    <3> HIDE DEF Chunks
    <3>1. CASE i = lo
      BY <3>1
    <3>2. CASE i # lo
      <4>1. i \in lo + 1 .. n + 1
        BY <2>0, <3>2
      <4> QED BY <2>2, <3>2, <4>1
    <3> QED BY <3>1, <3>2
  <2>6. g = [i \in lo .. n + 1 |-> Chunks(g, i)]
    <3> DEFINE h == [i \in lo .. n + 1 |-> Chunks(g, i)]
    <3>1. \A i \in lo .. n + 1 : g[i] = h[i]
      <4> HIDE DEF Chunks, g
      <4> QED BY <2>4, <2>5
    <3>2. h = [i \in lo .. n + 1 |-> h[i]] /\ g = [i \in lo .. n + 1 |-> g[i]]
      <4> HIDE DEF Chunks
      <4> QED OBVIOUS
    <3>3. g = h
      <4> HIDE DEF g, h
      <4> QED BY <3>1, <3>2
    <3> HIDE DEF g, Chunks
    <3> QED BY <3>3
  <2>7. FromIs(g, text, lo)
    <3> HIDE DEF g, Chunks
    <3> QED BY <1>a, <2>6
  <2>8. n + 1 - (k + 1) = lo
    BY <2>0
  <2> HIDE DEF g, Chunks
  <2> QED BY <2>7, <2>8
<1>3. Nat \subseteq N
  <2> HIDE DEF N
  <2> QED BY <1>1, <1>2, NatSetInduction
<1>4. \E f : FromIs(f, text, n + 1 - n)
  BY <1>3
<1>5. n + 1 - n = 1
  OBVIOUS
<1> QED BY <1>4, <1>5

LEMMA ChunksAreFrom ==
    ASSUME NEW text \in Texts
    PROVE  \E f : FromIs(f, text, 1) /\ ChunkMessage(text) = f[1]
<1> DEFINE f == CHOOSE f : FromIs(f, text, 1)
<1>1. FromIs(f, text, 1)
  BY FromExists
<1>2. ChunkMessage(text) = f[1]
  BY DEF ChunkMessage, FromIs
<1> QED BY <1>1, <1>2

\* The letters of two texts.
LEMMA LettersConcat ==
    ASSUME NEW s \in Seq(Nat), NEW t \in Seq(Nat)
    PROVE  /\ Letters(s) \in Seq(Nat)
           /\ Letters(s \o t) = Letters(s) \o Letters(t)
<1> DEFINE keep == Nat \ {Newline}
<1>1. \A u : Letters(u) = Filter(u, keep)
  BY DEF Letters
<1> HIDE DEF keep
<1>2. Filter(s \o t, keep) = Filter(s, keep) \o Filter(t, keep)
  BY FilterConcat
<1>3. Filter(s, keep) \in Seq(Nat)
  BY FilterProperties
<1> QED BY <1>1, <1>2, <1>3

\* The chunks cs are the text from i on, in messages that Discord takes.
Whole(cs, text, i) ==
    /\ cs \in Seq(Seq(Nat)) /\ cs # <<>>
    /\ Letters(FlattenSeq(cs)) = Letters(SubSeq(text, i, Len(text)))
    /\ \A c \in Elements(cs) : Len(c) <= ChunkMax
    /\ i <= Len(text) /\ text[i] # Newline => <<>> \notin Elements(cs)

\* One chunk is enough for the rest.
LEMMA LastWhole ==
    ASSUME NEW text \in Texts, NEW n \in Nat, n = Len(text), NEW i \in 1 .. n + 1,
           n - i + 1 <= ChunkMax
    PROVE  Whole(<<SubSeq(text, i, n)>>, text, i)
<1> DEFINE c == SubSeq(text, i, n)
<1>1. text \in Seq(Nat) /\ i \in 1 .. Len(text) + 1 /\ n \in i - 1 .. Len(text)
  BY TextIsSeq
<1>2. c \in Seq(Nat) /\ Len(c) = n - i + 1
  BY <1>1, PartElements
<1> HIDE DEF c
<1>3. <<c>> \in Seq(Seq(Nat)) /\ <<c>> # <<>> /\ Elements(<<c>>) = {c}
  BY <1>2 DEF Elements
<1>4. FlattenSeq(<<c>>) = c
  BY <1>2, FlattenOne
<1>5. i <= n => c # <<>>
  <2> SUFFICES ASSUME i <= n, c = <<>> PROVE FALSE
    OBVIOUS
  <2>1. Len(c) = 0
    OBVIOUS
  <2> QED BY <1>2, <2>1
<1>6. Letters(c) = Letters(SubSeq(text, i, Len(text)))
  BY DEF c
<1> QED BY <1>2, <1>3, <1>4, <1>5, <1>6 DEF Whole, c

\* A chunk, and the chunks of what comes after the newlines that follow.
LEMMA FirstWhole ==
    ASSUME NEW text \in Texts, NEW n \in Nat, n = Len(text), NEW i \in 1 .. n,
           ChunkMax < n - i + 1, NEW cs, Whole(cs, text, After1st(text, i))
    PROVE  Whole(<<SubSeq(text, i, SplitAt(text, i) - 1)>> \o cs, text, i)
<1>0. PICK sp \in Nat, j \in Nat :
         /\ sp = SplitAt(text, i) /\ j = After1st(text, i)
         /\ sp \in i .. n /\ sp <= i + ChunkMax /\ (text[i] # Newline => i < sp)
         /\ j \in i + 1 .. n /\ sp <= j /\ text[j] # Newline
         /\ \A k \in sp .. j - 1 : text[k] = Newline
  <2>1. SplitAt(text, i) \in Nat /\ After1st(text, i) \in Nat
    BY After1stOK
  <2> QED BY <2>1, After1stOK
<1>c. ChunkMax \in Nat /\ text \in Seq(Nat)
  BY ThreadsAssumption, TextIsSeq DEF ThreadsAssumption
<1> DEFINE first == SubSeq(text, i, sp - 1)
           gap == SubSeq(text, sp, j - 1)
           rest == SubSeq(text, j, n)
           All == <<first>> \o cs
<1>1. /\ first \in Seq(Nat) /\ Len(first) = sp - i
      /\ gap \in Seq(Nat) /\ Len(gap) = j - sp
      /\ rest \in Seq(Nat)
  <2>1. i \in 1 .. Len(text) + 1 /\ sp - 1 \in i - 1 .. Len(text)
    BY <1>0
  <2>2. sp \in 1 .. Len(text) + 1 /\ j - 1 \in sp - 1 .. Len(text)
    BY <1>0
  <2>3. j \in 1 .. Len(text) + 1 /\ n \in j - 1 .. Len(text)
    BY <1>0
  <2>4. first \in Seq(Nat) /\ Len(first) = sp - 1 - i + 1
    BY <1>c, <2>1, PartElements
  <2>5. gap \in Seq(Nat) /\ Len(gap) = j - 1 - sp + 1
    BY <1>c, <2>2, PartElements
  <2>6. rest \in Seq(Nat)
    BY <1>c, <2>3, PartElements
  <2> HIDE DEF first, gap, rest
  <2>7. sp - 1 - i + 1 = sp - i /\ j - 1 - sp + 1 = j - sp
    OBVIOUS
  <2> QED BY <2>4, <2>5, <2>6, <2>7
<1>2. SubSeq(text, i, n) = first \o (gap \o rest)
  <2>1. gap \o rest = SubSeq(text, sp, n)
    <3>1. /\ sp \in 1 .. Len(text) + 1 /\ j - 1 \in sp - 1 .. Len(text)
          /\ n \in j - 1 .. Len(text)
      BY <1>0
    <3>2. SubSeq(text, sp, j - 1) \o SubSeq(text, (j - 1) + 1, n) = SubSeq(text, sp, n)
      BY <1>c, <3>1, ConcatAdjacentSubSeq
    <3>3. (j - 1) + 1 = j
      OBVIOUS
    <3> QED BY <3>2, <3>3
  <2>2. first \o SubSeq(text, sp, n) = SubSeq(text, i, n)
    <3>1. /\ i \in 1 .. Len(text) + 1 /\ sp - 1 \in i - 1 .. Len(text)
          /\ n \in sp - 1 .. Len(text)
      BY <1>0
    <3>2. SubSeq(text, i, sp - 1) \o SubSeq(text, (sp - 1) + 1, n) = SubSeq(text, i, n)
      BY <1>c, <3>1, ConcatAdjacentSubSeq
    <3>3. (sp - 1) + 1 = sp
      OBVIOUS
    <3> QED BY <3>2, <3>3
  <2> QED BY <2>1, <2>2
<1>3. Letters(gap) = <<>>
  <2>1. \A k \in 1 .. Len(gap) : gap[k] = Newline
    <3> SUFFICES ASSUME NEW k \in 1 .. Len(gap) PROVE gap[k] = Newline
      OBVIOUS
    <3>1. k \in 1 .. j - sp
      BY <1>1
    <3>2. k \in 1 .. (j - 1) - sp + 1 /\ sp + k - 1 \in sp .. j - 1
      BY <1>0, <3>1, SMTT(30)
    <3>a. \A l \in sp .. j - 1 : l \in 1 .. Len(text)
      BY <1>0
    <3>3. \A l \in sp .. j - 1 : text[l] \in Nat
      BY <3>a, <1>c, ElementOfSeq
    <3>4. gap[k] = text[sp + k - 1]
      BY <3>2, <3>3, SubSeqProperties
    <3> QED BY <1>0, <3>2, <3>4
  <2>2. Elements(gap) \cap (Nat \ {Newline}) = {}
    <3> HIDE DEF gap
    <3> QED BY <1>1, <2>1 DEF Elements
  <2> HIDE DEF gap
  <2> QED BY <1>1, <2>2, FilterNone DEF Letters
<1>4. /\ cs \in Seq(Seq(Nat)) /\ cs # <<>>
      /\ Letters(FlattenSeq(cs)) = Letters(rest)
      /\ \A c \in Elements(cs) : Len(c) <= ChunkMax
      /\ <<>> \notin Elements(cs)
  BY <1>0 DEF Whole
<1> HIDE DEF first, gap, rest
<1>5. <<first>> \in Seq(Seq(Nat)) /\ Elements(<<first>>) = {first}
  BY <1>1 DEF Elements
<1>6. All \in Seq(Seq(Nat)) /\ Elements(All) = {first} \cup Elements(cs)
  <2> DEFINE one == <<first>>
  <2>1. one \in Seq(Seq(Nat)) /\ Elements(one) = {first}
    BY <1>5
  <2> HIDE DEF one
  <2>2. one \o cs \in Seq(Seq(Nat)) /\ Elements(one \o cs) = Elements(one) \cup Elements(cs)
    BY <1>4, <2>1, ConcatElements
  <2> QED BY <2>1, <2>2 DEF one
<1>7. All # <<>>
  <2>1. first \in Elements(All)
    BY <1>6
  <2>2. Elements(<<>>) = {}
    BY DEF Elements
  <2> HIDE DEF All
  <2> QED BY <2>1, <2>2
<1>8. Letters(FlattenSeq(All)) = Letters(first) \o Letters(rest)
  <2>1. FlattenSeq(All) = first \o FlattenSeq(cs)
    BY <1>1, <1>4, FlattenCons
  <2>2. FlattenSeq(cs) \in Seq(Nat)
    BY <1>4, FlattenType
  <2>3. Letters(first \o FlattenSeq(cs)) = Letters(first) \o Letters(FlattenSeq(cs))
    BY <1>1, <2>2, LettersConcat
  <2> QED BY <1>4, <2>1, <2>3
<1>9. Letters(SubSeq(text, i, n)) = Letters(first) \o Letters(rest)
  <2>1. gap \o rest \in Seq(Nat)
    BY <1>1, ConcatProperties
  <2>2. Letters(first \o (gap \o rest)) = Letters(first) \o Letters(gap \o rest)
    BY <1>1, <2>1, LettersConcat
  <2>3. Letters(gap \o rest) = Letters(gap) \o Letters(rest)
    BY <1>1, LettersConcat
  <2>4. Letters(rest) \in Seq(Nat)
    BY <1>1, FilterProperties DEF Letters
  <2>5. <<>> \o Letters(rest) = Letters(rest)
    BY <2>4, ConcatEmptySeq
  <2> QED BY <1>2, <1>3, <2>2, <2>3, <2>5
<1>10. Len(first) <= ChunkMax /\ (text[i] # Newline => first # <<>>)
  <2>1. Len(first) <= ChunkMax
    BY <1>0, <1>1, <1>c
  <2>2. ASSUME text[i] # Newline, first = <<>> PROVE FALSE
    <3>1. Len(first) = 0
      BY <2>2
    <3> QED BY <1>0, <1>1, <2>2, <3>1
  <2> QED BY <2>1, <2>2
<1>11. Whole(All, text, i)
  <2> HIDE DEF All
  <2> QED BY <1>4, <1>6, <1>7, <1>8, <1>9, <1>10 DEF Whole
<1> QED BY <1>0, <1>11 DEF first

\* The chunks of a text are the text.
LEMMA ChunksWhole ==
    ASSUME NEW text \in Texts
    PROVE  Whole(ChunkMessage(text), text, 1)
<1>0. PICK n \in Nat : n = Len(text)
  BY TextIsSeq
<1>c. ChunkMax \in Nat
  BY ThreadsAssumption DEF ThreadsAssumption
<1>1. PICK f : FromIs(f, text, 1) /\ ChunkMessage(text) = f[1]
  BY ChunksAreFrom
<1> DEFINE N == {k \in Nat : \A i \in 1 .. n + 1 : n + 1 - i <= k => Whole(f[i], text, i)}
<1>2. ASSUME NEW i \in 1 .. n + 1, n - i + 1 <= ChunkMax
      PROVE  Whole(f[i], text, i)
  <2>1. f[i] = <<SubSeq(text, i, n)>>
    BY <1>0, <1>1, <1>2 DEF FromIs
  <2> QED BY <1>0, <1>2, <2>1, LastWhole
<1>3. ASSUME NEW i \in 1 .. n, ChunkMax < n - i + 1,
             Whole(f[After1st(text, i)], text, After1st(text, i))
      PROVE  Whole(f[i], text, i)
  <2>1. ~(n - i + 1 <= ChunkMax)
    BY <1>c, <1>3
  <2>a. i \in 1 .. n + 1
    OBVIOUS
  <2>2. f[i] = <<SubSeq(text, i, SplitAt(text, i) - 1)>> \o f[After1st(text, i)]
    BY <1>0, <1>1, <2>1, <2>a DEF FromIs, After1st
  <2> QED BY <1>0, <1>3, <2>2, FirstWhole
<1>4. 0 \in N
  <2> SUFFICES ASSUME NEW i \in 1 .. n + 1, n + 1 - i <= 0 PROVE Whole(f[i], text, i)
    OBVIOUS
  <2>1. n - i + 1 <= ChunkMax
    BY <1>c
  <2> QED BY <1>2, <2>1
<1>5. ASSUME NEW k \in Nat, k \in N PROVE k + 1 \in N
  <2> SUFFICES ASSUME NEW i \in 1 .. n + 1, n + 1 - i <= k + 1 PROVE Whole(f[i], text, i)
    OBVIOUS
  <2>1. CASE n - i + 1 <= ChunkMax
    BY <1>2, <2>1
  <2>2. CASE ~(n - i + 1 <= ChunkMax)
    <3>1. i \in 1 .. n /\ ChunkMax < n - i + 1
      BY <1>c, <2>2
    <3>2. PICK j \in Nat : j = After1st(text, i) /\ j \in i + 1 .. n
      BY <1>0, <3>1, After1stOK
    <3>3. j \in 1 .. n + 1 /\ n + 1 - j <= k
      BY <3>2
    <3>4. Whole(f[j], text, j)
      BY <1>5, <3>3
    <3> QED BY <1>3, <3>1, <3>2, <3>4
  <2> QED BY <2>1, <2>2
<1>6. Nat \subseteq N
  <2> HIDE DEF N
  <2> QED BY <1>4, <1>5, NatSetInduction
<1>7. 1 \in 1 .. n + 1 /\ n + 1 - 1 <= n
  OBVIOUS
<1>8. Whole(f[1], text, 1)
  BY <1>6, <1>7
<1> QED BY <1>1, <1>8

\* Every text comes out of ChunkMessage as it went in.
LEMMA ChunksCorrect == ChunksAreTexts
<1> SUFFICES ASSUME NEW text \in Texts
             PROVE  /\ Letters(FlattenSeq(ChunkMessage(text))) = Letters(text)
                    /\ \A i \in DOMAIN ChunkMessage(text) : Len(ChunkMessage(text)[i]) <= ChunkMax
                    /\ text # <<>> => <<>> \notin ToSet(ChunkMessage(text))
  BY DEF ChunksAreTexts
<1> DEFINE cs == ChunkMessage(text)
<1>1. Whole(cs, text, 1)
  BY ChunksWhole
<1>2. text \in Seq(Nat) /\ \A i \in DOMAIN text : text[i] = Newline => i # 1
  BY TextIsSeq
<1>3. SubSeq(text, 1, Len(text)) = text
  BY <1>2, SubSeqFull
<1>4. text # <<>> => 1 <= Len(text) /\ text[1] # Newline
  BY <1>2
<1>5. ToSet(cs) = Elements(cs)
  BY DEF ToSet, Elements
<1> HIDE DEF cs
<1>6. \A i \in DOMAIN cs : cs[i] \in Elements(cs)
  BY DEF Elements
<1> QED BY <1>1, <1>3, <1>4, <1>5, <1>6 DEF Whole, cs

----------------------------------------------------------------------------
(* What is shown of an answer. *)
Message == (Mentions \cup Posts) \X Seq(Nat)

\* The messages of m in a place, and their texts.
OfIn(s, m) == Filter(s, {m} \X Seq(Nat))
TextsIn(s) == [i \in DOMAIN s |-> s[i][2]]

LEMMA OfIsOfIn ==
    /\ \A m, p : Of(m, p) = OfIn(shown[p], m)
    /\ \A m : Sent(m) = FlattenSeq(TextsIn(Of(m, target[m])))
BY DEF Of, Sent, OfIn, TextsIn

LEMMA OfInType ==
    ASSUME NEW s \in Seq(Message), NEW m
    PROVE  OfIn(s, m) \in Seq(Message)
BY FilterProperties DEF OfIn

LEMMA OfInAppend ==
    ASSUME NEW s \in Seq(Message), NEW c \in Mentions \cup Posts, NEW text \in Seq(Nat), NEW m
    PROVE  OfIn(Append(s, <<c, text>>), m) = IF c = m THEN Append(OfIn(s, m), <<c, text>>)
                                             ELSE OfIn(s, m)
<1>1. <<c, text>> \in Message /\ (<<c, text>> \in {m} \X Seq(Nat) <=> c = m)
  BY DEF Message
<1> DEFINE e == <<c, text>>
           keep == {m} \X Seq(Nat)
<1>2. \A t : OfIn(t, m) = Filter(t, keep)
  BY DEF OfIn
<1>3. e \in Message /\ (e \in keep <=> c = m)
  BY <1>1
<1> HIDE DEF e, keep
<1>4. Filter(Append(s, e), keep) = IF e \in keep THEN Append(Filter(s, keep), e)
                                   ELSE Filter(s, keep)
  BY <1>3, FilterAppend
<1>5. OfIn(Append(s, e), m) = IF c = m THEN Append(OfIn(s, m), e) ELSE OfIn(s, m)
  BY <1>2, <1>3, <1>4
<1> QED BY <1>5 DEF e

LEMMA TextsType ==
    ASSUME NEW s \in Seq(Message)
    PROVE  TextsIn(s) \in Seq(Seq(Nat))
<1>0. PICK n \in Nat : n = Len(s) /\ DOMAIN s = 1 .. n
  OBVIOUS
<1>1. \A i \in 1 .. n : s[i] \in Message
  BY <1>0, ElementOfSeq
<1>2. \A i \in 1 .. n : s[i][2] \in Seq(Nat)
  BY <1>1 DEF Message
<1>3. TextsIn(s) \in [1 .. n -> Seq(Nat)]
  BY <1>0, <1>2 DEF TextsIn
<1> QED BY <1>3, SeqDef

LEMMA TextsAppend ==
    ASSUME NEW s \in Seq(Message), NEW e \in Message
    PROVE  TextsIn(Append(s, e)) = Append(TextsIn(s), e[2])
<1>0. PICK n \in Nat : n = Len(s) /\ DOMAIN s = 1 .. n
  OBVIOUS
<1> DEFINE t == Append(s, e)
<1>1. /\ t \in Seq(Message) /\ Len(t) = n + 1 /\ DOMAIN t = 1 .. n + 1
      /\ t[n + 1] = e /\ \A i \in 1 .. n : t[i] = s[i]
  BY <1>0
<1> HIDE DEF t
<1>2. /\ TextsIn(s) \in Seq(Seq(Nat)) /\ DOMAIN TextsIn(s) = 1 .. n
      /\ \A i \in 1 .. n : TextsIn(s)[i] = s[i][2]
  BY <1>0, TextsType DEF TextsIn
<1>3. /\ TextsIn(t) \in Seq(Seq(Nat)) /\ DOMAIN TextsIn(t) = 1 .. n + 1
      /\ \A i \in 1 .. n + 1 : TextsIn(t)[i] = t[i][2]
  BY <1>1, TextsType DEF TextsIn
<1>4. e[2] \in Seq(Nat)
  BY DEF Message
<1> DEFINE a == TextsIn(s)
           b == TextsIn(t)
           c == Append(a, e[2])
<1>5. a \in Seq(Seq(Nat)) /\ Len(a) = n
  BY <1>2
<1>6. b \in Seq(Seq(Nat)) /\ Len(b) = n + 1
  BY <1>3
<1>7. c \in Seq(Seq(Nat)) /\ Len(c) = n + 1 /\ c[n + 1] = e[2] /\ \A i \in 1 .. n : c[i] = a[i]
  <2> HIDE DEF a
  <2> QED BY <1>4, <1>5
<1>8. \A i \in 1 .. n + 1 : b[i] = c[i]
  <2> SUFFICES ASSUME NEW i \in 1 .. n + 1 PROVE b[i] = c[i]
    OBVIOUS
  <2>1. CASE i = n + 1
    <3>1. b[i] = t[i][2]
      BY <1>3
    <3> HIDE DEF b, c
    <3> QED BY <1>1, <1>7, <2>1, <3>1
  <2>2. CASE i # n + 1
    <3>1. i \in 1 .. n
      BY <2>2
    <3>2. b[i] = t[i][2] /\ a[i] = s[i][2] /\ t[i] = s[i]
      BY <1>1, <1>2, <1>3, <3>1
    <3>3. c[i] = a[i]
      BY <1>7, <3>1
    <3> HIDE DEF a, b, c
    <3> QED BY <3>2, <3>3
  <2> QED BY <2>1, <2>2
<1>9. b = c
  <2> HIDE DEF b, c
  <2> QED BY <1>6, <1>7, <1>8, SeqEqual
<1> QED BY <1>9 DEF t

\* What has been sent is the beginning of what is sent on.
LEMMA PrefixConcat ==
    ASSUME NEW s \in Seq(Nat), NEW t \in Seq(Nat)
    PROVE  IsPrefix(s, s \o t)
<1>0. PICK n \in Nat : n = Len(s)
  OBVIOUS
<1> DEFINE u == s \o t
<1>1. u \in Seq(Nat) /\ Len(u) = Len(s) + Len(t) /\ \A i \in 1 .. n : u[i] = s[i]
  BY <1>0, ConcatProperties
<1> HIDE DEF u
<1>2. n <= Len(u) /\ Len(t) \in Nat
  BY <1>0, <1>1
<1> DEFINE a == SubSeq(s, 1, n)
           b == SubSeq(u, 1, n)
<1>3. a \in Seq(Nat) /\ Len(a) = n /\ \A i \in 1 .. n : a[i] = s[i]
  <2>1. 1 \in 1 .. Len(s) + 1 /\ n \in 1 - 1 .. Len(s)
    BY <1>0
  <2>2. a = s
    BY <1>0, SubSeqFull
  <2> QED BY <1>0, <2>2
<1>4. b \in Seq(Nat) /\ Len(b) = n /\ \A i \in 1 .. n : b[i] = u[i]
  <2>1. \A i \in 1 .. n : u[i] \in Nat
    BY <1>1, <1>2, ElementOfSeq
  <2>2. /\ b \in Seq(Nat) /\ Len(b) = IF 1 <= n THEN n - 1 + 1 ELSE 0
        /\ \A i \in 1 .. n - 1 + 1 : b[i] = u[1 + i - 1]
    BY <2>1, SubSeqProperties
  <2> HIDE DEF b
  <2>3. n - 1 + 1 = n /\ \A i \in 1 .. n : 1 + i - 1 = i
    OBVIOUS
  <2> QED BY <2>2, <2>3
<1>5. a = b
  <2> HIDE DEF a, b
  <2> QED BY <1>1, <1>3, <1>4, SeqEqual
<1> QED BY <1>0, <1>2, <1>5 DEF IsPrefix, u

----------------------------------------------------------------------------
(* The inductive invariant. *)
Early == {"new", "threading", "waiting"}

LettersIn(of) == Letters(FlattenSeq(TextsIn(of)))

\* Where an answer r is whose handler is at h: shown are the messages of, and the
\* chunks u are not sent.
AnswerIs(h, of, r, u) ==
    /\ \A e \in Elements(of) : Len(e[2]) <= ChunkMax
    /\ h \in Early => of = <<>>
    /\ h = "sending" => /\ u # <<>> /\ \A c \in Elements(u) : Len(c) <= ChunkMax
                        /\ Letters(r) = LettersIn(of) \o Letters(FlattenSeq(u))
    /\ h = "over" => IsPrefix(LettersIn(of), Letters(r))

\* It goes to one place, and is whole at the end unless it was cut off.
AnswerAt(m, h, to, sh, r, u, cut) ==
    /\ \A p \in Places \ {to} : OfIn(sh[p], m) = <<>>
    /\ AnswerIs(h, OfIn(sh[to], m), r, u)
    /\ h = "over" /\ m \notin cut => LettersIn(OfIn(sh[to], m)) = Letters(r)

AnswerOK(m) ==
    /\ target[m] \in threads \cup {"channel", "dm"}
    /\ AnswerAt(m, handler[m], target[m], shown, reply[m], unsent[m], cutOff)

\* Nothing is shown where no thread is.
ThreadsOK ==
    /\ threads \cap Posts \subseteq posted
    /\ \A p \in Places \ (threads \cup {"channel", "dm"}) : shown[p] = <<>>

ThreadsIInv == ThreadsTypeOK /\ ThreadsOK /\ \A m \in Mentions : AnswerOK(m)

----------------------------------------------------------------------------
(* An answer, step by step. *)
LEMMA ExcuseIsText == Excuse \in Texts /\ Excuse \in Seq(Nat)
<1>1. TextMax \in Nat /\ 1 <= TextMax
  BY ThreadsAssumption DEF ThreadsAssumption
<1> DEFINE e == [i \in 1 .. 1 |-> 1]
<1>2. e \in [1 .. 1 -> 0 .. TextMax]
  BY <1>1
<1>3. Excuse = e /\ Len(Excuse) = 1
  BY DEF Excuse
<1>4. \A i \in DOMAIN e : e[i] = i /\ e[i] # Newline
  BY DEF Newline
<1>5. 1 \in 0 .. TextMax
  BY <1>1
<1>6. e \in BoundedSeq(0 .. TextMax, TextMax)
  <2> HIDE DEF e
  <2> QED BY <1>2, <1>5 DEF BoundedSeq, SeqOf
<1>7. e \in Texts
  <2> HIDE DEF e
  <2> QED BY <1>4, <1>6 DEF Texts
<1> QED BY <1>3, <1>7 DEF Excuse

LEMMA Associative ==
    ASSUME NEW a \in Seq(Nat), NEW b \in Seq(Nat), NEW c \in Seq(Nat)
    PROVE  (a \o b) \o c = a \o (b \o c)
BY ConcatAssociative, SMTT(60)

LEMMA EmptyIsText == <<>> \in Texts
<1>1. TextMax \in Nat
  BY ThreadsAssumption DEF ThreadsAssumption
<1> DEFINE e == [i \in 1 .. 0 |-> 1]
<1>2. e \in [1 .. 0 -> 0 .. TextMax] /\ 0 \in 0 .. TextMax
  BY <1>1
<1>3. e = <<>> /\ DOMAIN e = {}
  OBVIOUS
<1> HIDE DEF e
<1>4. e \in BoundedSeq(0 .. TextMax, TextMax)
  BY <1>2 DEF BoundedSeq, SeqOf
<1> QED BY <1>3, <1>4 DEF Texts

LEMMA NothingSaid == LettersIn(<<>>) = <<>> /\ Letters(<<>>) = <<>>
<1>1. TextsIn(<<>>) = <<>>
  BY DEF TextsIn
<1>2. Letters(<<>>) = <<>>
  BY FilterEmpty DEF Letters
<1> QED BY <1>1, <1>2, FlattenEmpty DEF LettersIn

LEMMA LettersInType ==
    ASSUME NEW of \in Seq(Message)
    PROVE  FlattenSeq(TextsIn(of)) \in Seq(Nat) /\ LettersIn(of) \in Seq(Nat)
<1>1. TextsIn(of) \in Seq(Seq(Nat))
  BY TextsType
<1>2. FlattenSeq(TextsIn(of)) \in Seq(Nat)
  BY <1>1, FlattenType
<1> QED BY <1>2, LettersConcat DEF LettersIn

\* Nothing is shown yet.
LEMMA AnswerAsked ==
    ASSUME NEW h \in Early, NEW r, NEW u
    PROVE  AnswerIs(h, <<>>, r, u)
<1>1. Elements(<<>>) = {}
  BY DEF Elements
<1> QED BY <1>1 DEF AnswerIs, Early

\* The handler has a text.
LEMMA AnswerFresh ==
    ASSUME NEW text \in Texts
    PROVE  AnswerIs("sending", <<>>, text, ChunkMessage(text))
<1> DEFINE cs == ChunkMessage(text)
<1>1. Whole(cs, text, 1)
  BY ChunksWhole
<1>2. SubSeq(text, 1, Len(text)) = text
  BY TextIsSeq, SubSeqFull
<1> HIDE DEF cs
<1>3. /\ cs \in Seq(Seq(Nat)) /\ cs # <<>> /\ \A c \in Elements(cs) : Len(c) <= ChunkMax
      /\ Letters(FlattenSeq(cs)) = Letters(text)
  BY <1>1, <1>2 DEF Whole
<1>4. FlattenSeq(cs) \in Seq(Nat)
  BY <1>3, FlattenType
<1>5. Letters(FlattenSeq(cs)) \in Seq(Nat)
  BY <1>4, LettersConcat
<1>6. <<>> \o Letters(FlattenSeq(cs)) = Letters(FlattenSeq(cs))
  BY <1>5, ConcatEmptySeq
<1>7. Elements(<<>>) = {}
  BY DEF Elements
<1> QED BY <1>3, <1>6, <1>7, NothingSaid DEF AnswerIs, Early, cs

\* A chunk more is shown.
LEMMA AnswerSent ==
    ASSUME NEW m \in Mentions, NEW of \in Seq(Message), NEW r \in Seq(Nat),
           NEW u \in Seq(Seq(Nat)), AnswerIs("sending", of, r, u)
    PROVE  LET after == Append(of, <<m, Head(u)>>)
           IN  /\ Len(u) # 1 => AnswerIs("sending", after, r, Tail(u))
               /\ Len(u) = 1 => /\ AnswerIs("over", after, r, Tail(u))
                                /\ LettersIn(after) = Letters(r)
<1> DEFINE e == <<m, Head(u)>>
           after == Append(of, e)
           x == Head(u)
           v == Tail(u)
<1>1. /\ u # <<>> /\ \A c \in Elements(u) : Len(c) <= ChunkMax
      /\ Letters(r) = LettersIn(of) \o Letters(FlattenSeq(u))
      /\ \A d \in Elements(of) : Len(d[2]) <= ChunkMax
  BY DEF AnswerIs
<1>2. /\ x \in Seq(Nat) /\ v \in Seq(Seq(Nat)) /\ u = <<x>> \o v
      /\ Len(v) = Len(u) - 1
  BY <1>1
<1>3. /\ e \in Message /\ e[2] = x
  BY <1>2 DEF Message
<1> HIDE DEF e, x, v
<1>4. Elements(u) = {x} \cup Elements(v)
  <2> DEFINE one == <<x>>
  <2>1. one \in Seq(Seq(Nat)) /\ Elements(one) = {x}
    BY <1>2 DEF Elements
  <2>2. u = one \o v
    BY <1>2
  <2> HIDE DEF one
  <2>3. Elements(one \o v) = Elements(one) \cup Elements(v)
    BY <1>2, <2>1, ConcatElements
  <2> QED BY <2>1, <2>2, <2>3
<1>5. Elements(after) = Elements(of) \cup {e}
  BY <1>3, AppendElements
<1>6. LettersIn(after) = LettersIn(of) \o Letters(x)
  <2>1. TextsIn(after) = Append(TextsIn(of), x)
    BY <1>3, TextsAppend
  <2> DEFINE ts == TextsIn(of)
  <2>2. ts \in Seq(Seq(Nat)) /\ FlattenSeq(ts) \in Seq(Nat)
    BY TextsType, LettersInType
  <2> HIDE DEF ts
  <2>3. FlattenSeq(Append(ts, x)) = FlattenSeq(ts) \o x
    BY <1>2, <2>2, FlattenAppend
  <2>4. Letters(FlattenSeq(ts) \o x) = Letters(FlattenSeq(ts)) \o Letters(x)
    BY <1>2, <2>2, LettersConcat
  <2> HIDE DEF after
  <2> QED BY <2>1, <2>3, <2>4 DEF LettersIn, ts
<1>7. FlattenSeq(u) = x \o FlattenSeq(v) /\ FlattenSeq(v) \in Seq(Nat)
  BY <1>2, FlattenCons, FlattenType
<1>8. Letters(FlattenSeq(u)) = Letters(x) \o Letters(FlattenSeq(v))
  BY <1>2, <1>7, LettersConcat, ZenonT(60)
<1>9. LettersIn(of) \in Seq(Nat) /\ Letters(x) \in Seq(Nat) /\ Letters(FlattenSeq(v)) \in Seq(Nat)
  BY <1>2, <1>7, LettersInType, LettersConcat
<1>10. Letters(r) = LettersIn(after) \o Letters(FlattenSeq(v))
  <2> DEFINE a == LettersIn(of)
             b == Letters(x)
             c == Letters(FlattenSeq(v))
  <2>1. a \in Seq(Nat) /\ b \in Seq(Nat) /\ c \in Seq(Nat)
    BY <1>9
  <2>2. Letters(r) = a \o (b \o c) /\ LettersIn(after) = a \o b
    BY <1>1, <1>6, <1>8
  <2> HIDE DEF a, b, c, after
  <2>3. (a \o b) \o c = a \o (b \o c)
    BY <2>1, Associative, SMTT(60)
  <2> QED BY <2>2, <2>3 DEF c
<1>11. \A d \in Elements(after) : Len(d[2]) <= ChunkMax
  <2>1. Len(x) <= ChunkMax
    BY <1>1, <1>4
  <2> HIDE DEF after
  <2> QED BY <1>1, <1>3, <1>5, <2>1
<1>12. CASE Len(u) # 1
  <2>1. v # <<>>
    <3> SUFFICES ASSUME v = <<>> PROVE FALSE
      OBVIOUS
    <3>1. Len(v) = 0 /\ Len(u) \in Nat
      OBVIOUS
    <3> QED BY <1>2, <1>12, <3>1
  <2>2. \A c \in Elements(v) : Len(c) <= ChunkMax
    BY <1>1, <1>4
  <2>3. AnswerIs("sending", after, r, v)
    <3> HIDE DEF after
    <3> QED BY <1>10, <1>11, <2>1, <2>2 DEF AnswerIs, Early
  <2> QED BY <1>12, <2>3 DEF e, x, v
<1>13. CASE Len(u) = 1
  <2>1. v = <<>>
    <3>1. Len(v) = 0
      BY <1>2, <1>13
    <3> QED BY <1>2, <3>1
  <2>2. Letters(FlattenSeq(v)) = <<>>
    BY <2>1, FlattenEmpty, NothingSaid
  <2>3. after \in Seq(Message)
    BY <1>3
  <2> HIDE DEF after
  <2>4. LettersIn(after) \in Seq(Nat)
    BY <2>3, LettersInType
  <2>5. LettersIn(after) \o <<>> = LettersIn(after)
    BY <2>4, ConcatEmptySeq
  <2>6. LettersIn(after) = Letters(r)
    BY <1>10, <2>2, <2>5
  <2>7. IsPrefix(LettersIn(after), Letters(r))
    <3>1. IsPrefix(LettersIn(after), LettersIn(after) \o <<>>)
      <4>1. <<>> \in Seq(Nat)
        OBVIOUS
      <4> QED BY <2>4, <4>1, PrefixConcat
    <3> QED BY <2>5, <2>6, <3>1
  <2>8. AnswerIs("over", after, r, v)
    BY <1>11, <2>7 DEF AnswerIs, Early
  <2> QED BY <1>13, <2>6, <2>8 DEF after, e, x, v
<1> QED BY <1>12, <1>13

\* The rest of the chunks is not tried.
LEMMA AnswerFails ==
    ASSUME NEW of \in Seq(Message), NEW r, NEW u \in Seq(Seq(Nat)),
           AnswerIs("sending", of, r, u)
    PROVE  AnswerIs("over", of, r, <<>>)
<1>1. /\ Letters(r) = LettersIn(of) \o Letters(FlattenSeq(u))
      /\ \A d \in Elements(of) : Len(d[2]) <= ChunkMax
  BY DEF AnswerIs
<1>2. FlattenSeq(u) \in Seq(Nat)
  BY FlattenType
<1>3. LettersIn(of) \in Seq(Nat) /\ Letters(FlattenSeq(u)) \in Seq(Nat)
  BY <1>2, LettersInType, LettersConcat
<1>4. IsPrefix(LettersIn(of), Letters(r))
  BY <1>1, <1>3, PrefixConcat
<1> QED BY <1>1, <1>4 DEF AnswerIs, Early

\* Wherever the handler is, what is shown is the beginning of the answer.
LEMMA ShownIsPrefix ==
    ASSUME NEW of \in Seq(Message), NEW r \in Seq(Nat), NEW u \in Seq(Seq(Nat)),
           NEW h \in Early \cup {"sending", "over"}, AnswerIs(h, of, r, u)
    PROVE  IsPrefix(LettersIn(of), Letters(r))
<1>1. CASE h \in Early
  <2>1. LettersIn(of) = <<>>
    BY <1>1, NothingSaid DEF AnswerIs
  <2>2. Letters(r) \in Seq(Nat) /\ <<>> \in Seq(Nat)
    BY LettersConcat
  <2>3. IsPrefix(<<>>, <<>> \o Letters(r))
    BY <2>2, PrefixConcat
  <2>4. <<>> \o Letters(r) = Letters(r)
    BY <2>2, ConcatEmptySeq
  <2> QED BY <2>1, <2>3, <2>4
<1>2. CASE h = "sending"
  <2>1. AnswerIs("over", of, r, <<>>)
    BY <1>2, AnswerFails
  <2> QED BY <2>1 DEF AnswerIs
<1>3. CASE h = "over"
  BY <1>3 DEF AnswerIs
<1> QED BY <1>1, <1>2, <1>3

----------------------------------------------------------------------------
(* The steps. *)
LEMMA ThreadNames ==
    /\ Mentions \subseteq Places /\ Posts \subseteq Places
    /\ "channel" \in Places /\ "dm" \in Places
    /\ Mentions \cap Posts = {} /\ {"channel", "dm"} \cap (Mentions \cup Posts) = {}
BY ThreadsAssumption DEF Places, ThreadsAssumption

LEMMA TypesHave ==
    ASSUME ThreadsTypeOK, NEW m \in Mentions
    PROVE  /\ target[m] \in Places /\ reply[m] \in Texts /\ reply[m] \in Seq(Nat)
           /\ unsent[m] \in Seq(Seq(Nat))
           /\ \A p \in Places : shown[p] \in Seq(Message) /\ OfIn(shown[p], m) \in Seq(Message)
<1>1. /\ target[m] \in Places /\ reply[m] \in Texts /\ unsent[m] \in Seq(Seq(Nat))
      /\ \A p \in Places : shown[p] \in Seq(Message)
  BY DEF ThreadsTypeOK, Message
<1>2. \A p \in Places : OfIn(shown[p], m) \in Seq(Message)
  BY <1>1, OfInType
<1> QED BY <1>1, <1>2, TextIsSeq

\* An answer of which nothing changes.
LEMMA AnswerKept ==
    ASSUME NEW m, NEW h, NEW to \in Places, NEW sh, NEW r, NEW u, NEW cut,
           AnswerAt(m, h, to, sh, r, u, cut),
           NEW after, \A p \in Places : OfIn(after[p], m) = OfIn(sh[p], m),
           NEW cut2, m \in cut2 <=> m \in cut
    PROVE  AnswerAt(m, h, to, after, r, u, cut2)
BY DEF AnswerAt

\* Of a handler that has begun nothing is shown.
LEMMA NothingShown ==
    ASSUME NEW m, NEW h \in Early, NEW to \in Places, NEW sh, NEW r, NEW u, NEW cut,
           AnswerAt(m, h, to, sh, r, u, cut)
    PROVE  \A p \in Places : OfIn(sh[p], m) = <<>>
BY DEF AnswerAt, AnswerIs

\* Its answer may go anywhere, and be any text.
LEMMA AnswerBegins ==
    ASSUME NEW m, NEW to \in Places, NEW sh, \A p \in Places : OfIn(sh[p], m) = <<>>, NEW cut
    PROVE  /\ \A h \in Early : \A r, u : AnswerAt(m, h, to, sh, r, u, cut)
           /\ \A text \in Texts : AnswerAt(m, "sending", to, sh, text, ChunkMessage(text), cut)
<1>1. \A h \in Early : \A r, u : AnswerIs(h, <<>>, r, u)
  BY AnswerAsked
<1>2. \A text \in Texts : AnswerIs("sending", <<>>, text, ChunkMessage(text))
  BY AnswerFresh
<1>3. OfIn(sh[to], m) = <<>>
  OBVIOUS
<1> QED BY <1>1, <1>2, <1>3 DEF AnswerAt, Early

----------------------------------------------------------------------------
\* A message more in a place.
More(sh, to, e) == [sh EXCEPT ![to] = Append(@, e)]

LEMMA MessageMore ==
    ASSUME NEW sh \in [Places -> Seq(Message)], NEW to \in Places, NEW e \in Message
    PROVE  /\ More(sh, to, e) \in [Places -> Seq(Message)]
           /\ \A m, p : p \in Places => OfIn(More(sh, to, e)[p], m) =
                 IF e[1] = m /\ p = to THEN Append(OfIn(sh[p], m), e) ELSE OfIn(sh[p], m)
<1> DEFINE after == More(sh, to, e)
<1>1. PICK c \in Mentions \cup Posts, text \in Seq(Nat) : e = <<c, text>>
  BY DEF Message
<1>2. /\ after \in [Places -> Seq(Message)] /\ after[to] = Append(sh[to], e)
      /\ \A p \in Places : p # to => after[p] = sh[p]
  BY DEF More
<1>3. sh[to] \in Seq(Message)
  OBVIOUS
<1>4. \A m : OfIn(Append(sh[to], e), m) =
                 IF e[1] = m THEN Append(OfIn(sh[to], m), e) ELSE OfIn(sh[to], m)
  BY <1>1, <1>3, OfInAppend
<1> HIDE DEF after
<1>5. \A m, p : p \in Places => OfIn(after[p], m) =
         IF e[1] = m /\ p = to THEN Append(OfIn(sh[p], m), e) ELSE OfIn(sh[p], m)
  BY <1>2, <1>4
<1> QED BY <1>2, <1>5 DEF after

\* A chunk is sent.
LEMMA ChunkSent ==
    ASSUME NEW m \in Mentions, NEW to \in Places, NEW sh \in [Places -> Seq(Message)],
           NEW r \in Seq(Nat), NEW u \in Seq(Seq(Nat)), NEW cut,
           AnswerAt(m, "sending", to, sh, r, u, cut)
    PROVE  LET after == More(sh, to, <<m, Head(u)>>)
               h == IF Len(u) = 1 THEN "over" ELSE "sending"
           IN  /\ Head(u) \in Seq(Nat) /\ Tail(u) \in Seq(Seq(Nat))
               /\ AnswerAt(m, h, to, after, r, Tail(u), cut)
<1> DEFINE after == More(sh, to, <<m, Head(u)>>)
           h == IF Len(u) = 1 THEN "over" ELSE "sending"
           x == Head(u)
           v == Tail(u)
<1>1. /\ \A p \in Places \ {to} : OfIn(sh[p], m) = <<>>
      /\ AnswerIs("sending", OfIn(sh[to], m), r, u)
  BY DEF AnswerAt
<1>2. u # <<>>
  BY <1>1 DEF AnswerIs
<1>3. x \in Seq(Nat) /\ v \in Seq(Seq(Nat))
  BY <1>2
<1>4. sh[to] \in Seq(Message) /\ OfIn(sh[to], m) \in Seq(Message)
  BY OfInType
<1> DEFINE of == OfIn(sh[to], m)
           more == Append(of, <<m, x>>)
<1>5. /\ Len(u) # 1 => AnswerIs("sending", more, r, v)
      /\ Len(u) = 1 => AnswerIs("over", more, r, v) /\ LettersIn(more) = Letters(r)
  <2> HIDE DEF of
  <2>1. of \in Seq(Message) /\ AnswerIs("sending", of, r, u)
    BY <1>1, <1>4 DEF of
  <2> QED BY <2>1, AnswerSent
<1> HIDE DEF x, v
<1>6. /\ \A p \in Places \ {to} : OfIn(after[p], m) = OfIn(sh[p], m)
      /\ OfIn(after[to], m) = more
  <2> DEFINE e == <<m, x>>
  <2>1. after = More(sh, to, e) /\ more = Append(of, e) /\ e[1] = m
    BY DEF x
  <2>2. e \in Message
    BY <1>3 DEF Message
  <2> HIDE DEF after, more, e
  <2>3. \A k, p : p \in Places => OfIn(More(sh, to, e)[p], k) =
           IF e[1] = k /\ p = to THEN Append(OfIn(sh[p], k), e) ELSE OfIn(sh[p], k)
    BY <2>2, MessageMore
  <2> QED BY <2>1, <2>3, ZenonT(60)
<1> HIDE DEF after, more
<1>7. AnswerAt(m, h, to, after, r, v, cut)
  <2>1. \A p \in Places \ {to} : OfIn(after[p], m) = <<>>
    BY <1>1, <1>6
  <2>2. CASE Len(u) = 1
    BY <1>5, <1>6, <2>1, <2>2 DEF AnswerAt
  <2>3. CASE Len(u) # 1
    BY <1>5, <1>6, <2>1, <2>3 DEF AnswerAt
  <2> QED BY <2>2, <2>3
<1> QED BY <1>3, <1>7 DEF after, x, v

\* A chunk is not sent, nor the others.
LEMMA ChunksCut ==
    ASSUME NEW m \in Mentions, NEW to \in Places, NEW sh \in [Places -> Seq(Message)],
           NEW r, NEW u \in Seq(Seq(Nat)), NEW cut, AnswerAt(m, "sending", to, sh, r, u, cut)
    PROVE  AnswerAt(m, "over", to, sh, r, <<>>, cut \cup {m})
<1>1. /\ \A p \in Places \ {to} : OfIn(sh[p], m) = <<>>
      /\ AnswerIs("sending", OfIn(sh[to], m), r, u)
  BY DEF AnswerAt
<1>2. OfIn(sh[to], m) \in Seq(Message)
  BY OfInType
<1>3. AnswerIs("over", OfIn(sh[to], m), r, <<>>)
  BY <1>1, <1>2, AnswerFails
<1> QED BY <1>1, <1>3 DEF AnswerAt

----------------------------------------------------------------------------
\* What the step leaves alone of the answer to m.
Same(m) ==
    /\ handler'[m] = handler[m] /\ target'[m] = target[m] /\ reply'[m] = reply[m]
    /\ unsent'[m] = unsent[m] /\ (m \in cutOff' <=> m \in cutOff)
    /\ \A p \in Places : OfIn(shown'[p], m) = OfIn(shown[p], m)

LEMMA SameKeeps ==
    ASSUME ThreadsIInv, threads \subseteq threads', NEW m \in Mentions, Same(m)
    PROVE  AnswerOK(m)'
<1>1. target[m] \in Places /\ target[m] \in threads' \cup {"channel", "dm"}
  BY DEF ThreadsIInv, ThreadsTypeOK, AnswerOK
<1>2. AnswerAt(m, handler[m], target[m], shown, reply[m], unsent[m], cutOff)
  BY DEF ThreadsIInv, AnswerOK
<1>3. /\ \A p \in Places : OfIn(shown'[p], m) = OfIn(shown[p], m)
      /\ m \in cutOff' <=> m \in cutOff
  BY DEF Same
<1>4. AnswerAt(m, handler[m], target[m], shown', reply[m], unsent[m], cutOff')
  BY <1>1, <1>2, <1>3, AnswerKept
<1> QED BY <1>1, <1>4 DEF AnswerOK, Same

\* A step of one handler.
LEMMA OneSteps ==
    ASSUME ThreadsIInv, NEW m \in Mentions, threads \subseteq threads',
           \A k \in Mentions \ {m} : Same(k), AnswerOK(m)', ThreadsTypeOK', ThreadsOK'
    PROVE  ThreadsIInv'
<1>1. \A k \in Mentions \ {m} : AnswerOK(k)'
  BY SameKeeps
<1> QED BY <1>1 DEF ThreadsIInv

\* No step of a handler.
LEMMA NoneSteps ==
    ASSUME ThreadsIInv, threads \subseteq threads', \A k \in Mentions : Same(k),
           ThreadsTypeOK', ThreadsOK'
    PROVE  ThreadsIInv'
<1>1. \A k \in Mentions : AnswerOK(k)'
  BY SameKeeps
<1> QED BY <1>1 DEF ThreadsIInv

LEMMA InitThreads == ThreadsInit => ThreadsIInv
<1> SUFFICES ASSUME ThreadsInit PROVE ThreadsIInv
  OBVIOUS
<1>1. <<>> \in Texts
  BY EmptyIsText
<1>2. ThreadsTypeOK
  BY <1>1, ThreadNames DEF ThreadsInit, ThreadsTypeOK
<1>3. ThreadsOK
  BY DEF ThreadsInit, ThreadsOK
<1>4. ASSUME NEW m \in Mentions PROVE AnswerOK(m)
  <2>1. \A p \in Places : OfIn(shown[p], m) = <<>>
    BY FilterEmpty DEF OfIn, ThreadsInit
  <2>2. "new" \in Early /\ handler[m] = "new" /\ target[m] = "channel" /\ "channel" \in Places
    BY DEF ThreadsInit, Early, Places
  <2>3. AnswerAt(m, "new", "channel", shown, reply[m], unsent[m], cutOff)
    BY <2>1, <2>2, AnswerBegins
  <2> QED BY <2>2, <2>3 DEF AnswerOK
<1> QED BY <1>2, <1>3, <1>4 DEF ThreadsIInv

\* The handler has an answer, for which nothing has been shown.
LEMMA RepliesKeeps ==
    ASSUME ThreadsIInv, NEW m \in Mentions, handler[m] \in Early,
           NEW text \in Texts, Replies(m, text), shown' = shown, cutOff' = cutOff,
           threads \subseteq threads', target' \in [Mentions -> Places],
           \A k \in Mentions \ {m} : target'[k] = target[k],
           target'[m] \in threads' \cup {"channel", "dm"}, ThreadsTypeOK', ThreadsOK'
    PROVE  ThreadsIInv'
<1>1. target[m] \in Places /\ target'[m] \in Places
  BY DEF ThreadsIInv, ThreadsTypeOK
<1>2. AnswerAt(m, handler[m], target[m], shown, reply[m], unsent[m], cutOff)
  BY DEF ThreadsIInv, AnswerOK
<1>3. \A p \in Places : OfIn(shown[p], m) = <<>>
  BY <1>1, <1>2, NothingShown
<1>4. AnswerAt(m, "sending", target'[m], shown, text, ChunkMessage(text), cutOff)
  BY <1>1, <1>3, AnswerBegins
<1>5. handler'[m] = "sending" /\ reply'[m] = text /\ unsent'[m] = ChunkMessage(text)
  BY DEF Replies, ThreadsIInv, ThreadsTypeOK
<1>6. AnswerOK(m)'
  BY <1>4, <1>5 DEF AnswerOK
<1>7. \A k \in Mentions \ {m} : Same(k)
  BY DEF Same, Replies, ThreadsIInv, ThreadsTypeOK
<1> QED BY <1>6, <1>7, OneSteps

\* It has none yet.
LEMMA WaitingKeeps ==
    ASSUME ThreadsIInv, NEW m \in Mentions, handler[m] \in Early, handler'[m] \in Early,
           \A k \in Mentions \ {m} : handler'[k] = handler[k],
           UNCHANGED <<reply, unsent, shown, cutOff>>, threads \subseteq threads',
           target' \in [Mentions -> Places], \A k \in Mentions \ {m} : target'[k] = target[k],
           target'[m] \in threads' \cup {"channel", "dm"}, ThreadsTypeOK', ThreadsOK'
    PROVE  ThreadsIInv'
<1>1. target[m] \in Places /\ target'[m] \in Places
  BY DEF ThreadsIInv, ThreadsTypeOK
<1>2. AnswerAt(m, handler[m], target[m], shown, reply[m], unsent[m], cutOff)
  BY DEF ThreadsIInv, AnswerOK
<1>3. \A p \in Places : OfIn(shown[p], m) = <<>>
  BY <1>1, <1>2, NothingShown
<1>4. AnswerAt(m, handler'[m], target'[m], shown, reply[m], unsent[m], cutOff)
  BY <1>1, <1>3, AnswerBegins
<1>6. AnswerOK(m)'
  BY <1>4 DEF AnswerOK
<1>7. \A k \in Mentions \ {m} : Same(k)
  BY DEF Same
<1> QED BY <1>6, <1>7, OneSteps

\* The types of a reply.
LEMMA ReplyTypes ==
    ASSUME ThreadsTypeOK, NEW m \in Mentions, NEW text \in Texts, Replies(m, text)
    PROVE  /\ handler' \in [Mentions -> {"new", "threading", "waiting", "sending", "over"}]
           /\ reply' \in [Mentions -> Texts] /\ unsent' \in [Mentions -> Seq(Seq(Nat))]
<1>1. ChunkMessage(text) \in Seq(Seq(Nat))
  BY ChunksWhole DEF Whole
<1> QED BY <1>1 DEF Replies, ThreadsTypeOK

----------------------------------------------------------------------------
LEMMA StartJobKeeps ==
    ASSUME ThreadsIInv, NEW m \in Mentions, StartJob(m)
    PROVE  ThreadsIInv'
<1>1. ThreadsTypeOK' /\ ThreadsOK'
  BY DEF StartJob, ThreadsIInv, ThreadsTypeOK, ThreadsOK
<1>2. \A k \in Mentions : Same(k)
  BY DEF StartJob, Same
<1>3. threads \subseteq threads'
  BY DEF StartJob
<1> QED BY <1>1, <1>2, <1>3, NoneSteps

LEMMA CloseKeeps == ASSUME ThreadsIInv, CloseClient PROVE ThreadsIInv'
<1>1. ThreadsTypeOK' /\ ThreadsOK'
  BY DEF CloseClient, ThreadsIInv, ThreadsTypeOK, ThreadsOK
<1>2. \A k \in Mentions : Same(k)
  BY DEF CloseClient, Same
<1>3. threads \subseteq threads'
  BY DEF CloseClient
<1> QED BY <1>1, <1>2, <1>3, NoneSteps

\* An agent that ends, or is not waited for any longer.
LEMMA JobEndsKeeps ==
    ASSUME ThreadsIInv, NEW m \in Mentions, JobEnds(m) \/ AgentTimesOut(m)
    PROVE  ThreadsIInv'
<1>1. /\ UNCHANGED <<clientOpen, threads, target, cutOff, posted, shown>>
      /\ job' \in [Mentions -> {"none", "queued", "running", "cancelled", "done"}]
  BY DEF JobEnds, AgentTimesOut, TimesOutAs, ThreadsIInv, ThreadsTypeOK
<1>2. ThreadsOK' /\ threads \subseteq threads'
  BY <1>1 DEF ThreadsIInv, ThreadsOK
<1>3. CASE UNCHANGED <<handler, reply, unsent>>
  <2>1. ThreadsTypeOK'
    BY <1>1, <1>3 DEF ThreadsIInv, ThreadsTypeOK
  <2>2. \A k \in Mentions : Same(k)
    BY <1>1, <1>3 DEF Same
  <2> QED BY <1>2, <2>1, <2>2, NoneSteps
<1>4. ASSUME handler[m] = "waiting", NEW text \in Texts, Replies(m, text)
      PROVE  ThreadsIInv'
  <2>1. ThreadsTypeOK'
    BY <1>1, <1>4, ReplyTypes DEF ThreadsIInv, ThreadsTypeOK
  <2>2. /\ target' \in [Mentions -> Places] /\ \A k \in Mentions \ {m} : target'[k] = target[k]
        /\ target'[m] \in threads' \cup {"channel", "dm"}
    BY <1>1 DEF ThreadsIInv, ThreadsTypeOK, AnswerOK
  <2>3. handler[m] \in Early
    BY <1>4 DEF Early
  <2> QED BY <1>1, <1>2, <1>4, <2>1, <2>2, <2>3, RepliesKeeps
<1>5. \A text \in Answers \cup {Excuse} : text \in Texts
  BY ThreadsAssumption, ExcuseIsText DEF ThreadsAssumption
<1> QED BY <1>3, <1>4, <1>5 DEF JobEnds, AgentTimesOut, TimesOutAs

\* The agent is asked.
LEMMA AskKeeps ==
    ASSUME ThreadsIInv, NEW m \in Mentions, handler[m] \in Early, AskAgent(m),
           UNCHANGED <<clientOpen, cutOff, posted, shown>>, threads \subseteq threads',
           target' \in [Mentions -> Places], \A k \in Mentions \ {m} : target'[k] = target[k],
           target'[m] \in threads' \cup {"channel", "dm"},
           threads' \subseteq Mentions \cup Posts, ThreadsOK'
    PROVE  ThreadsIInv'
<1>1. CASE /\ handler' = [handler EXCEPT ![m] = "waiting"]
           /\ job' = [job EXCEPT ![m] = "queued"] /\ UNCHANGED <<reply, unsent>>
  <2>1. ThreadsTypeOK'
    BY <1>1 DEF ThreadsIInv, ThreadsTypeOK
  <2>2. handler'[m] \in Early /\ \A k \in Mentions \ {m} : handler'[k] = handler[k]
    BY <1>1 DEF ThreadsIInv, ThreadsTypeOK, Early
  <2> QED BY <1>1, <2>1, <2>2, WaitingKeeps
<1>2. CASE Replies(m, Excuse) /\ UNCHANGED job
  <2>1. ThreadsTypeOK'
    BY <1>2, ExcuseIsText, ReplyTypes DEF ThreadsIInv, ThreadsTypeOK
  <2> QED BY <1>2, <2>1, ExcuseIsText, RepliesKeeps
<1> QED BY <1>1, <1>2 DEF AskAgent

LEMMA MentionKeeps ==
    ASSUME ThreadsIInv, NEW m \in Mentions,
           MentionInChannel(m) \/ MentionElsewhere(m) \/ ThreadOpens(m) \/ ThreadFails(m)
    PROVE  ThreadsIInv'
<1>1. CASE MentionInChannel(m)
  <2>1. ThreadsTypeOK' /\ ThreadsOK' /\ threads \subseteq threads'
    BY <1>1 DEF MentionInChannel, ThreadsIInv, ThreadsTypeOK, ThreadsOK
  <2>2. /\ handler[m] \in Early /\ handler'[m] \in Early
        /\ \A k \in Mentions \ {m} : handler'[k] = handler[k]
        /\ UNCHANGED <<reply, unsent, shown, cutOff, target>>
    BY <1>1 DEF MentionInChannel, ThreadsIInv, ThreadsTypeOK, Early
  <2>3. /\ target' \in [Mentions -> Places] /\ \A k \in Mentions \ {m} : target'[k] = target[k]
        /\ target'[m] \in threads' \cup {"channel", "dm"}
    BY <1>1 DEF MentionInChannel, ThreadsIInv, ThreadsTypeOK, AnswerOK
  <2> QED BY <2>1, <2>2, <2>3, WaitingKeeps
<1>2. CASE MentionElsewhere(m)
  <2>1. PICK p \in threads \cup {"dm"} : target' = [target EXCEPT ![m] = p]
    BY <1>2 DEF MentionElsewhere
  <2>2. p \in Places
    BY <2>1 DEF ThreadsIInv, ThreadsTypeOK, Places
  <2>3. /\ target' \in [Mentions -> Places] /\ \A k \in Mentions \ {m} : target'[k] = target[k]
        /\ target'[m] = p
    BY <2>1, <2>2 DEF ThreadsIInv, ThreadsTypeOK
  <2>4. /\ handler[m] \in Early /\ AskAgent(m)
        /\ UNCHANGED <<clientOpen, threads, cutOff, posted, shown>>
    BY <1>2 DEF MentionElsewhere, Early
  <2>5. ThreadsOK' /\ threads \subseteq threads' /\ threads' \subseteq Mentions \cup Posts
    BY <2>4 DEF ThreadsIInv, ThreadsTypeOK, ThreadsOK
  <2>6. target'[m] \in threads' \cup {"channel", "dm"}
    BY <2>3, <2>4
  <2> QED BY <2>3, <2>4, <2>5, <2>6, AskKeeps
<1>3. CASE ThreadOpens(m)
  <2>1. /\ handler[m] \in Early /\ AskAgent(m) /\ threads' = threads \cup {m}
        /\ target' = [target EXCEPT ![m] = m]
        /\ UNCHANGED <<clientOpen, cutOff, posted, shown>>
    BY <1>3 DEF ThreadOpens, Early
  <2>2. /\ target' \in [Mentions -> Places] /\ \A k \in Mentions \ {m} : target'[k] = target[k]
        /\ target'[m] \in threads' \cup {"channel", "dm"}
    BY <2>1, ThreadNames DEF ThreadsIInv, ThreadsTypeOK
  <2>3. threads \subseteq threads' /\ threads' \subseteq Mentions \cup Posts
    BY <2>1 DEF ThreadsIInv, ThreadsTypeOK
  <2>4. ThreadsOK'
    BY <2>1, ThreadNames DEF ThreadsIInv, ThreadsOK
  <2> QED BY <2>1, <2>2, <2>3, <2>4, AskKeeps
<1>4. CASE ThreadFails(m)
  <2>1. /\ handler[m] \in Early /\ AskAgent(m)
        /\ UNCHANGED <<clientOpen, threads, target, cutOff, posted, shown>>
    BY <1>4 DEF ThreadFails, Early
  <2>2. /\ target' \in [Mentions -> Places] /\ \A k \in Mentions \ {m} : target'[k] = target[k]
        /\ target'[m] \in threads' \cup {"channel", "dm"}
    BY <2>1 DEF ThreadsIInv, ThreadsTypeOK, AnswerOK
  <2>3. ThreadsOK' /\ threads \subseteq threads' /\ threads' \subseteq Mentions \cup Posts
    BY <2>1 DEF ThreadsIInv, ThreadsTypeOK, ThreadsOK
  <2> QED BY <2>1, <2>2, <2>3, AskKeeps
<1> QED BY <1>1, <1>2, <1>3, <1>4

\* The next chunk is sent.
LEMMA SendKeeps ==
    ASSUME ThreadsIInv, NEW m \in Mentions, SendChunk(m)
    PROVE  ThreadsIInv'
<1> DEFINE x == Head(unsent[m])
           h == IF Len(unsent[m]) = 1 THEN "over" ELSE "sending"
<1>1. /\ handler[m] = "sending"
      /\ shown' = More(shown, target[m], <<m, x>>)
      /\ unsent' = [unsent EXCEPT ![m] = Tail(unsent[m])]
      /\ handler' = [handler EXCEPT ![m] = h]
      /\ UNCHANGED <<clientOpen, threads, target, job, reply, cutOff, posted>>
  BY DEF SendChunk, More
<1>2. /\ target[m] \in Places /\ target[m] \in threads \cup {"channel", "dm"}
      /\ reply[m] \in Seq(Nat) /\ unsent[m] \in Seq(Seq(Nat))
      /\ shown \in [Places -> Seq(Message)]
      /\ AnswerAt(m, "sending", target[m], shown, reply[m], unsent[m], cutOff)
  BY <1>1, TypesHave DEF ThreadsIInv, ThreadsTypeOK, AnswerOK, Message
<1>3. /\ x \in Seq(Nat) /\ Tail(unsent[m]) \in Seq(Seq(Nat))
      /\ AnswerAt(m, h, target[m], More(shown, target[m], <<m, x>>), reply[m],
                  Tail(unsent[m]), cutOff)
  BY <1>2, ChunkSent
<1> DEFINE e == <<m, x>>
<1>4. e \in Message /\ e[1] = m
  BY <1>3 DEF Message
<1> HIDE DEF x, e
<1>5. shown' = More(shown, target[m], e)
  BY <1>1 DEF e
<1>6. /\ shown' \in [Places -> Seq(Message)]
      /\ \A k, p : p \in Places => OfIn(shown'[p], k) =
            IF e[1] = k /\ p = target[m] THEN Append(OfIn(shown[p], k), e) ELSE OfIn(shown[p], k)
  <2>1. /\ More(shown, target[m], e) \in [Places -> Seq(Message)]
        /\ \A k, p : p \in Places => OfIn(More(shown, target[m], e)[p], k) =
              IF e[1] = k /\ p = target[m] THEN Append(OfIn(shown[p], k), e)
              ELSE OfIn(shown[p], k)
    BY <1>2, <1>4, MessageMore, ZenonT(60)
  <2> QED BY <1>5, <2>1
<1>7. AnswerOK(m)'
  <2>1. handler'[m] = h /\ unsent'[m] = Tail(unsent[m])
    BY <1>1 DEF ThreadsIInv, ThreadsTypeOK
  <2> HIDE DEF h
  <2> QED BY <1>1, <1>2, <1>3, <2>1 DEF AnswerOK
<1>8. \A k \in Mentions \ {m} : Same(k)
  <2>1. \A k \in Mentions \ {m} : \A p \in Places : OfIn(shown'[p], k) = OfIn(shown[p], k)
    BY <1>4, <1>6
  <2> QED BY <1>1, <2>1 DEF Same, ThreadsIInv, ThreadsTypeOK
<1>9. ThreadsTypeOK'
  BY <1>1, <1>3, <1>6 DEF ThreadsIInv, ThreadsTypeOK, Message
<1>10. ThreadsOK'
  BY <1>1, <1>2 DEF ThreadsIInv, ThreadsOK, More, ThreadsTypeOK
<1> QED BY <1>1, <1>7, <1>8, <1>9, <1>10, OneSteps

LEMMA FailKeeps ==
    ASSUME ThreadsIInv, NEW m \in Mentions, ChunkFails(m)
    PROVE  ThreadsIInv'
<1>1. /\ handler[m] = "sending"
      /\ unsent' = [unsent EXCEPT ![m] = <<>>] /\ handler' = [handler EXCEPT ![m] = "over"]
      /\ cutOff' = cutOff \cup {m}
      /\ UNCHANGED <<clientOpen, threads, target, job, reply, posted, shown>>
  BY DEF ChunkFails
<1>2. /\ target[m] \in Places /\ target[m] \in threads \cup {"channel", "dm"}
      /\ unsent[m] \in Seq(Seq(Nat)) /\ shown \in [Places -> Seq(Message)]
      /\ AnswerAt(m, "sending", target[m], shown, reply[m], unsent[m], cutOff)
  BY <1>1, TypesHave DEF ThreadsIInv, ThreadsTypeOK, AnswerOK, Message
<1>3. AnswerAt(m, "over", target[m], shown, reply[m], <<>>, cutOff \cup {m})
  BY <1>2, ChunksCut
<1>4. AnswerOK(m)'
  <2>1. handler'[m] = "over" /\ unsent'[m] = <<>>
    BY <1>1 DEF ThreadsIInv, ThreadsTypeOK
  <2> QED BY <1>1, <1>2, <1>3, <2>1 DEF AnswerOK
<1>5. \A k \in Mentions \ {m} : Same(k)
  BY <1>1 DEF Same, ThreadsIInv, ThreadsTypeOK
<1>6. ThreadsTypeOK' /\ ThreadsOK'
  BY <1>1 DEF ThreadsIInv, ThreadsTypeOK, ThreadsOK
<1> QED BY <1>1, <1>4, <1>5, <1>6, OneSteps

\* What somebody else sends is not taken for an answer.
LEMMA PostKeeps ==
    ASSUME ThreadsIInv, NEW c \in Posts, SendMessage(c) \/ CreateThread(c)
    PROVE  ThreadsIInv'
<1> DEFINE e == <<c, Excuse>>
<1>1. e \in Message /\ e[1] = c /\ c \notin Mentions /\ c \in Places
  BY ExcuseIsText, ThreadNames DEF Message
<1>t. shown \in [Places -> Seq(Message)]
  BY DEF ThreadsIInv, ThreadsTypeOK, Message
<1>2. /\ threads \subseteq threads' /\ threads' \subseteq Mentions \cup Posts
      /\ posted' \subseteq Posts
      /\ UNCHANGED <<clientOpen, handler, target, job, reply, unsent, cutOff>>
  BY DEF SendMessage, CreateThread, ThreadsIInv, ThreadsTypeOK
<1>3. ASSUME NEW to \in Places, shown' = More(shown, to, e)
      PROVE  /\ shown' \in [Places -> Seq(Message)]
             /\ \A k \in Mentions, p \in Places : OfIn(shown'[p], k) = OfIn(shown[p], k)
  <2> HIDE DEF e
  <2>1. \A k, p : p \in Places => OfIn(shown'[p], k) =
            IF e[1] = k /\ p = to THEN Append(OfIn(shown[p], k), e) ELSE OfIn(shown[p], k)
    <3>1. \A k, p : p \in Places => OfIn(More(shown, to, e)[p], k) =
              IF e[1] = k /\ p = to THEN Append(OfIn(shown[p], k), e) ELSE OfIn(shown[p], k)
      BY <1>1, <1>t, MessageMore, ZenonT(60)
    <3> QED BY <1>3, <3>1
  <2>2. shown' \in [Places -> Seq(Message)]
    BY <1>1, <1>t, <1>3, MessageMore
  <2> QED BY <1>1, <2>1, <2>2
<1>4. /\ shown' \in [Places -> Seq(Message)]
      /\ \A k \in Mentions, p \in Places : OfIn(shown'[p], k) = OfIn(shown[p], k)
      /\ ThreadsOK'
  <2>1. CASE SendMessage(c)
    <3>1. PICK to \in threads \cup {"channel", "dm"} : shown' = More(shown, to, e)
      BY <2>1 DEF SendMessage, More
    <3>2. to \in Places
      BY ThreadNames DEF ThreadsIInv, ThreadsTypeOK
    <3>3. ThreadsOK'
      BY <2>1, <3>1, <3>2, <1>t DEF SendMessage, More, ThreadsIInv, ThreadsOK
    <3> QED BY <1>3, <3>1, <3>2, <3>3
  <2>2. CASE CreateThread(c)
    <3>1. c \notin threads /\ c \notin {"channel", "dm"} /\ shown[c] = <<>>
      BY <1>1, <2>2, ThreadNames DEF CreateThread, ThreadsIInv, ThreadsOK
    <3>2. shown' = shown \/ shown' = More(shown, c, e)
      BY <2>2, <3>1 DEF CreateThread, More
    <3>3. ThreadsOK'
      BY <1>t, <2>2, <3>2 DEF CreateThread, More, ThreadsIInv, ThreadsOK
    <3> QED BY <1>1, <1>t, <1>3, <3>2, <3>3
  <2> QED BY <2>1, <2>2
<1>5. ThreadsTypeOK'
  BY <1>2, <1>4 DEF ThreadsIInv, ThreadsTypeOK, Message
<1>6. \A k \in Mentions : Same(k)
  BY <1>2, <1>4 DEF Same
<1> QED BY <1>2, <1>4, <1>5, <1>6, NoneSteps

LEMMA NextThreads == ThreadsIInv /\ [ThreadsNext]_threadVars => ThreadsIInv'
<1> SUFFICES ASSUME ThreadsIInv, [ThreadsNext]_threadVars PROVE ThreadsIInv'
  OBVIOUS
<1>1. CASE CloseClient
  BY <1>1, CloseKeeps
<1>2. ASSUME NEW m \in Mentions,
             MentionInChannel(m) \/ MentionElsewhere(m) \/ ThreadOpens(m) \/ ThreadFails(m)
      PROVE  ThreadsIInv'
  BY <1>2, MentionKeeps
<1>3. ASSUME NEW m \in Mentions, StartJob(m) PROVE ThreadsIInv'
  BY <1>3, StartJobKeeps
<1>4. ASSUME NEW m \in Mentions, JobEnds(m) \/ AgentTimesOut(m) PROVE ThreadsIInv'
  BY <1>4, JobEndsKeeps
<1>5. ASSUME NEW m \in Mentions, SendChunk(m) PROVE ThreadsIInv'
  BY <1>5, SendKeeps
<1>6. ASSUME NEW m \in Mentions, ChunkFails(m) PROVE ThreadsIInv'
  BY <1>6, FailKeeps
<1>7. ASSUME NEW c \in Posts, SendMessage(c) \/ CreateThread(c) PROVE ThreadsIInv'
  BY <1>7, PostKeeps
<1>8. CASE UNCHANGED threadVars
  <2>1. ThreadsTypeOK' /\ ThreadsOK' /\ threads \subseteq threads'
    BY <1>8 DEF threadVars, ThreadsIInv, ThreadsTypeOK, ThreadsOK
  <2>2. \A k \in Mentions : Same(k)
    BY <1>8 DEF threadVars, Same
  <2> QED BY <2>1, <2>2, NoneSteps
<1> QED BY <1>1, <1>2, <1>3, <1>4, <1>5, <1>6, <1>7, <1>8 DEF ThreadsNext

\* The inductive invariant of the handlers of Discord: the letters of an answer are
\* those that are shown, and then those of the chunks that are not sent.
THEOREM ThreadsInvariant == ThreadsSpec => []ThreadsIInv
<1> QED BY InitThreads, NextThreads, PTL DEF ThreadsSpec

\* The handlers, their jobs, the chunks and what is shown have their types
\* (_handle_message of vendors/discord.py).
THEOREM ThreadsTypeCorrect == ThreadsSpec => []ThreadsTypeOK
<1>1. ThreadsIInv => ThreadsTypeOK
  BY DEF ThreadsIInv
<1> QED BY <1>1, ThreadsInvariant, PTL

\* For any mentions and posts, any texts and any length that Discord takes, what is
\* shown of an answer is its text from the beginning and in order, in messages that
\* fit, in one place; and all of it, when the handler is over and nothing failed.
THEOREM RepliesWhole == ThreadsSpec => []RepliesAreWhole
<1>1. ThreadsIInv => RepliesAreWhole
  <2> SUFFICES ASSUME ThreadsIInv, NEW m \in Mentions
               PROVE  /\ IsPrefix(Letters(Sent(m)), Letters(reply[m]))
                      /\ handler[m] = "over" /\ m \notin cutOff =>
                            Letters(Sent(m)) = Letters(reply[m])
                      /\ \A p \in Places \ {target[m]} : Of(m, p) = <<>>
                      /\ \A i \in DOMAIN Of(m, target[m]) : Len(Of(m, target[m])[i][2]) <= ChunkMax
    BY ChunksCorrect DEF RepliesAreWhole
  <2> DEFINE of == OfIn(shown[target[m]], m)
  <2>1. /\ of = Of(m, target[m]) /\ Letters(Sent(m)) = LettersIn(of)
        /\ \A p : Of(m, p) = OfIn(shown[p], m)
    BY OfIsOfIn DEF LettersIn
  <2>2. /\ \A p \in Places \ {target[m]} : OfIn(shown[p], m) = <<>>
        /\ AnswerIs(handler[m], of, reply[m], unsent[m])
        /\ handler[m] = "over" /\ m \notin cutOff => LettersIn(of) = Letters(reply[m])
        /\ reply[m] \in Seq(Nat) /\ unsent[m] \in Seq(Seq(Nat))
        /\ handler[m] \in Early \cup {"sending", "over"}
    BY TypesHave DEF ThreadsIInv, ThreadsTypeOK, AnswerOK, AnswerAt, Early
  <2>3. of \in Seq(Message)
    BY TypesHave DEF ThreadsIInv, ThreadsTypeOK
  <2> HIDE DEF of
  <2>4. IsPrefix(LettersIn(of), Letters(reply[m]))
    BY <2>2, <2>3, ShownIsPrefix
  <2>5. \A i \in DOMAIN of : Len(of[i][2]) <= ChunkMax
    BY <2>2 DEF AnswerIs, Elements
  <2> QED BY <2>1, <2>2, <2>4, <2>5
<1> QED BY <1>1, ThreadsInvariant, PTL

----------------------------------------------------------------------------
(* The platforms side by side.                                            *)
LEMMA PlatformsCompose ==
    PlatformsSpec => Spec /\ TelegramSpec /\ ThreadsSpec
<1>1. PlatformsInit => Init /\ TelegramInit /\ ThreadsInit
  BY DEF PlatformsInit
<1>2. [PlatformsNext]_<<vars, telegramVars, threadVars>> =>
          [Next]_vars /\ [TelegramNext]_telegramVars /\ [ThreadsNext]_threadVars
  BY DEF PlatformsNext
<1> QED BY <1>1, <1>2, PTL DEF PlatformsSpec, Spec, TelegramSpec, ThreadsSpec

\* Side by side too the attributes of the bots tell the truth about their clients, and
\* the answers are whole.
THEOREM PlatformsCorrect ==
    PlatformsSpec => [](ConnectedIsReady /\ LiveIsKnown /\ RunningIsPolling /\ RepliesAreWhole)
<1> QED BY PlatformsCompose, ConnectedReady, LiveKnown, RunningPolls, RepliesWhole, PTL
=============================================================================
