----------------------------- MODULE TelegramBot -----------------------------
(***************************************************************************)
(* The life of the Telegram bot (integrations/telegram_bot/bot.py): one    *)
(* singleton that the startup of the dashboard, the POST /telegram/setup   *)
(* requests (routes/telegram.py) and the shutdown start and stop.          *)
(*                                                                         *)
(* start() and stop() are three awaited calls each, and every one of them  *)
(* is made on what self._app is by then.  An action is the code between    *)
(* two awaits.  The Application belongs to the telegram library: here it   *)
(* is the set of what it is, "initialized", "running" and "polling", and   *)
(* its calls raise as the library's do when it is not in the right state.  *)
(* The handlers of messages change nothing of the bot and are left out.    *)
(***************************************************************************)
EXTENDS FiniteSets

CONSTANTS
    Setups,    \* POST /telegram/setup requests
    NoApp      \* None

ASSUME TelegramAssumption ==
    /\ {"startup", "shutdown"} \cap Setups = {}
    /\ NoApp \notin {"startup", "shutdown"} \cup Setups

Starters == {"startup"} \cup Setups
Callers == {"shutdown"} \cup Starters

VARIABLES
    polls,        \* TelegramBot._running
    app,          \* TelegramBot._app, named after the coroutine that built it
    being,        \* what every Application is
    step,         \* per coroutine: the call it awaits
    on,           \* per coroutine: the Application of that call
    overlapped    \* history: two coroutines were in start() or stop() at once

telegramVars == <<polls, app, being, step, on, overlapped>>

----------------------------------------------------------------------------
(* The calls of start() and of stop(), in their order. *)
StartCalls == {"initialize", "start", "poll"}
StopCalls == {"unpoll", "halt", "close"}
After == [initialize |-> "start", start |-> "poll", unpoll |-> "halt", halt |-> "close"]

Under(k) == step[k] \in StartCalls \cup StopCalls

TelegramTypeOK ==
    /\ polls \in BOOLEAN /\ overlapped \in BOOLEAN
    /\ app \in Starters \cup {NoApp}
    /\ being \in [Starters -> SUBSET {"initialized", "running", "polling"}]
    /\ step \in [Callers -> StartCalls \cup StopCalls \cup {"idle", "over"}]
    /\ on \in [Callers -> Starters \cup {NoApp}]
    /\ \A k \in Callers : on[k] \in (IF Under(k) THEN Starters ELSE {NoApp})

TelegramInit ==
    /\ polls = FALSE
    /\ app = NoApp
    /\ being = [a \in Starters |-> {}]
    /\ step = [k \in Callers |-> "idle"]
    /\ on = [k \in Callers |-> NoApp]
    /\ overlapped = FALSE

\* The call raises at once in any other state of the Application.
Accepts(call, is) ==
    CASE call = "start"  -> "initialized" \in is /\ "running" \notin is
      [] call = "poll"   -> "initialized" \in is /\ "polling" \notin is
      [] call = "unpoll" -> "polling" \in is
      [] call = "halt"   -> "running" \in is
      [] call = "close"  -> "running" \notin is

\* What the Application is from the first statement of the call on ...
Entered(call, is) ==
    CASE call = "start"  -> is \cup {"running"}
      [] call = "poll"   -> is \cup {"polling"}
      [] call = "unpoll" -> is \ {"polling"}
      [] call = "halt"   -> is \ {"running"}
      [] call = "close"  -> is

\* ... once it has returned, ...
Left(call, is) ==
    CASE call = "initialize" -> is \cup {"initialized"}
      [] call = "close"      -> is \ {"initialized"}
      [] OTHER               -> is

\* ... or raised.
Raised(call, is) ==
    CASE call = "start" -> is \ {"running"}
      [] call = "poll"  -> is \ {"polling"}
      [] OTHER          -> is

----------------------------------------------------------------------------
At(k, place, a) ==
    /\ step' = [step EXCEPT ![k] = place]
    /\ on' = [on EXCEPT ![k] = a]
    /\ overlapped' = (overlapped \/ \E j \in Callers \ {k} : Under(j))

Await(k, call, a) == At(k, call, a)
End(k) == At(k, "over", NoApp)

\* start() of a bot that does not run: without a token or the library it
\* returns, and a builder that raises clears what another call has put there.
BuildApp(k, is) ==
    /\ polls' = FALSE
    /\ being' = is
    /\ \/ app' = k /\ Await(k, "initialize", k)
       \/ app' \in {app, NoApp} /\ End(k)

\* Mutant: the flag is cleared after the last call, not in a finally clause.
StopEndsCleanly(k, is) ==
    IF step[k] = "close"
    THEN IF k \in Setups
         THEN BuildApp(k, is)
         ELSE polls' = FALSE /\ being' = is /\ End(k) /\ UNCHANGED app
    ELSE being' = is /\ End(k) /\ UNCHANGED <<polls, app>>

\* stop() has returned or raised, and its finally clause has run; a setup
\* request goes on with start().
StopEnds(k, is) ==
    IF k \in Setups
    THEN BuildApp(k, is)
    ELSE polls' = FALSE /\ being' = is /\ End(k) /\ UNCHANGED app

\* start() gives up: the Application is forgotten as it is.
StartEnds(k, is) ==
    /\ polls' = FALSE
    /\ app' = NoApp
    /\ being' = is
    /\ End(k)

Ends(k, is) == IF step[k] \in StopCalls THEN StopEnds(k, is) ELSE StartEnds(k, is)

----------------------------------------------------------------------------
Alive == step["shutdown"] # "over"

\* _start_chat_integrations_background().
StartTelegram ==
    /\ Alive
    /\ step["startup"] = "idle"
    /\ IF polls THEN End("startup") /\ UNCHANGED <<polls, app, being>>
                ELSE BuildApp("startup", being)

\* stop() begins with a call that is accepted, or raises and ends.
StopTelegram(k) ==
    IF Accepts("unpoll", being[app])
    THEN /\ being' = [being EXCEPT ![app] = Entered("unpoll", @)]
         /\ Await(k, "unpoll", app)
         /\ UNCHANGED <<polls, app>>
    ELSE IF k \in Setups
         THEN BuildApp(k, being)
         ELSE polls' = FALSE /\ End(k) /\ UNCHANGED <<app, being>>

\* setup_telegram(): stop() returns at once without an Application.
SetupTelegram(k) ==
    /\ Alive
    /\ step[k] = "idle"
    /\ IF ~polls THEN BuildApp(k, being)
       ELSE IF app = NoApp THEN End(k) /\ UNCHANGED <<polls, app, being>>
       ELSE StopTelegram(k)

\* The end of the lifespan.
ShutTelegram ==
    /\ step["shutdown"] = "idle"
    /\ IF ~polls \/ app = NoApp
       THEN End("shutdown") /\ UNCHANGED <<polls, app, being>>
       ELSE StopTelegram("shutdown")

\* A call has returned and the next is made, on what _app is now.
GoesOn(k) ==
    /\ Alive
    /\ step[k] \in DOMAIN After
    /\ LET is == [being EXCEPT ![on[k]] = Left(step[k], @)]
           call == After[step[k]]
       IN  IF app # NoApp /\ Accepts(call, is[app])
           THEN /\ being' = [is EXCEPT ![app] = Entered(call, @)]
                /\ Await(k, call, app)
                /\ UNCHANGED <<polls, app>>
           ELSE Ends(k, is)

\* The last call of start() has returned.
IsStarted(k) ==
    /\ Alive
    /\ step[k] = "poll"
    /\ polls' = TRUE
    /\ End(k)
    /\ UNCHANGED <<app, being>>

\* The last call of stop() has returned.
IsStopped(k) ==
    /\ Alive
    /\ step[k] = "close"
    /\ StopEnds(k, [being EXCEPT ![on[k]] = Left("close", @)])

\* A call raises: the network, or a token that Telegram rejects.
CallFails(k) ==
    /\ Alive
    /\ Under(k)
    /\ Ends(k, [being EXCEPT ![on[k]] = Raised(step[k], @)])

TelegramNext ==
    \/ StartTelegram
    \/ \E k \in Setups : SetupTelegram(k)
    \/ ShutTelegram
    \/ \E k \in Callers : GoesOn(k) \/ IsStarted(k) \/ IsStopped(k) \/ CallFails(k)

TelegramSpec == TelegramInit /\ [][TelegramNext]_telegramVars

----------------------------------------------------------------------------
\* While no two coroutines start or stop the bot at once, is_running is the
\* truth about the one Application that polls, whatever call failed on the way:
\* a bot that runs polls, unless it is being stopped, and none that was
\* forgotten or replaced goes on polling.  (When two setup requests overlap,
\* each makes its calls on the Application of the other.)
RunningIsPolling ==
    ~overlapped =>
        /\ polls => \/ app # NoApp /\ "polling" \in being[app]
                    \/ \E k \in Callers : step[k] \in StopCalls
        /\ \A a \in Starters :
              "polling" \in being[a] => a = app /\ (polls \/ step[a] = "poll")
=============================================================================
