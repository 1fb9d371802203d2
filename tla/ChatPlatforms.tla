---------------------------- MODULE ChatPlatforms ----------------------------
(***************************************************************************)
(* The two chat bots of the dashboard, which its startup and its shutdown  *)
(* start and stop one after the other, and the handlers of what is said to *)
(* the first.  They share no variable, so every property of one of them is *)
(* decided by the behaviours in which the others do nothing: a behaviour   *)
(* moves one of them.                                                      *)
(***************************************************************************)
EXTENDS DiscordBot, TelegramBot, DiscordThreads

MCAnswers == {<<>>, <<1, 2, 3>>, <<1, 0, 3, 4, 5>>}

PlatformsInit == Init /\ TelegramInit /\ ThreadsInit

PlatformsNext ==
    \/ TelegramInit /\ ThreadsInit /\ Next /\ UNCHANGED <<telegramVars, threadVars>>
    \/ Init /\ ThreadsInit /\ TelegramNext /\ UNCHANGED <<vars, threadVars>>
    \/ Init /\ TelegramInit /\ ThreadsNext /\ UNCHANGED <<vars, telegramVars>>

PlatformsSpec ==
    /\ PlatformsInit /\ [][PlatformsNext]_<<vars, telegramVars, threadVars>>
    /\ ThreadsFairness
==============================================================================
