------------------------------- MODULE Paperclip -------------------------------
(***************************************************************************)
(* The task runner and the bridge of Paperclip.  Each has its own part of  *)
(* the tracker, so every property of one of them is decided by the         *)
(* behaviours in which the other does nothing.                             *)
(***************************************************************************)
EXTENDS PaperclipRunner, PaperclipBridge

PaperclipInit == Init /\ BridgeInit

PaperclipNext ==
    \/ BridgeInit /\ Next /\ UNCHANGED bridgeVars
    \/ Init /\ BridgeNext /\ UNCHANGED vars

PaperclipSpec == PaperclipInit /\ [][PaperclipNext]_<<vars, bridgeVars>> /\ Fairness
=============================================================================
