---------------------------- MODULE MCWsManager ----------------------------
(***************************************************************************)
(* A small instance of the event log and the WebSocket manager for TLC.     *)
(***************************************************************************)
EXTENDS EventLog, TLC

\* The clients are alike.
ClientSymmetry == Permutations(Clients)

=============================================================================
