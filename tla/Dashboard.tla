------------------------------ MODULE Dashboard ------------------------------
(***************************************************************************)
(* What the dashboard does for its owner's day: it keeps the focus stack,  *)
(* prepares the briefing with the items to approve, and lets the agent     *)
(* carry out plans.  The three have no state in common, so that every      *)
(* property of one of them is decided by the behaviours in which the       *)
(* others do nothing.                                                      *)
(***************************************************************************)
EXTENDS Calm, Briefing, AgenticLoop

DashboardInit == Init /\ BriefingInit /\ LoopsInit

DashboardNext ==
    \/ BriefingInit /\ LoopsInit /\ Next /\ UNCHANGED <<briefingVars, loopVars>>
    \/ Init /\ LoopsInit /\ BriefingNext /\ UNCHANGED <<vars, loopVars>>
    \/ Init /\ BriefingInit /\ LoopsNext /\ UNCHANGED <<vars, briefingVars>>

DashboardSpec ==
    DashboardInit /\ [][DashboardNext]_<<vars, briefingVars, loopVars>> /\ LoopsFairness
=============================================================================
