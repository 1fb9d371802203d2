-------------------------------- MODULE Chats --------------------------------
(***************************************************************************)
(* What answers a message of the user on the dashboard: chats with the     *)
(* agent, the cloud back ends, and the choice of a model.  The three meet  *)
(* in nothing but the process, so every property of one of them is decided *)
(* by the behaviours in which the others do nothing.                       *)
(***************************************************************************)
EXTENDS ChatSession, CloudBackend, ModelChoice

CONSTANTS m1, m2, m3

MCVisionChain == <<m2>>
MCFallbackChain == <<m1, m3>>

ChatsInit == Init /\ BackendInit /\ ChoiceInit

ChatsNext ==
    \/ BackendInit /\ ChoiceInit /\ Next /\ UNCHANGED <<backendVars, choiceVars>>
    \/ Init /\ ChoiceInit /\ BackendNext /\ UNCHANGED <<vars, choiceVars>>
    \/ Init /\ BackendInit /\ ChoiceNext /\ UNCHANGED <<vars, backendVars>>

ChatsSpec == ChatsInit /\ [][ChatsNext]_<<vars, backendVars, choiceVars>> /\ Fairness
=============================================================================
