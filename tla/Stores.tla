------------------------------- MODULE Stores -------------------------------
(***************************************************************************)
(* What a process of Timmy keeps in tables: the registry of models, the    *)
(* memory store, the memory of the brain, and the thoughts.  The dashboard *)
(* that starts loads the first and prunes the second.  The others share    *)
(* nothing with them nor with each other, so that a bound keeps the        *)
(* product small: a behaviour fills one of the stores, and every property  *)
(* of one is decided by the behaviours in which the others are empty.      *)
(***************************************************************************)
EXTENDS ModelRegistry, MemoryStore, BrainMemory, Thoughts, TLC

OneAtATime == rows = <<>> \/ order = <<>>

\* The registry and the memory store of the dashboard.
TablesInit == RegistryInit /\ StoreInit

TablesNext ==
    \/ RegistryOperation /\ UNCHANGED storeVars /\ OneAtATime'
    \/ StoreOperation /\ UNCHANGED registryVars /\ OneAtATime'
    \/ StartRegistry /\ StartStore

Unused == TablesInit /\ ~encodes

StoresInit == TablesInit /\ BrainInit /\ ThoughtsInit

StoresNext ==
    \/ ~rqlite /\ BrainInit /\ ThoughtsInit /\ TablesNext /\ UNCHANGED <<brainVars, thoughtVars>>
    \/ Unused /\ ThoughtsInit /\ BrainNext /\ UNCHANGED <<registryVars, storeVars, thoughtVars>>
    \/ Unused /\ ~rqlite /\ BrainInit /\ ThoughtsNext /\ UNCHANGED <<registryVars, storeVars, brainVars>>

StoresSpec == StoresInit /\ [][StoresNext]_<<registryVars, storeVars, brainVars, thoughtVars>>

StoresSymmetry == Permutations(Names) \cup Permutations(Entries) \cup Permutations(Salts)
=============================================================================
