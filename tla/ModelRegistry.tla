--------------------------- MODULE ModelRegistry ---------------------------
(***************************************************************************)
(* The registry of custom models (infrastructure/models/registry.py) and   *)
(* the handlers that change it (dashboard/routes/models.py).               *)
(*                                                                         *)
(* The registry keeps two dictionaries in memory and two tables in         *)
(* data/swarm.db.  Look-ups read the dictionaries alone; the tables are    *)
(* read once, when the process starts.  Every caller is a handler that     *)
(* holds the event loop from its first statement to its last, so an        *)
(* operation is one action.  What can come in between is a statement that  *)
(* fails, a start of the process, and a load that fails half way.          *)
(*                                                                         *)
(* The order of a dictionary and of a table matters: the reward model is   *)
(* the first active one.  A dictionary keeps the place of a key that is    *)
(* written again; INSERT OR REPLACE moves the row to the end.              *)
(* Paths, formats, descriptions and generation settings are left out.      *)
(***************************************************************************)
EXTENDS FiniteSets, Filters

CONSTANTS
    Names,     \* the names of models
    Agents,    \* the ids of agents
    Roles,     \* ModelRole; the look-ups by role treat each the same way
    NoModel    \* None

ASSUME RegistryAssumption == NoModel \notin Names \cup Roles

VARIABLES
    cached,       \* _models: its keys, oldest first
    model,        \* _models: its values
    assigned,     \* _agent_assignments
    rows,         \* table custom_models: its names, in the order of rowid
    row,          \* table custom_models: role and active
    assignedRow,  \* table agent_model_assignments
    unsaved,      \* history: the models whose last set_active failed half way
    moved,        \* history: the models registered again since the load
    loaded        \* history: whether the last load ended without an exception

dicts == <<cached, model, assigned>>
tables == <<rows, row, assignedRow>>
history == <<unsaved, moved, loaded>>
registryVars == <<dicts, tables, history>>

----------------------------------------------------------------------------
CustomModel == [role : Roles, active : BOOLEAN]
Absent == [role |-> NoModel, active |-> FALSE]

Cached == Elements(cached)
Rows == Elements(rows)

\* Types; a dictionary or table holds each name once and nothing of a name it lacks.
RegistryTypeOK ==
    /\ cached \in Seq(Names) /\ Injective(cached)
    /\ rows \in Seq(Names) /\ Injective(rows)
    /\ model \in [Names -> CustomModel \cup {Absent}]
    /\ row \in [Names -> CustomModel \cup {Absent}]
    /\ \A n \in Names : n \in Cached <=> model[n] # Absent
    /\ \A n \in Names : n \in Rows <=> row[n] # Absent
    /\ assigned \in [Agents -> Names \cup {NoModel}]
    /\ assignedRow \in [Agents -> Names \cup {NoModel}]
    /\ unsaved \subseteq Cached /\ moved \subseteq Cached
    /\ loaded \in BOOLEAN

RegistryInit ==
    /\ cached = <<>> /\ rows = <<>>
    /\ model = [n \in Names |-> Absent] /\ row = model
    /\ assigned = [a \in Agents |-> NoModel] /\ assignedRow = assigned
    /\ unsaved = {} /\ moved = {} /\ loaded = TRUE

----------------------------------------------------------------------------
(* The look-ups, over the keys and values of a dictionary. *)
FirstActive(order, values, role) ==
    LET match == Filter(order, {n \in Names : values[n].role = role /\ values[n].active})
    IN  IF match = <<>> THEN NoModel ELSE Head(match)

\* get_reward_model and get_teacher_model.
RoleModel(role) == FirstActive(cached, model, role)

\* get_agent_model: the model of the assignment, NoModel for the default.
ModelOf(a, names, assignments) ==
    IF assignments[a] \in names THEN assignments[a] ELSE NoModel
AgentModel(a) == ModelOf(a, Cached, assigned)

----------------------------------------------------------------------------
(* The operations. *)
Removed(order, n) == Filter(order, Names \ {n})

\* POST /api/v1/models: a model that is registered again becomes active again.
Register(n, role) ==
    LET entry == [role |-> role, active |-> TRUE]
    IN  /\ rows' = Append(Removed(rows, n), n)
        /\ row' = [row EXCEPT ![n] = entry]
        /\ cached' = IF n \in Cached THEN cached ELSE Append(cached, n)
        /\ model' = [model EXCEPT ![n] = entry]
        /\ moved' = IF n \in Cached THEN moved \cup {n} ELSE moved
        /\ unsaved' = unsaved \ {n}
        /\ UNCHANGED <<assigned, assignedRow, loaded>>

Without(assignments, n) ==
    [a \in Agents |-> IF assignments[a] = n THEN NoModel ELSE assignments[a]]

\* DELETE /api/v1/models/{name}: 404 for a name that is not in memory.
Unregister(n) ==
    /\ n \in Cached
    /\ rows' = Removed(rows, n)
    /\ row' = [row EXCEPT ![n] = Absent]
    /\ assignedRow' = Without(assignedRow, n)
    /\ cached' = Removed(cached, n)
    /\ model' = [model EXCEPT ![n] = Absent]
    /\ assigned' = Without(assigned, n)
    /\ unsaved' = unsaved \ {n} /\ moved' = moved \ {n}
    /\ UNCHANGED loaded

\* Mutant: the flag is saved with INSERT OR REPLACE.
SetActiveReplaces(n, active) ==
    /\ n \in Cached
    /\ model' = [model EXCEPT ![n].active = active]
    /\ row' = [row EXCEPT ![n].active = active]
    /\ rows' = Append(Removed(rows, n), n)
    /\ unsaved' = unsaved \ {n}
    /\ UNCHANGED <<cached, assigned, assignedRow, moved, loaded>>

\* PATCH /api/v1/models/{name}/active.
SetActive(n, active) ==
    /\ n \in Cached
    /\ model' = [model EXCEPT ![n].active = active]
    /\ row' = [row EXCEPT ![n].active = active]
    /\ unsaved' = unsaved \ {n}
    /\ UNCHANGED <<cached, assigned, rows, assignedRow, moved, loaded>>

\* The same, when the UPDATE fails: the flag in memory is set by then.
SetActiveFails(n, active) ==
    /\ n \in Cached
    /\ model' = [model EXCEPT ![n].active = active]
    /\ unsaved' = unsaved \cup {n}
    /\ UNCHANGED <<cached, assigned, tables, moved, loaded>>

\* POST /api/v1/models/assignments: 404 for a name that is not in memory.
AssignModel(a, n) ==
    /\ n \in Cached
    /\ assignedRow' = [assignedRow EXCEPT ![a] = n]
    /\ assigned' = [assigned EXCEPT ![a] = n]
    /\ UNCHANGED <<cached, model, rows, row, history>>

\* DELETE /api/v1/models/assignments/{agent}: 404 without an assignment in memory.
UnassignModel(a) ==
    /\ assigned[a] # NoModel
    /\ assignedRow' = [assignedRow EXCEPT ![a] = NoModel]
    /\ assigned' = [assigned EXCEPT ![a] = NoModel]
    /\ UNCHANGED <<cached, model, rows, row, history>>

----------------------------------------------------------------------------
(* The start of the process. *)
\* SELECT * FROM custom_models WHERE active = 1.
Loadable == Filter(rows, {n \in Names : row[n].active})

Values(order) == [n \in Names |-> IF n \in Elements(order) THEN row[n] ELSE Absent]

LoadModels(order) ==
    /\ cached' = order
    /\ model' = Values(order)
    /\ unsaved' = {} /\ moved' = {}
    /\ UNCHANGED tables

\* __init__ and _load_from_db.
LoadFromDb ==
    /\ LoadModels(Loadable)
    /\ assigned' = assignedRow
    /\ loaded' = TRUE

\* The same, when one of the two queries raises: what was read before it stays.
LoadFromDbFails ==
    /\ \E order \in {<<>>, Loadable} : LoadModels(order)
    /\ assigned' = [a \in Agents |-> NoModel]
    /\ loaded' = FALSE

RegistryOperation ==
    \/ \E n \in Names, r \in Roles : Register(n, r)
    \/ \E n \in Names : Unregister(n)
    \/ \E n \in Names, active \in BOOLEAN : SetActive(n, active) \/ SetActiveFails(n, active)
    \/ \E a \in Agents, n \in Names : AssignModel(a, n)
    \/ \E a \in Agents : UnassignModel(a)

StartRegistry == LoadFromDb \/ LoadFromDbFails

RegistryNext == RegistryOperation \/ StartRegistry

RegistrySpec == RegistryInit /\ [][RegistryNext]_registryVars

----------------------------------------------------------------------------
(* A start changes no look-up: the agents whose model is active keep it,   *)
(* and each role keeps its model, unless a flag is unsaved, the last load  *)
(* failed, or a model was registered again and so lost its place.          *)
RestartKeepsModelsInUse ==
    loaded /\ unsaved = {} =>
        /\ \A a \in Agents :
               AgentModel(a) # NoModel /\ model[AgentModel(a)].active =>
                   ModelOf(a, Elements(Loadable), assignedRow) = AgentModel(a)
        /\ moved = {} => \A r \in Roles : FirstActive(Loadable, row, r) = RoleModel(r)

=============================================================================
