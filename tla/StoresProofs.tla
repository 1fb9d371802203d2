----------------------------- MODULE StoresProofs -----------------------------
(***************************************************************************)
(* Proofs about what a process keeps in tables - the registry of models,   *)
(* the memory store, the memory of the brain, the thoughts - and about the *)
(* task queue of the brain: for any names, entries, topics, prompts,       *)
(* engines, workers and tasks, and for any number of faults.               *)
(***************************************************************************)
EXTENDS Stores, BrainQueue, FilterTheorems, TLAPS

----------------------------------------------------------------------------
(***************************************************************************)
(* The registry of models.                                                 *)
(***************************************************************************)

(* The invariant: what the dictionaries have is in the tables, and the     *)
(* same but for unsaved flags; ...                                         *)
SavedOK ==
    /\ Cached \subseteq Rows
    /\ \A n \in Cached : /\ model[n].role = row[n].role
                         /\ n \notin unsaved => model[n].active = row[n].active

\* ... after a whole load, what the dictionaries lack is inactive; ...
LoadedOK ==
    loaded => /\ \A n \in Rows \ Cached : ~row[n].active
              /\ assigned = assignedRow

\* ... and but for what was moved the order is that of the table.
OrderOK == Filter(cached, Names \ moved) = Filter(rows, Cached \ moved)

RegistryIInv == RegistryTypeOK /\ SavedOK /\ LoadedOK /\ OrderOK

----------------------------------------------------------------------------
LEMMA RemovedProperties ==
    ASSUME NEW names \in Seq(Names), Injective(names), NEW n \in Names
    PROVE  /\ Removed(names, n) \in Seq(Names) /\ Injective(Removed(names, n))
           /\ Elements(Removed(names, n)) = Elements(names) \ {n}
           /\ \A keep : Filter(Removed(names, n), keep) = Filter(names, keep \ {n})
<1>1. Elements(names) \subseteq Names
  BY DEF Elements
<1>2. /\ Removed(names, n) \in Seq(Names) /\ Injective(Removed(names, n))
      /\ Elements(Removed(names, n)) = Elements(names) \cap (Names \ {n})
  BY FilterProperties, FilterInjective DEF Removed
<1>3. ASSUME NEW keep
      PROVE  Filter(Removed(names, n), keep) = Filter(names, keep \ {n})
  <2>1. Filter(Removed(names, n), keep) = Filter(names, (Names \ {n}) \cap keep)
    BY FilterTwice DEF Removed
  <2>2. ((Names \ {n}) \cap keep) \cap Elements(names) = (keep \ {n}) \cap Elements(names)
    BY <1>1
  <2> QED BY <2>1, <2>2, FilterSame
<1> QED BY <1>1, <1>2, <1>3

LEMMA MovedProperties ==
    ASSUME NEW names \in Seq(Names), Injective(names), NEW n \in Names
    PROVE  LET t == Append(Removed(names, n), n)
           IN  /\ t \in Seq(Names) /\ Injective(t) /\ Elements(t) = Elements(names) \cup {n}
               /\ \A keep : Filter(t, keep) =
                      IF n \in keep THEN Append(Filter(names, keep \ {n}), n)
                                    ELSE Filter(names, keep)
BY FilterMoved DEF Removed

LEMMA InitRegistry == RegistryInit => RegistryIInv
<1> SUFFICES ASSUME RegistryInit PROVE RegistryIInv
  OBVIOUS
<1>1. PICK none : none = <<>>
  OBVIOUS
<1>2. none \in Seq(Names) /\ Injective(none) /\ Elements(none) = {}
  BY <1>1 DEF Injective, Elements
<1>3. /\ cached = none /\ rows = none /\ model = [n \in Names |-> Absent] /\ row = model
      /\ assigned = [a \in Agents |-> NoModel] /\ assignedRow = assigned
      /\ unsaved = {} /\ moved = {} /\ loaded = TRUE
  BY <1>1 DEF RegistryInit
<1>4. RegistryTypeOK
  BY <1>2, <1>3 DEF RegistryTypeOK, Cached, Rows
<1>5. SavedOK /\ LoadedOK
  BY <1>2, <1>3 DEF SavedOK, LoadedOK, Cached, Rows
<1>6. OrderOK
  BY <1>1, <1>3, FilterEmpty DEF OrderOK
<1> QED BY <1>4, <1>5, <1>6 DEF RegistryIInv

\* Registering a model, new or known.
LEMMA RegisterKeeps ==
    ASSUME RegistryIInv, NEW n \in Names, NEW r \in Roles, Register(n, r)
    PROVE  RegistryIInv'
<1> DEFINE chosen == [role |-> r, active |-> TRUE]
<1>0. /\ cached \in Seq(Names) /\ Injective(cached) /\ rows \in Seq(Names) /\ Injective(rows)
      /\ moved \subseteq Cached /\ unsaved \subseteq Cached
      /\ model \in [Names -> CustomModel \cup {Absent}]
      /\ row \in [Names -> CustomModel \cup {Absent}]
  BY DEF RegistryIInv, RegistryTypeOK
<1>a. Cached \subseteq Names /\ Rows \subseteq Names
  BY <1>0 DEF Cached, Rows, Elements
<1>1. /\ rows' \in Seq(Names) /\ Injective(rows') /\ Rows' = Rows \cup {n}
      /\ \A keep : Filter(rows', keep) =
             IF n \in keep THEN Append(Filter(rows, keep \ {n}), n) ELSE Filter(rows, keep)
  BY <1>0, MovedProperties DEF Register, Rows
<1>2. cached' \in Seq(Names) /\ Injective(cached') /\ Cached' = Cached \cup {n}
  <2>1. CASE n \in Cached
    BY <1>0, <2>1 DEF Register, Cached
  <2>2. CASE n \notin Cached
    <3>1. cached' = Append(cached, n)
      BY <2>2 DEF Register
    <3>2. Injective(Append(cached, n)) /\ Elements(Append(cached, n)) = Elements(cached) \cup {n}
      BY <1>0, <2>2, InjectiveAppend, AppendElements DEF Cached
    <3>3. Append(cached, n) \in Seq(Names)
      BY <1>0
    <3> QED BY <3>1, <3>2, <3>3 DEF Cached
  <2> QED BY <2>1, <2>2
<1>3. /\ chosen \in CustomModel /\ chosen # Absent
      /\ model' = [model EXCEPT ![n] = chosen] /\ row' = [row EXCEPT ![n] = chosen]
  <2>1. chosen \in CustomModel
    BY DEF CustomModel
  <2>2. chosen # Absent
    BY RegistryAssumption DEF Absent
  <2> QED BY <2>1, <2>2 DEF Register
<1>4. /\ moved' = IF n \in Cached THEN moved \cup {n} ELSE moved
      /\ unsaved' = unsaved \ {n} /\ loaded' = loaded
      /\ assigned' = assigned /\ assignedRow' = assignedRow
  BY DEF Register
<1> HIDE DEF chosen
<1>5. RegistryTypeOK'
  <2>1. /\ model' \in [Names -> CustomModel \cup {Absent}]
        /\ row' \in [Names -> CustomModel \cup {Absent}]
    BY <1>0, <1>3
  <2>2. \A k \in Names : k \in Cached' <=> model'[k] # Absent
    BY <1>0, <1>2, <1>3 DEF RegistryIInv, RegistryTypeOK
  <2>3. \A k \in Names : k \in Rows' <=> row'[k] # Absent
    BY <1>0, <1>1, <1>3 DEF RegistryIInv, RegistryTypeOK
  <2>4. unsaved' \subseteq Cached' /\ moved' \subseteq Cached'
    BY <1>0, <1>2, <1>4
  <2>5. /\ assigned' \in [Agents -> Names \cup {NoModel}] /\ loaded' \in BOOLEAN
        /\ assignedRow' \in [Agents -> Names \cup {NoModel}]
    BY <1>4 DEF RegistryIInv, RegistryTypeOK
  <2> QED BY <1>1, <1>2, <2>1, <2>2, <2>3, <2>4, <2>5 DEF RegistryTypeOK
<1>6. SavedOK'
  <2>1. Cached' \subseteq Rows'
    BY <1>1, <1>2 DEF RegistryIInv, SavedOK
  <2>2. ASSUME NEW k \in Cached'
        PROVE  /\ model'[k].role = row'[k].role
               /\ k \notin unsaved' => model'[k].active = row'[k].active
    <3>1. CASE k = n
      BY <1>0, <1>3, <3>1
    <3>2. CASE k # n
      <4>1. k \in Cached /\ model'[k] = model[k] /\ row'[k] = row[k] /\ k \in Names
        BY <1>0, <1>a, <1>2, <1>3, <3>2
      <4> QED BY <1>4, <3>2, <4>1 DEF RegistryIInv, SavedOK
    <3> QED BY <3>1, <3>2
  <2> QED BY <2>1, <2>2 DEF SavedOK
<1>7. LoadedOK'
  <2>1. ASSUME loaded, NEW k \in Rows' \ Cached' PROVE ~row'[k].active
    <3>1. k \in Rows \ Cached /\ k # n /\ row'[k] = row[k]
      BY <1>0, <1>a, <1>1, <1>2, <1>3, <2>1
    <3> QED BY <2>1, <3>1 DEF RegistryIInv, LoadedOK
  <2> QED BY <1>4, <2>1 DEF RegistryIInv, LoadedOK
<1>8. OrderOK'
  <2>1. Filter(cached, Names \ moved) = Filter(rows, Cached \ moved)
    BY DEF RegistryIInv, OrderOK
  <2>2. CASE n \in Cached
    <3>1. cached' = cached /\ Cached' = Cached /\ moved' = moved \cup {n}
      BY <1>2, <1>4, <2>2 DEF Register
    <3>2. Filter(Filter(cached, Names \ moved), Names \ {n})
              = Filter(cached, (Names \ moved) \cap (Names \ {n}))
      BY <1>0, FilterTwice
    <3>3. Filter(Filter(rows, Cached \ moved), Names \ {n})
              = Filter(rows, (Cached \ moved) \cap (Names \ {n}))
      BY <1>0, FilterTwice
    <3>4. /\ (Names \ moved) \cap (Names \ {n}) = Names \ moved'
          /\ (Cached \ moved) \cap (Names \ {n}) = Cached' \ moved'
      BY <1>a, <3>1
    <3>5. Filter(rows', Cached' \ moved') = Filter(rows, Cached' \ moved')
      BY <1>1, <3>1
    <3> QED BY <2>1, <3>1, <3>2, <3>3, <3>4, <3>5 DEF OrderOK
  <2>3. CASE n \notin Cached
    <3>1. cached' = Append(cached, n) /\ moved' = moved /\ n \notin moved
      BY <1>0, <1>4, <2>3 DEF Register
    <3>2. Filter(cached', Names \ moved') = Append(Filter(cached, Names \ moved), n)
      BY <1>0, <3>1, FilterAppend
    <3>3. n \in Cached' \ moved' /\ (Cached' \ moved') \ {n} = Cached \ moved
      BY <1>2, <2>3, <3>1
    <3>4. Filter(rows', Cached' \ moved') = Append(Filter(rows, Cached \ moved), n)
      BY <1>1, <3>3
    <3> QED BY <2>1, <3>2, <3>4 DEF OrderOK
  <2> QED BY <2>2, <2>3
<1> QED BY <1>5, <1>6, <1>7, <1>8 DEF RegistryIInv

LEMMA UnregisterKeeps ==
    ASSUME RegistryIInv, NEW n \in Names, Unregister(n)
    PROVE  RegistryIInv'
<1>0. /\ cached \in Seq(Names) /\ Injective(cached) /\ rows \in Seq(Names) /\ Injective(rows)
      /\ moved \subseteq Cached /\ unsaved \subseteq Cached
      /\ model \in [Names -> CustomModel \cup {Absent}]
      /\ row \in [Names -> CustomModel \cup {Absent}]
  BY DEF RegistryIInv, RegistryTypeOK
<1>a. Cached \subseteq Names /\ Rows \subseteq Names
  BY <1>0 DEF Cached, Rows, Elements
<1>1. /\ rows' \in Seq(Names) /\ Injective(rows') /\ Rows' = Rows \ {n}
      /\ \A keep : Filter(rows', keep) = Filter(rows, keep \ {n})
  BY <1>0, RemovedProperties DEF Unregister, Rows
<1>2. /\ cached' \in Seq(Names) /\ Injective(cached') /\ Cached' = Cached \ {n}
      /\ \A keep : Filter(cached', keep) = Filter(cached, keep \ {n})
  BY <1>0, RemovedProperties DEF Unregister, Cached
<1>3. /\ model' = [model EXCEPT ![n] = Absent] /\ row' = [row EXCEPT ![n] = Absent]
      /\ moved' = moved \ {n} /\ unsaved' = unsaved \ {n} /\ loaded' = loaded
      /\ assigned' = Without(assigned, n) /\ assignedRow' = Without(assignedRow, n)
  BY DEF Unregister
<1>4. RegistryTypeOK'
  <2>1. /\ model' \in [Names -> CustomModel \cup {Absent}]
        /\ row' \in [Names -> CustomModel \cup {Absent}]
    BY <1>0, <1>3
  <2>2. \A k \in Names : k \in Cached' <=> model'[k] # Absent
    BY <1>0, <1>2, <1>3 DEF RegistryIInv, RegistryTypeOK
  <2>3. \A k \in Names : k \in Rows' <=> row'[k] # Absent
    BY <1>0, <1>1, <1>3 DEF RegistryIInv, RegistryTypeOK
  <2>4. unsaved' \subseteq Cached' /\ moved' \subseteq Cached' /\ loaded' \in BOOLEAN
    BY <1>0, <1>2, <1>3 DEF RegistryIInv, RegistryTypeOK
  <2>5. /\ assigned' \in [Agents -> Names \cup {NoModel}]
        /\ assignedRow' \in [Agents -> Names \cup {NoModel}]
    BY <1>3 DEF RegistryIInv, RegistryTypeOK, Without
  <2> QED BY <1>1, <1>2, <2>1, <2>2, <2>3, <2>4, <2>5 DEF RegistryTypeOK
<1>5. SavedOK'
  <2>1. ASSUME NEW k \in Cached'
        PROVE  /\ model'[k].role = row'[k].role
               /\ k \notin unsaved' => model'[k].active = row'[k].active
    <3>1. k \in Cached /\ model'[k] = model[k] /\ row'[k] = row[k] /\ k # n
      BY <1>0, <1>a, <1>2, <1>3
    <3> QED BY <1>3, <3>1 DEF RegistryIInv, SavedOK
  <2> QED BY <1>1, <1>2, <2>1 DEF RegistryIInv, SavedOK
<1>6. LoadedOK'
  <2>1. ASSUME loaded, NEW k \in Rows' \ Cached' PROVE ~row'[k].active
    <3>1. k \in Rows \ Cached /\ k # n /\ row'[k] = row[k]
      BY <1>0, <1>a, <1>1, <1>2, <1>3, <2>1
    <3> QED BY <2>1, <3>1 DEF RegistryIInv, LoadedOK
  <2> QED BY <1>3, <2>1 DEF RegistryIInv, LoadedOK
<1>7. OrderOK'
  <2>1. Filter(cached, Names \ moved) = Filter(rows, Cached \ moved)
    BY DEF RegistryIInv, OrderOK
  <2>2. Filter(Filter(cached, Names \ moved), Names \ {n})
            = Filter(cached, (Names \ moved) \cap (Names \ {n}))
    BY <1>0, FilterTwice
  <2>3. Filter(Filter(rows, Cached \ moved), Names \ {n})
            = Filter(rows, (Cached \ moved) \cap (Names \ {n}))
    BY <1>0, FilterTwice
  <2>4. /\ (Names \ moved) \cap (Names \ {n}) = (Names \ moved') \ {n}
        /\ (Cached \ moved) \cap (Names \ {n}) = (Cached' \ moved') \ {n}
    BY <1>a, <1>2, <1>3
  <2> QED BY <1>1, <1>2, <2>1, <2>2, <2>3, <2>4 DEF OrderOK
<1> QED BY <1>4, <1>5, <1>6, <1>7 DEF RegistryIInv

\* The flag of a model in memory, saved or not.
LEMMA SetActiveKeeps ==
    ASSUME RegistryIInv, NEW n \in Names, NEW active \in BOOLEAN,
           SetActive(n, active) \/ SetActiveFails(n, active)
    PROVE  RegistryIInv'
<1>0. /\ cached \in Seq(Names) /\ rows \in Seq(Names)
      /\ model \in [Names -> CustomModel \cup {Absent}]
      /\ row \in [Names -> CustomModel \cup {Absent}]
      /\ \A k \in Names : k \in Cached <=> model[k] # Absent
      /\ \A k \in Names : k \in Rows <=> row[k] # Absent
  BY DEF RegistryIInv, RegistryTypeOK
<1>a. Cached \subseteq Names /\ Rows \subseteq Names /\ Cached \subseteq Rows
  <2>1. Cached \subseteq Names /\ Rows \subseteq Names
    BY <1>0 DEF Cached, Rows, Elements
  <2> QED BY <2>1 DEF RegistryIInv, SavedOK
<1>1. /\ n \in Cached /\ model' = [model EXCEPT ![n].active = active]
      /\ \/ row' = [row EXCEPT ![n].active = active] /\ unsaved' = unsaved \ {n}
         \/ row' = row /\ unsaved' = unsaved \cup {n}
      /\ cached' = cached /\ rows' = rows /\ moved' = moved /\ loaded' = loaded
      /\ assigned' = assigned /\ assignedRow' = assignedRow
  BY DEF SetActive, SetActiveFails, tables
<1>2. Cached' = Cached /\ Rows' = Rows
  BY <1>1 DEF Cached, Rows
<1>3. ASSUME NEW e \in CustomModel
      PROVE  /\ [e EXCEPT !.active = active] \in CustomModel
             /\ [e EXCEPT !.active = active] # Absent
             /\ [e EXCEPT !.active = active].role = e.role
             /\ [e EXCEPT !.active = active].active = active
  BY RegistryAssumption DEF CustomModel, Absent
<1>4. /\ model[n] \in CustomModel /\ row[n] \in CustomModel
      /\ model'[n] = [model[n] EXCEPT !.active = active]
      /\ \A k \in Names \ {n} : model'[k] = model[k] /\ row'[k] = row[k]
      /\ \/ row'[n] = [row[n] EXCEPT !.active = active] /\ unsaved' = unsaved \ {n}
         \/ row'[n] = row[n] /\ unsaved' = unsaved \cup {n}
      /\ DOMAIN model' = Names /\ DOMAIN row' = Names
  BY <1>0, <1>a, <1>1
<1>5. model'[n] \in CustomModel /\ model'[n] # Absent /\ model'[n].role = model[n].role
      /\ model'[n].active = active
  BY <1>3, <1>4
<1>6. row'[n] \in CustomModel /\ row'[n] # Absent /\ row'[n].role = row[n].role
  <2>1. row[n] # Absent
    BY <1>0, <1>a, <1>1
  <2>2. CASE row'[n] = [row[n] EXCEPT !.active = active]
    BY <1>3, <1>4, <2>2
  <2>3. CASE row'[n] = row[n]
    BY <1>4, <2>1, <2>3
  <2> QED BY <1>4, <2>2, <2>3
<1>7. n \notin unsaved' => row'[n].active = active
  BY <1>3, <1>4
<1>8. RegistryTypeOK'
  <2>1. /\ model' \in [Names -> CustomModel \cup {Absent}]
        /\ row' \in [Names -> CustomModel \cup {Absent}]
    <3>1. model' = [k \in Names |-> model'[k]] /\ row' = [k \in Names |-> row'[k]]
      BY <1>0, <1>1
    <3>2. \A k \in Names : /\ model'[k] \in CustomModel \cup {Absent}
                           /\ row'[k] \in CustomModel \cup {Absent}
      BY <1>0, <1>4, <1>5, <1>6
    <3> QED BY <3>1, <3>2
  <2>2. \A k \in Names : /\ k \in Cached' <=> model'[k] # Absent
                         /\ k \in Rows' <=> row'[k] # Absent
    BY <1>0, <1>a, <1>1, <1>2, <1>4, <1>5, <1>6
  <2>3. unsaved' \subseteq Cached'
    BY <1>1, <1>2 DEF RegistryIInv, RegistryTypeOK
  <2> QED BY <1>1, <1>2, <2>1, <2>2, <2>3 DEF RegistryIInv, RegistryTypeOK
<1>9. SavedOK'
  <2>1. ASSUME NEW k \in Cached'
        PROVE  /\ model'[k].role = row'[k].role
               /\ k \notin unsaved' => model'[k].active = row'[k].active
    <3>1. CASE k = n
      BY <1>1, <1>5, <1>6, <1>7, <3>1 DEF RegistryIInv, SavedOK
    <3>2. CASE k # n
      <4>1. k \in Cached /\ model'[k] = model[k] /\ row'[k] = row[k]
        BY <1>a, <1>2, <1>4, <3>2
      <4> QED BY <1>1, <3>2, <4>1 DEF RegistryIInv, SavedOK
    <3> QED BY <3>1, <3>2
  <2> QED BY <1>a, <1>2, <2>1 DEF SavedOK
<1>10. LoadedOK'
  <2>1. ASSUME loaded, NEW k \in Rows' \ Cached' PROVE ~row'[k].active
    <3>1. k \in Rows \ Cached /\ row'[k] = row[k]
      BY <1>a, <1>1, <1>2, <1>4, <2>1
    <3> QED BY <2>1, <3>1 DEF RegistryIInv, LoadedOK
  <2> QED BY <1>1, <2>1 DEF RegistryIInv, LoadedOK
<1>11. OrderOK'
  BY <1>1, <1>2 DEF RegistryIInv, OrderOK
<1> QED BY <1>8, <1>9, <1>10, <1>11 DEF RegistryIInv

LEMMA AssignKeeps ==
    ASSUME RegistryIInv, NEW a \in Agents,
           UnassignModel(a) \/ \E n \in Names : AssignModel(a, n)
    PROVE  RegistryIInv'
<1>1. /\ cached' = cached /\ model' = model /\ rows' = rows /\ row' = row
      /\ unsaved' = unsaved /\ moved' = moved /\ loaded' = loaded
  BY DEF AssignModel, UnassignModel, history
<1>2. PICK m \in Names \cup {NoModel} :
          assigned' = [assigned EXCEPT ![a] = m] /\ assignedRow' = [assignedRow EXCEPT ![a] = m]
  BY DEF AssignModel, UnassignModel
<1>3. Cached' = Cached /\ Rows' = Rows
  BY <1>1 DEF Cached, Rows
<1>4. RegistryTypeOK'
  <2>1. /\ assigned' \in [Agents -> Names \cup {NoModel}]
        /\ assignedRow' \in [Agents -> Names \cup {NoModel}]
    BY <1>2 DEF RegistryIInv, RegistryTypeOK
  <2> QED BY <1>1, <1>3, <2>1 DEF RegistryIInv, RegistryTypeOK
<1>5. SavedOK' /\ OrderOK'
  BY <1>1, <1>3 DEF RegistryIInv, SavedOK, OrderOK
<1>6. LoadedOK'
  BY <1>1, <1>2, <1>3 DEF RegistryIInv, LoadedOK
<1> QED BY <1>4, <1>5, <1>6 DEF RegistryIInv

\* The rows that are loaded: the active ones, in their order.
LEMMA LoadableRows ==
    ASSUME RegistryTypeOK
    PROVE  /\ Loadable \in Seq(Names) /\ Injective(Loadable)
           /\ Elements(Loadable) = {n \in Rows : row[n].active}
           /\ Filter(rows, Elements(Loadable)) = Loadable
<1> DEFINE A == {n \in Names : row[n].active}
<1>1. rows \in Seq(Names) /\ Injective(rows) /\ Elements(rows) \subseteq Names
  BY DEF RegistryTypeOK, Elements
<1>2. /\ Loadable \in Seq(Names) /\ Injective(Loadable)
      /\ Elements(Loadable) = Elements(rows) \cap A
  BY <1>1, FilterProperties, FilterInjective DEF Loadable
<1>3. (Elements(rows) \cap A) \cap Elements(rows) = A \cap Elements(rows)
  OBVIOUS
<1>4. Filter(rows, Elements(rows) \cap A) = Loadable
  <2> HIDE DEF A
  <2>1. Filter(rows, Elements(rows) \cap A) = Filter(rows, A)
    BY <1>1, <1>3, FilterSame
  <2> QED BY <2>1 DEF Loadable, A
<1> QED BY <1>1, <1>2, <1>4 DEF Rows

\* The start of a process, whole or broken off.
LEMMA StartKeeps ==
    ASSUME RegistryIInv, StartRegistry
    PROVE  RegistryIInv'
<1>0. /\ rows \in Seq(Names) /\ row \in [Names -> CustomModel \cup {Absent}]
      /\ \A n \in Names : n \in Rows <=> row[n] # Absent
      /\ assignedRow \in [Agents -> Names \cup {NoModel}] /\ RegistryTypeOK
  BY DEF RegistryIInv, RegistryTypeOK
<1>1. /\ rows' = rows /\ row' = row /\ assignedRow' = assignedRow
      /\ unsaved' = {} /\ moved' = {}
      /\ \/ assigned' = assignedRow \/ assigned' = [a \in Agents |-> NoModel]
      /\ loaded' \in BOOLEAN
      /\ loaded' => assigned' = assignedRow /\ cached' = Loadable
  BY DEF StartRegistry, LoadFromDb, LoadFromDbFails, LoadModels, tables
<1>2. PICK names \in {<<>>, Loadable} : cached' = names /\ model' = Values(names)
  BY DEF StartRegistry, LoadFromDb, LoadFromDbFails, LoadModels
<1>3. /\ names \in Seq(Names) /\ Injective(names) /\ Elements(names) \subseteq Rows
      /\ Filter(rows, Elements(names)) = names
  <2>1. CASE names = Loadable
    BY <1>0, <2>1, LoadableRows
  <2>2. CASE names = <<>>
    <3>1. names \in Seq(Names) /\ Injective(names) /\ Elements(names) = {}
      BY <2>2 DEF Injective, Elements
    <3>2. Filter(rows, {}) = <<>>
      BY <1>0, FilterNone
    <3> QED BY <2>2, <3>1, <3>2
  <2> QED BY <2>1, <2>2
<1>4. Cached' = Elements(names) /\ Rows' = Rows /\ Rows \subseteq Names
  BY <1>0, <1>1, <1>2 DEF Cached, Rows, Elements
<1>5. model' = [n \in Names |-> IF n \in Cached' THEN row[n] ELSE Absent]
  BY <1>2, <1>4 DEF Values
<1>6. RegistryTypeOK'
  <2>1. model' \in [Names -> CustomModel \cup {Absent}]
    BY <1>0, <1>5 DEF Values
  <2>2. \A n \in Names : n \in Cached' <=> model'[n] # Absent
    BY <1>0, <1>3, <1>4, <1>5
  <2>3. assigned' \in [Agents -> Names \cup {NoModel}]
    BY <1>0, <1>1
  <2> QED BY <1>0, <1>1, <1>2, <1>3, <1>4, <2>1, <2>2, <2>3 DEF RegistryTypeOK
<1>7. SavedOK'
  BY <1>1, <1>3, <1>4, <1>5 DEF SavedOK
<1>8. LoadedOK'
  <2>1. ASSUME loaded', NEW n \in Rows' \ Cached' PROVE ~row'[n].active
    <3>1. Cached' = Elements(Loadable)
      BY <1>1, <2>1 DEF Cached
    <3> QED BY <1>0, <1>1, <1>4, <2>1, <3>1, LoadableRows
  <2> QED BY <1>1, <2>1 DEF LoadedOK
<1>9. OrderOK'
  <2>1. Names \ moved' = Names /\ Cached' \ moved' = Elements(names)
    BY <1>1, <1>4
  <2>2. Filter(names, Names) = names
    BY <1>3, <1>4, FilterAll
  <2> QED BY <1>1, <1>2, <1>3, <2>1, <2>2 DEF OrderOK
<1> QED BY <1>6, <1>7, <1>8, <1>9 DEF RegistryIInv

LEMMA NextRegistry == RegistryIInv /\ [RegistryNext]_registryVars => RegistryIInv'
<1> SUFFICES ASSUME RegistryIInv, [RegistryNext]_registryVars PROVE RegistryIInv'
  OBVIOUS
<1>1. CASE RegistryOperation
  BY <1>1, RegisterKeeps, UnregisterKeeps, SetActiveKeeps, AssignKeeps DEF RegistryOperation
<1>2. CASE StartRegistry
  BY <1>2, StartKeeps
<1>3. CASE UNCHANGED registryVars
  <2>1. /\ cached' = cached /\ model' = model /\ rows' = rows /\ row' = row
        /\ unsaved' = unsaved /\ moved' = moved /\ loaded' = loaded
        /\ assigned' = assigned /\ assignedRow' = assignedRow
    BY <1>3 DEF registryVars, dicts, tables, history
  <2>2. Cached' = Cached /\ Rows' = Rows
    BY <2>1 DEF Cached, Rows
  <2> QED BY <2>1, <2>2 DEF RegistryIInv, RegistryTypeOK, SavedOK, LoadedOK, OrderOK
<1> QED BY <1>1, <1>2, <1>3 DEF RegistryNext

\* Why a start changes no look-up.
LEMMA StartChangesNoLookUp == RegistryIInv => RestartKeepsModelsInUse
<1> SUFFICES ASSUME RegistryIInv, loaded, unsaved = {} PROVE RestartKeepsModelsInUse
  BY DEF RestartKeepsModelsInUse
<1>0. /\ cached \in Seq(Names) /\ rows \in Seq(Names) /\ RegistryTypeOK
      /\ model \in [Names -> CustomModel \cup {Absent}]
      /\ row \in [Names -> CustomModel \cup {Absent}]
      /\ assigned = assignedRow /\ \A n \in Rows \ Cached : ~row[n].active
  BY DEF RegistryIInv, RegistryTypeOK, LoadedOK
<1>1. Cached \subseteq Rows
      /\ \A n \in Cached : model[n].role = row[n].role /\ model[n].active = row[n].active
  BY DEF RegistryIInv, SavedOK
<1>2. Cached \subseteq Names /\ Rows \subseteq Names
  BY <1>0 DEF Cached, Rows, Elements
<1>3. ASSUME NEW a \in Agents, AgentModel(a) # NoModel, model[AgentModel(a)].active
      PROVE  ModelOf(a, Elements(Loadable), assignedRow) = AgentModel(a)
  <2>1. AgentModel(a) = assigned[a] /\ assigned[a] \in Cached
    BY <1>3 DEF AgentModel, ModelOf
  <2>2. assigned[a] \in Elements(Loadable)
    BY <1>0, <1>1, <1>3, <2>1, LoadableRows
  <2> QED BY <1>0, <2>1, <2>2 DEF ModelOf
<1>4. ASSUME moved = {}, NEW r \in Roles
      PROVE  FirstActive(Loadable, row, r) = RoleModel(r)
  <2> DEFINE A == {n \in Names : row[n].active}
             W == {n \in Names : row[n].role = r /\ row[n].active}
             M == {n \in Names : model[n].role = r /\ model[n].active}
  <2>1. cached = Filter(rows, Cached)
    <3>1. Filter(cached, Names \ moved) = Filter(rows, Cached \ moved)
      BY DEF RegistryIInv, OrderOK
    <3>2. Names \ moved = Names /\ Cached \ moved = Cached
      BY <1>4
    <3>3. Filter(cached, Names) = cached
      BY <1>0, <1>2, FilterAll DEF Cached
    <3> QED BY <3>1, <3>2, <3>3
  <2>2. Filter(Loadable, W) = Filter(rows, A \cap W)
    BY <1>0, FilterTwice DEF Loadable
  <2>3. Filter(cached, M) = Filter(rows, Cached \cap M)
    BY <1>0, <2>1, FilterTwice
  <2>4. (A \cap W) \cap Elements(rows) = (Cached \cap M) \cap Elements(rows)
    <3>1. (A \cap W) \cap Rows = (Cached \cap M) \cap Rows
      BY <1>0, <1>1, <1>2
    <3> QED BY <3>1 DEF Rows
  <2>5. Filter(rows, A \cap W) = Filter(rows, Cached \cap M)
    <3> HIDE DEF A, W, M
    <3> QED BY <1>0, <2>4, FilterSame
  <2>6. Filter(Loadable, W) = Filter(cached, M)
    BY <2>2, <2>3, <2>5
  <2> QED BY <2>6 DEF RoleModel, FirstActive
<1> QED BY <1>3, <1>4 DEF RestartKeepsModelsInUse

\* The inductive invariant of the registry.
THEOREM RegistryInvariant == RegistrySpec => []RegistryIInv
<1> QED BY InitRegistry, NextRegistry, PTL DEF RegistrySpec

\* The dictionaries and the tables keep their types, and hold each name once.
THEOREM RegistryTypeCorrect == RegistrySpec => []RegistryTypeOK
<1>1. RegistryIInv => RegistryTypeOK
  BY DEF RegistryIInv
<1> QED BY <1>1, RegistryInvariant, PTL

\* A start of the process (_load_from_db) changes no look-up: the agents whose model
\* is active keep it, and each role keeps its model, unless a flag is unsaved, the
\* last load failed, or a model was registered again and so lost its place.
THEOREM RestartKeeps == RegistrySpec => []RestartKeepsModelsInUse
<1> QED BY StartChangesNoLookUp, RegistryInvariant, PTL

----------------------------------------------------------------------------
(***************************************************************************)
(* The memory store.                                                       *)
(***************************************************************************)

(* The inductive invariant: what this process wrote and nobody edited has  *)
(* the embedding that the process would give its text now, if the library  *)
(* does not fail it.                                                       *)
WrittenOK ==
    \A e \in written : entry[e].embedding = ComputeEmbedding(entry[e].content, salt, encodes)

StoreInv == StoreTypeOK /\ WrittenOK

LEMMA StoredIsEntry ==
    ASSUME StoreTypeOK, NEW e \in Stored
    PROVE  /\ e \in Entries /\ entry[e] \in MemoryEntry
           /\ entry[e].kind \in Kinds /\ entry[e].content \in Texts
<1>1. e \in Entries
  BY DEF StoreTypeOK, Stored, Elements
<1>2. entry[e] \in MemoryEntry
  BY <1>1 DEF StoreTypeOK
<1> QED BY <1>1, <1>2 DEF MemoryEntry

LEMMA NoEntryIsNone ==
    NoEntry \notin MemoryEntry
<1> SUFFICES ASSUME NoEntry \in MemoryEntry PROVE FALSE
  OBVIOUS
<1>1. NoEntry.kind \in Kinds
  BY DEF MemoryEntry
<1>2. NoEntry.kind = "none"
  BY DEF NoEntry
<1> QED BY <1>1, <1>2 DEF Kinds

LEMMA EmbeddingIsVector ==
    ASSUME NEW c \in Texts, NEW s \in Salts, NEW encoded \in BOOLEAN
    PROVE  ComputeEmbedding(c, s, encoded) \in Vectors
BY DEF ComputeEmbedding, Vectors

LEMMA InitStoreInv ==
    ASSUME StoreInit PROVE StoreInv
<1>1. Len(<<>>) = 0 /\ <<>> \in Seq(Entries) /\ DOMAIN <<>> = {}
  OBVIOUS
<1>2. Stored = {} /\ Injective(order) /\ order \in Seq(Entries)
  BY <1>1 DEF StoreInit, Stored, Elements, Injective
<1>3. old = {order[i] : i \in 1 .. 0} /\ 0 \in 0 .. Len(order)
  BY <1>1 DEF StoreInit
<1>4. /\ salt \in Salts /\ encodes \in BOOLEAN /\ written \subseteq Stored
      /\ entry \in [Entries -> MemoryEntry \cup {NoEntry}]
      /\ \A e \in Entries : e \in Stored <=> entry[e] # NoEntry
  BY <1>2 DEF StoreInit
<1>5. StoreTypeOK
  BY <1>2, <1>3, <1>4 DEF StoreTypeOK
<1> QED BY <1>5 DEF StoreInv, WrittenOK, StoreInit

\* A new row is the last one.
LEMMA InsertKeeps ==
    ASSUME StoreTypeOK, NEW e \in Entries, NEW k \in Kinds, NEW c \in Texts, NEW v \in Vectors,
           Insert(e, k, c, v), UNCHANGED <<salt, encodes, old>>, written' \subseteq written \cup {e}
    PROVE  /\ StoreTypeOK' /\ e \notin written
           /\ entry'[e].content = c /\ entry'[e].embedding = v
           /\ \A x \in Entries \ {e} : entry'[x] = entry[x]
<1>1. /\ e \notin Stored /\ order' = Append(order, e)
      /\ entry' = [entry EXCEPT ![e] = [kind |-> k, content |-> c, embedding |-> v]]
  BY DEF Insert
<1>2. /\ order \in Seq(Entries) /\ Injective(order) /\ written \subseteq Stored
      /\ entry \in [Entries -> MemoryEntry \cup {NoEntry}]
      /\ \A x \in Entries : x \in Stored <=> entry[x] # NoEntry
  BY DEF StoreTypeOK
<1>3. order' \in Seq(Entries) /\ Injective(order') /\ Stored' = Stored \cup {e}
  BY <1>1, <1>2, AppendElements, InjectiveAppend DEF Stored
<1>4. /\ entry'[e] = [kind |-> k, content |-> c, embedding |-> v]
      /\ \A x \in Entries \ {e} : entry'[x] = entry[x]
  BY <1>1, <1>2
<1>5. entry'[e] \in MemoryEntry
  BY <1>4 DEF MemoryEntry
<1>6. entry' \in [Entries -> MemoryEntry \cup {NoEntry}]
  BY <1>1, <1>2, <1>4, <1>5
<1>7. \A x \in Entries : x \in Stored' <=> entry'[x] # NoEntry
  BY <1>2, <1>3, <1>4, <1>5, NoEntryIsNone
<1>8. \E n \in 0 .. Len(order') : old' = {order'[i] : i \in 1 .. n}
  <2>1. PICK n \in 0 .. Len(order) : old = {order[i] : i \in 1 .. n}
    BY DEF StoreTypeOK
  <2>2. n \in 0 .. Len(order') /\ \A i \in 1 .. n : order'[i] = order[i]
    BY <1>1, <1>2
  <2>3. {order[i] : i \in 1 .. n} = {order'[i] : i \in 1 .. n}
    BY <2>2
  <2> QED BY <2>1, <2>2, <2>3
<1>9. written' \subseteq Stored' /\ salt' \in Salts /\ encodes' \in BOOLEAN /\ e \notin written
  BY <1>1, <1>2, <1>3 DEF StoreTypeOK
<1>10. StoreTypeOK'
  BY <1>3, <1>6, <1>7, <1>8, <1>9 DEF StoreTypeOK
<1> QED BY <1>4, <1>9, <1>10

\* Deleting some rows leaves the others in their order.
LEMMA KeepKeeps ==
    ASSUME StoreTypeOK, NEW kept \in SUBSET Stored, Keep(kept),
           salt' \in Salts, encodes' \in BOOLEAN, written' \subseteq kept
    PROVE  StoreTypeOK' /\ \A x \in kept : entry'[x] = entry[x]
<1>1. /\ order' = Filter(order, kept)
      /\ entry' = [e \in Entries |-> IF e \in kept THEN entry[e] ELSE NoEntry]
      /\ old' = old \cap kept
  BY DEF Keep
<1>2. /\ order \in Seq(Entries) /\ Injective(order)
      /\ entry \in [Entries -> MemoryEntry \cup {NoEntry}]
      /\ \A x \in Entries : x \in Stored <=> entry[x] # NoEntry
  BY DEF StoreTypeOK
<1>3. order' \in Seq(Entries) /\ Injective(order') /\ Stored' = kept
  <2>1. /\ Filter(order, kept) \in Seq(Entries) /\ Injective(Filter(order, kept))
        /\ Elements(Filter(order, kept)) = Stored \cap kept
    BY <1>2, FilterProperties, FilterInjective DEF Stored
  <2>2. Stored' = Elements(order')
    BY DEF Stored
  <2> QED BY <1>1, <2>1, <2>2
<1>4. kept \subseteq Entries
  BY <1>2 DEF Stored, Elements
<1>5. /\ entry' \in [Entries -> MemoryEntry \cup {NoEntry}]
      /\ \A x \in kept : entry'[x] = entry[x]
      /\ \A x \in Entries : x \in Stored' <=> entry'[x] # NoEntry
  BY <1>1, <1>2, <1>3, <1>4
<1>6. \E n \in 0 .. Len(order') : old' = {order'[i] : i \in 1 .. n}
  <2>1. PICK n \in 0 .. Len(order) : old = {order[i] : i \in 1 .. n}
    BY DEF StoreTypeOK
  <2>2. PICK l \in Nat : l = Len(order)
    BY <1>2
  <2>3. PICK first, last : first = SubSeq(order, 1, n) /\ last = SubSeq(order, n + 1, l)
    OBVIOUS
  <2>4. /\ 1 \in 1 .. l + 1 /\ n \in 1 - 1 .. l /\ n + 1 \in 1 .. l + 1 /\ l \in (n + 1) - 1 .. l
        /\ l \in n .. l /\ n \in Int
    BY <2>1, <2>2
  <2>5. first \in Seq(Entries) /\ last \in Seq(Entries) /\ Len(first) = n
    BY <1>2, <2>2, <2>3, <2>4, PartElements
  <2>6. first \o last = order
    <3>1. first \o last = SubSeq(order, 1, l)
      BY <1>2, <2>2, <2>3, <2>4, ConcatAdjacentSubSeq
    <3> QED BY <1>2, <2>2, <3>1, SubSeqFull
  <2>7. order' = Filter(first, kept) \o Filter(last, kept)
    <3>1. Filter(first \o last, kept) = Filter(first, kept) \o Filter(last, kept)
      BY <2>5, FilterConcat
    <3> QED BY <1>1, <2>6, <3>1
  <2>8. PICK a, b : a = Filter(first, kept) /\ b = Filter(last, kept)
    OBVIOUS
  <2>9. a \in Seq(Entries) /\ b \in Seq(Entries) /\ Elements(a) = Elements(first) \cap kept
    BY <2>5, <2>8, FilterProperties
  <2>10. PICK m, k : m = Len(a) /\ k = Len(b) /\ m \in Nat /\ k \in Nat
    <3>1. Len(a) \in Nat /\ Len(b) \in Nat
      BY <2>9
    <3> QED BY <3>1
  <2>11. Len(order') = m + k /\ \A i \in 1 .. m : order'[i] = a[i]
    BY <2>7, <2>8, <2>9, <2>10, ConcatAt
  <2>12. Elements(first) = old
    <3>1. DOMAIN first = 1 .. n /\ \A i \in 1 .. n : first[i] = order[i]
      BY <1>2, <2>2, <2>3, <2>4, <2>5
    <3> QED BY <2>1, <3>1 DEF Elements
  <2>13. Elements(a) = {order'[i] : i \in 1 .. m}
    <3>1. DOMAIN a = 1 .. m
      BY <2>9, <2>10
    <3> QED BY <2>11, <3>1 DEF Elements
  <2>14. m \in 0 .. Len(order')
    BY <2>10, <2>11
  <2> QED BY <1>1, <2>9, <2>12, <2>13, <2>14
<1>7. written' \subseteq Stored'
  BY <1>3
<1>8. StoreTypeOK'
  BY <1>3, <1>5, <1>6, <1>7 DEF StoreTypeOK
<1> QED BY <1>5, <1>8

LEMMA NextStoreInv ==
    ASSUME StoreInv, [StoreOperation \/ StartStore]_storeVars
    PROVE  StoreInv'
<1> USE DEF StoreInv
<1>0. written \subseteq Stored /\ Stored \subseteq Entries /\ salt \in Salts /\ encodes \in BOOLEAN
  BY DEF StoreTypeOK, Stored, Elements
<1>1. ASSUME NEW e \in Entries, NEW k \in Kinds, NEW t \in Texts, NEW encoded \in BOOLEAN,
             StoreMemory(e, k, t, encoded)
      PROVE  StoreInv'
  <2>0. PICK v \in Vectors : v = ComputeEmbedding(t, salt, encoded)
    BY <1>0, EmbeddingIsVector
  <2>1. /\ Insert(e, k, t, v) /\ UNCHANGED <<salt, encodes, old>>
        /\ written' = IF encoded = encodes THEN written \cup {e} ELSE written
    BY <1>1, <2>0 DEF StoreMemory
  <2>2. /\ StoreTypeOK' /\ e \notin written
        /\ entry'[e].content = t /\ entry'[e].embedding = v
        /\ \A x \in Entries \ {e} : entry'[x] = entry[x]
    BY <2>1, InsertKeeps
  <2>3. ASSUME NEW x \in written'
        PROVE  entry'[x].embedding = ComputeEmbedding(entry'[x].content, salt, encodes)
    <3>1. CASE x = e
      <4>1. encoded = encodes
        BY <2>1, <2>2, <3>1
      <4> QED BY <2>0, <2>2, <3>1, <4>1
    <3>2. CASE x # e
      <4>1. x \in written /\ entry'[x] = entry[x]
        BY <1>0, <2>1, <2>2, <3>2
      <4> QED BY <4>1 DEF WrittenOK
    <3> QED BY <3>1, <3>2
  <2>4. WrittenOK'
    BY <2>1, <2>3 DEF WrittenOK, ComputeEmbedding
  <2> QED BY <2>2, <2>4
<1>2. ASSUME NEW e \in Entries, NEW k \in Kinds, NEW t \in Texts,
             StoreMemoryElsewhere(e, k, t)
      PROVE  StoreInv'
  <2>0. PICK v : /\ v \in {ComputeEmbedding(t, s, encoded) : s \in Salts \ {salt}, encoded \in BOOLEAN}
                 /\ Insert(e, k, t, v)
    BY <1>2 DEF StoreMemoryElsewhere
  <2>1. v \in Vectors /\ Insert(e, k, t, v) /\ UNCHANGED <<salt, encodes, old, written>>
    BY <1>2, <2>0, EmbeddingIsVector DEF StoreMemoryElsewhere
  <2>2. /\ StoreTypeOK' /\ e \notin written
        /\ \A x \in Entries \ {e} : entry'[x] = entry[x]
    BY <2>1, InsertKeeps
  <2>3. WrittenOK'
    BY <1>0, <2>1, <2>2 DEF WrittenOK, ComputeEmbedding
  <2> QED BY <2>2, <2>3
<1>3. ASSUME NEW e \in Entries, NEW t \in Texts, UpdatePersonalFact(e, t)
      PROVE  StoreInv'
  <2>1. /\ entry[e].kind = "fact" /\ entry' = [entry EXCEPT ![e].content = t]
        /\ written' = written \ {e} /\ UNCHANGED <<salt, encodes, order, old>>
    BY <1>3 DEF UpdatePersonalFact
  <2>2. entry[e] # NoEntry
    BY <2>1 DEF NoEntry
  <2>3. entry[e] \in MemoryEntry
    BY <2>2 DEF StoreTypeOK
  <2>4. /\ entry'[e] = [entry[e] EXCEPT !.content = t]
        /\ \A x \in Entries \ {e} : entry'[x] = entry[x]
    BY <2>1 DEF StoreTypeOK
  <2>5. entry'[e] \in MemoryEntry
    BY <2>3, <2>4 DEF MemoryEntry
  <2>6. entry' \in [Entries -> MemoryEntry \cup {NoEntry}]
    BY <2>1, <2>4, <2>5 DEF StoreTypeOK
  <2>7. Stored' = Stored /\ \A x \in Entries : x \in Stored' <=> entry'[x] # NoEntry
    BY <2>1, <2>2, <2>4, <2>5, NoEntryIsNone DEF StoreTypeOK, Stored
  <2>8. StoreTypeOK'
    BY <2>1, <2>6, <2>7 DEF StoreTypeOK
  <2>9. WrittenOK'
    BY <1>0, <2>1, <2>4 DEF WrittenOK, ComputeEmbedding
  <2> QED BY <2>8, <2>9
<1>4. ASSUME NEW e \in Entries, DeleteMemory(e) PROVE StoreInv'
  <2>1. Keep(Stored \ {e}) /\ written' = written \ {e} /\ UNCHANGED <<salt, encodes>>
    BY <1>4 DEF DeleteMemory
  <2>2. StoreTypeOK' /\ \A x \in Stored \ {e} : entry'[x] = entry[x]
    <3>1. Stored \ {e} \in SUBSET Stored /\ written' \subseteq Stored \ {e}
          /\ salt' \in Salts /\ encodes' \in BOOLEAN
      BY <1>0, <2>1
    <3> QED BY <2>1, <3>1, KeepKeeps
  <2>3. WrittenOK'
    BY <1>0, <2>1, <2>2 DEF WrittenOK, ComputeEmbedding
  <2> QED BY <2>2, <2>3
<1>5. CASE GrowsOld
  <2>1. /\ UNCHANGED <<salt, encodes, order, entry, written>>
        /\ \E i \in DOMAIN order : /\ old = {order[j] : j \in 1 .. i - 1}
                                   /\ old' = old \cup {order[i]}
    BY <1>5 DEF GrowsOld
  <2>2. PICK i \in DOMAIN order : old = {order[j] : j \in 1 .. i - 1} /\ old' = old \cup {order[i]}
    BY <2>1
  <2>3. i \in 1 .. Len(order)
    BY <2>2 DEF StoreTypeOK
  <2>4. old' = {order[j] : j \in 1 .. i}
    <3>1. 1 .. i = (1 .. i - 1) \cup {i}
      BY <2>3
    <3> QED BY <2>2, <3>1
  <2>5. i \in 0 .. Len(order)
    BY <2>3
  <2>6. \E n \in 0 .. Len(order') : old' = {order'[j] : j \in 1 .. n}
    BY <2>1, <2>4, <2>5
  <2>7. StoreTypeOK'
    BY <2>1, <2>6 DEF StoreTypeOK, Stored
  <2> QED BY <2>1, <2>7 DEF WrittenOK
<1>6. CASE StartStore
  <2>1. salt' \in Salts /\ encodes' \in BOOLEAN /\ written' = {}
    BY <1>6 DEF StartStore
  <2>2. CASE Keep(Stored \ Pruned)
    <3>1. Stored \ Pruned \in SUBSET Stored /\ written' \subseteq Stored \ Pruned
      BY <2>1
    <3>2. StoreTypeOK'
      BY <2>1, <2>2, <3>1, KeepKeeps
    <3> QED BY <2>1, <3>2 DEF WrittenOK
  <2>3. CASE UNCHANGED <<order, entry, old>>
    BY <2>1, <2>3 DEF StoreTypeOK, WrittenOK, Stored
  <2> QED BY <1>6, <2>2, <2>3 DEF StartStore
<1>7. CASE UNCHANGED storeVars
  BY <1>7 DEF storeVars, StoreTypeOK, WrittenOK, Stored
<1> QED BY <1>1, <1>2, <1>3, <1>4, <1>5, <1>6, <1>7 DEF StoreOperation

----------------------------------------------------------------------------
(* What is written is found: the search takes the newest rows, of those the *)
(* equal ones, and of those the newest, and the entry is among them at each *)
(* step because too few follow it.                                          *)
LEMMA SearchFindsWritten ==
    ASSUME StoreInv PROVE WrittenIsFound
<1> SUFFICES ASSUME NEW e \in written, NEW k \in {entry[e].kind, "any"},
                    encodes \/ entry[e].content \notin Short,
                    Len(NewerThan(e, k)) < Limit * Factor,
                    Len(Filter(NewerThan(e, k), Embedded(entry[e].embedding))) < Limit
             PROVE  e \in SearchMemories(entry[e].content, k, encodes)
  BY DEF WrittenIsFound
<1>1. e \in Stored /\ e \in Entries /\ order \in Seq(Entries)
  BY DEF StoreInv, StoreTypeOK, Stored, Elements
<1>2. PICK same : same = Filter(order, OfKind(k))
  OBVIOUS
<1>3. e \in OfKind(k)
  BY <1>1 DEF OfKind
<1>4. same \in Seq(Entries) /\ e \in Elements(same)
  BY <1>1, <1>2, <1>3, FilterProperties DEF Stored
<1>5. PICK at : at = CHOOSE i \in DOMAIN same : same[i] = e
  OBVIOUS
<1>6. at \in DOMAIN same /\ same[at] = e
  BY <1>4, <1>5 DEF Elements
<1>7. PICK newer : newer = SubSeq(same, at + 1, Len(same))
  OBVIOUS
<1>8. NewerThan(e, k) = newer
  BY <1>2, <1>5, <1>7 DEF NewerThan
<1>9. FollowedBy(Entries, same, e, newer)
  BY <1>4, <1>6, <1>7, ElementsFollow
<1>10. PICK big \in Nat : big = Limit * Factor
  BY StoreAssumption
<1>11. PICK candidates : candidates = LastN(same, big)
  OBVIOUS
<1>12. FollowedBy(Entries, candidates, e, newer) /\ Candidates(k) = candidates
  BY <1>1, <1>2, <1>8, <1>9, <1>10, <1>11, FollowedInLast DEF Candidates
<1>13. PICK equal : equal = Embedded(entry[e].embedding)
  OBVIOUS
<1>14. e \in equal /\ equal = Embedded(ComputeEmbedding(entry[e].content, salt, encodes))
  <2>1. entry[e].embedding = ComputeEmbedding(entry[e].content, salt, encodes)
    BY DEF StoreInv, WrittenOK
  <2>2. entry[e].embedding # Zero
    BY <2>1 DEF ComputeEmbedding, Zero
  <2> QED BY <1>1, <1>13, <2>1, <2>2 DEF Embedded
<1>15. FollowedBy(Entries, Filter(candidates, equal), e, Filter(newer, equal))
  BY <1>1, <1>12, <1>14, FollowedInFilter
<1>16. Len(Filter(newer, equal)) < Limit /\ Limit \in Nat
  BY <1>8, <1>13, StoreAssumption
<1>17. FollowedBy(Entries, LastN(Filter(candidates, equal), Limit), e, Filter(newer, equal))
  BY <1>1, <1>15, <1>16, FollowedInLast
<1>18. e \in Elements(LastN(Filter(candidates, equal), Limit))
  BY <1>1, <1>17, FollowedIsElement
<1> QED BY <1>12, <1>14, <1>18 DEF SearchMemories

----------------------------------------------------------------------------
\* The invariant of the memory store.
THEOREM StoreInvariant == StoreSpec => []StoreInv
<1>1. StoreInit => StoreInv
  BY InitStoreInv
<1>2. StoreInv /\ [StoreOperation \/ StartStore]_storeVars => StoreInv'
  BY NextStoreInv
<1> QED BY <1>1, <1>2, PTL DEF StoreSpec

\* Every row of the memory store has a type, and the old ones are the first.
THEOREM StoreTypeCorrect == StoreSpec => []StoreTypeOK
<1>1. StoreInv => StoreTypeOK
  BY DEF StoreInv
<1> QED BY <1>1, StoreInvariant, PTL

\* What memory_write stored is found by its text, whatever the process and the others
\* on the table did since, unless too many rows are newer or equal, the library failed,
\* or the hash of the process that has none has nothing to tell the text by.
THEOREM WrittenAreFound == StoreSpec => []WrittenIsFound
<1>1. StoreInv => WrittenIsFound
  BY SearchFindsWritten
<1> QED BY <1>1, StoreInvariant, PTL

----------------------------------------------------------------------------
(***************************************************************************)
(* The memory of the brain.                                                *)
(***************************************************************************)

(* Texts. *)

\* The first and the last elements of a sequence.
LEMMA FirstAndLast ==
    ASSUME NEW S, NEW s \in Seq(S), NEW n \in Nat \ {0}
    PROVE  /\ FirstN(s, n) \in Seq(S) /\ LastN(s, n) \in Seq(S)
           /\ s # <<>> => s[1] \in Elements(FirstN(s, n))
<1>1. PICK k \in Nat : k = Len(s) /\ DOMAIN s = 1 .. k
  OBVIOUS
<1>2. PICK m \in Nat : m = (IF k < n THEN k ELSE n)
  BY <1>1
<1>3. PICK p \in Nat : p = IF k > n THEN k - n + 1 ELSE 1
  <2>1. (IF k > n THEN k - n + 1 ELSE 1) \in Nat
    BY <1>1
  <2> QED BY <2>1
<1>4. PICK first, last : first = SubSeq(s, 1, m) /\ last = SubSeq(s, p, k)
  OBVIOUS
<1>5. FirstN(s, n) = first /\ LastN(s, n) = last
  BY <1>1, <1>2, <1>3, <1>4 DEF FirstN, LastN
<1>6. m \in 0 .. k /\ p \in 1 .. k + 1
  BY <1>1, <1>2, <1>3
<1>7. first \in Seq(S) /\ last \in Seq(S) /\ Len(first) = m
  BY <1>1, <1>4, <1>6, PartElements
<1>8. ASSUME s # <<>> PROVE s[1] \in Elements(first)
  <2>1. k >= 1
    BY <1>1, <1>8
  <2>2. m >= 1
    BY <1>1, <1>2, <2>1
  <2>3. first[1] = s[1] /\ 1 \in DOMAIN first
    BY <1>1, <1>4, <1>6, <1>7, <2>1, <2>2
  <2> QED BY <2>3 DEF Elements
<1> QED BY <1>5, <1>7, <1>8

LEMMA ElementText ==
    ASSUME NEW s, NEW m \in Elements(s)
    PROVE  m.text \in TextsOf(s)
BY DEF Elements, TextsOf

\* What is known of a text is the first that the search by meaning finds.
LEMMA KnownIsFound ==
    ASSUME memories \in Seq(Memory), NEW t \in Topics, Known(t)
    PROVE  t \in TextsOf(RecallSemantic(t))
<1> DEFINE s == Filter(memories, WithVector)
           same == Filter(s, OfText(t))
           rest == Filter(s, Memory \ OfText(t))
<1>1. PICK i \in DOMAIN memories : memories[i].text = t /\ memories[i].vector
  BY DEF Known
<1>2. memories[i] \in Elements(memories) \cap WithVector \cap OfText(t)
  BY <1>1 DEF Elements, WithVector, OfText
<1>3. s \in Seq(Memory) /\ Elements(s) = Elements(memories) \cap WithVector
  BY FilterProperties
<1>4. RecallMax \in Nat \ {0}
  BY BrainAssumption
<1>5. /\ same \in Seq(Memory) /\ rest \in Seq(Memory)
      /\ Elements(same) = Elements(s) \cap OfText(t)
  <2> HIDE DEF s
  <2> QED BY <1>3, FilterProperties
<1>6. same # <<>>
  <2>1. Elements(same) # {}
    BY <1>2, <1>3, <1>5
  <2>2. \A u : u = <<>> => Elements(u) = {}
    BY DEF Elements
  <2> HIDE DEF same
  <2> QED BY <2>1, <2>2
<1>7. Similar(t) = same \o rest
  BY DEF Similar
<1> HIDE DEF s, same, rest
<1>8. PICK both : both = same \o rest
  OBVIOUS
<1>9. 1 \in DOMAIN same
  BY <1>5, <1>6
<1>10. both \in Seq(Memory) /\ both[1] = same[1] /\ both # <<>>
  BY <1>5, <1>8, <1>9
<1>11. both[1].text = t
  <2>1. same[1] \in OfText(t)
    BY <1>5, <1>9 DEF Elements
  <2> QED BY <1>10, <2>1 DEF OfText
<1>12. both[1] \in Elements(FirstN(both, RecallMax))
  BY <1>4, <1>10, FirstAndLast
<1>13. both[1].text \in TextsOf(FirstN(both, RecallMax))
  BY <1>12, ElementText
<1> QED BY <1>7, <1>8, <1>11, <1>13 DEF RecallSemantic

\* A text that too few newer ones contain is among the last that contain it.
LEMMA FreshIsFound ==
    ASSUME memories \in Seq(Memory), NEW t \in Topics, Fresh(t)
    PROVE  t \in TextsOf(RecallKeyword(t))
<1>1. PICK i \in DOMAIN memories :
          /\ memories[i].text = t
          /\ Len(Filter(SubSeq(memories, i + 1, Len(memories)), Containing(t))) < RecallMax
  BY DEF Fresh
<1>2. PICK m \in Memory : m = memories[i]
  OBVIOUS
<1>3. PICK newer : newer = SubSeq(memories, i + 1, Len(memories))
  OBVIOUS
<1>4. FollowedBy(Memory, memories, m, newer)
  BY <1>2, <1>3, ElementsFollow
<1>5. m \in Containing(t)
  BY <1>1, <1>2 DEF Containing
<1>6. FollowedBy(Memory, Filter(memories, Containing(t)), m, Filter(newer, Containing(t)))
  BY <1>4, <1>5, FollowedInFilter
<1>7. Len(Filter(newer, Containing(t))) < RecallMax /\ RecallMax \in Nat
  BY <1>1, <1>3, BrainAssumption
<1>8. FollowedBy(Memory, RecallKeyword(t), m, Filter(newer, Containing(t)))
  BY <1>6, <1>7, FollowedInLast DEF RecallKeyword
<1>9. m \in Elements(RecallKeyword(t))
  BY <1>8, FollowedIsElement
<1> QED BY <1>1, <1>2, <1>9, ElementText

LEMMA FoundTexts ==
    ASSUME memories \in Seq(Memory), aged \in 0 .. Len(memories), NEW t \in Topics
    PROVE  /\ TextsOf(Recent) \subseteq Topics
           /\ TextsOf(RecallSemantic(t)) \subseteq Topics
           /\ TextsOf(RecallKeyword(t)) \subseteq Topics
<1>1. \A u \in Seq(Memory) : TextsOf(u) \subseteq Topics
  <2> SUFFICES ASSUME NEW u \in Seq(Memory), NEW i \in DOMAIN u PROVE u[i].text \in Topics
    BY DEF TextsOf
  <2>1. u[i] \in Memory
    OBVIOUS
  <2> QED BY <2>1 DEF Memory
<1>2. RecallMax \in Nat \ {0} /\ RecentMax \in Nat \ {0}
  BY BrainAssumption
<1>3. Recent \in Seq(Memory)
  <2>1. aged + 1 \in 1 .. Len(memories) + 1 /\ Len(memories) \in (aged + 1) - 1 .. Len(memories)
    OBVIOUS
  <2>2. SubSeq(memories, aged + 1, Len(memories)) \in Seq(Memory)
    BY <2>1, PartElements
  <2> QED BY <1>2, <2>2, FirstAndLast DEF Recent
<1>4. \A keep : Filter(memories, keep) \in Seq(Memory)
  BY FilterProperties
<1>5. RecallKeyword(t) \in Seq(Memory)
  BY <1>2, <1>4, FirstAndLast DEF RecallKeyword
<1>6. Similar(t) \in Seq(Memory)
  <2>1. \A keep : Filter(Filter(memories, WithVector), keep) \in Seq(Memory)
    BY <1>4, FilterProperties
  <2> QED BY <2>1, ConcatElements DEF Similar
<1>7. RecallSemantic(t) \in Seq(Memory)
  BY <1>2, <1>6, FirstAndLast DEF RecallSemantic
<1> QED BY <1>1, <1>3, <1>5, <1>7

----------------------------------------------------------------------------
(* The invariant of the memories: a call that waits for its second answer  *)
(* still finds what was known when it began, and over rqlite nothing is.   *)
RecallOK(c) == c.stage = "recall" /\ c.known => Known(c.text)

DoneOK(c) ==
    c.stage = "done" =>
        /\ c.known => c.way \in {"semantic", "keyword"}
        /\ c.way = "semantic" /\ c.known => c.text \in c.found
        /\ c.way = "keyword" /\ c.fresh => c.text \in c.found

MemoriesOK ==
    /\ rqlite \in BOOLEAN
    /\ memories \in Seq(Memory) /\ aged \in 0 .. Len(memories)
    /\ rqlite => memories = <<>>
    /\ prompt \in [Prompts -> PromptState]
    /\ \A p \in Prompts : RecallOK(prompt[p]) /\ DoneOK(prompt[p])

LEMMA RememberKeeps ==
    ASSUME MemoriesOK, NEW t \in Topics, Remember(t)
    PROVE  MemoriesOK'
<1>0. aged' = aged /\ rqlite' = rqlite /\ prompt' = prompt
  BY DEF Remember
<1>1. CASE RememberRemotely
  <2>1. memories' = memories
    BY <1>1 DEF RememberRemotely
  <2> QED BY <1>0, <2>1 DEF MemoriesOK, RecallOK, DoneOK, Known
<1>2. ASSUME NEW embedded \in BOOLEAN, RememberLocally(t, embedded) PROVE MemoriesOK'
  <2>1. PICK e \in Memory : memories' = Append(memories, e)
    BY <1>2 DEF RememberLocally, Memory
  <2>2. memories \in Seq(Memory) /\ aged \in 0 .. Len(memories)
    BY DEF MemoriesOK
  <2>3. PICK n \in Nat : n = Len(memories) /\ DOMAIN memories = 1 .. n
    BY <2>2
  <2>4. /\ memories' \in Seq(Memory) /\ Len(memories') = n + 1 /\ DOMAIN memories' = 1 .. n + 1
        /\ \A i \in 1 .. n : memories'[i] = memories[i]
    BY <2>1, <2>2, <2>3
  <2>5. aged' \in 0 .. Len(memories')
    BY <1>0, <2>2, <2>3, <2>4
  <2>6. \A x : Known(x) => Known(x)'
    BY <2>3, <2>4 DEF Known
  <2>7. \A p \in Prompts : RecallOK(prompt[p])' /\ DoneOK(prompt[p])'
    BY <1>0, <2>6 DEF MemoriesOK, RecallOK, DoneOK
  <2>8. ~rqlite'
    BY <1>0, <1>2 DEF RememberLocally
  <2> QED BY <1>0, <2>4, <2>5, <2>7, <2>8 DEF MemoriesOK
<1> QED BY <1>1, <1>2 DEF Remember

\* A call of get_context() that goes on as q.
LEMMA PromptKeeps ==
    ASSUME MemoriesOK, UNCHANGED <<rqlite, memories, aged>>, NEW p \in Prompts,
           NEW q \in PromptState, prompt' = [prompt EXCEPT ![p] = q],
           RecallOK(q), DoneOK(q)
    PROVE  MemoriesOK'
<1>1. prompt' \in [Prompts -> PromptState]
  BY DEF MemoriesOK
<1>2. \A c : RecallOK(c) => RecallOK(c)'
  BY DEF RecallOK, Known
<1>3. ASSUME NEW x \in Prompts
      PROVE  RecallOK(prompt[x])' /\ DoneOK(prompt[x])'
  <2>1. PICK c : c = prompt'[x]
    OBVIOUS
  <2>2. RecallOK(c) /\ DoneOK(c)
    BY <2>1 DEF MemoriesOK
  <2>3. RecallOK(c)'
    BY <1>2, <2>2
  <2> QED BY <2>1, <2>2, <2>3 DEF RecallOK, DoneOK
<1> QED BY <1>1, <1>3 DEF MemoriesOK

LEMMA GetRecentKeeps ==
    ASSUME MemoriesOK, NEW p \in Prompts, NEW t \in Topics, GetRecent(p, t)
    PROVE  MemoriesOK'
<1>1. TextsOf(Recent) \subseteq Topics
  BY FoundTexts DEF MemoriesOK
<1>2. Known(t) \in BOOLEAN
  BY DEF Known
<1> DEFINE q == [stage |-> "recall", text |-> t, known |-> Known(t), found |-> TextsOf(Recent)]
<1>3. prompt' = [prompt EXCEPT ![p] = q] /\ UNCHANGED <<rqlite, memories, aged>>
  BY DEF GetRecent
<1>4. q \in PromptState
  BY <1>1, <1>2 DEF PromptState
<1>5. RecallOK(q) /\ DoneOK(q)
  BY DEF RecallOK, DoneOK
<1> QED BY <1>3, <1>4, <1>5, PromptKeeps

\* An answer that has what is known, or what is fresh.
LEMMA RecalledKeeps ==
    ASSUME MemoriesOK, NEW p \in Prompts, NEW way \in Ways, NEW answer,
           Recalled(p, way, answer), NEW t, t = prompt[p].text,
           t \in Topics => TextsOf(answer) \subseteq Topics,
           t \in Topics /\ Known(t) => way \in {"semantic", "keyword"},
           t \in Topics /\ Known(t) /\ way = "semantic" => t \in TextsOf(answer),
           t \in Topics /\ Fresh(t) /\ way = "keyword" => t \in TextsOf(answer)
    PROVE  MemoriesOK'
<1>1. PICK c : c = prompt[p]
  OBVIOUS
<1>2. c \in PromptState /\ c.stage = "recall" /\ RecallOK(c) /\ c.text = t
  BY <1>1 DEF MemoriesOK, Recalled
<1>3. c \in [stage : {"recall"}, text : Topics, known : BOOLEAN, found : SUBSET Topics]
  BY <1>2 DEF PromptState, Idle
<1>4. PICK b \in BOOLEAN : b = Fresh(c.text)
  BY DEF Fresh
<1> DEFINE q == [stage |-> "done", text |-> c.text, known |-> c.known, way |-> way,
                 fresh |-> Fresh(c.text), found |-> c.found \cup TextsOf(answer)]
<1>5. prompt' = [prompt EXCEPT ![p] = q] /\ UNCHANGED <<rqlite, memories, aged>>
  BY <1>1 DEF Recalled
<1>6. t \in Topics /\ c.known \in BOOLEAN /\ c.found \subseteq Topics /\ TextsOf(answer) \subseteq Topics
  BY <1>2, <1>3
<1>7. q \in PromptState
  BY <1>2, <1>4, <1>6 DEF PromptState
<1>8. RecallOK(q) /\ DoneOK(q)
  BY <1>2, <1>6 DEF RecallOK, DoneOK
<1> QED BY <1>5, <1>7, <1>8, PromptKeeps

LEMMA RecallKeeps ==
    ASSUME MemoriesOK, NEW p \in Prompts, RecallLocally(p) \/ RecallRemotely(p)
    PROVE  MemoriesOK'
<1>0. memories \in Seq(Memory) /\ aged \in 0 .. Len(memories) /\ (rqlite => memories = <<>>)
  BY DEF MemoriesOK
<1>1. PICK t : t = prompt[p].text
  OBVIOUS
<1>2. CASE Recalled(p, "semantic", RecallSemantic(t))
  <2>1. /\ t \in Topics => TextsOf(RecallSemantic(t)) \subseteq Topics
        /\ t \in Topics /\ Known(t) => t \in TextsOf(RecallSemantic(t))
    BY <1>0, FoundTexts, KnownIsFound
  <2> QED BY <1>1, <1>2, <2>1, RecalledKeeps DEF Ways
<1>3. CASE Recalled(p, "keyword", RecallKeyword(t))
  <2>1. /\ t \in Topics => TextsOf(RecallKeyword(t)) \subseteq Topics
        /\ t \in Topics /\ Fresh(t) => t \in TextsOf(RecallKeyword(t))
    BY <1>0, FoundTexts, FreshIsFound
  <2> QED BY <1>1, <1>3, <2>1, RecalledKeeps DEF Ways
<1>4. CASE rqlite /\ Recalled(p, "rqlite", <<>>)
  <2>1. TextsOf(<<>>) = {} /\ ~Known(t)
    BY <1>0, <1>4 DEF TextsOf, Known
  <2> QED BY <1>1, <1>4, <2>1, RecalledKeeps DEF Ways
<1> QED BY <1>1, <1>2, <1>3, <1>4 DEF RecallLocally, RecallRemotely

LEMMA AgesKeeps ==
    ASSUME MemoriesOK, MemoryAges
    PROVE  MemoriesOK'
<1>1. aged' \in 0 .. Len(memories)
  <2>1. Len(memories) \in Nat
    BY DEF MemoriesOK
  <2> QED BY <2>1 DEF MemoriesOK, MemoryAges
<1> QED BY <1>1 DEF MemoriesOK, MemoryAges, RecallOK, DoneOK, Known

----------------------------------------------------------------------------
(* The invariant of the facts: a reader that has selected facts, each      *)
(* once, has an answer left to give.                                       *)
SelectedIds(r) == [i \in DOMAIN reading[r] |-> reading[r][i][1]]

ReadsOK ==
    \A r \in FactReaders :
        /\ Injective(SelectedIds(r))
        /\ Len(answers[r]) <= MaxReads
        /\ reading[r] # <<>> => Len(answers[r]) < MaxReads

FactsOK ==
    /\ touched \in Seq(Facts) /\ Injective(touched)
    /\ confidence \in [Facts -> {1, 2}]
    /\ count \in [Facts -> Nat]
    /\ reading \in [FactReaders -> Seq(Facts \X Nat)]
    /\ answers \in [FactReaders -> Seq(SUBSET Facts)]
    /\ ReadsOK /\ EveryAccessCounts

LEMMA ReversedProperties ==
    ASSUME NEW S, NEW s \in Seq(S), Injective(s)
    PROVE  Reverse(s) \in Seq(S) /\ Injective(Reverse(s))
<1>1. PICK n \in Nat : n = Len(s) /\ DOMAIN s = 1 .. n
  OBVIOUS
<1>2. \A i \in 1 .. n : n - i + 1 \in 1 .. n
  BY <1>1
<1>3. PICK t : t = [i \in 1 .. n |-> s[(n - i) + 1]]
  OBVIOUS
<1>4. \A i \in 1 .. n : t[i] = s[(n - i) + 1] /\ s[(n - i) + 1] \in S
  BY <1>1, <1>2, <1>3
<1>5. t \in [1 .. n -> S]
  BY <1>3, <1>4
<1>6. t \in Seq(S)
  BY <1>1, <1>5, SeqDef
<1>7. Injective(t)
  <2> SUFFICES ASSUME NEW i \in 1 .. n, NEW j \in 1 .. n, t[i] = t[j] PROVE i = j
    BY <1>3 DEF Injective
  <2>1. (n - i) + 1 = (n - j) + 1
    <3>1. PICK k, l : k = n - i + 1 /\ l = n - j + 1
      OBVIOUS
    <3>2. k \in DOMAIN s /\ l \in DOMAIN s /\ s[k] = s[l]
      BY <1>1, <1>2, <1>4, <3>1
    <3> QED BY <3>1, <3>2 DEF Injective
  <2> QED BY <1>1, <2>1
<1>8. Reverse(s) = t
  BY <1>1, <1>3 DEF Reverse
<1> QED BY <1>6, <1>7, <1>8

\* What get_facts() selects are facts, each once.
LEMMA RankedProperties ==
    ASSUME FactsOK, NEW wanted
    PROVE  LET listed == FirstN(Ranked(wanted), FactMax)
           IN  listed \in Seq(Facts) /\ Injective(listed)
<1> DEFINE s == Filter(Reverse(touched), wanted)
           Sure(c) == {f \in Facts : confidence[f] = c}
<1>1. Reverse(touched) \in Seq(Facts) /\ Injective(Reverse(touched))
  BY ReversedProperties DEF FactsOK
<1>2. s \in Seq(Facts) /\ Injective(s)
  BY <1>1, FilterProperties, FilterInjective
<1>3. Ranked(wanted) = Filter(s, Sure(2)) \o Filter(s, Sure(1))
  BY DEF Ranked
<1>4. Sure(2) \cap Sure(1) = {}
  OBVIOUS
<1> HIDE DEF s, Sure
<1>5. \A c : Filter(s, Sure(c)) \in Seq(Facts) /\ Injective(Filter(s, Sure(c)))
             /\ Elements(Filter(s, Sure(c))) \subseteq Sure(c)
  BY <1>2, FilterProperties, FilterInjective
<1>6. PICK ranked : ranked = Ranked(wanted)
  OBVIOUS
<1>7. ranked \in Seq(Facts) /\ Injective(ranked)
  <2>1. Elements(Filter(s, Sure(2))) \cap Elements(Filter(s, Sure(1))) = {}
    BY <1>4, <1>5
  <2> QED BY <1>3, <1>5, <1>6, <2>1, ConcatElements
<1>8. PICK m : m = IF Len(ranked) < FactMax THEN Len(ranked) ELSE FactMax
  OBVIOUS
<1>9. 1 \in 1 .. Len(ranked) + 1 /\ m \in 1 - 1 .. Len(ranked)
  BY <1>7, <1>8, BrainAssumption
<1>10. SubSeq(ranked, 1, m) \in Seq(Facts) /\ Injective(SubSeq(ranked, 1, m))
  BY <1>7, <1>9, PartElements
<1>11. FirstN(ranked, FactMax) = SubSeq(ranked, 1, m)
  BY <1>8 DEF FirstN
<1> QED BY <1>6, <1>10, <1>11

LEMMA StoreFactKeeps ==
    ASSUME FactsOK, NEW f \in Facts, NEW c \in {1, 2}, StoreFact(f, c)
    PROVE  FactsOK'
<1>1. f \notin Elements(touched)
  BY DEF StoreFact, NewFact
<1>2. Append(touched, f) \in Seq(Facts) /\ Injective(Append(touched, f))
  <2>1. Append(touched, f) \in Seq(Facts)
    BY DEF FactsOK
  <2> QED BY <1>1, <2>1, InjectiveAppend DEF FactsOK
<1>3. confidence' \in [Facts -> {1, 2}]
  BY DEF FactsOK, StoreFact
<1>4. touched' = Append(touched, f) /\ UNCHANGED <<count, reading, answers>>
  BY DEF StoreFact
<1> QED BY <1>2, <1>3, <1>4 DEF FactsOK, ReadsOK, EveryAccessCounts, SelectedIds

LEMMA SelectFactsKeeps ==
    ASSUME FactsOK, NEW r \in FactReaders, SelectFacts(r)
    PROVE  FactsOK'
<1>1. PICK wanted \in SUBSET Elements(touched) :
          LET listed == FirstN(Ranked(wanted), FactMax)
          IN  reading' = [reading EXCEPT ![r] =
                             [i \in DOMAIN listed |-> <<listed[i], count[listed[i]]>>]]
  BY DEF SelectFacts
<1>2. PICK listed : listed = FirstN(Ranked(wanted), FactMax)
  OBVIOUS
<1>3. listed \in Seq(Facts) /\ Injective(listed)
  BY <1>2, RankedProperties
<1>4. PICK new : new = [i \in DOMAIN listed |-> <<listed[i], count[listed[i]]>>]
  OBVIOUS
<1>5. PICK n \in Nat : n = Len(listed) /\ DOMAIN listed = 1 .. n
  BY <1>3
<1>6. new \in Seq(Facts \X Nat) /\ DOMAIN new = 1 .. n /\ \A i \in 1 .. n : new[i][1] = listed[i]
  <2>1. \A i \in 1 .. n : listed[i] \in Facts /\ count[listed[i]] \in Nat
    BY <1>3, <1>5 DEF FactsOK
  <2>2. \A i \in 1 .. n : new[i] \in Facts \X Nat /\ new[i][1] = listed[i]
    BY <1>4, <1>5, <2>1
  <2>3. new \in [1 .. n -> Facts \X Nat]
    BY <1>4, <1>5, <2>2
  <2> QED BY <1>5, <2>2, <2>3, SeqDef
<1>7. reading' = [reading EXCEPT ![r] = new]
  BY <1>1, <1>2, <1>4
<1>8. /\ UNCHANGED <<touched, confidence, count, answers>>
      /\ Len(answers[r]) < MaxReads
  BY DEF SelectFacts
<1>9. reading' \in [FactReaders -> Seq(Facts \X Nat)]
  BY <1>6, <1>7 DEF FactsOK
<1>10. ReadsOK'
  <2> SUFFICES ASSUME NEW x \in FactReaders
               PROVE  /\ Injective(SelectedIds(x)')
                      /\ Len(answers'[x]) <= MaxReads
                      /\ reading'[x] # <<>> => Len(answers'[x]) < MaxReads
    BY DEF ReadsOK
  <2>1. CASE x = r
    <3>1. reading'[x] = new
      BY <1>7, <2>1 DEF FactsOK
    <3>2. SelectedIds(x)' = [i \in 1 .. n |-> listed[i]]
      BY <1>6, <3>1 DEF SelectedIds
    <3>3. Injective([i \in 1 .. n |-> listed[i]])
      BY <1>3, <1>5 DEF Injective
    <3> QED BY <1>8, <2>1, <3>2, <3>3 DEF FactsOK, ReadsOK
  <2>2. CASE x # r
    <3>1. reading'[x] = reading[x]
      BY <1>7, <2>2 DEF FactsOK
    <3>2. SelectedIds(x)' = SelectedIds(x)
      BY <3>1 DEF SelectedIds
    <3> QED BY <1>8, <3>1, <3>2 DEF FactsOK, ReadsOK
  <2> QED BY <2>1, <2>2
<1> QED BY <1>8, <1>9, <1>10 DEF FactsOK, EveryAccessCounts

\* The answers that a fact is in.
AnswersWith(f) ==
    {at \in FactReaders \X (1 .. MaxReads) :
        at[2] \in DOMAIN answers[at[1]] /\ f \in answers[at[1]][at[2]]}

LEMMA AnswersFinite ==
    ASSUME NEW T \in SUBSET (FactReaders \X (1 .. MaxReads))
    PROVE  IsFiniteSet(T)
<1>1. IsFiniteSet(FactReaders) /\ MaxReads \in Int
  BY BrainAssumption
<1>2. IsFiniteSet(1 .. MaxReads)
  BY <1>1, FS_Interval
<1>3. IsFiniteSet(FactReaders \X (1 .. MaxReads))
  BY <1>1, <1>2, FS_Product
<1> QED BY <1>3, FS_Subset

\* Each fact that is returned is counted once more, in one more answer.
LEMMA CountAccessKeeps ==
    ASSUME FactsOK, NEW r \in FactReaders, CountAccess(r)
    PROVE  FactsOK'
<1>1. PICK ids : ids = SelectedIds(r)
  OBVIOUS
<1>2. PICK n \in Nat : n = Len(reading[r]) /\ DOMAIN reading[r] = 1 .. n
  BY DEF FactsOK
<1>3. /\ ids \in Seq(Facts) /\ Injective(ids) /\ Elements(ids) = Selected(r)
      /\ Selected(r) \subseteq Facts
  <2>1. \A i \in 1 .. n : reading[r][i] \in Facts \X Nat
    BY <1>2 DEF FactsOK
  <2>2. ids = [i \in 1 .. n |-> reading[r][i][1]] /\ \A i \in 1 .. n : reading[r][i][1] \in Facts
    BY <1>1, <1>2, <2>1 DEF SelectedIds
  <2>3. ids \in [1 .. n -> Facts]
    BY <2>2
  <2>4. ids \in Seq(Facts)
    BY <1>2, <2>3, SeqDef
  <2>5. Elements(ids) = Selected(r)
    BY <1>2, <2>2 DEF Elements, Selected
  <2> QED BY <1>1, <2>4, <2>5 DEF Elements, FactsOK, ReadsOK
<1>4. /\ count' = Counted(r)
      /\ touched' = Filter(touched, Facts \ Selected(r)) \o ids
      /\ answers' = [answers EXCEPT ![r] = Append(@, Selected(r))]
      /\ reading' = [reading EXCEPT ![r] = <<>>]
      /\ confidence' = confidence /\ reading[r] # <<>>
  BY <1>1 DEF CountAccess, SelectedIds
<1>5. touched' \in Seq(Facts) /\ Injective(touched')
  <2>1. PICK rest : rest = Filter(touched, Facts \ Selected(r))
    OBVIOUS
  <2>2. rest \in Seq(Facts) /\ Injective(rest) /\ Elements(rest) \subseteq Facts \ Selected(r)
    BY <2>1, FilterProperties, FilterInjective DEF FactsOK
  <2>3. Elements(rest) \cap Elements(ids) = {}
    BY <1>3, <2>2
  <2> QED BY <1>3, <1>4, <2>1, <2>2, <2>3, ConcatElements
<1>6. PICK k \in Nat : k = Len(answers[r]) /\ DOMAIN answers[r] = 1 .. k /\ k < MaxReads
  <2>1. answers[r] \in Seq(SUBSET Facts) /\ Len(answers[r]) < MaxReads
    BY <1>4 DEF FactsOK, ReadsOK
  <2> QED BY <2>1
<1>7. /\ answers' \in [FactReaders -> Seq(SUBSET Facts)]
      /\ DOMAIN answers'[r] = 1 .. k + 1 /\ Len(answers'[r]) = k + 1
      /\ answers'[r][k + 1] = Selected(r)
      /\ \A i \in 1 .. k : answers'[r][i] = answers[r][i]
      /\ \A x \in FactReaders \ {r} : answers'[x] = answers[x]
  <2>1. PICK past : past = answers[r]
    OBVIOUS
  <2>2. past \in Seq(SUBSET Facts) /\ Selected(r) \in SUBSET Facts
    BY <1>3, <2>1 DEF FactsOK
  <2>3. PICK new : new = Append(past, Selected(r))
    OBVIOUS
  <2>4. /\ new \in Seq(SUBSET Facts) /\ DOMAIN new = 1 .. k + 1 /\ Len(new) = k + 1
        /\ new[k + 1] = Selected(r) /\ \A i \in 1 .. k : new[i] = past[i]
    BY <1>6, <2>1, <2>2, <2>3
  <2>5. answers' = [answers EXCEPT ![r] = new] /\ answers \in [FactReaders -> Seq(SUBSET Facts)]
    BY <1>4, <2>1, <2>3 DEF FactsOK
  <2> QED BY <2>1, <2>4, <2>5
<1>8. /\ reading' \in [FactReaders -> Seq(Facts \X Nat)]
      /\ reading'[r] = <<>> /\ \A x \in FactReaders \ {r} : reading'[x] = reading[x]
  BY <1>4 DEF FactsOK
<1>9. /\ count' \in [Facts -> Nat]
      /\ \A f \in Facts : count'[f] = IF f \in Selected(r) THEN count[f] + 1 ELSE count[f]
  BY <1>4 DEF FactsOK, Counted
<1>10. ReadsOK'
  <2> SUFFICES ASSUME NEW x \in FactReaders
               PROVE  /\ Injective(SelectedIds(x)')
                      /\ Len(answers'[x]) <= MaxReads
                      /\ reading'[x] # <<>> => Len(answers'[x]) < MaxReads
    BY DEF ReadsOK
  <2>1. CASE x = r
    <3>1. DOMAIN SelectedIds(x)' = {}
      BY <1>8, <2>1 DEF SelectedIds
    <3>2. k + 1 <= MaxReads
      BY <1>6, BrainAssumption
    <3> QED BY <1>7, <1>8, <2>1, <3>1, <3>2 DEF Injective
  <2>2. CASE x # r
    <3>1. SelectedIds(x)' = SelectedIds(x)
      BY <1>8, <2>2 DEF SelectedIds
    <3> QED BY <1>7, <1>8, <2>2, <3>1 DEF FactsOK, ReadsOK
  <2> QED BY <2>1, <2>2
<1>11. EveryAccessCounts'
  <2> SUFFICES ASSUME NEW f \in Facts PROVE count'[f] = Cardinality(AnswersWith(f)')
    BY DEF EveryAccessCounts, AnswersWith
  <2>1. count[f] = Cardinality(AnswersWith(f)) /\ count[f] \in Nat
    BY DEF FactsOK, EveryAccessCounts, AnswersWith
  <2>2. k + 1 \in 1 .. MaxReads
    BY <1>6, BrainAssumption
  <2>3. ASSUME NEW x \in FactReaders, NEW i \in 1 .. MaxReads
        PROVE  (i \in DOMAIN answers'[x] /\ f \in answers'[x][i]) <=>
                   \/ i \in DOMAIN answers[x] /\ f \in answers[x][i]
                   \/ x = r /\ i = k + 1 /\ f \in Selected(r)
    <3>1. CASE x # r
      BY <1>7, <3>1
    <3>2. CASE x = r
      <4>1. i \in 1 .. k + 1 <=> i \in 1 .. k \/ i = k + 1
        BY <1>6
      <4>2. k + 1 \notin 1 .. k
        BY <1>6
      <4> QED BY <1>6, <1>7, <3>2, <4>1, <4>2
    <3> QED BY <3>1, <3>2
  <2>4. AnswersWith(f)' = AnswersWith(f) \cup (IF f \in Selected(r) THEN {<<r, k + 1>>} ELSE {})
    <3>1. AnswersWith(f)' = {at \in FactReaders \X (1 .. MaxReads) :
              at[2] \in DOMAIN answers'[at[1]] /\ f \in answers'[at[1]][at[2]]}
      BY DEF AnswersWith
    <3>2. <<r, k + 1>> \in FactReaders \X (1 .. MaxReads)
      BY <2>2
    <3>3. ASSUME NEW at \in FactReaders \X (1 .. MaxReads)
          PROVE  at \in AnswersWith(f)' <=>
                     at \in AnswersWith(f) \/ (at = <<r, k + 1>> /\ f \in Selected(r))
      <4>1. at[1] \in FactReaders /\ at[2] \in 1 .. MaxReads /\ at = <<at[1], at[2]>>
        OBVIOUS
      <4>2. at = <<r, k + 1>> <=> at[1] = r /\ at[2] = k + 1
        BY <4>1
      <4> QED BY <2>3, <3>1, <4>1, <4>2 DEF AnswersWith
    <3>4. AnswersWith(f)' \subseteq FactReaders \X (1 .. MaxReads)
          /\ AnswersWith(f) \subseteq FactReaders \X (1 .. MaxReads)
      BY <3>1 DEF AnswersWith
    <3> QED BY <3>2, <3>3, <3>4
  <2>5. <<r, k + 1>> \notin AnswersWith(f)
    BY <1>6 DEF AnswersWith
  <2>6. IsFiniteSet(AnswersWith(f))
    BY AnswersFinite DEF AnswersWith
  <2>7. CASE f \in Selected(r)
    <3>1. Cardinality(AnswersWith(f) \cup {<<r, k + 1>>}) = Cardinality(AnswersWith(f)) + 1
      BY <2>5, <2>6, FS_AddElement
    <3> QED BY <1>9, <2>1, <2>4, <2>7, <3>1
  <2>8. CASE f \notin Selected(r)
    BY <1>9, <2>1, <2>4, <2>8
  <2> QED BY <2>7, <2>8
<1> QED BY <1>4, <1>5, <1>7, <1>8, <1>9, <1>10, <1>11 DEF FactsOK

----------------------------------------------------------------------------
BrainIInv == MemoriesOK /\ FactsOK

LEMMA InitBrain == BrainInit => BrainIInv
<1> SUFFICES ASSUME BrainInit PROVE BrainIInv
  OBVIOUS
<1>1. PICK none : none = <<>>
  OBVIOUS
<1>2. /\ \A S : none \in Seq(S)
      /\ Injective(none) /\ Len(none) = 0 /\ DOMAIN none = {}
  BY <1>1 DEF Injective
<1>3. /\ rqlite \in BOOLEAN /\ memories = none /\ aged = 0 /\ prompt = [p \in Prompts |-> Idle]
      /\ touched = none /\ confidence = [f \in Facts |-> 1] /\ count = [f \in Facts |-> 0]
      /\ reading = [r \in FactReaders |-> none] /\ answers = reading
  BY <1>1 DEF BrainInit
<1>4. \A p \in Prompts : prompt[p].stage = "idle"
  BY <1>3 DEF Idle
<1>5. MemoriesOK
  <2>1. Idle \in PromptState
    BY DEF PromptState
  <2>2. \A p \in Prompts : RecallOK(prompt[p]) /\ DoneOK(prompt[p])
    BY <1>4 DEF RecallOK, DoneOK
  <2> QED BY <1>1, <1>2, <1>3, <2>1, <2>2 DEF MemoriesOK
<1>6. ReadsOK
  <2>1. \A r \in FactReaders : DOMAIN SelectedIds(r) = {}
    BY <1>2, <1>3 DEF SelectedIds
  <2> QED BY <1>1, <1>2, <1>3, <2>1, BrainAssumption DEF ReadsOK, Injective
<1>7. EveryAccessCounts
  <2> SUFFICES ASSUME NEW f \in Facts PROVE count[f] = Cardinality(AnswersWith(f))
    BY DEF EveryAccessCounts, AnswersWith
  <2>1. AnswersWith(f) = {}
    BY <1>2, <1>3 DEF AnswersWith
  <2> QED BY <1>3, <2>1, FS_EmptySet
<1> QED BY <1>2, <1>3, <1>5, <1>6, <1>7 DEF BrainIInv, FactsOK

LEMMA NextBrain == BrainIInv /\ [BrainStep]_brainVars => BrainIInv'
<1> SUFFICES ASSUME MemoriesOK, FactsOK, [BrainStep]_brainVars PROVE MemoriesOK' /\ FactsOK'
  BY DEF BrainIInv
<1>a. ASSUME UNCHANGED factVars PROVE FactsOK'
  <2>1. UNCHANGED <<touched, confidence, count, reading, answers>>
    BY <1>a DEF factVars
  <2> QED BY <2>1 DEF FactsOK, ReadsOK, EveryAccessCounts, SelectedIds
<1>b. ASSUME UNCHANGED <<rqlite, memories, aged, prompt>> PROVE MemoriesOK'
  BY <1>b DEF MemoriesOK, RecallOK, DoneOK, Known
<1>1. ASSUME NEW t \in Topics, Remember(t) PROVE MemoriesOK' /\ FactsOK'
  BY <1>1, <1>a, RememberKeeps DEF Remember
<1>2. CASE MemoryAges
  BY <1>2, <1>a, AgesKeeps DEF MemoryAges
<1>3. ASSUME NEW p \in Prompts, NEW t \in Topics, GetRecent(p, t)
      PROVE  MemoriesOK' /\ FactsOK'
  BY <1>3, <1>a, GetRecentKeeps DEF GetRecent
<1>4. ASSUME NEW p \in Prompts, RecallLocally(p) \/ RecallRemotely(p)
      PROVE  MemoriesOK' /\ FactsOK'
  BY <1>4, <1>a, RecallKeeps DEF RecallLocally, RecallRemotely, Recalled
<1>5. ASSUME NEW f \in Facts, NEW c \in {1, 2}, StoreFact(f, c) PROVE MemoriesOK' /\ FactsOK'
  BY <1>5, <1>b, StoreFactKeeps DEF StoreFact
<1>6. ASSUME NEW r \in FactReaders, SelectFacts(r) PROVE MemoriesOK' /\ FactsOK'
  BY <1>6, <1>b, SelectFactsKeeps DEF SelectFacts
<1>7. ASSUME NEW r \in FactReaders, CountAccess(r) PROVE MemoriesOK' /\ FactsOK'
  BY <1>7, <1>b, CountAccessKeeps DEF CountAccess
<1>8. CASE UNCHANGED brainVars
  BY <1>8, <1>a, <1>b DEF brainVars, factVars
<1> QED BY <1>1, <1>2, <1>3, <1>4, <1>5, <1>6, <1>7, <1>8 DEF BrainStep

\* The inductive invariant of the brain's memory.
THEOREM BrainInvariant == BrainSpec => []BrainIInv
<1> QED BY InitBrain, NextBrain, PTL DEF BrainSpec

\* The tables, the calls and the readers keep their types, and a fact is one row.
THEOREM BrainTypeCorrect == BrainSpec => []BrainTypeOK
<1>1. BrainIInv => BrainTypeOK
  BY DEF BrainIInv, MemoriesOK, FactsOK, BrainTypeOK
<1> QED BY <1>1, BrainInvariant, PTL

\* The context of a question (get_context()) contains what was known of it when it
\* was asked for, whatever is remembered between its two searches: found by meaning,
\* or by keyword unless as many newer memories as it returns contain the text.
THEOREM KnownInContext == BrainSpec => []KnownIsInContext
<1>1. BrainIInv => KnownIsInContext
  BY DEF BrainIInv, MemoriesOK, DoneOK, KnownIsInContext
<1> QED BY <1>1, BrainInvariant, PTL

\* A fact was accessed as often as it was returned (get_facts()), by however many
\* processes at once, although each reads its row before it counts.
THEOREM AccessesCounted == BrainSpec => []EveryAccessCounts
<1>1. BrainIInv => EveryAccessCounts
  BY DEF BrainIInv, FactsOK
<1> QED BY <1>1, BrainInvariant, PTL

----------------------------------------------------------------------------
(***************************************************************************)
(* The thinking engine.                                                    *)
(***************************************************************************)

(* The walk from thought to parent. *)
WalkIs(w, t, stored, up, n) ==
    w = [i \in 1 .. n |-> IF i = 1 THEN t
                          ELSE IF w[i - 1] \in stored THEN up[w[i - 1]] ELSE NoThought]

LEMMA WalkExists ==
    ASSUME NEW t, NEW stored, NEW up
    PROVE  \A n \in Nat : \E w : WalkIs(w, t, stored, up, n)
<1> DEFINE N == {n \in Nat : \E w : WalkIs(w, t, stored, up, n)}
<1>1. 0 \in N
  <2> DEFINE w == [i \in 1 .. 0 |-> t]
  <2>1. 1 .. 0 = {}
    OBVIOUS
  <2>2. WalkIs(w, t, stored, up, 0)
    BY <2>1 DEF WalkIs
  <2> QED BY <2>2
<1>2. ASSUME NEW n \in Nat, n \in N PROVE n + 1 \in N
  <2>1. PICK f : WalkIs(f, t, stored, up, n)
    BY <1>2
  <2> DEFINE g == [i \in 1 .. n + 1 |->
                      IF i = n + 1
                      THEN IF i = 1 THEN t ELSE IF f[n] \in stored THEN up[f[n]] ELSE NoThought
                      ELSE f[i]]
  <2>2. \A i \in 1 .. n : g[i] = f[i]
    OBVIOUS
  <2>3. ASSUME NEW i \in 1 .. n + 1
        PROVE  g[i] = IF i = 1 THEN t
                      ELSE IF g[i - 1] \in stored THEN up[g[i - 1]] ELSE NoThought
    <3>1. CASE i = n + 1
      <4>1. CASE i = 1
        BY <3>1, <4>1
      <4>2. CASE i # 1
        <5>1. i - 1 = n /\ n \in 1 .. n
          BY <3>1, <4>2
        <5>2. g[i - 1] = f[n]
          BY <2>2, <5>1
        <5> QED BY <3>1, <4>2, <5>2
      <4> QED BY <4>1, <4>2
    <3>2. CASE i # n + 1
      <4>1. i \in 1 .. n /\ (i # 1 => i - 1 \in 1 .. n)
        BY <3>2
      <4>2. f[i] = IF i = 1 THEN t ELSE IF f[i - 1] \in stored THEN up[f[i - 1]] ELSE NoThought
        BY <2>1, <4>1 DEF WalkIs
      <4> QED BY <2>2, <4>1, <4>2
    <3> QED BY <3>1, <3>2
  <2>4. WalkIs(g, t, stored, up, n + 1)
    <3> DEFINE h == [i \in 1 .. n + 1 |->
                        IF i = 1 THEN t
                        ELSE IF g[i - 1] \in stored THEN up[g[i - 1]] ELSE NoThought]
    <3>1. \A i \in 1 .. n + 1 : g[i] = h[i]
      BY <2>3
    <3>2. g = h
      BY <3>1
    <3> QED BY <3>2 DEF WalkIs
  <2> QED BY <2>4
<1>3. Nat \subseteq N
  <2> HIDE DEF N
  <2> QED BY <1>1, <1>2, NatSetInduction
<1> QED BY <1>3

LEMMA WalkedSteps ==
    ASSUME NEW t
    PROVE  /\ DOMAIN WalkedUp(t) = 1 .. MaxDepth
           /\ WalkedUp(t)[1] = t
           /\ \A n \in 1 .. MaxDepth - 1 :
                  WalkedUp(t)[n + 1] = IF WalkedUp(t)[n] \in StoredThoughts
                                       THEN parent[WalkedUp(t)[n]] ELSE NoThought
<1> DEFINE up == CHOOSE w : WalkIs(w, t, StoredThoughts, parent, MaxDepth)
<1>0. MaxDepth \in Nat \ {0}
  BY ThoughtsAssumption
<1>1. WalkIs(up, t, StoredThoughts, parent, MaxDepth)
  BY <1>0, WalkExists
<1>2. WalkedUp(t) = [n \in 1 .. MaxDepth |-> up[n]]
  BY DEF WalkedUp, WalkIs
<1> HIDE DEF up
<1>3. DOMAIN WalkedUp(t) = 1 .. MaxDepth /\ \A n \in 1 .. MaxDepth : WalkedUp(t)[n] = up[n]
  BY <1>2
<1>4. \A n \in 1 .. MaxDepth :
          up[n] = IF n = 1 THEN t
                  ELSE IF up[n - 1] \in StoredThoughts THEN parent[up[n - 1]] ELSE NoThought
  BY <1>1 DEF WalkIs
<1>5. up[1] = t
  BY <1>0, <1>4
<1>6. ASSUME NEW n \in 1 .. MaxDepth - 1
      PROVE  up[n + 1] = IF up[n] \in StoredThoughts THEN parent[up[n]] ELSE NoThought
  <2>1. PICK m \in 1 .. MaxDepth : m = n + 1
    BY <1>0
  <2>2. m # 1 /\ m - 1 = n
    BY <1>0, <2>1
  <2> QED BY <1>4, <2>1, <2>2
<1>7. \A n \in 1 .. MaxDepth - 1 : n \in 1 .. MaxDepth /\ n + 1 \in 1 .. MaxDepth
  BY <1>0
<1> QED BY <1>0, <1>3, <1>5, <1>6, <1>7

----------------------------------------------------------------------------
(* The inductive invariant. *)

\* The parent of a thought is an earlier one.
ParentsAreEarlier ==
    \A i \in DOMAIN thoughts :
        \/ parent[thoughts[i]] = NoThought
        \/ \E j \in 1 .. i - 1 : parent[thoughts[i]] = thoughts[j]

\* It is no earlier than the last one of the same engine before it.
NoneLeftOut ==
    \A i \in DOMAIN thoughts : \A j \in 1 .. i - 1 :
        author[thoughts[j]] = author[thoughts[i]] =>
            \/ thoughts[i] \in blind
            \/ \E k \in j .. i - 1 : parent[thoughts[i]] = thoughts[k]

\* The last thought of an engine is stored; an engine that asks runs.
LastIsStored ==
    /\ \A e \in Engines : lastThought[e] \in StoredThoughts \cup {NoThought, Down}
    /\ \A e \in asking : lastThought[e] # Down

\* None of the engine's own thoughts is later, unless it could not look.
LastIsLatest ==
    \A e \in Engines, j \in DOMAIN thoughts :
        lastThought[e] # Down /\ author[thoughts[j]] = e =>
            \/ e \in blind /\ lastThought[e] = NoThought
            \/ \E k \in j .. Len(thoughts) : lastThought[e] = thoughts[k]

ThoughtsInv ==
    ThoughtsTypeOK /\ ParentsAreEarlier /\ NoneLeftOut /\ LastIsStored /\ LastIsLatest

LEMMA InitThoughtsInv ==
    ASSUME ThoughtsInit PROVE ThoughtsInv
<1>1. <<>> \in Seq(Thought) /\ DOMAIN <<>> = {}
  OBVIOUS
<1>2. thoughts \in Seq(Thought) /\ Injective(thoughts) /\ DOMAIN thoughts = {}
  BY <1>1 DEF ThoughtsInit, Injective
<1>3. ThoughtsTypeOK
  BY <1>2 DEF ThoughtsInit, ThoughtsTypeOK
<1> QED BY <1>2, <1>3
        DEF ThoughtsInit, ThoughtsInv, ParentsAreEarlier, NoneLeftOut, LastIsStored, LastIsLatest

\* An engine has a last thought from none on, or the latest one.
LEMMA LoadsKeeps ==
    ASSUME ThoughtsInv, NEW e \in Engines, NEW t, Loads(e, t), asking' = asking,
           \/ t = NoThought /\ (thoughts = <<>> \/ e \in blind')
           \/ thoughts # <<>> /\ t = Last(thoughts),
           blind' \in {blind \cup {e}, blind \ {e}}
    PROVE  ThoughtsInv'
<1>1. /\ lastThought[e] = Down /\ lastThought' = [lastThought EXCEPT ![e] = t]
      /\ UNCHANGED <<thoughts, parent, asking, author>>
  BY DEF Loads
<1>2. PICK n \in Nat : n = Len(thoughts) /\ DOMAIN thoughts = 1 .. n
  BY DEF ThoughtsInv, ThoughtsTypeOK
<1>3. t = NoThought \/ (n >= 1 /\ t = thoughts[n])
  BY <1>2 DEF Last, ThoughtsInv, ThoughtsTypeOK
<1>4. t \in StoredThoughts \cup {NoThought} /\ StoredThoughts \subseteq Thought
  BY <1>2, <1>3 DEF StoredThoughts, Elements, ThoughtsInv, ThoughtsTypeOK
<1>5. /\ lastThought'[e] = t
      /\ \A x \in Engines \ {e} : lastThought'[x] = lastThought[x]
  BY <1>1 DEF ThoughtsInv, ThoughtsTypeOK
<1>6. ThoughtsTypeOK'
  <2>1. lastThought' \in [Engines -> Thought \cup {NoThought, Down}]
    BY <1>1, <1>4 DEF ThoughtsInv, ThoughtsTypeOK
  <2>2. blind' \subseteq Engines \cup Thought
    BY DEF ThoughtsInv, ThoughtsTypeOK
  <2> QED BY <1>1, <2>1, <2>2 DEF ThoughtsInv, ThoughtsTypeOK
<1>7. \A x \in Thought : x \in blind <=> x \in blind'
  BY ThoughtsAssumption
<1>8. \A i \in DOMAIN thoughts : thoughts[i] \in Thought
  BY DEF ThoughtsInv, ThoughtsTypeOK
<1>9. ParentsAreEarlier' /\ NoneLeftOut'
  BY <1>1, <1>7, <1>8 DEF ThoughtsInv, ParentsAreEarlier, NoneLeftOut
<1>10. t # Down
  BY <1>4, ThoughtsAssumption DEF Down
<1>11. LastIsStored'
  <2>1. StoredThoughts' = StoredThoughts
    BY <1>1 DEF StoredThoughts
  <2> QED BY <1>1, <1>4, <1>5, <1>10, <2>1 DEF ThoughtsInv, LastIsStored, ThoughtsTypeOK
<1>12. LastIsLatest'
  <2> SUFFICES ASSUME NEW x \in Engines, NEW j \in DOMAIN thoughts,
                      lastThought'[x] # Down, author[thoughts[j]] = x
               PROVE  \/ x \in blind' /\ lastThought'[x] = NoThought
                      \/ \E k \in j .. Len(thoughts) : lastThought'[x] = thoughts[k]
    BY <1>1 DEF LastIsLatest
  <2>1. CASE x = e
    <3>1. n >= 1 /\ thoughts # <<>>
      BY <1>2
    <3>2. CASE t = NoThought /\ e \in blind'
      BY <1>5, <2>1, <3>2
    <3>3. CASE t = Last(thoughts)
      <4>1. n \in j .. Len(thoughts) /\ t = thoughts[n]
        BY <1>2, <3>3 DEF Last
      <4> QED BY <1>5, <2>1, <4>1
    <3> QED BY <3>1, <3>2, <3>3
  <2>2. CASE x # e
    <3>1. lastThought'[x] = lastThought[x] /\ (x \in blind => x \in blind')
      BY <1>5, <2>2
    <3> QED BY <3>1 DEF ThoughtsInv, LastIsLatest
  <2> QED BY <2>1, <2>2
<1> QED BY <1>6, <1>9, <1>11, <1>12 DEF ThoughtsInv

\* A new thought is the last one.
LEMMA StoreKeeps ==
    ASSUME ThoughtsInv, NEW e \in Engines, NEW t \in Thought, StoreThought(e, t)
    PROVE  ThoughtsInv'
<1>1. /\ e \in asking /\ NewThought(t)
      /\ thoughts' = Append(thoughts, t)
      /\ parent' = [parent EXCEPT ![t] = lastThought[e]]
      /\ lastThought' = [lastThought EXCEPT ![e] = t]
      /\ asking' = asking \ {e}
      /\ author' = [author EXCEPT ![t] = e]
      /\ blind' = IF e \in blind /\ lastThought[e] = NoThought THEN blind \cup {t} ELSE blind
  BY DEF StoreThought
<1>2. t \notin StoredThoughts
  BY <1>1 DEF NewThought
<1>3. PICK n \in Nat : n = Len(thoughts) /\ DOMAIN thoughts = 1 .. n
  BY DEF ThoughtsInv, ThoughtsTypeOK
<1>4. /\ thoughts' \in Seq(Thought) /\ Injective(thoughts') /\ StoredThoughts' = StoredThoughts \cup {t}
      /\ Len(thoughts') = n + 1 /\ DOMAIN thoughts' = 1 .. n + 1
      /\ thoughts'[n + 1] = t /\ \A i \in 1 .. n : thoughts'[i] = thoughts[i]
  <2>1. thoughts \in Seq(Thought) /\ Injective(thoughts)
    BY DEF ThoughtsInv, ThoughtsTypeOK
  <2>2. Injective(thoughts') /\ StoredThoughts' = StoredThoughts \cup {t}
    BY <1>1, <1>2, <2>1, AppendElements, InjectiveAppend DEF StoredThoughts
  <2> QED BY <1>1, <1>3, <2>1, <2>2
<1>5. \A i \in 1 .. n : thoughts[i] \in Thought \ {t} /\ thoughts[i] \in StoredThoughts
  BY <1>2, <1>3 DEF StoredThoughts, Elements, ThoughtsInv, ThoughtsTypeOK
<1>6. /\ lastThought[e] # Down /\ lastThought[e] \in StoredThoughts \cup {NoThought}
      /\ t \notin {NoThought, Down}
  BY <1>1, ThoughtsAssumption DEF ThoughtsInv, LastIsStored, Down
<1>7. /\ parent'[t] = lastThought[e] /\ author'[t] = e /\ lastThought'[e] = t
      /\ \A x \in Thought \ {t} : parent'[x] = parent[x] /\ author'[x] = author[x]
      /\ \A x \in Engines \ {e} : lastThought'[x] = lastThought[x]
  BY <1>1 DEF ThoughtsInv, ThoughtsTypeOK
<1>8. ThoughtsTypeOK'
  <2>1. lastThought[e] \in Thought \cup {NoThought}
    BY <1>5, <1>6 DEF ThoughtsInv, ThoughtsTypeOK
  <2>2. /\ parent' \in [Thought -> Thought \cup {NoThought}]
        /\ lastThought' \in [Engines -> Thought \cup {NoThought, Down}]
        /\ author' \in [Thought -> Engines \cup {NoThought}]
    BY <1>1, <2>1 DEF ThoughtsInv, ThoughtsTypeOK
  <2>3. asking' \subseteq Engines /\ blind' \subseteq Engines \cup Thought
    BY <1>1 DEF ThoughtsInv, ThoughtsTypeOK
  <2> QED BY <1>4, <2>2, <2>3 DEF ThoughtsTypeOK
<1>9. \A i \in 1 .. n + 1 : i \in 1 .. n \/ i = n + 1
  OBVIOUS
<1>10. lastThought[e] = NoThought \/ \E k \in 1 .. n : lastThought[e] = thoughts[k]
  BY <1>3, <1>6 DEF StoredThoughts, Elements
<1>11. ParentsAreEarlier'
  <2> SUFFICES ASSUME NEW i \in 1 .. n + 1
               PROVE  \/ parent'[thoughts'[i]] = NoThought
                      \/ \E j \in 1 .. i - 1 : parent'[thoughts'[i]] = thoughts'[j]
    BY <1>4 DEF ParentsAreEarlier
  <2>1. CASE i \in 1 .. n
    <3>1. parent'[thoughts'[i]] = parent[thoughts[i]]
      BY <1>4, <1>5, <1>7, <2>1
    <3>2. \A j \in 1 .. i - 1 : thoughts'[j] = thoughts[j]
      BY <1>4, <2>1
    <3> QED BY <1>3, <2>1, <3>1, <3>2 DEF ThoughtsInv, ParentsAreEarlier
  <2>2. CASE i = n + 1
    <3>1. parent'[thoughts'[i]] = lastThought[e] /\ i - 1 = n
      BY <1>4, <1>7, <2>2
    <3> QED BY <1>4, <1>10, <3>1
  <2> QED BY <1>9, <2>1, <2>2
<1>12. NoneLeftOut'
  <2> SUFFICES ASSUME NEW i \in 1 .. n + 1, NEW j \in 1 .. i - 1,
                      author'[thoughts'[j]] = author'[thoughts'[i]]
               PROVE  \/ thoughts'[i] \in blind'
                      \/ \E k \in j .. i - 1 : parent'[thoughts'[i]] = thoughts'[k]
    BY <1>4 DEF NoneLeftOut
  <2>1. j \in 1 .. n
    BY <1>3
  <2>2. thoughts'[j] = thoughts[j] /\ author'[thoughts'[j]] = author[thoughts[j]]
    BY <1>4, <1>5, <1>7, <2>1
  <2>3. CASE i \in 1 .. n
    <3>1. /\ parent'[thoughts'[i]] = parent[thoughts[i]] /\ author'[thoughts'[i]] = author[thoughts[i]]
          /\ thoughts'[i] = thoughts[i]
      BY <1>4, <1>5, <1>7, <2>3
    <3>2. \A k \in j .. i - 1 : thoughts'[k] = thoughts[k]
      BY <1>4, <2>1, <2>3
    <3>3. \/ thoughts[i] \in blind
          \/ \E k \in j .. i - 1 : parent[thoughts[i]] = thoughts[k]
      BY <1>3, <2>2, <2>3, <3>1 DEF ThoughtsInv, NoneLeftOut
    <3>4. blind \subseteq blind'
      BY <1>1
    <3> QED BY <3>1, <3>2, <3>3, <3>4
  <2>4. CASE i = n + 1
    <3>1. thoughts'[i] = t /\ parent'[t] = lastThought[e] /\ author[thoughts[j]] = e
      BY <1>4, <1>7, <2>2, <2>4
    <3>2. \/ e \in blind /\ lastThought[e] = NoThought
          \/ \E k \in j .. n : lastThought[e] = thoughts[k]
      BY <1>3, <1>6, <2>1, <3>1 DEF ThoughtsInv, LastIsLatest
    <3>3. CASE e \in blind /\ lastThought[e] = NoThought
      BY <1>1, <3>1, <3>3
    <3>4. CASE \E k \in j .. n : lastThought[e] = thoughts[k]
      <4>1. PICK k \in j .. n : lastThought[e] = thoughts[k]
        BY <3>4
      <4>2. k \in j .. i - 1 /\ thoughts'[k] = thoughts[k]
        BY <1>4, <2>1, <2>4
      <4> QED BY <3>1, <4>1, <4>2
    <3> QED BY <3>2, <3>3, <3>4
  <2> QED BY <1>9, <2>3, <2>4
<1>13. LastIsStored'
  BY <1>1, <1>4, <1>6, <1>7 DEF ThoughtsInv, LastIsStored, ThoughtsTypeOK
<1>14. LastIsLatest'
  <2> SUFFICES ASSUME NEW x \in Engines, NEW j \in 1 .. n + 1,
                      lastThought'[x] # Down, author'[thoughts'[j]] = x
               PROVE  \/ x \in blind' /\ lastThought'[x] = NoThought
                      \/ \E k \in j .. n + 1 : lastThought'[x] = thoughts'[k]
    BY <1>4 DEF LastIsLatest
  <2>1. CASE x = e
    <3>1. n + 1 \in j .. n + 1 /\ lastThought'[x] = thoughts'[n + 1]
      BY <1>4, <1>7, <2>1
    <3> QED BY <3>1
  <2>2. CASE x # e
    <3>1. j \in 1 .. n
      BY <1>4, <1>7, <1>9, <2>2
    <3>2. lastThought'[x] = lastThought[x] /\ author[thoughts[j]] = x
      BY <1>4, <1>5, <1>7, <2>2, <3>1
    <3>3. \/ x \in blind /\ lastThought[x] = NoThought
          \/ \E k \in j .. n : lastThought[x] = thoughts[k]
      BY <1>3, <3>1, <3>2 DEF ThoughtsInv, LastIsLatest
    <3>4. CASE x \in blind /\ lastThought[x] = NoThought
      BY <1>1, <3>2, <3>4
    <3>5. CASE \E k \in j .. n : lastThought[x] = thoughts[k]
      <4>1. PICK k \in j .. n : lastThought[x] = thoughts[k]
        BY <3>5
      <4>2. k \in j .. n + 1 /\ thoughts'[k] = thoughts[k]
        BY <1>4, <3>1
      <4> QED BY <3>2, <4>1, <4>2
    <3> QED BY <3>3, <3>4, <3>5
  <2> QED BY <2>1, <2>2
<1> QED BY <1>8, <1>11, <1>12, <1>13, <1>14 DEF ThoughtsInv

LEMMA NextThoughtsInv ==
    ASSUME ThoughtsInv, [ThoughtsNext]_thoughtVars
    PROVE  ThoughtsInv'
<1>1. ASSUME NEW e \in Engines, StartEngine(e) PROVE ThoughtsInv'
  <2>1. CASE thoughts = <<>>
    BY <1>1, <2>1, LoadsKeeps DEF StartEngine, Loads
  <2>2. CASE thoughts # <<>>
    BY <1>1, <2>2, LoadsKeeps DEF StartEngine, Loads
  <2> QED BY <2>1, <2>2
<1>2. ASSUME NEW e \in Engines, StartEngineBlind(e) PROVE ThoughtsInv'
  BY <1>2, LoadsKeeps DEF StartEngineBlind, Loads
<1>3. ASSUME NEW e \in Engines, AskModel(e) PROVE ThoughtsInv'
  BY <1>3 DEF AskModel, ThoughtsInv, ThoughtsTypeOK, ParentsAreEarlier, NoneLeftOut, LastIsStored,
              LastIsLatest, StoredThoughts
<1>4. ASSUME NEW e \in Engines, ThinkingFails(e) PROVE ThoughtsInv'
  BY <1>4 DEF ThinkingFails, ThoughtsInv, ThoughtsTypeOK, ParentsAreEarlier, NoneLeftOut,
              LastIsStored, LastIsLatest, StoredThoughts
<1>5. ASSUME NEW e \in Engines, StopEngine(e) PROVE ThoughtsInv'
  <2>1. /\ lastThought' = [lastThought EXCEPT ![e] = Down] /\ asking' = asking \ {e}
        /\ UNCHANGED <<thoughts, parent, author, blind>>
    BY <1>5 DEF StopEngine
  <2>2. /\ lastThought' \in [Engines -> Thought \cup {NoThought, Down}]
        /\ lastThought'[e] = Down
        /\ \A x \in Engines \ {e} : lastThought'[x] = lastThought[x]
    BY <2>1 DEF ThoughtsInv, ThoughtsTypeOK
  <2>3. ThoughtsTypeOK' /\ ParentsAreEarlier' /\ NoneLeftOut'
    BY <2>1, <2>2 DEF ThoughtsInv, ThoughtsTypeOK, ParentsAreEarlier, NoneLeftOut
  <2>4. LastIsStored' /\ LastIsLatest'
    BY <2>1, <2>2 DEF ThoughtsInv, ThoughtsTypeOK, LastIsStored, LastIsLatest, StoredThoughts
  <2> QED BY <2>3, <2>4 DEF ThoughtsInv
<1>6. ASSUME NEW e \in Engines, NEW t \in Thought, StoreThought(e, t) PROVE ThoughtsInv'
  BY <1>6, StoreKeeps
<1>7. CASE UNCHANGED thoughtVars
  BY <1>7 DEF thoughtVars, ThoughtsInv, ThoughtsTypeOK, ParentsAreEarlier, NoneLeftOut,
              LastIsStored, LastIsLatest, StoredThoughts
<1> QED BY <1>1, <1>2, <1>3, <1>4, <1>5, <1>6, <1>7 DEF ThoughtsNext

----------------------------------------------------------------------------
(* The chain that is shown: the walk up to where there is no row.          *)
LEMMA PlaceOfThought ==
    ASSUME ThoughtsTypeOK, NEW i \in DOMAIN thoughts
    PROVE  PlaceOf(thoughts[i]) = i
BY DEF ThoughtsTypeOK, Injective, PlaceOf

LEMMA ParentIsEarlier ==
    ASSUME ThoughtsInv, NEW t \in StoredThoughts, parent[t] # NoThought
    PROVE  parent[t] \in StoredThoughts /\ PlaceOf(parent[t]) < PlaceOf(t)
<1>1. PICK n \in Nat : n = Len(thoughts) /\ DOMAIN thoughts = 1 .. n
  BY DEF ThoughtsInv, ThoughtsTypeOK
<1>2. PICK i \in DOMAIN thoughts : t = thoughts[i]
  BY DEF StoredThoughts, Elements
<1>3. PICK j \in 1 .. i - 1 : parent[t] = thoughts[j]
  BY <1>2 DEF ThoughtsInv, ParentsAreEarlier
<1>4. j \in DOMAIN thoughts /\ j < i
  BY <1>1
<1>5. PlaceOf(t) = i /\ PlaceOf(parent[t]) = j
  BY <1>2, <1>3, <1>4, PlaceOfThought DEF ThoughtsInv
<1> QED BY <1>3, <1>4, <1>5 DEF StoredThoughts, Elements

LEMMA WalkedShape ==
    ASSUME ThoughtsInv, NEW t \in StoredThoughts
    PROVE  \E m \in 1 .. MaxDepth :
               /\ \A n \in 1 .. m : WalkedUp(t)[n] \in StoredThoughts
               /\ \A n \in m + 1 .. MaxDepth : WalkedUp(t)[n] = NoThought
               /\ m = MaxDepth \/ parent[WalkedUp(t)[m]] = NoThought
<1>0. MaxDepth \in Nat \ {0} /\ StoredThoughts \subseteq Thought /\ NoThought \notin StoredThoughts
  BY ThoughtsAssumption DEF StoredThoughts, Elements, ThoughtsInv, ThoughtsTypeOK
<1>1. PICK w : w = WalkedUp(t)
  OBVIOUS
<1>2. /\ w[1] = t
      /\ \A n \in 1 .. MaxDepth - 1 :
             w[n + 1] = IF w[n] \in StoredThoughts THEN parent[w[n]] ELSE NoThought
  BY <1>1, WalkedSteps
<1> DEFINE T == {n \in 1 .. MaxDepth : w[n] \notin StoredThoughts}
<1>3. CASE T = {}
  <2>1. \A n \in 1 .. MaxDepth : w[n] \in StoredThoughts
    BY <1>3
  <2>2. MaxDepth \in 1 .. MaxDepth /\ \A n \in MaxDepth + 1 .. MaxDepth : FALSE
    BY <1>0
  <2> QED BY <1>1, <2>1, <2>2
<1>4. CASE T # {}
  <2>1. T \in SUBSET Nat
    BY <1>0
  <2>2. PICK x \in T : \A y \in T : x <= y
    BY <1>4, <2>1, Smallest
  <2>3. x \in 1 .. MaxDepth /\ w[x] \notin StoredThoughts /\ x # 1
    BY <1>2, <2>2
  <2>4. PICK m \in 1 .. MaxDepth - 1 : x = m + 1
    <3>1. x - 1 \in 1 .. MaxDepth - 1 /\ x = (x - 1) + 1
      BY <1>0, <2>3
    <3> QED BY <3>1
  <2>5. ASSUME NEW n \in 1 .. m PROVE w[n] \in StoredThoughts
    <3>1. n \in 1 .. MaxDepth /\ ~(x <= n)
      BY <1>0, <2>4
    <3> QED BY <2>2, <3>1
  <2>6. m \in 1 .. m /\ m \in 1 .. MaxDepth
    BY <1>0
  <2>7. w[m] \in StoredThoughts /\ w[x] = parent[w[m]]
    BY <1>2, <2>4, <2>5, <2>6
  <2>8. parent[w[m]] = NoThought
    BY <2>3, <2>7, ParentIsEarlier
  <2> DEFINE N == {k \in Nat : m + 1 + k <= MaxDepth => w[m + 1 + k] = NoThought}
  <2>9. 0 \in N
    BY <2>4, <2>7, <2>8
  <2>10. ASSUME NEW k \in Nat, k \in N PROVE k + 1 \in N
    <3> SUFFICES ASSUME m + 1 + (k + 1) <= MaxDepth PROVE w[m + 1 + (k + 1)] = NoThought
      OBVIOUS
    <3>1. PICK n \in 1 .. MaxDepth - 1 : n = m + 1 + k
      <4>1. m + 1 + k \in 1 .. MaxDepth - 1
        BY <1>0
      <4> QED BY <4>1
    <3>2. w[n] = NoThought /\ m + 1 + (k + 1) = n + 1
      BY <1>0, <2>10, <3>1
    <3> QED BY <1>0, <1>2, <3>1, <3>2
  <2>11. Nat \subseteq N
    <3> HIDE DEF N
    <3> QED BY <2>9, <2>10, NatSetInduction
  <2>12. ASSUME NEW n \in m + 1 .. MaxDepth PROVE w[n] = NoThought
    <3>1. PICK k \in Nat : n = m + 1 + k
      <4>1. n - (m + 1) \in Nat /\ n = m + 1 + (n - (m + 1))
        OBVIOUS
      <4> QED BY <4>1
    <3> QED BY <1>0, <2>11, <3>1
  <2> QED BY <1>1, <2>5, <2>6, <2>8, <2>12
<1> QED BY <1>3, <1>4

\* The chain is the walk backwards, without the end that is none.
LEMMA ChainIsWalk ==
    ASSUME ThoughtsInv, NEW t \in StoredThoughts
    PROVE  \E m \in 1 .. MaxDepth :
               /\ ThoughtChain(t) = [n \in 1 .. m |-> WalkedUp(t)[m - n + 1]]
               /\ \A n \in 1 .. m : WalkedUp(t)[n] \in StoredThoughts
               /\ m = MaxDepth \/ parent[WalkedUp(t)[m]] = NoThought
<1> DEFINE S == Thought \cup {NoThought}
<1>0. MaxDepth \in Nat \ {0} /\ StoredThoughts \subseteq Thought /\ NoThought \notin StoredThoughts
  BY ThoughtsAssumption DEF StoredThoughts, Elements, ThoughtsInv, ThoughtsTypeOK
<1>1. PICK m \in 1 .. MaxDepth :
          /\ \A n \in 1 .. m : WalkedUp(t)[n] \in StoredThoughts
          /\ \A n \in m + 1 .. MaxDepth : WalkedUp(t)[n] = NoThought
          /\ m = MaxDepth \/ parent[WalkedUp(t)[m]] = NoThought
  BY WalkedShape
<1>2. PICK w : w = WalkedUp(t)
  OBVIOUS
<1>3. w \in Seq(S) /\ Len(w) = MaxDepth
  <2>1. \A n \in 1 .. MaxDepth : w[n] \in S
    <3> SUFFICES ASSUME NEW n \in 1 .. MaxDepth PROVE w[n] \in S
      OBVIOUS
    <3>1. n \in 1 .. m \/ n \in m + 1 .. MaxDepth
      BY <1>0
    <3> QED BY <1>0, <1>1, <1>2, <3>1
  <2>2. w = [n \in 1 .. MaxDepth |-> w[n]]
    BY <1>2 DEF WalkedUp
  <2>3. w \in [1 .. MaxDepth -> S]
    BY <2>1, <2>2
  <2> QED BY <1>0, <2>3
<1>4. PICK first, last : first = SubSeq(w, 1, m) /\ last = SubSeq(w, m + 1, MaxDepth)
  OBVIOUS
<1>5. /\ 1 \in 1 .. Len(w) + 1 /\ m \in 1 - 1 .. Len(w)
      /\ m + 1 \in 1 .. Len(w) + 1 /\ MaxDepth \in (m + 1) - 1 .. Len(w)
      /\ MaxDepth \in m .. Len(w)
  BY <1>0, <1>3
<1> HIDE DEF S
<1>6. first \in Seq(S) /\ last \in Seq(S) /\ Len(first) = m /\ Len(last) = MaxDepth - m
  <2>1. first \in Seq(S) /\ Len(first) = m - 1 + 1
    BY <1>3, <1>4, <1>5, PartElements
  <2>2. last \in Seq(S) /\ Len(last) = MaxDepth - (m + 1) + 1
    BY <1>3, <1>4, <1>5, PartElements
  <2> QED BY <1>0, <2>1, <2>2
<1>7. first \o last = w
  <2>1. first \o last = SubSeq(w, 1, MaxDepth)
    BY <1>3, <1>4, <1>5, ConcatAdjacentSubSeq
  <2> QED BY <1>3, <2>1, SubSeqFull
<1>8. /\ \A n \in 1 .. m : first[n] = w[n]
      /\ \A n \in 1 .. MaxDepth - m : last[n] = w[m + n]
  <2>1. m \in Int /\ MaxDepth \in Int
    BY <1>0
  <2>2. PICK k \in Int : k = m + 1
    BY <2>1
  <2>3. /\ \A n \in 1 .. m : w[n] \in S
        /\ \A n \in k .. MaxDepth : w[n] \in S
    BY <1>0, <1>3, <2>2
  <2>4. \A n \in 1 .. m - 1 + 1 : first[n] = w[1 + n - 1]
    BY <1>4, <2>1, <2>3, SubSeqProperties
  <2>5. \A n \in 1 .. MaxDepth - k + 1 : last[n] = w[k + n - 1]
    BY <1>4, <2>1, <2>2, <2>3, SubSeqProperties
  <2>6. ASSUME NEW n \in 1 .. m PROVE first[n] = w[n]
    <3>1. n \in 1 .. m - 1 + 1 /\ 1 + n - 1 = n
      OBVIOUS
    <3> QED BY <2>4, <3>1
  <2>7. ASSUME NEW n \in 1 .. MaxDepth - m PROVE last[n] = w[m + n]
    <3>1. n \in 1 .. MaxDepth - k + 1 /\ k + n - 1 = m + n
      BY <1>0, <2>2
    <3> QED BY <2>5, <3>1
  <2> QED BY <2>6, <2>7
<1>9. Elements(first) \subseteq StoredThoughts
  <2>1. DOMAIN first = 1 .. m
    BY <1>6
  <2> QED BY <1>1, <1>2, <1>8, <2>1 DEF Elements
<1>10. Elements(last) \cap StoredThoughts = {}
  <2>1. DOMAIN last = 1 .. MaxDepth - m
    BY <1>6
  <2>2. \A n \in 1 .. MaxDepth - m : m + n \in m + 1 .. MaxDepth
    BY <1>0
  <2>3. \A n \in 1 .. MaxDepth - m : last[n] = NoThought
    BY <1>1, <1>2, <1>8, <2>2
  <2> QED BY <1>0, <2>1, <2>3 DEF Elements
<1>11. Filter(w, StoredThoughts) = first
  <2>1. Filter(first \o last, StoredThoughts)
            = Filter(first, StoredThoughts) \o Filter(last, StoredThoughts)
    BY <1>6, FilterConcat
  <2>2. Filter(first, StoredThoughts) = first
    BY <1>6, <1>9, FilterAll
  <2>3. Filter(last, StoredThoughts) = <<>>
    BY <1>6, <1>10, FilterNone
  <2>4. first \o <<>> = first
    BY <1>6, ConcatEmptySeq
  <2> QED BY <1>7, <2>1, <2>2, <2>3, <2>4
<1>12. ThoughtChain(t) = [n \in 1 .. m |-> first[(m - n) + 1]]
  BY <1>2, <1>6, <1>11 DEF ThoughtChain, Reverse
<1>13. \A n \in 1 .. m : first[(m - n) + 1] = w[m - n + 1]
  <2> SUFFICES ASSUME NEW n \in 1 .. m PROVE first[(m - n) + 1] = w[m - n + 1]
    OBVIOUS
  <2>1. m - n + 1 \in 1 .. m
    OBVIOUS
  <2> QED BY <1>8, <2>1
<1>14. ThoughtChain(t) = [n \in 1 .. m |-> w[m - n + 1]]
  BY <1>12, <1>13
<1> QED BY <1>1, <1>2, <1>14

LEMMA ChainsFromInv ==
    ASSUME ThoughtsInv PROVE ChainsGoOn
<1> SUFFICES ASSUME NEW i \in DOMAIN thoughts, NEW t, t = thoughts[i],
                    NEW chain, chain = ThoughtChain(t),
                    NEW from, from = IF parent[t] = NoThought THEN 0 ELSE PlaceOf(parent[t])
             PROVE  /\ from < i
                    /\ \A j \in from + 1 .. i - 1 :
                          author[thoughts[j]] = author[t] => t \in blind
                    /\ \A n \in 1 .. Len(chain) - 1 : PlaceOf(chain[n]) < PlaceOf(chain[n + 1])
                    /\ chain # <<>> /\ Last(chain) = t
                    /\ Len(chain) = MaxDepth \/ parent[Head(chain)] = NoThought
  BY DEF ChainsGoOn
<1>0. PICK l \in Nat : l = Len(thoughts) /\ DOMAIN thoughts = 1 .. l
  BY DEF ThoughtsInv, ThoughtsTypeOK
<1>1. t \in StoredThoughts /\ PlaceOf(t) = i /\ i \in 1 .. l
  BY <1>0, PlaceOfThought DEF StoredThoughts, Elements, ThoughtsInv
<1>2. from \in 0 .. l /\ from < i /\ (parent[t] # NoThought => from = PlaceOf(parent[t]))
  <2>1. CASE parent[t] = NoThought
    BY <1>1, <2>1
  <2>2. CASE parent[t] # NoThought
    <3>1. parent[t] \in StoredThoughts /\ from = PlaceOf(parent[t]) /\ from < i
      BY <1>1, <2>2, ParentIsEarlier
    <3>2. from \in DOMAIN thoughts
      BY <3>1, PlaceOfThought DEF StoredThoughts, Elements, ThoughtsInv
    <3> QED BY <1>0, <3>1, <3>2
  <2> QED BY <2>1, <2>2
<1>3. ASSUME NEW j \in from + 1 .. i - 1, author[thoughts[j]] = author[t], t \notin blind
      PROVE  FALSE
  <2>1. j \in 1 .. i - 1
    BY <1>1, <1>2
  <2>2. PICK k \in j .. i - 1 : parent[t] = thoughts[k]
    BY <1>3, <2>1 DEF ThoughtsInv, NoneLeftOut
  <2>3. k \in 1 .. l /\ k \in DOMAIN thoughts
    BY <1>0, <1>1, <2>1
  <2>4. parent[t] # NoThought
    BY <2>2, <2>3, ThoughtsAssumption DEF ThoughtsInv, ThoughtsTypeOK
  <2>5. from = k
    BY <1>2, <2>2, <2>3, <2>4, PlaceOfThought DEF ThoughtsInv
  <2> QED BY <1>1, <1>2, <2>5
<1>4. PICK w : w = WalkedUp(t)
  OBVIOUS
<1>5. PICK m \in 1 .. MaxDepth :
          /\ chain = [n \in 1 .. m |-> w[m - n + 1]]
          /\ \A n \in 1 .. m : w[n] \in StoredThoughts
          /\ m = MaxDepth \/ parent[w[m]] = NoThought
  BY <1>1, <1>4, ChainIsWalk
<1>6. MaxDepth \in Nat \ {0} /\ m \in Nat \ {0}
  BY ThoughtsAssumption
<1>7. w[1] = t /\ \A n \in 1 .. MaxDepth - 1 :
          w[n + 1] = IF w[n] \in StoredThoughts THEN parent[w[n]] ELSE NoThought
  BY <1>4, WalkedSteps
<1>8. /\ Len(chain) = m /\ chain # <<>> /\ DOMAIN chain = 1 .. m
      /\ chain[1] = w[m] /\ chain[m] = w[1]
  <2>1. 1 \in 1 .. m /\ m \in 1 .. m /\ m - 1 + 1 = m /\ m - m + 1 = 1
    BY <1>6
  <2>2. DOMAIN chain = 1 .. m /\ chain[1] = w[m] /\ chain[m] = w[1]
    BY <1>5, <2>1
  <2>3. chain \in Seq(StoredThoughts)
    <3>1. \A n \in 1 .. m : chain[n] \in StoredThoughts
      <4> SUFFICES ASSUME NEW n \in 1 .. m PROVE chain[n] \in StoredThoughts
        OBVIOUS
      <4>1. m - n + 1 \in 1 .. m /\ chain[n] = w[m - n + 1]
        BY <1>5, <1>6
      <4> QED BY <1>5, <4>1
    <3>2. chain \in [1 .. m -> StoredThoughts]
      BY <1>5, <3>1
    <3> QED BY <1>6, <3>2
  <2>4. Len(chain) = m
    BY <1>6, <2>2, <2>3
  <2> QED BY <1>6, <2>2, <2>3, <2>4
<1>9. ASSUME NEW n \in 1 .. m - 1
      PROVE  PlaceOf(chain[n]) < PlaceOf(chain[n + 1])
  <2>1. PICK q \in 1 .. m - 1 : q = m - n
    <3>1. m - n \in 1 .. m - 1
      BY <1>6
    <3> QED BY <3>1
  <2>2. n \in 1 .. m /\ n + 1 \in 1 .. m /\ q \in 1 .. m /\ q + 1 \in 1 .. m /\ q \in 1 .. MaxDepth - 1
    BY <1>6, <2>1
  <2>3. m - n + 1 = q + 1 /\ m - (n + 1) + 1 = q
    BY <1>6, <2>1
  <2>4. chain[n] = w[q + 1] /\ chain[n + 1] = w[q]
    BY <1>5, <2>2, <2>3
  <2>5. w[q] \in StoredThoughts /\ w[q + 1] \in StoredThoughts /\ w[q + 1] = parent[w[q]]
    BY <1>5, <1>7, <2>2
  <2>6. parent[w[q]] # NoThought
    BY <2>5, ThoughtsAssumption DEF StoredThoughts, Elements, ThoughtsInv, ThoughtsTypeOK
  <2> QED BY <2>4, <2>5, <2>6, ParentIsEarlier
<1>10. Last(chain) = t
  BY <1>7, <1>8 DEF Last
<1>11. Len(chain) = MaxDepth \/ parent[Head(chain)] = NoThought
  <2>1. Head(chain) = chain[1]
    BY <1>8
  <2> QED BY <1>5, <1>8, <2>1
<1> QED BY <1>2, <1>3, <1>8, <1>9, <1>10, <1>11

----------------------------------------------------------------------------
\* The invariant of the thinking engine.
THEOREM ThoughtsInvariant == ThoughtsSpec => []ThoughtsInv
<1>1. ThoughtsInit => ThoughtsInv
  BY InitThoughtsInv
<1>2. ThoughtsInv /\ [ThoughtsNext]_thoughtVars => ThoughtsInv'
  BY NextThoughtsInv
<1> QED BY <1>1, <1>2, PTL DEF ThoughtsSpec

\* Thoughts, their parents and the engines have their types.
THEOREM ThoughtsTypeCorrect == ThoughtsSpec => []ThoughtsTypeOK
<1>1. ThoughtsInv => ThoughtsTypeOK
  BY DEF ThoughtsInv
<1> QED BY <1>1, ThoughtsInvariant, PTL

\* Every thought goes on from the one before of its engine or from a later one, and
\* its chain is in order and whole, for any number of processes and thoughts.
THEOREM ChainsAreWhole == ThoughtsSpec => []ChainsGoOn
<1>1. ThoughtsInv => ChainsGoOn
  BY ChainsFromInv
<1> QED BY <1>1, ThoughtsInvariant, PTL

----------------------------------------------------------------------------
(***************************************************************************)
(* The distributed task queue.                                             *)
(***************************************************************************)

(* The inductive invariant.                                                *)

\* A worker past its claim holds a task.
BusyHolds ==
    \A w \in Workers :
        pc[w] \in {"executing", "succeeded", "raised"} => job[w] # NoTask

\* A held task has been run once if its holder has called the handler, never if
\* it has not, and has a result exactly when that handler returned.
WorkIsCounted ==
    \A w \in Workers :
        job[w] # NoTask =>
            /\ runs[job[w]] = IF pc[w] = "claimed" THEN 0 ELSE 1
            /\ job[w] \in returned <=> pc[w] = "succeeded"

\* Nobody has run a task that nobody has claimed.
UnclaimedUntouched ==
    \A t \in Tasks :
        status[t] \in {"unknown", "pending"} => runs[t] = 0 /\ t \notin returned

IInv ==
    /\ TypeOK
    /\ HolderIsClaimer
    /\ BusyHolds
    /\ WorkIsCounted
    /\ UnclaimedUntouched
    /\ AtMostOnce
    /\ OutcomeIsTrue

\* The rank of created_at is a natural number.
LEMMA RankIsNat ==
    ASSUME NEW t \in Tasks
    PROVE  Cardinality({u \in Tasks : status[u] # "unknown"}) + 1 \in Nat
<1>1. IsFiniteSet({u \in Tasks : status[u] # "unknown"})
  BY FS_Subset, QueueAssumption DEF QueueAssumption
<1> QED
  BY <1>1, FS_CardinalityType

\* The initial states satisfy the invariant.
LEMMA InitIInv == Init => IInv
  BY QueueAssumption
  DEF QueueAssumption, Init, IInv, TypeOK, HolderIsClaimer, BusyHolds,
      WorkIsCounted, UnclaimedUntouched, AtMostOnce, OutcomeIsTrue,
      TaskStatuses, WorkerPCs, Finished, Working

\* Submitting a task keeps the invariant.
LEMMA SubmitIInv ==
    ASSUME IInv, NEW t \in Tasks, Submit(t)
    PROVE  IInv'
<1> USE QueueAssumption DEF QueueAssumption, IInv, TypeOK, Finished, Working
<1>1. /\ \A u \in Tasks : status'[u] = IF u = t THEN "pending" ELSE status[u]
      /\ status[t] = "unknown"
      /\ UNCHANGED <<claimedBy, pc, job, running, faults, runs, returned, struck>>
  BY DEF Submit, IInv, TypeOK
<1>2. TypeOK'
  BY <1>1, RankIsNat DEF Submit, IInv, TypeOK, TaskStatuses, WorkerPCs, Finished
<1>3. HolderIsClaimer'
  BY <1>1 DEF HolderIsClaimer
<1>4. BusyHolds'
  BY <1>1 DEF BusyHolds
<1>5. WorkIsCounted'
  BY <1>1 DEF WorkIsCounted
<1>6. UnclaimedUntouched'
  BY <1>1 DEF UnclaimedUntouched
<1>7. AtMostOnce'
  BY <1>1 DEF AtMostOnce
<1>8. OutcomeIsTrue'
  BY <1>1 DEF OutcomeIsTrue
<1> QED
  BY <1>2, <1>3, <1>4, <1>5, <1>6, <1>7, <1>8 DEF IInv

\* Claiming keeps the invariant.
LEMMA ClaimIInv ==
    ASSUME IInv, NEW w \in Workers, Claim(w)
    PROVE  IInv'
<1> USE QueueAssumption DEF QueueAssumption, IInv, TypeOK, Finished, Working
<1>1. /\ pc[w] = "claiming"
      /\ \A v \in Workers : pc'[v] = IF v = w THEN "claimed" ELSE pc[v]
      /\ \A v \in Workers \ {w} : job'[v] = job[v]
      /\ UNCHANGED <<created, running, faults, runs, returned, struck>>
  BY DEF Claim, IInv, TypeOK
<1>2. \/ /\ job'[w] = NoTask
         /\ UNCHANGED <<status, claimedBy>>
      \/ \E t \in Tasks :
            /\ job'[w] = t
            /\ status[t] = "pending"
            /\ \A u \in Tasks : /\ status'[u] = IF u = t THEN "claimed" ELSE status[u]
                                /\ claimedBy'[u] = IF u = t THEN {w} ELSE claimedBy[u]
  BY DEF Claim, Claimable, IInv, TypeOK
<1>3. TypeOK'
  BY DEF Claim, Claimable, IInv, TypeOK, TaskStatuses, WorkerPCs, Finished
<1>4. HolderIsClaimer'
  BY <1>1, <1>2 DEF HolderIsClaimer
<1>5. BusyHolds'
  BY <1>1, <1>2 DEF BusyHolds
<1>6. WorkIsCounted'
  BY <1>1, <1>2 DEF WorkIsCounted, BusyHolds, HolderIsClaimer, WorkIsCounted, UnclaimedUntouched
<1>7. UnclaimedUntouched'
  BY <1>1, <1>2 DEF UnclaimedUntouched
<1>8. AtMostOnce'
  BY <1>1, <1>2 DEF AtMostOnce
<1>9. OutcomeIsTrue'
  BY <1>1, <1>2 DEF OutcomeIsTrue
<1> QED
  BY <1>3, <1>4, <1>5, <1>6, <1>7, <1>8, <1>9 DEF IInv

\* Hearing of the claim keeps the invariant.
LEMMA ClaimAnsweredIInv ==
    ASSUME IInv, NEW w \in Workers, ClaimAnswered(w)
    PROVE  IInv'
<1> USE QueueAssumption DEF QueueAssumption, IInv, TypeOK, Finished, Working
<1>1. /\ pc[w] = "claimed"
      /\ \A v \in Workers \ {w} : pc'[v] = pc[v]
      /\ UNCHANGED <<status, claimedBy, created, job, running, faults, returned, struck>>
  BY DEF ClaimAnswered, IInv, TypeOK, table
<1>2. \/ /\ job[w] = NoTask
         /\ pc'[w] = "sleeping"
         /\ UNCHANGED runs
      \/ \E t \in Tasks :
            /\ job[w] = t
            /\ pc'[w] = "executing"
            /\ \A u \in Tasks : runs'[u] = IF u = t THEN runs[u] + 1 ELSE runs[u]
  BY DEF ClaimAnswered, IInv, TypeOK
<1>3. TypeOK'
  <2>1. \A t \in Tasks : runs[t] + 1 \in Nat
    BY DEF IInv, TypeOK
  <2>2. /\ pc' \in [Workers -> WorkerPCs]
        /\ runs' \in [Tasks -> Nat]
    BY <2>1 DEF ClaimAnswered, IInv, TypeOK, WorkerPCs
  <2> QED
    BY <1>1, <2>2 DEF IInv, TypeOK
<1>4. HolderIsClaimer'
  BY <1>1, <1>2 DEF HolderIsClaimer
<1>5. BusyHolds'
  BY <1>1, <1>2 DEF BusyHolds
<1>6. WorkIsCounted'
  BY <1>1, <1>2 DEF WorkIsCounted, BusyHolds, HolderIsClaimer
<1>7. UnclaimedUntouched'
  BY <1>1, <1>2 DEF UnclaimedUntouched, BusyHolds, HolderIsClaimer
<1>8. AtMostOnce'
  BY <1>1, <1>2 DEF AtMostOnce, BusyHolds, HolderIsClaimer, WorkIsCounted, UnclaimedUntouched
<1>9. OutcomeIsTrue'
  BY <1>1, <1>2 DEF OutcomeIsTrue, BusyHolds, HolderIsClaimer
<1> QED
  BY <1>3, <1>4, <1>5, <1>6, <1>7, <1>8, <1>9 DEF IInv

\* A handler that returns keeps the invariant.
LEMMA HandlerReturnsIInv ==
    ASSUME IInv, NEW w \in Workers, HandlerReturns(w)
    PROVE  IInv'
<1> USE QueueAssumption DEF QueueAssumption, IInv, TypeOK, Finished, Working
<1>1. /\ pc[w] = "executing"
      /\ job[w] \in Tasks
  BY DEF HandlerReturns, IInv, TypeOK, BusyHolds
<1>2. /\ \A v \in Workers : pc'[v] = IF v = w THEN "succeeded" ELSE pc[v]
      /\ returned' = returned \cup {job[w]}
      /\ UNCHANGED <<status, claimedBy, created, job, running, faults, runs, struck>>
  BY DEF HandlerReturns, IInv, TypeOK, table
<1>3. TypeOK'
  BY <1>1, <1>2 DEF HandlerReturns, IInv, TypeOK, WorkerPCs
<1>4. HolderIsClaimer'
  BY <1>1, <1>2 DEF HolderIsClaimer
<1>5. BusyHolds'
  BY <1>1, <1>2 DEF BusyHolds
<1>6. WorkIsCounted'
  BY <1>1, <1>2 DEF WorkIsCounted, BusyHolds, HolderIsClaimer
<1>7. UnclaimedUntouched'
  BY <1>1, <1>2 DEF UnclaimedUntouched, BusyHolds, HolderIsClaimer
<1>8. AtMostOnce'
  BY <1>1, <1>2 DEF AtMostOnce
<1>9. OutcomeIsTrue'
  BY <1>1, <1>2 DEF OutcomeIsTrue, BusyHolds, HolderIsClaimer
<1> QED
  BY <1>3, <1>4, <1>5, <1>6, <1>7, <1>8, <1>9 DEF IInv

\* A handler that raises keeps the invariant.
LEMMA HandlerRaisesIInv ==
    ASSUME IInv, NEW w \in Workers, HandlerRaises(w)
    PROVE  IInv'
<1> USE QueueAssumption DEF QueueAssumption, IInv, TypeOK, Finished, Working
<1>1. /\ pc[w] = "executing"
      /\ job[w] \in Tasks
  BY DEF HandlerRaises, IInv, TypeOK, BusyHolds
<1>2. /\ \A v \in Workers : pc'[v] = IF v = w THEN "raised" ELSE pc[v]
      /\ UNCHANGED returned
      /\ UNCHANGED <<status, claimedBy, created, job, running, faults, runs, struck>>
  BY DEF HandlerRaises, IInv, TypeOK, table
<1>3. TypeOK'
  BY <1>1, <1>2 DEF HandlerRaises, IInv, TypeOK, WorkerPCs
<1>4. HolderIsClaimer'
  BY <1>1, <1>2 DEF HolderIsClaimer
<1>5. BusyHolds'
  BY <1>1, <1>2 DEF BusyHolds
<1>6. WorkIsCounted'
  BY <1>1, <1>2 DEF WorkIsCounted
<1>7. UnclaimedUntouched'
  BY <1>1, <1>2 DEF UnclaimedUntouched
<1>8. AtMostOnce'
  BY <1>1, <1>2 DEF AtMostOnce
<1>9. OutcomeIsTrue'
  BY <1>1, <1>2 DEF OutcomeIsTrue
<1> QED
  BY <1>3, <1>4, <1>5, <1>6, <1>7, <1>8, <1>9 DEF IInv

\* A report that reaches the table keeps the invariant.
LEMMA CompletedIInv ==
    ASSUME IInv, NEW w \in Workers, Completed(w)
    PROVE  IInv'
<1> USE QueueAssumption DEF QueueAssumption, IInv, TypeOK, Finished, Working
<1>1. /\ pc[w] \in {"succeeded", "raised"}
      /\ job[w] \in Tasks
  BY DEF Completed, IInv, TypeOK, BusyHolds
<1>2. /\ \A v \in Workers : pc'[v] = IF v = w THEN "sleeping" ELSE pc[v]
      /\ \A v \in Workers : job'[v] = IF v = w THEN NoTask ELSE job[v]
      /\ UNCHANGED <<claimedBy, created, running, faults, runs, returned, struck>>
  BY DEF Completed, IInv, TypeOK
<1>3. \A t \in Tasks :
         status'[t] = IF t # job[w] THEN status[t]
                      ELSE IF pc[w] = "succeeded" THEN "done" ELSE "failed"
  BY <1>1 DEF Completed, IInv, TypeOK
<1>4. TypeOK'
  BY <1>1 DEF Completed, IInv, TypeOK, TaskStatuses, WorkerPCs, Finished
<1>5. HolderIsClaimer'
  BY <1>1, <1>2, <1>3 DEF HolderIsClaimer
<1>6. BusyHolds'
  BY <1>1, <1>2, <1>3 DEF BusyHolds
<1>7. WorkIsCounted'
  BY <1>1, <1>2, <1>3 DEF WorkIsCounted
<1>8. UnclaimedUntouched'
  BY <1>1, <1>2, <1>3 DEF UnclaimedUntouched
<1>9. AtMostOnce'
  BY <1>1, <1>2, <1>3 DEF AtMostOnce
<1>10. OutcomeIsTrue'
  BY <1>1, <1>2, <1>3 DEF OutcomeIsTrue, BusyHolds, HolderIsClaimer, WorkIsCounted, UnclaimedUntouched
<1> QED
  BY <1>4, <1>5, <1>6, <1>7, <1>8, <1>9, <1>10 DEF IInv

\* A worker that loses its task keeps the invariant.
LEMMA FaultIInv ==
    ASSUME IInv, NEW w \in Workers,
           ClaimLost(w) \/ CompletionLost(w) \/ Crash(w)
    PROVE  IInv'
<1> USE QueueAssumption DEF QueueAssumption, IInv, TypeOK, Finished, Working
<1>1. /\ \A v \in Workers \ {w} : pc'[v] = pc[v]
      /\ pc'[w] \in {"sleeping", "crashed"}
      /\ \A v \in Workers : job'[v] = IF v = w THEN NoTask ELSE job[v]
      /\ UNCHANGED <<status, claimedBy, created, running, runs, returned>>
  BY DEF ClaimLost, CompletionLost, Crash, LosesTask, IInv, TypeOK, table
<1>2. TypeOK'
  <2>1. faults' \in 0..MaxFaults
    BY QueueAssumption DEF ClaimLost, CompletionLost, Crash, LosesTask, IInv, TypeOK, QueueAssumption
  <2>2. /\ pc' \in [Workers -> WorkerPCs]
        /\ job' \in [Workers -> Tasks \cup {NoTask}]
    BY DEF ClaimLost, CompletionLost, Crash, LosesTask, IInv, TypeOK, WorkerPCs
  <2>3. struck' \in SUBSET Tasks
    BY DEF ClaimLost, CompletionLost, Crash, LosesTask, IInv, TypeOK
  <2> QED
    BY <1>1, <2>1, <2>2, <2>3 DEF IInv, TypeOK
<1>3. HolderIsClaimer'
  BY <1>1 DEF HolderIsClaimer
<1>4. BusyHolds'
  BY <1>1 DEF BusyHolds
<1>5. WorkIsCounted'
  BY <1>1 DEF WorkIsCounted
<1>6. UnclaimedUntouched'
  BY <1>1 DEF UnclaimedUntouched
<1>7. AtMostOnce'
  BY <1>1 DEF AtMostOnce
<1>8. OutcomeIsTrue'
  BY <1>1 DEF OutcomeIsTrue
<1> QED
  BY <1>2, <1>3, <1>4, <1>5, <1>6, <1>7, <1>8 DEF IInv

\* A worker that goes round its loop, is stopped or is started anew keeps the invariant.
LEMMA ControlIInv ==
    ASSUME IInv, NEW w \in Workers,
           Loop(w) \/ Stop(w) \/ Restart(w)
    PROVE  IInv'
<1> USE QueueAssumption DEF QueueAssumption, IInv, TypeOK, Finished, Working
<1>1. /\ \A v \in Workers \ {w} : pc'[v] = pc[v]
      /\ UNCHANGED <<status, claimedBy, created, job, faults, runs, returned, struck>>
  BY DEF Loop, Stop, Restart, IInv, TypeOK, table
<1>2. \/ pc'[w] = pc[w]
      \/ /\ pc[w] \in {"sleeping", "stopped", "crashed"}
         /\ pc'[w] \in {"claiming", "stopped"}
  BY DEF Loop, Stop, Restart, IInv, TypeOK
<1>3. TypeOK'
  BY <1>1, <1>2 DEF Loop, Stop, Restart, IInv, TypeOK, WorkerPCs
<1>4. HolderIsClaimer'
  BY <1>1, <1>2 DEF HolderIsClaimer
<1>5. BusyHolds'
  BY <1>1, <1>2 DEF BusyHolds
<1>6. WorkIsCounted'
  BY <1>1, <1>2 DEF WorkIsCounted
<1>7. UnclaimedUntouched'
  BY <1>1, <1>2 DEF UnclaimedUntouched
<1>8. AtMostOnce'
  BY <1>1, <1>2 DEF AtMostOnce
<1>9. OutcomeIsTrue'
  BY <1>1, <1>2 DEF OutcomeIsTrue
<1> QED
  BY <1>3, <1>4, <1>5, <1>6, <1>7, <1>8, <1>9 DEF IInv

\* Every step keeps the invariant.
LEMMA NextIInv == IInv /\ [Next]_vars => IInv'
<1> SUFFICES ASSUME IInv, [Next]_vars PROVE IInv'
  OBVIOUS
<1>1. CASE \E t \in Tasks : Submit(t)
  BY <1>1, SubmitIInv
<1>2. CASE \E w \in Workers : WorkerStep(w)
  BY <1>2, ClaimIInv, ClaimAnsweredIInv, HandlerReturnsIInv, HandlerRaisesIInv,
     CompletedIInv, ControlIInv
  DEF WorkerStep
<1>3. CASE \E w \in Workers : Fault(w) \/ Stop(w) \/ Restart(w)
  BY <1>3, FaultIInv, ControlIInv DEF Fault
<1>4. CASE UNCHANGED vars
  BY <1>4
  DEF vars, IInv, TypeOK, HolderIsClaimer, BusyHolds, WorkIsCounted,
      UnclaimedUntouched, AtMostOnce, OutcomeIsTrue
<1> QED
  BY <1>1, <1>2, <1>3, <1>4 DEF Next

-----------------------------------------------------------------------------
(* The theorems.                                                           *)

\* Whatever the workers and the network do, the table, the workers and the
\* count of the runs stay in step.
THEOREM QueueInvariant == Spec => []IInv
<1>1. IInv /\ [Next]_vars => IInv'
  BY NextIInv
<1> QED
  BY InitIInv, <1>1, PTL DEF Spec

\* The variables of the task queue keep their types.
THEOREM QueueTypeCorrect == Spec => []TypeOK
<1>1. IInv => TypeOK
  BY DEF IInv
<1> QED
  BY <1>1, QueueInvariant, PTL

\* claim_task never makes two workers, or one worker twice, run the same task,
\* whatever answers are lost and whatever workers crash.
THEOREM RunAtMostOnce == Spec => []AtMostOnce
<1>1. IInv => AtMostOnce
  BY DEF IInv
<1> QED
  BY <1>1, QueueInvariant, PTL

\* A worker acts only on a task the table says it has claimed, and on which
\* nobody else acts.
THEOREM HolderClaimed == Spec => []HolderIsClaimer
<1>1. IInv => HolderIsClaimer
  BY DEF IInv
<1> QED
  BY <1>1, QueueInvariant, PTL

\* complete_task records done and failed only of what really happened.
THEOREM OutcomeTrue == Spec => []OutcomeIsTrue
<1>1. IInv => OutcomeIsTrue
  BY DEF IInv
<1> QED
  BY <1>1, QueueInvariant, PTL

\* The safety half of ClaimedIsFinished: a claimed task that no worker holds was
\* taken from its worker by a fault.
ClaimedIsHeld ==
    \A t \in Tasks : status[t] = "claimed" => t \in struck \/ \E w \in Workers : job[w] = t

\* Every step keeps that.
LEMMA NextHeld == IInv /\ IInv' /\ ClaimedIsHeld /\ [Next]_vars => ClaimedIsHeld'
<1> SUFFICES ASSUME IInv, IInv', ClaimedIsHeld, [Next]_vars,
                    NEW t \in Tasks, status'[t] = "claimed"
             PROVE  t \in struck' \/ \E w \in Workers : job'[w] = t
  BY DEF ClaimedIsHeld
<1>1. /\ TypeOK /\ BusyHolds
      /\ NoTask \notin Tasks
  BY QueueAssumption DEF IInv, QueueAssumption
<1>2. status[t] = "claimed" => t \in struck \/ \E w \in Workers : job[w] = t
  BY DEF ClaimedIsHeld
<1>3. CASE \E u \in Tasks : Submit(u)
  <2>1. /\ UNCHANGED <<job, struck>>
        /\ status[t] = "claimed"
    BY <1>1, <1>3 DEF Submit, TypeOK
  <2> QED
    BY <1>2, <2>1
<1>4. ASSUME NEW w \in Workers, Claim(w)
      PROVE  t \in struck' \/ \E v \in Workers : job'[v] = t
  <2>1. /\ pc[w] = "claiming" /\ struck' = struck
        /\ \A v \in Workers \ {w} : job'[v] = job[v]
        /\ job[w] = NoTask
    BY <1>4 DEF Claim, IInv, TypeOK, HolderIsClaimer, Working
  <2>2. status[t] = "claimed" \/ job'[w] = t
    BY <1>1, <1>4 DEF Claim, TypeOK
  <2> QED
    BY <1>1, <1>2, <2>1, <2>2
<1>5. ASSUME NEW w \in Workers,
             ClaimAnswered(w) \/ HandlerReturns(w) \/ HandlerRaises(w)
                \/ Loop(w) \/ Stop(w) \/ Restart(w)
      PROVE  t \in struck' \/ \E v \in Workers : job'[v] = t
  <2>1. UNCHANGED <<status, job, struck>>
    BY <1>5 DEF ClaimAnswered, HandlerReturns, HandlerRaises, Loop, Stop, Restart, table
  <2> QED
    BY <1>2, <2>1
<1>6. ASSUME NEW w \in Workers, Completed(w)
      PROVE  t \in struck' \/ \E v \in Workers : job'[v] = t
  <2>1. /\ job[w] \in Tasks
        /\ struck' = struck
        /\ \A v \in Workers \ {w} : job'[v] = job[v]
    BY <1>1, <1>6 DEF Completed, TypeOK, BusyHolds
  <2>2. status[t] = "claimed" /\ job[w] # t
    BY <1>1, <1>6, <2>1 DEF Completed, TypeOK
  <2> QED
    BY <1>2, <2>1, <2>2
<1>7. ASSUME NEW w \in Workers, Fault(w)
      PROVE  t \in struck' \/ \E v \in Workers : job'[v] = t
  <2>1. /\ UNCHANGED status
        /\ \A v \in Workers \ {w} : job'[v] = job[v]
        /\ struck' = struck \cup ({job[w]} \ {NoTask})
    BY <1>1, <1>7 DEF Fault, ClaimLost, CompletionLost, Crash, LosesTask, table, TypeOK
  <2> QED
    BY <1>1, <1>2, <2>1
<1>8. CASE UNCHANGED vars
  BY <1>2, <1>8 DEF vars
<1> QED
  BY <1>3, <1>4, <1>5, <1>6, <1>7, <1>8 DEF Next, WorkerStep

\* Whatever is lost and whoever dies, no task is left claimed that was not itself
\* hit: every other one is in the hands of a worker.
THEOREM ClaimedHeld == Spec => []ClaimedIsHeld
<1>1. Init => ClaimedIsHeld
  BY DEF Init, ClaimedIsHeld
<1>2. IInv /\ IInv' /\ ClaimedIsHeld /\ [Next]_vars => ClaimedIsHeld'
  BY NextHeld
<1> QED
  BY <1>1, <1>2, QueueInvariant, PTL DEF Spec

----------------------------------------------------------------------------
(* The stores side by side: each behaves as it does alone.                *)
LEMMA StoresCompose ==
    StoresSpec => RegistrySpec /\ StoreSpec /\ BrainSpec /\ ThoughtsSpec
<1>1. StoresInit => RegistryInit /\ StoreInit /\ BrainInit /\ ThoughtsInit
  BY DEF StoresInit, TablesInit
<1>2. [StoresNext]_<<registryVars, storeVars, brainVars, thoughtVars>> =>
          /\ [RegistryNext]_registryVars
          /\ [StoreOperation \/ StartStore]_storeVars
          /\ [BrainStep]_brainVars
          /\ [ThoughtsNext]_thoughtVars
  BY DEF StoresNext, TablesNext, RegistryNext, BrainNext
<1> QED BY <1>1, <1>2, PTL DEF StoresSpec, RegistrySpec, StoreSpec, BrainSpec, ThoughtsSpec

\* Side by side too the stores keep what they promise: a restart keeps the models in
\* use, what is written is found, what is known is in the context of a question, every
\* access is counted and chains of thoughts go on.
THEOREM StoresCorrect ==
    StoresSpec => [](/\ RestartKeepsModelsInUse /\ WrittenIsFound
                     /\ KnownIsInContext /\ EveryAccessCounts
                     /\ ChainsGoOn)
<1> QED BY StoresCompose, RestartKeeps, WrittenAreFound, KnownInContext, AccessesCounted,
           ChainsAreWhole, PTL
=============================================================================
