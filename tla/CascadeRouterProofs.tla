------------------------ MODULE CascadeRouterProofs ------------------------
(***************************************************************************)
(* Proofs about the cascade router, for every number of providers, every   *)
(* finite set of requests and every setting of the circuit breaker.        *)
(***************************************************************************)
EXTENDS CascadeRouter, FiniteSetTheorems, TLAPS

\* What holds of a single provider object between two methods.
ProviderOK(s) ==
    /\ s \in ProviderState
    /\ s.opened = "none" <=> s.circuit = "CLOSED"
    /\ s.halfOpenCalls < HalfOpenMaxCalls
    /\ s.consecutive <= s.failed
    /\ s.total = s.successful + s.failed

\* A change of the status alone keeps a provider consistent.
LEMMA StatusOK ==
    ASSUME NEW s, ProviderOK(s), NEW st \in Statuses
    PROVE  ProviderOK([s EXCEPT !.status = st])
BY DEF ProviderOK, ProviderState

\* A provider whose breaker was just closed is consistent.
LEMMA ClosedOK ==
    ASSUME NEW s, ProviderOK(s)
    PROVE  /\ ProviderOK(CloseCircuit(s))
           /\ CloseCircuit(s).successful = s.successful
           /\ CloseCircuit(s).failed = s.failed
<1>1. /\ 0 \in Nat /\ "CLOSED" \in Breaker!CircuitStates
      /\ "none" \in Breaker!OpenedStates /\ "HEALTHY" \in Statuses
  BY DEF Breaker!CircuitStates, Breaker!OpenedStates, Statuses
<1>2. CloseCircuit(s) \in ProviderState
  BY <1>1 DEF ProviderOK, ProviderState, CloseCircuit
<1> QED
  BY <1>2, RouterAssumption DEF ProviderOK, ProviderState, CloseCircuit

\* Every method leaves a consistent provider consistent.
LEMMA RecordSuccessOK ==
    ASSUME NEW s, ProviderOK(s)
    PROVE  /\ ProviderOK(RecordSuccess(s))
           /\ RecordSuccess(s).successful = s.successful + 1
           /\ RecordSuccess(s).failed = s.failed
<1> DEFINE c == CountSuccess(s)
           t == CountProbe(c)
<1>1. /\ ProviderOK(c)
      /\ c.successful = s.successful + 1
      /\ c.failed = s.failed
      /\ c.circuit = s.circuit
  <2>1. /\ s.total + 1 \in Nat /\ s.successful + 1 \in Nat
        /\ s \in ProviderState
    BY DEF ProviderOK, ProviderState
  <2>2. c \in ProviderState
    BY <2>1 DEF ProviderState, CountSuccess
  <2> QED
    BY <2>1, <2>2 DEF ProviderOK, ProviderState, CountSuccess
<1>2. /\ ProviderOK(t)
      /\ t.successful = c.successful
      /\ t.failed = c.failed
  <2> HIDE DEF c
  <2>1. CASE c.circuit # "HALF_OPEN"
    <3>1. t = c
      BY <2>1 DEF CountProbe
    <3> QED  BY <3>1, <1>1
  <2>2. CASE c.circuit = "HALF_OPEN" /\ c.halfOpenCalls + 1 >= HalfOpenMaxCalls
    <3>1. t = CloseCircuit(c)
      BY <2>2 DEF CountProbe
    <3> QED
      BY <3>1, <1>1, ClosedOK
  <2>3. CASE c.circuit = "HALF_OPEN" /\ ~(c.halfOpenCalls + 1 >= HalfOpenMaxCalls)
    <3>0. c.halfOpenCalls \in Nat /\ HalfOpenMaxCalls \in Nat
      BY <1>1, RouterAssumption DEF ProviderOK, ProviderState
    <3>1. c.halfOpenCalls + 1 < HalfOpenMaxCalls
      BY <2>3, <3>0
    <3>2. t = [c EXCEPT !.halfOpenCalls = @ + 1]
      BY <2>3, <3>1 DEF CountProbe
    <3>3. c.halfOpenCalls + 1 \in Nat
      BY <3>0
    <3> QED
      BY <3>1, <3>2, <3>3, <1>1 DEF ProviderOK, ProviderState
  <2> QED  BY <2>1, <2>2, <2>3
<1>3. PICK st \in Statuses : RecordSuccess(s) = [t EXCEPT !.status = st]
  <2> HIDE DEF t
  <2>1. t.status \in Statuses
    BY <1>2 DEF ProviderOK, ProviderState
  <2> QED
    BY <2>1 DEF RecordSuccess, t, c, Statuses
<1> HIDE DEF t, c
<1> QED
  BY <1>1, <1>2, <1>3 DEF ProviderOK, ProviderState

\* Recording a failure leaves a consistent provider consistent.
LEMMA RecordFailureOK ==
    ASSUME NEW s, ProviderOK(s)
    PROVE  /\ ProviderOK(RecordFailure(s))
           /\ RecordFailure(s).successful = s.successful
           /\ RecordFailure(s).failed = s.failed + 1
<1> DEFINE f == CountFailure(s)
           t == IF f.consecutive >= FailureThreshold THEN OpenCircuit(f) ELSE f
<1>1. /\ ProviderOK(f)
      /\ f.successful = s.successful
      /\ f.failed = s.failed + 1
  <2>1. /\ s.total + 1 \in Nat /\ s.failed + 1 \in Nat
        /\ s.consecutive + 1 \in Nat
        /\ s \in ProviderState
    BY DEF ProviderOK, ProviderState
  <2>2. f \in ProviderState
    BY <2>1 DEF ProviderState, CountFailure
  <2> QED
    BY <2>1, <2>2 DEF ProviderOK, ProviderState, CountFailure
<1>2. /\ ProviderOK(t)
      /\ t.successful = f.successful
      /\ t.failed = f.failed
  <2> HIDE DEF f
  <2> QED
    BY <1>1, ZenonT(60) DEF ProviderOK, ProviderState, OpenCircuit, Statuses,
                Breaker!CircuitStates, Breaker!OpenedStates
<1>3. PICK st \in Statuses : RecordFailure(s) = [t EXCEPT !.status = st]
  <2> HIDE DEF t
  <2>1. t.status \in Statuses
    BY <1>2 DEF ProviderOK, ProviderState
  <2> QED
    BY <2>1 DEF RecordFailure, t, f, Statuses
<1> HIDE DEF t, f
<1> QED
  BY <1>1, <1>2, <1>3 DEF ProviderOK, ProviderState

\* None of the other changes to a provider touches its counters of requests.
LEMMA EnableOK ==
    ASSUME NEW s, ProviderOK(s)
    PROVE  \A t \in {EnableProvider(s), DisableProvider(s)} :
              /\ ProviderOK(t)
              /\ t.successful = s.successful
              /\ t.failed = s.failed
<1>1. "HEALTHY" \in Statuses /\ "DISABLED" \in Statuses
  BY DEF Statuses
<1> QED
  BY <1>1 DEF ProviderOK, ProviderState, EnableProvider, DisableProvider

\* A health check leaves a consistent provider consistent.
LEMMA HealthCheckedOK ==
    ASSUME NEW s, ProviderOK(s), NEW available \in BOOLEAN
    PROVE  /\ ProviderOK(HealthChecked(s, available))
           /\ HealthChecked(s, available).successful = s.successful
           /\ HealthChecked(s, available).failed = s.failed
<1> DEFINE t == IF s.status = "UNHEALTHY"
                THEN [s EXCEPT !.circuit = "CLOSED", !.opened = "none"]
                ELSE s
<1>1. /\ ProviderOK(t)
      /\ t.successful = s.successful
      /\ t.failed = s.failed
  <2>1. "CLOSED" \in Breaker!CircuitStates /\ "none" \in Breaker!OpenedStates
    BY DEF Breaker!CircuitStates, Breaker!OpenedStates
  <2> QED
    BY <2>1 DEF ProviderOK, ProviderState
<1>2. \E st \in Statuses :
         \/ HealthChecked(s, available) = [t EXCEPT !.status = st]
         \/ HealthChecked(s, available) = [s EXCEPT !.status = st]
  <2>1. \A st \in {"HEALTHY", "DEGRADED", "UNHEALTHY"} : st \in Statuses
    BY DEF Statuses
  <2> QED
    BY <2>1 DEF HealthChecked, t
<1> HIDE DEF t
<1> QED
  BY <1>1, <1>2, StatusOK DEF ProviderOK, ProviderState

\* Admitting a request leaves a consistent provider consistent: only a
\* breaker that has an opening time becomes half-open.
LEMMA AdmittedOK ==
    ASSUME NEW s, ProviderOK(s), Admits(s)
    PROVE  /\ ProviderOK(Admitted(s))
           /\ Admitted(s).successful = s.successful
           /\ Admitted(s).failed = s.failed
<1>1. 0 \in Nat /\ "HALF_OPEN" \in Breaker!CircuitStates
  BY DEF Breaker!CircuitStates
<1>2. CASE s.status = "UNHEALTHY"
  <2>1. Admitted(s) = [s EXCEPT !.circuit = "HALF_OPEN", !.halfOpenCalls = 0]
    BY <1>2 DEF Admitted
  <2>2. s.opened # "none"
    BY <1>2 DEF Admits, CanCloseCircuit
  <2>3. Admitted(s) \in ProviderState
    BY <1>1, <2>1 DEF ProviderOK, ProviderState
  <2>4. Admitted(s).halfOpenCalls < HalfOpenMaxCalls
    BY <2>1, RouterAssumption DEF ProviderOK, ProviderState
  <2>5. /\ Admitted(s).opened = s.opened
        /\ Admitted(s).circuit = "HALF_OPEN"
        /\ Admitted(s).consecutive = s.consecutive
        /\ Admitted(s).failed = s.failed
        /\ Admitted(s).successful = s.successful
        /\ Admitted(s).total = s.total
    BY <2>1 DEF ProviderOK, ProviderState
  <2> QED
    BY <2>2, <2>3, <2>4, <2>5 DEF ProviderOK
<1> QED
  BY <1>2 DEF Admitted

\* The passing of the recovery timeout keeps a provider consistent.
LEMMA ElapsedOK ==
    ASSUME NEW s, ProviderOK(s), s.opened = "recent"
    PROVE  /\ ProviderOK([s EXCEPT !.opened = "elapsed"])
           /\ [s EXCEPT !.opened = "elapsed"].successful = s.successful
           /\ [s EXCEPT !.opened = "elapsed"].failed = s.failed
BY DEF ProviderOK, ProviderState, Breaker!OpenedStates

-----------------------------------------------------------------------------
(* The inductive invariant.                                                *)

\* The types of everything but the history.
LoopTypes ==
    /\ prov \in [Providers -> ProviderState]
    /\ pc \in [Requests -> {"idle", "calling", "sleeping", "returned", "raised"}]
    /\ at \in [Requests -> Providers \cup {NoProvider}]
    /\ attempt \in [Requests -> 0..MaxRetries]
    /\ errors \in [Requests -> SUBSET Providers]
    /\ served \in [Requests -> Providers \cup {NoProvider}]

LoopOK(r) ==
    /\ pc[r] = "idle" => errors[r] = {} /\ at[r] = NoProvider
    /\ pc[r] = "sleeping" => attempt[r] < MaxRetries

IInv ==
    /\ LoopTypes
    /\ \A p \in Providers : ProviderOK(prov[p])
    /\ FailoverInOrder
    /\ \A r \in Requests : LoopOK(r)

\* The initial states satisfy the invariant.
LEMMA InitIInv == Init => IInv
<1> SUFFICES ASSUME Init PROVE IInv
  OBVIOUS
<1>1. /\ NewProvider \in ProviderState /\ ProviderOK(NewProvider)
  <2>1. NewProvider \in ProviderState
    BY DEF NewProvider, ProviderState, Statuses, Breaker!CircuitStates,
           Breaker!OpenedStates
  <2> QED
    BY <2>1, RouterAssumption DEF NewProvider, ProviderOK
<1>2. LoopTypes
  BY <1>1, RouterAssumption DEF Init, LoopTypes, NoProvider
<1>3. FailoverInOrder
  BY DEF Init, FailoverInOrder, NoProvider
<1>4. \A r \in Requests : LoopOK(r)
  BY DEF Init, LoopOK
<1> QED
  BY <1>1, <1>2, <1>3, <1>4 DEF IInv, Init

\* What the rest of the loop of complete() does after the iteration of a
\* provider, given the states that iteration left.
LEMMA NextProviderOK ==
    ASSUME LoopTypes,
           NEW r \in Requests, NEW from \in Providers \cup {NoProvider},
           NEW states \in [Providers -> ProviderState],
           \A p \in Providers : ProviderOK(states[p]),
           NextProvider(r, from, states)
    PROVE  /\ prov' \in [Providers -> ProviderState]
           /\ \A p \in Providers : /\ ProviderOK(prov'[p])
                                   /\ prov'[p].successful = states[p].successful
                                   /\ prov'[p].failed = states[p].failed
           /\ at' \in [Requests -> Providers \cup {NoProvider}]
           /\ attempt' \in [Requests -> 0..MaxRetries]
           /\ \E new \in {"calling", "raised"} : pc' = [pc EXCEPT ![r] = new]
           /\ pc'[r] = "calling" => at'[r] \in Providers /\ at'[r] > from
           /\ \A q \in Requests \ {r} : at'[q] = at[q] /\ attempt'[q] = attempt[q]
<1>0. from \in Int /\ MaxRetries \in Nat \ {0} /\ NumProviders \in Nat
  BY RouterAssumption DEF Providers, NoProvider
<1>1. CASE \E p \in Candidates(states, from) :
              /\ prov' = [states EXCEPT ![p] = Admitted(@)]
              /\ pc' = [pc EXCEPT ![r] = "calling"]
              /\ at' = [at EXCEPT ![r] = p]
              /\ attempt' = [attempt EXCEPT ![r] = 1]
  <2>1. PICK p \in Candidates(states, from) :
              /\ prov' = [states EXCEPT ![p] = Admitted(@)]
              /\ pc' = [pc EXCEPT ![r] = "calling"]
              /\ at' = [at EXCEPT ![r] = p]
              /\ attempt' = [attempt EXCEPT ![r] = 1]
    BY <1>1
  <2>2. p \in Providers /\ p > from /\ Admits(states[p])
    BY DEF Candidates
  <2>3. /\ ProviderOK(Admitted(states[p]))
        /\ Admitted(states[p]) \in ProviderState
        /\ Admitted(states[p]).successful = states[p].successful
        /\ Admitted(states[p]).failed = states[p].failed
    BY <2>2, AdmittedOK DEF ProviderOK
  <2>4. 1 \in 0..MaxRetries
    BY <1>0
  <2> QED
    BY <2>1, <2>2, <2>3, <2>4 DEF LoopTypes
<1>2. CASE /\ prov' = states
           /\ pc' = [pc EXCEPT ![r] = "raised"]
           /\ ForgetLoop(r)
  <2>1. 0 \in 0..MaxRetries
    BY <1>0
  <2> QED
    BY <1>2, <2>1 DEF LoopTypes, ForgetLoop
<1> QED
  BY <1>1, <1>2 DEF NextProvider

\* The call of complete() keeps the invariant.
LEMMA BeginIInv ==
    ASSUME IInv, NEW r \in Requests, Begin(r)
    PROVE  IInv'
<1> USE DEF IInv
<1>1. prov \in [Providers -> ProviderState] /\ pc[r] = "idle"
      /\ NextProvider(r, NoProvider, prov) /\ UNCHANGED <<errors, served>>
  BY DEF Begin, LoopTypes
<1>2. /\ prov' \in [Providers -> ProviderState]
      /\ \A p \in Providers : ProviderOK(prov'[p])
      /\ at' \in [Requests -> Providers \cup {NoProvider}]
      /\ attempt' \in [Requests -> 0..MaxRetries]
      /\ \E new \in {"calling", "raised"} : pc' = [pc EXCEPT ![r] = new]
      /\ pc'[r] = "calling" => at'[r] \in Providers
      /\ \A q \in Requests \ {r} : at'[q] = at[q] /\ attempt'[q] = attempt[q]
  BY <1>1, NextProviderOK
<1>3. LoopTypes'
  BY <1>1, <1>2 DEF LoopTypes
<1>4. errors[r] = {} /\ served[r] = NoProvider
  BY <1>1 DEF LoopOK, FailoverInOrder
<1>5. FailoverInOrder'
  BY <1>1, <1>2, <1>4 DEF FailoverInOrder, LoopTypes, Providers, NoProvider
<1>6. \A q \in Requests : LoopOK(q)'
  BY <1>1, <1>2 DEF LoopOK, LoopTypes
<1> QED
  BY <1>2, <1>3, <1>5, <1>6

\* An answer keeps the invariant.
LEMMA AnsweredIInv ==
    ASSUME IInv, NEW r \in Requests, Answered(r)
    PROVE  IInv'
<1> USE DEF IInv
<1>1. at[r] \in Providers /\ at[r] # NoProvider /\ at[r] \notin errors[r]
  BY DEF Answered, FailoverInOrder, LoopTypes, Providers
<1>2. /\ ProviderOK(RecordSuccess(prov[at[r]]))
      /\ RecordSuccess(prov[at[r]]) \in ProviderState
  BY <1>1, RecordSuccessOK DEF ProviderOK
<1>3. \A p \in Providers : ProviderOK(prov'[p])
  BY <1>1, <1>2 DEF Answered, LoopTypes
<1>4. LoopTypes'
  BY <1>1, <1>2, RouterAssumption DEF Answered, ForgetLoop, LoopTypes
<1>5. FailoverInOrder'
  BY <1>1 DEF Answered, ForgetLoop, FailoverInOrder, LoopTypes
<1>6. \A q \in Requests : LoopOK(q)'
  BY DEF Answered, ForgetLoop, LoopOK, LoopTypes
<1> QED
  BY <1>3, <1>4, <1>5, <1>6

\* An attempt that fails and the retry keep the invariant.
LEMMA AttemptIInv ==
    ASSUME IInv, NEW r \in Requests, AttemptFailed(r) \/ Retry(r)
    PROVE  IInv'
<1> USE DEF IInv
<1>1. CASE AttemptFailed(r)
  <2>1. LoopTypes'
    BY <1>1 DEF AttemptFailed, LoopTypes
  <2>2. FailoverInOrder'
    BY <1>1 DEF AttemptFailed, FailoverInOrder, LoopTypes
  <2>3. \A q \in Requests : LoopOK(q)'
    BY <1>1 DEF AttemptFailed, LoopOK, LoopTypes
  <2> QED
    BY <1>1, <2>1, <2>2, <2>3 DEF AttemptFailed
<1>2. CASE Retry(r)
  <2>0. attempt[r] + 1 \in 0..MaxRetries
    BY <1>2, RouterAssumption DEF Retry, LoopOK, LoopTypes
  <2>1. LoopTypes'
    BY <1>2, <2>0 DEF Retry, LoopTypes
  <2>2. FailoverInOrder'
    BY <1>2 DEF Retry, FailoverInOrder, LoopTypes
  <2>3. \A q \in Requests : LoopOK(q)'
    BY <1>2 DEF Retry, LoopOK, LoopTypes
  <2> QED
    BY <1>2, <2>1, <2>2, <2>3 DEF Retry
<1> QED
  BY <1>1, <1>2

\* Giving up on a provider and failing over keeps the invariant.
LEMMA ProviderFailedIInv ==
    ASSUME IInv, NEW r \in Requests, ProviderFailed(r)
    PROVE  IInv'
<1> USE DEF IInv
<1> DEFINE states == [prov EXCEPT ![at[r]] = RecordFailure(@)]
<1>1. /\ at[r] \in Providers /\ pc[r] = "calling"
      /\ \A p \in errors[r] : p < at[r]
      /\ served[r] = NoProvider
  BY DEF ProviderFailed, FailoverInOrder, LoopTypes
<1>2. /\ ProviderOK(RecordFailure(prov[at[r]]))
      /\ RecordFailure(prov[at[r]]) \in ProviderState
  BY <1>1, RecordFailureOK DEF ProviderOK
<1>3. /\ states \in [Providers -> ProviderState]
      /\ \A p \in Providers : ProviderOK(states[p])
  BY <1>1, <1>2 DEF LoopTypes
<1>4. /\ NextProvider(r, at[r], states)
      /\ errors' = [errors EXCEPT ![r] = @ \cup {at[r]}]
      /\ served' = served
  BY DEF ProviderFailed
<1> HIDE DEF states
<1>5. /\ prov' \in [Providers -> ProviderState]
      /\ \A p \in Providers : ProviderOK(prov'[p])
      /\ at' \in [Requests -> Providers \cup {NoProvider}]
      /\ attempt' \in [Requests -> 0..MaxRetries]
      /\ \E new \in {"calling", "raised"} : pc' = [pc EXCEPT ![r] = new]
      /\ pc'[r] = "calling" => at'[r] \in Providers /\ at'[r] > at[r]
      /\ \A q \in Requests \ {r} : at'[q] = at[q] /\ attempt'[q] = attempt[q]
  BY <1>1, <1>3, <1>4, NextProviderOK
<1>6. LoopTypes'
  BY <1>1, <1>4, <1>5 DEF LoopTypes
<1>7. FailoverInOrder'
  <2> SUFFICES ASSUME NEW q \in Requests
               PROVE  /\ pc'[q] = "returned" <=> served'[q] # NoProvider
                      /\ served'[q] \notin errors'[q]
                      /\ pc'[q] \in {"calling", "sleeping"} =>
                            /\ at'[q] # NoProvider
                            /\ \A p \in errors'[q] : p < at'[q]
    BY DEF FailoverInOrder
  <2>1. CASE q = r
    <3>1. /\ pc'[r] \in {"calling", "raised"} /\ served'[r] = NoProvider
          /\ errors'[r] = errors[r] \cup {at[r]}
      BY <1>1, <1>4, <1>5 DEF LoopTypes
    <3>2. NoProvider \notin errors'[r]
      BY <1>1, <3>1 DEF LoopTypes, NoProvider, Providers
    <3>3. ASSUME pc'[r] = "calling"
          PROVE  at'[r] # NoProvider /\ \A p \in errors'[r] : p < at'[r]
      BY <3>3, <1>1, <1>5, <3>1 DEF LoopTypes, NoProvider, Providers
    <3> QED
      BY <2>1, <3>1, <3>2, <3>3
  <2>2. CASE q # r
    <3>1. /\ pc'[q] = pc[q] /\ served'[q] = served[q]
          /\ errors'[q] = errors[q] /\ at'[q] = at[q]
      BY <2>2, <1>4, <1>5 DEF LoopTypes
    <3> QED
      BY <3>1 DEF FailoverInOrder
  <2> QED
    BY <2>1, <2>2
<1>8. \A q \in Requests : LoopOK(q)'
  BY <1>4, <1>5 DEF LoopOK, LoopTypes
<1> QED
  BY <1>5, <1>6, <1>7, <1>8

\* The recovery timer and the operator change provider objects only.
LEMMA ProvidersOnlyIInv ==
    ASSUME IInv,
           prov' \in [Providers -> ProviderState],
           \A p \in Providers : ProviderOK(prov'[p]),
           UNCHANGED <<pc, at, attempt, errors, served>>
    PROVE  IInv'
BY DEF IInv, LoopTypes, FailoverInOrder, LoopOK

\* The recovery timer, the control endpoint and the health check keep the
\* invariant.
LEMMA OperatorStep ==
    ASSUME IInv,
           \/ \E p \in Providers : RecoveryElapses(p) \/ ControlProvider(p)
           \/ HealthCheck
    PROVE  /\ prov' \in [Providers -> ProviderState]
           /\ \A p \in Providers : /\ ProviderOK(prov'[p])
                                   /\ prov'[p].successful = prov[p].successful
                                   /\ prov'[p].failed = prov[p].failed
           /\ UNCHANGED <<pc, at, attempt, errors, served>>
<1> USE DEF IInv
<1>0. prov \in [Providers -> ProviderState]
  BY DEF LoopTypes
<1>1. ASSUME NEW p \in Providers, RecoveryElapses(p)
      PROVE  \E t : ProviderOK(t) /\ prov' = [prov EXCEPT ![p] = t]
                 /\ t.successful = prov[p].successful /\ t.failed = prov[p].failed
  <2>1. prov' = [prov EXCEPT ![p] = [prov[p] EXCEPT !.opened = "elapsed"]]
    BY <1>0, <1>1 DEF RecoveryElapses
  <2> QED
    BY <1>1, <2>1, ElapsedOK DEF RecoveryElapses
<1>2. ASSUME NEW p \in Providers, ControlProvider(p)
      PROVE  \E t : ProviderOK(t) /\ prov' = [prov EXCEPT ![p] = t]
                 /\ t.successful = prov[p].successful /\ t.failed = prov[p].failed
  <2>1. CASE prov' = [prov EXCEPT ![p] = EnableProvider(@)]
    BY <2>1, EnableOK, <1>0
  <2>2. CASE prov' = [prov EXCEPT ![p] = DisableProvider(@)]
    BY <2>2, EnableOK, <1>0
  <2>3. CASE prov' = [prov EXCEPT ![p] = ResetCircuit(@)]
    BY <2>3, ClosedOK, <1>0 DEF ResetCircuit
  <2> QED
    BY <1>2, <2>1, <2>2, <2>3 DEF ControlProvider
<1>3. CASE HealthCheck
  <2>1. PICK available \in [Providers -> BOOLEAN] :
           prov' = [p \in Providers |-> HealthChecked(prov[p], available[p])]
    BY <1>3 DEF HealthCheck
  <2>2. \A p \in Providers :
           /\ prov'[p] = HealthChecked(prov[p], available[p])
           /\ ProviderOK(prov'[p])
           /\ prov'[p].successful = prov[p].successful
           /\ prov'[p].failed = prov[p].failed
    BY <2>1, HealthCheckedOK
  <2> QED
    BY <1>3, <2>1, <2>2 DEF HealthCheck, ProviderOK
<1>4. CASE \E p \in Providers : RecoveryElapses(p) \/ ControlProvider(p)
  <2>0. PICK p \in Providers :
           \E t : /\ ProviderOK(t) /\ prov' = [prov EXCEPT ![p] = t]
                 /\ t.successful = prov[p].successful /\ t.failed = prov[p].failed
    BY <1>1, <1>2, <1>4
  <2>1. PICK t : /\ ProviderOK(t) /\ prov' = [prov EXCEPT ![p] = t]
                 /\ t.successful = prov[p].successful /\ t.failed = prov[p].failed
    BY <2>0
  <2>2. UNCHANGED <<pc, at, attempt, errors, served>>
    BY <1>4 DEF RecoveryElapses, ControlProvider
  <2> QED
    BY <1>0, <2>1, <2>2 DEF ProviderOK
<1> QED
  BY <1>3, <1>4

\* Every step keeps the invariant.
LEMMA NextIInv == IInv /\ [Next]_vars => IInv'
<1> SUFFICES ASSUME IInv, [Next]_vars PROVE IInv'
  OBVIOUS
<1>1. ASSUME NEW r \in Requests, Begin(r) PROVE IInv'
  BY <1>1, BeginIInv
<1>2. ASSUME NEW r \in Requests, RequestStep(r) PROVE IInv'
  BY <1>2, AnsweredIInv, AttemptIInv, ProviderFailedIInv DEF RequestStep
<1>3. CASE \/ \E p \in Providers : RecoveryElapses(p) \/ ControlProvider(p)
           \/ HealthCheck
  BY <1>3, OperatorStep, ProvidersOnlyIInv
<1>4. CASE UNCHANGED vars
  BY <1>4 DEF vars, IInv, LoopTypes, FailoverInOrder, LoopOK
<1> QED
  BY <1>1, <1>2, <1>3, <1>4 DEF Next, Step, RoutingNext

\* Every reachable state of the router satisfies the inductive invariant:
\* concurrent requests and operators never leave a provider object whose
\* breaker, probe count and metrics contradict each other.
THEOREM RouterInvariant == Spec => []IInv
<1>1. Init => IInv
  BY InitIInv
<1>2. IInv /\ [Next]_vars => IInv'
  BY NextIInv
<1> QED
  BY <1>1, <1>2, PTL DEF Spec

\* A breaker has an opening time exactly while it is not closed: no breaker
\* is ever open without a way to a probe.
THEOREM BreakerConsistent == Spec => []OpenedAtMatchesCircuit
<1>1. IInv => OpenedAtMatchesCircuit
  BY DEF IInv, ProviderOK, OpenedAtMatchesCircuit
<1> QED
  BY <1>1, RouterInvariant, PTL

\* Successful probes never pile up without closing the breaker.
THEOREM ProbesAreBounded == Spec => []ProbesBounded
<1>1. IInv => ProbesBounded
  BY DEF IInv, ProviderOK, ProbesBounded
<1> QED
  BY <1>1, RouterInvariant, PTL

\* Requests fail over in priority order and report the provider that answered.
THEOREM FailoverOrdered == Spec => []FailoverInOrder
<1>1. IInv => FailoverInOrder
  BY DEF IInv
<1> QED
  BY <1>1, RouterInvariant, PTL

-----------------------------------------------------------------------------
(* The metrics.                                                            *)

AnsweredBy(p) == {r \in Requests : served[r] = p}
GaveUpOn(p) == {r \in Requests : p \in errors[r]}

MetricsInv ==
    \A p \in Providers :
        /\ prov[p].successful = Cardinality(AnsweredBy(p))
        /\ prov[p].failed = Cardinality(GaveUpOn(p))

\* One more request in a set of requests.
LEMMA OneMoreRequest ==
    ASSUME NEW S \in SUBSET Requests, NEW r \in Requests, r \notin S
    PROVE  Cardinality(S \cup {r}) = Cardinality(S) + 1
BY FS_Subset, FS_AddElement, RouterAssumption

\* No request has been counted initially, and none has ended.
LEMMA MetricsInit == Init => MetricsInv
<1> SUFFICES ASSUME Init, NEW p \in Providers
             PROVE  /\ prov[p].successful = Cardinality(AnsweredBy(p))
                    /\ prov[p].failed = Cardinality(GaveUpOn(p))
  BY DEF MetricsInv
<1>1. AnsweredBy(p) = {} /\ GaveUpOn(p) = {}
  BY DEF Init, AnsweredBy, GaveUpOn, NoProvider, Providers
<1> QED
  BY <1>1, FS_EmptySet DEF Init, NewProvider

\* An answer adds one request to the successes of its provider.
LEMMA MetricsAnswered ==
    ASSUME IInv, MetricsInv, NEW r \in Requests, Answered(r)
    PROVE  MetricsInv'
<1>1. /\ at[r] \in Providers /\ at[r] # NoProvider
      /\ served[r] = NoProvider
      /\ ProviderOK(prov[at[r]])
  BY DEF IInv, Answered, FailoverInOrder, LoopTypes
<1>2. /\ served' = [served EXCEPT ![r] = at[r]] /\ errors' = errors
      /\ prov' = [prov EXCEPT ![at[r]] = RecordSuccess(@)]
  BY DEF Answered
<1>p. PICK p0 \in Providers : p0 = at[r]
  BY <1>1
<1>3. AnsweredBy(p0)' = AnsweredBy(p0) \cup {r} /\ r \notin AnsweredBy(p0)
  BY <1>1, <1>2, <1>p DEF AnsweredBy, IInv, LoopTypes
<1>4. \A p \in Providers \ {p0} : AnsweredBy(p)' = AnsweredBy(p)
  BY <1>1, <1>2, <1>p DEF AnsweredBy, IInv, LoopTypes, Providers, NoProvider
<1>5. \A p \in Providers : GaveUpOn(p)' = GaveUpOn(p)
  BY <1>2 DEF GaveUpOn
<1>6. Cardinality(AnsweredBy(p0) \cup {r}) = Cardinality(AnsweredBy(p0)) + 1
  BY <1>3, OneMoreRequest DEF AnsweredBy
<1>7. /\ prov'[p0].successful = prov[p0].successful + 1
      /\ prov'[p0].failed = prov[p0].failed
      /\ \A p \in Providers \ {p0} : prov'[p] = prov[p]
  BY <1>1, <1>2, <1>p, RecordSuccessOK DEF IInv, LoopTypes
<1> QED
  BY <1>1, <1>p, <1>3, <1>4, <1>5, <1>6, <1>7 DEF MetricsInv

\* A failover adds one request to the failures of the provider it leaves.
LEMMA MetricsProviderFailed ==
    ASSUME IInv, MetricsInv, NEW r \in Requests, ProviderFailed(r)
    PROVE  MetricsInv'
<1> DEFINE states == [prov EXCEPT ![at[r]] = RecordFailure(@)]
<1>1. /\ at[r] \in Providers /\ at[r] \notin errors[r]
      /\ ProviderOK(prov[at[r]])
  BY DEF IInv, ProviderFailed, FailoverInOrder, LoopTypes, Providers
<1>2. /\ errors' = [errors EXCEPT ![r] = @ \cup {at[r]}] /\ served' = served
      /\ NextProvider(r, at[r], states)
  BY DEF ProviderFailed
<1>p. PICK p0 \in Providers : p0 = at[r]
  BY <1>1
<1>3. /\ ProviderOK(RecordFailure(prov[at[r]]))
      /\ RecordFailure(prov[at[r]]) \in ProviderState
      /\ RecordFailure(prov[at[r]]).successful = prov[at[r]].successful
      /\ RecordFailure(prov[at[r]]).failed = prov[at[r]].failed + 1
  BY <1>1, RecordFailureOK DEF ProviderOK
<1>4. /\ states \in [Providers -> ProviderState]
      /\ \A p \in Providers : ProviderOK(states[p])
      /\ states[at[r]] = RecordFailure(prov[at[r]])
      /\ \A p \in Providers \ {p0} : states[p] = prov[p]
  BY <1>1, <1>3, <1>p DEF IInv, LoopTypes
<1> HIDE DEF states
<1>5. \A p \in Providers : /\ prov'[p].successful = states[p].successful
                           /\ prov'[p].failed = states[p].failed
  BY <1>1, <1>2, <1>4, NextProviderOK DEF IInv
<1>6. GaveUpOn(p0)' = GaveUpOn(p0) \cup {r} /\ r \notin GaveUpOn(p0)
  BY <1>1, <1>2, <1>p DEF GaveUpOn, IInv, LoopTypes
<1>7. \A p \in Providers \ {p0} : GaveUpOn(p)' = GaveUpOn(p)
  BY <1>1, <1>2, <1>p DEF GaveUpOn, IInv, LoopTypes
<1>8. \A p \in Providers : AnsweredBy(p)' = AnsweredBy(p)
  BY <1>2 DEF AnsweredBy
<1>9. Cardinality(GaveUpOn(p0) \cup {r}) = Cardinality(GaveUpOn(p0)) + 1
  BY <1>6, OneMoreRequest DEF GaveUpOn
<1>10. /\ prov'[p0].successful = prov[p0].successful
       /\ prov'[p0].failed = prov[p0].failed + 1
  BY <1>p, <1>3, <1>4, <1>5
<1>11. \A p \in Providers \ {p0} : /\ prov'[p].successful = prov[p].successful
                                  /\ prov'[p].failed = prov[p].failed
  BY <1>p, <1>4, <1>5
<1> QED
  BY <1>6, <1>7, <1>8, <1>9, <1>10, <1>11 DEF MetricsInv

\* Every step keeps the metrics equal to the requests they count.
LEMMA MetricsNext == IInv /\ MetricsInv /\ [Next]_vars => MetricsInv'
<1> SUFFICES ASSUME IInv, MetricsInv, [Next]_vars PROVE MetricsInv'
  OBVIOUS
<1>0. ASSUME UNCHANGED <<errors, served>>,
             \A p \in Providers : /\ prov'[p].successful = prov[p].successful
                                  /\ prov'[p].failed = prov[p].failed
      PROVE  MetricsInv'
  BY <1>0 DEF MetricsInv, AnsweredBy, GaveUpOn
<1>1. ASSUME NEW r \in Requests, Begin(r) PROVE MetricsInv'
  <2>1. \A p \in Providers : /\ prov'[p].successful = prov[p].successful
                             /\ prov'[p].failed = prov[p].failed
    <3>1. /\ NextProvider(r, NoProvider, prov)
          /\ NoProvider \in Providers \cup {NoProvider}
          /\ LoopTypes /\ prov \in [Providers -> ProviderState]
          /\ \A p \in Providers : ProviderOK(prov[p])
      BY <1>1 DEF Begin, IInv, LoopTypes
    <3> QED
      BY <3>1, NextProviderOK
  <2> QED
    BY <1>0, <1>1, <2>1 DEF Begin
<1>2. ASSUME NEW r \in Requests, RequestStep(r) PROVE MetricsInv'
  <2>1. CASE AttemptFailed(r) \/ Retry(r)
    BY <1>0, <2>1 DEF AttemptFailed, Retry
  <2> QED
    BY <1>2, <2>1, MetricsAnswered, MetricsProviderFailed DEF RequestStep
<1>3. CASE \/ \E p \in Providers : RecoveryElapses(p) \/ ControlProvider(p)
           \/ HealthCheck
  BY <1>0, <1>3, OperatorStep
<1>4. CASE UNCHANGED vars
  BY <1>0, <1>4 DEF vars
<1> QED
  BY <1>1, <1>2, <1>3, <1>4 DEF Next, Step, RoutingNext

\* The metrics of a provider count each request that it answered or that gave
\* up on it exactly once, whatever requests and operators do concurrently.
THEOREM MetricsAccount == Spec => []MetricsAccountForRequests
<1>1. IInv /\ MetricsInv => MetricsAccountForRequests
  BY DEF IInv, ProviderOK, MetricsInv, MetricsAccountForRequests,
         AnsweredBy, GaveUpOn
<1>2. IInv /\ MetricsInv /\ [Next]_vars => MetricsInv'
  BY MetricsNext
<1> QED
  BY <1>1, <1>2, MetricsInit, RouterInvariant, PTL DEF Spec

-----------------------------------------------------------------------------
(* The refinement: which move of the abstract breakers each step is.       *)

\* A provider object moves its breaker from s to t.
SameBreaker(s, t) == t.circuit = s.circuit /\ t.opened = s.opened
Trips(t) == t.circuit = "OPEN" /\ t.opened = "recent"
Probes(s, t) ==
    /\ s.circuit # "CLOSED" /\ s.opened = "elapsed"
    /\ t.circuit = "HALF_OPEN" /\ t.opened = "elapsed"
ClosesProbed(s, t) ==
    s.circuit = "HALF_OPEN" /\ t.circuit = "CLOSED" /\ t.opened = "none"

\* A success leaves the breaker as it is or closes a half-open one.
LEMMA RecordSuccessMoves ==
    ASSUME NEW s \in ProviderState
    PROVE  SameBreaker(s, RecordSuccess(s)) \/ ClosesProbed(s, RecordSuccess(s))
<1> DEFINE c == CountSuccess(s)
           t == CountProbe(c)
<1>1. SameBreaker(s, c)
  BY DEF CountSuccess, SameBreaker, ProviderState
<1>2. SameBreaker(s, t) \/ ClosesProbed(s, t)
  BY <1>1 DEF CountSuccess, CountProbe, CloseCircuit, SameBreaker, ClosesProbed,
              ProviderState
<1>3. SameBreaker(t, RecordSuccess(s))
  BY DEF CountSuccess, CountProbe, CloseCircuit, RecordSuccess, SameBreaker,
         ProviderState
<1> HIDE DEF t, c
<1> QED
  BY <1>2, <1>3 DEF SameBreaker, ClosesProbed

\* A failure leaves the breaker as it is or trips it.
LEMMA RecordFailureMoves ==
    ASSUME NEW s \in ProviderState
    PROVE  SameBreaker(s, RecordFailure(s)) \/ Trips(RecordFailure(s))
BY DEF RecordFailure, CountFailure, OpenCircuit, SameBreaker, Trips,
       ProviderState

\* Enabling and disabling a provider leave its breaker as it is.
LEMMA EnableMoves ==
    ASSUME NEW s \in ProviderState
    PROVE  SameBreaker(s, EnableProvider(s)) /\ SameBreaker(s, DisableProvider(s))
BY DEF EnableProvider, DisableProvider, SameBreaker, ProviderState

\* Admitting a request leaves the breaker as it is or probes it.
LEMMA AdmittedMoves ==
    ASSUME NEW s, ProviderOK(s), Admits(s)
    PROVE  SameBreaker(s, Admitted(s)) \/ Probes(s, Admitted(s))
BY DEF ProviderOK, ProviderState, Admits, Admitted, CanCloseCircuit,
       SameBreaker, Probes

\* Steps of the provider objects as steps of the abstract breakers.
LEMMA SameBreakers ==
    ASSUME \A p \in Providers : SameBreaker(prov[p], prov'[p])
    PROVE  UNCHANGED Breaker!breakerVars
BY DEF Breaker!breakerVars, SameBreaker

\* One provider object that changes is one step of the abstract breakers.
LEMMA OneBreakerMoves ==
    ASSUME NEW p \in Providers,
           \A q \in Providers \ {p} : SameBreaker(prov[q], prov'[q]),
           \/ SameBreaker(prov[p], prov'[p])
           \/ Trips(prov'[p])
           \/ Probes(prov[p], prov'[p])
           \/ ClosesProbed(prov[p], prov'[p])
    PROVE  Breaker!RequestMove \/ UNCHANGED Breaker!breakerVars
<1>1. CASE SameBreaker(prov[p], prov'[p])
  BY <1>1, SameBreakers
<1>2. CASE Trips(prov'[p])
  <2>1. Breaker!Trip(p)
    BY <1>2 DEF Breaker!Trip, Trips, SameBreaker
  <2> QED  BY <2>1 DEF Breaker!RequestMove
<1>3. CASE Probes(prov[p], prov'[p])
  <2>1. Breaker!Probe(p)
    BY <1>3 DEF Breaker!Probe, Probes, SameBreaker
  <2> QED  BY <2>1 DEF Breaker!RequestMove
<1>4. CASE ClosesProbed(prov[p], prov'[p])
  <2>1. Breaker!Close(p)
    BY <1>4 DEF Breaker!Close, ClosesProbed, SameBreaker
  <2> QED  BY <2>1 DEF Breaker!RequestMove
<1> QED
  BY <1>1, <1>2, <1>3, <1>4

\* A failover that trips one breaker and probes the next is one abstract step.
LEMMA TwoBreakersMove ==
    ASSUME NEW p \in Providers, NEW q \in Providers, p # q,
           \A o \in Providers \ {p, q} : SameBreaker(prov[o], prov'[o]),
           SameBreaker(prov[p], prov'[p]) \/ Trips(prov'[p]),
           SameBreaker(prov[q], prov'[q]) \/ Probes(prov[q], prov'[q])
    PROVE  Breaker!RequestMove \/ UNCHANGED Breaker!breakerVars
<1>1. CASE SameBreaker(prov[p], prov'[p])
  BY <1>1, OneBreakerMoves
<1>2. CASE SameBreaker(prov[q], prov'[q])
  BY <1>2, OneBreakerMoves
<1>3. CASE Trips(prov'[p]) /\ Probes(prov[q], prov'[q])
  <2>1. Breaker!TripAndProbe(p, q)
    BY <1>3 DEF Breaker!TripAndProbe, Trips, Probes, SameBreaker
  <2> QED  BY <2>1 DEF Breaker!RequestMove
<1> QED
  BY <1>1, <1>2, <1>3

\* What the step to the next provider leaves of the states it starts from.
LEMMA NextProviderMoves ==
    ASSUME NEW r \in Requests, NEW from,
           NEW states \in [Providers -> ProviderState],
           \A p \in Providers : ProviderOK(states[p]),
           NextProvider(r, from, states)
    PROVE  \/ prov' = states
           \/ \E q \in Providers :
                 /\ q > from
                 /\ SameBreaker(states[q], prov'[q]) \/ Probes(states[q], prov'[q])
                 /\ \A o \in Providers \ {q} : prov'[o] = states[o]
<1>1. CASE \E q \in Candidates(states, from) :
              prov' = [states EXCEPT ![q] = Admitted(@)]
  BY <1>1, AdmittedMoves DEF Candidates
<1> QED
  BY <1>1 DEF NextProvider

\* Every step of a request is a request move of the breakers or none.
LEMMA RequestMovesBreaker ==
    ASSUME IInv, NEW r \in Requests, Begin(r) \/ RequestStep(r)
    PROVE  Breaker!RequestMove \/ UNCHANGED Breaker!breakerVars
<1> USE DEF IInv
<1>0. /\ prov \in [Providers -> ProviderState]
      /\ at[r] \in Providers \cup {NoProvider}
  BY DEF LoopTypes
<1>1. CASE Begin(r)
  <2>1. \/ prov' = prov
        \/ \E q \in Providers :
                 /\ SameBreaker(prov[q], prov'[q]) \/ Probes(prov[q], prov'[q])
                 /\ \A o \in Providers \ {q} : prov'[o] = prov[o]
    BY <1>0, <1>1, NextProviderMoves DEF Begin
  <2> QED
    BY <2>1, OneBreakerMoves, SameBreakers DEF SameBreaker
<1>2. CASE Answered(r)
  <2>1. at[r] \in Providers
    BY <1>0, <1>2 DEF Answered, FailoverInOrder
  <2>2. /\ prov'[at[r]] = RecordSuccess(prov[at[r]])
        /\ \A o \in Providers \ {at[r]} : prov'[o] = prov[o]
    BY <1>0, <1>2, <2>1 DEF Answered
  <2> QED
    BY <1>0, <2>1, <2>2, RecordSuccessMoves, OneBreakerMoves DEF SameBreaker
<1>3. CASE AttemptFailed(r) \/ Retry(r)
  BY <1>3, SameBreakers DEF AttemptFailed, Retry, SameBreaker
<1>4. CASE ProviderFailed(r)
  <2> DEFINE states == [prov EXCEPT ![at[r]] = RecordFailure(@)]
  <2>1. at[r] \in Providers
    BY <1>0, <1>4 DEF ProviderFailed, FailoverInOrder
  <2>2. /\ ProviderOK(RecordFailure(prov[at[r]]))
        /\ RecordFailure(prov[at[r]]) \in ProviderState
    BY <2>1, RecordFailureOK DEF ProviderOK
  <2>3. /\ states \in [Providers -> ProviderState]
        /\ \A p \in Providers : ProviderOK(states[p])
        /\ states[at[r]] = RecordFailure(prov[at[r]])
        /\ \A p \in Providers \ {at[r]} : states[p] = prov[p]
    BY <1>0, <2>1, <2>2
  <2>4. NextProvider(r, at[r], states)
    BY <1>4 DEF ProviderFailed
  <2> HIDE DEF states
  <2>5. SameBreaker(prov[at[r]], states[at[r]]) \/ Trips(states[at[r]])
    BY <1>0, <2>1, <2>3, RecordFailureMoves
  <2>6. CASE prov' = states
    BY <2>1, <2>3, <2>5, <2>6, OneBreakerMoves DEF SameBreaker
  <2>7. ASSUME NEW q \in Providers, q > at[r],
               SameBreaker(states[q], prov'[q]) \/ Probes(states[q], prov'[q]),
               \A o \in Providers \ {q} : prov'[o] = states[o]
        PROVE  Breaker!RequestMove \/ UNCHANGED Breaker!breakerVars
    <3>1. q # at[r]
      BY <2>1, <2>7 DEF Providers
    <3> QED
      BY <2>1, <2>3, <2>5, <2>7, <3>1, TwoBreakersMove DEF SameBreaker
  <2> QED
    BY <2>3, <2>4, <2>6, <2>7, NextProviderMoves
<1> QED
  BY <1>1, <1>2, <1>3, <1>4 DEF RequestStep

\* Every other step is an abstract step that leaves the requests alone.
LEMMA OperatorMovesBreaker ==
    ASSUME IInv,
           \/ \E p \in Providers : RecoveryElapses(p) \/ ControlProvider(p)
           \/ HealthCheck
    PROVE  /\ Breaker!BreakerNext \/ UNCHANGED Breaker!breakerVars
           /\ pc' = pc
<1> USE DEF IInv
<1>0. /\ prov \in [Providers -> ProviderState]
  BY DEF LoopTypes
<1>1. ASSUME NEW p \in Providers, RecoveryElapses(p) PROVE Breaker!BreakerNext
  <2>1. Breaker!Elapse(p)
    BY <1>0, <1>1 DEF RecoveryElapses, Breaker!Elapse, ProviderState
  <2> QED  BY <2>1 DEF Breaker!BreakerNext
<1>2. ASSUME NEW p \in Providers, ControlProvider(p)
      PROVE  Breaker!BreakerNext \/ UNCHANGED Breaker!breakerVars
  <2>1. CASE \/ prov' = [prov EXCEPT ![p] = EnableProvider(@)]
             \/ prov' = [prov EXCEPT ![p] = DisableProvider(@)]
    <3>1. /\ SameBreaker(prov[p], prov'[p])
          /\ \A q \in Providers \ {p} : SameBreaker(prov[q], prov'[q])
      BY <1>0, <2>1, EnableMoves DEF SameBreaker
    <3> QED  BY <3>1, SameBreakers
  <2>2. CASE prov' = [prov EXCEPT ![p] = ResetCircuit(@)]
    <3>1. /\ prov'[p].circuit = "CLOSED" /\ prov'[p].opened = "none"
          /\ \A q \in Providers \ {p} : SameBreaker(prov[q], prov'[q])
      BY <1>0, <2>2 DEF ResetCircuit, CloseCircuit, SameBreaker, ProviderState
    <3>2. Breaker!Reset({p})
      BY <3>1 DEF Breaker!Reset, SameBreaker
    <3> QED  BY <3>2 DEF Breaker!BreakerNext
  <2> QED
    BY <1>2, <2>1, <2>2 DEF ControlProvider
<1>3. ASSUME HealthCheck PROVE Breaker!BreakerNext
  <2>1. PICK available \in [Providers -> BOOLEAN] :
           prov' = [p \in Providers |-> HealthChecked(prov[p], available[p])]
    BY <1>3 DEF HealthCheck
  <2>2. PICK P \in SUBSET Providers :
           P = {p \in Providers : available[p] /\ prov[p].status = "UNHEALTHY"}
    OBVIOUS
  <2>3. /\ \A p \in P : prov'[p].circuit = "CLOSED" /\ prov'[p].opened = "none"
        /\ \A p \in Providers \ P : SameBreaker(prov[p], prov'[p])
    BY <1>0, <2>1, <2>2 DEF HealthChecked, SameBreaker, ProviderState
  <2>4. Breaker!Reset(P)
    BY <2>3 DEF Breaker!Reset, SameBreaker
  <2> QED  BY <2>4 DEF Breaker!BreakerNext
<1>4. pc' = pc
  BY DEF RecoveryElapses, ControlProvider, HealthCheck
<1> QED
  BY <1>1, <1>2, <1>3, <1>4

\* Requests move the breakers along the legal edges only; closing a breaker
\* without a probe takes an operator.
THEOREM RequestsMoveLegally == Spec => RequestsMoveBreakersLegally
<1>1. IInv /\ [Next]_vars =>
         [pc' # pc => Breaker!RequestMove \/ UNCHANGED Breaker!breakerVars]_vars
  <2> SUFFICES ASSUME IInv, [Next]_vars, pc' # pc
               PROVE  Breaker!RequestMove \/ UNCHANGED Breaker!breakerVars
    OBVIOUS
  <2>1. PICK r \in Requests : Begin(r) \/ RequestStep(r)
    BY OperatorMovesBreaker DEF Next, Step, RoutingNext, vars
  <2> QED
    BY <2>1, RequestMovesBreaker
<1> QED
  BY <1>1, RouterInvariant, PTL DEF Spec, RequestsMoveBreakersLegally

\* The router implements the abstract circuit breakers: a breaker is probed
\* only after its recovery timeout and never while it is closed, and no request
\* closes one that is not being probed.
THEOREM RefinesBreaker == Spec => ImplementsBreaker
<1>1. Init => Breaker!BreakerInit
  BY DEF Init, NewProvider, Breaker!BreakerInit
<1>2. IInv /\ [Next]_vars => [Breaker!BreakerNext]_(Breaker!breakerVars)
  <2> SUFFICES ASSUME IInv, [Next]_vars
               PROVE  Breaker!BreakerNext \/ UNCHANGED Breaker!breakerVars
    OBVIOUS
  <2>1. ASSUME NEW r \in Requests, Begin(r) \/ RequestStep(r)
        PROVE  Breaker!BreakerNext \/ UNCHANGED Breaker!breakerVars
    BY <2>1, RequestMovesBreaker DEF Breaker!BreakerNext
  <2>2. CASE \/ \E p \in Providers : RecoveryElapses(p) \/ ControlProvider(p)
             \/ HealthCheck
    BY <2>2, OperatorMovesBreaker
  <2>3. CASE UNCHANGED vars
    BY <2>3, SameBreakers DEF vars, SameBreaker
  <2> QED
    BY <2>1, <2>2, <2>3 DEF Next, Step, RoutingNext
<1> QED
  BY <1>1, <1>2, RouterInvariant, RequestsMoveLegally, PTL
     DEF Spec, ImplementsBreaker, Breaker!BreakerSpec

-----------------------------------------------------------------------------
(* Every provider that stayed usable is tried.                             *)

\* What the history holds of: the providers of usable[r] can be tried now, and
\* those that the loop of r has left behind are in its errors.
UsableInv ==
    /\ usable \in [Requests -> SUBSET Providers]
    /\ \A r \in Requests : \A p \in usable[r] : Admits(prov[p])
    /\ UsableIsTried

\* Nobody has been called initially, and every provider can be tried.
LEMMA UsableInit == Init => UsableInv
<1>1. Admits(NewProvider)
  BY DEF Admits, NewProvider
<1> QED
  BY <1>1 DEF Init, UsableInv, UsableIsTried

\* What a step makes of the history.
LEMMA UsableShrinks ==
    ASSUME UsableInv, Watched
    PROVE  /\ usable' \in [Requests -> SUBSET Providers]
           /\ \A r \in Requests : \A p \in usable'[r] : Admits(prov'[p])
           /\ \A r \in Requests : pc'[r] # "idle" => usable'[r] \subseteq usable[r]
<1>1. \A r \in Requests :
         usable'[r] = {p \in IF pc'[r] = "idle" THEN Providers ELSE usable[r] : Admits(prov'[p])}
  BY DEF Watched
<1>2. \A r \in Requests : usable'[r] \in SUBSET Providers
  BY <1>1 DEF UsableInv
<1>3. usable' \in [Requests -> SUBSET Providers]
  BY <1>2 DEF Watched
<1> QED
  BY <1>1, <1>3

\* A request that stays where it is still has tried what it has left behind.
LEMMA UsableElsewhere ==
    ASSUME UsableInv, Watched, NEW q \in Requests,
           pc'[q] = pc[q], at'[q] = at[q], errors'[q] = errors[q],
           served'[q] = served[q], NEW p \in usable'[q],
           \/ pc'[q] = "raised"
           \/ pc'[q] \in {"calling", "sleeping"} /\ p < at'[q]
           \/ pc'[q] = "returned" /\ p < served'[q]
    PROVE  p \in errors'[q]
<1>1. p \in usable[q]
  BY UsableShrinks
<1> QED
  BY <1>1 DEF UsableInv, UsableIsTried

\* The loop goes on to the first usable provider, and raises only if there is
\* none: what lies between was not usable.
LEMMA NextProviderTries ==
    ASSUME LoopTypes, NEW r \in Requests,
           NEW states \in [Providers -> ProviderState],
           NextProvider(r, at[r], states),
           NEW p \in Providers, p > at[r], Admits(states[p])
    PROVE  pc'[r] = "calling" /\ at'[r] <= p /\ at'[r] \in Providers
<1>1. p \in Candidates(states, at[r])
  BY DEF Candidates
<1> QED
  BY <1>1 DEF NextProvider, Candidates, LoopTypes

\* Every step keeps it so.
LEMMA UsableNext == IInv /\ UsableInv /\ [Next]_vars => UsableInv'
<1> SUFFICES ASSUME IInv, UsableInv, [Next]_vars PROVE UsableInv'
  OBVIOUS
<1> USE DEF IInv
<1>1. CASE UNCHANGED vars
  BY <1>1 DEF vars, UsableInv, UsableIsTried
<1>2. CASE Step /\ Watched
  <2>1. SUFFICES ASSUME NEW r \in Requests, NEW p \in usable'[r],
                        \/ pc'[r] = "raised"
                        \/ pc'[r] \in {"calling", "sleeping"} /\ p < at'[r]
                        \/ pc'[r] = "returned" /\ p < served'[r]
                 PROVE  p \in errors'[r]
    <3>1. UsableIsTried'
      BY <2>1 DEF UsableIsTried
    <3> QED
      BY <1>2, <3>1, UsableShrinks DEF UsableInv
  <2>0. /\ p \in Providers /\ at[r] \in Providers \cup {NoProvider}
        /\ p \in Int /\ at[r] \in Int
    BY <1>2, UsableShrinks DEF LoopTypes, Providers, NoProvider
  <2>2. CASE pc'[r] = "idle"
    BY <2>1, <2>2
  <2>3. ASSUME pc'[r] # "idle"
        PROVE  p \in usable[r] /\ Admits(prov[p])
    <3>1. p \in usable[r]
      BY <1>2, <2>3, UsableShrinks
    <3> QED
      BY <3>1 DEF UsableInv
  <2>4. ASSUME pc'[r] = pc[r], at'[r] = at[r], errors'[r] = errors[r],
               served'[r] = served[r]
        PROVE  p \in errors'[r]
    BY <1>2, <2>1, <2>4, UsableElsewhere
  <2>5. CASE Begin(r)
    <3>1. at[r] = NoProvider /\ p > at[r]
      BY <2>0, <2>5 DEF Begin, LoopOK, Providers, NoProvider
    <3>2. prov \in [Providers -> ProviderState] /\ NextProvider(r, at[r], prov)
      BY <2>5, <3>1 DEF Begin, LoopTypes
    <3>3. pc'[r] # "idle"
      BY <2>5 DEF Begin, NextProvider, LoopTypes
    <3>4. pc'[r] = "calling" /\ at'[r] <= p /\ at'[r] \in Providers
      BY <2>0, <2>3, <3>1, <3>2, <3>3, NextProviderTries
    <3> QED
      BY <2>0, <2>1, <3>4 DEF Providers
  <2>6. CASE Answered(r)
    <3>1. /\ pc'[r] = "returned" /\ served'[r] = at[r] /\ pc[r] = "calling"
          /\ errors'[r] = errors[r]
      BY <2>6 DEF Answered, LoopTypes
    <3> QED
      BY <2>1, <2>3, <3>1 DEF UsableInv, UsableIsTried
  <2>7. CASE AttemptFailed(r) \/ Retry(r)
    <3>1. /\ pc'[r] \in {"calling", "sleeping"} /\ pc[r] \in {"calling", "sleeping"}
          /\ at'[r] = at[r] /\ errors'[r] = errors[r]
      BY <2>7 DEF AttemptFailed, Retry, LoopTypes
    <3> QED
      BY <2>1, <2>3, <3>1 DEF UsableInv, UsableIsTried
  <2>8. CASE ProviderFailed(r)
    <3> DEFINE states == [prov EXCEPT ![at[r]] = RecordFailure(@)]
    <3>1. /\ at[r] \in Providers /\ pc[r] = "calling"
          /\ RecordFailure(prov[at[r]]) \in ProviderState
          /\ errors'[r] = errors[r] \cup {at[r]}
      BY <2>8, RecordFailureOK DEF ProviderFailed, FailoverInOrder, LoopTypes, ProviderOK
    <3>2. /\ states \in [Providers -> ProviderState]
          /\ NextProvider(r, at[r], states)
          /\ p > at[r] => states[p] = prov[p]
      BY <2>0, <2>8, <3>1 DEF ProviderFailed, LoopTypes
    <3> HIDE DEF states
    <3>3. pc'[r] # "idle"
      BY <2>8 DEF ProviderFailed, NextProvider, LoopTypes
    <3>4. CASE p > at[r]
      <4>1. pc'[r] = "calling" /\ at'[r] <= p /\ at'[r] \in Providers
        BY <2>0, <2>3, <3>2, <3>3, <3>4, NextProviderTries
      <4> QED
        BY <2>0, <2>1, <4>1 DEF Providers
    <3>5. CASE p < at[r]
      BY <2>3, <3>1, <3>3, <3>5 DEF UsableInv, UsableIsTried
    <3> QED
      BY <2>0, <3>1, <3>4, <3>5
  <2>9. ASSUME NEW q \in Requests, q # r, Begin(q) \/ RequestStep(q)
        PROVE  p \in errors'[r]
    BY <2>4, <2>9 DEF Begin, RequestStep, Answered, AttemptFailed, Retry,
       ProviderFailed, NextProvider, ForgetLoop, LoopTypes
  <2>10. CASE \/ \E o \in Providers : RecoveryElapses(o) \/ ControlProvider(o)
              \/ HealthCheck
    BY <2>4, <2>10, OperatorStep
  <2> QED
    BY <1>2, <2>5, <2>6, <2>7, <2>8, <2>9, <2>10 DEF Step, RoutingNext, RequestStep
<1> QED
  BY <1>1, <1>2 DEF Next

\* The variables of the router keep their types.
THEOREM TypeCorrect == Spec => []TypeOK
<1>1. IInv /\ UsableInv => TypeOK
  BY DEF IInv, LoopTypes, UsableInv, TypeOK
<1> QED
  BY <1>1, RouterInvariant, UsableInit, UsableNext, PTL DEF Spec

\* A request that fails has given up on every provider that could have been tried
\* at any time since it was called, whatever became of the providers meanwhile,
\* and one that fails over has given up on all of those it has left behind.
THEOREM UsableTried == Spec => []UsableIsTried
<1>1. UsableInv => UsableIsTried
  BY DEF UsableInv
<1> QED
  BY <1>1, RouterInvariant, UsableInit, UsableNext, PTL DEF Spec

=============================================================================
