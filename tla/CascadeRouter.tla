---------------------------- MODULE CascadeRouter ----------------------------
(***************************************************************************)
(* The cascade router of infrastructure/router: requests that fail over    *)
(* from one LLM provider to the next, the circuit breaker of each          *)
(* provider, and the operator endpoints of router/api.py that change the   *)
(* same provider objects.                                                  *)
(*                                                                         *)
(* complete() is a coroutine: it gives up control only while it waits for  *)
(* a provider (_try_provider) and while it sleeps between two attempts.    *)
(* Everything between two awaits is one action here.                       *)
(***************************************************************************)
EXTENDS Integers, FiniteSets

CONSTANTS
    NumProviders,       \* providers that were enabled and available at startup
    Requests,           \* the calls of complete() made during a behaviour
    MaxRetries,         \* max_retries_per_provider
    FailureThreshold,   \* circuit_breaker_failure_threshold
    HalfOpenMaxCalls    \* circuit_breaker_half_open_max_calls

ASSUME RouterAssumption ==
    /\ NumProviders \in Nat
    /\ MaxRetries \in Nat \ {0}
    /\ FailureThreshold \in Nat \ {0}
    /\ HalfOpenMaxCalls \in Nat \ {0}
    /\ IsFiniteSet(Requests)

\* The providers in the order _load_config sorts them: 1 has priority.
Providers == 1..NumProviders

NoProvider == 0

VARIABLES
    prov,       \* prov[p]: status, breaker and metrics of a provider
    pc,         \* pc[r]: where the coroutine of request r is
    at,         \* at[r]: the provider of the current loop iteration
    attempt,    \* attempt[r]: the attempt at that provider, from 1
    errors,     \* errors[r]: the providers that used up their attempts
    served,     \* served[r]: the provider named in the result
    usable      \* history, usable[r]: the providers that could have been tried
                \* at any time since complete() was called

loopVars == <<prov, pc, at, attempt, errors, served>>

vars == <<prov, pc, at, attempt, errors, served, usable>>

Statuses == {"HEALTHY", "DEGRADED", "UNHEALTHY", "DISABLED"}

Breaker == INSTANCE CircuitBreaker WITH
    circuit <- [p \in Providers |-> prov[p].circuit],
    opened  <- [p \in Providers |-> prov[p].opened]

\* A Provider object.  opened abstracts circuit_opened_at to what
\* _can_close_circuit tells apart.
ProviderState ==
    [enabled       : BOOLEAN,
     status        : Statuses,
     circuit       : Breaker!CircuitStates,
     opened        : Breaker!OpenedStates,
     halfOpenCalls : Nat,
     total         : Nat,
     successful    : Nat,
     failed        : Nat,
     consecutive   : Nat]

NewProvider ==
    [enabled |-> TRUE, status |-> "HEALTHY", circuit |-> "CLOSED",
     opened |-> "none", halfOpenCalls |-> 0, total |-> 0, successful |-> 0,
     failed |-> 0, consecutive |-> 0]

-----------------------------------------------------------------------------
(* The provider object: what each method leaves behind.                    *)

\* error_rate < n/10 and error_rate > n/10; the rate of no requests is 0.
ErrorRateBelow(s, n) == s.total = 0 \/ 10 * s.failed < n * s.total
ErrorRateAbove(s, n) == 10 * s.failed > n * s.total

OpenCircuit(s) ==
    [s EXCEPT !.circuit = "OPEN", !.opened = "recent", !.status = "UNHEALTHY"]

CloseCircuit(s) ==
    [s EXCEPT !.circuit = "CLOSED", !.opened = "none", !.halfOpenCalls = 0,
              !.consecutive = 0, !.status = "HEALTHY"]

CanCloseCircuit(s) == s.opened = "elapsed"

CountSuccess(s) ==
    [s EXCEPT !.total = @ + 1, !.successful = @ + 1, !.consecutive = 0]

\* Mutant: any success while the breaker is not closed counts as a probe.
CountAnySuccess(s) ==
    IF s.circuit = "CLOSED" THEN s
    ELSE IF s.halfOpenCalls + 1 >= HalfOpenMaxCalls THEN CloseCircuit(s)
    ELSE [s EXCEPT !.halfOpenCalls = @ + 1]

\* A success in the half-open state counts towards closing the circuit.
CountProbe(s) ==
    IF s.circuit # "HALF_OPEN" THEN s
    ELSE IF s.halfOpenCalls + 1 >= HalfOpenMaxCalls THEN CloseCircuit(s)
    ELSE [s EXCEPT !.halfOpenCalls = @ + 1]

RecordSuccess(s) ==
    LET t == CountProbe(CountSuccess(s))
    IN  [t EXCEPT !.status = IF ErrorRateBelow(t, 1) THEN "HEALTHY"
                             ELSE IF ErrorRateBelow(t, 3) THEN "DEGRADED"
                             ELSE @]

CountFailure(s) ==
    [s EXCEPT !.total = @ + 1, !.failed = @ + 1, !.consecutive = @ + 1]

RecordFailure(s) ==
    LET f == CountFailure(s)
        t == IF f.consecutive >= FailureThreshold THEN OpenCircuit(f) ELSE f
    IN  [t EXCEPT !.status = IF ErrorRateAbove(t, 5) THEN "UNHEALTHY"
                             ELSE IF ErrorRateAbove(t, 3) THEN "DEGRADED"
                             ELSE @]

\* The head of the loop in complete(): is the provider tried or skipped, and
\* what the router does to it when it is tried.
Admits(s) == s.enabled /\ (s.status = "UNHEALTHY" => CanCloseCircuit(s))

Admitted(s) ==
    IF s.status = "UNHEALTHY"
    THEN [s EXCEPT !.circuit = "HALF_OPEN", !.halfOpenCalls = 0]
    ELSE s

\* POST /providers/{name}/control
EnableProvider(s) == [s EXCEPT !.enabled = TRUE, !.status = "HEALTHY"]
DisableProvider(s) == [s EXCEPT !.enabled = FALSE, !.status = "DISABLED"]
ResetCircuit(s) == CloseCircuit(s)

\* POST /health-check, for one provider that is or is not available.
HealthChecked(s, available) ==
    IF ~available THEN [s EXCEPT !.status = "UNHEALTHY"]
    ELSE LET t == IF s.status = "UNHEALTHY"
                  THEN [s EXCEPT !.circuit = "CLOSED", !.opened = "none"]
                  ELSE s
         IN  [t EXCEPT !.status = IF ErrorRateBelow(t, 1) THEN "HEALTHY"
                                  ELSE "DEGRADED"]

-----------------------------------------------------------------------------
(* The coroutines.                                                         *)

Init ==
    /\ prov = [p \in Providers |-> NewProvider]
    /\ pc = [r \in Requests |-> "idle"]
    /\ at = [r \in Requests |-> NoProvider]
    /\ attempt = [r \in Requests |-> 0]
    /\ errors = [r \in Requests |-> {}]
    /\ served = [r \in Requests |-> NoProvider]
    /\ usable = [r \in Requests |-> Providers]

\* Mutant: the loop ends at the last provider before it is tried.
CandidatesShort(states, from) ==
    {p \in Providers : p > from /\ p < NumProviders /\ Admits(states[p])}

Candidates(states, from) ==
    {p \in Providers : p > from /\ Admits(states[p])}

\* The locals of the loop are gone when complete() is.
ForgetLoop(r) ==
    /\ at' = [at EXCEPT ![r] = NoProvider]
    /\ attempt' = [attempt EXCEPT ![r] = 0]

\* The loop of complete() after the iteration of provider "from", with the
\* providers in the given states: on to the first provider that is not
\* skipped, or out of the loop.
NextProvider(r, from, states) ==
    \/ \E p \in Candidates(states, from) :
          /\ \A q \in Candidates(states, from) : p <= q
          /\ prov' = [states EXCEPT ![p] = Admitted(@)]
          /\ pc' = [pc EXCEPT ![r] = "calling"]
          /\ at' = [at EXCEPT ![r] = p]
          /\ attempt' = [attempt EXCEPT ![r] = 1]
    \/ /\ Candidates(states, from) = {}
       /\ prov' = states
       /\ pc' = [pc EXCEPT ![r] = "raised"]
       /\ ForgetLoop(r)

\* complete() is called.
Begin(r) ==
    /\ pc[r] = "idle"
    /\ NextProvider(r, NoProvider, prov)
    /\ UNCHANGED <<errors, served>>

\* _try_provider returns: the success is recorded and complete() returns.
Answered(r) ==
    /\ pc[r] = "calling"
    /\ prov' = [prov EXCEPT ![at[r]] = RecordSuccess(@)]
    /\ pc' = [pc EXCEPT ![r] = "returned"]
    /\ served' = [served EXCEPT ![r] = at[r]]
    /\ ForgetLoop(r)
    /\ UNCHANGED errors

\* Mutant: every failed attempt counts as a failed request.
AttemptFailedCounted(r) ==
    /\ pc[r] = "calling"
    /\ attempt[r] < MaxRetries
    /\ prov' = [prov EXCEPT ![at[r]] = RecordFailure(@)]
    /\ pc' = [pc EXCEPT ![r] = "sleeping"]
    /\ UNCHANGED <<at, attempt, errors, served>>

\* _try_provider raises, an error or its timeout, with attempts left.
AttemptFailed(r) ==
    /\ pc[r] = "calling"
    /\ attempt[r] < MaxRetries
    /\ pc' = [pc EXCEPT ![r] = "sleeping"]
    /\ UNCHANGED <<prov, at, attempt, errors, served>>

\* Mutant: the attempts are not counted.
RetryForever(r) ==
    /\ pc[r] = "sleeping"
    /\ pc' = [pc EXCEPT ![r] = "calling"]
    /\ UNCHANGED <<prov, at, attempt, errors, served>>

\* The retry delay is over.
Retry(r) ==
    /\ pc[r] = "sleeping"
    /\ pc' = [pc EXCEPT ![r] = "calling"]
    /\ attempt' = [attempt EXCEPT ![r] = @ + 1]
    /\ UNCHANGED <<prov, at, errors, served>>

\* _try_provider raises on the last attempt: one failure is recorded and the
\* loop moves on.
ProviderFailed(r) ==
    /\ pc[r] = "calling"
    /\ attempt[r] = MaxRetries
    /\ errors' = [errors EXCEPT ![r] = @ \cup {at[r]}]
    /\ NextProvider(r, at[r], [prov EXCEPT ![at[r]] = RecordFailure(@)])
    /\ UNCHANGED served

RequestStep(r) == Answered(r) \/ AttemptFailed(r) \/ Retry(r) \/ ProviderFailed(r)

\* The recovery timeout of a tripped breaker passes.
RecoveryElapses(p) ==
    /\ prov[p].opened = "recent"
    /\ prov' = [prov EXCEPT ![p].opened = "elapsed"]
    /\ UNCHANGED <<pc, at, attempt, errors, served>>

ControlProvider(p) ==
    /\ \/ prov' = [prov EXCEPT ![p] = EnableProvider(@)]
       \/ prov' = [prov EXCEPT ![p] = DisableProvider(@)]
       \/ prov' = [prov EXCEPT ![p] = ResetCircuit(@)]
    /\ UNCHANGED <<pc, at, attempt, errors, served>>

\* One health check visits every provider without giving up control.
HealthCheck ==
    /\ \E available \in [Providers -> BOOLEAN] :
          prov' = [p \in Providers |-> HealthChecked(prov[p], available[p])]
    /\ UNCHANGED <<pc, at, attempt, errors, served>>

\* The router left to its requests, with nobody at the operator endpoints.
RoutingNext ==
    \/ \E r \in Requests : Begin(r) \/ RequestStep(r)
    \/ \E p \in Providers : RecoveryElapses(p)

Step ==
    \/ RoutingNext
    \/ \E p \in Providers : ControlProvider(p)
    \/ HealthCheck

\* What the history makes of a step.
Watched ==
    usable' = [r \in Requests |->
                  {p \in IF pc'[r] = "idle" THEN Providers ELSE usable[r] : Admits(prov'[p])}]

Next == Step /\ Watched

\* Every attempt ends: the call has a timeout and the retry delay is finite.
Fairness == \A r \in Requests : WF_loopVars(RequestStep(r))

Spec == Init /\ [][Next]_vars /\ Fairness

RoutingSpec == Init /\ [][RoutingNext /\ Watched]_vars

-----------------------------------------------------------------------------
(* Properties.                                                             *)

\* The variables have their types.
TypeOK ==
    /\ prov \in [Providers -> ProviderState]
    /\ pc \in [Requests -> {"idle", "calling", "sleeping", "returned", "raised"}]
    /\ at \in [Requests -> Providers \cup {NoProvider}]
    /\ attempt \in [Requests -> 0..MaxRetries]
    /\ errors \in [Requests -> SUBSET Providers]
    /\ served \in [Requests -> Providers \cup {NoProvider}]
    /\ usable \in [Requests -> SUBSET Providers]

\* A breaker has an opening time exactly while it is not closed.  If an open
\* breaker had none, _can_close_circuit would never let a probe through; a
\* stale one on a closed breaker would turn a provider that a health check
\* marked unhealthy half-open, although it never tripped.
OpenedAtMatchesCircuit ==
    \A p \in Providers : prov[p].opened = "none" <=> prov[p].circuit = "CLOSED"

\* A half-open breaker that has seen all its probes succeed has closed: the
\* count of successful probes never stands at the maximum, and a provider
\* never has more failures in a row than it has failures.
ProbesBounded ==
    \A p \in Providers :
        /\ prov[p].halfOpenCalls < HalfOpenMaxCalls
        /\ prov[p].consecutive <= prov[p].failed

\* The metrics account for every request exactly once at every provider it
\* reached, however requests interleave and however often they retry: the
\* successes of a provider are the requests it answered, its failures are
\* the requests that gave up on it, and the total is their sum.
MetricsAccountForRequests ==
    \A p \in Providers :
        /\ prov[p].successful = Cardinality({r \in Requests : served[r] = p})
        /\ prov[p].failed = Cardinality({r \in Requests : p \in errors[r]})
        /\ prov[p].total = prov[p].successful + prov[p].failed

\* A request reports the provider that answered it and no provider that had
\* already used up its attempts; it visits providers in priority order.
FailoverInOrder ==
    \A r \in Requests :
        /\ pc[r] = "returned" <=> served[r] # NoProvider
        /\ served[r] \notin errors[r]
        /\ pc[r] \in {"calling", "sleeping"} =>
              at[r] # NoProvider /\ \A p \in errors[r] : p < at[r]

\* A request that fails has tried, and given up on, every provider that could
\* have been tried at any time since it was called, and one that fails over has
\* tried all of those before the one it has come to or was answered by.  The loop
\* reads the state of a provider only when it comes to it, and operators, health
\* checks and other requests change it meanwhile.
UsableIsTried ==
    \A r \in Requests : \A p \in usable[r] :
        \/ pc[r] = "raised"
        \/ pc[r] \in {"calling", "sleeping"} /\ p < at[r]
        \/ pc[r] = "returned" /\ p < served[r]
        => p \in errors[r]

\* Requests alone close a breaker only from half-open, whatever answers come late
\* to one that tripped meanwhile, probe it only after its recovery timeout, and
\* never open the question for a closed one: the moves that skip these rules
\* belong to the operator.
RequestsMoveBreakersLegally ==
    [][pc' # pc => Breaker!RequestMove \/ UNCHANGED Breaker!breakerVars]_vars

\* The provider objects implement the promises of the circuit breakers, and leave
\* the moves of an operator to the operator.
ImplementsBreaker == Breaker!BreakerSpec /\ RequestsMoveBreakersLegally

\* Every request that was begun returns a result or raises.
EveryRequestEnds ==
    \A r \in Requests : pc[r] = "calling" ~> pc[r] \in {"returned", "raised"}

\* An open circuit rejects requests (cascade.py:45): none moves on to a provider
\* whose breaker is open and whose recovery timeout has not elapsed.
OpenCircuitRejects ==
    [][\A p \in Providers, r \in Requests :
          prov[p].circuit = "OPEN" /\ prov[p].opened = "recent"
          => ~(at[r] # p /\ at'[r] = p)]_vars

=============================================================================
