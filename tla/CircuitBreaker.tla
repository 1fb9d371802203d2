--------------------------- MODULE CircuitBreaker ---------------------------
(***************************************************************************)
(* What the circuit breakers of the cascade router promise, one breaker    *)
(* per provider, without the metrics, the health status and the requests   *)
(* that drive them.  A breaker that tripped is probed only once its        *)
(* recovery timeout has elapsed, a closed breaker is never probed, and a   *)
(* breaker closes only after a probe or because an operator said so.       *)
(***************************************************************************)

CONSTANT Providers

VARIABLES
    circuit,    \* circuit[p]: the state of the breaker of provider p
    opened      \* opened[p]: how long ago it tripped

breakerVars == <<circuit, opened>>

CircuitStates == {"CLOSED", "OPEN", "HALF_OPEN"}

\* circuit_opened_at: not set, younger than the recovery timeout, or older.
OpenedStates == {"none", "recent", "elapsed"}

BreakerInit ==
    /\ circuit = [p \in Providers |-> "CLOSED"]
    /\ opened = [p \in Providers |-> "none"]

\* The failure threshold was reached; a breaker that is already open restarts
\* its recovery timeout.
Trip(p) ==
    /\ circuit' = [circuit EXCEPT ![p] = "OPEN"]
    /\ opened' = [opened EXCEPT ![p] = "recent"]

\* The recovery timeout of a tripped breaker runs out.
Elapse(p) ==
    /\ opened[p] = "recent"
    /\ opened' = [opened EXCEPT ![p] = "elapsed"]
    /\ UNCHANGED circuit

\* A request is let through to find out whether the provider has recovered.
Probe(p) ==
    /\ circuit[p] # "CLOSED"
    /\ opened[p] = "elapsed"
    /\ circuit' = [circuit EXCEPT ![p] = "HALF_OPEN"]
    /\ UNCHANGED opened

\* The probes succeeded.
Close(p) ==
    /\ circuit[p] = "HALF_OPEN"
    /\ circuit' = [circuit EXCEPT ![p] = "CLOSED"]
    /\ opened' = [opened EXCEPT ![p] = "none"]

\* A request gives up on provider p and fails over to q: the breaker of p may
\* trip and the one of q may be probed in one step, as nothing is awaited
\* in between.
TripAndProbe(p, q) ==
    /\ p # q
    /\ circuit[q] # "CLOSED"
    /\ opened[q] = "elapsed"
    /\ circuit' = [circuit EXCEPT ![p] = "OPEN", ![q] = "HALF_OPEN"]
    /\ opened' = [opened EXCEPT ![p] = "recent"]

\* What requests do to the breakers.
RequestMove ==
    \/ \E p \in Providers : Trip(p) \/ Probe(p) \/ Close(p)
    \/ \E p, q \in Providers : TripAndProbe(p, q)

\* An operator, or a health check over all providers, closes breakers that
\* had tripped, whatever their state.
Reset(P) ==
    /\ circuit' = [p \in Providers |-> IF p \in P THEN "CLOSED" ELSE circuit[p]]
    /\ opened' = [p \in Providers |-> IF p \in P THEN "none" ELSE opened[p]]

BreakerNext ==
    \/ RequestMove
    \/ \E p \in Providers : Elapse(p)
    \/ \E P \in SUBSET Providers : Reset(P)

BreakerSpec == BreakerInit /\ [][BreakerNext]_breakerVars

=============================================================================
