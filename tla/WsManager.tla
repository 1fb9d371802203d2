------------------------------ MODULE WsManager ------------------------------
(***************************************************************************)
(* The WebSocket manager of the live dashboard                             *)
(* (infrastructure/ws_manager/handler.py): clients that connect, are sent  *)
(* the recent history and stay in a list, and broadcasts that walk that    *)
(* list with an await at every client.  The walk is the iterator of a      *)
(* Python list: it remembers a position, not a client, and the list        *)
(* changes under it.                                                       *)
(*                                                                         *)
(* An action is what a coroutine does from one suspension to the next.     *)
(***************************************************************************)
EXTENDS Integers, FiniteSets, Filters

CONSTANTS
    Clients,        \* the WebSocket connections made during a behaviour
    Events,         \* the broadcasts made during a behaviour
    HistoryMax,     \* maxlen of _event_history
    ReplayMax       \* how much of the history a new client is sent

ASSUME WsAssumption ==
    /\ IsFiniteSet(Clients)
    /\ IsFiniteSet(Events)
    /\ HistoryMax \in Nat \ {0}
    /\ ReplayMax \in 1..HistoryMax

VARIABLES
    conns,      \* _connections
    history,    \* _event_history
    alive,      \* the clients whose peer has not gone away
    cpc,        \* cpc[c]: where the endpoint of client c is
    replay,     \* replay[c]: the history it has still to be sent
    bpc,        \* bpc[e]: where the broadcast of event e is
    pos,        \* pos[e]: the position of its iterator in the list
    failed,     \* failed[e]: its list "disconnected"
    live,       \* live[c]: the events c received from a broadcast ...
    replayed,   \* ... and those it received when it connected
    began,      \* the recorded events in the order they were recorded
    audience,   \* audience[e]: the clients in the list when e began, but for those
                \* whose peer has left since
    removed     \* removed[e]: how many left the list during the walk of e

clientVars == <<alive, cpc, replay, replayed>>

vars == <<conns, history, alive, cpc, replay, bpc, pos, failed, live, replayed,
          began, audience, removed>>

LastOf(s, n) == SubSeq(s, IF Len(s) > n THEN Len(s) - n + 1 ELSE 1, Len(s))

Init ==
    /\ conns = <<>>
    /\ history = <<>>
    /\ alive = Clients
    /\ cpc = [c \in Clients |-> "new"]
    /\ replay = [c \in Clients |-> <<>>]
    /\ bpc = [e \in Events |-> "idle"]
    /\ pos = [e \in Events |-> 0]
    /\ failed = [e \in Events |-> {}]
    /\ live = [c \in Clients |-> {}]
    /\ replayed = [c \in Clients |-> {}]
    /\ began = <<>>
    /\ audience = [e \in Events |-> {}]
    /\ removed = [e \in Events |-> 0]

-----------------------------------------------------------------------------
(* The list.                                                               *)

\* disconnect(), for every client of gone that is still in the list; it
\* shortens the list under the given walks.
Disconnect(gone, walks) ==
    /\ conns' = Filter(conns, Clients \ gone)
    /\ removed' = [e \in Events |->
                      IF e \in walks
                      THEN removed[e] + Cardinality(gone \cap Elements(conns))
                      ELSE removed[e]]

Walks == {e \in Events : bpc[e] = "sending"}

-----------------------------------------------------------------------------
(* The endpoint of one client.                                             *)

\* The loop of connect() that sends the history, with the events of h left:
\* the next one is sent, or the sending fails and the loop is left.
ReplayFrom(c, h) ==
    \/ /\ h = <<>>
       /\ cpc' = [cpc EXCEPT ![c] = "serving"]
       /\ replay' = [replay EXCEPT ![c] = <<>>]
       /\ UNCHANGED replayed
    \/ /\ h # <<>>
       /\ cpc' = [cpc EXCEPT ![c] = "replaying"]
       /\ replay' = [replay EXCEPT ![c] = Tail(h)]
       /\ replayed' = [replayed EXCEPT
                          ![c] = IF c \in alive THEN @ \cup {Head(h)} ELSE @]
    \/ /\ h # <<>>
       /\ c \notin alive
       /\ cpc' = [cpc EXCEPT ![c] = "serving"]
       /\ replay' = [replay EXCEPT ![c] = <<>>]
       /\ UNCHANGED replayed

\* Mutant: only a client that needs no history is put in the list at once.
ConnectBeforeReplay(c) ==
    /\ cpc[c] = "new"
    /\ conns' = IF history = <<>> THEN Append(conns, c) ELSE conns
    /\ ReplayFrom(c, LastOf(history, ReplayMax))
    /\ UNCHANGED <<history, alive, bpc, pos, failed, live, began,
                   audience, removed>>

\* connect(), after the handshake.
Connect(c) ==
    /\ cpc[c] = "new"
    /\ conns' = Append(conns, c)
    /\ ReplayFrom(c, LastOf(history, ReplayMax))
    /\ UNCHANGED <<history, alive, bpc, pos, failed, live, began,
                   audience, removed>>

\* The event has been sent, or its sending has failed.
Replay(c) ==
    /\ cpc[c] = "replaying"
    /\ ReplayFrom(c, replay[c])
    /\ UNCHANGED <<conns, history, alive, bpc, pos, failed, live, began,
                   audience, removed>>

\* The peer closes the connection or is lost: what it received is forgotten.
PeerLeaves(c) ==
    /\ cpc[c] \in {"replaying", "serving"}
    /\ c \in alive
    /\ alive' = alive \ {c}
    /\ live' = [live EXCEPT ![c] = {}]
    /\ replayed' = [replayed EXCEPT ![c] = {}]
    /\ audience' = [e \in Events |-> audience[e] \ {c}]
    /\ UNCHANGED <<conns, history, cpc, replay, bpc, pos, failed, began, removed>>

\* The endpoint notices: swarm_ws calls disconnect() for a WebSocketDisconnect,
\* and any other exception ends it without.
EndpointEnds(c) ==
    /\ cpc[c] = "serving"
    /\ c \notin alive
    /\ cpc' = [cpc EXCEPT ![c] = "ended"]
    /\ \/ Disconnect({c}, Walks)
       \/ UNCHANGED <<conns, removed>>
    /\ UNCHANGED <<history, alive, replay, bpc, pos, failed, live, replayed,
                   began, audience>>

-----------------------------------------------------------------------------
(* The broadcast of one event.                                             *)

\* The message is handed to client c.
Deliver(e, c) ==
    /\ c \in alive
    /\ live' = [live EXCEPT ![c] = @ \cup {e}]
    /\ UNCHANGED failed

\* Sending to a peer that left raises, or the message is lost on its way.
DeliveryFails(e, c) ==
    /\ c \notin alive
    /\ failed' = [failed EXCEPT ![e] = @ \cup {c}] \/ UNCHANGED failed
    /\ UNCHANGED live

\* Mutant: the first client that fails ends the walk.
WalkFromBreaking(e, n) ==
    \/ /\ n <= Len(conns) /\ failed[e] = {}
       /\ bpc' = [bpc EXCEPT ![e] = "sending"]
       /\ pos' = [pos EXCEPT ![e] = n]
       /\ Deliver(e, conns[n]) \/ DeliveryFails(e, conns[n])
       /\ UNCHANGED <<conns, removed>>
    \/ /\ n > Len(conns) \/ failed[e] # {}
       /\ bpc' = [bpc EXCEPT ![e] = "done"]
       /\ pos' = [pos EXCEPT ![e] = 0]
       /\ Disconnect(failed[e], Walks \ {e})
       /\ failed' = [failed EXCEPT ![e] = {}]
       /\ UNCHANGED live

\* The walk goes on at position n of the list as it is now: one more message,
\* or the end of the list and the removal of the clients that failed.
WalkFrom(e, n) ==
    \/ /\ n <= Len(conns)
       /\ bpc' = [bpc EXCEPT ![e] = "sending"]
       /\ pos' = [pos EXCEPT ![e] = n]
       /\ Deliver(e, conns[n]) \/ DeliveryFails(e, conns[n])
       /\ UNCHANGED <<conns, removed>>
    \/ /\ n > Len(conns)
       /\ bpc' = [bpc EXCEPT ![e] = "done"]
       /\ pos' = [pos EXCEPT ![e] = 0]
       /\ Disconnect(failed[e], Walks \ {e})
       /\ failed' = [failed EXCEPT ![e] = {}]
       /\ UNCHANGED live

\* What broadcast() and broadcast_json() begin with.
Begin(e) ==
    /\ bpc[e] = "idle"
    /\ audience' = [audience EXCEPT ![e] = Elements(conns) \cap alive]
    /\ WalkFrom(e, 1)
    /\ UNCHANGED clientVars

\* broadcast(): the event is recorded first.
Broadcast(e) ==
    /\ Begin(e)
    /\ history' = LastOf(Append(history, e), HistoryMax)
    /\ began' = Append(began, e)

\* broadcast_json(): it is not recorded.
BroadcastJson(e) ==
    /\ Begin(e)
    /\ UNCHANGED <<history, began>>

\* The message has been sent, or its sending has failed.
GoOn(e) ==
    /\ bpc[e] = "sending"
    /\ WalkFrom(e, pos[e] + 1)
    /\ UNCHANGED <<history, began, audience, clientVars>>

-----------------------------------------------------------------------------
Next ==
    \/ \E c \in Clients : Connect(c) \/ Replay(c) \/ PeerLeaves(c) \/ EndpointEnds(c)
    \/ \E e \in Events : Broadcast(e) \/ BroadcastJson(e) \/ GoOn(e)

Spec == Init /\ [][Next]_vars

-----------------------------------------------------------------------------
(* Properties.                                                             *)

\* The variables have their types, and no client is in the list twice: every
\* walk is bounded by the clients, although the list grows under it.
TypeOK ==
    /\ conns \in Seq(Clients)
    /\ Injective(conns)
    /\ history \in Seq(Events) /\ Len(history) <= HistoryMax
    /\ alive \in SUBSET Clients
    /\ cpc \in [Clients -> {"new", "replaying", "serving", "ended"}]
    /\ replay \in [Clients -> Seq(Events)]
    /\ bpc \in [Events -> {"idle", "sending", "done"}]
    /\ pos \in [Events -> 0..Cardinality(Clients)]
    /\ failed \in [Events -> SUBSET Clients]
    /\ live \in [Clients -> SUBSET Events]
    /\ replayed \in [Clients -> SUBSET Events]
    /\ began \in Seq(Events)
    /\ audience \in [Events -> SUBSET Clients]
    /\ removed \in [Events -> 0..Cardinality(Clients)]

\* The clients that were connected before the broadcast of e, are still there
\* and have not received it.
Missed(e) == {c \in audience[e] : e \notin live[c]}

\* A broadcast passes over at most as many connected clients as left the list
\* while it walked: with nobody leaving, everybody who was there receives it.
MissedAtMostRemoved ==
    \A e \in Events : bpc[e] = "done" => Cardinality(Missed(e)) <= removed[e]

\* A client that has caught up has no gap after the oldest event it was sent
\* from the history: whatever was recorded since then has reached it, by the
\* history or by its broadcast, unless somebody left the list meanwhile.
NoGap ==
    \A c \in alive : \A i, j \in DOMAIN began :
        /\ cpc[c] = "serving"
        /\ i <= j
        /\ began[i] \in replayed[c]
        /\ bpc[began[j]] = "done"
        /\ removed[began[j]] = 0
        => began[j] \in live[c] \cup replayed[c]

\* A broadcast reaches all connected clients (handler.py:65): everybody who was in
\* the list when it began and has not left receives it.
AllConnectedReceive == \A e \in Events : bpc[e] = "done" => Missed(e) = {}

=============================================================================
