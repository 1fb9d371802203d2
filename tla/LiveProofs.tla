------------------------------ MODULE LiveProofs ------------------------------
(***************************************************************************)
(* Proofs about what the browser is shown: the events that the WebSocket   *)
(* manager sends and the event log tells of, for any clients, events and   *)
(* lengths of the history; and the task board, for any tasks.              *)
(***************************************************************************)
EXTENDS EventLog, TaskBoard, FilterTheorems, TLAPS

----------------------------------------------------------------------------
(***************************************************************************)
(* The WebSocket manager and the event log.                                *)
(***************************************************************************)

(* The inductive invariant of the WebSocket manager. *)

Joined == {c \in Clients : cpc[c] # "new"}

\* Clients that were in the list and are not.
Gone == Joined \ Elements(conns)

\* Where the walk of e has still to go.
Ahead(e) == IF bpc[e] = "sending" THEN ElementsAfter(conns, pos[e]) ELSE {}

\* Those of its audience that it has not reached and will not reach.
Passed(e) == {c \in Missed(e) : c \notin Ahead(e)}

\* A client whose peer is there is in the list from its connection on.
ListOK ==
    /\ Elements(conns) \subseteq Joined
    /\ Joined \cap alive \subseteq Elements(conns)
    /\ Clients \ Joined \subseteq alive

\* Each client that a walk passed over pays for one that left the list.
WalkOf(e) ==
    /\ failed[e] \cap alive = {}
    /\ audience[e] \subseteq alive \cap Joined
    /\ bpc[e] = "idle" => removed[e] = 0 /\ audience[e] = {}
    /\ Cardinality(Passed(e)) <= removed[e]
    /\ removed[e] <= Cardinality(Gone)

WalkOK == \A e \in Events : WalkOf(e)

\* The history is the end of what was recorded, and each event is recorded once.
HistoryOK ==
    /\ Injective(began)
    /\ \A k \in DOMAIN began : bpc[began[k]] # "idle"
    /\ Len(history) = IF Len(began) < HistoryMax THEN Len(began) ELSE HistoryMax
    /\ \A i \in DOMAIN history : history[i] = began[Len(began) - Len(history) + i]

\* The events that c was or will be sent from the history are the recorded ones
\* from one place to another, and c is in the audience of all later ones.
Covers(c, lo, hi) ==
    /\ replayed[c] \cup Elements(replay[c]) = {began[k] : k \in lo .. hi}
    /\ \A k \in hi + 1 .. Len(began) : c \in audience[began[k]]

CaughtUp(c) ==
    /\ cpc[c] = "serving" => replay[c] = <<>>
    /\ \E lo \in 1 .. Len(began) + 1 : \E hi \in 0 .. Len(began) : Covers(c, lo, hi)

ReplayOK ==
    /\ \A c \in Clients \ Joined : replayed[c] = {} /\ replay[c] = <<>>
    /\ \A c \in Joined \cap alive : CaughtUp(c)

WsIInv == TypeOK /\ ListOK /\ WalkOK /\ HistoryOK /\ ReplayOK

-----------------------------------------------------------------------------
(* The operators of the model. *)

LEMMA LastOfFacts ==
    ASSUME NEW S, NEW s \in Seq(S), NEW n \in Nat \ {0}
    PROVE  /\ LastOf(s, n) \in Seq(S)
           /\ Len(LastOf(s, n)) = IF Len(s) > n THEN n ELSE Len(s)
           /\ \A i \in 1 .. Len(LastOf(s, n)) :
                  LastOf(s, n)[i] = s[Len(s) - Len(LastOf(s, n)) + i]
<1>0. PICK l \in Nat : l = Len(s)
  OBVIOUS
<1>1. CASE l > n
  <2>1. LastOf(s, n) = SubSeq(s, l - n + 1, l)
    BY <1>0, <1>1 DEF LastOf
  <2>2. l - n + 1 \in 1 .. l
    BY <1>1
  <2> QED
    BY <1>0, <1>1, <2>1, <2>2
<1>2. CASE ~(l > n)
  <2>1. LastOf(s, n) = s
    BY <1>0, <1>2, SubSeqFull DEF LastOf
  <2> QED
    BY <1>0, <1>2, <2>1
<1> QED
  BY <1>1, <1>2

\* Cardinalities of sets of clients.
LEMMA ClientSets ==
    ASSUME NEW A \in SUBSET Clients, NEW B \in SUBSET A
    PROVE  /\ IsFiniteSet(A) /\ IsFiniteSet(B)
           /\ Cardinality(A) \in Nat /\ Cardinality(B) \in Nat
           /\ Cardinality(B) <= Cardinality(A)
<1>1. IsFiniteSet(A)
  BY WsAssumption, FS_Subset
<1> QED
  BY <1>1, FS_Subset, FS_CardinalityType

LEMMA ListSize ==
    ASSUME TypeOK
    PROVE  Len(conns) <= Cardinality(Clients) /\ Len(conns) \in Nat
<1>1. conns \in Seq(Clients) /\ Injective(conns)
  BY DEF TypeOK
<1>2. Elements(conns) \in SUBSET Clients
  BY <1>1 DEF Elements
<1>3. Cardinality(Elements(conns)) = Len(conns)
  BY <1>1, ElementsSize
<1>4. Clients \in SUBSET Clients
  OBVIOUS
<1>5. Cardinality(Elements(conns)) <= Cardinality(Clients)
  BY <1>2, <1>4, ClientSets
<1>6. Len(conns) \in Nat
  BY <1>1
<1> QED
  BY <1>3, <1>5, <1>6

\* What disconnect() does to the list.
LEMMA DisconnectList ==
    ASSUME TypeOK, NEW gone \in SUBSET Clients, NEW W \in SUBSET Events, Disconnect(gone, W)
    PROVE  /\ conns' \in Seq(Clients) /\ Injective(conns')
           /\ Elements(conns') = Elements(conns) \ gone
           /\ removed' \in [Events -> Nat]
           /\ \A e \in Events : e \notin W => removed'[e] = removed[e]
           /\ \A e \in W : /\ removed'[e] = removed[e] + Cardinality(gone \cap Elements(conns))
                           /\ removed'[e] >= removed[e]
           /\ \A p \in Nat :
                  /\ IsFiniteSet(ElementsAfter(conns, p) \ ElementsAfter(conns', p))
                  /\ Cardinality(ElementsAfter(conns, p) \ ElementsAfter(conns', p))
                         <= Cardinality(gone \cap Elements(conns))
           /\ Cardinality(gone \cap Elements(conns)) \in Nat
<1>1. conns \in Seq(Clients) /\ Injective(conns) /\ removed \in [Events -> Nat]
  BY DEF TypeOK
<1>2. conns' = Filter(conns, Clients \ gone)
  BY DEF Disconnect
<1>3. Elements(conns) \subseteq Clients
  BY <1>1 DEF Elements
<1>4. conns' \in Seq(Clients) /\ Injective(conns') /\ Elements(conns') = Elements(conns) \ gone
  BY <1>1, <1>2, <1>3, FilterProperties, FilterInjective
<1>5. gone \cap Elements(conns) \in SUBSET Clients
  OBVIOUS
<1>6. Cardinality(gone \cap Elements(conns)) \in Nat
  BY <1>5, ClientSets
<1>7. \A p \in Nat :
         /\ IsFiniteSet(ElementsAfter(conns, p) \ ElementsAfter(conns', p))
         /\ Cardinality(ElementsAfter(conns, p) \ ElementsAfter(conns', p))
                <= Cardinality(gone \cap Elements(conns))
  BY <1>1, <1>2, FilterMoves
<1>8. removed' = [e \in Events |-> IF e \in W
                                    THEN removed[e] + Cardinality(gone \cap Elements(conns))
                                    ELSE removed[e]]
  BY DEF Disconnect
<1>9. PICK r \in Nat : r = Cardinality(gone \cap Elements(conns))
  BY <1>6
<1>10. /\ removed' \in [Events -> Nat]
       /\ \A e \in Events : e \notin W => removed'[e] = removed[e]
       /\ \A e \in W : removed'[e] = removed[e] + r /\ removed'[e] >= removed[e]
  <2>1. removed' = [e \in Events |-> IF e \in W THEN removed[e] + r ELSE removed[e]]
    BY <1>8, <1>9
  <2> QED
    BY <1>1, <2>1
<1> QED
  BY <1>4, <1>7, <1>9, <1>10

LEMMA ConnectList ==
    ASSUME TypeOK, ListOK, NEW c \in Clients, cpc[c] = "new", conns' = Append(conns, c)
    PROVE  /\ conns' \in Seq(Clients) /\ Injective(conns')
           /\ Elements(conns') = Elements(conns) \cup {c}
           /\ \A p \in Nat : ElementsAfter(conns, p) \subseteq ElementsAfter(conns', p)
<1>1. conns \in Seq(Clients) /\ Injective(conns) /\ c \notin Elements(conns)
  BY DEF TypeOK, ListOK, Joined
<1> QED
  BY <1>1, InjectiveAppend, AppendElements, AppendAfter

-----------------------------------------------------------------------------
(* Types. *)

LEMMA ReplayFromTypes ==
    ASSUME TypeOK, NEW c \in Clients, NEW h \in Seq(Events), ReplayFrom(c, h)
    PROVE  /\ cpc' \in [Clients -> {"new", "replaying", "serving", "ended"}]
           /\ replay' \in [Clients -> Seq(Events)]
           /\ replayed' \in [Clients -> SUBSET Events]
           /\ cpc'[c] \in {"replaying", "serving"}
           /\ \A d \in Clients \ {c} : /\ cpc'[d] = cpc[d] /\ replay'[d] = replay[d]
                                       /\ replayed'[d] = replayed[d]
<1>1. h # <<>> => Head(h) \in Events /\ Tail(h) \in Seq(Events)
  OBVIOUS
<1>2. /\ cpc \in [Clients -> {"new", "replaying", "serving", "ended"}]
      /\ replay \in [Clients -> Seq(Events)]
      /\ replayed \in [Clients -> SUBSET Events]
  BY DEF TypeOK
<1>3. \E p \in {"replaying", "serving"} : cpc' = [cpc EXCEPT ![c] = p]
  BY DEF ReplayFrom
<1>4. \E g \in Seq(Events) : replay' = [replay EXCEPT ![c] = g]
  <2>1. <<>> \in Seq(Events)
    OBVIOUS
  <2>2. CASE replay' = [replay EXCEPT ![c] = <<>>]
    BY <2>1, <2>2
  <2>3. CASE h # <<>> /\ replay' = [replay EXCEPT ![c] = Tail(h)]
    BY <1>1, <2>3
  <2> QED
    BY <2>2, <2>3 DEF ReplayFrom
<1>5. \E E \in SUBSET Events : replayed' = [replayed EXCEPT ![c] = E]
  <2>1. CASE UNCHANGED replayed
    BY <1>2, <2>1
  <2>2. CASE h # <<>> /\ replayed' = [replayed EXCEPT
                                       ![c] = IF c \in alive THEN @ \cup {Head(h)} ELSE @]
    BY <1>1, <1>2, <2>2
  <2> QED
    BY <2>1, <2>2 DEF ReplayFrom
<1> QED
  BY <1>2, <1>3, <1>4, <1>5

LEMMA WalkFromTypes ==
    ASSUME TypeOK, NEW e \in Events, NEW n \in Nat \ {0}, WalkFrom(e, n)
    PROVE  /\ conns' \in Seq(Clients) /\ Injective(conns')
           /\ removed' \in [Events -> Nat]
           /\ bpc' \in [Events -> {"idle", "sending", "done"}]
           /\ pos' \in [Events -> 0..Cardinality(Clients)]
           /\ failed' \in [Events -> SUBSET Clients]
           /\ live' \in [Clients -> SUBSET Events]
           /\ bpc'[e] \in {"sending", "done"}
           /\ removed'[e] = removed[e]
           /\ \A f \in Events \ {e} : /\ bpc'[f] = bpc[f] /\ pos'[f] = pos[f]
                                      /\ failed'[f] = failed[f]
                                      /\ \A c \in Clients : f \in live'[c] <=> f \in live[c]
<1>0. /\ Len(conns) <= Cardinality(Clients) /\ Len(conns) \in Nat
      /\ Cardinality(Clients) \in Nat
  BY ListSize, WsAssumption, FS_CardinalityType
<1>1. CASE n <= Len(conns)
  <2>1. conns[n] \in Clients
    BY <1>1, <1>0 DEF TypeOK
  <2>2. n \in 0..Cardinality(Clients)
    BY <1>0, <1>1
  <2>3. /\ bpc' = [bpc EXCEPT ![e] = "sending"]
        /\ pos' = [pos EXCEPT ![e] = n]
        /\ Deliver(e, conns[n]) \/ DeliveryFails(e, conns[n])
        /\ UNCHANGED <<conns, removed>>
    BY <1>0, <1>1 DEF WalkFrom
  <2>4. removed \in [Events -> Nat] /\ conns \in Seq(Clients) /\ Injective(conns)
    BY <1>0 DEF TypeOK
  <2>5. /\ failed' \in [Events -> SUBSET Clients]
        /\ live' \in [Clients -> SUBSET Events]
        /\ \A f \in Events \ {e} : /\ failed'[f] = failed[f]
                                   /\ \A c \in Clients : f \in live'[c] <=> f \in live[c]
    <3>1. CASE Deliver(e, conns[n])
      BY <2>1, <3>1 DEF Deliver, TypeOK
    <3>2. CASE DeliveryFails(e, conns[n])
      <4>1. failed \in [Events -> SUBSET Clients] /\ live \in [Clients -> SUBSET Events]
        BY DEF TypeOK
      <4>2. \E F \in SUBSET Clients : failed' = [failed EXCEPT ![e] = F]
        <5>1. CASE failed' = [failed EXCEPT ![e] = @ \cup {conns[n]}]
          BY <2>1, <4>1, <5>1
        <5>2. CASE failed' = failed
          BY <4>1, <5>2
        <5> QED
          BY <3>2, <5>1, <5>2 DEF DeliveryFails
      <4>3. live' = live
        BY <3>2 DEF DeliveryFails
      <4> QED
        BY <4>1, <4>2, <4>3
    <3> QED
      BY <2>3, <3>1, <3>2
  <2>6. /\ bpc' \in [Events -> {"idle", "sending", "done"}]
        /\ pos' \in [Events -> 0..Cardinality(Clients)]
        /\ bpc'[e] = "sending"
        /\ \A f \in Events \ {e} : bpc'[f] = bpc[f] /\ pos'[f] = pos[f]
    BY <2>2, <2>3 DEF TypeOK
  <2> QED
    BY <2>3, <2>4, <2>5, <2>6
<1>2. CASE n > Len(conns)
  <2>1. /\ bpc' = [bpc EXCEPT ![e] = "done"]
        /\ pos' = [pos EXCEPT ![e] = 0]
        /\ Disconnect(failed[e], Walks \ {e})
        /\ failed' = [failed EXCEPT ![e] = {}]
        /\ UNCHANGED live
    BY <1>0, <1>2 DEF WalkFrom
  <2>2. failed[e] \in SUBSET Clients /\ Walks \ {e} \in SUBSET Events
    BY DEF TypeOK, Walks
  <2>3. /\ conns' \in Seq(Clients) /\ Injective(conns') /\ removed' \in [Events -> Nat]
        /\ removed'[e] = removed[e]
    BY <2>1, <2>2, DisconnectList
  <2>4. 0 \in 0..Cardinality(Clients)
    BY <1>0
  <2> QED
    BY <2>1, <2>3, <2>4 DEF TypeOK
<1> QED
  BY <1>0, <1>1, <1>2

\* The types, but for the bound of removed, which is WalkOK's.
TypeButBound ==
    /\ conns \in Seq(Clients)
    /\ Injective(conns)
    /\ history \in Seq(Events) /\ Len(history) <= HistoryMax
    /\ alive \in SUBSET Clients
    /\ cpc \in [Clients -> {"new", "replaying", "serving", "ended"}]
    /\ replay \in [Clients -> Seq(Events)]
    /\ bpc \in [Events -> {"idle", "sending", "done"}]
    /\ pos \in [Events -> 0..Cardinality(Clients)]
    /\ failed \in [Events -> SUBSET Clients]
    /\ live \in [Clients -> SUBSET Events]
    /\ replayed \in [Clients -> SUBSET Events]
    /\ began \in Seq(Events)
    /\ audience \in [Events -> SUBSET Clients]
    /\ removed \in [Events -> Nat]

LEMMA TypeStep ==
    ASSUME TypeOK, ListOK, Next
    PROVE  TypeButBound'
<1>0. TypeButBound
  BY WsAssumption, FS_CardinalityType DEF TypeOK, TypeButBound
<1>h. HistoryMax \in Nat \ {0} /\ ReplayMax \in Nat \ {0}
  BY WsAssumption
<1>1. ASSUME NEW c \in Clients, Connect(c) PROVE TypeButBound'
  <2>1. LastOf(history, ReplayMax) \in Seq(Events)
    BY <1>0, <1>h, LastOfFacts DEF TypeButBound
  <2>2. conns' \in Seq(Clients) /\ Injective(conns')
    BY <1>1, ConnectList DEF Connect
  <2> QED
    BY <1>0, <1>1, <2>1, <2>2, ReplayFromTypes DEF Connect, TypeButBound
<1>2. ASSUME NEW c \in Clients, Replay(c) PROVE TypeButBound'
  <2>1. replay[c] \in Seq(Events)
    BY <1>0 DEF TypeButBound
  <2> QED
    BY <1>0, <1>2, <2>1, ReplayFromTypes DEF Replay, TypeButBound
<1>3. ASSUME NEW c \in Clients, PeerLeaves(c) PROVE TypeButBound'
  BY <1>0, <1>3 DEF PeerLeaves, TypeButBound
<1>4. ASSUME NEW c \in Clients, EndpointEnds(c) PROVE TypeButBound'
  <2>1. conns' \in Seq(Clients) /\ Injective(conns') /\ removed' \in [Events -> Nat]
    <3>1. CASE UNCHANGED <<conns, removed>>
      BY <1>0, <3>1 DEF TypeButBound
    <3>2. CASE Disconnect({c}, Walks)
      BY <3>2, DisconnectList DEF Walks
    <3> QED
      BY <1>4, <3>1, <3>2 DEF EndpointEnds
  <2> QED
    BY <1>0, <1>4, <2>1 DEF EndpointEnds, TypeButBound
<1>5. ASSUME NEW e \in Events, Begin(e), began' \in Seq(Events),
             history' \in Seq(Events) /\ Len(history') <= HistoryMax
      PROVE  TypeButBound'
  <2>1. Elements(conns) \cap alive \in SUBSET Clients
    BY <1>0 DEF TypeButBound
  <2>2. audience' \in [Events -> SUBSET Clients]
    BY <1>0, <1>5, <2>1 DEF Begin, TypeButBound
  <2>3. WalkFrom(e, 1) /\ UNCHANGED clientVars
    BY <1>5 DEF Begin
  <2> QED
    BY <1>0, <1>5, <2>2, <2>3, WalkFromTypes DEF TypeButBound, clientVars
<1>6. ASSUME NEW e \in Events, Broadcast(e) PROVE TypeButBound'
  <2>1. Append(history, e) \in Seq(Events) /\ began' \in Seq(Events)
    BY <1>0, <1>6 DEF Broadcast, TypeButBound
  <2>2. history' \in Seq(Events) /\ Len(history') <= HistoryMax
    <3> DEFINE h == Append(history, e)
    <3>1. /\ LastOf(h, HistoryMax) \in Seq(Events)
          /\ Len(LastOf(h, HistoryMax)) = IF Len(h) > HistoryMax THEN HistoryMax ELSE Len(h)
      BY <1>h, <2>1, LastOfFacts
    <3>2. Len(h) \in Nat /\ history' = LastOf(h, HistoryMax)
      BY <1>6, <2>1 DEF Broadcast
    <3> QED
      BY <1>h, <3>1, <3>2
  <2> QED
    BY <1>5, <1>6, <2>1, <2>2 DEF Broadcast
<1>7. ASSUME NEW e \in Events, BroadcastJson(e) PROVE TypeButBound'
  BY <1>0, <1>5, <1>7 DEF BroadcastJson, TypeButBound
<1>8. ASSUME NEW e \in Events, GoOn(e) PROVE TypeButBound'
  <2>1. pos[e] + 1 \in Nat \ {0}
    BY <1>0, WsAssumption, FS_CardinalityType DEF TypeButBound
  <2>2. WalkFrom(e, pos[e] + 1) /\ UNCHANGED <<history, began, audience, clientVars>>
    BY <1>8 DEF GoOn
  <2> QED
    BY <1>0, <2>1, <2>2, WalkFromTypes DEF TypeButBound, clientVars
<1> QED
  BY <1>1, <1>2, <1>3, <1>4, <1>6, <1>7, <1>8 DEF Next

-----------------------------------------------------------------------------
(* The list. *)

\* The clients that fail are those whose peer has left.
LEMMA WalkFromFails ==
    ASSUME TypeOK, NEW e \in Events, NEW n \in Nat \ {0}, WalkFrom(e, n),
           failed[e] \cap alive = {}
    PROVE  /\ failed'[e] \cap alive = {}
           /\ \E gone \in SUBSET (Clients \ alive) : Elements(conns') = Elements(conns) \ gone
<1>1. CASE n <= Len(conns)
  <2>1. /\ Deliver(e, conns[n]) \/ DeliveryFails(e, conns[n])
        /\ conns' = conns
    BY <1>1 DEF WalkFrom, TypeOK
  <2>2. failed'[e] \cap alive = {}
    <3>1. CASE Deliver(e, conns[n])
      BY <3>1 DEF Deliver
    <3>2. CASE DeliveryFails(e, conns[n])
      BY <3>2 DEF DeliveryFails, TypeOK
    <3> QED
      BY <2>1, <3>1, <3>2
  <2>3. Elements(conns') = Elements(conns) \ {}
    BY <2>1
  <2> QED
    BY <2>2, <2>3
<1>2. CASE n > Len(conns)
  <2>1. /\ Disconnect(failed[e], Walks \ {e})
        /\ failed' = [failed EXCEPT ![e] = {}]
    BY <1>2 DEF WalkFrom, TypeOK
  <2>2. failed[e] \in SUBSET Clients /\ Walks \ {e} \in SUBSET Events
    BY DEF TypeOK, Walks
  <2>3. Elements(conns') = Elements(conns) \ failed[e]
    BY <2>1, <2>2, DisconnectList
  <2> QED
    BY <2>1, <2>2, <2>3 DEF TypeOK
<1>3. Len(conns) \in Nat
  BY DEF TypeOK
<1> QED
  BY <1>1, <1>2, <1>3, SMTT(30)

LEMMA ListStep ==
    ASSUME WsIInv, Next
    PROVE  ListOK'
<1>0. TypeOK /\ ListOK /\ WalkOK
  BY DEF WsIInv
<1>1. ASSUME NEW c \in Clients, Connect(c) PROVE ListOK'
  <2>1. Elements(conns') = Elements(conns) \cup {c}
    BY <1>0, <1>1, ConnectList DEF Connect
  <2>2. ReplayFrom(c, LastOf(history, ReplayMax)) /\ UNCHANGED alive
    BY <1>1 DEF Connect
  <2>3. \A d \in Clients : cpc'[d] # "new" <=> cpc[d] # "new" \/ d = c
    BY <1>0, <2>2 DEF ReplayFrom, TypeOK
  <2> QED
    BY <1>0, <2>1, <2>2, <2>3 DEF ListOK, Joined
<1>2. ASSUME NEW c \in Clients, Replay(c) PROVE ListOK'
  <2>1. ReplayFrom(c, replay[c]) /\ UNCHANGED <<conns, alive>> /\ cpc[c] # "new"
    BY <1>2 DEF Replay
  <2>2. \A d \in Clients : cpc'[d] # "new" <=> cpc[d] # "new"
    BY <1>0, <2>1 DEF ReplayFrom, TypeOK
  <2> QED
    BY <1>0, <2>1, <2>2 DEF ListOK, Joined
<1>3. ASSUME NEW c \in Clients, PeerLeaves(c) PROVE ListOK'
  BY <1>0, <1>3 DEF PeerLeaves, ListOK, Joined, TypeOK
<1>4. ASSUME NEW c \in Clients, EndpointEnds(c) PROVE ListOK'
  <2>1. /\ cpc[c] = "serving" /\ c \notin alive /\ UNCHANGED alive
        /\ cpc' = [cpc EXCEPT ![c] = "ended"]
    BY <1>4 DEF EndpointEnds
  <2>2. \A d \in Clients : cpc'[d] # "new" <=> cpc[d] # "new"
    BY <1>0, <2>1 DEF TypeOK
  <2>3. Elements(conns') = Elements(conns) \/ Elements(conns') = Elements(conns) \ {c}
    <3>1. CASE Disconnect({c}, Walks)
      BY <1>0, <3>1, DisconnectList DEF Walks
    <3> QED
      BY <1>4, <3>1 DEF EndpointEnds
  <2> QED
    BY <1>0, <2>1, <2>2, <2>3 DEF ListOK, Joined
<1>5. ASSUME NEW e \in Events, NEW n \in Nat \ {0}, WalkFrom(e, n), UNCHANGED clientVars
      PROVE  ListOK'
  <2>1. failed[e] \cap alive = {}
    BY <1>0 DEF WalkOK, WalkOf
  <2>2. PICK gone \in SUBSET (Clients \ alive) : Elements(conns') = Elements(conns) \ gone
    BY <1>0, <1>5, <2>1, WalkFromFails
  <2> QED
    BY <1>0, <1>5, <2>2 DEF ListOK, Joined, clientVars
<1>6. ASSUME NEW e \in Events, Broadcast(e) \/ BroadcastJson(e) PROVE ListOK'
  <2>1. WalkFrom(e, 1) /\ UNCHANGED clientVars
    BY <1>6 DEF Broadcast, BroadcastJson, Begin
  <2> QED
    BY <1>5, <2>1
<1>7. ASSUME NEW e \in Events, GoOn(e) PROVE ListOK'
  <2>1. pos[e] + 1 \in Nat \ {0}
    BY <1>0, WsAssumption, FS_CardinalityType DEF TypeOK
  <2>2. WalkFrom(e, pos[e] + 1) /\ UNCHANGED clientVars
    BY <1>7 DEF GoOn
  <2> QED
    BY <1>5, <2>1, <2>2
<1> QED
  BY <1>1, <1>2, <1>3, <1>4, <1>6, <1>7 DEF Next

-----------------------------------------------------------------------------
(* The walks. *)

LEMMA UnionBound ==
    ASSUME NEW A, NEW B, NEW C, IsFiniteSet(A), IsFiniteSet(B), C \subseteq A \cup B,
           NEW x \in Nat, NEW y \in Nat, Cardinality(A) <= x, Cardinality(B) <= y
    PROVE  Cardinality(C) <= x + y
<1>1. /\ IsFiniteSet(A \cup B)
      /\ Cardinality(A \cup B) = Cardinality(A) + Cardinality(B) - Cardinality(A \cap B)
  BY FS_Union
<1>2. IsFiniteSet(A \cap B) /\ IsFiniteSet(C) /\ Cardinality(C) <= Cardinality(A \cup B)
  BY <1>1, FS_Subset
<1>3. /\ Cardinality(A) \in Nat /\ Cardinality(B) \in Nat /\ Cardinality(C) \in Nat
      /\ Cardinality(A \cap B) \in Nat /\ Cardinality(A \cup B) \in Nat
  BY <1>1, <1>2, FS_CardinalityType
<1> QED
  BY <1>1, <1>2, <1>3

\* Whoever leaves the list is gone.
LEMMA GoneGrows ==
    ASSUME TypeOK, ListOK, TypeButBound', Joined' = Joined,
           NEW gone \in SUBSET Clients, NEW W \in SUBSET Events, Disconnect(gone, W)
    PROVE  Cardinality(Gone') = Cardinality(Gone) + Cardinality(gone \cap Elements(conns))
<1> DEFINE r == gone \cap Elements(conns)
<1>1. Elements(conns') = Elements(conns) \ gone
  BY DisconnectList
<1>2. Gone' = Gone \cup r /\ Gone \cap r = {}
  BY <1>1 DEF Gone, ListOK
<1>3. Gone \in SUBSET Clients /\ r \in SUBSET Clients
  BY DEF Gone, Joined
<1> HIDE DEF r
<1>4. /\ IsFiniteSet(Gone) /\ IsFiniteSet(r)
      /\ Cardinality(Gone) \in Nat /\ Cardinality(r) \in Nat
  BY <1>3, ClientSets
<1>5. Cardinality(Gone \cup r) = Cardinality(Gone) + Cardinality(r) - Cardinality(Gone \cap r)
  BY <1>4, FS_Union
<1>6. Cardinality(Gone \cap r) = 0
  BY <1>2, FS_EmptySet
<1> QED
  BY <1>2, <1>4, <1>5, <1>6 DEF r

\* A walk that does not move itself, while at most r clients leave the list.
LEMMA WalkStays ==
    ASSUME TypeOK, TypeButBound', NEW f \in Events, WalkOf(f), NEW r \in Nat,
           bpc'[f] = bpc[f], failed'[f] = failed[f],
           alive' \subseteq alive, Joined \subseteq Joined',
           audience'[f] = audience[f] \cap alive',
           \A c \in alive' : f \in live[c] => f \in live'[c],
           removed'[f] = removed[f] + r, bpc[f] = "idle" => r = 0,
           IsFiniteSet(Ahead(f) \ Ahead(f)'), Cardinality(Ahead(f) \ Ahead(f)') <= r,
           removed'[f] <= Cardinality(Gone')
    PROVE  WalkOf(f)'
<1>1. failed'[f] \cap alive' = {}
  BY DEF WalkOf
<1>2. audience'[f] \subseteq alive' \cap Joined'
  BY DEF WalkOf
<1>3. bpc'[f] = "idle" => removed'[f] = 0 /\ audience'[f] = {}
  BY DEF WalkOf
<1>4. Passed(f)' \subseteq Passed(f) \cup (Ahead(f) \ Ahead(f)')
  <2> SUFFICES ASSUME NEW c \in Passed(f)' PROVE c \in Passed(f) \cup (Ahead(f) \ Ahead(f)')
    OBVIOUS
  <2>1. c \in audience'[f] /\ f \notin live'[c] /\ c \notin Ahead(f)'
    BY DEF Passed, Missed
  <2>2. c \in audience[f] /\ f \notin live[c]
    BY <2>1
  <2> QED
    BY <2>1, <2>2 DEF Passed, Missed
<1>5. Passed(f) \in SUBSET Clients
  BY DEF Passed, Missed, TypeOK
<1>6. removed[f] \in Nat
  BY DEF TypeOK
<1>7. Cardinality(Passed(f)') <= removed[f] + r
  BY <1>4, <1>5, <1>6, ClientSets, UnionBound DEF WalkOf
<1> QED
  BY <1>1, <1>2, <1>3, <1>7 DEF WalkOf

\* No walk moves and nobody leaves the list.
LEMMA WalksStay ==
    ASSUME WsIInv, TypeButBound', UNCHANGED <<bpc, pos, failed, removed>>,
           alive' \subseteq alive, Joined \subseteq Joined',
           audience' = [e \in Events |-> audience[e] \cap alive'],
           \A c \in alive' : live'[c] = live[c],
           \A p \in Nat : ElementsAfter(conns, p) \subseteq ElementsAfter(conns', p),
           Gone' = Gone
    PROVE  WalkOK'
<1> SUFFICES ASSUME NEW f \in Events PROVE WalkOf(f)'
  BY DEF WalkOK
<1>1. WalkOf(f) /\ TypeOK
  BY DEF WsIInv, WalkOK
<1>2. pos[f] \in Nat /\ removed[f] \in Nat /\ removed[f] + 0 = removed[f]
  BY <1>1, WsAssumption, FS_CardinalityType DEF TypeOK
<1>3. Ahead(f) \ Ahead(f)' = {}
  BY <1>2 DEF Ahead
<1>4. IsFiniteSet(Ahead(f) \ Ahead(f)') /\ Cardinality(Ahead(f) \ Ahead(f)') <= 0
  BY <1>3, FS_EmptySet
<1>5. removed'[f] <= Cardinality(Gone')
  BY <1>1 DEF WalkOf
<1>6. audience'[f] = audience[f] \cap alive'
  OBVIOUS
<1> QED
  BY <1>1, <1>2, <1>4, <1>5, <1>6, WalkStays

\* The clients of gone leave the list under the walks of W.
LEMMA WalksLose ==
    ASSUME WsIInv, TypeButBound', NEW gone \in SUBSET Clients,
           NEW W \in SUBSET Walks, Disconnect(gone, W),
           NEW f \in Events, f \in W \/ bpc[f] # "sending",
           bpc'[f] = bpc[f], pos'[f] = pos[f], failed'[f] = failed[f], alive' = alive,
           Joined' = Joined, audience'[f] = audience[f],
           \A c \in alive : f \in live[c] => f \in live'[c]
    PROVE  WalkOf(f)'
<1>1. WalkOf(f) /\ TypeOK /\ ListOK
  BY DEF WsIInv, WalkOK
<1>2. PICK r \in Nat : r = Cardinality(gone \cap Elements(conns))
  BY <1>1, DisconnectList DEF Walks
<1>w. W \in SUBSET Events
  BY DEF Walks
<1>d. /\ \A e \in Events : e \notin W => removed'[e] = removed[e]
      /\ \A e \in W : removed'[e] = removed[e] + r
  <2>1. /\ \A e \in Events : e \notin W => removed'[e] = removed[e]
        /\ \A e \in W : removed'[e] = removed[e] + Cardinality(gone \cap Elements(conns))
    BY <1>1, <1>w, DisconnectList
  <2> QED
    BY <1>2, <2>1
<1>3. pos[f] \in Nat /\ removed[f] \in Nat
  BY <1>1, WsAssumption, FS_CardinalityType DEF TypeOK
<1>4. Cardinality(Gone') = Cardinality(Gone) + r
  BY <1>1, <1>2, GoneGrows DEF Walks
<1>5. Cardinality(Gone) \in Nat /\ removed[f] <= Cardinality(Gone)
  BY <1>1, ClientSets DEF Gone, Joined, WalkOf
<1>6. audience'[f] = audience[f] \cap alive'
  BY <1>1 DEF WalkOf
<1>7. CASE f \in W
  <2>1. removed'[f] = removed[f] + r
    BY <1>7, <1>d
  <2>2. bpc[f] = "sending"
    BY <1>7 DEF Walks
  <2>3. Ahead(f) \ Ahead(f)' = ElementsAfter(conns, pos[f]) \ ElementsAfter(conns', pos[f])
    BY <2>2 DEF Ahead
  <2>4. IsFiniteSet(Ahead(f) \ Ahead(f)') /\ Cardinality(Ahead(f) \ Ahead(f)') <= r
    BY <1>1, <1>2, <1>3, <2>3, DisconnectList DEF Walks
  <2>5. removed'[f] <= Cardinality(Gone')
    BY <1>3, <1>4, <1>5, <2>1
  <2> QED
    BY <1>1, <1>6, <2>1, <2>2, <2>4, <2>5, WalkStays
<1>8. CASE f \notin W
  <2>1. removed'[f] = removed[f] + 0
    BY <1>3, <1>8, <1>d
  <2>2. Ahead(f) \ Ahead(f)' = {}
    BY <1>8 DEF Ahead
  <2>3. IsFiniteSet(Ahead(f) \ Ahead(f)') /\ Cardinality(Ahead(f) \ Ahead(f)') <= 0
    BY <2>2, FS_EmptySet
  <2>4. removed'[f] <= Cardinality(Gone')
    BY <1>3, <1>4, <1>5, <2>1
  <2> QED
    BY <1>1, <1>6, <2>1, <2>3, <2>4, WalkStays
<1> QED
  BY <1>7, <1>8

\* The walk that moves: the clients before its new place have the event, or have
\* no peer.
LEMMA WalkMoves ==
    ASSUME TypeOK, TypeButBound', NEW e \in Events, NEW n \in Nat \ {0}, WalkFrom(e, n),
           UNCHANGED alive, audience'[e] \subseteq alive
    PROVE  Passed(e)' \subseteq {c \in audience'[e] :
                                    e \notin live[c] /\ c \notin ElementsAfter(conns, n - 1)}
<1> SUFFICES ASSUME NEW c \in Passed(e)'
             PROVE  e \notin live[c] /\ c \notin ElementsAfter(conns, n - 1)
  BY DEF Passed, Missed
<1>0. PICK l \in Nat : l = Len(conns) /\ DOMAIN conns = 1 .. l
  BY DEF TypeOK
<1>1. c \in audience'[e] /\ e \notin live'[c] /\ c \notin Ahead(e)' /\ c \in alive
  BY DEF Passed, Missed
<1>2. CASE n <= l
  <2>1. /\ bpc' = [bpc EXCEPT ![e] = "sending"]
        /\ pos' = [pos EXCEPT ![e] = n]
        /\ Deliver(e, conns[n]) \/ DeliveryFails(e, conns[n])
        /\ UNCHANGED conns
    BY <1>0, <1>2 DEF WalkFrom
  <2>2. c \notin ElementsAfter(conns, n)
    BY <1>1, <2>1 DEF Ahead, TypeOK
  <2>3. c \in Clients /\ conns[n] \in Clients
    BY <1>0, <1>1, <1>2 DEF TypeOK
  <2>4. e \notin live[c]
    BY <1>1, <2>1, <2>3, ZenonT(60) DEF Deliver, DeliveryFails, TypeOK
  <2>5. c # conns[n]
    <3>1. CASE Deliver(e, conns[n])
      BY <1>1, <2>3, <3>1 DEF Deliver, TypeOK
    <3>2. CASE DeliveryFails(e, conns[n])
      BY <1>1, <3>2 DEF DeliveryFails
    <3> QED
      BY <2>1, <3>1, <3>2
  <2>6. \A i \in 1 .. l : i > n - 1 => i = n \/ i > n
    OBVIOUS
  <2> QED
    BY <1>0, <2>2, <2>4, <2>5, <2>6 DEF ElementsAfter
<1>3. CASE n > l
  <2>1. UNCHANGED live
    BY <1>0, <1>3 DEF WalkFrom
  <2>2. \A i \in 1 .. l : ~(i > n - 1)
    BY <1>3
  <2> QED
    BY <1>0, <1>1, <2>1, <2>2 DEF ElementsAfter
<1> QED
  BY <1>2, <1>3

\* WalkFrom for the event itself ...
LEMMA WalkFromItself ==
    ASSUME WsIInv, TypeButBound', ListOK', NEW e \in Events, NEW n \in Nat \ {0},
           WalkFrom(e, n), UNCHANGED clientVars, audience'[e] \subseteq alive \cap Joined,
           {c \in audience'[e] : e \notin live[c] /\ c \notin ElementsAfter(conns, n - 1)}
               \subseteq Passed(e)
    PROVE  WalkOf(e)'
<1>1. TypeOK /\ ListOK /\ WalkOf(e)
  BY DEF WsIInv, WalkOK
<1>2. Joined' = Joined /\ alive' = alive
  BY DEF Joined, clientVars
<1>3. failed'[e] \cap alive' = {}
  BY <1>1, <1>2, WalkFromFails DEF WalkOf
<1>4. bpc'[e] # "idle" /\ removed'[e] = removed[e]
  BY <1>1, WalkFromTypes
<1>5. Passed(e)' \subseteq Passed(e)
  BY <1>1, <1>2, WalkMoves
<1>6. Passed(e) \in SUBSET Clients
  BY <1>1 DEF Passed, Missed, TypeOK
<1>7. Cardinality(Passed(e)') <= Cardinality(Passed(e))
  BY <1>5, <1>6, ClientSets
<1>8. PICK gone \in SUBSET (Clients \ alive) : Elements(conns') = Elements(conns) \ gone
  BY <1>1, WalkFromFails DEF WalkOf
<1>9. Gone \subseteq Gone' /\ Gone' \in SUBSET Clients
  BY <1>2, <1>8 DEF Gone, Joined
<1>10. Cardinality(Gone) <= Cardinality(Gone')
  BY <1>9, ClientSets
<1>11. /\ Cardinality(Gone) \in Nat /\ Cardinality(Gone') \in Nat /\ removed[e] \in Nat
       /\ Cardinality(Passed(e)) \in Nat /\ Cardinality(Passed(e)') \in Nat
  BY <1>1, <1>5, <1>6, <1>9, ClientSets DEF TypeOK
<1> QED
  BY <1>1, <1>2, <1>3, <1>4, <1>7, <1>10, <1>11 DEF WalkOf

\* ... and for the others.
LEMMA WalkFromOthers ==
    ASSUME WsIInv, TypeButBound', NEW e \in Events, NEW n \in Nat \ {0},
           WalkFrom(e, n), UNCHANGED clientVars, NEW f \in Events \ {e},
           audience'[f] = audience[f]
    PROVE  WalkOf(f)'
<1>1. TypeOK /\ WalkOf(f) /\ Len(conns) \in Nat
  BY DEF WsIInv, WalkOK, TypeOK
<1>2. Joined' = Joined /\ alive' = alive /\ alive \subseteq Clients
  BY <1>1 DEF Joined, clientVars, TypeOK
<1>3. /\ bpc'[f] = bpc[f] /\ pos'[f] = pos[f] /\ failed'[f] = failed[f]
      /\ \A c \in Clients : f \in live'[c] <=> f \in live[c]
  BY <1>1, WalkFromTypes
<1>4. CASE n <= Len(conns)
  <2>1. UNCHANGED <<conns, removed>>
    BY <1>1, <1>4 DEF WalkFrom
  <2>2. Ahead(f) \ Ahead(f)' = {} /\ Gone' = Gone
    BY <1>2, <1>3, <2>1 DEF Ahead, Gone
  <2>3. IsFiniteSet(Ahead(f) \ Ahead(f)') /\ Cardinality(Ahead(f) \ Ahead(f)') <= 0
    BY <2>2, FS_EmptySet
  <2>4. removed'[f] = removed[f] + 0
    BY <1>1, <2>1 DEF TypeOK
  <2>5. removed'[f] <= Cardinality(Gone')
    BY <1>1, <2>1, <2>2 DEF WalkOf
  <2>6. audience'[f] = audience[f] \cap alive'
    BY <1>1, <1>2 DEF WalkOf
  <2> QED
    BY <1>1, <1>2, <1>3, <2>3, <2>4, <2>5, <2>6, WalkStays
<1>5. CASE n > Len(conns)
  <2>1. Disconnect(failed[e], Walks \ {e})
    BY <1>1, <1>5 DEF WalkFrom
  <2>2. failed[e] \in SUBSET Clients /\ Walks \ {e} \in SUBSET Walks
    BY <1>1 DEF TypeOK
  <2>3. f \in Walks \ {e} \/ bpc[f] # "sending"
    BY DEF Walks
  <2> QED
    BY <1>1, <1>2, <1>3, <2>1, <2>2, <2>3, WalksLose
<1> QED
  BY <1>1, <1>4, <1>5

LEMMA WalkStep ==
    ASSUME WsIInv, Next
    PROVE  WalkOK'
<1>0. TypeOK /\ ListOK /\ WalkOK /\ TypeButBound' /\ ListOK'
  BY TypeStep, ListStep DEF WsIInv
<1>a. /\ audience \in [Events -> SUBSET Clients]
      /\ \A e \in Events : audience[e] \subseteq alive
      /\ audience = [e \in Events |-> audience[e] \cap alive]
  <2>1. audience \in [Events -> SUBSET Clients] /\ \A e \in Events : audience[e] \subseteq alive
    BY <1>0 DEF TypeOK, WalkOK, WalkOf
  <2> QED
    BY <2>1
<1>1. ASSUME NEW c \in Clients, Connect(c) PROVE WalkOK'
  <2>1. /\ Elements(conns') = Elements(conns) \cup {c}
        /\ \A p \in Nat : ElementsAfter(conns, p) \subseteq ElementsAfter(conns', p)
    BY <1>0, <1>1, ConnectList DEF Connect
  <2>2. /\ ReplayFrom(c, LastOf(history, ReplayMax))
        /\ UNCHANGED <<alive, bpc, pos, failed, live, audience, removed>>
    BY <1>1 DEF Connect
  <2>3. Joined' = Joined \cup {c}
    BY <1>0, <2>2 DEF ReplayFrom, TypeOK, Joined
  <2>4. Gone' = Gone
    <3>1. c \notin Joined
      BY <1>1 DEF Connect, Joined
    <3> QED
      BY <2>1, <2>3, <3>1 DEF Gone
  <2> QED
    BY <1>0, <1>a, <2>1, <2>2, <2>3, <2>4, WalksStay
<1>2. ASSUME NEW c \in Clients, Replay(c) PROVE WalkOK'
  <2>1. /\ ReplayFrom(c, replay[c]) /\ cpc[c] # "new"
        /\ UNCHANGED <<conns, alive, bpc, pos, failed, live, audience, removed>>
    BY <1>2 DEF Replay
  <2>2. Joined' = Joined
    BY <1>0, <2>1 DEF ReplayFrom, TypeOK, Joined
  <2>3. Gone' = Gone
    BY <2>1, <2>2 DEF Gone
  <2> QED
    BY <1>0, <1>a, <2>1, <2>2, <2>3, WalksStay
<1>3. ASSUME NEW c \in Clients, PeerLeaves(c) PROVE WalkOK'
  <2>1. /\ alive' = alive \ {c}
        /\ live' = [live EXCEPT ![c] = {}]
        /\ audience' = [e \in Events |-> audience[e] \ {c}]
        /\ UNCHANGED <<conns, cpc, bpc, pos, failed, removed>>
    BY <1>3 DEF PeerLeaves
  <2>2. Joined' = Joined /\ Gone' = Gone
    BY <2>1 DEF Joined, Gone
  <2>3. audience' = [e \in Events |-> audience[e] \cap alive']
    <3>1. \A e \in Events : audience[e] \ {c} = audience[e] \cap alive'
      BY <1>a, <2>1
    <3> QED
      BY <2>1, <3>1
  <2>4. \A d \in alive' : live'[d] = live[d]
    BY <1>0, <2>1 DEF TypeOK
  <2> QED
    BY <1>0, <2>1, <2>2, <2>3, <2>4, WalksStay
<1>4. ASSUME NEW c \in Clients, EndpointEnds(c) PROVE WalkOK'
  <2>1. /\ cpc[c] = "serving" /\ cpc' = [cpc EXCEPT ![c] = "ended"]
        /\ Disconnect({c}, Walks) \/ UNCHANGED <<conns, removed>>
        /\ UNCHANGED <<alive, bpc, pos, failed, live, audience>>
    BY <1>4 DEF EndpointEnds
  <2>2. Joined' = Joined
    BY <1>0, <2>1 DEF TypeOK, Joined
  <2>3. CASE UNCHANGED <<conns, removed>>
    <3>1. Gone' = Gone
      BY <2>2, <2>3 DEF Gone
    <3> QED
      BY <1>0, <1>a, <2>1, <2>2, <2>3, <3>1, WalksStay
  <2>4. CASE Disconnect({c}, Walks)
    <3> SUFFICES ASSUME NEW f \in Events PROVE WalkOf(f)'
      BY DEF WalkOK
    <3>1. f \in Walks \/ bpc[f] # "sending"
      BY DEF Walks
    <3>2. {c} \in SUBSET Clients /\ Walks \in SUBSET Walks
      OBVIOUS
    <3>3. /\ bpc'[f] = bpc[f] /\ pos'[f] = pos[f] /\ failed'[f] = failed[f] /\ alive' = alive
          /\ audience'[f] = audience[f] /\ live' = live
      BY <2>1
    <3> QED
      BY <1>0, <2>2, <2>4, <3>1, <3>2, <3>3, WalksLose
  <2> QED
    BY <2>1, <2>3, <2>4
<1>5. ASSUME NEW e \in Events, Begin(e) PROVE WalkOK'
  <2>1. /\ bpc[e] = "idle"
        /\ audience' = [audience EXCEPT ![e] = Elements(conns) \cap alive]
        /\ WalkFrom(e, 1)
        /\ UNCHANGED clientVars
    BY <1>5 DEF Begin
  <2>2. audience'[e] = Elements(conns) \cap alive /\ audience'[e] \subseteq alive \cap Joined
    BY <1>0, <1>a, <2>1 DEF ListOK
  <2>3. ElementsAfter(conns, 1 - 1) = Elements(conns)
    <3>1. PICK l \in Nat : DOMAIN conns = 1 .. l
      BY <1>0 DEF TypeOK
    <3> QED
      BY <3>1 DEF ElementsAfter, Elements
  <2>4. WalkOf(e)'
    BY <1>0, <2>1, <2>2, <2>3, WalkFromItself
  <2>5. ASSUME NEW f \in Events \ {e} PROVE WalkOf(f)'
    <3>1. audience'[f] = audience[f]
      BY <1>a, <2>1
    <3> QED
      BY <1>0, <2>1, <3>1, WalkFromOthers
  <2> QED
    BY <2>4, <2>5 DEF WalkOK
<1>6. ASSUME NEW e \in Events, Broadcast(e) \/ BroadcastJson(e) PROVE WalkOK'
  BY <1>5, <1>6 DEF Broadcast, BroadcastJson
<1>7. ASSUME NEW e \in Events, GoOn(e) PROVE WalkOK'
  <2>0. pos[e] \in Nat
    BY <1>0, WsAssumption, FS_CardinalityType DEF TypeOK
  <2>1. PICK n \in Nat \ {0} : n = pos[e] + 1 /\ n - 1 = pos[e]
    BY <2>0
  <2>2. bpc[e] = "sending" /\ WalkFrom(e, n) /\ UNCHANGED <<audience, clientVars>>
    BY <1>7, <2>1 DEF GoOn
  <2>3. audience'[e] \subseteq alive \cap Joined
    BY <1>0, <2>2 DEF WalkOK, WalkOf
  <2>4. {c \in audience'[e] : e \notin live[c] /\ c \notin ElementsAfter(conns, n - 1)}
            \subseteq Passed(e)
    BY <2>1, <2>2 DEF Passed, Missed, Ahead
  <2>5. WalkOf(e)'
    BY <1>0, <2>2, <2>3, <2>4, WalkFromItself
  <2>6. ASSUME NEW f \in Events \ {e} PROVE WalkOf(f)'
    BY <1>0, <2>2, WalkFromOthers
  <2> QED
    BY <2>5, <2>6 DEF WalkOK
<1> QED
  BY <1>1, <1>2, <1>3, <1>4, <1>6, <1>7 DEF Next

-----------------------------------------------------------------------------
(* The history. *)

\* A broadcast that has begun stays begun.
LEMMA BegunStays ==
    ASSUME TypeOK, Next, NEW f \in Events, bpc[f] # "idle"
    PROVE  bpc'[f] # "idle"
<1>1. ASSUME NEW e \in Events, NEW n \in Nat \ {0}, WalkFrom(e, n) PROVE bpc'[f] # "idle"
  <2>1. bpc'[e] \in {"sending", "done"} /\ \A g \in Events \ {e} : bpc'[g] = bpc[g]
    BY <1>1, WalkFromTypes
  <2> QED
    BY <2>1
<1>2. ASSUME NEW e \in Events, Broadcast(e) \/ BroadcastJson(e) PROVE bpc'[f] # "idle"
  BY <1>1, <1>2 DEF Broadcast, BroadcastJson, Begin
<1>3. ASSUME NEW e \in Events, GoOn(e) PROVE bpc'[f] # "idle"
  <2>1. pos[e] + 1 \in Nat \ {0}
    BY WsAssumption, FS_CardinalityType DEF TypeOK
  <2> QED
    BY <1>1, <1>3, <2>1 DEF GoOn
<1>4. ASSUME NEW c \in Clients, Connect(c) \/ Replay(c) \/ PeerLeaves(c) \/ EndpointEnds(c)
      PROVE  bpc'[f] # "idle"
  BY <1>4 DEF Connect, Replay, PeerLeaves, EndpointEnds
<1> QED
  BY <1>2, <1>3, <1>4 DEF Next

LEMMA HistoryStep ==
    ASSUME WsIInv, Next
    PROVE  HistoryOK'
<1>0. TypeOK /\ HistoryOK
  BY DEF WsIInv
<1>1. CASE UNCHANGED <<history, began>>
  <2>1. \A k \in DOMAIN began : began[k] \in Events
    BY <1>0 DEF TypeOK
  <2> QED
    BY <1>0, <1>1, <2>1, BegunStays DEF HistoryOK
<1>2. ASSUME NEW e \in Events, Broadcast(e) PROVE HistoryOK'
  <2>1. /\ bpc[e] = "idle" /\ WalkFrom(e, 1)
        /\ history' = LastOf(Append(history, e), HistoryMax)
        /\ began' = Append(began, e)
    BY <1>2 DEF Broadcast, Begin
  <2>2. PICK l \in Nat, h \in Nat : l = Len(began) /\ h = Len(history)
    BY <1>0 DEF TypeOK
  <2>3. /\ began \in Seq(Events) /\ history \in Seq(Events) /\ Injective(began)
        /\ DOMAIN began = 1 .. l /\ DOMAIN history = 1 .. h
    BY <1>0, <2>2 DEF TypeOK, HistoryOK
  <2>4. e \notin Elements(began)
    BY <1>0, <2>1 DEF HistoryOK, Elements
  <2>5. Injective(began')
    BY <2>1, <2>3, <2>4, InjectiveAppend
  <2>6. /\ Len(began') = l + 1 /\ began'[l + 1] = e /\ \A k \in 1 .. l : began'[k] = began[k]
        /\ DOMAIN began' = 1 .. l + 1
    BY <2>1, <2>2, <2>3
  <2>7. \A k \in DOMAIN began' : bpc'[began'[k]] # "idle"
    <3>0. \A k \in 1 .. l : began[k] \in Events /\ bpc[began[k]] # "idle"
      BY <1>0, <2>3 DEF HistoryOK
    <3>1. \A k \in 1 .. l : bpc'[began[k]] # "idle"
      BY <1>0, <3>0, BegunStays
    <3>2. bpc'[e] # "idle"
      <4>1. bpc'[e] \in {"sending", "done"}
        BY <1>0, <2>1, WalkFromTypes
      <4> QED
        BY <4>1
    <3> QED
      BY <2>6, <3>1, <3>2
  <2>8. PICK a \in Seq(Events) : a = Append(history, e)
    <3>1. Append(history, e) \in Seq(Events)
      BY <2>3
    <3> QED
      BY <3>1
  <2>9. /\ Len(a) = h + 1 /\ a[h + 1] = e /\ \A k \in 1 .. h : a[k] = history[k]
    BY <2>2, <2>3, <2>8
  <2>10. /\ h = IF l < HistoryMax THEN l ELSE HistoryMax
         /\ \A i \in 1 .. h : history[i] = began[l - h + i]
    BY <1>0, <2>2, <2>3 DEF HistoryOK
  <2>11. PICK g \in Nat : g = IF h + 1 > HistoryMax THEN HistoryMax ELSE h + 1
    BY WsAssumption
  <2>12. /\ history' \in Seq(Events) /\ Len(history') = g
         /\ \A i \in 1 .. g : history'[i] = a[h + 1 - g + i]
    <3>1. HistoryMax \in Nat \ {0} /\ history' = LastOf(a, HistoryMax)
      BY <2>1, <2>8, WsAssumption
    <3>2. /\ history' \in Seq(Events)
          /\ Len(history') = IF Len(a) > HistoryMax THEN HistoryMax ELSE Len(a)
          /\ \A i \in 1 .. Len(history') : history'[i] = a[Len(a) - Len(history') + i]
      BY <3>1, LastOfFacts
    <3>3. Len(history') = g
      BY <2>9, <2>11, <3>2
    <3> QED
      BY <2>9, <3>2, <3>3
  <2>13. g = IF l + 1 < HistoryMax THEN l + 1 ELSE HistoryMax
    BY <2>10, <2>11, WsAssumption
  <2>14. ASSUME NEW i \in 1 .. g PROVE history'[i] = began'[l + 1 - g + i]
    <3>1. CASE i = g
      <4>1. h + 1 - g + i = h + 1 /\ l + 1 - g + i = l + 1
        BY <3>1
      <4> QED
        BY <2>6, <2>9, <2>12, <4>1
    <3>2. CASE i # g
      <4>1. PICK j \in 1 .. h : j = h + 1 - g + i /\ l - h + j = l + 1 - g + i
        BY <2>10, <2>11, <3>2, WsAssumption
      <4>2. l - h + j \in 1 .. l
        BY <2>10, <4>1, WsAssumption
      <4>3. history'[i] = a[j]
        BY <2>12, <4>1
      <4>4. a[j] = began[l - h + j]
        BY <2>9, <2>10
      <4>5. began[l - h + j] = began'[l - h + j]
        BY <2>6, <4>2
      <4> QED
        BY <4>1, <4>3, <4>4, <4>5
    <3> QED
      BY <3>1, <3>2
  <2>15. DOMAIN history' = 1 .. g
    BY <2>12
  <2>16. Len(history') = IF Len(began') < HistoryMax THEN Len(began') ELSE HistoryMax
    BY <2>6, <2>12, <2>13
  <2>17. \A i \in DOMAIN history' : history'[i] = began'[Len(began') - Len(history') + i]
    BY <2>6, <2>12, <2>14, <2>15
  <2> QED
    BY <2>5, <2>7, <2>16, <2>17 DEF HistoryOK
<1>3. UNCHANGED <<history, began>> \/ \E e \in Events : Broadcast(e)
  BY DEF Next, Connect, Replay, PeerLeaves, EndpointEnds, BroadcastJson, GoOn
<1> QED
  BY <1>1, <1>2, <1>3

-----------------------------------------------------------------------------
(* What a client is sent from the history. *)

LEMMA HeadElements ==
    ASSUME NEW S, NEW h \in Seq(S), h # <<>>
    PROVE  Elements(h) = {Head(h)} \cup Elements(Tail(h))
<1>1. PICK n \in Nat \ {0} : n = Len(h)
  OBVIOUS
<1>2. /\ Head(h) = h[1] /\ DOMAIN h = 1 .. n /\ DOMAIN Tail(h) = 1 .. n - 1
      /\ \A i \in 1 .. n - 1 : Tail(h)[i] = h[i + 1]
  BY <1>1
<1>3. \A i \in 1 .. n : i = 1 \/ i - 1 \in 1 .. n - 1
  BY <1>1
<1>4. \A i \in 1 .. n - 1 : i + 1 \in 1 .. n
  BY <1>1
<1>5. ASSUME NEW i \in 1 .. n PROVE h[i] \in {h[1]} \cup Elements(Tail(h))
  <2>1. CASE i # 1
    <3>1. i - 1 \in 1 .. n - 1 /\ (i - 1) + 1 = i
      BY <1>3, <2>1
    <3>2. Tail(h)[i - 1] = h[i]
      BY <1>2, <3>1
    <3> QED
      BY <1>2, <3>1, <3>2 DEF Elements
  <2> QED
    BY <2>1
<1> QED
  BY <1>1, <1>2, <1>4, <1>5 DEF Elements

\* A client whose peer is there loses nothing of what it has to be sent.
LEMMA ReplayFromKeeps ==
    ASSUME TypeOK, NEW c \in Clients, NEW h \in Seq(Events), ReplayFrom(c, h), c \in alive
    PROVE  /\ replayed'[c] \cup Elements(replay'[c]) = replayed[c] \cup Elements(h)
           /\ cpc'[c] = "serving" => replay'[c] = <<>>
<1>1. /\ cpc \in [Clients -> {"new", "replaying", "serving", "ended"}]
      /\ replay \in [Clients -> Seq(Events)] /\ replayed \in [Clients -> SUBSET Events]
  BY DEF TypeOK
<1>2. CASE h = <<>>
  BY <1>1, <1>2 DEF ReplayFrom
<1>3. CASE h # <<>>
  <2>1. /\ cpc' = [cpc EXCEPT ![c] = "replaying"]
        /\ replay' = [replay EXCEPT ![c] = Tail(h)]
        /\ replayed' = [replayed EXCEPT ![c] = IF c \in alive THEN @ \cup {Head(h)} ELSE @]
    BY <1>3 DEF ReplayFrom
  <2>2. /\ cpc'[c] = "replaying" /\ replay'[c] = Tail(h)
        /\ replayed'[c] = replayed[c] \cup {Head(h)}
    BY <1>1, <2>1
  <2> QED
    BY <1>3, <2>2, HeadElements
<1> QED
  BY <1>2, <1>3

\* A client that nothing is sent to from the history.
LEMMA CaughtUpStays ==
    ASSUME TypeOK, HistoryOK, NEW c \in Clients, CaughtUp(c), cpc'[c] = cpc[c],
           replay'[c] = replay[c], replayed'[c] = replayed[c], UNCHANGED began,
           \A k \in DOMAIN began : c \in audience[began[k]] => c \in audience'[began[k]]
    PROVE  CaughtUp(c)'
<1>1. PICK lo \in 1 .. Len(began) + 1, hi \in 0 .. Len(began) : Covers(c, lo, hi)
  BY DEF CaughtUp
<1>2. Covers(c, lo, hi)'
  <2>1. \A k \in hi + 1 .. Len(began) : k \in DOMAIN began
    BY DEF TypeOK
  <2> QED
    BY <1>1, <2>1 DEF Covers
<1> QED
  BY <1>1, <1>2 DEF CaughtUp

LEMMA ReplayStep ==
    ASSUME WsIInv, Next
    PROVE  ReplayOK'
<1>0. TypeOK /\ ListOK /\ HistoryOK /\ ReplayOK /\ Len(began) \in Nat
  BY DEF WsIInv, TypeOK
<1>1. ASSUME NEW c \in Clients, NEW h \in Seq(Events), ReplayFrom(c, h),
             UNCHANGED <<alive, began, audience>>,
             c \in alive => \E lo \in 1 .. Len(began) + 1 : \E hi \in 0 .. Len(began) :
                               /\ replayed[c] \cup Elements(h) = {began[k] : k \in lo .. hi}
                               /\ \A k \in hi + 1 .. Len(began) : c \in audience[began[k]]
      PROVE  ReplayOK'
  <2>1. /\ cpc'[c] \in {"replaying", "serving"}
        /\ \A d \in Clients \ {c} : /\ cpc'[d] = cpc[d] /\ replay'[d] = replay[d]
                                    /\ replayed'[d] = replayed[d]
    BY <1>0, <1>1, ReplayFromTypes
  <2>2. ASSUME NEW d \in Clients \ Joined' PROVE replayed'[d] = {} /\ replay'[d] = <<>>
    <3>1. d # c /\ d \in Clients \ Joined
      BY <2>1 DEF Joined
    <3> QED
      BY <1>0, <2>1, <3>1 DEF ReplayOK
  <2>3. ASSUME NEW d \in Joined' \cap alive' PROVE CaughtUp(d)'
    <3>1. CASE d = c
      <4>1. /\ replayed'[c] \cup Elements(replay'[c]) = replayed[c] \cup Elements(h)
            /\ cpc'[c] = "serving" => replay'[c] = <<>>
        BY <1>0, <1>1, <2>3, <3>1, ReplayFromKeeps
      <4>2. PICK lo \in 1 .. Len(began) + 1, hi \in 0 .. Len(began) :
                /\ replayed[c] \cup Elements(h) = {began[k] : k \in lo .. hi}
                /\ \A k \in hi + 1 .. Len(began) : c \in audience[began[k]]
        BY <1>1, <2>3, <3>1
      <4>3. Covers(c, lo, hi)'
        BY <1>1, <4>1, <4>2 DEF Covers
      <4> QED
        BY <1>1, <3>1, <4>1, <4>3 DEF CaughtUp
    <3>2. CASE d # c
      <4>1. d \in Clients /\ d \in Joined \cap alive
        BY <1>1, <2>1, <2>3, <3>2 DEF Joined
      <4>2. CaughtUp(d)
        BY <1>0, <4>1 DEF ReplayOK
      <4> QED
        BY <1>0, <1>1, <2>1, <3>2, <4>1, <4>2, CaughtUpStays
    <3> QED
      BY <3>1, <3>2
  <2> QED
    BY <2>2, <2>3 DEF ReplayOK
<1>2. ASSUME NEW c \in Clients, Connect(c) PROVE ReplayOK'
  <2> DEFINE h == LastOf(history, ReplayMax)
  <2>1. /\ cpc[c] = "new" /\ ReplayFrom(c, h)
        /\ UNCHANGED <<alive, began, audience>>
    BY <1>2 DEF Connect
  <2>2. ReplayMax \in Nat \ {0} /\ history \in Seq(Events)
    BY <1>0, WsAssumption DEF TypeOK
  <2>3. PICK l \in Nat, g \in Nat, m \in Nat : l = Len(began) /\ g = Len(history) /\ m = Len(h)
    BY <1>0, <2>2, LastOfFacts DEF TypeOK
  <2>4. /\ h \in Seq(Events) /\ m <= g
        /\ \A i \in 1 .. m : h[i] = history[g - m + i]
    <3>1. /\ h \in Seq(Events)
          /\ Len(h) = IF Len(history) > ReplayMax THEN ReplayMax ELSE Len(history)
          /\ \A i \in 1 .. Len(h) : h[i] = history[Len(history) - Len(h) + i]
      BY <2>2, LastOfFacts
    <3> HIDE DEF h
    <3>2. m <= g
      BY <2>2, <2>3, <3>1
    <3> QED
      BY <2>3, <3>1, <3>2
  <2> HIDE DEF h
  <2>5. /\ g <= l /\ \A i \in 1 .. g : history[i] = began[l - g + i]
    BY <1>0, <2>2, <2>3 DEF HistoryOK
  <2>6. \A i \in 1 .. m : h[i] = began[l - m + i]
    <3> SUFFICES ASSUME NEW i \in 1 .. m PROVE h[i] = began[l - m + i]
      OBVIOUS
    <3>1. PICK j \in 1 .. g : j = g - m + i /\ l - g + j = l - m + i
      BY <2>4
    <3> QED
      BY <2>4, <2>5, <3>1
  <2>7. DOMAIN h = 1 .. m
    BY <2>3, <2>4
  <2>8. Elements(h) = {began[k] : k \in l - m + 1 .. l}
    <3>1. ASSUME NEW k \in l - m + 1 .. l PROVE began[k] \in Elements(h)
      <4>1. PICK i \in 1 .. m : l - m + i = k
        <5>1. k - (l - m) \in 1 .. m /\ l - m + (k - (l - m)) = k
          OBVIOUS
        <5> QED
          BY <5>1
      <4> QED
        BY <2>6, <2>7, <4>1 DEF Elements
    <3>2. ASSUME NEW i \in 1 .. m PROVE h[i] \in {began[k] : k \in l - m + 1 .. l}
      <4>1. l - m + i \in l - m + 1 .. l
        OBVIOUS
      <4> QED
        BY <2>6, <4>1
    <3> QED
      BY <2>7, <3>1, <3>2 DEF Elements
  <2>9. replayed[c] = {}
    BY <1>0, <2>1 DEF ReplayOK, Joined
  <2>10. l - m + 1 \in 1 .. l + 1 /\ l \in 0 .. l
    BY <2>4, <2>5
  <2>11. \A k \in l + 1 .. l : c \in audience[began[k]]
    OBVIOUS
  <2>12. \E lo \in 1 .. l + 1 : \E hi \in 0 .. l :
            /\ replayed[c] \cup Elements(h) = {began[k] : k \in lo .. hi}
            /\ \A k \in hi + 1 .. l : c \in audience[began[k]]
    BY <2>8, <2>9, <2>10, <2>11
  <2> QED
    BY <1>1, <2>1, <2>3, <2>4, <2>12
<1>3. ASSUME NEW c \in Clients, Replay(c) PROVE ReplayOK'
  <2>1. /\ ReplayFrom(c, replay[c]) /\ cpc[c] = "replaying"
        /\ UNCHANGED <<alive, began, audience>>
    BY <1>3 DEF Replay
  <2>2. replay[c] \in Seq(Events)
    BY <1>0 DEF TypeOK
  <2>3. c \in alive => CaughtUp(c)
    BY <1>0, <2>1 DEF ReplayOK, Joined
  <2> QED
    BY <1>1, <2>1, <2>2, <2>3 DEF CaughtUp, Covers
<1>4. ASSUME NEW c \in Clients, PeerLeaves(c) PROVE ReplayOK'
  <2>1. /\ cpc[c] # "new" /\ alive' = alive \ {c}
        /\ replayed' = [replayed EXCEPT ![c] = {}]
        /\ audience' = [e \in Events |-> audience[e] \ {c}]
        /\ UNCHANGED <<cpc, replay, began>>
    BY <1>4 DEF PeerLeaves
  <2>2. Joined' = Joined
    BY <2>1 DEF Joined
  <2>3. ASSUME NEW d \in Clients \ Joined' PROVE replayed'[d] = {} /\ replay'[d] = <<>>
    BY <1>0, <2>1, <2>2 DEF ReplayOK, Joined, TypeOK
  <2>4. ASSUME NEW d \in Joined' \cap alive' PROVE CaughtUp(d)'
    <3>1. d \in Clients /\ d # c /\ CaughtUp(d)
      BY <1>0, <2>1, <2>2 DEF ReplayOK, Joined
    <3>2. \A k \in DOMAIN began : began[k] \in Events
      BY <1>0 DEF TypeOK
    <3>3. \A k \in DOMAIN began : d \in audience[began[k]] => d \in audience'[began[k]]
      BY <2>1, <3>1, <3>2
    <3>4. cpc'[d] = cpc[d] /\ replay'[d] = replay[d] /\ replayed'[d] = replayed[d]
      BY <1>0, <2>1, <3>1 DEF TypeOK
    <3> QED
      BY <1>0, <2>1, <3>1, <3>3, <3>4, CaughtUpStays
  <2> QED
    BY <2>3, <2>4 DEF ReplayOK
<1>5. ASSUME NEW c \in Clients, EndpointEnds(c) PROVE ReplayOK'
  <2>1. /\ cpc[c] = "serving" /\ c \notin alive /\ cpc' = [cpc EXCEPT ![c] = "ended"]
        /\ UNCHANGED <<alive, replay, replayed, began, audience>>
    BY <1>5 DEF EndpointEnds
  <2>2. Joined' = Joined
    BY <1>0, <2>1 DEF Joined, TypeOK
  <2>3. ASSUME NEW d \in Joined' \cap alive' PROVE CaughtUp(d)'
    <3>1. d \in Clients /\ d # c /\ CaughtUp(d)
      BY <1>0, <2>1, <2>2 DEF ReplayOK, Joined
    <3>2. cpc'[d] = cpc[d]
      BY <1>0, <2>1, <3>1 DEF TypeOK
    <3> QED
      BY <1>0, <2>1, <3>1, <3>2, CaughtUpStays
  <2> QED
    BY <1>0, <2>1, <2>2, <2>3 DEF ReplayOK
<1>6. ASSUME UNCHANGED <<clientVars, began>>,
             \A k \in DOMAIN began : audience'[began[k]] = audience[began[k]]
      PROVE  ReplayOK'
  <2>1. Joined' = Joined /\ UNCHANGED <<alive, cpc, replay, replayed, began>>
    BY <1>6 DEF Joined, clientVars
  <2>2. ASSUME NEW d \in Joined' \cap alive' PROVE CaughtUp(d)'
    <3>1. d \in Clients /\ CaughtUp(d)
      BY <1>0, <2>1 DEF ReplayOK, Joined
    <3> QED
      BY <1>0, <1>6, <2>1, <3>1, CaughtUpStays
  <2> QED
    BY <1>0, <2>1, <2>2 DEF ReplayOK
<1>7. ASSUME NEW e \in Events, Begin(e)
      PROVE  /\ \A k \in DOMAIN began : audience'[began[k]] = audience[began[k]]
             /\ audience'[e] = Elements(conns) \cap alive
             /\ UNCHANGED clientVars
  BY <1>0, <1>7 DEF Begin, HistoryOK, TypeOK
<1>8. ASSUME NEW e \in Events, BroadcastJson(e) PROVE ReplayOK'
  BY <1>6, <1>7, <1>8 DEF BroadcastJson
<1>9. ASSUME NEW e \in Events, Broadcast(e) PROVE ReplayOK'
  <2>1. PICK l \in Nat : l = Len(began)
    BY <1>0
  <2>2. /\ UNCHANGED clientVars /\ began' = Append(began, e)
        /\ \A k \in 1 .. l : audience'[began[k]] = audience[began[k]]
        /\ audience'[e] = Elements(conns) \cap alive
    <3>1. Begin(e) /\ began' = Append(began, e) /\ DOMAIN began = 1 .. l
      BY <1>0, <1>9, <2>1 DEF Broadcast, TypeOK
    <3> QED
      BY <1>7, <3>1
  <2>3. Len(began') = l + 1 /\ began'[l + 1] = e /\ \A k \in 1 .. l : began'[k] = began[k]
    BY <1>0, <2>1, <2>2 DEF TypeOK
  <2>4. Joined' = Joined /\ UNCHANGED <<alive, cpc, replay, replayed>>
    BY <2>2 DEF Joined, clientVars
  <2>5. ASSUME NEW d \in Joined' \cap alive' PROVE CaughtUp(d)'
    <3>1. d \in Joined \cap alive /\ CaughtUp(d)
      BY <1>0, <2>4 DEF ReplayOK
    <3>2. PICK lo \in 1 .. l + 1, hi \in 0 .. l : Covers(d, lo, hi)
      BY <2>1, <3>1 DEF CaughtUp
    <3>3. lo .. hi \subseteq 1 .. l
      BY <3>2
    <3>4. {began'[k] : k \in lo .. hi} = {began[k] : k \in lo .. hi}
      BY <2>3, <3>3
    <3>5. ASSUME NEW k \in hi + 1 .. l + 1 PROVE d \in audience'[began'[k]]
      <4>1. CASE k = l + 1
        BY <1>0, <2>2, <2>3, <3>1, <4>1 DEF ListOK
      <4>2. CASE k # l + 1
        <5>1. k \in hi + 1 .. l /\ k \in 1 .. l
          BY <3>2, <4>2
        <5> QED
          BY <2>1, <2>2, <2>3, <3>2, <5>1 DEF Covers
      <4> QED
        BY <4>1, <4>2
    <3>6. Covers(d, lo, hi)'
      BY <2>3, <2>4, <3>2, <3>4, <3>5 DEF Covers
    <3>7. lo \in 1 .. Len(began') + 1 /\ hi \in 0 .. Len(began')
      BY <2>3, <3>2
    <3> QED
      BY <2>4, <3>1, <3>6, <3>7 DEF CaughtUp
  <2> QED
    BY <1>0, <2>4, <2>5 DEF ReplayOK
<1>10. ASSUME NEW e \in Events, GoOn(e) PROVE ReplayOK'
  BY <1>6, <1>10 DEF GoOn
<1> QED
  BY <1>2, <1>3, <1>4, <1>5, <1>8, <1>9, <1>10 DEF Next

-----------------------------------------------------------------------------
(* The theorems of the WebSocket manager. *)

LEMMA WsInit == Init => WsIInv
<1> SUFFICES ASSUME Init PROVE WsIInv
  OBVIOUS
<1>1. 0 \in 0 .. Cardinality(Clients) /\ HistoryMax \in Nat \ {0}
  BY WsAssumption, FS_CardinalityType
<1>2. Elements(conns) = {} /\ Injective(conns) /\ Elements(began) = {} /\ Injective(began)
  BY DEF Init, Elements, Injective
<1>3. TypeOK
  BY <1>1, <1>2 DEF Init, TypeOK
<1>4. Joined = {}
  BY DEF Init, Joined
<1>5. ListOK
  BY <1>2, <1>4 DEF Init, ListOK
<1>6. ASSUME NEW e \in Events PROVE WalkOf(e)
  <2>1. Passed(e) = {} /\ Gone = {}
    BY <1>4 DEF Init, Passed, Missed, Gone
  <2>2. Cardinality(Passed(e)) = 0 /\ Cardinality(Gone) = 0
    BY <2>1, FS_EmptySet
  <2> QED
    BY <2>2 DEF Init, WalkOf
<1>7. HistoryOK
  BY <1>1, <1>2 DEF Init, HistoryOK
<1>8. ReplayOK
  BY <1>4 DEF Init, ReplayOK
<1> QED
  BY <1>3, <1>5, <1>6, <1>7, <1>8 DEF WsIInv, WalkOK

LEMMA WsNext == WsIInv /\ [Next]_vars => WsIInv'
<1> SUFFICES ASSUME WsIInv, [Next]_vars PROVE WsIInv'
  OBVIOUS
<1>1. CASE Next
  <2>1. TypeButBound' /\ ListOK' /\ WalkOK' /\ HistoryOK' /\ ReplayOK'
    BY <1>1, TypeStep, ListStep, WalkStep, HistoryStep, ReplayStep DEF WsIInv
  <2>2. ASSUME NEW e \in Events PROVE removed'[e] \in 0 .. Cardinality(Clients)
    <3>1. removed'[e] \in Nat /\ removed'[e] <= Cardinality(Gone')
      BY <2>1 DEF TypeButBound, WalkOK, WalkOf
    <3>2. Gone' \in SUBSET Clients /\ Clients \in SUBSET Clients
      BY DEF Gone, Joined
    <3>3. /\ Cardinality(Gone') <= Cardinality(Clients)
          /\ Cardinality(Gone') \in Nat /\ Cardinality(Clients) \in Nat
      BY <3>2, ClientSets
    <3> QED
      BY <3>1, <3>3
  <2>3. removed' \in [Events -> 0 .. Cardinality(Clients)]
    BY <2>1, <2>2 DEF TypeButBound
  <2>4. TypeOK'
    BY <2>1, <2>3 DEF TypeOK, TypeButBound
  <2> QED
    BY <2>1, <2>4 DEF WsIInv
<1>2. CASE UNCHANGED vars
  <2>1. TypeOK' = TypeOK
    BY <1>2 DEF vars, TypeOK
  <2>2. Joined' = Joined /\ ListOK' = ListOK
    BY <1>2 DEF vars, ListOK, Joined
  <2>3. ASSUME NEW e \in Events, WalkOf(e) PROVE WalkOf(e)'
    <3>1. Passed(e)' = Passed(e) /\ Gone' = Gone
      BY <1>2, <2>2 DEF vars, Passed, Missed, Ahead, Gone
    <3> QED
      BY <1>2, <2>2, <2>3, <3>1 DEF vars, WalkOf
  <2>4. HistoryOK' = HistoryOK
    BY <1>2 DEF vars, HistoryOK
  <2>5. ASSUME NEW c \in Clients, CaughtUp(c) PROVE CaughtUp(c)'
    BY <1>2, <2>5 DEF vars, CaughtUp, Covers
  <2>6. ReplayOK'
    BY <1>2, <2>2, <2>5 DEF vars, WsIInv, ReplayOK, Joined
  <2> QED
    BY <2>1, <2>2, <2>3, <2>4, <2>6 DEF WsIInv, WalkOK
<1> QED
  BY <1>1, <1>2

\* The invariant that the other theorems rest on.
THEOREM WsInvariant == Spec => []WsIInv
BY WsInit, WsNext, PTL DEF Spec

\* The variables have their types, and the list has no client twice.
THEOREM WsTypeCorrect == Spec => []TypeOK
<1>1. WsIInv => TypeOK
  BY DEF WsIInv
<1> QED
  BY <1>1, WsInvariant, PTL

LEMMA PassedIsMissed ==
    ASSUME NEW e \in Events, bpc[e] = "done"
    PROVE  Passed(e) = Missed(e)
BY DEF Passed, Ahead

LEMMA MissedBounded == WsIInv => MissedAtMostRemoved
BY PassedIsMissed DEF WsIInv, WalkOK, WalkOf, MissedAtMostRemoved

LEMMA NothingMissed ==
    ASSUME WsIInv, NEW e \in Events, bpc[e] = "done", removed[e] = 0
    PROVE  Missed(e) = {}
<1>1. Missed(e) \in SUBSET Clients
  BY DEF WsIInv, TypeOK, Missed
<1>2. Cardinality(Missed(e)) <= 0 /\ IsFiniteSet(Missed(e)) /\ Cardinality(Missed(e)) \in Nat
  BY <1>1, MissedBounded, ClientSets DEF MissedAtMostRemoved
<1>3. Cardinality(Missed(e)) = 0
  BY <1>2
<1> QED
  BY <1>2, <1>3, FS_EmptySet

LEMMA NoGapHolds == WsIInv => NoGap
<1> SUFFICES ASSUME WsIInv, NEW c \in alive, NEW i \in DOMAIN began, NEW j \in DOMAIN began,
                    cpc[c] = "serving", i <= j, began[i] \in replayed[c],
                    bpc[began[j]] = "done", removed[began[j]] = 0
             PROVE  began[j] \in live[c] \cup replayed[c]
  BY DEF NoGap
<1>1. /\ TypeOK /\ HistoryOK /\ ReplayOK /\ c \in Clients
      /\ DOMAIN began = 1 .. Len(began) /\ Len(began) \in Nat
  BY SMTT(30) DEF WsIInv, TypeOK
<1>2. CaughtUp(c)
  BY <1>1 DEF ReplayOK, Joined
<1>3. PICK lo \in 1 .. Len(began) + 1, hi \in 0 .. Len(began) : Covers(c, lo, hi)
  BY <1>2 DEF CaughtUp
<1>4. replayed[c] = {began[k] : k \in lo .. hi}
  BY <1>2, <1>3 DEF CaughtUp, Covers, Elements
<1>5. PICK k \in lo .. hi : began[k] = began[i]
  BY <1>4
<1>6. k = i
  BY <1>1, <1>3, <1>5 DEF HistoryOK, Injective
<1>7. CASE j <= hi
  <2>1. j \in lo .. hi
    BY <1>1, <1>3, <1>5, <1>6, <1>7
  <2> QED
    BY <1>4, <2>1
<1>8. CASE ~(j <= hi)
  <2>1. j \in hi + 1 .. Len(began)
    BY <1>1, <1>3, <1>8
  <2>2. c \in audience[began[j]]
    BY <1>3, <2>1 DEF Covers
  <2>3. began[j] \in Events
    BY <1>1 DEF TypeOK
  <2>4. Missed(began[j]) = {}
    BY <2>3, NothingMissed
  <2> QED
    BY <2>2, <2>4 DEF Missed
<1> QED
  BY <1>7, <1>8

\* A broadcast passes over at most as many clients as left the list while it walked.
THEOREM MissedAreFew == Spec => []MissedAtMostRemoved
BY WsInvariant, MissedBounded, PTL

\* Whoever has caught up has every later event.
THEOREM NobodyHasAGap == Spec => []NoGap
BY WsInvariant, NoGapHolds, PTL

-----------------------------------------------------------------------------
(* The event log. *)

\* The events that wait for their task are logged and not begun, each once.
TasksOK ==
    /\ Injective(tasks)
    /\ Elements(tasks) \subseteq logged
    /\ \A e \in Elements(tasks) : bpc[e] = "idle"

\* Whoever was there when an event was logged is in its audience.
PresentOK ==
    \A e \in Events :
        /\ present[e] \subseteq alive \cap Joined
        /\ e \notin logged => present[e] = {}
        /\ e \notin Elements(tasks) =>
               IF bpc[e] = "idle" THEN present[e] = {} ELSE present[e] \subseteq audience[e]

LogIInv == WsIInv /\ LogTypeOK /\ TasksOK /\ PresentOK

\* What the log does to the manager the manager may do.
LEMMA LogRefines == LogTypeOK /\ [LogNext]_<<vars, logVars>> => [Next]_vars
<1> SUFFICES ASSUME LogTypeOK, [LogNext]_<<vars, logVars>> PROVE [Next]_vars
  OBVIOUS
<1>1. CASE RunTask
  <2>1. Head(tasks) \in Events /\ BroadcastJson(Head(tasks))
    BY <1>1 DEF RunTask, LogTypeOK
  <2> QED
    BY <2>1 DEF Next
<1>2. CASE ManagerStep
  BY <1>2 DEF ManagerStep, Next
<1>3. CASE \E e \in Events : LogInLoop(e) \/ LogInThread(e)
  <2>1. UNCHANGED vars
    BY <1>3 DEF LogInLoop, LogInThread, vars
  <2> QED
    BY <2>1
<1>4. CASE UNCHANGED <<vars, logVars>>
  BY <1>4
<1> QED
  BY <1>1, <1>2, <1>3, <1>4 DEF LogNext

\* What a step of the manager leaves to a walk.
LEMMA StepOfOthers ==
    ASSUME WsIInv, Next, NEW f \in Events
    PROVE  /\ alive' \subseteq alive /\ Joined \subseteq Joined'
           /\ bpc[f] # "idle" => audience[f] \cap alive' \subseteq audience'[f]
           /\ bpc'[f] # bpc[f] => Broadcast(f) \/ BroadcastJson(f) \/ GoOn(f)
<1>0. TypeOK
  BY DEF WsIInv
<1>1. ASSUME NEW c \in Clients, Connect(c) \/ Replay(c)
      PROVE  /\ alive' = alive /\ Joined \subseteq Joined' /\ audience' = audience /\ bpc' = bpc
  <2>1. \A h : ReplayFrom(c, h) => cpc' \in {[cpc EXCEPT ![c] = p] : p \in {"replaying", "serving"}}
    BY DEF ReplayFrom
  <2>2. cpc' \in {[cpc EXCEPT ![c] = p] : p \in {"replaying", "serving"}}
    BY <1>1, <2>1 DEF Connect, Replay
  <2>3. Joined \subseteq Joined'
    BY <1>0, <2>2 DEF Joined, TypeOK
  <2> QED
    BY <1>1, <2>3 DEF Connect, Replay
<1>2. ASSUME NEW c \in Clients, PeerLeaves(c)
      PROVE  /\ alive' \subseteq alive /\ Joined' = Joined /\ bpc' = bpc
             /\ audience[f] \cap alive' \subseteq audience'[f]
  BY <1>2 DEF PeerLeaves, Joined
<1>3. ASSUME NEW c \in Clients, EndpointEnds(c)
      PROVE  alive' = alive /\ Joined' = Joined /\ bpc' = bpc /\ audience' = audience
  <2>1. cpc[c] = "serving" /\ cpc' = [cpc EXCEPT ![c] = "ended"]
    BY <1>3 DEF EndpointEnds
  <2>2. Joined' = Joined
    BY <1>0, <2>1 DEF Joined, TypeOK
  <2> QED
    BY <1>3, <2>2 DEF EndpointEnds
<1>4. ASSUME NEW e \in Events, NEW n \in Nat \ {0}, WalkFrom(e, n), UNCHANGED clientVars
      PROVE  alive' = alive /\ Joined' = Joined /\ (f # e => bpc'[f] = bpc[f])
  <2>1. f # e => bpc'[f] = bpc[f]
    BY <1>0, <1>4, WalkFromTypes
  <2> QED
    BY <1>4, <2>1 DEF Joined, clientVars
<1>5. ASSUME NEW e \in Events, Broadcast(e) \/ BroadcastJson(e)
      PROVE  /\ alive' = alive /\ Joined' = Joined /\ (f # e => bpc'[f] = bpc[f])
             /\ bpc[f] # "idle" => audience'[f] = audience[f]
  <2>1. /\ bpc[e] = "idle" /\ WalkFrom(e, 1) /\ UNCHANGED clientVars
        /\ audience' = [audience EXCEPT ![e] = Elements(conns) \cap alive]
    BY <1>5 DEF Broadcast, BroadcastJson, Begin
  <2>2. bpc[f] # "idle" => audience'[f] = audience[f]
    BY <1>0, <2>1 DEF TypeOK
  <2> QED
    BY <1>4, <2>1, <2>2
<1>6. ASSUME NEW e \in Events, GoOn(e)
      PROVE  alive' = alive /\ Joined' = Joined /\ (f # e => bpc'[f] = bpc[f]) /\ audience' = audience
  <2>1. pos[e] + 1 \in Nat \ {0}
    BY <1>0, WsAssumption, FS_CardinalityType DEF TypeOK
  <2> QED
    BY <1>4, <1>6, <2>1 DEF GoOn
<1>7. CASE \E c \in Clients : Connect(c) \/ Replay(c) \/ PeerLeaves(c) \/ EndpointEnds(c)
  BY <1>1, <1>2, <1>3, <1>7
<1>8. CASE \E e \in Events : Broadcast(e) \/ BroadcastJson(e) \/ GoOn(e)
  BY <1>5, <1>6, <1>8
<1> QED
  BY <1>7, <1>8 DEF Next

LEMMA LogInit1 == LogInit => LogIInv
<1> SUFFICES ASSUME LogInit PROVE LogIInv
  OBVIOUS
<1>1. Elements(tasks) = {} /\ Injective(tasks)
  BY DEF LogInit, Elements, Injective
<1> QED
  BY <1>1, WsInit DEF LogInit, LogIInv, LogTypeOK, TasksOK, PresentOK, Init

LEMMA LogStep == LogIInv /\ [LogNext]_<<vars, logVars>> => LogIInv'
<1> SUFFICES ASSUME LogIInv, [LogNext]_<<vars, logVars>> PROVE LogIInv'
  OBVIOUS
<1>0. /\ WsIInv /\ TypeOK /\ ListOK /\ LogTypeOK /\ TasksOK /\ PresentOK /\ WsIInv'
      /\ tasks \in Seq(Events) /\ present \in [Events -> SUBSET Clients]
      /\ logged \in SUBSET Events
  <2>1. [Next]_vars
    BY LogRefines DEF LogIInv
  <2> QED
    BY <2>1, WsNext DEF LogIInv, WsIInv, LogTypeOK
<1>1. ASSUME NEW e \in Events, LogInLoop(e) PROVE LogIInv'
  <2>1. /\ bpc[e] = "idle" /\ e \notin logged
        /\ logged' = logged \cup {e} /\ rows' \in {rows, rows \cup {e}}
        /\ tasks' = Append(tasks, e)
        /\ present' = [present EXCEPT ![e] = Elements(conns) \cap alive]
        /\ UNCHANGED vars
    BY <1>1 DEF LogInLoop, Persist
  <2>2. e \notin Elements(tasks)
    BY <1>0, <2>1 DEF TasksOK
  <2>3. Injective(tasks') /\ Elements(tasks') = Elements(tasks) \cup {e} /\ tasks' \in Seq(Events)
    <3>1. tasks \in Seq(Events) /\ Injective(tasks)
      BY <1>0 DEF TasksOK
    <3>2. Injective(Append(tasks, e)) /\ Elements(Append(tasks, e)) = Elements(tasks) \cup {e}
      BY <2>2, <3>1, InjectiveAppend, AppendElements
    <3> QED
      BY <2>1, <3>1, <3>2
  <2>4. Elements(conns) \cap alive \subseteq alive \cap Joined /\ alive \subseteq Clients
    BY <1>0 DEF ListOK, TypeOK
  <2>5. UNCHANGED <<alive, cpc, bpc, audience>> /\ Joined' = Joined
    BY <2>1 DEF vars, Joined
  <2>6. LogTypeOK'
    BY <1>0, <2>1, <2>3, <2>4 DEF LogTypeOK
  <2>7. TasksOK'
    BY <1>0, <2>1, <2>3, <2>5 DEF TasksOK
  <2>8. ASSUME NEW f \in Events
        PROVE  /\ present'[f] \subseteq alive' \cap Joined'
               /\ f \notin logged' => present'[f] = {}
               /\ f \notin Elements(tasks') =>
                      IF bpc'[f] = "idle" THEN present'[f] = {} ELSE present'[f] \subseteq audience'[f]
    <3>1. CASE f = e
      BY <1>0, <2>1, <2>3, <2>4, <2>5, <3>1
    <3>2. CASE f # e
      <4>1. present'[f] = present[f] /\ (f \in logged' <=> f \in logged)
            /\ (f \in Elements(tasks') <=> f \in Elements(tasks))
        BY <1>0, <2>1, <2>3, <3>2
      <4> QED
        BY <1>0, <2>5, <4>1 DEF PresentOK
    <3> QED
      BY <3>1, <3>2
  <2> QED
    BY <1>0, <2>6, <2>7, <2>8 DEF LogIInv, PresentOK
<1>2. ASSUME NEW e \in Events, LogInThread(e) PROVE LogIInv'
  <2>1. /\ logged' = logged \cup {e} /\ rows' \in {rows, rows \cup {e}}
        /\ UNCHANGED <<tasks, present, alive, cpc, bpc, audience>>
    BY <1>2 DEF LogInThread, Persist, vars
  <2>2. Joined' = Joined
    BY <2>1 DEF Joined
  <2> QED
    BY <1>0, <2>1, <2>2 DEF LogIInv, LogTypeOK, TasksOK, PresentOK
<1>3. CASE RunTask
  <2> DEFINE e == Head(tasks)
  <2>1. /\ tasks # <<>> /\ tasks' = Tail(tasks) /\ BroadcastJson(e)
        /\ UNCHANGED <<rows, logged, present>>
    BY <1>3 DEF RunTask
  <2>2. /\ e \in Events /\ tasks' \in Seq(Events) /\ Injective(tasks') /\ e \notin Elements(tasks')
        /\ Elements(tasks) = {e} \cup Elements(tasks')
    <3>1. e \in Events /\ tasks' \in Seq(Events)
      BY <1>0, <2>1
    <3>2. PICK n \in Nat \ {0} : n = Len(tasks)
      BY <1>0, <2>1
    <3>3. /\ e = tasks[1] /\ DOMAIN tasks = 1 .. n /\ DOMAIN tasks' = 1 .. n - 1
          /\ \A i \in 1 .. n - 1 : tasks'[i] = tasks[i + 1] /\ i + 1 \in 1 .. n /\ i + 1 # 1
      BY <1>0, <2>1, <3>2
    <3>4. \A i, j \in 1 .. n - 1 : i + 1 = j + 1 => i = j
      OBVIOUS
    <3>5. \A i, j \in 1 .. n : tasks[i] = tasks[j] => i = j
      BY <1>0, <3>3 DEF TasksOK, Injective
    <3>6. Injective(tasks')
      BY <3>3, <3>4, <3>5 DEF Injective
    <3>7. e \notin Elements(tasks')
      BY <3>2, <3>3, <3>5 DEF Elements
    <3>8. Elements(tasks) = {e} \cup Elements(tasks')
      BY <1>0, <2>1, HeadElements
    <3> QED
      BY <3>1, <3>6, <3>7, <3>8
  <2>3. Next /\ bpc[e] = "idle" /\ audience' = [audience EXCEPT ![e] = Elements(conns) \cap alive]
    BY <2>1, <2>2 DEF Next, BroadcastJson, Begin
  <2> HIDE DEF e
  <2>4. bpc'[e] \in {"sending", "done"} /\ \A f \in Events \ {e} : bpc'[f] = bpc[f]
    <3>1. WalkFrom(e, 1)
      BY <2>1 DEF BroadcastJson, Begin
    <3> QED
      BY <1>0, <2>2, <3>1, WalkFromTypes
  <2>5. alive' = alive /\ Joined' = Joined
    BY <2>1 DEF BroadcastJson, Begin, clientVars, Joined
  <2>6. LogTypeOK'
    BY <1>0, <2>1, <2>2 DEF LogTypeOK
  <2>7. TasksOK'
    BY <1>0, <2>1, <2>2, <2>4 DEF TasksOK
  <2>8. ASSUME NEW f \in Events
        PROVE  /\ present'[f] \subseteq alive' \cap Joined'
               /\ f \notin logged' => present'[f] = {}
               /\ f \notin Elements(tasks') =>
                      IF bpc'[f] = "idle" THEN present'[f] = {} ELSE present'[f] \subseteq audience'[f]
    <3>1. present'[f] \subseteq alive' \cap Joined' /\ (f \notin logged' => present'[f] = {})
      BY <1>0, <2>1, <2>5 DEF PresentOK
    <3>2. CASE f = e
      <4>1. audience'[f] = Elements(conns) \cap alive
        BY <1>0, <2>3, <3>2 DEF TypeOK
      <4>2. present'[f] \subseteq audience'[f]
        BY <1>0, <2>5, <3>1, <4>1 DEF ListOK
      <4> QED
        BY <2>4, <3>1, <3>2, <4>2
    <3>3. CASE f # e
      <4>1. bpc'[f] = bpc[f] /\ audience'[f] = audience[f]
        BY <1>0, <2>3, <2>4, <3>3 DEF TypeOK
      <4>2. f \notin Elements(tasks') => f \notin Elements(tasks)
        BY <2>2, <3>3
      <4> QED
        BY <1>0, <2>1, <3>1, <4>1, <4>2 DEF PresentOK
    <3> QED
      BY <3>2, <3>3
  <2> QED
    BY <1>0, <2>6, <2>7, <2>8 DEF LogIInv, PresentOK
<1>4. CASE ManagerStep
  <2>1. /\ Next
        /\ present' = [e \in Events |-> present[e] \cap alive']
        /\ UNCHANGED <<rows, logged, tasks>>
    BY <1>4 DEF ManagerStep, Next
  <2>2. ASSUME NEW f \in logged, bpc[f] = "idle" PROVE bpc'[f] = "idle"
    <3>0. f \in Events
      BY <1>0
    <3>1. CASE \E c \in Clients : Connect(c) \/ Replay(c) \/ PeerLeaves(c) \/ EndpointEnds(c)
      BY <2>2, <3>1 DEF Connect, Replay, PeerLeaves, EndpointEnds
    <3>2. ASSUME NEW e \in Events, e # f, Broadcast(e) \/ BroadcastJson(e) \/ GoOn(e)
          PROVE  bpc'[f] = bpc[f]
      <4>1. pos[e] + 1 \in Nat \ {0} /\ 1 \in Nat \ {0}
        BY <1>0, WsAssumption, FS_CardinalityType DEF TypeOK
      <4>2. WalkFrom(e, 1) \/ WalkFrom(e, pos[e] + 1)
        BY <3>2 DEF Broadcast, BroadcastJson, Begin, GoOn
      <4> QED
        BY <1>0, <3>0, <3>2, <4>1, <4>2, WalkFromTypes
    <3>3. CASE \E e \in Events : GoOn(e)
      BY <2>2, <3>2, <3>3 DEF GoOn
    <3>4. CASE \E e \in Events \ logged : Broadcast(e) \/ BroadcastJson(e)
      BY <2>2, <3>2, <3>4
    <3> QED
      BY <1>4, <3>1, <3>3, <3>4 DEF ManagerStep
  <2>3. LogTypeOK'
    BY <1>0, <2>1 DEF LogTypeOK
  <2>4. TasksOK'
    BY <1>0, <2>1, <2>2 DEF TasksOK
  <2>5. ASSUME NEW f \in Events
        PROVE  /\ present'[f] \subseteq alive' \cap Joined'
               /\ f \notin logged' => present'[f] = {}
               /\ f \notin Elements(tasks') =>
                      IF bpc'[f] = "idle" THEN present'[f] = {} ELSE present'[f] \subseteq audience'[f]
    <3>1. /\ present'[f] = present[f] \cap alive'
          /\ alive' \subseteq alive /\ Joined \subseteq Joined'
          /\ bpc[f] # "idle" => audience[f] \cap alive' \subseteq audience'[f]
      BY <1>0, <2>1, StepOfOthers
    <3>2. present[f] \subseteq alive \cap Joined /\ (f \notin logged => present[f] = {})
      BY <1>0 DEF PresentOK
    <3>3. ASSUME f \notin Elements(tasks)
          PROVE  IF bpc'[f] = "idle" THEN present'[f] = {} ELSE present'[f] \subseteq audience'[f]
      <4>1. CASE bpc[f] = "idle"
        BY <1>0, <3>1, <3>3, <4>1 DEF PresentOK
      <4>2. CASE bpc[f] # "idle"
        <5>1. bpc'[f] # "idle" /\ present[f] \subseteq audience[f]
          BY <1>0, <2>1, <3>3, <4>2, BegunStays DEF PresentOK
        <5> QED
          BY <3>1, <4>2, <5>1
      <4> QED
        BY <4>1, <4>2
    <3> QED
      BY <2>1, <3>1, <3>2, <3>3
  <2> QED
    BY <1>0, <2>3, <2>4, <2>5 DEF LogIInv, PresentOK
<1>5. CASE UNCHANGED <<vars, logVars>>
  <2>1. Joined' = Joined /\ UNCHANGED <<alive, bpc, audience, rows, logged, tasks, present>>
    BY <1>5 DEF vars, logVars, Joined
  <2> QED
    BY <1>0, <2>1 DEF LogIInv, LogTypeOK, TasksOK, PresentOK
<1> QED
  BY <1>1, <1>2, <1>3, <1>4, <1>5 DEF LogNext

\* The invariant of the event log.
THEOREM LogInvariant == LogSpec => []LogIInv
BY LogInit1, LogStep, PTL DEF LogSpec

\* The log drives the WebSocket manager as its own specification allows.
THEOREM LogImplementsManager == LogSpec => Spec
<1>1. LogInit => Init
  BY DEF LogInit
<1>2. LogIInv => LogTypeOK
  BY DEF LogIInv
<1> QED
  BY <1>1, <1>2, LogInvariant, LogRefines, PTL DEF LogSpec, Spec

\* Every event that is logged in the event loop is told to everybody who was there.
THEOREM LoggedTold == LogSpec => []LoggedIsTold
<1>1. LogIInv => LoggedIsTold
  <2> SUFFICES ASSUME LogIInv, NEW e \in Events, \A i \in DOMAIN tasks : tasks[i] # e,
                      bpc[e] # "sending", ~(removed[e] > 0)
               PROVE  \A c \in present[e] : e \in live[c]
    BY DEF LoggedIsTold
  <2>1. WsIInv /\ TypeOK /\ PresentOK
    BY DEF LogIInv, WsIInv
  <2>2. e \notin Elements(tasks)
    BY DEF Elements
  <2>3. CASE bpc[e] = "idle"
    BY <2>1, <2>2, <2>3 DEF PresentOK
  <2>4. CASE bpc[e] # "idle"
    <3>1. bpc[e] = "done" /\ removed[e] = 0
      BY <2>1, <2>4, WsAssumption, FS_CardinalityType DEF TypeOK
    <3>2. Missed(e) = {}
      BY <2>1, <3>1, NothingMissed
    <3> QED
      BY <2>1, <2>2, <2>4, <3>2 DEF PresentOK, Missed
  <2> QED
    BY <2>3, <2>4
<1> QED
  BY <1>1, LogInvariant, PTL

----------------------------------------------------------------------------
(***************************************************************************)
(* The task board.                                                         *)
(***************************************************************************)

\* The column completed_at orders the finished rows by the time they last ended, and
\* no finished row is without one.
StampsOK ==
    /\ stamps = ended
    /\ \A t \in Tasks : status[t] \in Finished => Stamped(t)

BoardIInv == BoardTypeOK /\ StampsOK

\* A list of rows without t, and with t at its end.
LEMMA ListWithout ==
    ASSUME NEW s \in Seq(Tasks), Injective(s), NEW t \in Tasks
    PROVE  /\ Without(t, s) \in Seq(Tasks) /\ Injective(Without(t, s))
           /\ Elements(Without(t, s)) = Elements(s) \ {t}
           /\ ToEnd(t, s) \in Seq(Tasks) /\ Injective(ToEnd(t, s))
           /\ Elements(ToEnd(t, s)) = Elements(s) \cup {t}
<1>1. Elements(s) \subseteq Tasks
  BY DEF Elements
<1>2. /\ Without(t, s) \in Seq(Tasks) /\ Injective(Without(t, s))
      /\ Elements(Without(t, s)) = Elements(s) \ {t}
  BY <1>1, FilterProperties, FilterInjective DEF Without
<1>3. /\ Injective(ToEnd(t, s))
      /\ Elements(ToEnd(t, s)) = (Elements(s) \ {t}) \cup {t}
  BY <1>2, InjectiveAppend, AppendElements DEF ToEnd
<1>4. ToEnd(t, s) \in Seq(Tasks)
  BY <1>2 DEF ToEnd
<1>5. (Elements(s) \ {t}) \cup {t} = Elements(s) \cup {t}
  OBVIOUS
<1> QED
  BY <1>2, <1>3, <1>4, <1>5

LEMMA BoardInitially == BoardInit => BoardIInv
<1> SUFFICES ASSUME BoardInit PROVE BoardIInv
  OBVIOUS
<1>1. <<>> \in Seq(Tasks) /\ Injective(<<>>) /\ Elements(<<>>) = {}
  BY DEF Injective, Elements
<1>2. NotSeen \in 0 .. NotSeen
  BY BoardAssumption DEF NotSeen, OldAge
<1>3. \A s \in {stamps, ended} : s \in Seq(Tasks) /\ Injective(s) /\ Elements(s) \subseteq Rows
  BY <1>1 DEF BoardInit
<1>4. BoardTypeOK
  BY <1>2, <1>3 DEF BoardInit, BoardTypeOK, ValidStatuses, Unused, Rows
<1>5. StampsOK
  BY DEF BoardInit, StampsOK, Finished
<1> QED
  BY <1>4, <1>5 DEF BoardIInv

\* What SetStatus leaves: all handlers that change a status are instances of it.
LEMMA SetStatusKeeps ==
    ASSUME BoardIInv, NEW t \in Tasks, NEW s \in ValidStatuses, SetStatus(t, s)
    PROVE  BoardIInv'
<1>0. /\ BoardTypeOK /\ StampsOK /\ stamps \in Seq(Tasks) /\ Injective(stamps)
      /\ Elements(stamps) \subseteq Rows /\ stamps = ended
  BY DEF BoardIInv, BoardTypeOK, StampsOK
<1>1. /\ t \in Rows /\ status' = [status EXCEPT ![t] = s]
      /\ stamps' = Completed(t, s)
      /\ ended' = IF s \in Finished THEN ToEnd(t, ended) ELSE ended
      /\ UNCHANGED <<reportOf, seen, capture, filed>>
  BY DEF SetStatus
<1>2. stamps' = ended' /\ stamps' = IF s \in Finished THEN ToEnd(t, stamps) ELSE stamps
  BY <1>0, <1>1 DEF Completed
<1>3. /\ stamps' \in Seq(Tasks) /\ Injective(stamps')
      /\ Elements(stamps') = IF s \in Finished THEN Elements(stamps) \cup {t} ELSE Elements(stamps)
  <2>1. CASE s \in Finished
    <3>1. stamps' = ToEnd(t, stamps)
      BY <1>2, <2>1
    <3> QED
      BY <1>0, <2>1, <3>1, ListWithout
  <2>2. CASE s \notin Finished
    <3>1. stamps' = stamps
      BY <1>2, <2>2
    <3> QED
      BY <1>0, <2>2, <3>1
  <2> QED
    BY <2>1, <2>2
<1>4. /\ status' \in [Tasks -> ValidStatuses \cup {"absent"}]
      /\ \A u \in Tasks \ {t} : status'[u] = status[u]
      /\ status'[t] = s /\ s # "absent"
  BY <1>0, <1>1 DEF BoardTypeOK, ValidStatuses, Active, Finished
<1>5. Rows' = Rows /\ Unused' = Unused
  BY <1>1, <1>4 DEF Rows, Unused
<1>6. \A l \in {stamps', ended'} : l \in Seq(Tasks) /\ Injective(l) /\ Elements(l) \subseteq Rows'
  BY <1>0, <1>1, <1>2, <1>3, <1>5
<1>7. BoardTypeOK'
  BY <1>0, <1>1, <1>4, <1>5, <1>6 DEF BoardTypeOK
<1>8. \A u \in Tasks : status'[u] \in Finished => u \in Elements(stamps')
  BY <1>0, <1>3, <1>4 DEF StampsOK, Stamped
<1> QED
  BY <1>2, <1>7, <1>8 DEF BoardIInv, StampsOK, Stamped

\* A step that adds one row which is not finished, or none.
LEMMA RowsKeep ==
    ASSUME BoardIInv, UNCHANGED <<stamps, ended>>,
           status' = status \/ \E t \in Unused : \E s \in ValidStatuses \ Finished :
                                  status' = [status EXCEPT ![t] = s]
    PROVE  /\ StampsOK' /\ status' \in [Tasks -> ValidStatuses \cup {"absent"}]
           /\ Rows \subseteq Rows'
           /\ \A l \in {stamps', ended'} :
                  l \in Seq(Tasks) /\ Injective(l) /\ Elements(l) \subseteq Rows'
<1>0. BoardTypeOK /\ StampsOK
  BY DEF BoardIInv
<1>1. /\ status' \in [Tasks -> ValidStatuses \cup {"absent"}]
      /\ \A u \in Tasks : status'[u] \in Finished => status[u] \in Finished
      /\ \A u \in Tasks : status[u] # "absent" => status'[u] # "absent"
  <2>1. CASE status' = status
    BY <1>0, <2>1 DEF BoardTypeOK
  <2>2. CASE \E t \in Unused : \E s \in ValidStatuses \ Finished : status' = [status EXCEPT ![t] = s]
    BY <1>0, <2>2 DEF BoardTypeOK, Unused, Rows, ValidStatuses, Active, Finished
  <2> QED
    BY <2>1, <2>2
<1>2. Rows \subseteq Rows'
  BY <1>1 DEF Rows
<1>3. StampsOK'
  BY <1>0, <1>1 DEF StampsOK, Stamped
<1>4. \A l \in {stamps', ended'} : l \in Seq(Tasks) /\ Injective(l) /\ Elements(l) \subseteq Rows'
  BY <1>0, <1>2 DEF BoardTypeOK
<1> QED
  BY <1>1, <1>2, <1>3, SMTT(30), <1>4

LEMMA BoardStep == BoardIInv /\ [BoardNext]_boardVars => BoardIInv'
<1> SUFFICES ASSUME BoardIInv, [BoardNext]_boardVars PROVE BoardIInv'
  OBVIOUS
<1>0. /\ BoardTypeOK /\ StampsOK
      /\ status \in [Tasks -> ValidStatuses \cup {"absent"}]
      /\ reportOf \in [Tasks -> Errors \cup {NoError}]
      /\ seen \in [Errors -> 0 .. NotSeen]
  BY DEF BoardIInv, BoardTypeOK
<1>t. Window \in Nat /\ OldAge \in Nat /\ NotSeen \in Nat /\ NotSeen = OldAge + 1 /\ 0 \in 0 .. NotSeen
  BY BoardAssumption DEF OldAge, NotSeen
<1>1. ASSUME NEW t \in Tasks, NEW s \in ValidStatuses, SetStatus(t, s) PROVE BoardIInv'
  BY <1>1, SetStatusKeeps
<1>2. ASSUME NEW t \in Tasks,
             Approve(t) \/ Veto(t) \/ Pause(t) \/ Cancel(t) \/ Retry(t) \/ UpdateStatus(t)
      PROVE  BoardIInv'
  <2>1. \E s \in ValidStatuses : SetStatus(t, s)
    BY <1>2 DEF Approve, Veto, Pause, Cancel, Retry, UpdateStatus, ValidStatuses, Active, Finished
  <2> QED
    BY <1>1, <2>1
<1>3. CASE CreateTask
  <2>1. \E t \in Unused : \E s \in ValidStatuses \ Finished : status' = [status EXCEPT ![t] = s]
    BY <1>3 DEF CreateTask, ValidStatuses, Finished
  <2>2. UNCHANGED <<reportOf, stamps, seen, capture, ended, filed>>
    BY <1>3 DEF CreateTask
  <2> QED
    BY <1>0, <2>1, <2>2, RowsKeep DEF BoardIInv, BoardTypeOK, Unused
<1>4. ASSUME NEW t \in Tasks, DeleteTask(t) PROVE BoardIInv'
  <2>1. /\ t \in Rows /\ capture = NoError
        /\ status' = [status EXCEPT ![t] = "absent"]
        /\ reportOf' = [reportOf EXCEPT ![t] = NoError]
        /\ stamps' = Without(t, stamps) /\ ended' = Without(t, ended)
        /\ UNCHANGED <<seen, capture, filed>>
    BY <1>4 DEF DeleteTask, Idle
  <2>2. /\ stamps' = ended' /\ stamps' \in Seq(Tasks) /\ Injective(stamps')
        /\ Elements(stamps') = Elements(stamps) \ {t}
    BY <1>0, <2>1, ListWithout DEF BoardTypeOK, StampsOK
  <2>3. /\ status' \in [Tasks -> ValidStatuses \cup {"absent"}] /\ status'[t] = "absent"
        /\ \A u \in Tasks \ {t} : status'[u] = status[u]
        /\ reportOf' \in [Tasks -> Errors \cup {NoError}] /\ reportOf'[t] = NoError
        /\ \A u \in Tasks \ {t} : reportOf'[u] = reportOf[u]
    BY <1>0, <2>1
  <2>4. Rows' = Rows \ {t} /\ Unused' = Unused \cup {t} /\ Elements(stamps) \subseteq Rows
    BY <1>0, <2>3 DEF Rows, Unused, BoardTypeOK
  <2>5. \A l \in {stamps', ended'} : l \in Seq(Tasks) /\ Injective(l) /\ Elements(l) \subseteq Rows'
    BY <2>2, <2>4
  <2>6. \A u \in Unused' : reportOf'[u] = NoError
    BY <1>0, <2>3, <2>4 DEF BoardTypeOK, Unused
  <2>7. BoardTypeOK'
    BY <1>0, <2>1, <2>3, <2>5, <2>6 DEF BoardTypeOK
  <2>8. \A u \in Tasks : status'[u] \in Finished => u \in Elements(stamps')
    BY <1>0, <2>2, <2>3 DEF StampsOK, Stamped, Finished
  <2> QED
    BY <2>2, <2>7, <2>8 DEF BoardIInv, StampsOK, Stamped
<1>5. ASSUME NEW e \in Errors, RequestFails(e) PROVE BoardIInv'
  <2>1. seen' = Marked(e) /\ capture' = e /\ UNCHANGED <<status, reportOf, stamps, ended, filed>>
    BY <1>5 DEF RequestFails, board
  <2>2. seen' \in [Errors -> 0 .. NotSeen] /\ seen'[e] = 0
    BY <1>0, <1>t, <2>1 DEF Marked
  <2> QED
    BY <1>0, <2>1, <2>2, RowsKeep DEF BoardIInv, BoardTypeOK, Unused, Rows
<1>6. ASSUME NEW e \in Errors, FileReport(e) PROVE BoardIInv'
  <2>1. PICK t \in Unused : /\ status' = [status EXCEPT ![t] = "approved"]
                            /\ reportOf' = [reportOf EXCEPT ![t] = e]
    BY <1>6 DEF FileReport
  <2>2. /\ filed' = filed \cup {e} /\ capture' = NoError
        /\ UNCHANGED <<stamps, seen, ended>>
    BY <1>6 DEF FileReport
  <2>3. \E u \in Unused : \E s \in ValidStatuses \ Finished : status' = [status EXCEPT ![u] = s]
    BY <2>1 DEF ValidStatuses, Active, Finished
  <2>4. /\ StampsOK' /\ status' \in [Tasks -> ValidStatuses \cup {"absent"}]
        /\ \A l \in {stamps', ended'} : l \in Seq(Tasks) /\ Injective(l) /\ Elements(l) \subseteq Rows'
    BY <2>2, <2>3, RowsKeep
  <2>5. reportOf' \in [Tasks -> Errors \cup {NoError}]
    BY <1>0, <2>1 DEF Unused
  <2>6. \A u \in Unused' : reportOf'[u] = NoError
    <3> SUFFICES ASSUME NEW u \in Unused' PROVE reportOf'[u] = NoError
      OBVIOUS
    <3>1. u # t /\ u \in Unused
      BY <1>0, <2>1 DEF Unused, Rows
    <3> QED
      BY <1>0, <2>1, <3>1 DEF BoardTypeOK, Unused
  <2>7. filed' \in SUBSET Errors /\ capture' \in Errors \cup {NoError}
    BY <1>0, <2>2 DEF BoardTypeOK
  <2>8. BoardTypeOK'
    BY <1>0, <2>2, <2>4, <2>5, <2>6, <2>7 DEF BoardTypeOK
  <2> QED
    BY <2>4, <2>8 DEF BoardIInv
<1>7. ASSUME UNCHANGED <<status, reportOf, stamps, ended, filed>>,
             seen' \in [Errors -> 0 .. NotSeen], capture' = NoError
      PROVE  BoardIInv'
  BY <1>0, <1>7, RowsKeep DEF BoardIInv, BoardTypeOK, Unused, Rows
<1>8. ASSUME NEW e \in Errors, FilingFails(e) PROVE BoardIInv'
  BY <1>0, <1>7, <1>8 DEF FilingFails, board
<1>9. CASE Restart
  BY <1>7, <1>9, <1>t DEF Restart, board
<1>10. CASE Tick
  <2>1. /\ seen' = [e \in Errors |-> Older(seen[e], IF seen[e] = NotSeen THEN NotSeen ELSE OldAge)]
        /\ capture' = NoError
        /\ UNCHANGED <<status, reportOf, stamps, ended, filed>>
    BY <1>10 DEF Tick, Idle, board
  <2>2. \A e \in Errors :
           Older(seen[e], IF seen[e] = NotSeen THEN NotSeen ELSE OldAge) \in 0 .. NotSeen
    BY <1>0, <1>t DEF Older
  <2> QED
    BY <1>7, <2>1, <2>2
<1>11. CASE UNCHANGED boardVars
  BY <1>0, <1>11 DEF boardVars, BoardIInv, BoardTypeOK, StampsOK, Stamped, Unused, Rows
<1>12. ASSUME NEW e \in Errors, RepeatIsDropped(e) PROVE BoardIInv'
  BY <1>11, <1>12 DEF RepeatIsDropped
<1> QED
  BY <1>2, <1>3, <1>4, <1>5, <1>6, <1>8, <1>9, <1>10, <1>11, <1>12 DEF BoardNext

\* The inductive invariant of the task board holds in every reachable state.
THEOREM BoardInvariant == BoardSpec => []BoardIInv
BY BoardInitially, BoardStep, PTL DEF BoardSpec

\* The rows of the task board, their stamps and the cache of errors keep their types.
THEOREM BoardTypeCorrect == BoardSpec => []BoardTypeOK
<1>1. BoardIInv => BoardTypeOK
  BY DEF BoardIInv
<1> QED
  BY <1>1, BoardInvariant, PTL

\* Only tasks that ended before ColumnLimit others, and backlogged ones, are not shown.
THEOREM HiddenAreOld == BoardSpec => []HiddenTasksAreOld
<1>1. BoardIInv => HiddenTasksAreOld
  <2> SUFFICES ASSUME BoardIInv, NEW t \in Rows \ Shown, status[t] # "backlogged"
               PROVE  /\ status[t] \in Finished
                      /\ Cardinality({u \in Rows : status[u] \in Finished /\ EndedAfter(u, t)})
                             >= ColumnLimit
    BY DEF HiddenTasksAreOld
  <2> DEFINE A == {u \in Rows : status[u] \in Finished /\ EndedAfter(u, t)}
             B == {u \in Tasks : status[u] \in Finished /\ Newer(u, t)}
  <2>1. /\ BoardTypeOK /\ StampsOK /\ t \in Tasks /\ stamps \in Seq(Tasks) /\ Injective(stamps)
        /\ stamps = ended
    BY DEF BoardIInv, BoardTypeOK, StampsOK, Rows
  <2>2. status[t] \in Finished
    BY <2>1 DEF Shown, PendingColumn, ActiveColumn, BoardTypeOK, ValidStatuses, Rows
  <2>3. ~(Cardinality(B) < ColumnLimit)
    BY <2>1, <2>2 DEF Shown, CompletedColumn
  <2>4. A = B
    <3>1. \A u \in Tasks : status[u] \in Finished => Stamped(u) /\ u \in Rows
      BY <2>1 DEF StampsOK, Rows, Finished
    <3>2. Stamped(t)
      BY <2>1, <2>2, <3>1
    <3> QED
      BY <2>1, <3>1, <3>2 DEF Newer, EndedAfter, Rows
  <2>5. IsFiniteSet(Elements(stamps)) /\ B \subseteq Elements(stamps)
    BY <2>1, ElementsSize DEF Newer, Stamped
  <2>6. Cardinality(B) \in Nat
    BY <2>5, FS_Subset, FS_CardinalityType
  <2> HIDE DEF A, B
  <2>7. Cardinality(A) >= ColumnLimit
    BY <2>3, <2>4, <2>6, BoardAssumption
  <2> QED
    BY <2>2, <2>7 DEF A
<1> QED
  BY <1>1, BoardInvariant, PTL

=============================================================================
