-------------------------- MODULE RelaySerializer --------------------------
(***************************************************************************)
(* QRelaySerializer (src/relaymapper/relay-serializer.cpp): splits a       *)
(* request into batches, so that the relays moving at one time never draw  *)
(* more current than the supply of their group delivers.                   *)
(***************************************************************************)
EXTENDS RelayUpperBase, Sequences

(* A group is a [max, entries], entries a sequence of [relay, on, current]  *)
(* in the order the relays shall be switched.  The currents (float) are     *)
(* integers of a common unit.                                               *)
Entries(g) == {g.entries[i] : i \in DOMAIN g.entries}
ASSUME OfferedAssumption ==
    Offered \subseteq [max : Nat,
                      entries : Seq([relay : Relay, on : BOOLEAN, current : Nat])]

(* addGroup does not look for a relay listed twice within the group: it     *)
(* relies on a table that gives each relay one current per direction, as    *)
(* appendSymetricRelay does.                                                *)
ASSUME OneEntryAssumption ==
    \A g \in Offered : \A i, j \in DOMAIN g.entries :
        /\ g.entries[i].relay = g.entries[j].relay
        /\ g.entries[i].on = g.entries[j].on
        => i = j

(* What addGroup accepts: a relay is in one group only per direction, and   *)
(* no relay draws more than the supply of its group delivers.               *)
Inserted == {<<e.relay, e.on>> : e \in UNION {Entries(g) : g \in groups}}
(* FAULT: a relay may draw more than its supply delivers.                   *)
SuppliableUnchecked(g) == \A e \in Entries(g) : <<e.relay, e.on>> \notin Inserted
Suppliable(g) ==
    \A e \in Entries(g) : <<e.relay, e.on>> \notin Inserted /\ e.current <= g.max

(* The greedy choice of process() for group g in transaction t: entries in  *)
(* order, each taken if the load still allows it, else delayed.             *)
Matches(t, e) == e.relay \in t.dirty /\ (e.relay \in t.target) = e.on
(* FAULT: the load is compared before the relay's current is added.         *)
FitsBefore(load, e, g) == load <= g.max
(* FAULT: a supply is never loaded to its maximum.                          *)
FitsStrictly(load, e, g) == load + e.current < g.max
Fits(load, e, g) == load + e.current <= g.max
Consider(t, g, batch, e) ==
    IF ~Matches(t, e) \/ e.relay \in batch.taken THEN batch
    ELSE IF Fits(batch.load, e, g)
         THEN [batch EXCEPT !.load = batch.load + e.current,
                            !.taken = batch.taken \cup {e.relay}]
         ELSE [batch EXCEPT !.delayed = batch.delayed \cup {e.relay}]
Batch(t, g) ==
    LET after[i \in 0..Len(g.entries)] ==
            IF i = 0 THEN [load |-> 0, taken |-> {}, delayed |-> {}]
                     ELSE LET batch == after[i - 1] IN Consider(t, g, batch, g.entries[i])
    IN  after[Len(g.entries)]

(* Everything goes down but the relays delayed by the load of their group.  *)
Delayed(t) == UNION {Batch(t, g).delayed \ Batch(t, g).taken : g \in groups}

(* FAULT: the delayed relays are dropped from the transaction.              *)
SerializerProcessForgets(u, l) ==
    LET t == StartNextTransaction(u, l.state)
    IN  IF t.dirty = {}
        THEN [up |-> t, low |-> l, started |-> FALSE]
        ELSE [up  |-> [t EXCEPT !.dirty = {}],
              low |-> Requested(l, t.dirty \ Delayed(t), t.target, FALSE),
              started |-> TRUE]
SerializerProcess(u, l) ==
    LET t == StartNextTransaction(u, l.state)
    IN  IF t.dirty = {}
        THEN [up |-> t, low |-> l, started |-> FALSE]
        ELSE LET delayed == Delayed(t)
             IN  [up  |-> [t EXCEPT !.dirty = delayed],
                  low |-> Requested(l, t.dirty \ delayed, t.target, FALSE),
                  started |-> TRUE]

TypeOK ==
    /\ use \in Uses /\ groups \subseteq Offered
    /\ \A g \in groups : \A e \in Entries(g) : e.current <= g.max
    /\ layer \in Layer
    /\ up \in [enable : SUBSET Relay, set : SUBSET Relay, dirty : SUBSET Relay,
               target : SUBSET Relay, timer : BOOLEAN, bypass : BOOLEAN,
               started : BOOLEAN]
    /\ idles \in 0..2 /\ wanted \subseteq Relay

SerializerInit ==
    /\ layer = InitLayer
    /\ use \in Uses /\ groups = {}
    /\ up = [enable |-> {}, set |-> {}, dirty |-> {}, target |-> {},
             timer |-> FALSE, bypass |-> FALSE, started |-> use.started]
    /\ idles = 1 /\ wanted = {}

IdleTimerFires == OnIdleTimer(SerializerProcess(TimerFired, layer))
LowLayerIdles  == \E f \in Found : OnLowLayerIdle(f, SerializerProcess(f.up, f.low))
LowLayerStep   == LowLayerGoesOn \/ LowLayerIdles

Reconnect      == SetLowLayer(ClearedMasks(up))
GroupAdded     == AddGroup({g \in Offered : Suppliable(g)})

SerializerNext ==
    \/ UpperRequests \/ DirectRequests
    \/ IdleTimerFires \/ LowLayerStep
    \/ Reconnect \/ GroupAdded

(* Timers fire and the lower layer keeps its contract.                      *)
SerializerFairness == WF_upperVars(IdleTimerFires) /\ WF_upperVars(LowLayerStep)

SerializerSpec == SerializerInit /\ [][SerializerNext]_upperVars /\ SerializerFairness
-----------------------------------------------------------------------------
(* The relays the lower layer l is moving to on, and their load on group g. *)
Moving(l, on) ==
    IF on THEN (l.enable \cap l.set) \cup (l.dirty \cap l.state)
          ELSE (l.enable \ l.set) \cup (l.dirty \ l.state)
Load(l, g) ==
    LET sum[i \in 0..Len(g.entries)] ==
            IF i = 0 THEN 0
            ELSE LET e == g.entries[i]
                 IN  sum[i - 1] + IF e.relay \in Moving(l, e.on) THEN e.current ELSE 0
    IN  sum[Len(g.entries)]

(* The relays of a group that move at the same time never draw more than    *)
(* the supply of the group delivers.                                        *)
SupplyNotOverloaded == Unforced => \A g \in groups : Load(layer, g) <= g.max

(* A relay is delayed only when the batch handed down leaves no current for *)
(* it: the serializer takes no more transactions than the load requires.    *)
DelayedForAReason ==
    [][Unforced /\ layer.enable = {} /\ layer'.enable # {} =>
          \A g \in groups : \A e \in Entries(g) :
              Matches(up', e) => Load(layer', g) + e.current > g.max]_upperVars
=============================================================================
