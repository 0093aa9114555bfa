--------------------------- MODULE RelayUpperBase ---------------------------
(***************************************************************************)
(* QRelayUpperBase (src/relaymapper/relay-base.cpp): what the sequencer    *)
(* and the serializer share.  The layer holds requests back until its idle *)
(* timer, then runs its process(), which hands work to the layer below     *)
(* (layer, the contract of RelayLayer) and runs again on each idle() of    *)
(* that layer, until it has nothing more to hand down.                     *)
(*                                                                         *)
(* The virtual process() goes from this layer's state u and the lower      *)
(* layer l to [up, low, started], started being its result; the handlers   *)
(* below have this outcome p as their parameter.                           *)
(***************************************************************************)
EXTENDS RelayLayer, Integers

(* The uses of the layer that are considered: when its client makes         *)
(* requests ("any" time, or "waiting" for the idle() it is owed), the sets  *)
(* of relays it names in one request, the values of bForce it passes, the   *)
(* relays it switches from within its idle() slot, those another client     *)
(* switches through the lower layer, and what the uninitialised             *)
(* lowLayerTransactionStarted happens to hold.                              *)
CONSTANTS Uses,
          Offered       \* the groups a set-up may try to add

ASSUME UsesAssumption ==
    Uses \subseteq [client : {"any", "waiting"}, asks : SUBSET SUBSET Relay,
                   forces : SUBSET BOOLEAN, replies : SUBSET Relay,
                   direct : SUBSET Relay, started : BOOLEAN]

VARIABLES
    use,      \* the use of this layer, one of Uses, fixed
    groups,   \* vecGroups
    up,       \* this layer: masks, timer, flags, and what process() keeps
    idles,    \* idle() signals since the last request, 0..2; 1 at the start
    wanted    \* the value of the last request for a relay

upperVars == <<layer, use, groups, up, idles, wanted>>

(* FAULT: the requests collected do not count as work.                      *)
UpBusyStartedOnly(u) == u.started
UpBusy(u) == u.started \/ Busy(u.enable, u.dirty)

(* idle() is emitted n more times; 2 stands for "more often than asked".    *)
Emit(count, n) == IF count + n > 2 THEN 2 ELSE count + n

(* setupBaseBitmaps of QRelayBase.                                          *)
ClearedMasks(u) ==
    [u EXCEPT !.enable = {}, !.set = {}, !.dirty = {}, !.target = {}]

(* startNextTransaction: with nothing in progress, take what is requested.  *)
StartNextTransaction(u, state) ==
    IF u.dirty = {} /\ u.enable # {}
    THEN [u EXCEPT !.target = Target(state, u.enable, u.set),
                   !.dirty  = Differing(state, u.enable, u.set),
                   !.enable = {}]
    ELSE u
-----------------------------------------------------------------------------
MayRequest == use.client = "waiting" => idles > 0

(* startSetMulti, which collects the request until the idle timer fires, or *)
(* with bForce hands it straight to the lower layer.                        *)
(* FAULT: a request that changes nothing does not start the idle timer.     *)
CollectedIfChanging(u, l, E, S) ==
    LET changed == Changing(l.state, E, S, FALSE)
    IN  [u EXCEPT !.enable = u.enable \cup changed,
                  !.set    = SetNext(u.set, changed, S),
                  !.timer  = u.timer \/ changed # {}]
Collected(u, l, E, S) ==
    LET changed == Changing(l.state, E, S, FALSE)
    IN  [u EXCEPT !.enable = u.enable \cup changed,
                  !.set    = SetNext(u.set, changed, S),
                  !.timer  = TRUE]
(* FAULT: a forced request starts the idle timer, too.                      *)
BypassedAndTimer(u) == [u EXCEPT !.bypass = TRUE, !.timer = TRUE]
Bypassed(u) == [u EXCEPT !.bypass = TRUE]
SetMulti(u, l, E, S, force) ==
    IF force THEN [up |-> Bypassed(u), low |-> Requested(l, E, S, TRUE)]
             ELSE [up |-> Collected(u, l, E, S), low |-> l]

UpperStartSetMulti(E, S, force) ==
    /\ MayRequest
    /\ LET s == SetMulti(up, layer, E, S, force) IN up' = s.up /\ layer' = s.low
    /\ idles' = 0
    /\ wanted' = Target(wanted, E, S)
    /\ UNCHANGED <<use, groups>>

(* Both handlers below end by running process(); without a new transaction  *)
(* in the lower layer this layer is done and emits idle().                  *)
RunProcess(p, count) ==
    /\ up' = [p.up EXCEPT !.started = p.started]
    /\ layer' = p.low
    /\ idles' = IF p.started THEN count ELSE Emit(count, 1)

(* The idle timer fires: p is process() of TimerFired over the lower layer. *)
TimerFired == [up EXCEPT !.timer = FALSE]
OnIdleTimer(p) ==
    /\ up.timer
    /\ IF LayerBusy(layer)
       THEN up' = TimerFired /\ UNCHANGED <<layer, idles>>
       ELSE RunProcess(p, idles)
    /\ UNCHANGED <<use, groups, wanted>>

(* The lower layer works on without an idle().                              *)
LowLayerGoesOn ==
    /\ layer.armed
    /\ layer' \in {l \in Outcomes(layer) : l.armed}
    /\ UNCHANGED <<use, groups, up, idles, wanted>>

(* The lower layer's idle(), delivered within the step that emits it.  The  *)
(* end of a forced request is reported first; a client that reacts to the   *)
(* report makes its next request within the handler.  The results are what  *)
(* the handler then finds.                                                  *)
LowLayerDone == IF layer.armed THEN {l \in Outcomes(layer) : ~l.armed} ELSE {}
Reported(l) ==
    LET u == [up EXCEPT !.bypass = FALSE]
    IN  {[up |-> u, low |-> l, wanted |-> wanted,
          idles |-> IF up.bypass THEN Emit(idles, 1) ELSE idles]}
RequestInSlot(l, E, S, force) ==
    LET s == SetMulti([up EXCEPT !.bypass = FALSE], l, E, S, force)
    IN  [up |-> s.up, low |-> s.low, wanted |-> Target(wanted, E, S), idles |-> 0]
Replied(l) ==
    IF up.bypass /\ use.replies # {}
    THEN UNION {{RequestInSlot(l, E, S, force) : S \in SUBSET E, force \in use.forces} :
                   E \in SUBSET use.replies}
    ELSE {}
Found == UNION {Reported(l) \cup Replied(l) : l \in LowLayerDone}

(* ... and with it found as f, process() runs if this layer is busy.        *)
OnLowLayerIdle(f, p) ==
    /\ IF UpBusy(f.up)
       THEN RunProcess(p, f.idles)
       ELSE up' = f.up /\ layer' = f.low /\ idles' = f.idles
    /\ wanted' = f.wanted
    /\ UNCHANGED <<use, groups>>

(* Another client switches relays through the lower layer.                  *)
DirectRequest(E, S, force) ==
    /\ use.direct # {}
    /\ layer' = Requested(layer, E, S, force)
    /\ UNCHANGED <<use, groups, up, idles, wanted>>

(* Set-up happens between requests, with nothing under way.                 *)
Quiet == idles > 0 /\ ~layer.armed /\ ~up.timer

(* setLowLayer, with the same lower layer or with one just set up: all      *)
(* bitmaps are cleared by the virtual setupBaseBitmaps, nothing else is.    *)
SetLowLayer(cleared) ==
    /\ Quiet
    /\ layer' \in {layer, InitLayer}
    /\ up' = cleared
    /\ wanted' = layer'.state
    /\ UNCHANGED <<use, groups, idles>>

(* addGroup: a group that is not acceptable is ignored.                     *)
AddGroup(acceptable) ==
    /\ Quiet
    /\ \E g \in Offered : groups' = groups \cup ({g} \cap acceptable)
    /\ UNCHANGED <<layer, use, up, idles, wanted>>

UpperRequests ==
    \E E \in use.asks : \E S \in SUBSET E : \E force \in use.forces :
        UpperStartSetMulti(E, S, force)
DirectRequests ==
    \E E \in SUBSET use.direct : \E S \in SUBSET E : \E force \in use.forces :
        DirectRequest(E, S, force)
-----------------------------------------------------------------------------
(* The client leaves the layer to its job: it neither forces relays past it *)
(* nor shares the lower layer with others.                                  *)
Unforced == use.forces = {FALSE} /\ use.direct = {}
(* ... or it does force, but takes one idle() at a time, outside its slot,  *)
(* and the uninitialised flag happens to be clear.                          *)
Disciplined ==
    use.client = "waiting" /\ use.replies = {} /\ use.direct = {} /\ ~use.started

(* Whatever is left to do in this layer, something is under way that makes  *)
(* process() run again: the idle timer, or work in the lower layer.         *)
NoWorkStranded == Busy(up.enable, up.dirty) => up.timer \/ layer.armed

(* One idle() per request, for a disciplined client.                        *)
OneIdlePerRequest == Disciplined => idles < 2

(* When a disciplined client has its idle(), the relays are where it wanted *)
(* them to be.                                                              *)
IdleMeansSwitched == Disciplined /\ idles > 0 => layer.state = wanted

(* A disciplined client gets its idle().                                    *)
IdleArrives == Disciplined /\ idles = 0 ~> idles > 0
=============================================================================
