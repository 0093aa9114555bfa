--------------------------- MODULE RelaySequencer ---------------------------
(***************************************************************************)
(* QRelaySequencer (src/relaymapper/relay-sequencer.cpp): switches the     *)
(* relays of a group in two transactions of the lower layer, so that they  *)
(* are never in a forbidden combination in between.                        *)
(***************************************************************************)
EXTENDS RelayUpperBase

SwitchTypes == {"transparent", "overlapped_on", "overlapped_off", "pass_on", "pass_off"}

(* A group is a [type, members]; addGroup lets a relay into one group only. *)
ASSUME OfferedAssumption ==
    Offered \subseteq [type : SwitchTypes, members : SUBSET Relay]
InsertedRelays == UNION {g.members : g \in groups}
(* FAULT: only a group that is there already is refused.                    *)
NotYetAdded(g) == g \notin groups
Disjoint(g) == g.members \cap InsertedRelays = {}

GroupOf(r)  == {g \in groups : r \in g.members}
TypeOf(r)   == IF GroupOf(r) = {} THEN "transparent"
               ELSE (CHOOSE g \in GroupOf(r) : TRUE).type

(* process(), state IDLE with a transaction started: t is this layer after  *)
(* startNextTransaction.  Passed are the members of the groups switched     *)
(* through all-on or all-off because one of their relays changes.           *)
Passed(t, type) ==
    UNION {g.members : g \in {h \in groups : h.type = type /\ h.members \cap t.dirty # {}}}
PassedAll(t) == Passed(t, "pass_on") \cup Passed(t, "pass_off")

(* Which transaction moves relay r of an overlapped group, or of none, to   *)
(* the value on.                                                            *)
(* FAULT: the two overlapped kinds are mixed up.                            *)
MovesFirstSwapped(r, on) == TypeOf(r) = IF on THEN "overlapped_off" ELSE "overlapped_on"
MovesFirst(r, on) == TypeOf(r) = IF on THEN "overlapped_on" ELSE "overlapped_off"
MovesSecond(r, on) ==
    TypeOf(r) \in {"transparent", IF on THEN "overlapped_off" ELSE "overlapped_on"}

FirstEnable(t) == PassedAll(t) \cup {r \in t.dirty : MovesFirst(r, r \in t.set)}
FirstSet(t) == (t.set \cup Passed(t, "pass_on")) \ Passed(t, "pass_off")

(* The relays of passed groups that have to come back from all-on, all-off. *)
(* FAULT: those that shall stay are switched back.                          *)
ComeBackInverted(t) == (Passed(t, "pass_on") \cap t.target) \cup (Passed(t, "pass_off") \ t.target)
ComeBack(t) == (Passed(t, "pass_on") \ t.target) \cup (Passed(t, "pass_off") \cap t.target)

(* enableMask2: bits of passed groups are overwritten, others only added;   *)
(* what an earlier transaction left there stays.                            *)
SecondEnable(t) ==
    (t.enable2 \ PassedAll(t)) \cup ComeBack(t)
    \cup {r \in t.dirty : MovesSecond(r, r \in t.set)}

SequencerProcess(u, l) ==
    LET t == StartNextTransaction(u, l.state)
    IN  CASE u.phase = "idle" /\ t.dirty # {} ->
               [up  |-> [t EXCEPT !.enable2 = SecondEnable(t), !.phase = "2nd"],
                low |-> Requested(l, FirstEnable(t), FirstSet(t), FALSE),
                started |-> TRUE]
          [] u.phase = "idle" /\ t.dirty = {} ->
               [up |-> t, low |-> l, started |-> FALSE]
          [] u.phase = "2nd" ->
               [up  |-> [u EXCEPT !.phase = "end"],
                low |-> Requested(l, u.enable2, u.target, FALSE),
                started |-> TRUE]
          [] u.phase = "end" ->
               [up  |-> [u EXCEPT !.phase = "idle", !.dirty = {}],
                low |-> l, started |-> FALSE]

(* setupBaseBitmaps, overridden.                                            *)
SequencerCleared(u) == [ClearedMasks(u) EXCEPT !.enable2 = {}]

TypeOK ==
    /\ use \in Uses /\ groups \subseteq Offered
    /\ \A g, h \in groups : g = h \/ g.members \cap h.members = {}
    /\ layer \in Layer
    /\ up \in [enable : SUBSET Relay, set : SUBSET Relay, dirty : SUBSET Relay,
               target : SUBSET Relay, timer : BOOLEAN, bypass : BOOLEAN,
               started : BOOLEAN, phase : {"idle", "2nd", "end"},
               enable2 : SUBSET Relay]
    /\ idles \in 0..2 /\ wanted \subseteq Relay

SequencerInit ==
    /\ layer = InitLayer
    /\ use \in Uses /\ groups = {}
    /\ up = [enable |-> {}, set |-> {}, dirty |-> {}, target |-> {},
             timer |-> FALSE, bypass |-> FALSE, started |-> use.started,
             phase |-> "idle", enable2 |-> {}]
    /\ idles = 1 /\ wanted = {}

IdleTimerFires == OnIdleTimer(SequencerProcess(TimerFired, layer))
LowLayerIdles  == \E f \in Found : OnLowLayerIdle(f, SequencerProcess(f.up, f.low))
LowLayerStep   == LowLayerGoesOn \/ LowLayerIdles

Reconnect      == SetLowLayer(SequencerCleared(up))
GroupAdded     == AddGroup({g \in Offered : Disjoint(g)})

SequencerNext ==
    \/ UpperRequests \/ DirectRequests
    \/ IdleTimerFires \/ LowLayerStep
    \/ Reconnect \/ GroupAdded

(* Timers fire and the lower layer keeps its contract.                      *)
SequencerFairness == WF_upperVars(IdleTimerFires) /\ WF_upperVars(LowLayerStep)

SequencerSpec == SequencerInit /\ [][SequencerNext]_upperVars /\ SequencerFairness
-----------------------------------------------------------------------------
GoesOn  == layer'.state \ layer.state
GoesOff == layer.state \ layer'.state

(* Break before make, whenever the lower layer works: a relay of a pass_off *)
(* group goes on only when every relay of the group is off, one of an       *)
(* overlapped_off group only when all those that have to go off are off.    *)
BreaksBeforeMaking(g) ==
    g.members \cap GoesOn # {} =>
        /\ g.type = "pass_off" => g.members \cap layer.state = {}
        /\ g.type = "overlapped_off" => g.members \cap layer.state \subseteq up.target

(* Make before break, the mirror image for pass_on and overlapped_on.       *)
MakesBeforeBreaking(g) ==
    g.members \cap GoesOff # {} =>
        /\ g.type = "pass_on" => g.members \subseteq layer.state
        /\ g.type = "overlapped_on" => g.members \cap up.target \subseteq layer.state

(* The relays of a group never pass through a forbidden combination, also   *)
(* with requests that overlap the two transactions.                         *)
NoForbiddenCombination ==
    [][Unforced /\ layer.armed =>
          \A g \in groups : BreaksBeforeMaking(g) /\ MakesBeforeBreaking(g)]_upperVars

(* The end of the two transactions leaves every relay at its target, also   *)
(* with bits of earlier transactions left in enableMask2.                   *)
TargetReached ==
    [][Unforced /\ up.phase = "end" /\ up'.phase = "idle" =>
          layer'.state = up.target]_upperVars
=============================================================================
