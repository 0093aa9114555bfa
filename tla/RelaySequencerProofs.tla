------------------------ MODULE RelaySequencerProofs ------------------------
(***************************************************************************)
(* Theorems about RelaySequencer, for every set of relays, every table of  *)
(* groups and every use of the layer.                                      *)
(***************************************************************************)
EXTENDS RelaySequencer, RelayUpperBaseProofs

(* Relays on the way from st to goal, when the transactions are to lead to  *)
(* target, break before make and make before break as the type of group g   *)
(* demands.                                                                 *)
GoesRight(g, st, goal, target) ==
    /\ g.members \cap (goal \ st) # {} =>
         /\ g.type = "pass_off" => g.members \cap st = {}
         /\ g.type = "overlapped_off" => g.members \cap st \subseteq target
    /\ g.members \cap (st \ goal) # {} =>
         /\ g.type = "pass_on" => g.members \subseteq st
         /\ g.type = "overlapped_on" => g.members \cap target \subseteq st

(* The inductive invariant for a client that leaves the layer to its job.   *)
(* Between transactions the lower layer has nothing to do.  While the first *)
(* one is under way, only the relays in enableMask2 are not yet on their    *)
(* way to the target; what the lower layer does now, and what the second    *)
(* transaction will make it do, goes right for every group.                 *)
PhaseInv(u, l) ==
    /\ u.phase = "idle" => ~LayerBusy(l) /\ u.dirty = {}
    /\ u.phase # "idle" => l.armed /\ u.started
    /\ u.phase = "2nd" =>
          /\ \A r \in Relay \ u.enable2 : r \in Goal(l) <=> r \in u.target
          /\ \A g \in groups : GoesRight(g, l.state, Goal(l), u.target)
          /\ \A g \in groups : GoesRight(g, Goal(l), u.target, u.target)
    /\ u.phase = "end" =>
          /\ Goal(l) = u.target
          /\ \A g \in groups : GoesRight(g, l.state, Goal(l), u.target)
PassageInv == Unforced => ~up.bypass /\ PhaseInv(up, layer)

(* The four situations of a disciplined client: it has its idle(); a forced *)
(* request is under way; a request waits for the idle timer; one of the two *)
(* transactions of a request is under way.                                  *)
AtRest(u, l) ==
    /\ ~u.timer /\ ~u.bypass /\ ~u.started /\ u.enable = {} /\ u.dirty = {}
    /\ u.phase = "idle" /\ ~l.armed /\ ~LayerBusy(l)
Forcing(u, l) ==
    /\ ~u.timer /\ u.bypass /\ ~u.started /\ u.enable = {} /\ u.dirty = {}
    /\ u.phase = "idle" /\ l.armed
Waiting(u, l) ==
    /\ u.timer /\ ~u.bypass /\ ~u.started /\ u.dirty = {}
    /\ u.phase = "idle" /\ ~l.armed /\ ~LayerBusy(l)
Switching(u, l) ==
    /\ ~u.timer /\ ~u.bypass /\ u.started /\ u.enable = {}
    /\ u.phase # "idle" /\ l.armed
OneIdleInv ==
    Disciplined => \/ idles = 1 /\ AtRest(up, layer)
                   \/ idles = 0 /\ \/ Forcing(up, layer)
                                   \/ Waiting(up, layer)
                                   \/ Switching(up, layer)
-----------------------------------------------------------------------------
(* Types.                                                                   *)
UpType == [enable : SUBSET Relay, set : SUBSET Relay, dirty : SUBSET Relay,
           target : SUBSET Relay, timer : BOOLEAN, bypass : BOOLEAN,
           started : BOOLEAN, phase : {"idle", "2nd", "end"}, enable2 : SUBSET Relay]
GroupType == [type : SwitchTypes, members : SUBSET Relay]

LEMMA GroupsType ==
    ASSUME TypeOK
    PROVE  groups \subseteq GroupType
BY OfferedAssumption DEF TypeOK, GroupType

LEMMA NewTransaction ==
    ASSUME NEW u \in UpType, NEW st \in SUBSET Relay, NEW t, t = StartNextTransaction(u, st)
    PROVE  /\ t \in UpType
           /\ t.timer = u.timer /\ t.bypass = u.bypass /\ t.started = u.started
           /\ t.phase = u.phase /\ t.enable2 = u.enable2 /\ t.set = u.set
           /\ t.dirty = {} => t.enable = {}
           /\ u.dirty = {} /\ t.dirty # {} =>
                 /\ t.enable = {}
                 /\ t.target = Target(st, u.enable, u.set)
                 /\ t.dirty = Differing(st, u.enable, u.set)
<1>1. Target(st, u.enable, u.set) \in SUBSET Relay
  BY DEF Target, UpType
<1>2. Differing(st, u.enable, u.set) \in SUBSET Relay
  BY DEF Differing, UpType
<1> QED BY <1>1, <1>2 DEF StartNextTransaction, UpType

(* The relays the two transactions enable.                                  *)
LEMMA EnableType ==
    ASSUME groups \subseteq GroupType, NEW t \in UpType
    PROVE  /\ FirstEnable(t) \in SUBSET Relay
           /\ SecondEnable(t) \in SUBSET Relay
<1>1. \A type : Passed(t, type) \subseteq Relay
  BY DEF Passed, GroupType
<1>2. PassedAll(t) \subseteq Relay /\ ComeBack(t) \subseteq Relay
  BY <1>1 DEF PassedAll, ComeBack
<1>3. t.dirty \subseteq Relay /\ t.enable2 \subseteq Relay
  BY DEF UpType
<1> QED BY <1>2, <1>3 DEF FirstEnable, SecondEnable

(* The four outcomes of process().                                          *)
FirstTransaction(t, l, p) ==
    /\ p.up = [t EXCEPT !.enable2 = SecondEnable(t), !.phase = "2nd"]
    /\ p.low = HandedDown(l, FirstEnable(t), FirstSet(t))
    /\ p.started = TRUE
SecondTransaction(u, l, p) ==
    /\ p.up = [u EXCEPT !.phase = "end"]
    /\ p.low = HandedDown(l, u.enable2, u.target)
    /\ p.started = TRUE
Done(u, l, p) ==
    /\ p.up = [u EXCEPT !.phase = "idle", !.dirty = {}]
    /\ p.low = l /\ p.started = FALSE

LEMMA ProcessCases ==
    ASSUME NEW u \in UpType, NEW l, NEW p, p = SequencerProcess(u, l),
           NEW t, t = StartNextTransaction(u, l.state)
    PROVE  \/ u.phase = "idle" /\ t.dirty # {} /\ FirstTransaction(t, l, p)
           \/ u.phase = "idle" /\ t.dirty = {} /\ p.up = t /\ p.low = l /\ p.started = FALSE
           \/ u.phase = "2nd" /\ SecondTransaction(u, l, p)
           \/ u.phase = "end" /\ Done(u, l, p)
<1>1. u.phase \in {"idle", "2nd", "end"}
  BY DEF UpType
<1>2. CASE u.phase = "idle" /\ t.dirty # {}
  <2>1. p = [up  |-> [t EXCEPT !.enable2 = SecondEnable(t), !.phase = "2nd"],
             low |-> Requested(l, FirstEnable(t), FirstSet(t), FALSE),
             started |-> TRUE]
    BY <1>2 DEF SequencerProcess
  <2> QED BY <1>2, <2>1 DEF FirstTransaction, HandedDown
<1>3. CASE u.phase = "idle" /\ t.dirty = {}
  <2>1. p = [up |-> t, low |-> l, started |-> FALSE]
    BY <1>3 DEF SequencerProcess
  <2> QED BY <1>3, <2>1
<1>4. CASE u.phase = "2nd"
  <2>1. p = [up  |-> [u EXCEPT !.phase = "end"],
             low |-> Requested(l, u.enable2, u.target, FALSE),
             started |-> TRUE]
    BY <1>4 DEF SequencerProcess
  <2> QED BY <1>4, <2>1 DEF SecondTransaction, HandedDown
<1>5. CASE u.phase = "end"
  <2>1. p = [up |-> [u EXCEPT !.phase = "idle", !.dirty = {}], low |-> l, started |-> FALSE]
    BY <1>5 DEF SequencerProcess
  <2> QED BY <1>5, <2>1 DEF Done
<1> QED BY <1>1, <1>2, <1>3, <1>4, <1>5

LEMMA ProcessStep ==
    ASSUME NEW u \in UpType, NEW l \in Layer, groups \subseteq GroupType,
           NEW p, p = SequencerProcess(u, l)
    PROVE  /\ p.up \in UpType /\ p.low \in Layer /\ p.started \in BOOLEAN
           /\ p.up.timer = u.timer /\ p.up.bypass = u.bypass
           /\ p.started => p.low.armed /\ p.up.phase # "idle"
           /\ ~p.started => p.low = l /\ p.up.phase = "idle" /\ p.up.dirty = {}
           /\ p.low.state = l.state
           /\ u.enable = {} \/ (u.phase = "idle" /\ u.dirty = {}) => p.up.enable = {}
<1> DEFINE t == StartNextTransaction(u, l.state)
<1>1. /\ t \in UpType /\ t.timer = u.timer /\ t.bypass = u.bypass /\ t.phase = u.phase
      /\ u.enable = {} \/ u.dirty = {} => t.enable = {}
  <2>1. l.state \in SUBSET Relay
    BY DEF Layer
  <2>2. u.enable = {} => t = u
    BY DEF StartNextTransaction
  <2> HIDE DEF t
  <2> QED BY <2>1, <2>2, NewTransaction DEF t
<1>2. \/ u.phase = "idle" /\ t.dirty # {} /\ FirstTransaction(t, l, p)
      \/ u.phase = "idle" /\ t.dirty = {} /\ p.up = t /\ p.low = l /\ p.started = FALSE
      \/ u.phase = "2nd" /\ SecondTransaction(u, l, p)
      \/ u.phase = "end" /\ Done(u, l, p)
  BY ProcessCases
<1> HIDE DEF t
<1>4. CASE u.phase = "idle" /\ FirstTransaction(t, l, p)
  <2>1. FirstEnable(t) \in SUBSET Relay /\ SecondEnable(t) \in SUBSET Relay
    BY <1>1, EnableType
  <2> DEFINE q == HandedDown(l, FirstEnable(t), FirstSet(t))
  <2>2. p.low \in Layer /\ p.low.armed /\ p.low.state = l.state
    <3>1. q \in Layer /\ q.armed /\ q.state = l.state
      BY <2>1, HandedDownFacts
    <3>2. p.low = q
      BY <1>4 DEF FirstTransaction
    <3> HIDE DEF q
    <3> QED BY <3>1, <3>2
  <2>3. /\ p.up \in UpType /\ p.up.timer = t.timer /\ p.up.bypass = t.bypass
        /\ p.up.enable = t.enable /\ p.up.phase = "2nd"
    BY <1>1, <1>4, <2>1 DEF FirstTransaction, UpType
  <2>4. p.started = TRUE
    BY <1>4 DEF FirstTransaction
  <2> QED BY <1>1, <2>2, <2>3, <2>4
<1>5. CASE u.phase = "idle" /\ t.dirty = {} /\ p.up = t /\ p.low = l /\ p.started = FALSE
  BY <1>1, <1>5
<1>6. CASE u.phase = "2nd" /\ SecondTransaction(u, l, p)
  <2>1. u.enable2 \in SUBSET Relay
    BY DEF UpType
  <2> DEFINE q == HandedDown(l, u.enable2, u.target)
  <2>2. p.low \in Layer /\ p.low.armed /\ p.low.state = l.state
    <3>1. q \in Layer /\ q.armed /\ q.state = l.state
      BY <2>1, HandedDownFacts
    <3>2. p.low = q
      BY <1>6 DEF SecondTransaction
    <3> HIDE DEF q
    <3> QED BY <3>1, <3>2
  <2>3. /\ p.up \in UpType /\ p.up.timer = u.timer /\ p.up.bypass = u.bypass
        /\ p.up.enable = u.enable /\ p.up.phase = "end"
    BY <1>6 DEF SecondTransaction, UpType
  <2>4. p.started = TRUE
    BY <1>6 DEF SecondTransaction
  <2> QED BY <1>6, <2>2, <2>3, <2>4
<1>7. CASE u.phase = "end" /\ Done(u, l, p)
  <2>1. /\ p.up \in UpType /\ p.up.timer = u.timer /\ p.up.bypass = u.bypass
        /\ p.up.enable = u.enable /\ p.up.phase = "idle" /\ p.up.dirty = {}
    BY <1>7 DEF Done, UpType
  <2>2. p.low = l /\ p.started = FALSE
    BY <1>7 DEF Done
  <2> QED BY <1>7, <2>1, <2>2
<1> QED BY <1>2, <1>4, <1>5, <1>6, <1>7

(* A request that waits for the idle timer.                                 *)
LEMMA CollectedStep ==
    ASSUME NEW u \in UpType, NEW l \in Layer, NEW E \in SUBSET Relay, NEW S \in SUBSET E,
           NEW c, c = Collected(u, l, E, S)
    PROVE  /\ c \in UpType
           /\ c.timer /\ c.bypass = u.bypass /\ c.started = u.started
           /\ c.dirty = u.dirty /\ c.target = u.target
           /\ c.phase = u.phase /\ c.enable2 = u.enable2
<1> DEFINE changed == Changing(l.state, E, S, FALSE)
           next    == SetNext(u.set, changed, S)
<1>1. changed \in SUBSET Relay
  BY DEF Changing
<1>2. next \in SUBSET Relay
  <2> HIDE DEF changed
  <2> QED BY <1>1 DEF SetNext, UpType
<1>3. c = [u EXCEPT !.enable = u.enable \cup changed, !.set = next, !.timer = TRUE]
  BY DEF Collected
<1> HIDE DEF changed, next
<1>4. u.enable \cup changed \in SUBSET Relay
  BY <1>1 DEF UpType
<1> QED BY <1>2, <1>3, <1>4 DEF UpType

LEMMA SetMultiStep ==
    ASSUME NEW u \in UpType, NEW l \in Layer, NEW E \in SUBSET Relay, NEW S \in SUBSET E,
           NEW force \in BOOLEAN, NEW s, s = SetMulti(u, l, E, S, force)
    PROVE  s.up \in UpType /\ s.low \in Layer
<1>1. CASE force
  <2>1. s.up = [u EXCEPT !.bypass = TRUE] /\ s.low = Requested(l, E, S, TRUE)
    BY <1>1 DEF SetMulti, Bypassed
  <2>2. s.low \in Layer
    <3>1. TRUE \in BOOLEAN
      OBVIOUS
    <3> QED BY <2>1, <3>1, RequestedType
  <2> QED BY <2>1, <2>2 DEF UpType
<1>2. CASE ~force
  <2>1. s.up = Collected(u, l, E, S) /\ s.low = l
    BY <1>2 DEF SetMulti
  <2> QED BY <2>1, CollectedStep
<1> QED BY <1>1, <1>2

LEMMA FoundType ==
    ASSUME TypeOK, NEW f \in Found
    PROVE  /\ f.up \in UpType /\ f.low \in Layer
           /\ f.idles \in 0..2 /\ f.wanted \subseteq Relay
<1> DEFINE u == [up EXCEPT !.bypass = FALSE]
<1>1. u \in UpType /\ layer \in Layer /\ idles \in 0..2 /\ wanted \subseteq Relay
  BY DEF TypeOK, UpType
<1>2. use.replies \subseteq Relay /\ use.forces \subseteq BOOLEAN
  BY UsesAssumption DEF TypeOK
<1>3. Emit(idles, 1) \in 0..2
  BY <1>1, EmitType
<1>4. PICK l \in Outcomes(layer) :
         \/ f = [up |-> u, low |-> l, wanted |-> wanted,
                 idles |-> IF up.bypass THEN Emit(idles, 1) ELSE idles]
         \/ \E E \in SUBSET use.replies, force \in use.forces :
              \E S \in SUBSET E : f = RequestInSlot(l, E, S, force)
  BY FoundCases
<1>5. l \in Layer
  BY <1>1, OutcomeType
<1> HIDE DEF u
<1>6. CASE f = [up |-> u, low |-> l, wanted |-> wanted,
               idles |-> IF up.bypass THEN Emit(idles, 1) ELSE idles]
  BY <1>1, <1>3, <1>5, <1>6
<1>7. ASSUME NEW E \in SUBSET use.replies, NEW force \in use.forces, NEW S \in SUBSET E,
             f = RequestInSlot(l, E, S, force)
      PROVE  /\ f.up \in UpType /\ f.low \in Layer
             /\ f.idles \in 0..2 /\ f.wanted \subseteq Relay
  <2> DEFINE s == SetMulti(u, l, E, S, force)
             w == Target(wanted, E, S)
  <2>1. E \in SUBSET Relay /\ force \in BOOLEAN
    BY <1>2
  <2>2. s.up \in UpType /\ s.low \in Layer
    <3> HIDE DEF s
    <3> QED BY <1>1, <1>5, <2>1, SetMultiStep DEF s
  <2>3. w \subseteq Relay
    BY <1>1, <2>1 DEF Target
  <2>4. f = [up |-> s.up, low |-> s.low, wanted |-> w, idles |-> 0]
    BY <1>7 DEF RequestInSlot, u
  <2> HIDE DEF s, w
  <2> QED BY <2>2, <2>3, <2>4
<1> QED BY <1>4, <1>6, <1>7, Zenon

LEMMA InitTypeOK == SequencerInit => TypeOK
<1> SUFFICES ASSUME SequencerInit PROVE TypeOK
  OBVIOUS
<1>1. layer \in Layer
  BY InitLayerType DEF SequencerInit
<1>2. use.started \in BOOLEAN
  BY UsesAssumption DEF SequencerInit
<1> QED BY <1>1, <1>2 DEF SequencerInit, TypeOK

StepType == layer' \in Layer /\ up' \in UpType /\ idles' \in 0..2 /\ wanted' \subseteq Relay

LEMMA StepTypeSuffices ==
    ASSUME TypeOK, StepType, UNCHANGED <<use, groups>>
    PROVE  TypeOK'
BY DEF StepType, TypeOK, UpType

LEMMA RunProcessType ==
    ASSUME TypeOK, NEW u \in UpType, NEW l \in Layer,
           NEW p, p = SequencerProcess(u, l), NEW count \in 0..2, RunProcess(p, count),
           wanted' \subseteq Relay
    PROVE  StepType
<1>1. p.up \in UpType /\ p.low \in Layer /\ p.started \in BOOLEAN
  BY GroupsType, ProcessStep
<1>2. up' \in UpType /\ layer' \in Layer
  BY <1>1 DEF RunProcess, UpType
<1>3. idles' \in 0..2
  BY EmitType DEF RunProcess
<1> QED BY <1>2, <1>3 DEF StepType

LEMMA RequestType ==
    ASSUME TypeOK, NEW E \in SUBSET Relay, NEW S \in SUBSET E, NEW force \in BOOLEAN,
           UpperStartSetMulti(E, S, force)
    PROVE  TypeOK'
<1> DEFINE s == SetMulti(up, layer, E, S, force)
<1>1. up \in UpType /\ layer \in Layer /\ wanted \subseteq Relay
  BY DEF TypeOK, UpType
<1>2. s.up \in UpType /\ s.low \in Layer
  <2> HIDE DEF s
  <2> QED BY <1>1, SetMultiStep DEF s
<1>3. up' = s.up /\ layer' = s.low /\ idles' = 0 /\ wanted' = Target(wanted, E, S)
  BY DEF UpperStartSetMulti
<1>4. Target(wanted, E, S) \subseteq Relay
  BY <1>1 DEF Target
<1>5. StepType
  <2> HIDE DEF s
  <2> QED BY <1>2, <1>3, <1>4 DEF StepType
<1> QED BY <1>5, StepTypeSuffices DEF UpperStartSetMulti

LEMMA TimerType ==
    ASSUME TypeOK, IdleTimerFires
    PROVE  TypeOK'
<1> DEFINE p == SequencerProcess(TimerFired, layer)
<1>1. up \in UpType /\ layer \in Layer /\ wanted \subseteq Relay /\ idles \in 0..2
  BY DEF TypeOK, UpType
<1>2. TimerFired \in UpType
  BY <1>1 DEF TimerFired, UpType
<1>3. CASE LayerBusy(layer)
  <2>1. StepType
    BY <1>1, <1>2, <1>3 DEF IdleTimerFires, OnIdleTimer, StepType
  <2> QED BY <2>1, StepTypeSuffices DEF IdleTimerFires, OnIdleTimer
<1>4. CASE ~LayerBusy(layer)
  <2>1. RunProcess(p, idles) /\ wanted' = wanted
    BY <1>4 DEF IdleTimerFires, OnIdleTimer
  <2>2. StepType
    <3> HIDE DEF p
    <3> QED BY <1>1, <1>2, <2>1, RunProcessType DEF p
  <2> QED BY <2>2, StepTypeSuffices DEF IdleTimerFires, OnIdleTimer
<1> QED BY <1>3, <1>4

LEMMA LowIdleType ==
    ASSUME TypeOK, NEW f \in Found,
           OnLowLayerIdle(f, SequencerProcess(f.up, f.low))
    PROVE  TypeOK'
<1> DEFINE p == SequencerProcess(f.up, f.low)
<1>1. f.up \in UpType /\ f.low \in Layer /\ f.idles \in 0..2 /\ f.wanted \subseteq Relay
  BY FoundType
<1>2. CASE UpBusy(f.up)
  <2>1. RunProcess(p, f.idles) /\ wanted' = f.wanted
    BY <1>2 DEF OnLowLayerIdle
  <2>2. StepType
    <3> HIDE DEF p
    <3> QED BY <1>1, <2>1, RunProcessType DEF p
  <2> QED BY <2>2, StepTypeSuffices DEF OnLowLayerIdle
<1>3. CASE ~UpBusy(f.up)
  <2>1. StepType
    BY <1>1, <1>3 DEF OnLowLayerIdle, StepType
  <2> QED BY <2>1, StepTypeSuffices DEF OnLowLayerIdle
<1> QED BY <1>2, <1>3

LEMMA OtherTypes ==
    ASSUME TypeOK, DirectRequests \/ LowLayerGoesOn \/ Reconnect
    PROVE  TypeOK'
<1>1. up \in UpType /\ layer \in Layer /\ wanted \subseteq Relay /\ idles \in 0..2
  BY DEF TypeOK, UpType
<1>2. CASE DirectRequests
  <2>1. PICK E \in SUBSET use.direct, S \in SUBSET use.direct, force \in use.forces :
           DirectRequest(E, S, force)
    BY <1>2 DEF DirectRequests
  <2>2. E \in SUBSET Relay /\ force \in BOOLEAN
    BY UsesAssumption DEF TypeOK
  <2>3. layer' \in Layer
    BY <1>1, <2>1, <2>2, RequestedType DEF DirectRequest
  <2>4. StepType
    BY <1>1, <2>1, <2>3 DEF DirectRequest, StepType
  <2> QED BY <2>1, <2>4, StepTypeSuffices DEF DirectRequest
<1>3. CASE LowLayerGoesOn
  <2>1. layer' \in Layer
    BY <1>1, <1>3, OutcomeType DEF LowLayerGoesOn
  <2>2. StepType
    BY <1>1, <1>3, <2>1 DEF LowLayerGoesOn, StepType
  <2> QED BY <1>3, <2>2, StepTypeSuffices DEF LowLayerGoesOn
<1>4. CASE Reconnect
  <2>1. layer' \in Layer
    BY <1>1, <1>4, InitLayerType DEF Reconnect, SetLowLayer
  <2>2. up' \in UpType
    BY <1>1, <1>4 DEF Reconnect, SetLowLayer, SequencerCleared, ClearedMasks, UpType
  <2>3. wanted' \subseteq Relay /\ idles' \in 0..2
    BY <1>1, <1>4, <2>1 DEF Reconnect, SetLowLayer, Layer
  <2>4. StepType
    BY <2>1, <2>2, <2>3 DEF StepType
  <2> QED BY <1>4, <2>4, StepTypeSuffices DEF Reconnect, SetLowLayer
<1> QED BY <1>2, <1>3, <1>4

(* addGroup keeps the groups disjoint.                                      *)
LEMMA AddedType ==
    ASSUME TypeOK, GroupAdded
    PROVE  TypeOK'
<1>1. PICK g \in Offered :
         groups' = groups \cup ({g} \cap {h \in Offered : Disjoint(h)})
  BY DEF GroupAdded, AddGroup
<1>2. UNCHANGED <<layer, use, up, idles, wanted>>
  BY DEF GroupAdded, AddGroup
<1>3. CASE ~Disjoint(g)
  <2>1. groups' = groups
    BY <1>1, <1>3
  <2> QED BY <1>2, <2>1 DEF TypeOK
<1>4. CASE Disjoint(g)
  <2>1. groups' = groups \cup {g}
    BY <1>1, <1>4
  <2>2. \A h \in groups : g.members \cap h.members = {}
    BY <1>4 DEF Disjoint, InsertedRelays
  <2>3. \A h, k \in groups' : h = k \/ h.members \cap k.members = {}
    BY <2>1, <2>2 DEF TypeOK
  <2> QED BY <1>2, <2>1, <2>3 DEF TypeOK
<1> QED BY <1>3, <1>4

LEMMA TypeStep == TypeOK /\ [SequencerNext]_upperVars => TypeOK'
<1> SUFFICES ASSUME TypeOK, [SequencerNext]_upperVars PROVE TypeOK'
  OBVIOUS
<1>1. CASE UpperRequests
  <2>1. use \in Uses /\ use.forces \subseteq BOOLEAN
    BY UsesAssumption DEF TypeOK
  <2> QED BY <1>1, <2>1, RequestType, AskedRelays
<1>2. CASE DirectRequests \/ LowLayerGoesOn \/ Reconnect
  BY <1>2, OtherTypes
<1>3. CASE IdleTimerFires
  BY <1>3, TimerType
<1>4. CASE LowLayerIdles
  BY <1>4, LowIdleType DEF LowLayerIdles
<1>5. CASE GroupAdded
  BY <1>5, AddedType
<1>6. CASE UNCHANGED upperVars
  BY <1>6 DEF upperVars, TypeOK
<1> QED BY <1>1, <1>2, <1>3, <1>4, <1>5, <1>6 DEF SequencerNext, LowLayerStep

(* The masks stay within the relays, the state of process() is one of its   *)
(* three, and the groups accepted share no relay.                           *)
THEOREM SequencerTypeCorrect == SequencerSpec => []TypeOK
BY InitTypeOK, TypeStep, PTL DEF SequencerSpec
-----------------------------------------------------------------------------
(* The group of a relay is one.                                             *)
LEMMA TypeOfMember ==
    ASSUME TypeOK, NEW g \in groups, NEW r \in g.members
    PROVE  TypeOf(r) = g.type
<1>1. GroupOf(r) = {g}
  BY DEF GroupOf, TypeOK
<1> QED BY <1>1 DEF TypeOf

LEMMA TypeOfOthers ==
    ASSUME NEW r, \A g \in groups : r \notin g.members
    PROVE  TypeOf(r) = "transparent" /\ \A t, type : r \notin Passed(t, type)
<1>1. GroupOf(r) = {}
  BY DEF GroupOf
<1> QED BY <1>1 DEF TypeOf, Passed

LEMMA PassedMember ==
    ASSUME TypeOK, NEW g \in groups, NEW r \in g.members, NEW t, NEW type
    PROVE  r \in Passed(t, type) <=> g.type = type /\ g.members \cap t.dirty # {}
<1>1. \A h \in groups : r \in h.members => h = g
  BY DEF TypeOK
<1> QED BY <1>1 DEF Passed

(* A transaction as StartNextTransaction begins it, from relays at st.      *)
Begun(t, st) ==
    /\ t \in UpType
    /\ \A r \in Relay : /\ r \in t.dirty <=> ~(r \in st <=> r \in t.target)
                        /\ r \in t.dirty => (r \in t.target <=> r \in t.set)

LEMMA BegunTransaction ==
    ASSUME NEW u \in UpType, u.dirty = {}, NEW st \in SUBSET Relay,
           NEW t, t = StartNextTransaction(u, st), t.dirty # {}
    PROVE  Begun(t, st)
<1>1. /\ t \in UpType /\ t.set = u.set /\ t.target = Target(st, u.enable, u.set)
      /\ t.dirty = Differing(st, u.enable, u.set)
  BY NewTransaction
<1>2. ASSUME NEW r \in Relay
      PROVE  /\ r \in t.dirty <=> ~(r \in st <=> r \in t.target)
             /\ r \in t.dirty => (r \in t.target <=> r \in t.set)
  BY <1>1 DEF Target, Differing
<1> QED BY <1>1, <1>2 DEF Begun

(* After the first transaction: relay r of a group is through all-on or     *)
(* all-off, if its group is passed; an overlapped_on group has every relay  *)
(* on that was or shall be, an overlapped_off group only those that were    *)
(* and shall be; the others have not moved.                                 *)
LEMMA FirstPassage ==
    ASSUME TypeOK, NEW l \in Layer, l.enable = {}, NEW t, Begun(t, l.state),
           NEW g \in groups, NEW r \in g.members,
           NEW q, q = HandedDown(l, FirstEnable(t), FirstSet(t))
    PROVE  /\ g.type = "overlapped_on" =>
                (r \in Goal(q) <=> r \in l.state \/ r \in t.target)
           /\ g.type = "overlapped_off" =>
                (r \in Goal(q) <=> r \in l.state /\ r \in t.target)
           /\ g.type = "pass_on" /\ g.members \cap t.dirty # {} => r \in Goal(q)
           /\ g.type = "pass_off" /\ g.members \cap t.dirty # {} => r \notin Goal(q)
           /\ g.members \cap t.dirty = {} =>
                (r \in Goal(q) <=> r \in l.state) /\ (r \in t.target <=> r \in l.state)
<1>1. r \in Relay /\ g.type \in SwitchTypes
  BY GroupsType DEF GroupType
<1>2. /\ r \in t.dirty <=> ~(r \in l.state <=> r \in t.target)
      /\ r \in t.dirty => (r \in t.target <=> r \in t.set)
      /\ t \in UpType
  BY <1>1 DEF Begun
<1>3. Goal(q) = (l.state \ FirstEnable(t)) \cup (FirstSet(t) \cap FirstEnable(t))
  <2>1. FirstEnable(t) \in SUBSET Relay
    BY <1>2, GroupsType, EnableType
  <2> QED BY <2>1, HandedDownFacts
<1>4. \A type : r \in Passed(t, type) <=> g.type = type /\ g.members \cap t.dirty # {}
  BY PassedMember
<1>5. TypeOf(r) = g.type
  BY TypeOfMember
<1>6. r \in FirstEnable(t) <=>
         \/ g.type \in {"pass_on", "pass_off"} /\ g.members \cap t.dirty # {}
         \/ r \in t.dirty /\ g.type = "overlapped_on" /\ r \in t.set
         \/ r \in t.dirty /\ g.type = "overlapped_off" /\ r \notin t.set
  BY <1>4, <1>5 DEF FirstEnable, PassedAll, MovesFirst
<1>7. r \in FirstSet(t) <=>
         /\ ~(g.type = "pass_off" /\ g.members \cap t.dirty # {})
         /\ r \in t.set \/ (g.type = "pass_on" /\ g.members \cap t.dirty # {})
  BY <1>4 DEF FirstSet
<1> QED BY <1>2, <1>3, <1>6, <1>7

(* What is left for the second transaction.                                 *)
LEMMA FirstLeaves ==
    ASSUME TypeOK, NEW l \in Layer, l.enable = {}, NEW t, Begun(t, l.state),
           NEW r \in Relay \ SecondEnable(t),
           NEW q, q = HandedDown(l, FirstEnable(t), FirstSet(t))
    PROVE  r \in Goal(q) <=> r \in t.target
<1>1. /\ r \in t.dirty <=> ~(r \in l.state <=> r \in t.target)
      /\ r \in t.dirty => (r \in t.target <=> r \in t.set)
      /\ t \in UpType
  BY DEF Begun
<1>2. Goal(q) = (l.state \ FirstEnable(t)) \cup (FirstSet(t) \cap FirstEnable(t))
  <2>1. FirstEnable(t) \in SUBSET Relay
    BY <1>1, GroupsType, EnableType
  <2> QED BY <2>1, HandedDownFacts
<1>3. CASE \A g \in groups : r \notin g.members
  <2>1. TypeOf(r) = "transparent" /\ r \notin Passed(t, "pass_on") /\ r \notin Passed(t, "pass_off")
    BY <1>3, TypeOfOthers
  <2>2. r \notin t.dirty
    BY <2>1 DEF SecondEnable, MovesSecond
  <2>3. r \notin FirstEnable(t)
    BY <2>1, <2>2 DEF FirstEnable, PassedAll
  <2> QED BY <1>1, <1>2, <2>2, <2>3
<1>4. ASSUME NEW g \in groups, r \in g.members
      PROVE  r \in Goal(q) <=> r \in t.target
  <2>1. /\ g.type = "overlapped_on" =>
             (r \in Goal(q) <=> r \in l.state \/ r \in t.target)
        /\ g.type = "overlapped_off" =>
             (r \in Goal(q) <=> r \in l.state /\ r \in t.target)
        /\ g.type = "pass_on" /\ g.members \cap t.dirty # {} => r \in Goal(q)
        /\ g.type = "pass_off" /\ g.members \cap t.dirty # {} => r \notin Goal(q)
        /\ g.members \cap t.dirty = {} =>
             (r \in Goal(q) <=> r \in l.state) /\ (r \in t.target <=> r \in l.state)
    BY <1>4, FirstPassage
  <2>2. g.type \in SwitchTypes
    BY GroupsType DEF GroupType
  <2>3. \A type : r \in Passed(t, type) <=> g.type = type /\ g.members \cap t.dirty # {}
    BY <1>4, PassedMember
  <2>4. TypeOf(r) = g.type
    BY <1>4, TypeOfMember
  <2>5. CASE g.members \cap t.dirty = {}
    BY <2>1, <2>5
  <2>6. CASE g.type = "pass_on" /\ g.members \cap t.dirty # {}
    <3>1. r \in t.target
      BY <2>3, <2>6 DEF SecondEnable, ComeBack
    <3> QED BY <2>1, <2>6, <3>1
  <2>7. CASE g.type = "pass_off" /\ g.members \cap t.dirty # {}
    <3>1. r \notin t.target
      BY <2>3, <2>7 DEF SecondEnable, ComeBack
    <3> QED BY <2>1, <2>7, <3>1
  <2>8. CASE g.type = "overlapped_on"
    <3>1. r \in t.dirty => r \in t.set
      BY <2>4, <2>8 DEF SecondEnable, MovesSecond
    <3> QED BY <1>1, <2>1, <2>8, <3>1
  <2>9. CASE g.type = "overlapped_off"
    <3>1. r \in t.dirty => r \notin t.set
      BY <2>4, <2>9 DEF SecondEnable, MovesSecond
    <3> QED BY <1>1, <2>1, <2>9, <3>1
  <2>10. CASE g.type = "transparent"
    <3>1. r \notin t.dirty
      BY <2>4, <2>10 DEF SecondEnable, MovesSecond
    <3>2. r \notin FirstEnable(t)
      BY <2>3, <2>4, <2>10, <3>1 DEF FirstEnable, PassedAll
    <3> QED BY <1>1, <1>2, <3>1, <3>2
  <2> QED BY <2>2, <2>5, <2>6, <2>7, <2>8, <2>9, <2>10 DEF SwitchTypes
<1> QED BY <1>3, <1>4

LEMMA FirstGoesRight ==
    ASSUME TypeOK, NEW l \in Layer, l.enable = {}, NEW t, Begun(t, l.state),
           NEW g \in groups,
           NEW q, q = HandedDown(l, FirstEnable(t), FirstSet(t))
    PROVE  /\ GoesRight(g, l.state, Goal(q), t.target)
           /\ GoesRight(g, Goal(q), t.target, t.target)
<1> DEFINE F == Goal(q)
<1>1. \A r \in g.members :
         /\ g.type = "overlapped_on" => (r \in F <=> r \in l.state \/ r \in t.target)
         /\ g.type = "overlapped_off" => (r \in F <=> r \in l.state /\ r \in t.target)
         /\ g.type = "pass_on" /\ g.members \cap t.dirty # {} => r \in F
         /\ g.type = "pass_off" /\ g.members \cap t.dirty # {} => r \notin F
         /\ g.members \cap t.dirty = {} =>
              (r \in F <=> r \in l.state) /\ (r \in t.target <=> r \in l.state)
  BY FirstPassage
<1> HIDE DEF F
<1>2. GoesRight(g, l.state, F, t.target)
  BY <1>1 DEF GoesRight
<1>3. GoesRight(g, F, t.target, t.target)
  BY <1>1 DEF GoesRight
<1> QED BY <1>2, <1>3 DEF F

(* What process() finds, with nothing to do in the lower layer.             *)
FoundPhase(u, l) ==
    /\ u.phase = "idle" => u.dirty = {}
    /\ u.phase = "2nd" =>
          /\ \A r \in Relay \ u.enable2 : r \in l.state <=> r \in u.target
          /\ \A g \in groups : GoesRight(g, l.state, u.target, u.target)
    /\ u.phase = "end" => l.state = u.target

LEMMA RunProcessPassage ==
    ASSUME TypeOK, NEW u \in UpType, ~u.bypass, NEW l \in Layer, ~LayerBusy(l), FoundPhase(u, l),
           NEW p, p = SequencerProcess(u, l), NEW count, RunProcess(p, count)
    PROVE  /\ ~up'.bypass /\ PhaseInv(up', layer') /\ layer'.state = l.state
           /\ u.phase = "end" => layer'.state = u.target
<1> DEFINE t == StartNextTransaction(u, l.state)
<1>1. l.enable = {} /\ l.state \in SUBSET Relay /\ u.target \in SUBSET Relay
  BY DEF LayerBusy, Busy, Layer, UpType
<1>2. /\ p.up \in UpType /\ p.low \in Layer /\ p.started \in BOOLEAN
      /\ p.up.bypass = u.bypass /\ p.low.state = l.state
      /\ p.started => p.low.armed /\ p.up.phase # "idle"
      /\ ~p.started => p.low = l /\ p.up.phase = "idle" /\ p.up.dirty = {}
  BY GroupsType, ProcessStep
<1>3. up' = [p.up EXCEPT !.started = p.started] /\ layer' = p.low
  BY DEF RunProcess
<1>4. /\ up'.started = p.started /\ up'.bypass = p.up.bypass /\ up'.phase = p.up.phase
      /\ up'.dirty = p.up.dirty /\ up'.target = p.up.target /\ up'.enable2 = p.up.enable2
  BY <1>2, <1>3 DEF UpType
<1>5. u.phase = "end" => layer'.state = u.target
  BY <1>2, <1>3 DEF FoundPhase
<1>6. \/ u.phase = "idle" /\ t.dirty # {} /\ FirstTransaction(t, l, p)
      \/ u.phase = "idle" /\ t.dirty = {} /\ p.up = t /\ p.low = l /\ p.started = FALSE
      \/ u.phase = "2nd" /\ SecondTransaction(u, l, p)
      \/ u.phase = "end" /\ Done(u, l, p)
  BY ProcessCases
<1>7. CASE u.phase = "idle" /\ t.dirty # {} /\ FirstTransaction(t, l, p)
  <2>1. Begun(t, l.state)
    <3>1. u.dirty = {}
      BY <1>7 DEF FoundPhase
    <3> HIDE DEF t
    <3> QED BY <1>1, <1>7, <3>1, BegunTransaction DEF t
  <2> HIDE DEF t
  <2>2. t \in UpType /\ p.low = HandedDown(l, FirstEnable(t), FirstSet(t)) /\ p.started = TRUE
    BY <1>7, <2>1 DEF FirstTransaction, Begun
  <2>3. p.up.phase = "2nd" /\ p.up.target = t.target /\ p.up.enable2 = SecondEnable(t)
    BY <1>7, <2>2 DEF FirstTransaction, UpType
  <2>4. \A r \in Relay \ SecondEnable(t) : r \in Goal(p.low) <=> r \in t.target
    BY <1>1, <2>1, <2>2, FirstLeaves
  <2>5. \A g \in groups : /\ GoesRight(g, l.state, Goal(p.low), t.target)
                         /\ GoesRight(g, Goal(p.low), t.target, t.target)
    BY <1>1, <2>1, <2>2, FirstGoesRight
  <2>6. PhaseInv(up', layer')
    BY <1>2, <1>3, <1>4, <2>2, <2>3, <2>4, <2>5 DEF PhaseInv
  <2> QED BY <1>2, <1>3, <1>4, <1>5, <2>6
<1>8. CASE p.low = l /\ ~p.started
  <2>1. PhaseInv(up', layer')
    BY <1>2, <1>3, <1>4, <1>8 DEF PhaseInv
  <2> QED BY <1>2, <1>3, <1>4, <1>5, <2>1
<1>9. CASE u.phase = "2nd" /\ SecondTransaction(u, l, p)
  <2>1. p.low = HandedDown(l, u.enable2, u.target) /\ p.started = TRUE
    BY <1>9 DEF SecondTransaction
  <2>2. p.up.phase = "end" /\ p.up.target = u.target
    BY <1>9 DEF SecondTransaction, UpType
  <2>3. Goal(p.low) = (l.state \ u.enable2) \cup (u.target \cap u.enable2)
    <3>1. u.enable2 \in SUBSET Relay
      BY DEF UpType
    <3> QED BY <1>1, <2>1, <3>1, HandedDownFacts
  <2>4. \A r \in Relay \ u.enable2 : r \in l.state <=> r \in u.target
    BY <1>9 DEF FoundPhase
  <2>5. Goal(p.low) = u.target
    <3>1. \A r : r \in Goal(p.low) <=> r \in u.target
      BY <1>1, <2>3, <2>4
    <3> QED BY <3>1, <1>1, <2>3
  <2>6. \A g \in groups : GoesRight(g, l.state, Goal(p.low), u.target)
    BY <1>9, <2>5 DEF FoundPhase
  <2>7. PhaseInv(up', layer')
    BY <1>2, <1>3, <1>4, <2>1, <2>2, <2>5, <2>6 DEF PhaseInv
  <2> QED BY <1>2, <1>3, <1>4, <1>5, <2>7
<1> QED BY <1>6, <1>7, <1>8, <1>9 DEF Done

(* What every step keeps, and what it shows of the relays.                  *)
StepPassage ==
    Unforced => /\ ~up'.bypass /\ PhaseInv(up', layer')
                /\ layer.armed => layer'.state \in {layer.state, Goal(layer)}
                /\ up.phase = "end" /\ up'.phase = "idle" => layer'.state = up.target

(* With nothing to do in the lower layer, its relays are at its goal.       *)
LEMMA AtGoal ==
    ASSUME NEW l, ~LayerBusy(l), NEW u \in UpType, PhaseInv(u, l)
    PROVE  Goal(l) = l.state \cap Goal(l) /\ (l.state \subseteq Goal(l)) /\ FoundPhase(u, l)
<1>1. l.enable = {}
  BY DEF LayerBusy, Busy
<1>2. \A r : r \in Goal(l) <=> r \in l.state
  BY <1>1 DEF Goal, Target
<1>3. Goal(l) = l.state \ {}
  BY <1>1, <1>2 DEF Goal, Target
<1> QED BY <1>2, <1>3 DEF PhaseInv, FoundPhase

LEMMA InitPassage == SequencerInit => PassageInv
BY InitLayerType DEF SequencerInit, PassageInv, PhaseInv

LEMMA RequestPassage ==
    ASSUME TypeOK, PassageInv, NEW E \in SUBSET Relay, NEW S \in SUBSET E,
           NEW force \in use.forces, UpperStartSetMulti(E, S, force)
    PROVE  StepPassage
<1> SUFFICES ASSUME Unforced
             PROVE  /\ ~up'.bypass /\ PhaseInv(up', layer')
                    /\ layer'.state = layer.state /\ up'.phase = up.phase
  BY DEF StepPassage
<1> DEFINE s == SetMulti(up, layer, E, S, force)
<1>1. ~force
  BY DEF Unforced
<1>2. up \in UpType /\ layer \in Layer
  BY DEF TypeOK, UpType
<1>3. layer' = s.low /\ up' = s.up
  BY DEF UpperStartSetMulti
<1>4. /\ s.low = layer
      /\ s.up.bypass = up.bypass /\ s.up.started = up.started
      /\ s.up.dirty = up.dirty /\ s.up.target = up.target
      /\ s.up.phase = up.phase /\ s.up.enable2 = up.enable2
  <2>1. s.up = Collected(up, layer, E, S) /\ s.low = layer
    BY <1>1 DEF SetMulti
  <2> HIDE DEF s
  <2> QED BY <1>2, <2>1, CollectedStep
<1> HIDE DEF s
<1> QED BY <1>3, <1>4 DEF PassageInv, PhaseInv

LEMMA TimerPassage ==
    ASSUME TypeOK, PassageInv, IdleTimerFires
    PROVE  StepPassage
<1> SUFFICES ASSUME Unforced
             PROVE  /\ ~up'.bypass /\ PhaseInv(up', layer')
                    /\ layer'.state = layer.state
                    /\ up.phase = "end" /\ up'.phase = "idle" => layer'.state = up.target
  BY DEF StepPassage
<1> DEFINE p == SequencerProcess(TimerFired, layer)
<1>1. up \in UpType /\ layer \in Layer
  BY DEF TypeOK, UpType
<1>2. /\ TimerFired \in UpType /\ TimerFired.bypass = up.bypass
      /\ TimerFired.started = up.started /\ TimerFired.phase = up.phase
      /\ TimerFired.dirty = up.dirty /\ TimerFired.target = up.target
      /\ TimerFired.enable2 = up.enable2
  BY <1>1 DEF TimerFired, UpType
<1>3. ~TimerFired.bypass /\ PhaseInv(TimerFired, layer)
  BY <1>2 DEF PassageInv, PhaseInv
<1>4. CASE LayerBusy(layer)
  <2>1. up' = TimerFired /\ layer' = layer
    BY <1>4 DEF IdleTimerFires, OnIdleTimer
  <2> QED BY <1>2, <1>3, <2>1
<1>5. CASE ~LayerBusy(layer)
  <2>1. RunProcess(p, idles)
    BY <1>5 DEF IdleTimerFires, OnIdleTimer
  <2>2. FoundPhase(TimerFired, layer)
    BY <1>2, <1>3, <1>5, AtGoal
  <2>3. /\ ~up'.bypass /\ PhaseInv(up', layer') /\ layer'.state = layer.state
        /\ TimerFired.phase = "end" => layer'.state = TimerFired.target
    <3> HIDE DEF p
    <3> QED BY <1>1, <1>2, <1>3, <1>5, <2>1, <2>2, RunProcessPassage DEF p
  <2> QED BY <1>2, <2>3
<1> QED BY <1>4, <1>5

LEMMA GoesOnPassage ==
    ASSUME TypeOK, PassageInv, LowLayerGoesOn
    PROVE  StepPassage
<1> SUFFICES ASSUME Unforced
             PROVE  /\ ~up'.bypass /\ PhaseInv(up', layer')
                    /\ layer'.state = Goal(layer) /\ up'.phase = up.phase
  BY DEF StepPassage
<1>1. layer \in Layer /\ layer' \in Outcomes(layer) /\ layer'.armed /\ up' = up
  BY DEF LowLayerGoesOn, TypeOK
<1>2. /\ layer'.state = Goal(layer) /\ Goal(layer') = Goal(layer) /\ layer'.enable = {}
      /\ layer'.dirty \subseteq layer.dirty \cup layer.enable
  BY <1>1, OutcomeType
<1>3. ~LayerBusy(layer) => ~LayerBusy(layer')
  BY <1>2 DEF LayerBusy, Busy
<1>4. \A g, st, target : GoesRight(g, st, st, target)
  BY DEF GoesRight
<1> QED BY <1>1, <1>2, <1>3, <1>4 DEF PassageInv, PhaseInv

LEMMA LowIdlePassage ==
    ASSUME TypeOK, PassageInv, NEW f \in Found,
           OnLowLayerIdle(f, SequencerProcess(f.up, f.low))
    PROVE  StepPassage
<1> SUFFICES ASSUME Unforced
             PROVE  /\ ~up'.bypass /\ PhaseInv(up', layer')
                    /\ layer'.state = Goal(layer)
                    /\ up.phase = "end" /\ up'.phase = "idle" => layer'.state = up.target
  BY DEF StepPassage
<1> DEFINE p == SequencerProcess(f.up, f.low)
           u == [up EXCEPT !.bypass = FALSE]
<1>1. up \in UpType /\ layer \in Layer /\ ~up.bypass /\ PhaseInv(up, layer)
  BY DEF TypeOK, UpType, PassageInv
<1>2. PICK l \in Outcomes(layer) : ~l.armed /\ f.up = u /\ f.low = l
  <2>1. PICK l \in Outcomes(layer) :
           ~l.armed /\ f = [up |-> u, low |-> l, wanted |-> wanted,
                            idles |-> IF up.bypass THEN Emit(idles, 1) ELSE idles]
    BY <1>1, FoundCases
  <2> HIDE DEF u
  <2> QED BY <2>1
<1>3. l \in Layer /\ ~LayerBusy(l) /\ l.state = Goal(layer)
  BY <1>1, <1>2, OutcomeType
<1>4. /\ u \in UpType /\ ~u.bypass /\ u.started = up.started /\ u.phase = up.phase
      /\ u.dirty = up.dirty /\ u.target = up.target /\ u.enable2 = up.enable2
  BY <1>1 DEF UpType
<1> HIDE DEF u
<1>5. FoundPhase(u, l)
  BY <1>1, <1>3, <1>4 DEF PhaseInv, FoundPhase
<1>6. CASE UpBusy(f.up)
  <2>1. RunProcess(p, f.idles)
    BY <1>6 DEF OnLowLayerIdle
  <2>2. p = SequencerProcess(u, l)
    BY <1>2
  <2> HIDE DEF p
  <2>3. /\ ~up'.bypass /\ PhaseInv(up', layer') /\ layer'.state = l.state
        /\ u.phase = "end" => layer'.state = u.target
    BY <1>3, <1>4, <1>5, <2>1, <2>2, RunProcessPassage
  <2> QED BY <1>3, <1>4, <2>3
<1>7. CASE ~UpBusy(f.up)
  <2>1. up' = u /\ layer' = l
    BY <1>2, <1>7 DEF OnLowLayerIdle
  <2>2. u.phase = "idle"
    BY <1>1, <1>2, <1>4, <1>7 DEF UpBusy, PhaseInv
  <2>3. PhaseInv(up', layer')
    BY <1>3, <1>5, <2>1, <2>2 DEF PhaseInv, FoundPhase
  <2> QED BY <1>3, <1>4, <2>1, <2>2, <2>3
<1> QED BY <1>6, <1>7

LEMMA ReconnectPassage ==
    ASSUME TypeOK, PassageInv, Reconnect
    PROVE  StepPassage
<1> SUFFICES ASSUME Unforced
             PROVE  /\ ~up'.bypass /\ PhaseInv(up', layer') /\ ~layer.armed
                    /\ up.phase = "idle"
  BY DEF StepPassage
<1>1. up' = SequencerCleared(up) /\ layer' \in {layer, InitLayer} /\ ~layer.armed
  BY DEF Reconnect, SetLowLayer, Quiet
<1>2. up \in UpType /\ ~up.bypass /\ up.phase = "idle" /\ ~LayerBusy(layer)
  BY <1>1 DEF TypeOK, UpType, PassageInv, PhaseInv
<1>3. up'.bypass = up.bypass /\ up'.phase = up.phase /\ up'.dirty = {}
  BY <1>1, <1>2 DEF SequencerCleared, ClearedMasks, UpType
<1>4. ~LayerBusy(layer')
  BY <1>1, <1>2, InitLayerType
<1> QED BY <1>1, <1>2, <1>3, <1>4 DEF PhaseInv

LEMMA PassageStep ==
    ASSUME TypeOK, PassageInv, [SequencerNext]_upperVars
    PROVE  PassageInv' /\ StepPassage
<1>1. ASSUME StepPassage, UNCHANGED <<use, groups>>
      PROVE  PassageInv' /\ StepPassage
  BY <1>1 DEF PassageInv, StepPassage, PhaseInv, Unforced
<1>2. CASE UpperRequests
  <2>1. PICK E \in SUBSET Relay, S \in SUBSET Relay, force \in use.forces :
           S \in SUBSET E /\ UpperStartSetMulti(E, S, force)
    BY <1>2, AskedRelays DEF TypeOK
  <2>2. StepPassage
    BY <2>1, RequestPassage
  <2> QED BY <1>1, <2>1, <2>2 DEF UpperStartSetMulti
<1>3. CASE DirectRequests
  <2>1. ~Unforced /\ UNCHANGED <<use, groups>>
    BY <1>3 DEF DirectRequests, DirectRequest, Unforced
  <2>2. StepPassage
    BY <2>1 DEF StepPassage
  <2> QED BY <1>1, <2>1, <2>2
<1>4. CASE IdleTimerFires
  BY <1>1, <1>4, TimerPassage DEF IdleTimerFires, OnIdleTimer
<1>5. CASE LowLayerGoesOn
  BY <1>1, <1>5, GoesOnPassage DEF LowLayerGoesOn
<1>6. CASE LowLayerIdles
  <2>1. PICK f \in Found : OnLowLayerIdle(f, SequencerProcess(f.up, f.low))
    BY <1>6 DEF LowLayerIdles
  <2>2. StepPassage
    BY <2>1, LowIdlePassage
  <2> QED BY <1>1, <2>1, <2>2 DEF OnLowLayerIdle
<1>7. CASE Reconnect
  BY <1>1, <1>7, ReconnectPassage DEF Reconnect, SetLowLayer
<1>8. CASE GroupAdded
  <2>1. UNCHANGED <<layer, use, up>> /\ ~layer.armed
    BY <1>8 DEF GroupAdded, AddGroup, Quiet
  <2>2. Unforced => up.phase = "idle"
    BY <2>1 DEF PassageInv, PhaseInv
  <2>3. PassageInv'
    BY <2>1, <2>2 DEF PassageInv, PhaseInv, Unforced
  <2>4. StepPassage
    BY <2>1, <2>2 DEF StepPassage, PassageInv
  <2> QED BY <2>3, <2>4
<1>9. CASE UNCHANGED upperVars
  <2>1. UNCHANGED <<layer, use, up, groups>>
    BY <1>9 DEF upperVars
  <2>2. StepPassage
    BY <2>1 DEF StepPassage, PassageInv
  <2> QED BY <1>1, <2>1, <2>2
<1> QED BY <1>2, <1>3, <1>4, <1>5, <1>6, <1>7, <1>8, <1>9 DEF SequencerNext, LowLayerStep

LEMMA PassageInvariant == SequencerSpec => [](TypeOK /\ PassageInv)
<1>1. TypeOK /\ PassageInv /\ [SequencerNext]_upperVars => PassageInv'
  BY PassageStep
<1> QED BY <1>1, InitPassage, SequencerTypeCorrect, PTL DEF SequencerSpec

(* Whatever is requested meanwhile, the relays of a group never pass        *)
(* through a forbidden combination.                                         *)
THEOREM NoForbiddenPassage == SequencerSpec => NoForbiddenCombination
<1>1. TypeOK /\ PassageInv /\ [SequencerNext]_upperVars =>
        [Unforced /\ layer.armed =>
            \A g \in groups : BreaksBeforeMaking(g) /\ MakesBeforeBreaking(g)]_upperVars
  <2> SUFFICES ASSUME TypeOK, PassageInv, [SequencerNext]_upperVars,
                      Unforced, layer.armed, NEW g \in groups
               PROVE  BreaksBeforeMaking(g) /\ MakesBeforeBreaking(g)
    OBVIOUS
  <2>1. layer'.state \in {layer.state, Goal(layer)}
    BY PassageStep DEF StepPassage
  <2>2. CASE layer'.state = layer.state
    BY <2>2 DEF BreaksBeforeMaking, MakesBeforeBreaking, GoesOn, GoesOff
  <2>3. CASE layer'.state = Goal(layer) /\ ~LayerBusy(layer)
    <3>1. \A r : r \in Goal(layer) <=> r \in layer.state
      BY <2>3 DEF LayerBusy, Busy, Goal, Target
    <3> QED BY <2>3, <3>1 DEF BreaksBeforeMaking, MakesBeforeBreaking, GoesOn, GoesOff
  <2>4. CASE layer'.state = Goal(layer) /\ LayerBusy(layer)
    <3>1. GoesRight(g, layer.state, Goal(layer), up.target)
      BY <2>4 DEF PassageInv, PhaseInv, TypeOK
    <3> QED BY <2>4, <3>1 DEF GoesRight, BreaksBeforeMaking, MakesBeforeBreaking, GoesOn, GoesOff
  <2> QED BY <2>1, <2>2, <2>3, <2>4
<1> QED BY <1>1, PassageInvariant, PTL DEF SequencerSpec, NoForbiddenCombination

(* The two transactions leave every relay where the request wanted it,      *)
(* whatever earlier transactions left in enableMask2.                       *)
THEOREM TwoTransactionsDo == SequencerSpec => TargetReached
<1>1. TypeOK /\ PassageInv /\ [SequencerNext]_upperVars =>
        [Unforced /\ up.phase = "end" /\ up'.phase = "idle" =>
            layer'.state = up.target]_upperVars
  BY PassageStep DEF StepPassage
<1> QED BY <1>1, PassageInvariant, PTL DEF SequencerSpec, TargetReached
-----------------------------------------------------------------------------
(* process() with nothing to do in the lower layer: either it is done and   *)
(* emits the one idle(), or a transaction is under way.                     *)
LEMMA RunProcessOnce ==
    ASSUME TypeOK, NEW u \in UpType, NEW l \in Layer, ~l.armed, ~LayerBusy(l),
           ~u.timer, ~u.bypass, u.enable = {} \/ (u.phase = "idle" /\ u.dirty = {}),
           NEW p, p = SequencerProcess(u, l), RunProcess(p, 0)
    PROVE  \/ idles' = 1 /\ AtRest(up', layer')
           \/ idles' = 0 /\ Switching(up', layer')
<1>1. /\ p.up \in UpType /\ p.low \in Layer /\ p.started \in BOOLEAN
      /\ p.up.timer = u.timer /\ p.up.bypass = u.bypass
      /\ p.started => p.low.armed /\ p.up.phase # "idle"
      /\ ~p.started => p.low = l /\ p.up.phase = "idle" /\ p.up.dirty = {}
      /\ p.up.enable = {}
  BY GroupsType, ProcessStep
<1>2. /\ up' = [p.up EXCEPT !.started = p.started] /\ layer' = p.low
      /\ idles' = IF p.started THEN 0 ELSE Emit(0, 1)
  BY DEF RunProcess
<1>3. /\ up'.timer = p.up.timer /\ up'.bypass = p.up.bypass /\ up'.started = p.started
      /\ up'.enable = p.up.enable /\ up'.dirty = p.up.dirty /\ up'.phase = p.up.phase
  BY <1>1, <1>2 DEF UpType
<1>4. CASE p.started
  BY <1>1, <1>2, <1>3, <1>4 DEF Switching
<1>5. CASE ~p.started
  <2>1. idles' = 1
    BY <1>2, <1>5, EmitType
  <2> QED BY <1>1, <1>2, <1>3, <1>5, <2>1 DEF AtRest
<1> QED BY <1>4, <1>5

LEMMA InitOneIdle == SequencerInit => OneIdleInv
BY InitLayerType DEF SequencerInit, OneIdleInv, Disciplined, AtRest, InitLayer

LEMMA RequestOneIdle ==
    ASSUME TypeOK, OneIdleInv, NEW E \in SUBSET Relay, NEW S \in SUBSET E,
           NEW force \in BOOLEAN, UpperStartSetMulti(E, S, force)
    PROVE  OneIdleInv'
<1> SUFFICES ASSUME Disciplined
             PROVE  idles' = 0 /\ (Forcing(up', layer') \/ Waiting(up', layer'))
  BY DEF OneIdleInv, Disciplined, UpperStartSetMulti
<1> DEFINE s == SetMulti(up, layer, E, S, force)
<1>1. up \in UpType /\ layer \in Layer /\ AtRest(up, layer)
  BY DEF TypeOK, UpType, OneIdleInv, Disciplined, UpperStartSetMulti, MayRequest
<1>2. up' = s.up /\ layer' = s.low /\ idles' = 0
  BY DEF UpperStartSetMulti
<1>3. CASE force
  <2>1. s.up = [up EXCEPT !.bypass = TRUE] /\ s.low = Requested(layer, E, S, TRUE)
    BY <1>3 DEF SetMulti, Bypassed
  <2>2. Requested(layer, E, S, TRUE).armed
    <3>1. TRUE \in BOOLEAN
      OBVIOUS
    <3> QED BY <1>1, <3>1, RequestedType
  <2> HIDE DEF s
  <2>3. /\ s.up.timer = up.timer /\ s.up.bypass /\ s.up.started = up.started
        /\ s.up.enable = up.enable /\ s.up.dirty = up.dirty /\ s.up.phase = up.phase
    BY <1>1, <2>1 DEF UpType
  <2> QED BY <1>1, <1>2, <2>1, <2>2, <2>3 DEF Forcing, AtRest
<1>4. CASE ~force
  <2>1. s.up = Collected(up, layer, E, S) /\ s.low = layer
    BY <1>4 DEF SetMulti
  <2> HIDE DEF s
  <2>2. /\ s.up.timer /\ s.up.bypass = up.bypass /\ s.up.started = up.started
        /\ s.up.dirty = up.dirty /\ s.up.phase = up.phase
    BY <1>1, <2>1, CollectedStep
  <2> QED BY <1>1, <1>2, <2>1, <2>2 DEF Waiting, AtRest
<1> QED BY <1>3, <1>4

LEMMA TimerOneIdle ==
    ASSUME TypeOK, OneIdleInv, IdleTimerFires
    PROVE  OneIdleInv'
<1> SUFFICES ASSUME Disciplined
             PROVE  \/ idles' = 1 /\ AtRest(up', layer')
                    \/ idles' = 0 /\ Switching(up', layer')
  BY DEF OneIdleInv, Disciplined, IdleTimerFires, OnIdleTimer
<1> DEFINE p == SequencerProcess(TimerFired, layer)
<1>1. up \in UpType /\ layer \in Layer
  BY DEF TypeOK, UpType
<1>2. idles = 0 /\ Waiting(up, layer)
  BY DEF OneIdleInv, IdleTimerFires, OnIdleTimer, AtRest, Forcing, Switching
<1>3. /\ TimerFired \in UpType /\ ~TimerFired.timer /\ TimerFired.bypass = up.bypass
      /\ TimerFired.dirty = up.dirty /\ TimerFired.phase = up.phase
  BY <1>1 DEF TimerFired, UpType
<1>4. RunProcess(p, 0)
  BY <1>2 DEF IdleTimerFires, OnIdleTimer, Waiting
<1> HIDE DEF p
<1> QED BY <1>1, <1>2, <1>3, <1>4, RunProcessOnce DEF Waiting, p

LEMMA GoesOnOneIdle ==
    ASSUME TypeOK, OneIdleInv, LowLayerGoesOn
    PROVE  OneIdleInv'
BY DEF OneIdleInv, Disciplined, LowLayerGoesOn, AtRest, Waiting, Forcing, Switching

LEMMA LowIdleOneIdle ==
    ASSUME TypeOK, OneIdleInv, NEW f \in Found,
           OnLowLayerIdle(f, SequencerProcess(f.up, f.low))
    PROVE  OneIdleInv'
<1> SUFFICES ASSUME Disciplined
             PROVE  \/ idles' = 1 /\ AtRest(up', layer')
                    \/ idles' = 0 /\ Switching(up', layer')
  BY DEF OneIdleInv, Disciplined, OnLowLayerIdle
<1> DEFINE p == SequencerProcess(f.up, f.low)
           u == [up EXCEPT !.bypass = FALSE]
<1>1. up \in UpType /\ layer \in Layer
  BY DEF TypeOK, UpType
<1>2. PICK l \in Outcomes(layer) :
         /\ layer.armed /\ ~l.armed
         /\ f = [up |-> u, low |-> l, wanted |-> wanted,
                 idles |-> IF up.bypass THEN Emit(idles, 1) ELSE idles]
  BY FoundCases DEF Disciplined
<1>3. l \in Layer /\ ~LayerBusy(l)
  BY <1>1, <1>2, OutcomeType
<1>4. /\ u \in UpType /\ ~u.bypass /\ u.timer = up.timer /\ u.started = up.started
      /\ u.enable = up.enable /\ u.dirty = up.dirty /\ u.phase = up.phase
  BY <1>1 DEF UpType
<1>5. /\ f.up = u /\ f.low = l
      /\ f.idles = IF up.bypass THEN Emit(idles, 1) ELSE idles
  BY <1>2
<1> HIDE DEF u
<1>6. idles = 0 /\ (Forcing(up, layer) \/ Switching(up, layer))
  BY <1>2 DEF OneIdleInv, AtRest, Waiting
<1>7. CASE Forcing(up, layer)
  <2>1. ~UpBusy(f.up)
    BY <1>4, <1>5, <1>7 DEF Forcing, UpBusy, Busy
  <2>2. up' = u /\ layer' = l /\ idles' = Emit(0, 1)
    BY <1>5, <1>6, <1>7, <2>1 DEF OnLowLayerIdle, Forcing
  <2>3. idles' = 1
    BY <2>2, EmitType
  <2> QED BY <1>2, <1>3, <1>4, <1>7, <2>2, <2>3 DEF AtRest, Forcing
<1>8. CASE Switching(up, layer)
  <2>1. UpBusy(f.up)
    BY <1>4, <1>5, <1>8 DEF Switching, UpBusy
  <2>2. RunProcess(p, 0)
    BY <1>5, <1>6, <1>8, <2>1 DEF OnLowLayerIdle, Switching
  <2>3. p = SequencerProcess(u, l)
    BY <1>5
  <2>4. u.enable = {} /\ ~u.timer
    BY <1>4, <1>8 DEF Switching
  <2>5. u \in UpType /\ ~u.bypass
    BY <1>4
  <2>6. l \in Layer /\ ~l.armed /\ ~LayerBusy(l)
    BY <1>2, <1>3
  <2> HIDE DEF p
  <2> QED BY <2>2, <2>3, <2>4, <2>5, <2>6, RunProcessOnce
<1> QED BY <1>6, <1>7, <1>8

LEMMA ReconnectOneIdle ==
    ASSUME TypeOK, OneIdleInv, Reconnect
    PROVE  OneIdleInv'
<1> SUFFICES ASSUME Disciplined PROVE idles' = 1 /\ AtRest(up', layer')
  BY DEF OneIdleInv, Disciplined, Reconnect, SetLowLayer
<1>1. up \in UpType /\ idles = 1 /\ AtRest(up, layer)
  BY DEF TypeOK, UpType, OneIdleInv, Reconnect, SetLowLayer, Quiet
<1>2. up' = SequencerCleared(up) /\ layer' \in {layer, InitLayer} /\ idles' = idles
  BY DEF Reconnect, SetLowLayer
<1>3. ~layer'.armed /\ ~LayerBusy(layer')
  BY <1>1, <1>2 DEF InitLayer, AtRest, LayerBusy, Busy
<1>4. /\ up'.timer = up.timer /\ up'.bypass = up.bypass /\ up'.started = up.started
      /\ up'.phase = up.phase /\ up'.enable = {} /\ up'.dirty = {}
  BY <1>1, <1>2 DEF UpType, ClearedMasks, SequencerCleared
<1> QED BY <1>1, <1>2, <1>3, <1>4 DEF AtRest

LEMMA OneIdleStep ==
    TypeOK /\ OneIdleInv /\ [SequencerNext]_upperVars => OneIdleInv'
<1> SUFFICES ASSUME TypeOK, OneIdleInv, [SequencerNext]_upperVars PROVE OneIdleInv'
  OBVIOUS
<1>1. CASE UpperRequests
  <2>1. use.forces \subseteq BOOLEAN
    BY UsesAssumption DEF TypeOK
  <2> QED BY <1>1, <2>1, RequestOneIdle, AskedRelays DEF TypeOK
<1>2. CASE DirectRequests
  BY <1>2 DEF DirectRequests, DirectRequest, OneIdleInv, Disciplined
<1>3. CASE IdleTimerFires
  BY <1>3, TimerOneIdle
<1>4. CASE LowLayerGoesOn
  BY <1>4, GoesOnOneIdle
<1>5. CASE LowLayerIdles
  BY <1>5, LowIdleOneIdle DEF LowLayerIdles
<1>6. CASE Reconnect
  BY <1>6, ReconnectOneIdle
<1>7. CASE GroupAdded
  BY <1>7 DEF GroupAdded, AddGroup, OneIdleInv, Disciplined
<1>8. CASE UNCHANGED upperVars
  BY <1>8 DEF upperVars, OneIdleInv, Disciplined
<1> QED BY <1>1, <1>2, <1>3, <1>4, <1>5, <1>6, <1>7, <1>8 DEF SequencerNext, LowLayerStep

(* A client that takes one idle() at a time never gets a second one for a   *)
(* request, forced or switched in two transactions.                         *)
THEOREM OneIdleEach == SequencerSpec => []OneIdlePerRequest
<1>1. OneIdleInv => OneIdlePerRequest
  BY DEF OneIdleInv, OneIdlePerRequest
<1>2. TypeOK /\ OneIdleInv /\ [SequencerNext]_upperVars => OneIdleInv'
  BY OneIdleStep
<1> QED BY <1>1, <1>2, InitOneIdle, SequencerTypeCorrect, PTL DEF SequencerSpec
=============================================================================
