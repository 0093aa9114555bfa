---------------------------- MODULE RelayMapper ----------------------------
(***************************************************************************)
(* QRelayMapper (src/relaymapper/relay-mapper.cpp), the lowest layer of    *)
(* the relay stack.  It turns requests on logical relays into levels of    *)
(* output pins: a monostable relay holds its ON pin, a bistable relay gets *)
(* a pulse of ui8OnTime slices on the pin of the wanted direction.         *)
(*                                                                         *)
(* The mapper, the low layer that drives the pins and the client share one *)
(* Qt event loop; each action below is one event handler run to its end.   *)
(* Pins are disjoint between relays, as in the set-up tables of the code.  *)
(***************************************************************************)
EXTENDS RelayBase

CONSTANTS Relay,        \* logical relays
          Bistable,     \* RELAY_BISTABLE set: two coils
          NegOn,        \* RELAY_PHYS_NEG_ON: the ON pin is active low
          NegOff,       \* RELAY_PHYS_NEG_OFF: the OFF pin is active low
          OnTime,       \* ui8OnTime, pulse length in slices
          MaxTime,      \* the largest value of a quint8: 255 in the code
          Blocking,     \* the values CallbackStartLowLayerSwitch may return,
                        \* negated: TRUE = the switch is done on return
          Clients,      \* the kinds of client, see MayRequest
          Uses          \* the relays a client of each kind switches

ASSUME RelaysAssumption ==
    Bistable \subseteq Relay /\ NegOn \subseteq Relay /\ NegOff \subseteq Relay

(* ui8OnTime is a quint8.  A bistable relay needs a pulse: with 0 its coil  *)
(* would be set and released in one and the same output (see README).       *)
ASSUME OnTimeAssumption ==
    /\ MaxTime \in Nat \ {0}
    /\ OnTime \in [Relay -> 0..MaxTime]
    /\ \A r \in Bistable : OnTime[r] > 0

ASSUME ModeAssumption ==
    /\ Blocking \subseteq BOOLEAN
    /\ Clients \subseteq {"any", "settled", "waiting"}
    /\ Uses \in [Clients -> SUBSET Relay]

VARIABLES
    client,      \* the kind of client
    state,       \* logicalSetMaskCurrent
    enableNext,  \* logicalEnableMaskNext
    setNext,     \* logicalSetMaskNext
    dirty,       \* logicalDirtyMask: the pulse of these relays is running
    counter,     \* arrPinDelayCounter, a quint8 each
    slice,       \* sliceTimer: "stopped", "immediate" (interval 0), "periodic"
    low,         \* the low layer's output in flight, or NoOutput
    level,       \* pins at high level
    contact,     \* relays whose contact is closed (the hardware)
    owed,        \* a request was made since the last idle()
    held,        \* slices since the running pulse of a relay began
    wanted,      \* the value of the last request for a relay
    driven       \* relays the mapper has switched since start-up

mapperVars == <<state, enableNext, setNext, dirty, counter, slice>>
lowVars    == <<low, level, contact>>
history    == <<owed, held, wanted, driven>>
vars       == <<client, mapperVars, lowVars, history>>

Pin      == Relay \X {"on", "off"}
NoOutput == [enable |-> {}, set |-> {}]
(* The pin level that energises the coil behind a pin.                      *)
ActiveHigh(p) == IF p[2] = "on" THEN p[1] \notin NegOn ELSE p[1] \notin NegOff

(* The pin that moves relay r to on: monostable relays use the ON pin only. *)
PinFor(r, on) == IF on \/ r \notin Bistable THEN <<r, "on">> ELSE <<r, "off">>

(* Coils energised by the pin levels lv.                                    *)
Coils(lv) == {p \in Pin : (p \in lv) = ActiveHigh(p)}

TypeOK ==
    /\ client \in Clients
    /\ state \subseteq Relay /\ enableNext \subseteq Relay
    /\ setNext \subseteq Relay /\ dirty \subseteq Relay
    /\ counter \in [Relay -> 0..MaxTime]
    /\ slice \in {"stopped", "immediate", "periodic"}
    /\ low \in [enable : SUBSET Pin, set : SUBSET Pin]
    /\ level \subseteq Pin /\ contact \subseteq Relay
    /\ owed \in BOOLEAN /\ held \in [Relay -> 0..MaxTime]
    /\ wanted \subseteq Relay /\ driven \subseteq Relay

(* After setup: all masks cleared, every coil off; a bistable relay still   *)
(* has the position it had when the power went off.                         *)
Init ==
    /\ client \in Clients
    /\ state = {} /\ enableNext = {} /\ setNext = {} /\ dirty = {}
    /\ counter = [r \in Relay |-> 0]
    /\ slice = "stopped"
    /\ low = NoOutput
    /\ level = {p \in Pin : ~ActiveHigh(p)}
    /\ contact \in SUBSET Bistable
    /\ owed = FALSE /\ held = [r \in Relay |-> 0]
    /\ wanted = {} /\ driven = {}

IsBusy == Busy(enableNext, dirty)
-----------------------------------------------------------------------------
(* The disciplines of a client: "any" requests at any time, "settled" only  *)
(* for relays with nothing pending, "waiting" after the idle() it is owed.  *)
MayRequest(E) ==
    /\ E \subseteq Uses[client]
    /\ \/ client = "any"
       \/ client = "settled" /\ E \cap (enableNext \cup dirty) = {}
       \/ client = "waiting" /\ ~owed

(* startSetMulti; startSet is the call with one enabled relay, or with none *)
(* when the number is out of range.                                         *)
StartSetMulti(E, S, force) ==
    /\ MayRequest(E)
    /\ LET changed == Changing(state, E, S, force)
       IN  /\ enableNext' = enableNext \cup changed
           /\ setNext' = SetNext(setNext, changed, S)
    /\ slice' = IF slice = "stopped" THEN "immediate" ELSE slice
    /\ owed' = TRUE
    /\ wanted' = Target(wanted, E, S)
    /\ UNCHANGED <<client, state, dirty, counter, lowVars, held, driven>>

(* FAULT: only the running pulses count as work.                            *)
OnLowLayerIdlePulsesOnly(enable, running, sliceNow) ==
    IF running # {}
    THEN slice' = sliceNow /\ UNCHANGED owed
    ELSE slice' = "stopped" /\ owed' = FALSE
(* FAULT: only the relays not yet taken count as work.                      *)
OnLowLayerIdleRequestsOnly(enable, running, sliceNow) ==
    IF enable # {}
    THEN slice' = sliceNow /\ UNCHANGED owed
    ELSE slice' = "stopped" /\ owed' = FALSE

(* FAULT: the slice timer stays single-shot.                                *)
OnLowLayerIdleSingleShot(enable, running, sliceNow) ==
    /\ slice' = "stopped"
    /\ IF Busy(enable, running) THEN UNCHANGED owed ELSE owed' = FALSE

(* onLowLayerIdle, given the relays still not started or in progress: the   *)
(* timer stops and idle() is emitted once nothing is left to do.            *)
OnLowLayerIdle(enable, running, sliceNow) ==
    IF Busy(enable, running)
    THEN slice' = sliceNow /\ UNCHANGED owed
    ELSE slice' = "stopped" /\ owed' = FALSE

(* The low layer's pins and the contacts follow an output o.  A relay with  *)
(* both coils energised, or none, keeps its contact if it is bistable.      *)
Output(o) ==
    LET lv    == (level \ o.enable) \cup o.set
        on(r)  == <<r, "on">> \in Coils(lv)
        off(r) == r \in Bistable /\ <<r, "off">> \in Coils(lv)
    IN  /\ level' = lv
        /\ contact' = {r \in Relay : IF r \in Bistable /\ on(r) = off(r)
                                     THEN r \in contact ELSE on(r)}
-----------------------------------------------------------------------------
(* onSliceTimer.  Step 1 of the loop takes the requested relays, step 2     *)
(* counts every running pulse down and ends those that reach 0; a relay     *)
(* taken in this very slice is counted too.  Both are 8-bit operations.     *)
(* FAULT: bits of the state are only ever set.                              *)
TakenStateNeverOff == state \cup (setNext \cap enableNext)
TakenState    == Target(state, enableNext, setNext)
Running       == dirty \cup enableNext
(* FAULT: the pulse is armed without the slice that takes it.               *)
NotIncremented(c) == c
Incremented(c) == IF c = MaxTime THEN 0 ELSE c + 1
(* FAULT: a counter wider than a quint8 on its way below zero.              *)
DecrementedSigned(c) == c - 1
Decremented(c) == IF c = 0 THEN MaxTime ELSE c - 1
NextCounter(r) ==
    Decremented(IF r \in enableNext THEN Incremented(OnTime[r]) ELSE counter[r])
(* FAULT: a pulse ends one slice early.                                     *)
ExpiredEarly  == {r \in Running : NextCounter(r) <= 1}
Expired       == {r \in Running : NextCounter(r) = 0}

(* The masks for the low layer: coils switched for the relays taken, and    *)
(* the current direction's coil released for the bistable relays expired    *)
(* (which wins when both happen to one pin).                                *)
Switched  == {PinFor(r, r \in TakenState) : r \in enableNext}
(* FAULT: the ON coil is released whatever the direction.                   *)
ReleasedOnCoil == {PinFor(r, TRUE) : r \in Expired \cap Bistable}
Released  == {PinFor(r, r \in TakenState) : r \in Expired \cap Bistable}
Energised == {p \in Switched : p[1] \in TakenState \cup Bistable} \ Released
(* FAULT: the polarity of the pins is ignored.                              *)
PhysicalMasksPositive == [enable |-> Switched \cup Released, set |-> Energised]
PhysicalMasks ==
    [enable |-> Switched \cup Released,
     set |-> {p \in Switched \cup Released : ActiveHigh(p) = (p \in Energised)}]

OnSliceTimer ==
    /\ slice # "stopped"
    /\ low = NoOutput                        \* CallbackQueryLowLayerBusy
    /\ state' = TakenState
    /\ enableNext' = {}
    /\ dirty' = Running \ Expired
    /\ counter' = [r \in Relay |-> IF r \in Running THEN NextCounter(r)
                                                    ELSE counter[r]]
    /\ held' = [r \in Relay |-> IF r \in enableNext THEN 0
                                ELSE IF r \in dirty THEN held[r] + 1 ELSE held[r]]
    /\ driven' = driven \cup enableNext
    /\ UNCHANGED <<client, setNext, wanted>>
    /\ \/ /\ PhysicalMasks = NoOutput        \* nothing to do for the low layer
          /\ UNCHANGED lowVars
          /\ OnLowLayerIdle({}, dirty', "periodic")
       \/ /\ PhysicalMasks # NoOutput        \* done when the call returns
          /\ TRUE \in Blocking
          /\ Output(PhysicalMasks) /\ UNCHANGED low
          /\ OnLowLayerIdle({}, dirty', "periodic")
       \/ /\ PhysicalMasks # NoOutput        \* the low layer reports later
          /\ FALSE \in Blocking
          /\ low' = PhysicalMasks
          /\ slice' = "periodic"
          /\ UNCHANGED <<level, contact, owed>>

(* A non-blocking low layer has set the pins and signals idle.              *)
LowLayerFinishes ==
    /\ low # NoOutput
    /\ low' = NoOutput
    /\ Output(low)
    /\ OnLowLayerIdle(enableNext, dirty, slice)
    /\ UNCHANGED <<client, state, enableNext, setNext, dirty, counter, held, wanted,
                   driven>>

ClientRequests ==
    \E E \in SUBSET Relay : \E S \in SUBSET E : \E force \in BOOLEAN :
        StartSetMulti(E, S, force)

Next ==
    \/ ClientRequests
    \/ OnSliceTimer
    \/ LowLayerFinishes

(* Qt delivers the timeouts of an active timer, and a low layer that was    *)
(* started signals its end; nothing obliges the client to make requests.    *)
Fairness == WF_vars(OnSliceTimer) /\ WF_vars(LowLayerFinishes)

Spec == Init /\ [][Next]_vars /\ Fairness
-----------------------------------------------------------------------------
(* The timer runs whenever there is something left to do: a relay to switch *)
(* or to release, an output in flight, an idle() the client waits for.  A   *)
(* stopped timer with work left would strand it for ever.                   *)
NothingStranded ==
    slice = "stopped" => ~IsBusy /\ low = NoOutput /\ ~owed

(* A running pulse has lasted held slices and has counter more to go: it    *)
(* ends exactly ui8OnTime slices after the one that began it, also for the  *)
(* longest ui8OnTime, where the 8-bit counter wraps to 0 and back.          *)
PulseTiming ==
    \A r \in dirty : counter[r] + held[r] = OnTime[r] /\ counter[r] > 0

(* Once the low layer is done, a bistable relay whose pulse is over has the *)
(* coil of its present direction released: no coil is left on by the timing.*)
CurrentCoilReleased ==
    low = NoOutput =>
        \A r \in Bistable \ dirty : PinFor(r, r \in state) \notin Coils(level)

(* With nothing left to do every coil of every bistable relay is off.       *)
AllCoilsReleased ==
    slice = "stopped" => \A p \in Coils(level) : p[1] \notin Bistable

(* A client that does not reverse a relay before it has settled has all     *)
(* coils off in the end, and never both coils of a relay energised.         *)
SettledCoils ==
    client = "settled" =>
        /\ AllCoilsReleased
        /\ \A r \in Bistable : ~({<<r, "on">>, <<r, "off">>} \subseteq Coils(level))

(* To such a client idle() is a promise about the hardware: the logical     *)
(* state is what it asked for last, and the contacts of all relays ever     *)
(* switched are where the logical state says.                               *)
RelaysAsAsked ==
    client = "settled" /\ slice = "stopped" =>
        state = wanted /\ \A r \in driven : (r \in contact) = (r \in state)

(* idle() is emitted only when all jobs are done: nothing requested, no     *)
(* pulse running and no output in flight.                                   *)
IdleMeansDone ==
    [][owed /\ ~owed' => ~IsBusy' /\ low' = NoOutput]_vars

(* A slice never cuts a pulse short or restarts it: while no new request    *)
(* for it is taken, a relay keeps its state and its pulse goes on to its    *)
(* last slice.                                                              *)
PulseUninterrupted ==
    [][\A r \in dirty \ enableNext :
          /\ (r \in state') = (r \in state)
          /\ r \notin dirty' => held[r] + 1 = OnTime[r]]_vars

(* A client that stops making requests gets the idle() it is owed.          *)
IdleComes == <>[][~ClientRequests]_vars => (owed ~> ~owed)

(* The mapper implements the contract of a relay layer: seen through its    *)
(* logical masks, with armed for "the slice timer runs", each step is a     *)
(* step of RelayLayer or leaves the layer alone.                            *)
MappedLayer ==
    [state |-> state, enable |-> enableNext, set |-> setNext, dirty |-> dirty,
     armed |-> slice # "stopped"]
Contract == INSTANCE RelayLayer WITH layer <- MappedLayer
ImplementsContract == Contract!Spec
=============================================================================
