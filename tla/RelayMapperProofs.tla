------------------------- MODULE RelayMapperProofs -------------------------
(***************************************************************************)
(* Theorems about RelayMapper, for every set of relays, every assignment   *)
(* of pulse lengths and polarities, every kind of client and every mix of  *)
(* blocking and non-blocking outputs.                                      *)
(***************************************************************************)
EXTENDS RelayMapper, TLAPS

(* A pulse armed with ui8OnTime + 1 and counted down once is ui8OnTime      *)
(* slices long, also where the sum wraps to 0.                              *)
LEMMA ArmedCounter ==
    ASSUME NEW t \in 0..MaxTime
    PROVE  Decremented(Incremented(t)) = t
BY OnTimeAssumption, SMT DEF Incremented, Decremented

(* One slice of a running pulse: what is left and what has passed still add *)
(* up to the pulse length, and neither leaves the width of the counter.     *)
LEMMA OneSlice ==
    ASSUME NEW c \in 0..MaxTime, NEW h \in 0..MaxTime, NEW t \in 0..MaxTime, c + h = t, c > 0
    PROVE  /\ Decremented(c) = c - 1 /\ Decremented(c) \in 0..MaxTime
           /\ h + 1 \in 0..MaxTime /\ Decremented(c) + (h + 1) = t
BY OnTimeAssumption DEF Decremented

(* The counters never leave their width.                                    *)
LEMMA CounterRange ==
    ASSUME TypeOK, NEW r \in Relay
    PROVE  NextCounter(r) \in 0..MaxTime
<1>1. CASE r \in enableNext
  <2>1. OnTime[r] \in 0..MaxTime BY OnTimeAssumption
  <2> QED BY <1>1, <2>1, ArmedCounter DEF NextCounter
<1>2. CASE r \notin enableNext
  <2>1. counter[r] \in 0..MaxTime BY DEF TypeOK
  <2> QED BY <1>2, <2>1, OnTimeAssumption, SMT DEF NextCounter, Decremented
<1> QED BY <1>1, <1>2

(* The masks handed to the low layer are sets of pins.                      *)
LEMMA MasksType ==
    ASSUME TypeOK
    PROVE  PhysicalMasks \in [enable : SUBSET Pin, set : SUBSET Pin]
<1>2. enableNext \subseteq Relay /\ Expired \subseteq Relay
  BY DEF TypeOK, Expired, Running
<1>3. Switched \subseteq Pin
  BY <1>2 DEF Switched, PinFor, Pin
<1>4. Released \subseteq Pin
  BY <1>2 DEF Released, PinFor, Pin
<1> QED BY <1>3, <1>4 DEF PhysicalMasks

(* An output leaves pin levels and contacts well typed.                     *)
LEMMA OutputType ==
    ASSUME TypeOK, NEW o \in [enable : SUBSET Pin, set : SUBSET Pin], Output(o)
    PROVE  level' \subseteq Pin /\ contact' \subseteq Relay
BY DEF TypeOK, Output

LEMMA InitTypeOK == Init => TypeOK
<1> SUFFICES ASSUME Init PROVE TypeOK OBVIOUS
<1>1. low \in [enable : SUBSET Pin, set : SUBSET Pin]
  BY DEF Init, NoOutput
<1>2. contact \subseteq Relay
  BY RelaysAssumption DEF Init
<1>3. counter \in [Relay -> 0..MaxTime] /\ held \in [Relay -> 0..MaxTime]
  BY OnTimeAssumption DEF Init
<1>4. level \subseteq Pin
  BY DEF Init
<1> QED BY <1>1, <1>2, <1>3, <1>4 DEF Init, TypeOK

LEMMA RequestTypeOK ==
    ASSUME TypeOK, NEW E \in SUBSET Relay, NEW S \in SUBSET E, NEW force \in BOOLEAN,
           StartSetMulti(E, S, force)
    PROVE  TypeOK'
<1>1. Changing(state, E, S, force) \subseteq Relay
  BY DEF Changing
<1>2. setNext' \subseteq Relay /\ enableNext' \subseteq Relay /\ wanted' \subseteq Relay
  BY <1>1 DEF TypeOK, StartSetMulti, SetNext, Target
<1> QED BY <1>2 DEF TypeOK, StartSetMulti, lowVars

LEMMA FinishTypeOK ==
    ASSUME TypeOK, LowLayerFinishes
    PROVE  TypeOK'
<1>1. level' \subseteq Pin /\ contact' \subseteq Relay
  BY OutputType DEF LowLayerFinishes, TypeOK
<1>2. low' \in [enable : SUBSET Pin, set : SUBSET Pin]
  BY DEF LowLayerFinishes, NoOutput
<1> QED BY <1>1, <1>2 DEF TypeOK, LowLayerFinishes, OnLowLayerIdle

(* The type invariant needs the timing of the pulses: held stays in range   *)
(* because a running pulse has at least one slice to go.                    *)
LEMMA InitPulseTiming == Init => PulseTiming
BY DEF Init, PulseTiming

LEMMA SliceCounters ==
    ASSUME TypeOK, PulseTiming, OnSliceTimer
    PROVE  /\ counter' \in [Relay -> 0..MaxTime]
           /\ held' \in [Relay -> 0..MaxTime]
           /\ PulseTiming'
<1>1. counter' \in [Relay -> 0..MaxTime]
  BY CounterRange DEF OnSliceTimer, TypeOK
<1>2. ASSUME NEW r \in dirty \ enableNext
      PROVE  /\ held[r] + 1 \in 0..MaxTime
             /\ NextCounter(r) + (held[r] + 1) = OnTime[r]
  <2> DEFINE c == counter[r]
             h == held[r]
             t == OnTime[r]
  <2>1. c \in 0..MaxTime /\ h \in 0..MaxTime /\ t \in 0..MaxTime
    BY <1>2, OnTimeAssumption DEF TypeOK
  <2>2. c + h = t /\ c > 0
    BY <1>2 DEF PulseTiming
  <2>3. NextCounter(r) = Decremented(c)
    BY <1>2 DEF NextCounter
  <2> HIDE DEF c, h, t
  <2>4. h + 1 \in 0..MaxTime /\ Decremented(c) + (h + 1) = t
    BY <2>1, <2>2, OneSlice
  <2> QED BY <2>3, <2>4 DEF h, t
<1>3. held' \in [Relay -> 0..MaxTime]
  BY <1>2, OnTimeAssumption, SMT DEF OnSliceTimer, TypeOK
<1>4. ASSUME NEW r \in dirty'
      PROVE  counter'[r] + held'[r] = OnTime[r] /\ counter'[r] > 0
  <2>1. r \in Running \ Expired /\ r \in Relay
    BY <1>4 DEF OnSliceTimer, Running, TypeOK
  <2>2. counter'[r] = NextCounter(r) /\ NextCounter(r) # 0
    BY <2>1 DEF OnSliceTimer, Expired
  <2>3. NextCounter(r) \in 0..MaxTime
    BY <2>1, CounterRange
  <2>4. CASE r \in enableNext
    <3>1. held'[r] = 0
      BY <2>1, <2>4 DEF OnSliceTimer
    <3>2. NextCounter(r) = OnTime[r]
      BY <2>1, <2>4, ArmedCounter, OnTimeAssumption DEF NextCounter
    <3>3. OnTime[r] \in 0..MaxTime
      BY <2>1, OnTimeAssumption
    <3> QED BY <2>2, <2>3, <3>1, <3>2, <3>3, SMT
  <2>5. CASE r \notin enableNext
    <3>1. r \in dirty
      BY <2>1, <2>5 DEF Running
    <3>2. held'[r] = held[r] + 1
      BY <2>1, <2>5, <3>1 DEF OnSliceTimer
    <3>3. NextCounter(r) + (held[r] + 1) = OnTime[r]
      BY <1>2, <2>5, <3>1
    <3>4. NextCounter(r) > 0
      BY <2>2, <2>3
    <3> QED BY <2>2, <3>2, <3>3, <3>4
  <2> QED BY <2>4, <2>5
<1> QED BY <1>1, <1>3, <1>4 DEF PulseTiming

LEMMA SliceTypeOK ==
    ASSUME TypeOK, PulseTiming, OnSliceTimer
    PROVE  TypeOK'
<1>1. counter' \in [Relay -> 0..MaxTime] /\ held' \in [Relay -> 0..MaxTime]
  BY SliceCounters
<1>2. /\ state' \subseteq Relay /\ enableNext' \subseteq Relay
      /\ setNext' \subseteq Relay /\ dirty' \subseteq Relay
      /\ wanted' \subseteq Relay /\ driven' \subseteq Relay
  BY DEF OnSliceTimer, TypeOK, TakenState, Target, Running
<1>3. slice' \in {"stopped", "immediate", "periodic"} /\ owed' \in BOOLEAN
  BY DEF OnSliceTimer, TypeOK, OnLowLayerIdle
<1>4. low' \in [enable : SUBSET Pin, set : SUBSET Pin]
  BY MasksType DEF OnSliceTimer, TypeOK, lowVars
<1>5. level' \subseteq Pin /\ contact' \subseteq Relay
  BY MasksType, OutputType DEF OnSliceTimer, TypeOK, lowVars
<1>6. client' \in Clients
  BY DEF OnSliceTimer, TypeOK
<1> QED BY <1>1, <1>2, <1>3, <1>4, <1>5, <1>6 DEF TypeOK

(* Every variable keeps its type, and every running pulse is on schedule:   *)
(* it ends exactly ui8OnTime slices after it began.                         *)
LEMMA TypeAndTimingInductive ==
    TypeOK /\ PulseTiming /\ [Next]_vars => (TypeOK /\ PulseTiming)'
<1> SUFFICES ASSUME TypeOK, PulseTiming, [Next]_vars
             PROVE  TypeOK' /\ PulseTiming'
  OBVIOUS
<1>1. ASSUME NEW E \in SUBSET Relay, NEW S \in SUBSET E, NEW force \in BOOLEAN,
             StartSetMulti(E, S, force)
      PROVE  TypeOK' /\ PulseTiming'
  BY <1>1, RequestTypeOK DEF StartSetMulti, PulseTiming
<1>2. CASE OnSliceTimer
  BY <1>2, SliceTypeOK, SliceCounters
<1>3. CASE LowLayerFinishes
  BY <1>3, FinishTypeOK DEF LowLayerFinishes, PulseTiming
<1>4. CASE UNCHANGED vars
  BY <1>4 DEF vars, mapperVars, lowVars, history, TypeOK, PulseTiming, Coils, Pin
<1> QED BY <1>1, <1>2, <1>3, <1>4 DEF Next, ClientRequests

THEOREM TypeAndTiming == Spec => [](TypeOK /\ PulseTiming)
<1>1. Init => TypeOK /\ PulseTiming
  BY InitTypeOK, InitPulseTiming
<1> QED BY <1>1, TypeAndTimingInductive, PTL DEF Spec

(* The masks stay within the relays, the counters within the width of a     *)
(* quint8, and the outputs within the pins.                                 *)
THEOREM MapperTypeCorrect == Spec => []TypeOK
BY TypeAndTiming, PTL
-----------------------------------------------------------------------------
(* What a step of the slice timer that ends with onLowLayerIdle leaves.     *)
LEMMA NothingStrandedStep ==
    NothingStranded /\ [Next]_vars => NothingStranded'
<1> SUFFICES ASSUME NothingStranded, [Next]_vars, slice' = "stopped"
             PROVE  ~IsBusy' /\ low' = NoOutput /\ ~owed'
  BY DEF NothingStranded
<1>1. ASSUME NEW E \in SUBSET Relay, NEW S \in SUBSET E, NEW force \in BOOLEAN,
             StartSetMulti(E, S, force)
      PROVE  FALSE
  BY <1>1 DEF StartSetMulti
<1>2. CASE OnSliceTimer
  BY <1>2 DEF OnSliceTimer, OnLowLayerIdle, IsBusy, Busy, lowVars
<1>3. CASE LowLayerFinishes
  BY <1>3 DEF LowLayerFinishes, OnLowLayerIdle, NothingStranded, IsBusy, Busy
<1>4. CASE UNCHANGED vars
  BY <1>4 DEF vars, mapperVars, lowVars, history, NothingStranded, IsBusy, Busy
<1> QED BY <1>1, <1>2, <1>3, <1>4 DEF Next, ClientRequests

(* A stopped slice timer leaves nothing to do: no relay to switch or to     *)
(* release, no output in flight and no idle() owed.                         *)
THEOREM MapperNeverStrands == Spec => []NothingStranded
<1>1. Init => NothingStranded
  BY DEF Init, NothingStranded, IsBusy, Busy
<1> QED BY <1>1, NothingStrandedStep, PTL DEF Spec

(* idle() means that all jobs are done: nothing requested, no pulse running *)
(* and no output in flight.                                                 *)
THEOREM IdleOnlyWhenDone == Spec => IdleMeansDone
<1>1. ASSUME [Next]_vars
      PROVE  [owed /\ ~owed' => ~IsBusy' /\ low' = NoOutput]_vars
  <2> SUFFICES ASSUME owed, ~owed' PROVE ~IsBusy' /\ low' = NoOutput
    OBVIOUS
  <2>1. ASSUME NEW E \in SUBSET Relay, NEW S \in SUBSET E, NEW force \in BOOLEAN,
               StartSetMulti(E, S, force)
        PROVE  FALSE
    BY <2>1 DEF StartSetMulti
  <2>2. CASE OnSliceTimer
    BY <2>2 DEF OnSliceTimer, OnLowLayerIdle, IsBusy, Busy, lowVars
  <2>3. CASE LowLayerFinishes
    BY <2>3 DEF LowLayerFinishes, OnLowLayerIdle, IsBusy, Busy
  <2>4. CASE UNCHANGED vars
    BY <2>4 DEF vars, history
  <2> QED BY <1>1, <2>1, <2>2, <2>3, <2>4 DEF Next, ClientRequests
<1> QED BY <1>1, PTL DEF Spec, IdleMeansDone

(* No slice cuts a pulse short or changes the state of its relay, as long   *)
(* as no new request for the relay is taken.                                *)
THEOREM PulsesNotCut == Spec => PulseUninterrupted
<1>1. ASSUME TypeOK, PulseTiming, [Next]_vars
      PROVE  [\A r \in dirty \ enableNext :
                /\ (r \in state') = (r \in state)
                /\ r \notin dirty' => held[r] + 1 = OnTime[r]]_vars
  <2> SUFFICES ASSUME NEW r \in dirty, r \notin enableNext
               PROVE  /\ (r \in state') = (r \in state)
                      /\ r \notin dirty' => held[r] + 1 = OnTime[r]
    OBVIOUS
  <2>1. ASSUME NEW E \in SUBSET Relay, NEW S \in SUBSET E, NEW force \in BOOLEAN,
               StartSetMulti(E, S, force)
        PROVE  state' = state /\ dirty' = dirty
    BY <2>1 DEF StartSetMulti
  <2>2. CASE OnSliceTimer
    <3>1. (r \in state') = (r \in state)
      BY <2>2 DEF OnSliceTimer, TakenState, Target
    <3>2. ASSUME r \notin dirty' PROVE held[r] + 1 = OnTime[r]
      <4> DEFINE c == counter[r]
                 h == held[r]
                 t == OnTime[r]
      <4>1. c \in 0..MaxTime /\ h \in 0..MaxTime /\ t \in 0..MaxTime
        BY <1>1, OnTimeAssumption DEF TypeOK
      <4>2. c + h = t /\ c > 0
        BY <1>1 DEF PulseTiming
      <4>3. Decremented(c) = 0
        BY <2>2, <3>2 DEF OnSliceTimer, Running, Expired, NextCounter
      <4> HIDE DEF c, h, t
      <4>4. c = 1
        BY <4>1, <4>2, <4>3 DEF Decremented
      <4>5. h + 1 = t
        BY <4>1, <4>2, <4>4
      <4> QED BY <4>5 DEF h, t
    <3> QED BY <3>1, <3>2
  <2>3. CASE LowLayerFinishes
    BY <2>3 DEF LowLayerFinishes
  <2>4. CASE UNCHANGED vars
    BY <2>4 DEF vars, mapperVars
  <2> QED BY <1>1, <2>1, <2>2, <2>3, <2>4 DEF Next, ClientRequests
<1> QED BY <1>1, TypeAndTiming, PTL DEF Spec, PulseUninterrupted
-----------------------------------------------------------------------------
(* The pin levels once the output in flight is done, and the inductive form *)
(* of CurrentCoilReleased: also while an output is on its way, it leaves    *)
(* the present coil of every bistable relay without a running pulse off.    *)
LevelAfter(o) == (level \ o.enable) \cup o.set
CoilsWillBeReleased ==
    \A r \in Bistable \ dirty : PinFor(r, r \in state) \notin Coils(LevelAfter(low))

(* The pins an output of the mapper touches belong to the relays switched   *)
(* or expired in that slice; those of an expired bistable relay end off.    *)
LEMMA SliceOutput ==
    ASSUME TypeOK, OnSliceTimer, CoilsWillBeReleased, NEW r \in Bistable, r \notin dirty'
    PROVE  PinFor(r, r \in state') \notin Coils(LevelAfter(PhysicalMasks))
<1> DEFINE p == PinFor(r, r \in state')
           lv == LevelAfter(PhysicalMasks)
<1>1. r \in Relay /\ p \in Pin /\ p[1] = r
  BY RelaysAssumption DEF PinFor, Pin
<1>2. state' = TakenState
  BY DEF OnSliceTimer
<1>3. CASE r \in Expired
  <2>1. p \in Released
    BY <1>2, <1>3 DEF Released
  <2>2. p \in PhysicalMasks.enable /\ (p \in PhysicalMasks.set) = ~ActiveHigh(p)
    BY <2>1 DEF PhysicalMasks, Energised, ActiveHigh
  <2>3. (p \in lv) = ~ActiveHigh(p)
    BY <2>2 DEF LevelAfter
  <2> QED BY <2>3 DEF Coils, ActiveHigh
<1>4. CASE r \notin Expired
  <2>1. r \notin Running
    BY <1>4 DEF OnSliceTimer
  <2>2. r \notin enableNext /\ r \notin dirty
    BY <2>1 DEF Running
  <2>3. (r \in state') = (r \in state)
    BY <1>2, <2>2 DEF TakenState, Target
  <2>4. p \notin Switched /\ p \notin Released
    BY <1>1, <1>4, <2>2 DEF Switched, Released, PinFor
  <2>5. p \notin PhysicalMasks.enable /\ p \notin PhysicalMasks.set
    BY <2>4 DEF PhysicalMasks
  <2>6. (p \in lv) = (p \in level)
    BY <2>5 DEF LevelAfter
  <2>7. (p \in LevelAfter(low)) = (p \in level)
    BY DEF OnSliceTimer, NoOutput, LevelAfter
  <2>8. p \notin Coils(LevelAfter(low))
    BY <2>2, <2>3 DEF CoilsWillBeReleased
  <2> QED BY <2>6, <2>7, <2>8 DEF Coils
<1> QED BY <1>3, <1>4

(* Whichever way a slice ends - no output, one done at once, one in flight  *)
(* - the pins after it are those its masks describe.                        *)
LEMMA ReleasedStep ==
    TypeOK /\ CoilsWillBeReleased /\ [Next]_vars => CoilsWillBeReleased'
<1> SUFFICES ASSUME TypeOK, CoilsWillBeReleased, [Next]_vars
             PROVE  CoilsWillBeReleased'
  OBVIOUS
<1>1. ASSUME NEW E \in SUBSET Relay, NEW S \in SUBSET E, NEW force \in BOOLEAN,
             StartSetMulti(E, S, force)
      PROVE  CoilsWillBeReleased'
  BY <1>1 DEF StartSetMulti, lowVars, CoilsWillBeReleased, Coils, LevelAfter
<1>2. CASE OnSliceTimer
  <2> SUFFICES ASSUME NEW r \in Bistable, r \notin dirty'
               PROVE  PinFor(r, r \in state') \notin Coils(LevelAfter(low)')
    BY DEF CoilsWillBeReleased, Coils, PinFor
  <2>1. PinFor(r, r \in state') \notin Coils(LevelAfter(PhysicalMasks))
    BY <1>2, SliceOutput
  <2>2. low = NoOutput
    BY <1>2 DEF OnSliceTimer
  <2>3. \/ PhysicalMasks = NoOutput /\ low' = NoOutput /\ level' = level
        \/ low' = NoOutput /\ level' = LevelAfter(PhysicalMasks)
        \/ low' = PhysicalMasks /\ level' = level
    BY <1>2, <2>2 DEF OnSliceTimer, lowVars, LevelAfter, Output
  <2>4. LevelAfter(low)' = (level' \ low'.enable) \cup low'.set
    BY DEF LevelAfter
  <2>5. NoOutput.enable = {} /\ NoOutput.set = {}
    BY DEF NoOutput
  <2>6. LevelAfter(low)' = LevelAfter(PhysicalMasks)
    BY <2>3, <2>4, <2>5 DEF LevelAfter
  <2> QED BY <2>1, <2>6
<1>3. CASE LowLayerFinishes
  <2>1. LevelAfter(low)' = LevelAfter(low)
    BY <1>3 DEF LowLayerFinishes, LevelAfter, Output, NoOutput
  <2> QED BY <1>3, <2>1 DEF LowLayerFinishes, CoilsWillBeReleased, Coils
<1>4. CASE UNCHANGED vars
  BY <1>4 DEF vars, mapperVars, lowVars, CoilsWillBeReleased, Coils, LevelAfter
<1> QED BY <1>1, <1>2, <1>3, <1>4 DEF Next, ClientRequests

LEMMA CoilsReleased == Spec => []CoilsWillBeReleased
<1>1. Init => CoilsWillBeReleased
  BY DEF Init, CoilsWillBeReleased, Coils, LevelAfter, NoOutput, ActiveHigh
<1> QED BY <1>1, ReleasedStep, TypeAndTiming, PTL DEF Spec

(* Whenever the low layer is done, every bistable relay whose pulse is over *)
(* has the coil of its present direction released.                          *)
THEOREM PulsesRelease == Spec => []CurrentCoilReleased
<1>1. CoilsWillBeReleased => CurrentCoilReleased
  BY DEF CoilsWillBeReleased, CurrentCoilReleased, Coils, LevelAfter, NoOutput
<1> QED BY <1>1, CoilsReleased, PTL
-----------------------------------------------------------------------------
(* The coils of relay r at pin levels lv, and the contacts that follow them *)
(* from c.                                                                  *)
OnCoil(r, lv)  == <<r, "on">> \in Coils(lv)
OffCoil(r, lv) == <<r, "off">> \in Coils(lv)
ContactAfter(lv, c) ==
    {r \in Relay : IF r \in Bistable /\ (OnCoil(r, lv) <=> OffCoil(r, lv))
                   THEN r \in c ELSE OnCoil(r, lv)}

(* The contacts are where the pins put them.                                *)
ContactsFollow == contact = ContactAfter(level, contact)

(* The inductive invariant for a client that leaves a relay alone until it  *)
(* has settled.  What is requested leads to what is wanted.  The coil of    *)
(* the other direction is off, also after the output in flight, so that     *)
(* the contacts then are at the state.                                      *)
OtherCoilOff(r) ==
    IF r \in state THEN ~OffCoil(r, LevelAfter(low)) ELSE ~OnCoil(r, LevelAfter(low))
OneCoilAtMost(r) == ~(OnCoil(r, level) /\ OffCoil(r, level))
SettledInv ==
    client = "settled" =>
        /\ dirty \cap enableNext = {}
        /\ Target(state, enableNext, setNext) = wanted
        /\ \A r \in Bistable : OtherCoilOff(r) /\ OneCoilAtMost(r)
        /\ \A r \in driven : r \in ContactAfter(LevelAfter(low), contact) <=> r \in state
AsAskedInv == ContactsFollow /\ SettledInv

LEMMA OutputContacts ==
    ASSUME NEW o, Output(o)
    PROVE  level' = LevelAfter(o) /\ contact' = ContactAfter(LevelAfter(o), contact)
<1> DEFINE lv == LevelAfter(o)
           c  == ContactAfter(lv, contact)
<1>1. level' = lv
  BY DEF Output, LevelAfter
<1>2. \A r : r \in contact' <=>
           /\ r \in Relay
           /\ IF r \in Bistable /\ (OnCoil(r, lv) = (r \in Bistable /\ OffCoil(r, lv)))
              THEN r \in contact ELSE OnCoil(r, lv)
  BY DEF Output, OnCoil, OffCoil, LevelAfter
<1>3. \A r : r \in c <=>
           /\ r \in Relay
           /\ IF r \in Bistable /\ (OnCoil(r, lv) <=> OffCoil(r, lv))
              THEN r \in contact ELSE OnCoil(r, lv)
  BY DEF ContactAfter
<1>4. contact' = {r \in Relay : r \in contact'}
  BY DEF Output
<1>5. c = {r \in Relay : r \in c}
  BY DEF ContactAfter
<1>6. \A r : OnCoil(r, lv) \in BOOLEAN /\ OffCoil(r, lv) \in BOOLEAN
  BY DEF OnCoil, OffCoil
<1> HIDE DEF c, lv
<1>7. \A r : r \in contact' <=> r \in c
  BY <1>2, <1>3, <1>6
<1> QED BY <1>1, <1>4, <1>5, <1>7 DEF c, lv

LEMMA ContactsStable ==
    ASSUME NEW lv, NEW c
    PROVE  ContactAfter(lv, ContactAfter(lv, c)) = ContactAfter(lv, c)
BY DEF ContactAfter

(* What the masks of a slice do to the coils of a relay.                    *)
LEMMA SlicePin ==
    ASSUME NEW p \in Pin
    PROVE  p \in Coils(LevelAfter(PhysicalMasks)) <=>
              \/ p \in Energised
              \/ p \notin Switched \cup Released /\ p \in Coils(level)
<1>1. Energised \subseteq Switched
  BY DEF Energised
<1>2. p \in PhysicalMasks.enable <=> p \in Switched \cup Released
  BY DEF PhysicalMasks
<1>3. p \in PhysicalMasks.set <=>
         p \in Switched \cup Released /\ (ActiveHigh(p) <=> p \in Energised)
  BY DEF PhysicalMasks, ActiveHigh
<1>4. p \in LevelAfter(PhysicalMasks) <=>
         (p \in level /\ p \notin PhysicalMasks.enable) \/ p \in PhysicalMasks.set
  BY DEF LevelAfter
<1>5. \A lv : p \in Coils(lv) <=> (p \in lv <=> ActiveHigh(p))
  BY DEF Coils, ActiveHigh
<1>6. ActiveHigh(p) \in BOOLEAN
  BY DEF ActiveHigh
<1> QED BY <1>1, <1>2, <1>3, <1>4, <1>5, <1>6

LEMMA SliceCoils ==
    ASSUME NEW r \in Relay
    PROVE  /\ OnCoil(r, LevelAfter(PhysicalMasks)) <=>
                \/ r \in enableNext /\ r \in TakenState /\ r \notin Expired \cap Bistable
                \/ /\ ~(r \in enableNext /\ (r \in TakenState \/ r \notin Bistable))
                   /\ ~(r \in Expired \cap Bistable /\ r \in TakenState)
                   /\ OnCoil(r, level)
           /\ r \in Bistable =>
                (OffCoil(r, LevelAfter(PhysicalMasks)) <=>
                   \/ r \in enableNext /\ r \notin TakenState /\ r \notin Expired
                   \/ /\ ~(r \in enableNext \cup Expired /\ r \notin TakenState)
                      /\ OffCoil(r, level))
<1> DEFINE on == <<r, "on">>
           off == <<r, "off">>
<1>1. on \in Pin /\ off \in Pin /\ on # off /\ on[1] = r /\ off[1] = r
  BY DEF Pin
<1>2. on \in Switched <=> r \in enableNext /\ (r \in TakenState \/ r \notin Bistable)
  BY DEF Switched, PinFor
<1>3. off \in Switched <=> r \in enableNext /\ r \notin TakenState /\ r \in Bistable
  BY DEF Switched, PinFor
<1>4. on \in Released <=> r \in Expired \cap Bistable /\ r \in TakenState
  BY DEF Released, PinFor
<1>5. off \in Released <=> r \in Expired \cap Bistable /\ r \notin TakenState
  BY DEF Released, PinFor
<1>6. \A p : p \in Energised <=>
                p \in Switched /\ p[1] \in TakenState \cup Bistable /\ p \notin Released
  BY DEF Energised
<1>7. \A p \in Pin : p \in Coils(LevelAfter(PhysicalMasks)) <=>
              \/ p \in Energised
              \/ p \notin Switched \cup Released /\ p \in Coils(level)
  BY SlicePin
<1> HIDE DEF on, off
<1>8. on \in Coils(LevelAfter(PhysicalMasks)) <=>
                \/ r \in enableNext /\ r \in TakenState /\ r \notin Expired \cap Bistable
                \/ /\ ~(r \in enableNext /\ (r \in TakenState \/ r \notin Bistable))
                   /\ ~(r \in Expired \cap Bistable /\ r \in TakenState)
                   /\ on \in Coils(level)
  BY <1>1, <1>2, <1>4, <1>6, <1>7
<1>9. r \in Bistable =>
                (off \in Coils(LevelAfter(PhysicalMasks)) <=>
                   \/ r \in enableNext /\ r \notin TakenState /\ r \notin Expired
                   \/ /\ ~(r \in enableNext \cup Expired /\ r \notin TakenState)
                      /\ off \in Coils(level))
  BY <1>1, <1>3, <1>5, <1>6, <1>7
<1> QED BY <1>8, <1>9 DEF on, off, OnCoil, OffCoil

(* Whichever way a slice ends, the pins and contacts after its output are   *)
(* those its masks describe.                                                *)
LEMMA SliceEnds ==
    ASSUME TypeOK, OnSliceTimer
    PROVE  /\ LevelAfter(low) = level
           /\ LevelAfter(low)' = LevelAfter(PhysicalMasks)
           /\ ContactAfter(LevelAfter(PhysicalMasks), contact')
                 = ContactAfter(LevelAfter(PhysicalMasks), contact)
           /\ \/ level' = level /\ contact' = contact
              \/ /\ level' = LevelAfter(PhysicalMasks)
                 /\ contact' = ContactAfter(LevelAfter(PhysicalMasks), contact)
<1> DEFINE m == PhysicalMasks
<1>1. low = NoOutput /\ NoOutput.enable = {} /\ NoOutput.set = {}
  BY DEF OnSliceTimer, NoOutput
<1>2. \/ m = NoOutput /\ low' = NoOutput /\ level' = level /\ contact' = contact
      \/ low' = NoOutput /\ Output(m)
      \/ low' = m /\ level' = level /\ contact' = contact
  BY <1>1 DEF OnSliceTimer, lowVars
<1> HIDE DEF m
<1>3. \/ m = NoOutput /\ low' = NoOutput /\ level' = level /\ contact' = contact
      \/ /\ low' = NoOutput /\ level' = LevelAfter(m)
         /\ contact' = ContactAfter(LevelAfter(m), contact)
      \/ low' = m /\ level' = level /\ contact' = contact
  BY <1>2, OutputContacts
<1>4. LevelAfter(low) = level
  BY <1>1 DEF LevelAfter
<1>5. LevelAfter(low)' = LevelAfter(m)
  BY <1>1, <1>3 DEF LevelAfter
<1>6. ContactAfter(LevelAfter(m), contact') = ContactAfter(LevelAfter(m), contact)
  BY <1>3, ContactsStable
<1> QED BY <1>3, <1>4, <1>5, <1>6 DEF m

(* A relay taken in a slice: with the coils off before, the coil of the     *)
(* direction asked for is the only one on after it.  A relay whose pulse    *)
(* ends has both off, and its contact stays.                                *)
LEMMA SliceRelay ==
    ASSUME TypeOK, ContactsFollow, SettledInv, CoilsWillBeReleased, OnSliceTimer,
           client = "settled", NEW r \in Relay
    PROVE  /\ r \in Bistable =>
                IF r \in state' THEN ~OffCoil(r, LevelAfter(PhysicalMasks))
                                ELSE ~OnCoil(r, LevelAfter(PhysicalMasks))
           /\ r \in driven' =>
                (r \in ContactAfter(LevelAfter(PhysicalMasks), contact) <=> r \in state')
<1> DEFINE lv == LevelAfter(PhysicalMasks)
           c == ContactAfter(lv, contact)
<1>1. /\ state' = TakenState /\ driven' = driven \cup enableNext
      /\ LevelAfter(low) = level /\ (r \notin enableNext => (r \in TakenState <=> r \in state))
  BY SliceEnds DEF OnSliceTimer, TakenState, Target
<1>2. /\ OnCoil(r, lv) <=>
           \/ r \in enableNext /\ r \in TakenState /\ r \notin Expired \cap Bistable
           \/ /\ ~(r \in enableNext /\ (r \in TakenState \/ r \notin Bistable))
              /\ ~(r \in Expired \cap Bistable /\ r \in TakenState)
              /\ OnCoil(r, level)
      /\ r \in Bistable =>
           (OffCoil(r, lv) <=>
              \/ r \in enableNext /\ r \notin TakenState /\ r \notin Expired
              \/ /\ ~(r \in enableNext \cup Expired /\ r \notin TakenState)
                 /\ OffCoil(r, level))
  BY SliceCoils
<1>3. ASSUME r \in enableNext, r \in Bistable
      PROVE  r \notin Expired
  <2>1. OnTime[r] \in 0..MaxTime /\ OnTime[r] > 0
    BY <1>3, OnTimeAssumption
  <2>2. NextCounter(r) = OnTime[r]
    BY <1>3, <2>1, ArmedCounter DEF NextCounter
  <2> QED BY <2>1, <2>2 DEF Expired
<1>4. /\ r \in enableNext => r \notin dirty
      /\ r \in Bistable => IF r \in state THEN ~OffCoil(r, level) ELSE ~OnCoil(r, level)
      /\ r \in driven => (r \in ContactAfter(level, contact) <=> r \in state)
  BY <1>1 DEF SettledInv, OtherCoilOff
<1>5. r \in Bistable /\ r \notin dirty =>
         IF r \in state THEN ~OnCoil(r, level) ELSE ~OffCoil(r, level)
  BY <1>1 DEF CoilsWillBeReleased, PinFor, OnCoil, OffCoil
<1>6. r \in c <=> IF r \in Bistable /\ (OnCoil(r, lv) <=> OffCoil(r, lv))
                  THEN r \in contact ELSE OnCoil(r, lv)
  BY DEF ContactAfter
<1>7. r \in contact <=> IF r \in Bistable /\ (OnCoil(r, level) <=> OffCoil(r, level))
                        THEN r \in contact ELSE OnCoil(r, level)
  BY DEF ContactsFollow, ContactAfter
<1>8. ContactAfter(level, contact) = contact
  BY DEF ContactsFollow
<1>9. r \in Expired => r \in enableNext \cup dirty
  BY DEF Expired, Running
<1> HIDE DEF lv, c
<1>10. r \in Bistable => IF r \in state' THEN ~OffCoil(r, lv) ELSE ~OnCoil(r, lv)
  BY <1>1, <1>2, <1>4, <1>5
<1>11. ASSUME r \in enableNext
       PROVE  r \in c <=> r \in state'
  <2>1. CASE r \in Bistable
    <3>1. ~OnCoil(r, level) /\ ~OffCoil(r, level) /\ r \notin Expired
      BY <1>3, <1>4, <1>5, <1>11, <2>1
    <3>2. (OnCoil(r, lv) <=> r \in TakenState) /\ (OffCoil(r, lv) <=> r \notin TakenState)
      BY <1>2, <1>11, <2>1, <3>1
    <3> QED BY <1>1, <1>6, <2>1, <3>2
  <2>2. CASE r \notin Bistable
    <3>1. OnCoil(r, lv) <=> r \in TakenState
      BY <1>2, <1>11, <2>2
    <3> QED BY <1>1, <1>6, <2>2, <3>1
  <2> QED BY <2>1, <2>2
<1>12. ASSUME r \notin enableNext, r \in driven'
       PROVE  r \in c <=> r \in state'
  <2>1. CASE r \in Bistable /\ r \in Expired
    <3>1. ~OnCoil(r, lv) /\ ~OffCoil(r, lv)
      BY <1>1, <1>2, <1>4, <1>12, <2>1
    <3>2. r \in c <=> r \in contact
      BY <1>6, <2>1, <3>1
    <3> QED BY <1>1, <1>4, <1>8, <1>12, <3>2
  <2>2. CASE r \notin Bistable \/ r \notin Expired
    <3>1. OnCoil(r, lv) <=> OnCoil(r, level)
      BY <1>2, <1>12, <2>2
    <3>2. r \in Bistable => (OffCoil(r, lv) <=> OffCoil(r, level))
      BY <1>2, <1>12, <2>2
    <3>3. r \in c <=> r \in contact
      BY <1>6, <1>7, <3>1, <3>2
    <3> QED BY <1>1, <1>4, <1>8, <1>12, <3>3
  <2> QED BY <2>1, <2>2
<1> QED BY <1>10, <1>11, <1>12 DEF lv, c

LEMMA SliceAsAsked ==
    ASSUME TypeOK, AsAskedInv, CoilsWillBeReleased, OnSliceTimer
    PROVE  AsAskedInv'
<1> DEFINE lv == LevelAfter(PhysicalMasks)
<1>1. /\ LevelAfter(low)' = lv
      /\ ContactAfter(lv, contact') = ContactAfter(lv, contact)
      /\ \/ level' = level /\ contact' = contact
         \/ level' = lv /\ contact' = ContactAfter(lv, contact)
  BY SliceEnds
<1> HIDE DEF lv
<1>2. ContactsFollow'
  <2>1. contact' = ContactAfter(level', contact')
    BY <1>1, ContactsStable DEF AsAskedInv, ContactsFollow
  <2> QED BY <2>1 DEF ContactsFollow, ContactAfter, OnCoil, OffCoil, Coils
<1>3. ASSUME client = "settled"
      PROVE  SettledInv'
  <2>1. dirty' \cap enableNext' = {}
    BY DEF OnSliceTimer
  <2>2. Target(state', enableNext', setNext') = wanted'
    <3>1. state' = Target(state, enableNext, setNext) /\ enableNext' = {} /\ wanted' = wanted
      BY DEF OnSliceTimer, TakenState
    <3>2. Target(state', {}, setNext') = state'
      BY DEF Target
    <3> QED BY <1>3, <3>1, <3>2 DEF AsAskedInv, SettledInv
  <2>3. ASSUME NEW r \in Relay
        PROVE  /\ r \in Bistable => IF r \in state' THEN ~OffCoil(r, lv) ELSE ~OnCoil(r, lv)
               /\ r \in driven' => (r \in ContactAfter(lv, contact) <=> r \in state')
    BY <1>3, SliceRelay DEF AsAskedInv, lv
  <2>4. ASSUME NEW r \in Bistable
        PROVE  OtherCoilOff(r)' /\ OneCoilAtMost(r)'
    <3>1. r \in Relay /\ ~(OnCoil(r, lv) /\ OffCoil(r, lv))
      BY <2>3, RelaysAssumption
    <3>2. ~(OnCoil(r, level) /\ OffCoil(r, level))
      BY <1>3 DEF AsAskedInv, SettledInv, OneCoilAtMost
    <3>3. OneCoilAtMost(r)'
      BY <1>1, <3>1, <3>2 DEF OneCoilAtMost, OnCoil, OffCoil, Coils
    <3>4. OtherCoilOff(r)'
      BY <1>1, <2>3, <3>1 DEF OtherCoilOff, OnCoil, OffCoil, Coils
    <3> QED BY <3>3, <3>4
  <2>5. ASSUME NEW r \in driven'
        PROVE  r \in ContactAfter(lv, contact') <=> r \in state'
    <3>1. r \in Relay
      BY DEF OnSliceTimer, TypeOK
    <3> QED BY <1>1, <2>3, <3>1
  <2>6. ContactAfter(LevelAfter(low), contact)' = ContactAfter(lv, contact')
    BY <1>1 DEF ContactAfter, OnCoil, OffCoil, Coils
  <2> QED BY <2>1, <2>2, <2>4, <2>5, <2>6 DEF SettledInv
<1>4. client' = client
  BY DEF OnSliceTimer
<1> QED BY <1>2, <1>3, <1>4 DEF AsAskedInv, SettledInv

LEMMA FinishAsAsked ==
    ASSUME TypeOK, AsAskedInv, LowLayerFinishes
    PROVE  AsAskedInv'
<1> DEFINE lv == LevelAfter(low)
<1>1. /\ level' = lv /\ contact' = ContactAfter(lv, contact)
      /\ ContactAfter(lv, contact') = contact'
  BY OutputContacts, ContactsStable DEF LowLayerFinishes
<1>2. LevelAfter(low)' = level'
  BY DEF LowLayerFinishes, NoOutput, LevelAfter
<1>3. UNCHANGED <<client, state, enableNext, setNext, dirty, wanted, driven>>
  BY DEF LowLayerFinishes
<1> HIDE DEF lv
<1>4. ContactsFollow'
  BY <1>1 DEF ContactsFollow, ContactAfter, OnCoil, OffCoil, Coils
<1>5. ASSUME client = "settled"
      PROVE  SettledInv'
  <2>1. /\ dirty \cap enableNext = {} /\ Target(state, enableNext, setNext) = wanted
        /\ \A r \in Bistable : IF r \in state THEN ~OffCoil(r, lv) ELSE ~OnCoil(r, lv)
        /\ \A r \in driven : r \in ContactAfter(lv, contact) <=> r \in state
    BY <1>5 DEF AsAskedInv, SettledInv, OtherCoilOff, lv
  <2>2. \A r \in Bistable : OtherCoilOff(r)' /\ OneCoilAtMost(r)'
    BY <1>1, <1>2, <1>3, <2>1 DEF OtherCoilOff, OneCoilAtMost, OnCoil, OffCoil, Coils
  <2>3. ContactAfter(LevelAfter(low), contact)' = ContactAfter(lv, contact')
    BY <1>1, <1>2 DEF ContactAfter, OnCoil, OffCoil, Coils
  <2>4. Target(state', enableNext', setNext') = wanted'
    BY <1>3, <2>1
  <2> QED BY <1>1, <1>3, <2>1, <2>2, <2>3, <2>4 DEF SettledInv
<1> QED BY <1>3, <1>4, <1>5 DEF AsAskedInv, SettledInv

LEMMA RequestAsAsked ==
    ASSUME TypeOK, AsAskedInv, NEW E \in SUBSET Relay, NEW S \in SUBSET E,
           NEW force \in BOOLEAN, StartSetMulti(E, S, force)
    PROVE  AsAskedInv'
<1>1. UNCHANGED <<client, state, dirty, low, level, contact, driven>>
  BY DEF StartSetMulti, lowVars
<1>2. ContactsFollow'
  BY <1>1 DEF AsAskedInv, ContactsFollow, ContactAfter, OnCoil, OffCoil, Coils
<1>3. ASSUME client = "settled"
      PROVE  SettledInv'
  <2> DEFINE changed == Changing(state, E, S, force)
  <2>1. E \cap (enableNext \cup dirty) = {}
    BY <1>3 DEF StartSetMulti, MayRequest
  <2>2. \A r : /\ r \in changed => r \in E
               /\ r \in E /\ r \notin changed => (r \in S <=> r \in state)
    BY DEF Changing
  <2>3. /\ enableNext' = enableNext \cup changed
        /\ setNext' = (setNext \ changed) \cup (S \cap changed)
        /\ wanted' = Target(wanted, E, S)
    BY DEF StartSetMulti, SetNext
  <2> HIDE DEF changed
  <2>4. dirty \cap enableNext = {} /\ Target(state, enableNext, setNext) = wanted
    BY <1>3 DEF AsAskedInv, SettledInv
  <2>5. dirty' \cap enableNext' = {}
    BY <1>1, <2>1, <2>2, <2>3, <2>4
  <2>6. Target(state, enableNext', setNext') = wanted'
    <3>1. ASSUME NEW r
          PROVE  r \in Target(state, enableNext', setNext') <=> r \in Target(wanted, E, S)
      <4>1. r \in wanted <=> (r \in state /\ r \notin enableNext) \/ (r \in setNext /\ r \in enableNext)
        BY <2>4 DEF Target
      <4>2. r \in Target(wanted, E, S) <=> (r \in wanted /\ r \notin E) \/ (r \in S /\ r \in E)
        BY DEF Target
      <4>3. r \in Target(state, enableNext', setNext') <=>
               (r \in state /\ r \notin enableNext') \/ (r \in setNext' /\ r \in enableNext')
        BY DEF Target
      <4> QED BY <2>1, <2>2, <2>3, <4>1, <4>2, <4>3
    <3> QED BY <2>3, <3>1 DEF Target
  <2>7. \A r \in Bistable : OtherCoilOff(r)' /\ OneCoilAtMost(r)'
    BY <1>1, <1>3 DEF AsAskedInv, SettledInv, OtherCoilOff, OneCoilAtMost, OnCoil, OffCoil,
                      Coils, LevelAfter
  <2>8. \A r \in driven' : r \in ContactAfter(LevelAfter(low), contact)' <=> r \in state'
    BY <1>1, <1>3 DEF AsAskedInv, SettledInv, ContactAfter, OnCoil, OffCoil, Coils, LevelAfter
  <2> QED BY <1>1, <2>5, <2>6, <2>7, <2>8 DEF SettledInv
<1> QED BY <1>1, <1>2, <1>3 DEF AsAskedInv, SettledInv

LEMMA InitAsAsked == Init => AsAskedInv
<1> SUFFICES ASSUME Init PROVE AsAskedInv
  OBVIOUS
<1>1. \A p \in Pin : p \notin Coils(level)
  BY DEF Init, Coils, ActiveHigh
<1>2. \A r : ~OnCoil(r, level) /\ ~OffCoil(r, level)
  BY <1>1 DEF OnCoil, OffCoil, Coils
<1>3. LevelAfter(low) = level
  BY DEF Init, LevelAfter, NoOutput
<1>4. ContactsFollow
  <2>1. contact \subseteq Bistable /\ Bistable \subseteq Relay
    BY RelaysAssumption DEF Init
  <2>2. \A r : r \in ContactAfter(level, contact) <=> r \in contact
    BY <1>2, <2>1 DEF ContactAfter
  <2> QED BY <2>2 DEF ContactsFollow, ContactAfter
<1>5. SettledInv
  <2>1. Target(state, enableNext, setNext) = wanted
    BY DEF Init, Target
  <2> QED BY <1>2, <1>3, <2>1 DEF SettledInv, Init, OtherCoilOff, OneCoilAtMost
<1> QED BY <1>4, <1>5 DEF AsAskedInv

LEMMA AsAskedStep ==
    TypeOK /\ AsAskedInv /\ CoilsWillBeReleased /\ [Next]_vars => AsAskedInv'
<1> SUFFICES ASSUME TypeOK, AsAskedInv, CoilsWillBeReleased, [Next]_vars
             PROVE  AsAskedInv'
  OBVIOUS
<1>1. CASE ClientRequests
  BY <1>1, RequestAsAsked DEF ClientRequests
<1>2. CASE OnSliceTimer
  BY <1>2, SliceAsAsked
<1>3. CASE LowLayerFinishes
  BY <1>3, FinishAsAsked
<1>4. CASE UNCHANGED vars
  BY <1>4 DEF vars, mapperVars, lowVars, history, AsAskedInv, ContactsFollow, SettledInv,
              OtherCoilOff, OneCoilAtMost, ContactAfter, OnCoil, OffCoil, Coils, LevelAfter
<1> QED BY <1>1, <1>2, <1>3, <1>4 DEF Next

LEMMA AsAskedInvariant == Spec => []AsAskedInv
BY InitAsAsked, AsAskedStep, CoilsReleased, TypeAndTiming, PTL DEF Spec

(* With the work done, both coils of every bistable relay are off.          *)
LEMMA StoppedCoils ==
    ASSUME TypeOK, NothingStranded, CoilsWillBeReleased, AsAskedInv,
           client = "settled", slice = "stopped"
    PROVE  /\ LevelAfter(low) = level
           /\ \A r \in Bistable : ~OnCoil(r, level) /\ ~OffCoil(r, level)
<1>1. low = NoOutput /\ dirty = {}
  BY DEF NothingStranded, IsBusy, Busy
<1>2. LevelAfter(low) = level
  BY <1>1 DEF LevelAfter, NoOutput
<1>3. ASSUME NEW r \in Bistable
      PROVE  ~OnCoil(r, level) /\ ~OffCoil(r, level)
  <2>1. IF r \in state THEN ~OffCoil(r, level) ELSE ~OnCoil(r, level)
    BY <1>2 DEF AsAskedInv, SettledInv, OtherCoilOff
  <2>2. IF r \in state THEN ~OnCoil(r, level) ELSE ~OffCoil(r, level)
    BY <1>1, <1>2 DEF CoilsWillBeReleased, PinFor, OnCoil, OffCoil
  <2> QED BY <2>1, <2>2
<1> QED BY <1>2, <1>3

(* A client that does not reverse a relay before it has settled never has   *)
(* both coils of a relay energised, and in the end all of them off,         *)
(* whatever the pulse lengths and polarities.                               *)
THEOREM CoilsSettle == Spec => []SettledCoils
<1>1. TypeOK /\ NothingStranded /\ CoilsWillBeReleased /\ AsAskedInv => SettledCoils
  <2> SUFFICES ASSUME TypeOK, NothingStranded, CoilsWillBeReleased, AsAskedInv,
                      client = "settled"
               PROVE  /\ AllCoilsReleased
                      /\ \A r \in Bistable :
                            ~({<<r, "on">>, <<r, "off">>} \subseteq Coils(level))
    BY DEF SettledCoils
  <2>1. ASSUME slice = "stopped", NEW p \in Coils(level), p[1] \in Bistable
        PROVE  FALSE
    <3>1. PICK r \in Relay : p = <<r, "on">> \/ p = <<r, "off">>
      BY DEF Coils, Pin
    <3>2. r \in Bistable
      BY <2>1, <3>1
    <3> QED BY <2>1, <3>1, <3>2, StoppedCoils DEF OnCoil, OffCoil
  <2>2. \A r \in Bistable : ~(OnCoil(r, level) /\ OffCoil(r, level))
    BY DEF AsAskedInv, SettledInv, OneCoilAtMost
  <2> QED BY <2>1, <2>2 DEF AllCoilsReleased, OnCoil, OffCoil
<1> QED BY <1>1, TypeAndTiming, MapperNeverStrands, CoilsReleased, AsAskedInvariant, PTL

(* To such a client idle() is a promise about the hardware: the logical     *)
(* state is what it asked for last, and the contacts of all relays ever     *)
(* switched are there.                                                      *)
THEOREM ContactsAsAsked == Spec => []RelaysAsAsked
<1>1. TypeOK /\ NothingStranded /\ CoilsWillBeReleased /\ AsAskedInv => RelaysAsAsked
  <2> SUFFICES ASSUME TypeOK, NothingStranded, CoilsWillBeReleased, AsAskedInv,
                      client = "settled", slice = "stopped"
               PROVE  state = wanted /\ \A r \in driven : (r \in contact) = (r \in state)
    BY DEF RelaysAsAsked
  <2>1. enableNext = {}
    BY DEF NothingStranded, IsBusy, Busy
  <2>2. state = wanted
    BY <2>1 DEF AsAskedInv, SettledInv, Target
  <2>3. ContactAfter(LevelAfter(low), contact) = contact
    BY StoppedCoils DEF AsAskedInv, ContactsFollow
  <2>4. \A r \in driven : r \in contact <=> r \in state
    BY <2>3 DEF AsAskedInv, SettledInv
  <2> QED BY <2>2, <2>4
<1> QED BY <1>1, TypeAndTiming, MapperNeverStrands, CoilsReleased, AsAskedInvariant, PTL
-----------------------------------------------------------------------------
(* Every step of the mapper is a step of the contract of a relay layer, or  *)
(* leaves the layer seen through the mapping alone.                         *)
LEMMA ContractStep ==
    TypeOK /\ NothingStranded /\ [Next]_vars => [Contract!Next]_MappedLayer
<1> SUFFICES ASSUME TypeOK, NothingStranded, [Next]_vars
             PROVE  Contract!Next \/ MappedLayer' = MappedLayer
  OBVIOUS
<1>1. ASSUME NEW E \in SUBSET Relay, NEW S \in SUBSET E, NEW force \in BOOLEAN,
             StartSetMulti(E, S, force)
      PROVE  Contract!Next
  <2> DEFINE changed == Changing(state, E, S, force)
  <2>1. Contract!Changing(MappedLayer.state, E, S, force) = changed
    BY DEF MappedLayer, Changing, Contract!Changing
  <2>2. MappedLayer' = [state |-> state, enable |-> enableNext \cup changed,
                        set |-> SetNext(setNext, changed, S), dirty |-> dirty,
                        armed |-> TRUE]
    BY <1>1 DEF StartSetMulti, MappedLayer
  <2>3. Contract!SetNext(MappedLayer.set, changed, S) = SetNext(setNext, changed, S)
    BY DEF MappedLayer, SetNext, Contract!SetNext
  <2> HIDE DEF changed
  <2>4. Contract!Requested(MappedLayer, E, S, force)
          = [state |-> state, enable |-> enableNext \cup changed,
             set |-> SetNext(setNext, changed, S), dirty |-> dirty, armed |-> TRUE]
    BY <2>1, <2>3 DEF Contract!Requested, MappedLayer
  <2>5. Contract!StartSetMulti(E, S, force)
    BY <2>2, <2>4 DEF Contract!StartSetMulti
  <2> QED BY <2>5 DEF Contract!Next
<1>2. CASE OnSliceTimer
  <2>1. MappedLayer.armed
    BY <1>2 DEF OnSliceTimer, MappedLayer
  <2>2. MappedLayer' = Contract!Worked(MappedLayer, dirty', slice' # "stopped")
    BY <1>2 DEF OnSliceTimer, MappedLayer, Contract!Worked, TakenState, Target,
                Contract!Target
  <2>3. dirty' \in SUBSET (MappedLayer.dirty \cup MappedLayer.enable)
    BY <1>2 DEF OnSliceTimer, MappedLayer, Running
  <2>4. slice' = "stopped" => dirty' = {}
    BY <1>2, NothingStrandedStep DEF NothingStranded, IsBusy, Busy
  <2>5. (slice' # "stopped") \in BOOLEAN
    OBVIOUS
  <2>6. MappedLayer' \in Contract!Outcomes(MappedLayer)
    BY <2>2, <2>3, <2>4, <2>5 DEF Contract!Outcomes
  <2> QED BY <2>1, <2>6 DEF Contract!Next, Contract!Advance
<1>3. CASE LowLayerFinishes
  <2>1. slice # "stopped"
    BY <1>3 DEF LowLayerFinishes, NothingStranded
  <2>2. CASE IsBusy
    BY <1>3, <2>2 DEF LowLayerFinishes, OnLowLayerIdle, IsBusy, MappedLayer
  <2>3. CASE ~IsBusy
    <3>1. enableNext = {} /\ dirty = {} /\ slice' = "stopped"
      BY <1>3, <2>3 DEF LowLayerFinishes, OnLowLayerIdle, IsBusy, Busy
    <3>2. MappedLayer' = Contract!Worked(MappedLayer, {}, FALSE)
      BY <1>3, <3>1 DEF LowLayerFinishes, MappedLayer, Contract!Worked,
                        Target, Contract!Target
    <3> QED BY <2>1, <3>2 DEF Contract!Next, Contract!Advance, Contract!Outcomes, MappedLayer
  <2> QED BY <2>2, <2>3
<1>4. CASE UNCHANGED vars
  BY <1>4 DEF vars, mapperVars, MappedLayer
<1> QED BY <1>1, <1>2, <1>3, <1>4 DEF Next, ClientRequests

(* The mapper implements the contract the layers above it are modelled on   *)
(* (its safety; that the mapper keeps working is left to TLC).              *)
THEOREM MapperImplementsContract ==
    Spec => Contract!Init /\ [][Contract!Next]_MappedLayer
<1>1. Init => Contract!Init
  BY DEF Init, Contract!Init, MappedLayer, Contract!InitLayer
<1> QED BY <1>1, ContractStep, TypeAndTiming, MapperNeverStrands, PTL DEF Spec
=============================================================================
