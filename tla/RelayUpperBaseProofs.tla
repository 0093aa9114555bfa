------------------------ MODULE RelayUpperBaseProofs ------------------------
(***************************************************************************)
(* Lemmas about a request on its way through the masks of a layer, and     *)
(* about the contract of the lower layer.  The theorems about the          *)
(* sequencer and the serializer rest on them.                              *)
(***************************************************************************)
EXTENDS RelayUpperBase, TLAPS

(* Where the relays of layer l are when it has worked off what it was asked *)
(* so far.                                                                  *)
Goal(l) == Target(l.state, l.enable, l.set)

(* What process() starts from: a lower layer that works owes an idle().     *)
OwesIdle(l) == LayerBusy(l) => l.armed

LEMMA InitLayerType ==
    /\ InitLayer \in Layer
    /\ OwesIdle(InitLayer) /\ ~LayerBusy(InitLayer)
    /\ Goal(InitLayer) = {}
BY DEF InitLayer, Layer, OwesIdle, LayerBusy, Busy, Goal, Target

(* A request leaves the masks well typed and an idle() owed.                *)
LEMMA RequestedType ==
    ASSUME NEW l \in Layer, NEW E \in SUBSET Relay, NEW S, NEW force \in BOOLEAN
    PROVE  /\ Requested(l, E, S, force) \in Layer
           /\ Requested(l, E, S, force).armed
           /\ Requested(l, E, S, force).state = l.state
           /\ Requested(l, E, S, force).dirty = l.dirty
<1>1. Changing(l.state, E, S, force) \subseteq Relay
  BY DEF Changing
<1>2. SetNext(l.set, Changing(l.state, E, S, force), S) \subseteq Relay
  BY <1>1 DEF Layer, SetNext
<1> QED BY <1>1, <1>2 DEF Requested, Layer

(* A request to a layer with nothing pending moves exactly the enabled      *)
(* relays, to the values asked for.                                         *)
LEMMA RequestedGoal ==
    ASSUME NEW l \in Layer, l.enable = {},
           NEW E \in SUBSET Relay, NEW S, NEW force \in BOOLEAN
    PROVE  Goal(Requested(l, E, S, force)) = (l.state \ E) \cup (S \cap E)
<1> DEFINE q == Requested(l, E, S, force)
           changed == Changing(l.state, E, S, force)
<1>1. q.state = l.state /\ q.enable = changed /\ q.set = (l.set \ changed) \cup (S \cap changed)
  BY DEF Requested, SetNext
<1>2. \A r : r \in changed <=> r \in E /\ (force \/ (r \in S) # (r \in l.state))
  BY DEF Changing
<1>3. Goal(q) = (l.state \ changed) \cup (((l.set \ changed) \cup (S \cap changed)) \cap changed)
  BY <1>1 DEF Goal, Target
<1> HIDE DEF changed, q
<1>4. \A r : r \in Goal(q) <=>
                \/ r \in l.state /\ r \notin changed
                \/ r \in S /\ r \in changed
  BY <1>3
<1>5. ASSUME NEW r
      PROVE  r \in Goal(q) <=> r \in (l.state \ E) \cup (S \cap E)
  BY <1>2, <1>4
<1> QED BY <1>5 DEF q

(* What process() hands down, without bForce.                               *)
HandedDown(l, E, T) == Requested(l, E, T, FALSE)

LEMMA HandedDownFacts ==
    ASSUME NEW l \in Layer, NEW E \in SUBSET Relay, NEW T
    PROVE  /\ HandedDown(l, E, T) \in Layer
           /\ HandedDown(l, E, T).armed
           /\ HandedDown(l, E, T).state = l.state
           /\ HandedDown(l, E, T).dirty = l.dirty
           /\ l.enable = {} => Goal(HandedDown(l, E, T)) = (l.state \ E) \cup (T \cap E)
<1>1. FALSE \in BOOLEAN
  OBVIOUS
<1>2. /\ Requested(l, E, T, FALSE) \in Layer
      /\ Requested(l, E, T, FALSE).armed
      /\ Requested(l, E, T, FALSE).state = l.state
      /\ Requested(l, E, T, FALSE).dirty = l.dirty
  BY <1>1, RequestedType
<1>3. l.enable = {} => Goal(Requested(l, E, T, FALSE)) = (l.state \ E) \cup (T \cap E)
  BY <1>1, RequestedGoal
<1> QED BY <1>2, <1>3 DEF HandedDown

(* Whatever the lower layer does, its goal stays, its relays are on their   *)
(* way there, and without an idle() owed nothing is left to do.             *)
LEMMA OutcomeType ==
    ASSUME NEW l \in Layer, NEW m \in Outcomes(l)
    PROVE  /\ m \in Layer /\ OwesIdle(m)
           /\ m.enable = {} /\ m.state = Goal(l) /\ Goal(m) = Goal(l)
           /\ m.dirty \subseteq l.dirty \cup l.enable
           /\ ~m.armed => m.dirty = {} /\ ~LayerBusy(m)
<1>1. Goal(l) \subseteq Relay
  BY DEF Goal, Target, Layer
<1>2. PICK D, w : /\ D \subseteq l.dirty \cup l.enable /\ w \in BOOLEAN
                  /\ m = Worked(l, D, w) /\ (w \/ D = {})
  BY DEF Outcomes
<1>3. D \subseteq Relay
  BY <1>2 DEF Layer
<1>4. m = [state |-> Goal(l), enable |-> {}, set |-> l.set, dirty |-> D, armed |-> w]
  BY <1>2 DEF Worked, Goal
<1>5. m \in Layer
  BY <1>1, <1>2, <1>3, <1>4 DEF Layer
<1>6. m.enable = {} /\ m.state = Goal(l) /\ m.dirty = D /\ m.armed = w
  BY <1>4
<1>7. Goal(m) = m.state
  BY <1>6 DEF Goal, Target
<1> QED BY <1>2, <1>5, <1>6, <1>7 DEF OwesIdle, LayerBusy, Busy

(* The operators on masks, bit by bit.                                      *)
LEMMA InTarget ==
    ASSUME NEW st, NEW E, NEW S, NEW r
    PROVE  r \in Target(st, E, S) <=> (r \in st /\ r \notin E) \/ (r \in S /\ r \in E)
BY DEF Target

LEMMA InChanging ==
    ASSUME NEW st, NEW E, NEW S, NEW r
    PROVE  r \in Changing(st, E, S, FALSE) <=> r \in E /\ ~(r \in S <=> r \in st)
BY DEF Changing

LEMMA InSetNext ==
    ASSUME NEW set, NEW E, NEW S, NEW r
    PROVE  r \in SetNext(set, E, S) <=> (r \in set /\ r \notin E) \/ (r \in S /\ r \in E)
BY DEF SetNext

(* A request collected by an idle layer asks for what its client asked for: *)
(* leaving out the relays that are where they shall be changes nothing.     *)
LEMMA CollectedTarget ==
    ASSUME NEW st, NEW E, NEW S, NEW set
    PROVE  Target(st, Changing(st, E, S, FALSE), SetNext(set, Changing(st, E, S, FALSE), S))
           = Target(st, E, S)
<1>1. ASSUME NEW r
      PROVE  r \in Target(st, Changing(st, E, S, FALSE),
                          SetNext(set, Changing(st, E, S, FALSE), S))
             <=> r \in Target(st, E, S)
  <2>1. r \in Changing(st, E, S, FALSE) <=> r \in E /\ ~(r \in S <=> r \in st)
    BY InChanging
  <2>2. r \in Target(st, E, S) <=> (r \in st /\ r \notin E) \/ (r \in S /\ r \in E)
    BY InTarget
  <2> DEFINE changed == Changing(st, E, S, FALSE)
             next    == SetNext(set, changed, S)
  <2> HIDE DEF changed
  <2>3. r \in next <=> (r \in set /\ r \notin changed) \/ (r \in S /\ r \in changed)
    BY InSetNext DEF next
  <2>4. r \in Target(st, changed, next)
        <=> (r \in st /\ r \notin changed) \/ (r \in next /\ r \in changed)
    <3> HIDE DEF next
    <3> QED BY InTarget
  <2> QED BY <2>1, <2>2, <2>3, <2>4 DEF changed
<1> QED BY <1>1 DEF Target

(* The relays of a new transaction are those that differ from its target.   *)
LEMMA DifferingTarget ==
    ASSUME NEW st, NEW enable, NEW set, NEW r
    PROVE  r \in Differing(st, enable, set) <=> ~(r \in st <=> r \in Target(st, enable, set))
BY DEF Differing, Target
-----------------------------------------------------------------------------
(* What a handler of the lower layer's idle() finds: that layer with        *)
(* nothing left to do, and this one as it was, or with the request its      *)
(* client made on the end of a forced one.                                  *)
LEMMA FoundCases ==
    ASSUME NEW f \in Found
    PROVE  /\ layer.armed
           /\ \E l \in Outcomes(layer) :
                /\ ~l.armed
                /\ \/ f = [up |-> [up EXCEPT !.bypass = FALSE], low |-> l, wanted |-> wanted,
                           idles |-> IF up.bypass THEN Emit(idles, 1) ELSE idles]
                   \/ /\ up.bypass /\ use.replies # {}
                      /\ \E E \in SUBSET use.replies, force \in use.forces :
                            \E S \in SUBSET E : f = RequestInSlot(l, E, S, force)
<1>1. PICK l \in LowLayerDone : f \in Reported(l) \cup Replied(l)
  BY DEF Found
<1>2. layer.armed /\ l \in Outcomes(layer) /\ ~l.armed
  BY <1>1 DEF LowLayerDone
<1>3. CASE f \in Reported(l)
  BY <1>2, <1>3 DEF Reported
<1>4. CASE f \in Replied(l)
  <2>1. up.bypass /\ use.replies # {}
    BY <1>4 DEF Replied
  <2>2. \E E \in SUBSET use.replies, force \in use.forces :
           \E S \in SUBSET E : f = RequestInSlot(l, E, S, force)
    BY <1>4, <2>1 DEF Replied
  <2> QED BY <1>2, <2>1, <2>2
<1> QED BY <1>1, <1>3, <1>4

LEMMA EmitType ==
    ASSUME NEW count \in 0..2
    PROVE  /\ Emit(count, 1) \in 0..2 /\ Emit(count, 1) > 0
           /\ count = 0 => Emit(count, 1) = 1
BY DEF Emit

(* A request of this layer's client names relays.                           *)
LEMMA AskedRelays ==
    ASSUME use \in Uses, UpperRequests
    PROVE  \E E \in SUBSET Relay : \E S \in SUBSET E : \E force \in use.forces :
              UpperStartSetMulti(E, S, force)
<1>1. use.asks \subseteq SUBSET Relay
  BY UsesAssumption
<1> QED BY <1>1 DEF UpperRequests
=============================================================================
