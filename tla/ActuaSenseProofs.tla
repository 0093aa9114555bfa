-------------------------- MODULE ActuaSenseProofs --------------------------
(***************************************************************************)
(* Theorems about ActuaSense, for every set of actions, all requests and   *)
(* timeouts, every demo set-up, every behaviour of the inputs and of the   *)
(* clock, and both kinds of client.                                        *)
(***************************************************************************)
EXTENDS ActuaSense, TLAPS

(* What is known of one action, as TypeOK asks for it.                      *)
ActionData ==
    [st : {"inactive", "active", "long", "long_err"},
     timeout : 0..MaxTimeout, since : Never..(MaxTimeout + MaxGap),
     desired : BOOLEAN, err : BOOLEAN, long : BOOLEAN]
InTime(d)     == d.st = "active" => d.since < d.timeout \/ d.since = 0
Observable(d) == d.st \in {"long", "long_err"} => d.long
GoodAction(d) == d \in ActionData /\ InTime(d) /\ Observable(d)

(* The part of TypeOK about the actions, and the rest.                      *)
ActOK == act \in [Action -> ActionData] /\ \A a \in Action : GoodAction(act[a])
OthersOK ==
    /\ adding \in BOOLEAN /\ polled \in BOOLEAN
    /\ demo \in [Sensed -> Demos]
    /\ outEnable \subseteq Driven /\ outSet \subseteq Driven
    /\ output \subseteq Driven /\ asked \subseteq Driven
    /\ inputs \subseteq Sensed /\ elapsed \in 0..MaxGap /\ client \in Clients
    /\ notified \in 0..2 /\ told \in BOOLEAN /\ failed \in BOOLEAN

LEMMA TypeParts == TypeOK <=> ActOK /\ OthersOK
BY DEF TypeOK, ActOK, OthersOK, ActionData, GoodAction, InTime, Observable, Active, Observed, Lost

LEMMA InactiveIsGood == GoodAction(Inactive)
BY TimeAssumption DEF GoodAction, InTime, Observable, ActionData, Inactive, Never
-----------------------------------------------------------------------------
(* While a multi action is being put together nothing is told of it.        *)
NothingToldYet == adding => notified = 0

(* What the client asked for is on the outputs or kept for them.            *)
NothingKeptOutside == ~adding => outEnable = {}
KeptWillFollow     == outSet = asked /\ Transferred(outEnable, outSet) = asked

(* The inductive invariant.  FinishedMeansAllDone needs NothingToldYet, as  *)
(* an action may become active only inside a multi action.                  *)
ActuaInv ==
    /\ ActOK /\ OthersOK
    /\ NothingToldYet /\ FinishedMeansAllDone /\ FailureTold
    /\ NothingKeptOutside /\ KeptWillFollow

LEMMA InitInv == Init => ActuaInv
<1> SUFFICES ASSUME Init PROVE ActuaInv
  OBVIOUS
<1>1. ActOK
  BY InactiveIsGood DEF Init, ActOK, GoodAction
<1>2. polled \in BOOLEAN /\ told \in BOOLEAN /\ failed \in BOOLEAN
  BY Zenon DEF Init
<1>3. OthersOK
  BY <1>2, TimeAssumption DEF Init, OthersOK
<1>4. NothingToldYet /\ FinishedMeansAllDone
  BY DEF Init, NothingToldYet, FinishedMeansAllDone
<1>5. FailureTold
  BY DEF Init, FailureTold
<1>6. NothingKeptOutside /\ KeptWillFollow
  BY DEF Init, NothingKeptOutside, KeptWillFollow, Transferred
<1> QED BY <1>1, <1>3, <1>4, <1>5, <1>6 DEF ActuaInv
-----------------------------------------------------------------------------
(* The client's calls.                                                      *)
LEMMA OpenStep ==
    ASSUME ActuaInv, OpenMultiAction
    PROVE  ActuaInv'
<1>1. /\ act' = [a \in Action |-> IF a \in Active THEN Inactive ELSE act[a]]
      /\ adding' = TRUE /\ notified' = 0 /\ failed' = FALSE
      /\ UNCHANGED <<demo, inputs, elapsed, polled, client, told>>
      /\ UNCHANGED <<outEnable, outSet, output, asked>>
  BY DEF OpenMultiAction, io
<1>2. ActOK'
  BY <1>1, InactiveIsGood DEF ActuaInv, ActOK, GoodAction
<1>3. adding' \in BOOLEAN /\ failed' \in BOOLEAN
  BY <1>1, Zenon
<1>4. OthersOK'
  BY <1>1, <1>3 DEF ActuaInv, OthersOK
<1>5. NothingToldYet' /\ FinishedMeansAllDone'
  BY <1>1 DEF NothingToldYet, FinishedMeansAllDone
<1>6. FailureTold'
  BY <1>1 DEF FailureTold
<1>7. NothingKeptOutside' /\ KeptWillFollow'
  BY <1>1 DEF ActuaInv, NothingKeptOutside, KeptWillFollow, Transferred
<1> QED BY <1>2, <1>4, <1>5, <1>6, <1>7 DEF ActuaInv

(* Calls on the outputs leave the actions and the signals alone.            *)
LEMMA OutputsOnly ==
    ASSUME ActuaInv, UNCHANGED <<act, demo, inputs, elapsed, polled, client, signals>>,
           adding' \in BOOLEAN, adding' => adding,
           outEnable' \subseteq Driven, outSet' \subseteq Driven,
           output' \subseteq Driven, asked' \subseteq Driven
    PROVE  /\ ActOK' /\ OthersOK'
           /\ NothingToldYet' /\ FinishedMeansAllDone' /\ FailureTold'
<1>1. UNCHANGED <<notified, told, failed>>
  BY DEF signals
<1>2. ActOK'
  BY DEF ActuaInv, ActOK
<1>3. OthersOK'
  BY <1>1 DEF ActuaInv, OthersOK
<1>4. NothingToldYet' /\ FinishedMeansAllDone'
  BY <1>1 DEF ActuaInv, NothingToldYet, FinishedMeansAllDone, Active
<1>5. FailureTold'
  BY <1>1 DEF ActuaInv, FailureTold
<1> QED BY <1>2, <1>3, <1>4, <1>5

LEMMA OutSetStep ==
    ASSUME ActuaInv, NEW a \in Driven, NEW on \in BOOLEAN, StartOutSet(a, on)
    PROVE  ActuaInv'
<1>1. /\ outSet' = IF on THEN outSet \cup {a} ELSE outSet \ {a}
      /\ asked'  = IF on THEN asked \cup {a} ELSE asked \ {a}
      /\ UNCHANGED <<adding, act, demo, inputs, elapsed, polled, client, signals>>
  BY DEF StartOutSet
<1>2. \/ adding /\ outEnable' = outEnable \cup {a} /\ output' = output
      \/ ~adding /\ output' = Transferred(outEnable \cup {a}, outSet')
                 /\ outEnable' = outEnable \ {a}
  BY DEF StartOutSet
<1>3. /\ outEnable' \subseteq Driven /\ outSet' \subseteq Driven
      /\ output' \subseteq Driven /\ asked' \subseteq Driven
  BY <1>1, <1>2 DEF ActuaInv, OthersOK, Transferred
<1>4. /\ ActOK' /\ OthersOK'
      /\ NothingToldYet' /\ FinishedMeansAllDone' /\ FailureTold'
  BY <1>1, <1>3, OutputsOnly DEF ActuaInv, OthersOK
<1>5. NothingKeptOutside'
  BY <1>1, <1>2 DEF ActuaInv, NothingKeptOutside
<1>6. outSet' = asked'
  BY <1>1 DEF ActuaInv, KeptWillFollow
<1>7. (output' \ outEnable') \cup (outSet' \cap outEnable') = asked'
  BY <1>1, <1>2 DEF ActuaInv, KeptWillFollow, Transferred, NothingKeptOutside
<1> QED BY <1>4, <1>5, <1>6, <1>7 DEF ActuaInv, KeptWillFollow, Transferred

LEMMA CloseStep ==
    ASSUME ActuaInv, CloseMultiAction
    PROVE  ActuaInv'
<1>1. /\ adding' = FALSE /\ output' = Transferred(outEnable, outSet) /\ outEnable' = {}
      /\ UNCHANGED <<act, demo, inputs, elapsed, polled, client, signals>>
      /\ UNCHANGED <<outSet, asked>>
  BY DEF CloseMultiAction
<1>2. /\ outEnable' \subseteq Driven /\ outSet' \subseteq Driven
      /\ output' \subseteq Driven /\ asked' \subseteq Driven
  BY <1>1 DEF ActuaInv, OthersOK, Transferred
<1>3. /\ ActOK' /\ OthersOK'
      /\ NothingToldYet' /\ FinishedMeansAllDone' /\ FailureTold'
  BY <1>1, <1>2, OutputsOnly
<1>4. NothingKeptOutside' /\ KeptWillFollow'
  BY <1>1 DEF ActuaInv, NothingKeptOutside, KeptWillFollow, Transferred
<1> QED BY <1>3, <1>4 DEF ActuaInv

(* Steps that change the actions only: none gets active but inside a multi  *)
(* action.                                                                  *)
LEMMA ActionsOnly ==
    ASSUME ActuaInv, UNCHANGED <<adding, demo, inputs, elapsed, polled, client, io, signals>>,
           ActOK', adding \/ Active' \subseteq Active
    PROVE  ActuaInv'
<1>1. UNCHANGED <<notified, told, failed, outEnable, outSet, output, asked>>
  BY DEF signals, io
<1>2. OthersOK'
  BY <1>1 DEF ActuaInv, OthersOK
<1>3. NothingToldYet' /\ FinishedMeansAllDone'
  BY <1>1 DEF ActuaInv, NothingToldYet, FinishedMeansAllDone
<1>4. FailureTold'
  BY <1>1 DEF ActuaInv, FailureTold
<1>5. NothingKeptOutside' /\ KeptWillFollow'
  BY <1>1 DEF ActuaInv, NothingKeptOutside, KeptWillFollow, Transferred
<1> QED BY <1>2, <1>3, <1>4, <1>5 DEF ActuaInv

LEMMA ObserveStep ==
    ASSUME ActuaInv, NEW a \in Action, NEW desired \in States(a), NEW r \in Requests,
           StartInObserve(a, desired, r)
    PROVE  ActuaInv'
<1> DEFINE st == IF adding THEN "active" ELSE IF r.long THEN "long" ELSE "inactive"
           d  == IF st = "inactive" THEN Inactive
                 ELSE [st |-> st, timeout |-> r.timeout, since |-> 0,
                       desired |-> desired, err |-> r.err, long |-> r.long]
<1>1. /\ act' = [act EXCEPT ![a] = d]
      /\ UNCHANGED <<adding, demo, inputs, elapsed, polled, client, io, signals>>
  BY DEF StartInObserve
<1>2. GoodAction(d)
  <2>1. r.timeout \in 0..MaxTimeout /\ r.err \in BOOLEAN /\ r.long \in BOOLEAN
    BY RequestsAssumption
  <2>2. desired \in BOOLEAN
    BY Zenon DEF States
  <2>3. 0 \in Never..(MaxTimeout + MaxGap)
    BY TimeAssumption DEF Never
  <2>4. CASE st = "inactive"
    BY <2>4, InactiveIsGood
  <2>5. CASE st # "inactive"
    <3>1. d \in ActionData
      BY <2>1, <2>2, <2>3, <2>5 DEF ActionData
    <3>2. InTime(d) /\ Observable(d)
      BY <2>5 DEF InTime, Observable
    <3> QED BY <3>1, <3>2 DEF GoodAction
  <2> QED BY <2>4, <2>5
<1>3. ~adding => d.st # "active"
  BY DEF Inactive
<1> HIDE DEF d
<1>4. ActOK'
  BY <1>1, <1>2 DEF ActuaInv, ActOK, GoodAction
<1>5. adding \/ Active' \subseteq Active
  BY <1>1, <1>3 DEF Active, ActuaInv, ActOK
<1> QED BY <1>1, <1>4, <1>5, ActionsOnly

LEMMA LongTermStep ==
    ASSUME ActuaInv, GetLongTermStatus \/ \E A \in OneOrAll : RemoveFromLongObserv(A)
    PROVE  ActuaInv'
<1>1. UNCHANGED <<adding, demo, inputs, elapsed, polled, client, io, signals>>
  BY DEF GetLongTermStatus, RemoveFromLongObserv
<1>2. PICK L \in SUBSET (Observed \cup Lost) :
          act' = [a \in Action |-> IF a \in L THEN Inactive ELSE act[a]]
  <2>1. CASE GetLongTermStatus
    BY <2>1 DEF GetLongTermStatus, TakenErrors
  <2>2. ASSUME NEW A \in OneOrAll, RemoveFromLongObserv(A)
        PROVE  \E L \in SUBSET (Observed \cup Lost) :
                  act' = [a \in Action |-> IF a \in L THEN Inactive ELSE act[a]]
    <3>1. act' = [a \in Action |->
                    IF a \in A \cap (Observed \cup Lost) THEN Inactive ELSE act[a]]
      BY <2>2 DEF RemoveFromLongObserv
    <3>2. A \cap (Observed \cup Lost) \in SUBSET (Observed \cup Lost)
      OBVIOUS
    <3> QED BY <3>1, <3>2
  <2> QED BY <2>1, <2>2
<1>3. ActOK'
  BY <1>2, InactiveIsGood DEF ActuaInv, ActOK, GoodAction
<1>4. Active' \subseteq Active
  BY <1>2 DEF Active, Inactive
<1> QED BY <1>1, <1>3, <1>4, ActionsOnly

(* Steps that change neither an action, an output nor a signal.             *)
LEMMA QuietStep ==
    ASSUME ActuaInv, Tick \/ \E A \in OneOrAll : \E kind \in Demos : SetupDemo(A, kind)
    PROVE  ActuaInv'
<1>1. UNCHANGED <<adding, act, inputs, polled, client>>
      /\ UNCHANGED <<notified, told, failed, outEnable, outSet, output, asked>>
  BY DEF Tick, SetupDemo, io, signals
<1>2. elapsed' \in 0..MaxGap /\ demo' \in [Sensed -> Demos]
  <2>1. elapsed \in 0..MaxGap /\ demo \in [Sensed -> Demos]
    BY DEF ActuaInv, OthersOK
  <2>2. CASE Tick
    BY <2>1, <2>2, TimeAssumption DEF Tick
  <2>3. CASE \E A \in OneOrAll : \E kind \in Demos : SetupDemo(A, kind)
    BY <2>1, <2>3 DEF SetupDemo
  <2> QED BY <2>2, <2>3
<1>3. ActOK'
  BY <1>1 DEF ActuaInv, ActOK
<1>4. OthersOK'
  BY <1>1, <1>2 DEF ActuaInv, OthersOK
<1>5. NothingToldYet' /\ FinishedMeansAllDone'
  BY <1>1 DEF ActuaInv, NothingToldYet, FinishedMeansAllDone, Active
<1>6. FailureTold'
  BY <1>1 DEF ActuaInv, FailureTold
<1>7. NothingKeptOutside' /\ KeptWillFollow'
  BY <1>1 DEF ActuaInv, NothingKeptOutside, KeptWillFollow, Transferred
<1> QED BY <1>3, <1>4, <1>5, <1>6, <1>7 DEF ActuaInv
-----------------------------------------------------------------------------
(* The age of an action in time stays within its bound at the next poll.    *)
LEMMA LaterInRange ==
    ASSUME NEW d, GoodAction(d), d.st = "active", NEW gap \in Never..MaxGap
    PROVE  Later(d.since, gap) \in Never..(MaxTimeout + MaxGap)
<1> DEFINE s == d.since
           t == d.timeout
<1>1. s \in Never..(MaxTimeout + MaxGap) /\ t \in 0..MaxTimeout /\ (s < t \/ s = 0)
  BY DEF GoodAction, InTime, ActionData
<1> HIDE DEF s, t
<1>2. Later(s, gap) \in Never..(MaxTimeout + MaxGap)
  BY <1>1, TimeAssumption DEF Later, Never
<1> QED BY <1>2 DEF s

LEMMA GapRange ==
    ASSUME OthersOK, NEW gap \in Gaps
    PROVE  gap \in Never..MaxGap
BY TimeAssumption DEF OthersOK, Gaps, Never

(* The actions a poll looks at, and what it then knows of each of them.     *)
Watched   == IF adding THEN {} ELSE Active
Aged(gap) == [a \in Action |-> IF a \in Watched
                THEN [act[a] EXCEPT !.since = Later(act[a].since, gap)]
                ELSE act[a]]

LEMMA AgedActions ==
    ASSUME ActuaInv, NEW gap \in Gaps, NEW a \in Action
    PROVE  /\ Aged(gap)[a] \in ActionData
           /\ Aged(gap)[a].st = act[a].st /\ Aged(gap)[a].long = act[a].long
           /\ a \notin Watched => Aged(gap)[a] = act[a]
<1>1. CASE a \in Watched
  <2>1. GoodAction(act[a]) /\ act[a].st = "active"
    BY <1>1 DEF ActuaInv, ActOK, Active, Watched
  <2>2. Later(act[a].since, gap) \in Never..(MaxTimeout + MaxGap)
    BY <2>1, LaterInRange, GapRange DEF ActuaInv
  <2>3. Aged(gap)[a] = [act[a] EXCEPT !.since = Later(act[a].since, gap)]
    BY <1>1 DEF Aged
  <2> QED BY <1>1, <2>1, <2>2, <2>3 DEF GoodAction, ActionData
<1>2. CASE a \notin Watched
  BY <1>2 DEF ActuaInv, ActOK, Aged
<1> QED BY <1>1, <1>2

(* A poll, with its local definitions given names: data is what is known of *)
(* the actions, and the rest are the sets of those that end in it.          *)
PollOutcome(data, arrived, timedOut, failures, kept, lost, pending) ==
    /\ act' = [a \in Action |->
                  IF a \in lost THEN [data[a] EXCEPT !.st = "long_err"]
                  ELSE IF a \in kept THEN [data[a] EXCEPT !.st = "long"]
                  ELSE IF a \in (Active \ pending) \cup arrived \cup timedOut
                       THEN Inactive ELSE data[a]]
    /\ IF Finished(arrived, timedOut, pending)
       THEN /\ notified' = IF notified = 2 THEN 2 ELSE notified + 1
            /\ told' = (failures # {})
       ELSE UNCHANGED <<notified, told>>
    /\ failed' = (failed \/ failures # {})

LEMMA PollNamed ==
    ASSUME NEW in \in SUBSET Sensed, NEW gap \in Gaps, Poll(in, gap)
    PROVE  \E arrived, timedOut, failures, kept, lost :
              /\ arrived \in SUBSET Watched /\ timedOut \in SUBSET (Watched \ arrived)
              /\ failures \in SUBSET timedOut /\ kept \in SUBSET arrived
              /\ lost \in SUBSET (Observed \cup kept)
              /\ \A a \in Watched \ arrived : TimedOut(Aged(gap)[a]) => a \in timedOut
              /\ \A a \in kept : act[a].long
              /\ PollOutcome(Aged(gap), arrived, timedOut, failures, kept, lost,
                             Pending(arrived \cup timedOut, failures))
<1> DEFINE data     == Aged(gap)
           arrived  == {a \in Watched : Reached(a, data[a], in)}
           timedOut == {a \in Watched \ arrived : TimedOut(data[a])}
           failures == {a \in timedOut : act[a].err}
           kept     == {a \in arrived : act[a].long}
           lost     == LostOf(data, kept, in)
           pending  == Pending(arrived \cup timedOut, failures)
<1>1. PollOutcome(data, arrived, timedOut, failures, kept, lost, pending)
  BY DEF Poll, PollOutcome, Aged, Watched
<1>2. /\ arrived \in SUBSET Watched /\ timedOut \in SUBSET (Watched \ arrived)
      /\ failures \in SUBSET timedOut /\ kept \in SUBSET arrived
      /\ lost \in SUBSET (Observed \cup kept)
      /\ \A a \in Watched \ arrived : TimedOut(data[a]) => a \in timedOut
      /\ \A a \in kept : act[a].long
  BY DEF LostOf
<1> HIDE DEF data, arrived, timedOut, failures, kept, lost
<1> QED BY <1>1, <1>2 DEF data

(* The actions after a poll are good again: one that stays active is in     *)
(* time, one that is observed or lost has its long-term text.  Only actions *)
(* that are pending stay active.                                            *)
LEMMA PollActions ==
    ASSUME ActuaInv, NEW gap \in Gaps,
           NEW arrived \in SUBSET Watched, NEW timedOut \in SUBSET (Watched \ arrived),
           NEW failures, NEW kept \in SUBSET arrived, NEW lost \in SUBSET (Observed \cup kept),
           NEW pending \in SUBSET (Active \ (arrived \cup timedOut)),
           \A a \in Watched \ arrived : TimedOut(Aged(gap)[a]) => a \in timedOut,
           \A a \in kept : act[a].long,
           PollOutcome(Aged(gap), arrived, timedOut, failures, kept, lost, pending)
    PROVE  ActOK' /\ Active' \subseteq pending
<1> DEFINE data == Aged(gap)
<1>1. act' = [a \in Action |->
                 IF a \in lost THEN [data[a] EXCEPT !.st = "long_err"]
                 ELSE IF a \in kept THEN [data[a] EXCEPT !.st = "long"]
                 ELSE IF a \in (Active \ pending) \cup arrived \cup timedOut
                      THEN Inactive ELSE data[a]]
  BY DEF PollOutcome
<1>2. Watched \subseteq Active /\ Active \subseteq Action
  BY DEF Active, Watched
<1>3. \A a \in Action : /\ data[a] \in ActionData
                        /\ data[a].st = act[a].st /\ data[a].long = act[a].long
                        /\ a \notin Watched => data[a] = act[a]
  BY AgedActions
<1> HIDE DEF data
<1>4. ASSUME NEW a \in Action
      PROVE  GoodAction(act'[a]) /\ (act'[a].st = "active" => a \in pending)
  <2>1. a \in Observed \cup kept => act[a].long
    BY DEF Observed, ActuaInv, ActOK, GoodAction, Observable
  <2>2. CASE a \in lost
    <3>1. act'[a] = [data[a] EXCEPT !.st = "long_err"] /\ data[a].long
      BY <1>1, <1>3, <2>1, <2>2
    <3> QED BY <1>3, <3>1 DEF GoodAction, ActionData, InTime, Observable
  <2>3. CASE a \in kept \ lost
    <3>1. act'[a] = [data[a] EXCEPT !.st = "long"] /\ data[a].long
      BY <1>1, <1>3, <2>1, <2>3
    <3> QED BY <1>3, <3>1 DEF GoodAction, ActionData, InTime, Observable
  <2>4. CASE a \notin lost \cup kept /\ act'[a] = Inactive
    BY <2>4, InactiveIsGood DEF Inactive
  <2>5. CASE a \notin lost \cup kept /\ act'[a] # Inactive
    <3>1. act'[a] = data[a] /\ a \notin (Active \ pending) \cup arrived \cup timedOut
      BY <1>1, <2>5
    <3>2. CASE a \in Watched
      <4>1. data[a].since < data[a].timeout
        <5>1. ~TimedOut(data[a])
          BY <3>1, <3>2 DEF data
        <5>2. data[a].since \in Int /\ data[a].timeout \in Int
          BY <1>3 DEF ActionData, Never
        <5> QED BY <5>1, <5>2 DEF TimedOut
      <4>2. data[a].st = "active" /\ a \in pending
        BY <1>2, <1>3, <3>1, <3>2 DEF Active
      <4> QED BY <1>3, <3>1, <4>1, <4>2 DEF GoodAction, InTime, Observable
    <3>3. CASE a \notin Watched
      BY <1>3, <3>1, <3>3 DEF ActuaInv, ActOK, Active
    <3> QED BY <3>2, <3>3
  <2> QED BY <2>2, <2>3, <2>4, <2>5
<1>5. act' \in [Action -> ActionData]
  BY <1>1, <1>4 DEF GoodAction
<1> QED BY <1>4, <1>5 DEF ActOK, Active

(* What a poll tells: a multi action ends with its last action or with its  *)
(* first failure, and in no other way.                                      *)
LEMMA PollSignals ==
    ASSUME ActuaInv,
           NEW arrived \in SUBSET Watched, NEW timedOut \in SUBSET (Watched \ arrived),
           NEW failures \in SUBSET timedOut, NEW data, NEW kept, NEW lost, NEW pending,
           pending = Pending(arrived \cup timedOut, failures),
           PollOutcome(data, arrived, timedOut, failures, kept, lost, pending)
    PROVE  \/ UNCHANGED <<notified, told, failed>>
           \/ /\ ~adding /\ Active # {} /\ pending = {}
              /\ notified = 0 /\ notified' = 1
              /\ told' = (failures # {}) /\ failed' = (failures # {})
<1>1. CASE ~Finished(arrived, timedOut, pending)
  <2>1. failures = {}
    BY <1>1 DEF Finished, Pending
  <2>2. UNCHANGED <<notified, told>> /\ failed' = (failed \/ FALSE)
    BY <1>1, <2>1 DEF PollOutcome
  <2>3. failed' = failed
    BY <2>2 DEF ActuaInv, OthersOK
  <2> QED BY <2>2, <2>3
<1>2. CASE Finished(arrived, timedOut, pending)
  <2>1. arrived \cup timedOut # {} /\ pending = {}
    BY <1>2 DEF Finished
  <2>2. ~adding /\ Active # {}
    BY <2>1 DEF Watched
  <2>3. notified = 0
    BY <2>2 DEF ActuaInv, FinishedMeansAllDone, OthersOK
  <2>4. ~failed
    BY <2>3 DEF ActuaInv, FailureTold
  <2>5. notified' = 1 /\ told' = (failures # {})
    BY <1>2, <2>3 DEF PollOutcome
  <2>6. failed' = (failures # {})
    BY <2>4 DEF PollOutcome
  <2> QED BY <2>1, <2>2, <2>3, <2>5, <2>6
<1> QED BY <1>1, <1>2

LEMMA PollStep ==
    ASSUME ActuaInv, OnPollTimer
    PROVE  ActuaInv'
<1>1. PICK in \in SUBSET Sensed, gap \in Gaps : inputs' = in /\ Poll(in, gap)
  BY DEF OnPollTimer
<1>2. /\ elapsed' = 0 /\ polled' = TRUE
      /\ UNCHANGED <<adding, demo, client, outEnable, outSet, output, asked>>
  BY DEF OnPollTimer, io
<1>3. PICK arrived, timedOut, failures, kept, lost :
              /\ arrived \in SUBSET Watched /\ timedOut \in SUBSET (Watched \ arrived)
              /\ failures \in SUBSET timedOut /\ kept \in SUBSET arrived
              /\ lost \in SUBSET (Observed \cup kept)
              /\ \A a \in Watched \ arrived : TimedOut(Aged(gap)[a]) => a \in timedOut
              /\ \A a \in kept : act[a].long
              /\ PollOutcome(Aged(gap), arrived, timedOut, failures, kept, lost,
                             Pending(arrived \cup timedOut, failures))
  BY <1>1, PollNamed
<1> DEFINE pending == Pending(arrived \cup timedOut, failures)
<1>4. pending \in SUBSET (Active \ (arrived \cup timedOut))
  BY <1>3 DEF Pending, Watched
<1> HIDE DEF pending
<1>5. PollOutcome(Aged(gap), arrived, timedOut, failures, kept, lost, pending)
  BY <1>3 DEF pending
<1>6. ActOK' /\ Active' \subseteq pending
  BY <1>3, <1>4, <1>5, PollActions
<1>7. \/ UNCHANGED <<notified, told, failed>>
      \/ /\ ~adding /\ Active # {} /\ pending = {}
         /\ notified = 0 /\ notified' = 1
         /\ told' = (failures # {}) /\ failed' = (failures # {})
  BY <1>3, <1>5, PollSignals DEF pending
<1>8. notified' \in 0..2 /\ told' \in BOOLEAN /\ failed' \in BOOLEAN
  <2>1. notified \in 0..2 /\ told \in BOOLEAN /\ failed \in BOOLEAN
    BY DEF ActuaInv, OthersOK
  <2>2. (failures # {}) \in BOOLEAN
    OBVIOUS
  <2>3. notified' \in 0..2
    BY <1>7, <2>1
  <2> QED BY <1>7, <2>1, <2>2, <2>3, Zenon
<1>9. polled' \in BOOLEAN /\ elapsed' \in 0..MaxGap /\ inputs' \subseteq Sensed
  <2>1. polled' \in BOOLEAN
    BY <1>2, Zenon
  <2> QED BY <1>1, <1>2, <2>1, TimeAssumption
<1>10. OthersOK'
  BY <1>2, <1>8, <1>9 DEF ActuaInv, OthersOK
<1>11. NothingToldYet' /\ FinishedMeansAllDone'
  BY <1>2, <1>4, <1>6, <1>7 DEF ActuaInv, NothingToldYet, FinishedMeansAllDone
<1>12. FailureTold'
  BY <1>7 DEF ActuaInv, FailureTold
<1>13. NothingKeptOutside' /\ KeptWillFollow'
  BY <1>2 DEF ActuaInv, NothingKeptOutside, KeptWillFollow, Transferred
<1> QED BY <1>6, <1>10, <1>11, <1>12, <1>13 DEF ActuaInv
-----------------------------------------------------------------------------
LEMMA ActuaInvStep == ActuaInv /\ [Next]_vars => ActuaInv'
<1> SUFFICES ASSUME ActuaInv, [Next]_vars PROVE ActuaInv'
  OBVIOUS
<1>1. CASE UNCHANGED vars
  BY <1>1 DEF vars, io, signals, ActuaInv, ActOK, OthersOK, NothingToldYet,
       FinishedMeansAllDone, FailureTold, NothingKeptOutside, KeptWillFollow,
       Transferred, Active
<1> QED BY <1>1, OpenStep, OutSetStep, CloseStep, ObserveStep, LongTermStep, QuietStep,
           PollStep DEF Next

LEMMA ActuaInvariant == Spec => []ActuaInv
BY InitInv, ActuaInvStep, PTL DEF Spec

(* Every variable keeps its type; an action that is still active is in its  *)
(* time, one that is observed or lost was asked to be observed.             *)
THEOREM ActuaTypeCorrect == Spec => []TypeOK
<1>1. ActuaInv => TypeOK
  BY TypeParts DEF ActuaInv
<1> QED BY <1>1, ActuaInvariant, PTL

(* multiActionFinished comes once per multi action at most, and only with   *)
(* none of its actions left active.                                         *)
THEOREM FinishedOnceAndAllDone == Spec => []FinishedMeansAllDone
<1>1. ActuaInv => FinishedMeansAllDone
  BY DEF ActuaInv
<1> QED BY <1>1, ActuaInvariant, PTL

(* A failure in any poll of a multi action is told by its one               *)
(* multiActionFinished, at once, and nothing else is told as a failure.     *)
THEOREM FailuresAreTold == Spec => []FailureTold
<1>1. ActuaInv => FailureTold
  BY DEF ActuaInv
<1> QED BY <1>1, ActuaInvariant, PTL

(* Outside a multi action the outputs are what the client asked for.        *)
THEOREM OutputsAsAsked == Spec => []OutputsFollow
<1>1. ActuaInv => OutputsFollow
  BY DEF ActuaInv, NothingKeptOutside, KeptWillFollow, Transferred, OutputsFollow
<1> QED BY <1>1, ActuaInvariant, PTL
=============================================================================
