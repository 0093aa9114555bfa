----------------------------- MODULE ActuaSense -----------------------------
(***************************************************************************)
(* QActuaSense (src/actuasense/actuasense.cpp): a multi action sets several*)
(* outputs at one time and watches the sensors, poll by poll, until every  *)
(* action of it is at its position or timed out; positions reached may be  *)
(* observed on and on after that (long term).                              *)
(*                                                                         *)
(* All calls and polls are handlers of one event loop.  A client's slot on *)
(* a signal runs at the end of a poll and is a call of its own here.       *)
(* Every action has its own output and sensor bit.                         *)
(***************************************************************************)
EXTENDS Integers

CONSTANTS
    Action,      \* action IDs, the keys of m_PoolIOData
    Driven,      \* those with an output bit
    Sensed,      \* those with an input bit
    Requests,    \* the other arguments of startInObserve, see ASSUME
    Demos,       \* the demo set-ups that are used
    MaxTimeout,  \* the longest timeout of Requests
    MaxGap,      \* bound: the longest time between two polls
    Clients      \* "any" calls at any time; "patient" leaves a running multi
                 \* action alone and begins after the first poll

ASSUME ActionAssumption == Driven \subseteq Action /\ Sensed \subseteq Action
ASSUME TimeAssumption == MaxTimeout \in Nat /\ MaxGap \in Nat
(* err and long: the client passes a text for this error.                   *)
ASSUME RequestsAssumption ==
    /\ Requests \subseteq [timeout : 0..MaxTimeout, err : BOOLEAN, long : BOOLEAN]
    /\ Demos \subseteq {"sensor", "standard", "error"}
    /\ Clients \subseteq {"any", "patient"}

VARIABLES
    adding,     \* m_bInAddingActions
    act,        \* m_PoolIOData: what is known of each action
    demo,       \* demo set-up of the sensors; "sensor" includes a demo bit array
    outEnable,  \* m_OutEnableBitArr
    outSet,     \* m_OutSetBitArr
    inputs,     \* *m_pInBitArr, the input bits, as of the last poll
    elapsed,    \* time since the last poll
    polled,     \* m_TimerElapsedLastPoll has been started, by a first poll
    output,     \* the output bits as the low layer was told
    client,     \* one of Clients, fixed
    asked,      \* the outputs the client has asked for
    notified,   \* multiActionFinished since the last openMultiAction, 0..2
    told,       \* bError of the last multiActionFinished
    failed      \* an action with an error text timed out since openMultiAction

io      == <<outEnable, outSet, output, asked>>
signals == <<notified, told, failed>>
vars    == <<adding, act, demo, inputs, elapsed, polled, client, io, signals>>

(* An action that is not active or observed; the code keeps old values in   *)
(* its other fields, but writes them all before it reads one again.         *)
Inactive == [st |-> "inactive", timeout |-> 0, since |-> 0, desired |-> FALSE,
             err |-> FALSE, long |-> FALSE]
Active   == {a \in Action : act[a].st = "active"}
Observed == {a \in Action : act[a].st = "long"}
Lost     == {a \in Action : act[a].st = "long_err"}

(* m_iMsSinceLastSet of an action that starts before the first poll: the    *)
(* timer is read unstarted, and the difference to its invalid start may be  *)
(* far below zero.                                                          *)
Never == -1

TypeOK ==
    /\ adding \in BOOLEAN /\ polled \in BOOLEAN
    /\ act \in [Action -> [st : {"inactive", "active", "long", "long_err"},
                           timeout : 0..MaxTimeout, since : Never..(MaxTimeout + MaxGap),
                           desired : BOOLEAN, err : BOOLEAN, long : BOOLEAN]]
    /\ \A a \in Active : act[a].since < act[a].timeout \/ act[a].since = 0
    /\ \A a \in Observed \cup Lost : act[a].long
    /\ demo \in [Sensed -> Demos]
    /\ outEnable \subseteq Driven /\ outSet \subseteq Driven
    /\ output \subseteq Driven /\ asked \subseteq Driven
    /\ inputs \subseteq Sensed /\ elapsed \in 0..MaxGap /\ client \in Clients
    /\ notified \in 0..2 /\ told \in BOOLEAN /\ failed \in BOOLEAN

(* m_bInAddingActions is not initialised by the constructor.                *)
Init ==
    /\ adding \in BOOLEAN
    /\ act = [a \in Action |-> Inactive]
    /\ demo \in {d \in [Sensed -> Demos] : \A a, b \in Sensed : d[a] = d[b]}
    /\ outEnable = {} /\ outSet = {} /\ output = {} /\ asked = {}
    /\ inputs = {} /\ elapsed = 0 /\ polled = FALSE
    /\ client \in Clients
    /\ notified = 0 /\ told = FALSE /\ failed = FALSE

(* A multi action is closed and not yet at its end.                         *)
Running == ~adding /\ Active # {}
MayCall == client = "patient" => polled /\ ~Running
-----------------------------------------------------------------------------
(* openMultiAction: actions still active are dropped.                       *)
OpenMultiAction ==
    /\ MayCall
    /\ act' = [a \in Action |-> IF a \in Active THEN Inactive ELSE act[a]]
    /\ adding' = TRUE
    /\ notified' = 0 /\ failed' = FALSE
    /\ UNCHANGED <<demo, inputs, elapsed, polled, client, io, told>>

(* What the low layer makes of an enable and a set mask.                    *)
Transferred(enable, set) == (output \ enable) \cup (set \cap enable)

(* FAULT: outside a multi action the output waits for the next one.         *)
StartOutSetDeferred(a, on) ==
    /\ MayCall
    /\ outSet' = IF on THEN outSet \cup {a} ELSE outSet \ {a}
    /\ asked'  = IF on THEN asked \cup {a} ELSE asked \ {a}
    /\ outEnable' = outEnable \cup {a} /\ UNCHANGED output
    /\ UNCHANGED <<adding, act, demo, inputs, elapsed, polled, client, signals>>

(* startOutSet: kept for closeMultiAction, outside one transferred at once  *)
(* (with whatever else is kept).                                            *)
StartOutSet(a, on) ==
    /\ MayCall
    /\ outSet' = IF on THEN outSet \cup {a} ELSE outSet \ {a}
    /\ asked'  = IF on THEN asked \cup {a} ELSE asked \ {a}
    /\ IF adding
       THEN outEnable' = outEnable \cup {a} /\ UNCHANGED output
       ELSE /\ output' = Transferred(outEnable \cup {a}, outSet')
            /\ outEnable' = outEnable \ {a}
    /\ UNCHANGED <<adding, act, demo, inputs, elapsed, polled, client, signals>>

(* startInObserve: the action is active inside a multi action, outside one  *)
(* it is observed long term or put to rest.                                 *)
StartInObserve(a, desired, r) ==
    /\ MayCall
    /\ LET st == IF adding THEN "active" ELSE IF r.long THEN "long" ELSE "inactive"
       IN  act' = [act EXCEPT ![a] =
               IF st = "inactive" THEN Inactive
               ELSE [st |-> st, timeout |-> r.timeout, since |-> 0,
                     desired |-> desired, err |-> r.err, long |-> r.long]]
    /\ UNCHANGED <<adding, demo, inputs, elapsed, polled, client, io, signals>>

(* closeMultiAction: the outputs kept are transferred together.             *)
CloseMultiAction ==
    /\ MayCall
    /\ adding' = FALSE
    /\ output' = Transferred(outEnable, outSet)
    /\ outEnable' = {}
    /\ UNCHANGED <<act, demo, inputs, elapsed, polled, client, outSet, asked, signals>>
-----------------------------------------------------------------------------
(* FAULT: a timeout is noticed only when it is exceeded.                    *)
TimedOutAfter(d) == d.since > d.timeout
TimedOut(d) == d.since >= d.timeout

(* hasReachedDestinationState of action a with data d and input bits in: an *)
(* action with no sensor is there at its timeout, a standard demo at half   *)
(* of it, a demo error never.                                               *)
Reached(a, d, in) ==
    IF a \notin Sensed THEN TimedOut(d)
    ELSE CASE demo[a] = "sensor"   -> d.desired = (a \in in)
           [] demo[a] = "standard" -> d.since >= d.timeout \div 2
           [] demo[a] = "error"    -> FALSE

(* What QElapsedTimer.restart() may return.                                 *)
Gaps == IF polled THEN {elapsed} ELSE {Never} \cup 0..MaxGap
(* FAULT: the time since the last poll is not added up.                     *)
LaterNot(since, gap) == gap
Later(since, gap) == IF Never \in {since, gap} THEN Never ELSE since + gap

(* FAULT: an action that times out leaves the others of its multi action.   *)
PendingAfterFailure(ended, failures) == Active \ ended
(* What is left of a multi action: nothing once one of its actions failed.  *)
Pending(ended, failures) == IF failures # {} THEN {} ELSE Active \ ended

(* FAULT: the first action that ends finishes the multi action.             *)
FinishedByFirst(arrived, timedOut, pending) == arrived \cup timedOut # {}
Finished(arrived, timedOut, pending) == arrived \cup timedOut # {} /\ pending = {}

LostOf(data, kept, in) == {a \in Observed \cup kept : ~Reached(a, data[a], in)}

(* onPollTimer, with the input bits in and the time gap since the last poll.*)
(* An action that reaches its position in the very poll that would time it  *)
(* out has reached it.                                                      *)
Poll(in, gap) ==
    LET watched  == IF adding THEN {} ELSE Active
        data     == [a \in Action |-> IF a \in watched
                        THEN [act[a] EXCEPT !.since = Later(act[a].since, gap)]
                        ELSE act[a]]
        arrived  == {a \in watched : Reached(a, data[a], in)}
        timedOut == {a \in watched \ arrived : TimedOut(data[a])}
        failures == {a \in timedOut : act[a].err}
        kept     == {a \in arrived : act[a].long}
        lost     == LostOf(data, kept, in)
        pending  == Pending(arrived \cup timedOut, failures)
    IN  /\ act' = [a \in Action |->
                      IF a \in lost THEN [data[a] EXCEPT !.st = "long_err"]
                      ELSE IF a \in kept THEN [data[a] EXCEPT !.st = "long"]
                      ELSE IF a \in (Active \ pending) \cup arrived \cup timedOut
                           THEN Inactive ELSE data[a]]
        /\ IF Finished(arrived, timedOut, pending)
           THEN /\ notified' = IF notified = 2 THEN 2 ELSE notified + 1
                /\ told' = (failures # {})
           ELSE UNCHANGED <<notified, told>>
        /\ failed' = (failed \/ failures # {})

OnPollTimer ==
    /\ \E in \in SUBSET Sensed : \E gap \in Gaps : inputs' = in /\ Poll(in, gap)
    /\ elapsed' = 0 /\ polled' = TRUE
    /\ UNCHANGED <<adding, demo, client, io>>

Tick ==
    /\ elapsed < MaxGap
    /\ elapsed' = elapsed + 1
    /\ UNCHANGED <<adding, act, demo, inputs, polled, client, io, signals>>
-----------------------------------------------------------------------------
TakenErrors == [a \in Action |-> IF a \in Lost THEN Inactive ELSE act[a]]

(* getLongTermStatus tells every loss once.                                 *)
GetLongTermStatus ==
    /\ act' = TakenErrors
    /\ UNCHANGED <<adding, demo, inputs, elapsed, polled, client, io, signals>>

(* removeFromLongObserv, for one action or for all (A).                     *)
RemoveFromLongObserv(A) ==
    /\ act' = [a \in Action |->
                  IF a \in A \cap (Observed \cup Lost) THEN Inactive ELSE act[a]]
    /\ UNCHANGED <<adding, demo, inputs, elapsed, polled, client, io, signals>>

(* setupDemo and setDemoError, for one action or for all (A).               *)
SetupDemo(A, kind) ==
    /\ demo' = [a \in Sensed |-> IF a \in A THEN kind ELSE demo[a]]
    /\ UNCHANGED <<adding, act, inputs, elapsed, polled, client, io, signals>>

OneOrAll == {{a} : a \in Action} \cup {Action}

(* The state desired of an action without a sensor is never read.           *)
States(a) == IF a \in Sensed THEN BOOLEAN ELSE {FALSE}

Next ==
    \/ OpenMultiAction \/ CloseMultiAction
    \/ \E a \in Driven : \E on \in BOOLEAN : StartOutSet(a, on)
    \/ \E a \in Action : \E desired \in States(a) : \E r \in Requests :
          StartInObserve(a, desired, r)
    \/ OnPollTimer \/ Tick
    \/ GetLongTermStatus
    \/ \E A \in OneOrAll : RemoveFromLongObserv(A)
    \/ \E A \in OneOrAll : \E kind \in Demos : SetupDemo(A, kind)

(* Time passes and the polls go on; nothing obliges the client to anything. *)
Fairness == WF_vars(OnPollTimer) /\ WF_vars(Tick)

Spec == Init /\ [][Next]_vars /\ Fairness
-----------------------------------------------------------------------------
(* multiActionFinished is emitted once per multi action at most, and then   *)
(* none of its actions is left active, whatever calls the client makes.     *)
FinishedMeansAllDone == notified < 2 /\ (notified = 1 => Active = {})

(* bError tells of the whole multi action: a failure is told at once, and   *)
(* an end without error means that no action of it failed in any poll.      *)
FailureTold == failed <=> notified > 0 /\ told

(* Outside a multi action the outputs are as the client asked for, whatever *)
(* mixture of multi actions and single calls it used.                       *)
OutputsFollow == ~adding => output = asked

(* The multi action of a patient client comes to its end, and the client is *)
(* told it, once.                                                           *)
MultiActionEnds == client = "patient" /\ Running ~> ~Running /\ notified = 1
=============================================================================
