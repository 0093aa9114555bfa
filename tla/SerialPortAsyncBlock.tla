------------------------ MODULE SerialPortAsyncBlock ------------------------
(***************************************************************************)
(* QSerialPortAsyncBlock, src/serialportasyncblock: one exchange with a    *)
(* serial device, which ends with a complete answer or by three timers, for*)
(* the first byte, between two bytes, and for a minimum total time.        *)
(* Timers fire in any order here, so that the model covers all their       *)
(* lengths and a late event loop.  A client starts an exchange only when   *)
(* none is pending.                                                        *)
(***************************************************************************)
EXTENDS Naturals, Sequences

CONSTANTS
    Byte,       \* the bytes a device sends
    Criteria,   \* the [len, endBlock] given to setBlockEndCriteria
    Faults,     \* what may fail: "clear", "write", and "port" at any time
    MaxData     \* bound: the most bytes in flight and received; a device does
                \* not send for ever

ASSUME CriteriaAssumption ==
    \A c \in Criteria : c.len \in Nat /\ c.endBlock \in Seq(Byte)
ASSUME BoundsAssumption == Faults \subseteq {"clear", "write", "port"} /\ MaxData \in Nat

VARIABLES
    timeouts,   \* the timers set to more than 0 by setReadTimeout
    criterion,  \* m_iBlockLenReceive and m_endBlock
    pending,    \* m_bIoPending
    timers,     \* the timers that are active
    data,       \* *m_pDataReceive
    inbox,      \* bytes the port has, not yet signalled by readyRead
    finishes,   \* ioFinished since the last sendAndReceive, 0..2; 1 at the start
    minPassed,  \* the minimum total time of this exchange is over
    broken      \* the port failed in this exchange

setup   == <<timeouts, criterion>>
vars    == <<setup, pending, timers, data, inbox, finishes, minPassed, broken>>

Timer == {"first", "between", "minTotal"}
Bytes(n) == UNION {[1..i -> Byte] : i \in 0..n}

TypeOK ==
    /\ timeouts \subseteq Timer /\ timers \subseteq timeouts
    /\ criterion \in Criteria \cup {[len |-> 0, endBlock |-> <<>>]}
    /\ pending \in BOOLEAN /\ minPassed \in BOOLEAN /\ broken \in BOOLEAN
    /\ data \in Bytes(MaxData) /\ inbox \in Bytes(MaxData - Len(data))
    /\ finishes \in 0..2

(* m_iMsMinTotal is not initialised by the constructor.                     *)
Init ==
    /\ timeouts \in {{}, {"minTotal"}}
    /\ criterion = [len |-> 0, endBlock |-> <<>>]
    /\ pending = FALSE /\ timers = {}
    /\ data = <<>> /\ inbox = <<>>
    /\ finishes = 1 /\ minPassed = FALSE /\ broken = FALSE
-----------------------------------------------------------------------------
(* The client sets up, and starts an exchange, with none pending.           *)
SetReadTimeout(T) ==
    /\ ~pending
    /\ timeouts' = T
    /\ UNCHANGED <<criterion, pending, timers, data, inbox, finishes, minPassed, broken>>

SetBlockEndCriteria(c) ==
    /\ ~pending
    /\ criterion' = c
    /\ UNCHANGED <<timeouts, pending, timers, data, inbox, finishes, minPassed, broken>>

Contains(d, block) ==
    \E i \in 1..(Len(d) - Len(block) + 1) : SubSeq(d, i, i + Len(block) - 1) = block
(* The end criteria of a received block.                                    *)
Complete(d) ==
    \/ criterion.len > 0 /\ Len(d) >= criterion.len
    \/ criterion.endBlock # <<>> /\ Contains(d, criterion.endBlock)

Emit(n) == IF finishes + n > 2 THEN 2 ELSE finishes + n

(* Every handler that may end the exchange reports it if it was pending.    *)
Finish == pending' = FALSE /\ finishes' = IF pending THEN Emit(1) ELSE finishes

(* FAULT: all timers are started.                                           *)
StartedAll == {"first", "minTotal"}
Started == timeouts \cap {"first", "minTotal"}

(* sendAndReceive: the port is cleared and the data is written, if there is *)
(* any.  When one of it fails, nothing is started and the call reports the  *)
(* end itself; a failing clear also signals an error, see OnError.          *)
SendAndReceive ==
    /\ ~pending
    /\ data' = <<>>
    /\ minPassed' = FALSE
    /\ \/ /\ inbox' = <<>>
          /\ pending' = TRUE /\ finishes' = 0 /\ broken' = FALSE
          /\ timers' = timers \cup Started
       \/ /\ "write" \in Faults
          /\ inbox' = <<>>
          /\ finishes' = 1 /\ broken' = FALSE
          /\ UNCHANGED <<timers, pending>>
       \/ /\ "clear" \in Faults
          /\ finishes' = 1 /\ broken' = TRUE
          /\ timers' = {}
          /\ UNCHANGED <<inbox, pending>>
    /\ UNCHANGED setup

Arrive(b) ==
    /\ Len(data) + Len(inbox) < MaxData
    /\ inbox' = Append(inbox, b)
    /\ UNCHANGED <<setup, pending, timers, data, finishes, minPassed, broken>>

Received == IF pending THEN data \o inbox ELSE data

(* FAULT: the end of a block leaves the minimum total time running.         *)
TimersAfterKept(complete) ==
    IF complete THEN timers \ {"first", "between"}
    ELSE (timers \ {"first"}) \cup (timeouts \cap {"between"})
(* A block of data stops the wait for the first byte and restarts the wait  *)
(* for the next, or stops all timers when the answer is complete.           *)
TimersAfter(complete) ==
    IF complete THEN {}
    ELSE (timers \ {"first"}) \cup (timeouts \cap {"between"})

(* FAULT: the end is looked for in the new piece only.                      *)
EndReadInPiece == pending /\ Complete(inbox)
EndRead == pending /\ Complete(Received)

(* onReadyRead; data is ignored with no exchange pending.                   *)
OnReadyRead ==
    /\ inbox # <<>>
    /\ inbox' = <<>> /\ data' = Received
    /\ timers' = IF pending THEN TimersAfter(EndRead) ELSE timers
    /\ IF EndRead THEN Finish ELSE UNCHANGED <<pending, finishes>>
    /\ UNCHANGED <<setup, minPassed, broken>>

(* clear(AllDirections) within a handler; when it fails it signals an error *)
(* within the call, and onError ends the exchange.                          *)
Clear ==
    \/ inbox' = <<>> /\ UNCHANGED broken
    \/ "clear" \in Faults /\ broken' = TRUE /\ UNCHANGED inbox

(* FAULT: the minimum total time is not waited for.                         *)
MayEndEarly == TRUE
(* FAULT: ... is waited for even if there is none.                          *)
MayEndAfterMinOnly == minPassed
MayEnd == "minTotal" \notin timers

(* onTimeoutCommon, for the timers "first" and "between".  Its readAll()    *)
(* appends nothing, nor does that of the handlers below: it returns what    *)
(* readyRead has signalled, and onReadyRead has taken all of this.          *)
OnTimeoutCommon(t) ==
    /\ t \in timers
    /\ IF MayEnd
       THEN timers' = {} /\ Clear /\ Finish
       ELSE /\ timers' = timers \ {"first", "between"}
            /\ UNCHANGED <<pending, inbox, finishes, broken>>
    /\ UNCHANGED <<setup, data, minPassed>>

(* onTimeoutMinTotal, "the weakest timeout": it leaves the end to the other *)
(* timers if one is active.  A clear that fails ends the exchange in        *)
(* onError, and this handler then reports its end once more.                *)
OnTimeoutMinTotal ==
    /\ "minTotal" \in timers
    /\ timers' = timers \ {"minTotal"}
    /\ minPassed' = TRUE
    /\ IF pending /\ timers' = {}
       THEN /\ Clear
            /\ pending' = FALSE
            /\ finishes' = IF broken' THEN Emit(2) ELSE Emit(1)
       ELSE UNCHANGED <<pending, inbox, finishes, broken>>
    /\ UNCHANGED <<setup, data>>

(* onError, when the port fails by itself.                                  *)
OnError ==
    /\ "port" \in Faults
    /\ timers' = {} /\ broken' = TRUE
    /\ Finish
    /\ UNCHANGED <<setup, data, inbox, minPassed>>

Next ==
    \/ \E T \in SUBSET Timer : SetReadTimeout(T)
    \/ \E c \in Criteria : SetBlockEndCriteria(c)
    \/ SendAndReceive
    \/ \E b \in Byte : Arrive(b)
    \/ OnReadyRead
    \/ \E t \in {"first", "between"} : OnTimeoutCommon(t)
    \/ OnTimeoutMinTotal
    \/ OnError

(* Qt delivers timeouts; neither the device nor the client owes anything.   *)
Fairness ==
    /\ \A t \in {"first", "between"} : WF_vars(OnTimeoutCommon(t))
    /\ WF_vars(OnTimeoutMinTotal)

Spec == Init /\ [][Next]_vars /\ Fairness
-----------------------------------------------------------------------------
(* ioFinished comes once for an exchange.                                   *)
FinishedOnce == finishes < 2

(* No timer outlives its exchange: it would end the next one.               *)
NoTimerLeft == ~pending => timers = {}

(* A complete answer is not kept waiting, however the device cuts it.       *)
CompleteEnds == pending => ~Complete(data)

(* An exchange ends with a complete answer, with a failure of the port, or  *)
(* by timeouts, and by those not before the minimum total time is over.     *)
EndsForAReason ==
    [][pending /\ ~pending' =>
          \/ Complete(data') \/ broken'
          \/ timers' = {} /\ ("minTotal" \in timeouts => minPassed')]_vars

(* A silent device never leaves the exchange pending for ever, if the two   *)
(* ordinary timeouts are set.                                               *)
ExchangeEnds == pending /\ {"first", "between"} \subseteq timeouts ~> ~pending
=============================================================================
