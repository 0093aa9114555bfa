-------------------------- MODULE SerialPortProofs --------------------------
(***************************************************************************)
(* Theorems about SerialPortAsyncBlock, for every set of bytes, every end  *)
(* criterion, every choice of timers, all failures of the port and any     *)
(* amount of data.                                                         *)
(***************************************************************************)
EXTENDS SerialPortAsyncBlock, SequenceTheorems, TLAPS

(* Bytes(n) is the sequences of at most n bytes.                            *)
LEMMA BytesAreSequences ==
    ASSUME NEW n \in Nat, NEW s
    PROVE  s \in Bytes(n) <=> s \in Seq(Byte) /\ Len(s) <= n
<1>1. ASSUME s \in Bytes(n) PROVE s \in Seq(Byte) /\ Len(s) <= n
  <2>1. PICK i \in 0..n : s \in [1..i -> Byte]
    BY <1>1 DEF Bytes
  <2>2. s \in Seq(Byte)
    BY <2>1, SeqDef
  <2> QED BY <2>1, <2>2, LenProperties
<1>2. ASSUME s \in Seq(Byte), Len(s) <= n PROVE s \in Bytes(n)
  <2>1. Len(s) \in 0..n /\ s \in [1..Len(s) -> Byte]
    BY <1>2, LenProperties
  <2> QED BY <2>1 DEF Bytes
<1> QED BY <1>1, <1>2

LEMMA EmptyBytes == ASSUME NEW n \in Nat PROVE <<>> \in Bytes(n)
<1>1. <<>> \in Seq(Byte) /\ Len(<<>>) = 0
  BY EmptySeq
<1>2. Len(<<>>) <= n
  BY <1>1
<1> QED BY <1>1, <1>2, BytesAreSequences

(* Fewer bytes leave more room.                                             *)
LEMMA BytesMonotonic ==
    ASSUME NEW m \in Nat, NEW n \in Nat, m <= n, NEW s \in Bytes(m)
    PROVE  s \in Bytes(n)
<1>1. s \in Seq(Byte) /\ Len(s) <= m
  BY BytesAreSequences
<1>2. Len(s) \in Nat
  BY <1>1, LenProperties
<1> QED BY <1>1, <1>2, BytesAreSequences

(* What the port and the exchange hold together stays within the bound.     *)
LEMMA DataTypes ==
    ASSUME TypeOK
    PROVE  /\ data \in Seq(Byte) /\ inbox \in Seq(Byte)
           /\ Len(data) \in Nat /\ Len(inbox) \in Nat
           /\ Len(data) + Len(inbox) <= MaxData
           /\ MaxData - Len(data) \in Nat
<1>1. data \in Seq(Byte) /\ Len(data) <= MaxData
  BY BoundsAssumption, BytesAreSequences DEF TypeOK
<1>2. Len(data) \in Nat
  BY <1>1, LenProperties
<1>3. MaxData - Len(data) \in Nat
  BY <1>1, <1>2, BoundsAssumption
<1>4. inbox \in Seq(Byte) /\ Len(inbox) <= MaxData - Len(data)
  BY <1>3, BytesAreSequences DEF TypeOK
<1>5. Len(inbox) \in Nat
  BY <1>4, LenProperties
<1> QED BY <1>1, <1>2, <1>3, <1>4, <1>5, BoundsAssumption

LEMMA CriterionType ==
    ASSUME TypeOK
    PROVE  criterion.len \in Nat /\ criterion.endBlock \in Seq(Byte)
<1>1. CASE criterion \in Criteria
  BY <1>1, CriteriaAssumption
<1>2. CASE criterion = [len |-> 0, endBlock |-> <<>>]
  BY <1>2, EmptySeq
<1> QED BY <1>1, <1>2 DEF TypeOK
-----------------------------------------------------------------------------
(* A minimum total time that is set is running or over as long as an        *)
(* exchange is pending.                                                     *)
MinTotalKept ==
    pending /\ "minTotal" \in timeouts => "minTotal" \in timers \/ minPassed

(* The inductive invariant: the type invariant alone is not inductive, as   *)
(* only NoTimerLeft keeps the timers among those set when they are set anew.*)
ExchangeInv == TypeOK /\ NoTimerLeft /\ MinTotalKept /\ CompleteEnds

(* Nothing is not a complete answer.                                        *)
LEMMA NothingIsIncomplete ==
    ASSUME TypeOK
    PROVE  ~Complete(<<>>)
<1>1. Len(<<>>) = 0 /\ criterion.len \in Nat
  BY CriterionType
<1>2. ASSUME criterion.endBlock # <<>> PROVE ~Contains(<<>>, criterion.endBlock)
  <2>1. Len(criterion.endBlock) \in Nat \ {0}
    BY <1>2, CriterionType, EmptySeq
  <2> QED BY <1>1, <2>1 DEF Contains
<1> QED BY <1>1, <1>2 DEF Complete

LEMMA InitInv == Init => ExchangeInv
<1> SUFFICES ASSUME Init PROVE ExchangeInv
  OBVIOUS
<1>1. <<>> \in Bytes(MaxData) /\ <<>> \in Bytes(MaxData - Len(<<>>))
  BY EmptyBytes, BoundsAssumption
<1>2. data \in Bytes(MaxData) /\ inbox \in Bytes(MaxData - Len(data))
  BY <1>1 DEF Init
<1>3. pending \in BOOLEAN /\ minPassed \in BOOLEAN /\ broken \in BOOLEAN
  BY Zenon DEF Init
<1>4. finishes \in 0..2
  BY DEF Init
<1>5. TypeOK
  BY <1>2, <1>3, <1>4 DEF Init, TypeOK, Timer
<1> QED BY <1>5 DEF Init, ExchangeInv, NoTimerLeft, MinTotalKept, CompleteEnds

LEMMA EmitType ==
    ASSUME TypeOK, NEW n \in 1..2
    PROVE  Emit(n) \in 0..2
BY DEF TypeOK, Emit

LEMMA FinishType ==
    ASSUME TypeOK, Finish
    PROVE  pending' \in BOOLEAN /\ finishes' \in 0..2
<1>1. Emit(1) \in 0..2 /\ finishes \in 0..2
  BY EmitType DEF TypeOK
<1> QED BY <1>1 DEF Finish

LEMMA ClearType ==
    ASSUME TypeOK, Clear
    PROVE  inbox' \in Bytes(MaxData - Len(data)) /\ broken' \in BOOLEAN
BY DataTypes, EmptyBytes DEF TypeOK, Clear

LEMMA SetUpStep ==
    ASSUME ExchangeInv,
           \/ \E T \in SUBSET Timer : SetReadTimeout(T)
           \/ \E c \in Criteria : SetBlockEndCriteria(c)
    PROVE  ExchangeInv'
<1>1. timers = {} /\ ~pending
  BY DEF ExchangeInv, NoTimerLeft, SetReadTimeout, SetBlockEndCriteria
<1>2. CASE \E T \in SUBSET Timer : SetReadTimeout(T)
  <2>1. TypeOK'
    BY <1>1, <1>2 DEF ExchangeInv, TypeOK, SetReadTimeout
  <2> QED BY <1>1, <1>2, <2>1 DEF ExchangeInv, NoTimerLeft, MinTotalKept, CompleteEnds,
            SetReadTimeout
<1>3. CASE \E c \in Criteria : SetBlockEndCriteria(c)
  <2>1. TypeOK'
    BY <1>1, <1>3 DEF ExchangeInv, TypeOK, SetBlockEndCriteria
  <2> QED BY <1>1, <1>3, <2>1 DEF ExchangeInv, NoTimerLeft, MinTotalKept, CompleteEnds,
            SetBlockEndCriteria
<1> QED BY <1>2, <1>3

LEMMA SendStep ==
    ASSUME ExchangeInv, SendAndReceive
    PROVE  ExchangeInv'
<1>1. timers = {} /\ ~pending
  BY DEF ExchangeInv, NoTimerLeft, SendAndReceive
<1>2. data' = <<>> /\ timeouts' = timeouts /\ criterion' = criterion
  BY DEF SendAndReceive, setup
<1>3. TypeOK'
  <2>1. data' \in Bytes(MaxData)
    BY <1>2, EmptyBytes, BoundsAssumption
  <2>2. <<>> \in Bytes(MaxData - Len(data'))
    BY <1>2, EmptyBytes, BoundsAssumption
  <2>3. inbox \in Bytes(MaxData - Len(data'))
    BY <1>2, DataTypes, BytesMonotonic, BoundsAssumption DEF ExchangeInv, TypeOK
  <2>4. inbox' \in Bytes(MaxData - Len(data'))
    BY <2>2, <2>3 DEF SendAndReceive
  <2>5. timers' \subseteq timeouts'
    BY <1>1, <1>2 DEF SendAndReceive, Started
  <2>6. pending' \in BOOLEAN /\ minPassed' \in BOOLEAN /\ broken' \in BOOLEAN
    BY <1>1, Zenon DEF SendAndReceive, ExchangeInv, TypeOK
  <2>7. finishes' \in 0..2
    BY DEF SendAndReceive
  <2> QED BY <1>2, <2>1, <2>4, <2>5, <2>6, <2>7 DEF ExchangeInv, TypeOK
<1>4. NoTimerLeft'
  BY <1>1 DEF SendAndReceive, NoTimerLeft
<1>5. MinTotalKept'
  BY <1>1, <1>2 DEF SendAndReceive, MinTotalKept, Started
<1>6. CompleteEnds'
  BY <1>2, NothingIsIncomplete DEF CompleteEnds, Complete, ExchangeInv
<1> QED BY <1>3, <1>4, <1>5, <1>6 DEF ExchangeInv

LEMMA ArriveStep ==
    ASSUME ExchangeInv, NEW b \in Byte, Arrive(b)
    PROVE  ExchangeInv'
<1>1. inbox' \in Bytes(MaxData - Len(data))
  <2>1. Append(inbox, b) \in Seq(Byte) /\ Len(Append(inbox, b)) = Len(inbox) + 1
    BY DataTypes, AppendProperties DEF ExchangeInv
  <2>2. Len(inbox) + 1 <= MaxData - Len(data)
    BY DataTypes, BoundsAssumption DEF ExchangeInv, Arrive
  <2> QED BY <2>1, <2>2, DataTypes, BytesAreSequences DEF ExchangeInv, Arrive
<1>2. TypeOK'
  BY <1>1 DEF ExchangeInv, TypeOK, Arrive, setup
<1> QED BY <1>2 DEF ExchangeInv, NoTimerLeft, MinTotalKept, CompleteEnds, Complete, Arrive, setup

LEMMA ReadStep ==
    ASSUME ExchangeInv, OnReadyRead
    PROVE  ExchangeInv'
<1>1. timeouts' = timeouts /\ criterion' = criterion /\ data' = Received /\ inbox' = <<>>
  BY DEF OnReadyRead, setup
<1>2. Received \in Bytes(MaxData)
  <2>1. data \o inbox \in Seq(Byte) /\ Len(data \o inbox) = Len(data) + Len(inbox)
    BY DataTypes, ConcatProperties DEF ExchangeInv
  <2>2. data \o inbox \in Bytes(MaxData)
    BY <2>1, DataTypes, BytesAreSequences, BoundsAssumption DEF ExchangeInv
  <2> QED BY <2>2 DEF Received, ExchangeInv, TypeOK
<1>3. TypeOK'
  <2>1. Len(data') \in Nat /\ Len(data') <= MaxData
    BY <1>1, <1>2, BytesAreSequences, LenProperties, BoundsAssumption
  <2>2. inbox' \in Bytes(MaxData - Len(data'))
    BY <1>1, <2>1, EmptyBytes, BoundsAssumption
  <2>3. timers' \subseteq timeouts'
    BY <1>1 DEF OnReadyRead, TimersAfter, ExchangeInv, TypeOK
  <2>4. pending' \in BOOLEAN /\ finishes' \in 0..2
    BY FinishType DEF OnReadyRead, ExchangeInv, TypeOK
  <2> QED BY <1>1, <1>2, <2>2, <2>3, <2>4 DEF OnReadyRead, ExchangeInv, TypeOK
<1>4. NoTimerLeft'
  BY DEF OnReadyRead, ExchangeInv, NoTimerLeft, TimersAfter, EndRead, Finish
<1>5. MinTotalKept'
  BY <1>1 DEF OnReadyRead, ExchangeInv, MinTotalKept, TimersAfter, EndRead, Finish
<1>6. CompleteEnds'
  <2>1. pending' => ~EndRead /\ pending
    BY DEF OnReadyRead, EndRead, Finish
  <2> QED BY <1>1, <2>1 DEF EndRead, CompleteEnds, Complete
<1> QED BY <1>3, <1>4, <1>5, <1>6 DEF ExchangeInv

LEMMA CommonTimeoutStep ==
    ASSUME ExchangeInv, NEW t \in {"first", "between"}, OnTimeoutCommon(t)
    PROVE  ExchangeInv'
<1>1. UNCHANGED <<timeouts, criterion, data, minPassed>>
  BY DEF OnTimeoutCommon, setup
<1>2. CASE MayEnd
  <2>1. timers' = {} /\ Clear /\ Finish
    BY <1>2 DEF OnTimeoutCommon
  <2>2. TypeOK'
    BY <1>1, <2>1, FinishType, ClearType DEF ExchangeInv, TypeOK
  <2> QED BY <1>1, <2>1, <2>2 DEF ExchangeInv, NoTimerLeft, MinTotalKept, CompleteEnds, Finish
<1>3. CASE ~MayEnd
  <2>1. /\ timers' = timers \ {"first", "between"}
        /\ UNCHANGED <<pending, inbox, finishes, broken>>
    BY <1>3 DEF OnTimeoutCommon
  <2>2. TypeOK'
    BY <1>1, <2>1 DEF ExchangeInv, TypeOK
  <2> QED BY <1>1, <2>1, <2>2 DEF ExchangeInv, NoTimerLeft, MinTotalKept, CompleteEnds, Complete
<1> QED BY <1>2, <1>3

LEMMA MinTotalStep ==
    ASSUME ExchangeInv, OnTimeoutMinTotal
    PROVE  ExchangeInv'
<1>1. UNCHANGED <<timeouts, criterion, data>> /\ minPassed' /\ minPassed' \in BOOLEAN
  BY DEF OnTimeoutMinTotal, setup
<1>2. pending /\ timers' = timers \ {"minTotal"}
  BY DEF OnTimeoutMinTotal, ExchangeInv, NoTimerLeft
<1>3. CASE timers' = {}
  <2>1. Clear /\ pending' = FALSE /\ finishes' \in {Emit(1), Emit(2)}
    BY <1>2, <1>3 DEF OnTimeoutMinTotal
  <2>2. finishes' \in 0..2
    BY <2>1, EmitType DEF ExchangeInv
  <2>3. TypeOK'
    BY <1>1, <1>3, <2>1, <2>2, ClearType DEF ExchangeInv, TypeOK
  <2> QED BY <1>1, <1>3, <2>1, <2>3 DEF ExchangeInv, NoTimerLeft, MinTotalKept, CompleteEnds
<1>4. CASE timers' # {}
  <2>1. UNCHANGED <<pending, inbox, finishes, broken>>
    BY <1>4 DEF OnTimeoutMinTotal
  <2>2. TypeOK'
    BY <1>1, <1>2, <2>1 DEF ExchangeInv, TypeOK
  <2> QED BY <1>1, <1>2, <2>1, <2>2
         DEF ExchangeInv, NoTimerLeft, MinTotalKept, CompleteEnds, Complete
<1> QED BY <1>3, <1>4

LEMMA ErrorStep ==
    ASSUME ExchangeInv, OnError
    PROVE  ExchangeInv'
<1>1. TypeOK'
  BY FinishType DEF OnError, ExchangeInv, TypeOK, setup
<1> QED BY <1>1 DEF OnError, Finish, ExchangeInv, NoTimerLeft, MinTotalKept, CompleteEnds

LEMMA ExchangeInvStep == ExchangeInv /\ [Next]_vars => ExchangeInv'
<1> SUFFICES ASSUME ExchangeInv, [Next]_vars PROVE ExchangeInv'
  OBVIOUS
<1>1. CASE UNCHANGED vars
  BY <1>1 DEF vars, setup, ExchangeInv, TypeOK, NoTimerLeft, MinTotalKept, CompleteEnds, Complete
<1> QED BY <1>1, SetUpStep, SendStep, ArriveStep, ReadStep, CommonTimeoutStep, MinTotalStep,
           ErrorStep DEF Next

THEOREM ExchangeInvariant == Spec => []ExchangeInv
BY InitInv, ExchangeInvStep, PTL DEF Spec

(* Every variable keeps its type; the timers that run are among those set.  *)
THEOREM SerialTypeCorrect == Spec => []TypeOK
<1>1. ExchangeInv => TypeOK
  BY DEF ExchangeInv
<1> QED BY <1>1, ExchangeInvariant, PTL

(* No timer outlives its exchange, whatever ends it: it would end the next. *)
THEOREM NoTimerOutlives == Spec => []NoTimerLeft
<1>1. ExchangeInv => NoTimerLeft
  BY DEF ExchangeInv
<1> QED BY <1>1, ExchangeInvariant, PTL

(* A complete answer is not kept waiting, in whatever pieces it comes.      *)
THEOREM CompleteAnswersEnd == Spec => []CompleteEnds
<1>1. ExchangeInv => CompleteEnds
  BY DEF ExchangeInv
<1> QED BY <1>1, ExchangeInvariant, PTL
-----------------------------------------------------------------------------
(* An exchange ends with a complete answer, with a failure of the port, or  *)
(* by timeouts, and by those not before the minimum total time is over.     *)
THEOREM EndsOnlyForAReason == Spec => EndsForAReason
<1>1. ASSUME ExchangeInv, [Next]_vars
      PROVE  [pending /\ ~pending' =>
                \/ Complete(data') \/ broken'
                \/ timers' = {} /\ ("minTotal" \in timeouts => minPassed')]_vars
  <2> SUFFICES ASSUME pending, ~pending'
               PROVE  \/ Complete(data') \/ broken'
                      \/ timers' = {} /\ ("minTotal" \in timeouts => minPassed')
    OBVIOUS
  <2>1. ~UNCHANGED vars
    BY DEF vars
  <2>2. CASE OnReadyRead
    BY <2>2 DEF OnReadyRead, EndRead
  <2>3. ASSUME NEW t \in {"first", "between"}, OnTimeoutCommon(t)
        PROVE  timers' = {} /\ ("minTotal" \in timeouts => minPassed')
    BY <1>1, <2>3 DEF OnTimeoutCommon, MayEnd, ExchangeInv, MinTotalKept
  <2>4. CASE OnTimeoutMinTotal
    BY <2>4 DEF OnTimeoutMinTotal
  <2>5. CASE OnError
    BY <2>5 DEF OnError
  <2> QED BY <1>1, <2>1, <2>2, <2>3, <2>4, <2>5
         DEF Next, SetReadTimeout, SetBlockEndCriteria, SendAndReceive, Arrive
<1> QED BY <1>1, ExchangeInvariant, PTL DEF Spec, EndsForAReason
=============================================================================
