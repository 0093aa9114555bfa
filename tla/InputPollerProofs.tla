------------------------- MODULE InputPollerProofs -------------------------
(***************************************************************************)
(* Theorems about BitInputPoller, for every set of input bits, every       *)
(* choice of inverted ones, every kind of reader and any number of reads   *)
(* in progress.                                                            *)
(***************************************************************************)
EXTENDS BitInputPoller, TLAPS

(* How many reads there can be, by the kind of reader: a blocking one has   *)
(* none in progress, only a queued one has bits that are not reported yet,  *)
(* and as long as no reads overlapped there is one at most.                 *)
ReadsInProgress ==
    /\ started + unreported <= MaxReads
    /\ reader = "blocking" => started = 0
    /\ reader # "queued" => unreported = 0
    /\ ~overlapped => started + unreported <= 1

(* Bits that wait for their report are in the array as they were read.      *)
UnreportedAreRaw ==
    ~overlapped /\ unreported > 0 => mask = levels

(* The inductive invariant: an update of a queued reader shows the levels   *)
(* only because nothing touched the array between the fill and the report.  *)
PollerInv == TypeOK /\ ReadsInProgress /\ UnreportedAreRaw /\ UpdateShowsLevels

LEMMA InvertedType == ASSUME TypeOK, NEW bits \in SUBSET Bit PROVE Inverted(bits) \subseteq Bit
BY DEF TypeOK, Inverted

LEMMA InitInv == Init => PollerInv
<1> SUFFICES ASSUME Init PROVE PollerInv
  OBVIOUS
<1>1. polling \in BOOLEAN /\ updated \in BOOLEAN /\ overlapped \in BOOLEAN
  BY Zenon DEF Init
<1>2. TypeOK
  BY <1>1, ReadsAssumption DEF Init, TypeOK
<1> QED BY <1>2, ReadsAssumption
       DEF Init, PollerInv, ReadsInProgress, UnreportedAreRaw, UpdateShowsLevels

(* Starting and stopping the timer leaves the reads and the bits alone.     *)
LEMMA TimerStep ==
    ASSUME PollerInv, StartPoll \/ StopPoll
    PROVE  PollerInv'
<1>1. /\ polling' \in BOOLEAN /\ updated' = FALSE
      /\ UNCHANGED <<mask, invert, readerVars, overlapped>>
  BY DEF StartPoll, StopPoll
<1>2. updated' \in BOOLEAN
  BY <1>1, Zenon
<1> QED BY <1>1, <1>2 DEF PollerInv, TypeOK, ReadsInProgress, UnreportedAreRaw,
            UpdateShowsLevels, readerVars

(* The common end of a read that has just filled the array.                 *)
LEMMA FilledAndShown ==
    ASSUME TypeOK, NEW bits \in SUBSET Bit, levels' = bits, Update(bits), invert' = invert
    PROVE  /\ mask' \subseteq Bit /\ levels' \subseteq Bit /\ updated' \in BOOLEAN
           /\ mask' = Inverted(levels)'
BY InvertedType DEF Update, Inverted

LEMMA PollStep ==
    ASSUME PollerInv, OnPollTimer
    PROVE  PollerInv'
<1>1. UNCHANGED <<invert, polling, reader, unreported>>
  BY DEF OnPollTimer
<1>2. CASE reader = "blocking"
  <2>1. PICK bits \in SUBSET Bit : levels' = bits /\ Update(bits)
    BY <1>2 DEF OnPollTimer
  <2>2. UNCHANGED <<started, overlapped>>
    BY <1>2 DEF OnPollTimer
  <2>3. /\ mask' \subseteq Bit /\ levels' \subseteq Bit /\ updated' \in BOOLEAN
        /\ mask' = Inverted(levels)'
    BY <1>1, <2>1, FilledAndShown DEF PollerInv
  <2>4. unreported = 0
    BY <1>2 DEF PollerInv, ReadsInProgress
  <2> QED BY <1>1, <2>2, <2>3, <2>4
         DEF PollerInv, TypeOK, ReadsInProgress, UnreportedAreRaw, UpdateShowsLevels
<1>3. CASE reader # "blocking"
  <2>1. /\ started + unreported < MaxReads
        /\ started' = started + 1
        /\ overlapped' = (overlapped \/ started + unreported > 0)
        /\ updated' = FALSE
        /\ UNCHANGED <<mask, levels>>
    BY <1>3 DEF OnPollTimer
  <2>2. started \in Nat /\ unreported \in Nat /\ MaxReads \in Nat
    BY ReadsAssumption DEF PollerInv, TypeOK
  <2>3. started' \in 0..MaxReads
    BY <2>1, <2>2
  <2>4. overlapped' \in BOOLEAN /\ updated' \in BOOLEAN
    BY <2>1
  <2>5. TypeOK'
    BY <1>1, <2>1, <2>3, <2>4 DEF PollerInv, TypeOK
  <2>6. ~overlapped' => ~overlapped /\ started = 0 /\ unreported = 0
    <3>1. ~overlapped' => ~overlapped /\ ~(started + unreported > 0)
      BY <2>1, Zenon
    <3> QED BY <2>2, <3>1
  <2>7. ReadsInProgress'
    BY <1>1, <1>3, <2>1, <2>2, <2>6 DEF PollerInv, ReadsInProgress
  <2> QED BY <1>1, <2>1, <2>5, <2>6, <2>7 DEF PollerInv, UnreportedAreRaw, UpdateShowsLevels
<1> QED BY <1>2, <1>3

LEMMA DirectStep ==
    ASSUME PollerInv, FillAndFinish
    PROVE  PollerInv'
<1>1. PICK bits \in SUBSET Bit : levels' = bits /\ Update(bits)
  BY DEF FillAndFinish
<1>2. /\ reader = "direct" /\ started > 0 /\ started' = started - 1
      /\ UNCHANGED <<invert, polling, reader, unreported, overlapped>>
  BY DEF FillAndFinish
<1>3. /\ mask' \subseteq Bit /\ levels' \subseteq Bit /\ updated' \in BOOLEAN
      /\ mask' = Inverted(levels)'
  BY <1>1, <1>2, FilledAndShown DEF PollerInv
<1>4. unreported = 0
  BY <1>2 DEF PollerInv, ReadsInProgress
<1>5. started \in 0..MaxReads /\ MaxReads \in Nat
  BY ReadsAssumption DEF PollerInv, TypeOK
<1>6. TypeOK'
  BY <1>2, <1>3, <1>5 DEF PollerInv, TypeOK
<1> QED BY <1>2, <1>3, <1>4, <1>5, <1>6
       DEF PollerInv, ReadsInProgress, UnreportedAreRaw, UpdateShowsLevels

LEMMA FillStep ==
    ASSUME PollerInv, Fill
    PROVE  PollerInv'
<1>1. /\ reader = "queued" /\ started > 0
      /\ mask' = levels' /\ mask' \subseteq Bit
      /\ started' = started - 1 /\ unreported' = unreported + 1 /\ updated' = FALSE
      /\ UNCHANGED <<invert, polling, reader, overlapped>>
  BY DEF Fill
<1>2. /\ started \in Nat /\ unreported \in Nat /\ MaxReads \in Nat
      /\ started + unreported <= MaxReads
  BY ReadsAssumption DEF PollerInv, TypeOK, ReadsInProgress
<1>3. updated' \in BOOLEAN
  BY <1>1
<1>4. started' \in 0..MaxReads /\ unreported' \in 0..MaxReads
  BY <1>1, <1>2
<1>5. TypeOK'
  BY <1>1, <1>3, <1>4 DEF PollerInv, TypeOK
<1> QED BY <1>1, <1>2, <1>5
       DEF PollerInv, ReadsInProgress, UnreportedAreRaw, UpdateShowsLevels

LEMMA ReportStep ==
    ASSUME PollerInv, OnBitMaskReadFinish
    PROVE  PollerInv'
<1>1. /\ unreported > 0 /\ unreported' = unreported - 1
      /\ mask' = Inverted(mask) /\ updated' = TRUE
      /\ UNCHANGED <<invert, polling, reader, started, levels, overlapped>>
  BY DEF OnBitMaskReadFinish, Update
<1>2. started \in 0..MaxReads /\ unreported \in 0..MaxReads /\ MaxReads \in Nat
  BY ReadsAssumption DEF PollerInv, TypeOK
<1>3. mask' \subseteq Bit /\ updated' \in BOOLEAN
  BY <1>1, InvertedType DEF PollerInv, TypeOK
<1>4. unreported' \in 0..MaxReads
  BY <1>1, <1>2
<1>5. TypeOK'
  BY <1>1, <1>3, <1>4 DEF PollerInv, TypeOK
<1>6. reader = "queued"
  BY <1>1, <1>2 DEF PollerInv, ReadsInProgress
<1>7. ~overlapped' => unreported' = 0 /\ mask' = Inverted(levels)'
  BY <1>1, <1>2 DEF PollerInv, ReadsInProgress, UnreportedAreRaw, Inverted
<1> QED BY <1>1, <1>2, <1>5, <1>6, <1>7
       DEF PollerInv, ReadsInProgress, UnreportedAreRaw, UpdateShowsLevels

LEMMA PollerInvStep == PollerInv /\ [Next]_vars => PollerInv'
<1> SUFFICES ASSUME PollerInv, [Next]_vars PROVE PollerInv'
  OBVIOUS
<1>1. CASE UNCHANGED vars
  BY <1>1 DEF vars, pollerVars, readerVars, PollerInv, TypeOK, ReadsInProgress,
              UnreportedAreRaw, UpdateShowsLevels, Inverted
<1> QED BY <1>1, TimerStep, PollStep, DirectStep, FillStep, ReportStep DEF Next

LEMMA PollerInvariant == Spec => []PollerInv
BY InitInv, PollerInvStep, PTL DEF Spec

(* Every variable keeps its type; no more reads are in progress than the    *)
(* reader can have.                                                         *)
THEOREM PollerTypeCorrect == Spec => []TypeOK
<1>1. PollerInv => TypeOK
  BY DEF PollerInv
<1> QED BY <1>1, PollerInvariant, PTL

(* bitmaskUpdated shows the levels read, inverted exactly once, for every   *)
(* reader that signals directly and every queued one without overlap.       *)
THEOREM ShownAsRead == Spec => []UpdateShowsLevels
<1>1. PollerInv => UpdateShowsLevels
  BY DEF PollerInv
<1> QED BY <1>1, PollerInvariant, PTL
=============================================================================
