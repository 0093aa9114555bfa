--------------------------- MODULE BitInputPoller ---------------------------
(***************************************************************************)
(* QBitInputPoller (src/bitinputpoller/bit-input-poller.cpp): a poll timer *)
(* starts reads of the input bits, the read function fills the poller's    *)
(* bit array, the poller inverts the bits of active low inputs in place    *)
(* and tells its client.  All of it runs in one event loop.                *)
(***************************************************************************)
EXTENDS Naturals

CONSTANTS
    Bit,        \* the input bits
    Readers,    \* the kinds of read function, see OnPollTimer
    MaxReads    \* reads a reader has in progress at most

ASSUME ReadersAssumption == Readers \subseteq {"blocking", "direct", "queued"}
ASSUME ReadsAssumption   == MaxReads \in Nat \ {0}

VARIABLES
    mask,        \* m_BitMaskInput, the bits that are 1
    invert,      \* m_BitMaskInvert
    polling,     \* m_PollTimer runs
    reader,      \* the kind of read function
    started,     \* reads started whose bits have not come
    unreported,  \* reads whose bits have come, onBitMaskReadFinish pending
    levels,      \* levels of the inputs as last read
    updated,     \* the last step emitted bitmaskUpdated
    overlapped   \* a read was started while another one was in progress

pollerVars == <<mask, invert, polling>>
readerVars == <<reader, started, unreported, levels>>
vars       == <<pollerVars, readerVars, updated, overlapped>>

TypeOK ==
    /\ mask \subseteq Bit /\ invert \subseteq Bit /\ polling \in BOOLEAN
    /\ reader \in Readers /\ levels \subseteq Bit
    /\ started \in 0..MaxReads /\ unreported \in 0..MaxReads
    /\ updated \in BOOLEAN /\ overlapped \in BOOLEAN

(* FAULT: the mask of inverted bits is not cut to the number of input bits. *)
InitUnsized ==
    /\ mask = {} /\ invert \in SUBSET (Bit \cup {"beyond"}) /\ polling = FALSE
    /\ reader \in Readers /\ started = 0 /\ unreported = 0 /\ levels = {}
    /\ updated = FALSE /\ overlapped = FALSE

(* setupInputMask and setStartBitReadFunction have been called.             *)
Init ==
    /\ mask = {} /\ invert \in SUBSET Bit /\ polling = FALSE
    /\ reader \in Readers /\ started = 0 /\ unreported = 0 /\ levels = {}
    /\ updated = FALSE /\ overlapped = FALSE

StartPoll ==
    /\ polling' = TRUE /\ updated' = FALSE
    /\ UNCHANGED <<mask, invert, readerVars, overlapped>>

(* A read in progress goes on, and is reported.                             *)
StopPoll ==
    /\ polling' = FALSE /\ updated' = FALSE
    /\ UNCHANGED <<mask, invert, readerVars, overlapped>>

(* An empty m_BitMaskInvert stands for no inverted bit.                     *)
Inverted(bits) == (bits \ invert) \cup (invert \ bits)

(* FAULT: bits that are as they were before are inverted no more.           *)
UpdateRaw(bits) ==
    mask' = (IF bits = levels THEN bits ELSE Inverted(bits)) /\ updated' = TRUE
(* FAULT: the client is told only of bits that are not as before.           *)
UpdateChanges(bits) == mask' = Inverted(bits) /\ updated' = (mask' # mask)
(* The common end of a read whose bits are in the array: they are inverted  *)
(* in place and the client is told.                                         *)
Update(bits) == mask' = Inverted(bits) /\ updated' = TRUE

(* onPollTimer calls the read function, which has the bits when it returns  *)
(* or starts a read.  Nothing keeps it from starting another one.           *)
OnPollTimer ==
    /\ polling
    /\ \/ /\ reader = "blocking"
          /\ \E bits \in SUBSET Bit : levels' = bits /\ Update(bits)
          /\ UNCHANGED <<started, overlapped>>
       \/ /\ reader # "blocking"
          /\ started + unreported < MaxReads
          /\ started' = started + 1
          /\ overlapped' = (overlapped \/ started + unreported > 0)
          /\ updated' = FALSE
          /\ UNCHANGED <<mask, levels>>
    /\ UNCHANGED <<invert, polling, reader, unreported>>

(* The low layer has the bits and writes them to the array.  Its signal,    *)
(* connected to onBitMaskReadFinish, calls that at once ("direct") ...      *)
FillAndFinish ==
    /\ reader = "direct" /\ started > 0
    /\ \E bits \in SUBSET Bit : levels' = bits /\ Update(bits)
    /\ started' = started - 1
    /\ UNCHANGED <<invert, polling, reader, unreported, overlapped>>

(* ... or as an event of its own ("queued").                                *)
Fill ==
    /\ reader = "queued" /\ started > 0
    /\ \E bits \in SUBSET Bit : levels' = bits /\ mask' = bits
    /\ started' = started - 1 /\ unreported' = unreported + 1
    /\ updated' = FALSE
    /\ UNCHANGED <<invert, polling, reader, overlapped>>

OnBitMaskReadFinish ==
    /\ unreported > 0
    /\ unreported' = unreported - 1
    /\ Update(mask)
    /\ UNCHANGED <<invert, polling, reader, started, levels, overlapped>>

Next ==
    \/ StartPoll \/ StopPoll \/ OnPollTimer
    \/ FillAndFinish \/ Fill \/ OnBitMaskReadFinish

(* A timer that runs fires, and the low layer finishes what it began.       *)
Fairness ==
    /\ WF_vars(OnPollTimer)
    /\ WF_vars(FillAndFinish) /\ WF_vars(Fill) /\ WF_vars(OnBitMaskReadFinish)

Spec == Init /\ [][Next]_vars /\ Fairness
-----------------------------------------------------------------------------
(* bitmaskUpdated shows the levels read, inverted once: for every reader    *)
(* whose signal is direct, and for a queued one whose reads do not overlap. *)
UpdateShowsLevels ==
    updated /\ (reader # "queued" \/ ~overlapped) => mask = Inverted(levels)

(* Updates keep coming while the timer runs, however often it was stopped   *)
(* and started before, with reads in progress or not.                       *)
UpdatesFollowTimer == <>[]polling => []<>updated
=============================================================================
