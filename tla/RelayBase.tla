----------------------------- MODULE RelayBase -----------------------------
(***************************************************************************)
(* QRelayBase (src/relaymapper/relay-base.cpp): what every layer of the    *)
(* relay stack does with a request.  A QBitArray over the logical relays   *)
(* is the set of the relays whose bit is set.  All operators are pure; the *)
(* layers apply them to their own state.                                   *)
(***************************************************************************)
EXTENDS Naturals

(* Definitions marked FAULT are wrong variants of the code, one plausible   *)
(* slip each.  No specification uses them: they replace the definition that *)
(* follows to show that a property notices.                                 *)

(* FAULT: the bit of the request is taken for the difference to the state.  *)
ChangingOnlyOn(state, E, S, force) == {r \in E : force \/ r \in S}

(* The enabled relays a request really concerns: with bForce all of them,   *)
(* otherwise those whose requested value differs from the current state.    *)
Changing(state, E, S, force) == {r \in E : force \/ (r \in S) # (r \in state)}

(* logicalSetMaskNext after a request that concerns the relays changed.     *)
SetNext(setNext, changed, S) == (setNext \ changed) \cup (S \cap changed)

(* The state with the enabled relays overwritten by their requested value.  *)
Target(state, enable, set) == (state \ enable) \cup (set \cap enable)

(* logicalDirtyMask of a new transaction: (state xor set) and enable.       *)
Differing(state, enable, set) == {r \in enable : (r \in state) # (r \in set)}

(* QRelayBase::isBusy: something not yet started or in progress.            *)
Busy(enable, dirty) == enable # {} \/ dirty # {}
=============================================================================
