----------------------------- MODULE RelayLayer -----------------------------
(***************************************************************************)
(* What a layer of the relay stack promises to the layer or client above   *)
(* it (class QRelayBase, src/relaymapper/relay-base.h): requests are       *)
(* collected, taken together, finished one after another, and idle() is    *)
(* emitted once nothing is left.  RelayMapper implements this module; the  *)
(* layers above the mapper are modelled on top of it.                      *)
(***************************************************************************)
EXTENDS RelayBase

CONSTANT Relay      \* logical relays

VARIABLE layer      \* the layer: its masks, and whether it still owes an idle()

Layer == [state : SUBSET Relay, enable : SUBSET Relay, set : SUBSET Relay,
          dirty : SUBSET Relay, armed : BOOLEAN]

InitLayer == [state |-> {}, enable |-> {}, set |-> {}, dirty |-> {}, armed |-> FALSE]

LayerBusy(l) == Busy(l.enable, l.dirty)

(* startSetMulti called on layer l.                                         *)
Requested(l, E, S, force) ==
    LET changed == Changing(l.state, E, S, force)
    IN  [state |-> l.state, enable |-> l.enable \cup changed,
         set |-> SetNext(l.set, changed, S), dirty |-> l.dirty, armed |-> TRUE]

(* What may become of layer l when it works: it takes all the requests, the *)
(* relays dirtyAfter stay in transition, and with none left it may emit     *)
(* idle() (not at once when an output of its own is still in flight).       *)
Worked(l, dirtyAfter, armedAfter) ==
    [state |-> Target(l.state, l.enable, l.set), enable |-> {}, set |-> l.set,
     dirty |-> dirtyAfter, armed |-> armedAfter]
Outcomes(l) ==
    {Worked(l, D, TRUE) : D \in SUBSET (l.dirty \cup l.enable)}
        \cup {Worked(l, {}, FALSE)}

Init == layer = InitLayer

StartSetMulti(E, S, force) == layer' = Requested(layer, E, S, force)

Advance == layer.armed /\ layer' \in Outcomes(layer)

Next ==
    \/ \E E \in SUBSET Relay : \E S \in SUBSET E : \E force \in BOOLEAN :
          StartSetMulti(E, S, force)
    \/ Advance

(* A layer that owes an idle() keeps working.                               *)
Spec == Init /\ [][Next]_layer /\ WF_layer(Advance)
=============================================================================
