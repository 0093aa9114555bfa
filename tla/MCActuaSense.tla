---------------------------- MODULE MCActuaSense ----------------------------
(* A small instance of ActuaSense: a valve, which has no sensor, and the    *)
(* sensor of its position.                                                  *)
EXTENDS ActuaSense

CONSTANTS valve, sensor

(* An action that may fail and is observed after it, and a longer one that  *)
(* only has to be over.                                                     *)
TwoRequests == {[timeout |-> 1, err |-> TRUE, long |-> TRUE],
                [timeout |-> 2, err |-> FALSE, long |-> FALSE]}
=============================================================================
