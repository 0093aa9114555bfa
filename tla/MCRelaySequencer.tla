-------------------------- MODULE MCRelaySequencer --------------------------
(* Small instances of RelaySequencer.                                       *)
EXTENDS RelaySequencer

CONSTANTS a, b

(* Any one of the four kinds of group, or none: they share relays, so that  *)
(* only the first is accepted.                                              *)
OneGroup == {[type |-> t, members |-> {a, b}] : t \in SwitchTypes \ {"transparent"}}

Use(client, forces, replies, direct, started) ==
    [client |-> client, asks |-> SUBSET Relay, forces |-> forces, replies |-> replies,
     direct |-> direct, started |-> started]

(* A client that waits and sometimes forces, and one that does not wait     *)
(* (with either content of the uninitialised flag).                         *)
OrdinaryUses ==
    {Use("waiting", BOOLEAN, {}, {}, FALSE),
     Use("any", {FALSE}, {}, {}, TRUE), Use("any", {FALSE}, {}, {}, FALSE)}
ImpatientUse == {Use("any", {FALSE}, {}, {}, FALSE)}
=============================================================================
