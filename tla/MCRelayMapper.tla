--------------------------- MODULE MCRelayMapper ---------------------------
(* Small instances of RelayMapper: a bistable relay with a negative ON pin, *)
(* a monostable relay with a negative pin and one that needs no hold time.  *)
EXTENDS RelayMapper

CONSTANTS bi, mono, other

TrioOnTime == [r \in Relay |-> CASE r = bi -> 3 [] r = mono -> 0 [] r = other -> 1]
AnyAndSettled == [k \in Clients |-> IF k = "any" THEN {bi, other} ELSE Relay]
=============================================================================
