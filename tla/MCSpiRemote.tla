---------------------------- MODULE MCSpiRemote ----------------------------
(* SpiRemote with two clients that meet at the server: the first only opens *)
(* its device; the second makes all calls, opens again, may be lost, and    *)
(* its temporary file may fail to open.                                     *)
EXTENDS SpiRemote, TLC

CONSTANTS c1, c2

Of(ops, arg) == [op : ops, arg : {arg}]
TwoClients ==
    c1 :> Of({"open"}, TRUE) @@
    c2 :> {r \in Call : r.arg \/ r.op = "setLSBFirst"}
TwoOpens == c1 :> 1 @@ c2 :> 2
=============================================================================
