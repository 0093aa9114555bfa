---------------------------- MODULE MCSpiDevice ----------------------------
(* SpiDevice with a history of what the client asked for, on a controller   *)
(* that cannot send the least significant bit first.                        *)
EXTENDS SpiDevice

VARIABLE asked    \* the order last set since the device was opened, or "any"

MCInit == Init /\ asked = "any"

MCNext ==
    /\ Next
    /\ asked' = IF call'.op = "open" THEN "any"
                ELSE IF call'.op = "setLSBFirst" /\ result' = Done THEN Order(call'.arg)
                ELSE asked

MCSpec == MCInit /\ [][MCNext]_<<vars, asked>>

(* Bytes are read and written with the order of bits set last, whether the  *)
(* controller or the software takes care of it: so qspidevice_p.h:17 says.  *)
ReadWriteInOrder ==
    call.op \in {"read", "write"} /\ result.order \in {"msb", "lsb"} =>
        asked \in {"any", result.order}
=============================================================================
