----------------------------- MODULE SpiAccess -----------------------------
(***************************************************************************)
(* A process and its QSPIDevice on the server's machine: SpiDevice, and    *)
(* what the remote access makes different.  The QSPIDevice has a temporary *)
(* file of its own, which is opened after the device, may fail to, and     *)
(* alone decides whether reads and writes are let through; and a read that *)
(* fails on the device comes back as one of no bytes.                      *)
(***************************************************************************)
EXTENDS SpiDevice

CONSTANT FileOpens     \* the temporary file can always be opened

VARIABLE file          \* it is open

accessVars == <<vars, file>>

AccessInit == Init /\ file = FALSE

(* A call is performed as on the local device but for two things: without   *)
(* the file no data is read or written, and with it no read says it failed. *)
PerformRemote ==
    /\ Perform
    /\ call.op = "write" /\ ~file => result' = Failed
    /\ call.op = "read" => (result' = Failed <=> ~file)

ReadNothing ==
    /\ call.op = "read" /\ result = NoResult /\ file
    /\ result' = Empty
    /\ UNCHANGED <<dev, lsb, call, alive, file>>

(* The file follows the device before open and close return, ...            *)
OpenFile ==
    /\ call.op = "open" /\ result = Done
    /\ file' = TRUE
    /\ UNCHANGED vars
CloseFile ==
    /\ call.op = "close" /\ result = Void
    /\ file' = FALSE
    /\ UNCHANGED vars

(* ... unless it cannot be opened: then open fails, and the device is open. *)
FileFails ==
    /\ ~FileOpens
    /\ call.op = "open" /\ result = Done /\ ~file
    /\ result' = Failed
    /\ UNCHANGED <<dev, lsb, call, alive, file>>

ReturnRemote ==
    /\ Return
    /\ call.op = "open" => file = result.ok
    /\ call.op = "close" => ~file

(* The next open then gives up the device and begins with another one.      *)
OpenAgain(c) ==
    /\ alive /\ call = NoCall
    /\ ~FileOpens /\ c.op = "open" /\ dev.open /\ ~file
    /\ call' = c /\ dev' = Closed
    /\ UNCHANGED <<lsb, result, alive, file>>

AccessNext ==
    \/ (\E c \in Call : Invoke(c)) /\ UNCHANGED file
    \/ (PerformRemote \/ ReturnRemote) /\ UNCHANGED file
    \/ ReadNothing
    \/ OpenFile \/ CloseFile \/ FileFails
    \/ \E c \in Call : OpenAgain(c)
    \/ Quit /\ file' = FALSE

AccessSpec == AccessInit /\ [][AccessNext]_accessVars
=============================================================================
