----------------------------- MODULE SpiDevice -----------------------------
(***************************************************************************)
(* A process and its QSPIDevice on a local spidev node: calls are          *)
(* synchronous, and are invoked, performed and returned one by one.  This  *)
(* is what the remote access is to look like: "fully transparent".         *)
(***************************************************************************)
EXTENDS SpiCalls

CONSTANT LsbCapable    \* the controller can send the least significant bit first

VARIABLES
    dev,      \* the QSPIDevice
    lsb,      \* the controller sends the least significant bit first
    call,     \* the call in progress, or NoCall
    result,   \* what it returns, or NoResult until it is performed
    alive     \* the process exists

vars == <<dev, lsb, call, result, alive>>

Init ==
    /\ dev = Closed /\ lsb = FALSE
    /\ call = NoCall /\ result = NoResult
    /\ alive = TRUE

Invoke(c) ==
    /\ alive /\ call = NoCall
    /\ call' = c
    /\ UNCHANGED <<dev, lsb, result, alive>>

Perform ==
    /\ call # NoCall /\ result = NoResult
    /\ \E o \in Outcomes(dev, lsb, call, LsbCapable) :
          dev' = o.dev /\ lsb' = o.lsb /\ result' = o.result
    /\ UNCHANGED <<call, alive>>

Return ==
    /\ result # NoResult
    /\ call' = NoCall /\ result' = NoResult
    /\ UNCHANGED <<dev, lsb, alive>>

(* The process ends, in a call or not, which closes its descriptors; what   *)
(* becomes of the controller is of no interest to it any more.              *)
Quit ==
    /\ alive /\ alive' = FALSE
    /\ dev' = Closed /\ lsb' = FALSE
    /\ call' = NoCall /\ result' = NoResult

Next == (\E c \in Call : Invoke(c)) \/ Perform \/ Return \/ Quit

Spec == Init /\ [][Next]_vars
=============================================================================
