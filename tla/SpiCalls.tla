------------------------------ MODULE SpiCalls ------------------------------
(***************************************************************************)
(* The calls of QSPIDevice on a local spidev node (the branches without a  *)
(* remote client of src/spidevice/qspidevice.cpp): what each may do to the *)
(* device, and what it may return.  Of the data exchanged only the order   *)
(* of the bits on the line is kept.                                        *)
(***************************************************************************)

(* A call and its parameter: the value for setLSBFirst, "the mode is one of *)
(* the four" for setMode, "there is data to send" for sendReceive.          *)
Call == [op : {"open", "close", "setMode", "setLSBFirst", "setBitsPerWord",
               "setBitSpeed", "sendReceive", "read", "write"}, arg : BOOLEAN]
NoCall == [op |-> "none", arg |-> FALSE]

(* What a call returns.  Failed is false, or -1 of a read or a write; Empty *)
(* is a read or a write of 0 bytes.                                         *)
Result   == [ok : BOOLEAN, order : {"pending", "none", "void", "empty", "msb", "lsb"}]
NoResult == [ok |-> FALSE, order |-> "pending"]
Failed   == [ok |-> FALSE, order |-> "none"]
Empty    == [ok |-> FALSE, order |-> "empty"]
Done     == [ok |-> TRUE, order |-> "none"]
Void     == [ok |-> TRUE, order |-> "void"]
Order(first)     == IF first THEN "lsb" ELSE "msb"
Exchanged(first) == [ok |-> TRUE, order |-> Order(first)]

(* reverse is bSWReverseRequired.  A closed device has no reversal: nobody  *)
(* sees it before the next open resets it.                                  *)
Device == [open : BOOLEAN, reverse : BOOLEAN]
Closed == [open |-> FALSE, reverse |-> FALSE]
Opened == [open |-> TRUE, reverse |-> FALSE]
-----------------------------------------------------------------------------
(* The outcomes of each call on a device d whose controller sends the least *)
(* significant bit first if l: both of them after the call, and its result. *)
Outcome(d, l, res) == [dev |-> d, lsb |-> l, result |-> res]
Fails(d, l) == Outcome(d, l, Failed)

(* open fails for a device that is open, does not exist or is no SPI.       *)
Open(d, l) == {Fails(d, l)} \cup {o \in {Outcome(Opened, l, Done)} : ~d.open}

Close(d, l) == {Outcome(Closed, l, Void)}

(* Every ioctl may fail; none is made on a closed device.                   *)
SetBitsPerWord(d, l) == {Fails(d, l)} \cup {o \in {Outcome(d, l, Done)} : d.open}
SetBitSpeed(d, l)    == {Fails(d, l)} \cup {o \in {Outcome(d, l, Done)} : d.open}

(* The ioctl writes all bits of spidev's mode, the order of bits among them,*)
(* also for a mode that is not one of the four: mode 0 then.                *)
SetMode(d, l, valid) ==
    {Fails(d, l)} \cup
        {o \in {Outcome(d, FALSE, IF valid THEN Done ELSE Failed)} : d.open}

(* A controller that is not capable of the least significant bit first      *)
(* refuses it.  When its ioctl fails the call succeeds: software reverses   *)
(* the bits, if the least significant one was to be first.                  *)
SetLSBFirst(d, l, first, capable) ==
    IF d.open
    THEN {Outcome([d EXCEPT !.reverse = first], l, Done)}
            \cup {o \in {Outcome(d, first, Done)} : first => capable}
    ELSE {Fails(d, l)}

(* sendReceive hands the client's buffers to the controller as they are.    *)
SendReceive(d, l, data) ==
    {Fails(d, l)} \cup {o \in {Outcome(d, l, Exchanged(l))} : d.open /\ data}

(* read and write reverse the bits of each byte if need be.                 *)
ReadData(d, l) ==
    {Fails(d, l)} \cup {o \in {Outcome(d, l, Exchanged(l # d.reverse))} : d.open}
WriteData(d, l) ==
    {Fails(d, l)} \cup {o \in {Outcome(d, l, Exchanged(l # d.reverse))} : d.open}

(* The call c on a device, with a controller capable of LSB first or not.   *)
Outcomes(d, l, c, capable) ==
    CASE c.op = "open"           -> Open(d, l)
      [] c.op = "close"          -> Close(d, l)
      [] c.op = "setMode"        -> SetMode(d, l, c.arg)
      [] c.op = "setLSBFirst"    -> SetLSBFirst(d, l, c.arg, capable)
      [] c.op = "setBitsPerWord" -> SetBitsPerWord(d, l)
      [] c.op = "setBitSpeed"    -> SetBitSpeed(d, l)
      [] c.op = "sendReceive"    -> SendReceive(d, l, c.arg)
      [] c.op = "read"           -> ReadData(d, l)
      [] c.op = "write"          -> WriteData(d, l)
=============================================================================
