---------------------------- MODULE MCSerialPort ----------------------------
(* A small instance of SerialPortAsyncBlock: ordinary bytes and line ends.  *)
EXTENDS SerialPortAsyncBlock

CONSTANTS x, end

(* A length, an end block that may come in two pieces, or both.             *)
SomeCriteria == {[len |-> 2, endBlock |-> <<>>], [len |-> 0, endBlock |-> <<x, end>>],
                 [len |-> 3, endBlock |-> <<end>>]}
=============================================================================
