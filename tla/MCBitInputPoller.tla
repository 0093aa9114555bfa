-------------------------- MODULE MCBitInputPoller --------------------------
(* A small instance of BitInputPoller: two bits and every kind of reader.   *)
EXTENDS BitInputPoller

CONSTANTS b1, b2
=============================================================================
