-------------------------- MODULE MCRelaySerializer --------------------------
(* A small instance of RelaySerializer.                                     *)
EXTENDS RelaySerializer

CONSTANTS a, b, c

On(r, i)  == [relay |-> r, on |-> TRUE, current |-> i]
Off(r, i) == [relay |-> r, on |-> FALSE, current |-> i]

(* One supply, on which only a and c or b and c go on together and a and b  *)
(* do not go off together; c needs no supply to go off.  The second group   *)
(* draws more than its supply delivers and is never accepted.               *)
SupplyGroups ==
    {[max |-> 3, entries |-> <<On(a, 2), On(b, 2), On(c, 1), Off(b, 2), Off(a, 2)>>],
     [max |-> 1, entries |-> <<Off(c, 2)>>]}

Use(client, asks, forces, replies, direct) ==
    [client |-> client, asks |-> asks, forces |-> forces, replies |-> replies,
     direct |-> direct, started |-> FALSE]
Each(S) == {{r} : r \in S}

(* A client that does not wait, with any two of the relays; one that shares *)
(* the lower layer with another client; one that makes requests from within *)
(* its idle() slot; and one that waits and sometimes forces.                *)
SerializerUses ==
    {Use("any", Each(R), {FALSE}, {}, {}) : R \in {{a, b}, {a, c}, {b, c}}} \cup
    {Use("waiting", SUBSET Relay, {FALSE}, {}, {c}),
     Use("waiting", Each({a, b}), BOOLEAN, {a}, {}),
     Use("waiting", SUBSET Relay, BOOLEAN, {}, {})}
=============================================================================
