---------------------------- MODULE MCPacketDriver ----------------------------
(* A small instance of PacketDriver. *)
EXTENDS PacketDriver

CONSTANTS a, b

TheCall(o, m) == [op |-> o, n |-> m]

(* More packets than there are sequence numbers, then the other way. *)
Turns == [s \in Side |-> IF s = a THEN <<TheCall("write", 5), TheCall("read", 1)>>
                                  ELSE <<TheCall("read", 5), TheCall("write", 1)>>]
=============================================================================
