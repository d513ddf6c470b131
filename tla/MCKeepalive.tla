----------------------------- MODULE MCKeepalive ----------------------------
(* A small instance of Keepalive: short intervals, digits in base 2. *)
EXTENDS Keepalive

\* A packet in two buffers, the first one byte long: three bytes, so that it is cut
\* within its second buffer too.
MCOutPackets == {<< <<48>>, <<1, 2>> >>}

\* Two digits of remaining length and two bytes of data.
MCInPackets == {[type |-> 50, data |-> <<4, 5>>]}
=============================================================================
