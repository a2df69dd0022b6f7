----------------------------- MODULE MCPacketOut -----------------------------
(* Small instances of PacketOut.                                            *)
EXTENDS PacketOut

CONSTANTS tcp, udp, sender, again
=============================================================================
