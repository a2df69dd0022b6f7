----------------------------- MODULE MCUdpStream -----------------------------
(* Small instances of UdpStream.                                           *)
EXTENDS UdpStream
=============================================================================
