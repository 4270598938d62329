---------------------------- MODULE MCUdpClient ----------------------------
(* UdpClient with the counts of the code and small thread and time bounds. *)
EXTENDS UdpClient
=============================================================================
