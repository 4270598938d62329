---------------------------- MODULE MCUdpSession ----------------------------
(* UdpSession with three slots, two deleting threads and two ports.  Two   *)
(* of the three source addresses share their low 16 bits, so that a bucket *)
(* can hold a list of three; one of them falls in bucket 0, the bucket a   *)
(* reset slot points at.                                                   *)
EXTENDS UdpSession
=============================================================================
