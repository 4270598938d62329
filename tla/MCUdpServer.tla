---------------------------- MODULE MCUdpServer ----------------------------
(* UdpServer with two clients in one bucket and three users: a user may be *)
(* on both sessions, which then share an interface address, and two users  *)
(* have different addresses with the same low 16 bits.  A SYNC goes out    *)
(* every second packet, and every third with the one session of the        *)
(* liveness run, where the timeouts of the two kinds of sessions differ.   *)
EXTENDS UdpServer, TLC

(* No action reads what the last step sent: states that differ in nothing  *)
(* else are explored once, and action properties see every step.           *)
ServerView == <<pool, info, ipv4_map, flags, online, zr>>

MCUserIp == "alice" :> <<10, 1>> @@ "bob" :> <<10, 2>> @@ "carol" :> <<11, 1>>
=============================================================================
