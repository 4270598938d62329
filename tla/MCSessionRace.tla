--------------------------- MODULE MCSessionRace ---------------------------
(* SessionRace with two slots, two clients whose addresses fall in one     *)
(* bucket, which is also the bucket of the reset address, and one          *)
(* interface address.                                                      *)
EXTENDS SessionRace

(* What is left in the variables of a handler that returned is not read    *)
(* again: the pointer outside of handlers, the packet but where it is      *)
(* looked at; and to the closing threads it is the same where a worker     *)
(* sends.  States that differ in nothing else are explored once.           *)
RaceView ==
    <<pool, info, ipv4_map, pc, at[Reaper],
      IF pc[Main] \in {"idle", "left"} THEN 0 ELSE at[Main],
      IF pc[Main] \in {"set_addr", "handshake", "auth", "auth_ip", "auth_route"}
      THEN arg ELSE NoArg,
      worker.pc = "read", bug, doubles, overlapped>>
=============================================================================
