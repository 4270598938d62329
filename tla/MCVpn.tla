------------------------------- MODULE MCVpn -------------------------------
(* Vpn with one slot and one client.                                       *)
EXTENDS Vpn, TLC

MCAddr == <<<<1, 0>>, 7>>
MCUserIp == "alice" :> <<10, 1>>
=============================================================================
