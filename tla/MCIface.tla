------------------------------ MODULE MCIface ------------------------------
(* Iface with every netmask; one of the tunnel's gateways is in the /24 of *)
(* the interface address, the other one only in its /22.                   *)
EXTENDS Iface

MCIpv4 == <<10, 8, 3, 2>>
MCDGateway == {<<10, 8, 3, 1>>, <<10, 8, 0, 1>>}
MCPrefix == 0..32
=============================================================================
