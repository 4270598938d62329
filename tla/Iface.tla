------------------------------- MODULE Iface -------------------------------
(***************************************************************************)
(* The virtual network interface of net/linux/iface.c: the TUN device is   *)
(* allocated, teavpn_iface_up() configures it with a sequence of commands  *)
(* of ip(8), and teavpn_iface_down() runs the inverse commands, in the     *)
(* same order.  The first command that fails ends either function; nothing *)
(* is undone.  The caller takes down what came up, and nothing else.       *)
(*                                                                         *)
(* Commands act on the host: the device, its address, the host route to    *)
(* the server and the two halves of the default route.  What the kernel    *)
(* does with a command is external; so are the other commands of the host, *)
(* of which the model has those that replace the default gateway.          *)
(***************************************************************************)
EXTENDS Integers, FiniteSets, FiniteSetsExt

CONSTANTS Gateway,     \* default gateways of the host
          Ipv4,        \* the address of the interface, four octets
          DGateway,    \* gateways inside the tunnel
          Prefix,      \* the netmasks in use, by their number of ones
          MaxFaults,   \* bound on calls that fail without a reason
          MaxMoves,    \* bound on changes of the default gateway
          MaxRuns      \* bound on the runs

None == "none"
Empty == <<>>           \* an address that is not set
NoAddr == [len |-> -1, brd |-> Empty]
Octet == 0..255

ASSUME IfaceAssumption ==
    /\ None \notin Gateway /\ Gateway # {}
    /\ Ipv4 \in [1..4 -> Octet] /\ DGateway \subseteq [1..4 -> Octet]
    /\ Prefix \subseteq 0..32
    /\ {MaxFaults, MaxMoves, MaxRuns} \subseteq Nat

-----------------------------------------------------------------------------
(* Addresses are octets in network order, which is their order in memory.  *)

(* The netmask with n ones.                                                *)
Netmask(n) ==
    [i \in 1..4 |-> LET ones == Max({0, Min({8, n - 8 * (i - 1)})})
                    IN  256 - 2^(8 - ones)]

(* A loop that shifts until nothing is left.                               *)
Shifts[n \in Octet] == IF n = 0 THEN 0 ELSE 1 + Shifts[n \div 2]

(* A slip: one shift too few.                                              *)
cidr_OffByOne(nm) ==
    LET used == {i \in 1..4 : nm[i] # 0}
    IN  IF used = {} THEN 0 ELSE 8 * (Max(used) - 1) + Shifts[nm[Max(used)]] - 1

(* The netmask, as inet_pton() left it in memory, is read as an integer of *)
(* the machine (little-endian): its highest octet is the last one that is  *)
(* not zero.                                                               *)
cidr(nm) ==
    LET used == {i \in 1..4 : nm[i] # 0}
    IN  IF used = {} THEN 0 ELSE 8 * (Max(used) - 1) + Shifts[nm[Max(used)]]

(* bipv4 & bipv4_nm, and bipv4_nw | ~bipv4_nm, for masks of leading ones.  *)
network(ip, nm)   == [i \in 1..4 |-> ip[i] - (ip[i] % (256 - nm[i]))]
broadcast(ip, nm) == [i \in 1..4 |-> network(ip, nm)[i] + (255 - nm[i])]

-----------------------------------------------------------------------------
VARIABLES cfg,      \* if_info: ones of the netmask, ipv4_pub set, ipv4_dgateway
          host,     \* what the kernel has
          gw,       \* the default gateway, or None
          nodes,    \* the device nodes the system has
          dtf,      \* the static variable of tun_alloc()
          pc,       \* the next step
          up,       \* teavpn_iface_up() runs, or ran last; otherwise _down()
          rdgw,     \* the gateway read by the current call
          need_remove_iff,
          up_failed, \* some teavpn_iface_up() returned false
          faults, moves, runs

call_vars == <<up, rdgw, need_remove_iff, up_failed>>
env_vars  == <<moves, runs>>
vars == <<cfg, host, gw, nodes, dtf, pc, call_vars, faults, env_vars>>

NetTun == "/dev/net/tun"
DevTun == "/dev/tun"
Halves == {"0.0.0.0/1", "128.0.0.0/1"}

NoDevice == [dev |-> FALSE, link |-> FALSE, addr |-> NoAddr, pub |-> None, half |-> {}]

Init == /\ cfg \in [ones : Prefix, pub : BOOLEAN, dgateway : DGateway \cup {Empty}]
        /\ host = NoDevice
        /\ gw \in Gateway
        /\ nodes \in SUBSET {NetTun, DevTun}
        /\ dtf = NetTun
        /\ pc = "tun_alloc" /\ up = TRUE /\ rdgw = None
        /\ need_remove_iff = FALSE /\ up_failed = FALSE
        /\ faults = 0 /\ moves = 0 /\ runs = 1

-----------------------------------------------------------------------------
(* The kernel's side of the commands.                                      *)

NetmaskOf(h) == Netmask(h.addr.len)

(* The tunnel's gateway can be reached through the interface.              *)
OnLink(h) == /\ h.link /\ h.addr # NoAddr
             /\ network(cfg.dgateway, NetmaskOf(h)) = network(Ipv4, NetmaskOf(h))

(* Taking a link down drops the routes through it and keeps its address.   *)
SetLink(h) == [h EXCEPT !.link = up, !.half = IF up THEN @ ELSE {}]

(* Closing the last queue of a TUN device removes it.                      *)
RemoveDevice(h) == [NoDevice EXCEPT !.pub = h.pub]

-----------------------------------------------------------------------------
(* Steps of the program.                                                   *)

Fault == faults < MaxFaults /\ faults' = faults + 1

(* tun_alloc() and fd_set_nonblock().  A missing node makes the other one  *)
(* the choice of this and of all later calls.                              *)
tun_alloc ==
    /\ pc = "tun_alloc"
    /\ dtf' = IF dtf \in nodes THEN dtf ELSE DevTun
    /\ \/ /\ dtf' \in nodes
          /\ host' = [host EXCEPT !.dev = TRUE]
          /\ pc' = "prepare" /\ up' = TRUE
          /\ UNCHANGED faults
       \/ /\ dtf' \in nodes /\ Fault
          /\ pc' = "out" /\ UNCHANGED <<host, up>>
       \/ /\ dtf' \notin nodes
          /\ pc' = "out" /\ UNCHANGED <<host, up, faults>>
    /\ UNCHANGED <<cfg, gw, nodes, rdgw, need_remove_iff, up_failed, env_vars>>

(* teavpn_iface_toggle() returns.  The caller of teavpn_iface_up() fails,  *)
(* or notes that the interface has to be removed; the result of            *)
(* teavpn_iface_down() is ignored.                                         *)
Return(ok) ==
    /\ pc' = IF up /\ ok THEN "running" ELSE "out"
    /\ need_remove_iff' = (up /\ ok)
    /\ up_failed' = (up_failed \/ (up /\ ~ok))

Goto(step) == pc' = step /\ UNCHANGED <<need_remove_iff, up_failed>>

(* EXEC_CMD and the test of its result: the kernel accepts the command or  *)
(* not, and the call may fail for reasons of its own.                      *)
Exec(step, accepted, after, next) ==
    /\ pc = step
    /\ \/ /\ accepted /\ host' = after
          /\ IF next = "done" THEN Return(TRUE) ELSE Goto(next)
          /\ UNCHANGED faults
       \/ /\ ~accepted
          /\ Return(FALSE) /\ UNCHANGED <<host, faults>>
       \/ /\ accepted /\ Fault
          /\ Return(FALSE) /\ UNCHANGED host
    /\ UNCHANGED <<cfg, gw, nodes, dtf, up, rdgw, env_vars>>

(* inet_pton(), inet_ntop() and find_ip_cmd() come before any command.     *)
Prepare == Exec("prepare", TRUE, host, "link")

(* A slip: the link is not set up.                                         *)
LinkCmd_NotUp == Exec("link", host.dev, host, "addr")

LinkCmd == Exec("link", host.dev, SetLink(host), "addr")

(* A slip: the routes into the tunnel come before the one to the server.   *)
AddrCmd_RoutesFirst ==
    Exec("addr", up <=> host.addr = NoAddr,
         [host EXCEPT !.addr = IF ~up THEN NoAddr
                               ELSE [len |-> cidr(Netmask(cfg.ones)),
                                     brd |-> broadcast(Ipv4, Netmask(cfg.ones))]],
         IF cfg.dgateway # Empty THEN "low" ELSE "gateway")

(* ip addr add, or delete, with the prefix length and the broadcast        *)
(* address computed from the netmask.                                      *)
AddrCmd ==
    Exec("addr", up <=> host.addr = NoAddr,
         [host EXCEPT !.addr = IF ~up THEN NoAddr
                               ELSE [len |-> cidr(Netmask(cfg.ones)),
                                     brd |-> broadcast(Ipv4, Netmask(cfg.ones))]],
         "gateway")

(* The real default gateway, read from `ip route show`; needed only for    *)
(* the host route to the server.                                           *)
ReadGateway ==
    /\ pc = "gateway"
    /\ \/ ~cfg.pub /\ Return(TRUE) /\ UNCHANGED <<rdgw, faults>>
       \/ /\ cfg.pub /\ gw # None
          /\ rdgw' = gw /\ Goto(IF up THEN "purge" ELSE "pub") /\ UNCHANGED faults
       \/ /\ cfg.pub /\ gw = None
          /\ Return(FALSE) /\ UNCHANGED <<rdgw, faults>>
       \/ cfg.pub /\ gw # None /\ Fault /\ Return(FALSE) /\ UNCHANGED rdgw
    /\ UNCHANGED <<cfg, host, gw, nodes, dtf, up, env_vars>>

(* On the way up an old route to the server through this gateway is        *)
(* deleted first, whatever the result.                                     *)
PurgeCmd ==
    /\ pc = "purge"
    /\ \/ /\ host' = [host EXCEPT !.pub = IF @ = rdgw THEN None ELSE @]
          /\ UNCHANGED faults
       \/ Fault /\ UNCHANGED host
    /\ Goto("pub")
    /\ UNCHANGED <<cfg, gw, nodes, dtf, up, rdgw, env_vars>>

(* A slip: the host route is kept on the way down.                         *)
PubCmd_OnlyUp ==
    Exec("pub", up => host.pub = None /\ rdgw = gw,
         [host EXCEPT !.pub = IF up THEN rdgw ELSE @],
         IF cfg.dgateway = Empty THEN "done" ELSE "low")

(* The host route.  The kernel refuses a second route to the same address, *)
(* one through a gateway it does not reach, and to delete what is not      *)
(* there.                                                                  *)
PubCmd ==
    Exec("pub", IF up THEN host.pub = None /\ rdgw = gw ELSE host.pub = rdgw,
         [host EXCEPT !.pub = IF up THEN rdgw ELSE None],
         IF cfg.dgateway = Empty THEN "done" ELSE "low")

HalfRoute(step, half, next) ==
    Exec(step, IF up THEN OnLink(host) /\ half \notin host.half ELSE half \in host.half,
         [host EXCEPT !.half = IF up THEN @ \cup {half} ELSE @ \ {half}], next)

LowCmd  == HalfRoute("low", "0.0.0.0/1", "high")
HighCmd == HalfRoute("high", "128.0.0.0/1", "done")

(* destroy_state()                                                         *)
TakeDown ==
    /\ pc = "running" /\ need_remove_iff
    /\ pc' = "prepare" /\ up' = FALSE
    /\ UNCHANGED <<cfg, host, gw, nodes, dtf, rdgw, need_remove_iff, up_failed, faults,
                   env_vars>>

(* The process ends, or the front end connects again in the same process,  *)
(* which still has the queues of the device.                               *)
Exit ==
    /\ pc = "out"
    /\ host' = RemoveDevice(host) /\ dtf' = NetTun
    /\ pc' = "exited"
    /\ UNCHANGED <<cfg, gw, nodes, call_vars, faults, env_vars>>

RunAgain ==
    /\ pc \in {"out", "exited"} /\ runs < MaxRuns /\ runs' = runs + 1
    /\ pc' = "tun_alloc"
    /\ UNCHANGED <<cfg, host, gw, nodes, dtf, call_vars, faults, moves>>

(* The host moves to another network, or loses its default route.  The old *)
(* link stays up, and with it the host route: a move that takes it down    *)
(* drops that route as well and is not modelled.                           *)
MoveGateway ==
    /\ moves < MaxMoves /\ moves' = moves + 1
    /\ gw' \in (Gateway \cup {None}) \ {gw}
    /\ UNCHANGED <<cfg, host, nodes, dtf, pc, call_vars, faults, runs>>

Toggle == \/ Prepare \/ LinkCmd \/ AddrCmd \/ ReadGateway
          \/ PurgeCmd \/ PubCmd \/ LowCmd \/ HighCmd

Next == tun_alloc \/ Toggle \/ TakeDown \/ Exit \/ RunAgain \/ MoveGateway

Spec == Init /\ [][Next]_vars

-----------------------------------------------------------------------------
(* "Convert netmask from 32-bit big-endian integer to CIDR number": the    *)
(* prefix length of the interface is the number of ones of its netmask.    *)
(* Does not hold: 255.255.252.0 gives 24.                                  *)
PrefixIsNetmask == host.addr # NoAddr => host.addr.len = cfg.ones

(* It is when the netmask ends on an octet, and then the broadcast address *)
(* is the last one of the network the interface is given.                  *)
OctetNetmasksExact ==
    host.addr # NoAddr /\ cfg.ones % 8 = 0 =>
        /\ host.addr.len = cfg.ones
        /\ host.addr.brd = broadcast(Ipv4, NetmaskOf(host))

(* The default route leads into the tunnel only while the host route to    *)
(* the server exists: through every failure, reconnection and change of    *)
(* gateway the tunnel's own datagrams are not sent into the tunnel.        *)
TunnelNeverCarriesItself == host.half # {} => host.pub # None

(* teavpn_iface_down() after a successful teavpn_iface_up(), when no call  *)
(* failed by itself, leaves nothing of the interface behind, although its  *)
(* last commands fail because the link is down already.  The host route    *)
(* goes too unless the default gateway has changed since.                  *)
DownUndoesUp ==
    pc = "out" /\ ~up /\ faults = 0 =>
        /\ ~host.link /\ host.addr = NoAddr /\ host.half = {}
        /\ moves = 0 => host.pub = None

(* The tunnel's gateway lies in the network the interface really gets.     *)
GatewayInPrefix ==
    cfg.pub /\ cfg.dgateway # Empty =>
        LET nm == Netmask(cidr(Netmask(cfg.ones)))
        IN  network(cfg.dgateway, nm) = network(Ipv4, nm)

(* Without failing calls and changes of gateway no run leaves anything     *)
(* that makes a later teavpn_iface_up() fail, in the same process or in    *)
(* another one.                                                            *)
CleanRunsRepeat == faults = 0 /\ moves = 0 /\ GatewayInPrefix => ~up_failed
=============================================================================
