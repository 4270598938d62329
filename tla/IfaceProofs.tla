---------------------------- MODULE IfaceProofs ----------------------------
(***************************************************************************)
(* Proofs about Iface, for all addresses, gateways and netmasks and any    *)
(* number of failing calls, changes of gateway and runs.                   *)
(***************************************************************************)
EXTENDS Iface, TLAPS

-----------------------------------------------------------------------------
(* The invariants.                                                         *)

(* What teavpn_iface_up() computes for the interface.                      *)
GoodAddr == [len |-> cidr(Netmask(cfg.ones)), brd |-> broadcast(Ipv4, Netmask(cfg.ones))]

(* The fields of the host.                                                 *)
HostType == [dev : BOOLEAN, link : BOOLEAN, addr : {NoAddr, GoodAddr},
             pub : Gateway \cup {None}, half : SUBSET Halves]

Place == {"tun_alloc", "prepare", "link", "addr", "gateway", "purge", "pub", "low", "high",
          "running", "out", "exited"}

Typed == /\ cfg \in [ones : Prefix, pub : BOOLEAN, dgateway : DGateway \cup {Empty}]
         /\ host \in HostType
         /\ gw \in Gateway \cup {None} /\ rdgw \in Gateway \cup {None}
         /\ pc \in Place /\ up \in BOOLEAN /\ up_failed \in BOOLEAN
         /\ faults \in Nat /\ moves \in Nat

Outside == {"tun_alloc", "out", "exited"}   \* no device is being configured
Routing == {"purge", "pub", "low", "high"}  \* the commands for the routes

(* Through every failure: the routes into the tunnel need the address,     *)
(* which a later teavpn_iface_up() does not find twice, and a              *)
(* teavpn_iface_down() that got past the link has dropped them.            *)
TunnelInv ==
    /\ host.half # {} => host.pub # None /\ host.addr # NoAddr
    /\ pc \in {"gateway", "purge", "pub"} => host.half = {}
    /\ ~up /\ pc \in {"addr", "low", "high"} => host.half = {}
    /\ up /\ pc \in {"low", "high"} => host.pub # None
    /\ pc \in {"purge", "pub"} => rdgw # None
    /\ pc \in {"purge", "running"} => up

(* What the commands find: the device, and the address and the host route  *)
(* of a successful teavpn_iface_up().                                      *)
FoundInv ==
    /\ pc \notin Outside => host.dev
    /\ ~cfg.pub => host.pub = None
    /\ pc \in Routing => cfg.pub
    /\ pc \in {"low", "high"} => cfg.dgateway # Empty
    /\ (up /\ pc \in Routing \cup {"gateway"}) \/ pc = "running" => host.addr # NoAddr
    /\ moves = 0 =>
          /\ gw # None
          /\ pc \in {"purge", "pub"} => rdgw = gw
          /\ cfg.pub /\ ((up /\ pc \in {"low", "high"}) \/ pc = "running") => host.pub = gw

(* teavpn_iface_down() takes these away one after the other.               *)
DownInv ==
    faults = 0 /\ ~up =>
        /\ pc \in {"prepare", "link", "addr"} => host.addr # NoAddr
        /\ pc \notin {"prepare", "link"} => ~host.link /\ host.half = {}
        /\ pc \in Outside \cup Routing \cup {"gateway"} => host.addr = NoAddr
        /\ moves = 0 =>
              /\ cfg.pub /\ pc \in {"prepare", "link", "addr", "gateway", "pub"} => host.pub = gw
              /\ pc \in Outside \cup {"low", "high"} => host.pub = None

(* So the next teavpn_iface_up() starts with nothing in its way.           *)
CleanInv ==
    faults = 0 /\ moves = 0 /\ GatewayInPrefix =>
        /\ ~up_failed
        /\ up =>
              /\ pc \in Outside \cup {"prepare", "link", "addr"} => host.addr = NoAddr
              /\ pc \in Routing \cup {"addr", "gateway"} => host.link
              /\ pc \notin {"low", "high", "running"} => host.pub = None
              /\ pc \notin {"high", "running"} => host.half = {}
              /\ pc = "high" => host.half = {"0.0.0.0/1"}

IfaceInv == Typed /\ TunnelInv /\ FoundInv /\ DownInv /\ CleanInv

-----------------------------------------------------------------------------
(* The loop that turns a netmask into a prefix length.                     *)

(* The number of binary digits of an octet.                                *)
Digits(n) == IF n = 0 THEN 0 ELSE IF n < 2 THEN 1 ELSE IF n < 4 THEN 2
             ELSE IF n < 8 THEN 3 ELSE IF n < 16 THEN 4 ELSE IF n < 32 THEN 5
             ELSE IF n < 64 THEN 6 ELSE IF n < 128 THEN 7 ELSE 8

(* A function with the defining equation of Shifts exists, and it is the   *)
(* only one.                                                               *)
LEMMA ShiftsCountDigits == \A n \in Octet : Shifts[n] = Digits(n)
<1> DEFINE Eq(f) == f = [n \in Octet |-> IF n = 0 THEN 0 ELSE 1 + f[n \div 2]]
           g == [n \in Octet |-> Digits(n)]
<1>1. \A n \in Octet : n \div 2 \in Octet /\ n \div 2 >= 0 /\ 2 * (n \div 2) =< n
                       /\ n =< 2 * (n \div 2) + 1
    BY DEF Octet
<1>2. \A n \in Octet : Digits(n) = IF n = 0 THEN 0 ELSE 1 + Digits(n \div 2)
    BY <1>1 DEF Octet, Digits
<1>3. Eq(g)
    BY <1>1, <1>2
<1>4. Shifts = CHOOSE f : Eq(f)
    BY DEF Shifts
<1>5. Eq(Shifts)
    BY <1>3, <1>4
<1>6. \A n \in Octet : Shifts[n] = IF n = 0 THEN 0 ELSE 1 + Shifts[n \div 2]
    BY <1>5
<1> HIDE DEF Eq, g
<1>7. Shifts[0] = 0
    BY <1>6 DEF Octet
<1>8. \A n \in 1..1 : Shifts[n] = 1
    BY <1>1, <1>6, <1>7 DEF Octet
<1>9. \A n \in 2..3 : Shifts[n] = 2
    BY <1>1, <1>6, <1>8 DEF Octet
<1>10. \A n \in 4..7 : Shifts[n] = 3
    BY <1>1, <1>6, <1>9 DEF Octet
<1>11. \A n \in 8..15 : Shifts[n] = 4
    BY <1>1, <1>6, <1>10 DEF Octet
<1>12. \A n \in 16..31 : Shifts[n] = 5
    BY <1>1, <1>6, <1>11 DEF Octet
<1>13. \A n \in 32..63 : Shifts[n] = 6
    BY <1>1, <1>6, <1>12 DEF Octet
<1>14. \A n \in 64..127 : Shifts[n] = 7
    BY <1>1, <1>6, <1>13 DEF Octet
<1>15. \A n \in 128..255 : Shifts[n] = 8
    BY <1>1, <1>6, <1>14 DEF Octet
<1> QED
    BY <1>7, <1>8, <1>9, <1>10, <1>11, <1>12, <1>13, <1>14, <1>15 DEF Octet, Digits

(* The octets of a netmask: none before the ones end has another value     *)
(* than 255, none after it than 0, and the one where they end has its      *)
(* highest bit set.                                                        *)
LEMMA NetmaskOctets ==
    ASSUME NEW n \in 0..32, NEW i \in 1..4
    PROVE  /\ Netmask(n)[i] \in Octet
           /\ n =< 8 * (i - 1) => Netmask(n)[i] = 0
           /\ n > 8 * (i - 1) => Netmask(n)[i] \in 128..255
<1> DEFINE k == n - 8 * (i - 1)
           ones == Max({0, Min({8, k})})
<1>1. k \in Int
    OBVIOUS
<1>2. Min({8, k}) = IF k < 8 THEN k ELSE 8
    BY <1>1 DEF Min
<1>3. ones = IF k < 0 THEN 0 ELSE IF k < 8 THEN k ELSE 8
    BY <1>1, <1>2 DEF Max
<1>4. ones \in 0..8 /\ (ones = 0 <=> n =< 8 * (i - 1))
    BY <1>1, <1>3
<1>5. Netmask(n)[i] = 256 - 2^(8 - ones)
    BY DEF Netmask
<1> HIDE DEF ones
<1>6. /\ 2^0 = 1 /\ 2^1 = 2 /\ 2^2 = 4 /\ 2^3 = 8 /\ 2^4 = 16 /\ 2^5 = 32 /\ 2^6 = 64
      /\ 2^7 = 128 /\ 2^8 = 256
    OBVIOUS
<1>7. 8 - ones \in {0, 1, 2, 3, 4, 5, 6, 7, 8} /\ (8 - ones = 8 <=> n =< 8 * (i - 1))
    BY <1>4
<1> DEFINE e == 8 - ones
<1>8. e \in {0, 1, 2, 3, 4, 5, 6, 7, 8} /\ (e = 8 <=> n =< 8 * (i - 1))
    BY <1>7
<1>9. Netmask(n)[i] = 256 - 2^e
    BY <1>5
<1> HIDE DEF e
<1> DEFINE p == 2^e
<1>10. \/ e = 8 /\ p = 256
       \/ e # 8 /\ p \in {1, 2, 4, 8, 16, 32, 64, 128}
    <2>1. CASE e = 0
        BY <1>6, <2>1
    <2>2. CASE e = 1
        BY <1>6, <2>2
    <2>3. CASE e = 2
        BY <1>6, <2>3
    <2>4. CASE e = 3
        BY <1>6, <2>4
    <2>5. CASE e = 4
        BY <1>6, <2>5
    <2>6. CASE e = 5
        BY <1>6, <2>6
    <2>7. CASE e = 6
        BY <1>6, <2>7
    <2>8. CASE e = 7
        BY <1>6, <2>8
    <2>9. CASE e = 8
        BY <1>6, <2>9
    <2> QED
        BY <1>8, <2>1, <2>2, <2>3, <2>4, <2>5, <2>6, <2>7, <2>8, <2>9
<1>11. Netmask(n)[i] = 256 - p
    BY <1>9
<1> HIDE DEF p
<1> QED
    BY <1>8, <1>10, <1>11 DEF Octet

(* cidr() of a netmask is its number of ones, rounded up to octets.        *)
LEMMA CidrRoundsUp ==
    ASSUME NEW n \in 0..32
    PROVE  cidr(Netmask(n)) = 8 * ((n + 7) \div 8)
<1> DEFINE nm == Netmask(n)
           used == {i \in 1..4 : nm[i] # 0}
<1>0. ASSUME NEW i \in 1..4
      PROVE  /\ nm[i] # 0 <=> n > 8 * (i - 1)
             /\ nm[i] # 0 => Shifts[nm[i]] = 8
    <2>1. /\ n =< 8 * (i - 1) => nm[i] = 0
          /\ n > 8 * (i - 1) => nm[i] \in 128..255
        BY NetmaskOctets
    <2>2. \A x \in 128..255 : x \in Octet /\ Digits(x) = 8
        BY DEF Digits, Octet
    <2>3. \A x \in 128..255 : Shifts[x] = 8
        BY <2>2, ShiftsCountDigits
    <2> HIDE DEF nm
    <2> QED
        BY <2>1, <2>3
<1>1. \A i \in 1..4 : nm[i] # 0 <=> n > 8 * (i - 1)
    BY <1>0
<1>2. \A i \in 1..4 : nm[i] # 0 => Shifts[nm[i]] = 8
    BY <1>0
<1>3. cidr(nm) = IF used = {} THEN 0 ELSE 8 * (Max(used) - 1) + Shifts[nm[Max(used)]]
    BY DEF cidr
<1> DEFINE m == (n + 7) \div 8
<1>4. m \in 0..4 /\ 8 * m =< n + 7 /\ n + 7 < 8 * m + 8
    OBVIOUS
<1>5. used = {i \in 1..4 : n > 8 * (i - 1)}
    BY <1>1
<1> HIDE DEF nm, used, m
<1>6. CASE n = 0
    <2>1. used = {} /\ m = 0
        BY <1>4, <1>5, <1>6
    <2> QED
        BY <1>3, <2>1 DEF nm, m
<1>7. CASE n # 0
    <2>1. m \in used /\ \A i \in used : m >= i
        BY <1>4, <1>5, <1>7
    <2>2. used \subseteq Int
        BY <1>5
    <2>3. Max(used) = m
        <3>1. Max(used) \in used /\ \A i \in used : Max(used) >= i
            BY <2>1 DEF Max
        <3>2. Max(used) \in Int /\ m \in Int /\ Max(used) >= m /\ m >= Max(used)
            BY <2>1, <2>2, <3>1
        <3> QED
            BY <3>2
    <2>4. Shifts[nm[m]] = 8
        BY <1>2, <2>1 DEF used
    <2> QED
        BY <1>3, <1>4, <2>1, <2>3, <2>4 DEF nm, m
<1> QED
    BY <1>6, <1>7

-----------------------------------------------------------------------------
(* The commands.                                                           *)

(* An address that was set is one: its prefix length is not negative.      *)
LEMMA GoodAddrIsOne == Typed => GoodAddr # NoAddr
<1> SUFFICES ASSUME Typed PROVE GoodAddr # NoAddr
    OBVIOUS
<1>1. cfg.ones \in 0..32
    BY IfaceAssumption DEF Typed
<1>2. cidr(Netmask(cfg.ones)) >= 0
    <2>1. cidr(Netmask(cfg.ones)) = 8 * ((cfg.ones + 7) \div 8)
        BY <1>1, CidrRoundsUp
    <2>2. (cfg.ones + 7) \div 8 \in Nat
        BY <1>1
    <2> QED
        BY <2>1, <2>2
<1> QED
    BY <1>2 DEF GoodAddr, NoAddr

(* teavpn_iface_toggle() returns false: by a fault, or because the kernel  *)
(* refused a command that it may refuse.                                   *)
Aborts == /\ pc' = "out" /\ UNCHANGED <<cfg, host, gw, rdgw, up, moves>>
          /\ up_failed' = (up_failed \/ up)
          /\ faults' \in {faults, faults + 1}

LEMMA AbortKeeps ==
    ASSUME IfaceInv, Aborts,
           faults' = faults =>
               /\ up => ~(faults = 0 /\ moves = 0 /\ GatewayInPrefix)
               /\ ~up /\ faults = 0 =>
                     /\ ~host.link /\ host.half = {} /\ host.addr = NoAddr
                     /\ moves = 0 => host.pub = None
    PROVE  IfaceInv'
<1>1. /\ pc' = "out" /\ UNCHANGED <<cfg, host, gw, rdgw, up, moves>>
      /\ up_failed' = (up_failed \/ up)
      /\ faults' \in {faults, faults + 1} /\ faults \in Nat
    BY DEF Aborts, IfaceInv, Typed
<1>2. GoodAddr' = GoodAddr /\ (GatewayInPrefix' <=> GatewayInPrefix)
    BY <1>1 DEF GoodAddr, GatewayInPrefix
<1>3. up_failed' \in BOOLEAN /\ faults' \in Nat
    BY <1>1
<1>4. Typed'
    BY <1>1, <1>2, <1>3 DEF IfaceInv, Typed, Place, HostType
<1>5. TunnelInv'
    BY <1>1 DEF IfaceInv, TunnelInv
<1>6. FoundInv'
    BY <1>1 DEF IfaceInv, FoundInv, Outside, Routing
<1>7. faults' = 0 => faults' = faults
    BY <1>1
<1>8. DownInv'
    BY <1>1, <1>7 DEF DownInv
<1>9. CleanInv'
    <2> SUFFICES ASSUME faults' = 0, moves' = 0, GatewayInPrefix'
                 PROVE  ~up_failed' /\ ~up'
        BY DEF CleanInv
    <2>1. faults' = faults /\ ~up
        BY <1>1, <1>2, <1>7
    <2>2. ~up_failed
        BY <1>1, <1>2, <2>1 DEF IfaceInv, CleanInv
    <2> QED
        BY <1>1, <2>1, <2>2
<1> QED
    BY <1>4, <1>5, <1>6, <1>8, <1>9 DEF IfaceInv

(* What an accepted command leaves alone.                                  *)
Succeeds == UNCHANGED <<cfg, gw, up, moves, up_failed, faults>>

LEMMA PrepareKeeps == ASSUME IfaceInv, Prepare PROVE IfaceInv'
<1>1. /\ pc = "prepare"
      /\ \/ Succeeds /\ pc' = "link" /\ UNCHANGED <<host, rdgw>>
         \/ Aborts /\ faults' = faults + 1
    BY DEF Prepare, Exec, Return, Goto, Fault, env_vars, Succeeds, Aborts
<1>2. faults \in Nat
    BY DEF IfaceInv, Typed
<1>3. CASE Aborts /\ faults' = faults + 1
    BY <1>2, <1>3, AbortKeeps
<1>4. CASE Succeeds /\ pc' = "link" /\ UNCHANGED <<host, rdgw>>
    <2>1. GoodAddr' = GoodAddr /\ (GatewayInPrefix' <=> GatewayInPrefix)
        BY <1>4 DEF Succeeds, GoodAddr, GatewayInPrefix
    <2>2. Typed'
        BY <1>4, <2>1 DEF Succeeds, IfaceInv, Typed, Place, HostType
    <2>3. TunnelInv'
        BY <1>1, <1>4 DEF Succeeds, IfaceInv, TunnelInv
    <2>4. FoundInv'
        BY <1>1, <1>4 DEF Succeeds, IfaceInv, FoundInv, Outside, Routing
    <2>5. DownInv'
        BY <1>1, <1>4 DEF Succeeds, IfaceInv, DownInv, Outside, Routing
    <2>6. CleanInv'
        BY <1>1, <1>4, <2>1 DEF Succeeds, IfaceInv, CleanInv, Outside, Routing
    <2> QED
        BY <2>2, <2>3, <2>4, <2>5, <2>6 DEF IfaceInv
<1> QED
    BY <1>1, <1>3, <1>4

LEMMA LinkKeeps == ASSUME IfaceInv, LinkCmd PROVE IfaceInv'
<1>1. /\ pc = "link"
      /\ \/ Succeeds /\ pc' = "addr" /\ host' = SetLink(host) /\ rdgw' = rdgw
         \/ Aborts /\ faults' = faults + 1
         \/ Aborts /\ ~host.dev
    BY DEF LinkCmd, Exec, Return, Goto, Fault, env_vars, Succeeds, Aborts
<1>2. faults \in Nat /\ host.dev
    BY <1>1 DEF IfaceInv, Typed, FoundInv, Outside
<1>3. CASE Aborts /\ faults' = faults + 1
    BY <1>2, <1>3, AbortKeeps
<1>4. CASE Succeeds /\ pc' = "addr" /\ host' = SetLink(host) /\ rdgw' = rdgw
    <2>1. GoodAddr' = GoodAddr /\ (GatewayInPrefix' <=> GatewayInPrefix)
        BY <1>4 DEF Succeeds, GoodAddr, GatewayInPrefix
    <2>2. /\ host' \in HostType
          /\ host'.dev = host.dev /\ host'.link = up /\ host'.addr = host.addr
          /\ host'.pub = host.pub /\ host'.half = IF up THEN host.half ELSE {}
        BY <1>4 DEF SetLink, IfaceInv, Typed, HostType
    <2>3. Typed'
        BY <1>4, <2>1, <2>2 DEF Succeeds, IfaceInv, Typed, Place, HostType
    <2>4. TunnelInv'
        BY <1>1, <1>4, <2>2 DEF Succeeds, IfaceInv, TunnelInv
    <2>5. FoundInv'
        BY <1>1, <1>4, <2>2 DEF Succeeds, IfaceInv, FoundInv, Outside, Routing
    <2>6. DownInv'
        BY <1>1, <1>4, <2>2 DEF Succeeds, IfaceInv, DownInv, Outside, Routing
    <2>7. CleanInv'
        BY <1>1, <1>4, <2>1, <2>2 DEF Succeeds, IfaceInv, CleanInv, Outside, Routing
    <2> QED
        BY <2>3, <2>4, <2>5, <2>6, <2>7 DEF IfaceInv
<1> QED
    BY <1>1, <1>2, <1>3, <1>4

LEMMA AddrKeeps == ASSUME IfaceInv, AddrCmd PROVE IfaceInv'
<1>1. /\ pc = "addr"
      /\ \/ /\ (up <=> host.addr = NoAddr)
            /\ Succeeds /\ pc' = "gateway" /\ rdgw' = rdgw
            /\ host' = [host EXCEPT !.addr = IF ~up THEN NoAddr ELSE GoodAddr]
         \/ Aborts /\ faults' = faults + 1
         \/ Aborts /\ ~(up <=> host.addr = NoAddr)
    BY DEF AddrCmd, Exec, Return, Goto, Fault, env_vars, Succeeds, Aborts, GoodAddr
<1>2. faults \in Nat
    BY DEF IfaceInv, Typed
<1>3. CASE Aborts /\ faults' = faults + 1
    BY <1>2, <1>3, AbortKeeps
<1>4. CASE Aborts /\ ~(up <=> host.addr = NoAddr)
    <2>1. up => ~(faults = 0 /\ moves = 0 /\ GatewayInPrefix)
        BY <1>1, <1>4 DEF IfaceInv, CleanInv
    <2>2. ~up => ~(faults = 0)
        BY <1>1, <1>4 DEF IfaceInv, DownInv
    <2> QED
        BY <1>4, <2>1, <2>2, AbortKeeps
<1>5. CASE /\ (up <=> host.addr = NoAddr)
           /\ Succeeds /\ pc' = "gateway" /\ rdgw' = rdgw
           /\ host' = [host EXCEPT !.addr = IF ~up THEN NoAddr ELSE GoodAddr]
    <2>1. GoodAddr' = GoodAddr /\ (GatewayInPrefix' <=> GatewayInPrefix)
        BY <1>5 DEF Succeeds, GoodAddr, GatewayInPrefix
    <2>2. /\ host' \in HostType
          /\ host'.dev = host.dev /\ host'.link = host.link
          /\ host'.addr = IF up THEN GoodAddr ELSE NoAddr
          /\ host'.pub = host.pub /\ host'.half = host.half
        BY <1>5 DEF IfaceInv, Typed, HostType
    <2>3. GoodAddr # NoAddr
        BY GoodAddrIsOne DEF IfaceInv
    <2>4. host.half = {}
        BY <1>1, <1>5 DEF IfaceInv, TunnelInv
    <2>5. Typed'
        BY <1>5, <2>1, <2>2 DEF Succeeds, IfaceInv, Typed, Place, HostType
    <2>6. TunnelInv'
        BY <1>1, <1>5, <2>2, <2>4 DEF Succeeds, IfaceInv, TunnelInv
    <2>7. FoundInv'
        BY <1>1, <1>5, <2>2, <2>3 DEF Succeeds, IfaceInv, FoundInv, Outside, Routing
    <2>8. DownInv'
        BY <1>1, <1>5, <2>2 DEF Succeeds, IfaceInv, DownInv, Outside, Routing
    <2>9. CleanInv'
        BY <1>1, <1>5, <2>1, <2>2 DEF Succeeds, IfaceInv, CleanInv, Outside, Routing
    <2> QED
        BY <2>5, <2>6, <2>7, <2>8, <2>9 DEF IfaceInv
<1> QED
    BY <1>1, <1>3, <1>4, <1>5

LEMMA GatewayKeeps == ASSUME IfaceInv, ReadGateway PROVE IfaceInv'
<1>1. /\ pc = "gateway"
      /\ \/ /\ Succeeds /\ ~cfg.pub /\ pc' = IF up THEN "running" ELSE "out"
            /\ UNCHANGED <<host, rdgw>>
         \/ /\ Succeeds /\ cfg.pub /\ gw # None /\ pc' = IF up THEN "purge" ELSE "pub"
            /\ rdgw' = gw /\ host' = host
         \/ Aborts /\ faults' = faults + 1
         \/ Aborts /\ gw = None
    <2>1. up_failed \in BOOLEAN
        BY DEF IfaceInv, Typed
    <2> QED
        BY <2>1 DEF ReadGateway, Return, Goto, Fault, env_vars, Succeeds, Aborts
<1>2. faults \in Nat
    BY DEF IfaceInv, Typed
<1>3. CASE Aborts /\ faults' = faults + 1
    BY <1>2, <1>3, AbortKeeps
<1>4. CASE Aborts /\ gw = None
    <2>1. moves # 0
        BY <1>4 DEF IfaceInv, FoundInv
    <2>2. ~up /\ faults = 0 => ~host.link /\ host.half = {} /\ host.addr = NoAddr
        BY <1>1 DEF IfaceInv, DownInv
    <2> QED
        BY <1>4, <2>1, <2>2, AbortKeeps
<1>5. CASE /\ Succeeds /\ ~cfg.pub /\ pc' = IF up THEN "running" ELSE "out"
           /\ UNCHANGED <<host, rdgw>>
    <2>1. GoodAddr' = GoodAddr /\ (GatewayInPrefix' <=> GatewayInPrefix)
        BY <1>5 DEF Succeeds, GoodAddr, GatewayInPrefix
    <2>2. Typed'
        BY <1>5, <2>1 DEF Succeeds, IfaceInv, Typed, Place, HostType
    <2>3. TunnelInv'
        BY <1>1, <1>5 DEF Succeeds, IfaceInv, TunnelInv
    <2>4. FoundInv'
        BY <1>1, <1>5 DEF Succeeds, IfaceInv, FoundInv, Outside, Routing
    <2>5. DownInv'
        BY <1>1, <1>5 DEF Succeeds, IfaceInv, FoundInv, DownInv, Outside, Routing
    <2>6. CleanInv'
        BY <1>1, <1>5, <2>1 DEF Succeeds, IfaceInv, CleanInv, Outside, Routing
    <2> QED
        BY <2>2, <2>3, <2>4, <2>5, <2>6 DEF IfaceInv
<1>6. CASE /\ Succeeds /\ cfg.pub /\ gw # None /\ pc' = IF up THEN "purge" ELSE "pub"
           /\ rdgw' = gw /\ host' = host
    <2>1. GoodAddr' = GoodAddr /\ (GatewayInPrefix' <=> GatewayInPrefix)
        BY <1>6 DEF Succeeds, GoodAddr, GatewayInPrefix
    <2>2. Typed'
        BY <1>6, <2>1 DEF Succeeds, IfaceInv, Typed, Place, HostType
    <2>3. TunnelInv'
        BY <1>1, <1>6 DEF Succeeds, IfaceInv, TunnelInv
    <2>4. FoundInv'
        BY <1>1, <1>6 DEF Succeeds, IfaceInv, FoundInv, Outside, Routing
    <2>5. DownInv'
        BY <1>1, <1>6 DEF Succeeds, IfaceInv, DownInv, Outside, Routing
    <2>6. CleanInv'
        BY <1>1, <1>6, <2>1 DEF Succeeds, IfaceInv, CleanInv, Outside, Routing
    <2> QED
        BY <2>2, <2>3, <2>4, <2>5, <2>6 DEF IfaceInv
<1> QED
    BY <1>1, <1>3, <1>4, <1>5, <1>6

LEMMA PurgeKeeps == ASSUME IfaceInv, PurgeCmd PROVE IfaceInv'
<1>1. /\ pc = "purge" /\ pc' = "pub"
      /\ UNCHANGED <<cfg, gw, rdgw, up, moves, up_failed>>
      /\ \/ /\ host' = [host EXCEPT !.pub = IF host.pub = rdgw THEN None ELSE host.pub]
            /\ faults' = faults
         \/ faults' = faults + 1 /\ host' = host
    BY DEF PurgeCmd, Goto, Fault, env_vars
<1>2. GoodAddr' = GoodAddr /\ (GatewayInPrefix' <=> GatewayInPrefix)
    BY <1>1 DEF GoodAddr, GatewayInPrefix
<1>3. /\ host' \in HostType
      /\ host'.dev = host.dev /\ host'.link = host.link /\ host'.addr = host.addr
      /\ host'.half = host.half /\ host'.pub \in {host.pub, None}
    BY <1>1 DEF IfaceInv, Typed, HostType
<1>4. /\ faults \in Nat /\ faults' \in Nat /\ (faults' = 0 => faults = 0)
    BY <1>1 DEF IfaceInv, Typed
<1>5. up
    BY <1>1 DEF IfaceInv, TunnelInv
<1>6. Typed'
    BY <1>1, <1>2, <1>3, <1>4 DEF IfaceInv, Typed, Place, HostType
<1>7. TunnelInv'
    BY <1>1, <1>3 DEF IfaceInv, TunnelInv
<1>8. FoundInv'
    BY <1>1, <1>3 DEF IfaceInv, FoundInv, Outside, Routing
<1>9. DownInv'
    BY <1>1, <1>5 DEF DownInv
<1>10. CleanInv'
    BY <1>1, <1>2, <1>3, <1>4 DEF IfaceInv, CleanInv, Outside, Routing
<1> QED
    BY <1>6, <1>7, <1>8, <1>9, <1>10 DEF IfaceInv

LEMMA PubKeeps == ASSUME IfaceInv, PubCmd PROVE IfaceInv'
<1> DEFINE Accepted == IF up THEN host.pub = None /\ rdgw = gw ELSE host.pub = rdgw
           Done == /\ Succeeds /\ rdgw' = rdgw
                   /\ host' = [host EXCEPT !.pub = IF up THEN rdgw ELSE None]
                   /\ pc' = IF cfg.dgateway # Empty THEN "low"
                            ELSE IF up THEN "running" ELSE "out"
<1>1. /\ pc = "pub"
      /\ \/ Accepted /\ Done
         \/ Aborts /\ faults' = faults + 1
         \/ Aborts /\ ~Accepted
    <2>1. up_failed \in BOOLEAN
        BY DEF IfaceInv, Typed
    <2> QED
        BY <2>1 DEF PubCmd, Exec, Return, Goto, Fault, env_vars, Succeeds, Aborts
<1>2. faults \in Nat
    BY DEF IfaceInv, Typed
<1>3. CASE Aborts /\ faults' = faults + 1
    BY <1>2, <1>3, AbortKeeps
<1>4. CASE Aborts /\ ~Accepted
    <2>1. up => ~(faults = 0 /\ moves = 0 /\ GatewayInPrefix)
        BY <1>1, <1>4 DEF IfaceInv, FoundInv, CleanInv, Routing
    <2>2. ~up /\ faults = 0 => ~host.link /\ host.half = {} /\ host.addr = NoAddr
        BY <1>1 DEF IfaceInv, DownInv, Routing
    <2>3. ~up /\ faults = 0 => moves # 0
        BY <1>1, <1>4 DEF IfaceInv, FoundInv, DownInv, Routing
    <2> QED
        BY <1>4, <2>1, <2>2, <2>3, AbortKeeps
<1>5. CASE Accepted /\ Done
    <2>1. GoodAddr' = GoodAddr /\ (GatewayInPrefix' <=> GatewayInPrefix)
        BY <1>5 DEF Succeeds, GoodAddr, GatewayInPrefix
    <2>2. /\ host' \in HostType
          /\ host'.dev = host.dev /\ host'.link = host.link /\ host'.addr = host.addr
          /\ host'.pub = (IF up THEN rdgw ELSE None) /\ host'.half = host.half
        BY <1>5 DEF IfaceInv, Typed, HostType
    <2>3. /\ Accepted /\ UNCHANGED <<cfg, gw, up, moves, up_failed, faults, rdgw>>
          /\ pc' = IF cfg.dgateway # Empty THEN "low" ELSE IF up THEN "running" ELSE "out"
        BY <1>5 DEF Succeeds
    <2>4. rdgw # None /\ host.half = {} /\ cfg.pub
        BY <1>1 DEF IfaceInv, TunnelInv, FoundInv, Routing
    <2>5. Typed'
        BY <2>1, <2>2, <2>3 DEF IfaceInv, Typed, Place, HostType
    <2>6. TunnelInv'
        BY <2>2, <2>3, <2>4 DEF IfaceInv, TunnelInv
    <2>7. FoundInv'
        BY <1>1, <2>2, <2>3, <2>4 DEF IfaceInv, FoundInv, Outside, Routing
    <2>8. DownInv'
        BY <1>1, <2>2, <2>3, <2>4 DEF IfaceInv, DownInv, Outside, Routing
    <2>9. CleanInv'
        BY <1>1, <2>1, <2>2, <2>3, <2>4 DEF IfaceInv, CleanInv, Outside, Routing
    <2> QED
        BY <2>5, <2>6, <2>7, <2>8, <2>9 DEF IfaceInv
<1> QED
    BY <1>1, <1>3, <1>4, <1>5

(* The tunnel's gateway is reached once the link and the address are set.  *)
LEMMA GatewayIsOnLink ==
    ASSUME IfaceInv, GatewayInPrefix, pc \in {"low", "high"}, host.link, host.addr # NoAddr
    PROVE  OnLink(host)
<1>1. cfg.pub /\ cfg.dgateway # Empty
    BY DEF IfaceInv, FoundInv, Routing
<1>2. host.addr.len = cidr(Netmask(cfg.ones))
    <2>1. host.addr = GoodAddr
        BY DEF IfaceInv, Typed, HostType
    <2> QED
        BY <2>1 DEF GoodAddr
<1> QED
    BY <1>1, <1>2 DEF GatewayInPrefix, OnLink, NetmaskOf

LEMMA HalfKeeps == ASSUME IfaceInv, LowCmd \/ HighCmd PROVE IfaceInv'
<1> DEFINE half == IF pc = "low" THEN "0.0.0.0/1" ELSE "128.0.0.0/1"
           Accepted == IF up THEN OnLink(host) /\ half \notin host.half ELSE half \in host.half
           Done == /\ Succeeds /\ rdgw' = rdgw
                   /\ host' = [host EXCEPT !.half = IF up THEN host.half \cup {half}
                                                    ELSE host.half \ {half}]
                   /\ pc' = IF pc = "low" THEN "high" ELSE IF up THEN "running" ELSE "out"
<1>1. /\ pc \in {"low", "high"}
      /\ \/ Accepted /\ Done
         \/ Aborts /\ faults' = faults + 1
         \/ Aborts /\ ~Accepted
    <2>1. up_failed \in BOOLEAN
        BY DEF IfaceInv, Typed
    <2>2. CASE LowCmd
        BY <2>1, <2>2 DEF LowCmd, HalfRoute, Exec, Return, Goto, Fault, env_vars, Succeeds, Aborts
    <2>3. CASE HighCmd
        BY <2>1, <2>3 DEF HighCmd, HalfRoute, Exec, Return, Goto, Fault, env_vars, Succeeds, Aborts
    <2> QED
        BY <2>2, <2>3
<1>2. faults \in Nat
    BY DEF IfaceInv, Typed
<1>3. half \in Halves
    BY DEF Halves
<1>4. CASE Aborts /\ faults' = faults + 1
    BY <1>2, <1>4, AbortKeeps
<1>5. CASE Aborts /\ ~Accepted
    <2>1. ASSUME up, faults = 0, moves = 0, GatewayInPrefix PROVE FALSE
        <3>1. host.link /\ half \notin host.half
            BY <1>1, <2>1 DEF IfaceInv, CleanInv, Routing
        <3>2. host.addr # NoAddr
            BY <1>1, <2>1 DEF IfaceInv, FoundInv, Routing
        <3>3. OnLink(host)
            BY <1>1, <2>1, <3>1, <3>2, GatewayIsOnLink
        <3> QED
            BY <1>5, <2>1, <3>1, <3>3
    <2>2. ~up /\ faults = 0 =>
             /\ ~host.link /\ host.half = {} /\ host.addr = NoAddr
             /\ moves = 0 => host.pub = None
        BY <1>1 DEF IfaceInv, DownInv, Routing
    <2>3. up => ~(faults = 0 /\ moves = 0 /\ GatewayInPrefix)
        BY <2>1
    <2>4. Aborts
        BY <1>5
    <2> QED
        BY <2>2, <2>3, <2>4, AbortKeeps
<1>6. CASE Accepted /\ Done
    <2>1. GoodAddr' = GoodAddr /\ (GatewayInPrefix' <=> GatewayInPrefix)
        BY <1>6 DEF Succeeds, GoodAddr, GatewayInPrefix
    <2>2. up
        BY <1>1, <1>6 DEF IfaceInv, TunnelInv
    <2>3. /\ UNCHANGED <<cfg, gw, up, moves, up_failed, faults, rdgw>>
          /\ pc' = IF pc = "low" THEN "high" ELSE "running"
        BY <1>6, <2>2 DEF Succeeds
    <2>4. host' = [host EXCEPT !.half = host.half \cup {half}]
        BY <1>6, <2>2
    <2>5. /\ host' \in HostType
          /\ host'.dev = host.dev /\ host'.link = host.link /\ host'.addr = host.addr
          /\ host'.pub = host.pub /\ host'.half = host.half \cup {half}
        <3> HIDE DEF half
        <3> QED
            BY <1>3, <2>4 DEF IfaceInv, Typed, HostType
    <2>6. host.pub # None /\ host.addr # NoAddr
        BY <1>1, <2>2 DEF IfaceInv, TunnelInv, FoundInv, Routing
    <2>7. Typed'
        BY <2>1, <2>3, <2>5 DEF IfaceInv, Typed, Place, HostType
    <2>8. TunnelInv'
        BY <2>2, <2>3, <2>5, <2>6 DEF IfaceInv, TunnelInv
    <2>9. FoundInv'
        BY <1>1, <2>2, <2>3, <2>5, <2>6 DEF IfaceInv, FoundInv, Outside, Routing
    <2>10. DownInv'
        BY <2>2, <2>3 DEF DownInv
    <2>11. CleanInv'
        BY <1>1, <2>1, <2>2, <2>3, <2>5 DEF IfaceInv, CleanInv, Outside, Routing
    <2> QED
        BY <2>7, <2>8, <2>9, <2>10, <2>11 DEF IfaceInv
<1> QED
    BY <1>1, <1>4, <1>5, <1>6

LEMMA AllocKeeps == ASSUME IfaceInv, tun_alloc PROVE IfaceInv'
<1>1. /\ pc = "tun_alloc" /\ UNCHANGED <<cfg, gw, rdgw, up_failed, moves>>
      /\ \/ /\ host' = [host EXCEPT !.dev = TRUE]
            /\ pc' = "prepare" /\ up' = TRUE /\ faults' = faults
         \/ pc' = "out" /\ UNCHANGED <<host, up>> /\ faults' \in {faults, faults + 1}
    BY DEF tun_alloc, Fault, env_vars
<1>2. GoodAddr' = GoodAddr /\ (GatewayInPrefix' <=> GatewayInPrefix)
    BY <1>1 DEF GoodAddr, GatewayInPrefix
<1>3. CASE /\ host' = [host EXCEPT !.dev = TRUE]
           /\ pc' = "prepare" /\ up' = TRUE /\ faults' = faults
    <2>1. /\ host' \in HostType /\ host'.dev
          /\ host'.link = host.link /\ host'.addr = host.addr
          /\ host'.pub = host.pub /\ host'.half = host.half
        BY <1>3 DEF IfaceInv, Typed, HostType
    <2>2. Typed'
        BY <1>1, <1>2, <1>3, <2>1 DEF IfaceInv, Typed, Place, HostType
    <2>3. TunnelInv'
        BY <1>1, <1>3, <2>1 DEF IfaceInv, TunnelInv
    <2>4. FoundInv'
        BY <1>1, <1>3, <2>1 DEF IfaceInv, FoundInv, Outside, Routing
    <2>5. DownInv'
        BY <1>3 DEF DownInv
    <2>6. CleanInv'
        <3> SUFFICES ASSUME faults = 0, moves = 0, GatewayInPrefix
                     PROVE  ~up_failed /\ host.addr = NoAddr /\ host.pub = None /\ host.half = {}
            BY <1>1, <1>2, <1>3, <2>1 DEF CleanInv, Outside, Routing
        <3>1. ~up_failed
            BY DEF IfaceInv, CleanInv
        <3>2. CASE up
            BY <1>1, <3>1, <3>2 DEF IfaceInv, CleanInv, Outside
        <3>3. CASE ~up
            BY <1>1, <3>1, <3>3 DEF IfaceInv, DownInv, Outside
        <3> QED
            BY <3>2, <3>3
    <2> QED
        BY <2>2, <2>3, <2>4, <2>5, <2>6 DEF IfaceInv
<1>4. CASE pc' = "out" /\ UNCHANGED <<host, up>> /\ faults' \in {faults, faults + 1}
    <2>1. faults' \in Nat /\ (faults' = 0 => faults = 0)
        BY <1>4 DEF IfaceInv, Typed
    <2>2. Typed'
        BY <1>1, <1>2, <1>4, <2>1 DEF IfaceInv, Typed, Place, HostType
    <2>3. TunnelInv'
        BY <1>1, <1>4 DEF IfaceInv, TunnelInv
    <2>4. FoundInv'
        BY <1>1, <1>4 DEF IfaceInv, FoundInv, Outside, Routing
    <2>5. DownInv'
        BY <1>1, <1>4, <2>1 DEF IfaceInv, DownInv, Outside, Routing
    <2>6. CleanInv'
        BY <1>1, <1>2, <1>4, <2>1 DEF IfaceInv, CleanInv, Outside, Routing
    <2> QED
        BY <2>2, <2>3, <2>4, <2>5, <2>6 DEF IfaceInv
<1> QED
    BY <1>1, <1>3, <1>4

(* destroy_state(), the end of the process and the next run.               *)
LEMMA TakeDownKeeps == ASSUME IfaceInv, TakeDown PROVE IfaceInv'
<1>1. /\ pc = "running" /\ pc' = "prepare" /\ up' = FALSE
      /\ UNCHANGED <<cfg, host, gw, rdgw, up_failed, faults, moves>>
    BY DEF TakeDown, env_vars
<1>2. GoodAddr' = GoodAddr /\ (GatewayInPrefix' <=> GatewayInPrefix)
    BY <1>1 DEF GoodAddr, GatewayInPrefix
<1>3. Typed'
    BY <1>1, <1>2 DEF IfaceInv, Typed, Place, HostType
<1>4. TunnelInv'
    BY <1>1 DEF IfaceInv, TunnelInv
<1>5. FoundInv'
    BY <1>1 DEF IfaceInv, FoundInv, Outside, Routing
<1>6. DownInv'
    BY <1>1 DEF IfaceInv, FoundInv, DownInv, Outside, Routing
<1>7. CleanInv'
    BY <1>1, <1>2 DEF IfaceInv, CleanInv
<1> QED
    BY <1>3, <1>4, <1>5, <1>6, <1>7 DEF IfaceInv

LEMMA ExitKeeps == ASSUME IfaceInv, Exit PROVE IfaceInv'
<1>1. /\ pc = "out" /\ pc' = "exited" /\ host' = RemoveDevice(host)
      /\ UNCHANGED <<cfg, gw, up, rdgw, up_failed, faults, moves>>
    BY DEF Exit, env_vars, call_vars
<1>2. GoodAddr' = GoodAddr /\ (GatewayInPrefix' <=> GatewayInPrefix)
    BY <1>1 DEF GoodAddr, GatewayInPrefix
<1>3. /\ host' \in HostType /\ ~host'.link /\ host'.addr = NoAddr
      /\ host'.pub = host.pub /\ host'.half = {}
    BY <1>1 DEF RemoveDevice, NoDevice, IfaceInv, Typed, HostType
<1>4. Typed'
    BY <1>1, <1>2, <1>3 DEF IfaceInv, Typed, Place, HostType
<1>5. TunnelInv'
    BY <1>1, <1>3 DEF IfaceInv, TunnelInv
<1>6. FoundInv'
    BY <1>1, <1>3 DEF IfaceInv, FoundInv, Outside, Routing
<1>7. DownInv'
    BY <1>1, <1>3 DEF IfaceInv, DownInv, Outside, Routing
<1>8. CleanInv'
    BY <1>1, <1>2, <1>3 DEF IfaceInv, CleanInv, Outside, Routing
<1> QED
    BY <1>4, <1>5, <1>6, <1>7, <1>8 DEF IfaceInv

LEMMA RunAgainKeeps == ASSUME IfaceInv, RunAgain PROVE IfaceInv'
<1>1. /\ pc \in {"out", "exited"} /\ pc' = "tun_alloc"
      /\ UNCHANGED <<cfg, host, gw, up, rdgw, up_failed, faults, moves>>
    BY DEF RunAgain, call_vars
<1>2. GoodAddr' = GoodAddr /\ (GatewayInPrefix' <=> GatewayInPrefix)
    BY <1>1 DEF GoodAddr, GatewayInPrefix
<1>3. Typed'
    BY <1>1, <1>2 DEF IfaceInv, Typed, Place, HostType
<1>4. TunnelInv'
    BY <1>1 DEF IfaceInv, TunnelInv
<1>5. FoundInv'
    BY <1>1 DEF IfaceInv, FoundInv, Outside, Routing
<1>6. DownInv'
    BY <1>1 DEF IfaceInv, DownInv, Outside, Routing
<1>7. CleanInv'
    BY <1>1, <1>2 DEF IfaceInv, CleanInv, Outside, Routing
<1> QED
    BY <1>3, <1>4, <1>5, <1>6, <1>7 DEF IfaceInv

LEMMA MoveKeeps == ASSUME IfaceInv, MoveGateway PROVE IfaceInv'
<1>1. /\ moves' = moves + 1 /\ gw' \in Gateway \cup {None}
      /\ UNCHANGED <<cfg, host, pc, up, rdgw, up_failed, faults>>
    BY DEF MoveGateway, call_vars
<1>2. moves \in Nat /\ moves' \in Nat /\ moves' # 0
    BY <1>1 DEF IfaceInv, Typed
<1>3. GoodAddr' = GoodAddr
    BY <1>1 DEF GoodAddr
<1>4. Typed'
    BY <1>1, <1>2, <1>3 DEF IfaceInv, Typed, HostType
<1>5. TunnelInv'
    BY <1>1 DEF IfaceInv, TunnelInv
<1>6. FoundInv'
    BY <1>1, <1>2 DEF IfaceInv, FoundInv
<1>7. DownInv'
    BY <1>1, <1>2 DEF IfaceInv, DownInv
<1>8. CleanInv'
    BY <1>2 DEF CleanInv
<1> QED
    BY <1>4, <1>5, <1>6, <1>7, <1>8 DEF IfaceInv

-----------------------------------------------------------------------------
(* The invariant of the module: what teavpn_iface_up() finds, adds and     *)
(* leaves, and teavpn_iface_down() after it, wherever either one stops.    *)
THEOREM IfaceInvariant == Spec => []IfaceInv
<1>1. Init => IfaceInv
    <2> SUFFICES ASSUME Init PROVE IfaceInv
        OBVIOUS
    <2>1. /\ cfg \in [ones : Prefix, pub : BOOLEAN, dgateway : DGateway \cup {Empty}]
          /\ gw \in Gateway /\ gw # None /\ rdgw = None
          /\ pc = "tun_alloc" /\ up = TRUE /\ up_failed = FALSE /\ faults = 0 /\ moves = 0
        BY IfaceAssumption DEF Init
    <2>2. /\ host \in HostType /\ ~host.link /\ host.addr = NoAddr
          /\ host.pub = None /\ host.half = {}
        BY DEF Init, NoDevice, HostType
    <2>3. Typed
        BY <2>1, <2>2 DEF Typed, Place
    <2>4. TunnelInv
        BY <2>1, <2>2 DEF TunnelInv
    <2>5. FoundInv
        BY <2>1, <2>2 DEF FoundInv, Outside, Routing
    <2>6. DownInv
        BY <2>1 DEF DownInv
    <2>7. CleanInv
        BY <2>1, <2>2 DEF CleanInv, Routing
    <2> QED
        BY <2>3, <2>4, <2>5, <2>6, <2>7 DEF IfaceInv
<1>2. IfaceInv /\ [Next]_vars => IfaceInv'
    <2> SUFFICES ASSUME IfaceInv, [Next]_vars PROVE IfaceInv'
        OBVIOUS
    <2>1. CASE UNCHANGED vars
        BY <2>1 DEF vars, call_vars, env_vars, IfaceInv, Typed, HostType, GoodAddr, TunnelInv,
                    FoundInv, DownInv, CleanInv, GatewayInPrefix
    <2>2. CASE Next
        BY <2>2, AllocKeeps, PrepareKeeps, LinkKeeps, AddrKeeps, GatewayKeeps, PurgeKeeps,
           PubKeeps, HalfKeeps, TakeDownKeeps, ExitKeeps, RunAgainKeeps, MoveKeeps
        DEF Next, Toggle
    <2> QED
        BY <2>1, <2>2
<1> QED
    BY <1>1, <1>2, PTL DEF Spec

(* The prefix length and the broadcast address given to `ip addr add` are  *)
(* those of the netmask, for every netmask that ends on an octet and every *)
(* address.                                                                *)
THEOREM OctetsAreExact == Spec => []OctetNetmasksExact
<1>1. IfaceInv => OctetNetmasksExact
    <2> SUFFICES ASSUME IfaceInv, host.addr # NoAddr, cfg.ones % 8 = 0
                 PROVE  /\ host.addr.len = cfg.ones
                        /\ host.addr.brd = broadcast(Ipv4, NetmaskOf(host))
        BY DEF OctetNetmasksExact
    <2>1. cfg.ones \in 0..32
        BY IfaceAssumption DEF IfaceInv, Typed
    <2>2. host.addr = GoodAddr
        BY DEF IfaceInv, Typed, HostType
    <2>3. /\ host.addr.len = cidr(Netmask(cfg.ones))
          /\ host.addr.brd = broadcast(Ipv4, Netmask(cfg.ones))
        BY <2>2 DEF GoodAddr
    <2>4. host.addr.len = 8 * ((cfg.ones + 7) \div 8)
        BY <2>1, <2>3, CidrRoundsUp
    <2>5. 8 * ((cfg.ones + 7) \div 8) = cfg.ones
        BY <2>1
    <2> QED
        BY <2>3, <2>4, <2>5 DEF NetmaskOf
<1> QED
    BY <1>1, IfaceInvariant, PTL

(* The tunnel's own datagrams are never sent into the tunnel.              *)
THEOREM ServerStaysReachable == Spec => []TunnelNeverCarriesItself
<1>1. IfaceInv => TunnelNeverCarriesItself
    BY DEF IfaceInv, TunnelInv, TunnelNeverCarriesItself
<1> QED
    BY <1>1, IfaceInvariant, PTL

(* teavpn_iface_down() leaves nothing of the interface behind, although    *)
(* its last commands fail.                                                 *)
THEOREM DownIsInverse == Spec => []DownUndoesUp
<1>1. IfaceInv => DownUndoesUp
    BY DEF IfaceInv, DownInv, Outside, DownUndoesUp
<1> QED
    BY <1>1, IfaceInvariant, PTL

(* Any number of clean runs follow each other without a failing            *)
(* teavpn_iface_up().                                                      *)
THEOREM CleanRunsDoRepeat == Spec => []CleanRunsRepeat
<1>1. IfaceInv => CleanRunsRepeat
    BY DEF IfaceInv, CleanInv, CleanRunsRepeat
<1> QED
    BY <1>1, IfaceInvariant, PTL
=============================================================================
