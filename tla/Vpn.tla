-------------------------------- MODULE Vpn --------------------------------
(***************************************************************************)
(* A client and the server together, with the datagrams on their way       *)
(* between them.  The processes are those of UdpClient and UdpServer; here *)
(* a packet is received only if it was sent, and what happens to it in     *)
(* between is up to the network: it may be lost, arrive twice or overtake  *)
(* the one before it.                                                      *)
(*                                                                         *)
(* What can fail inside one process is the subject of those modules.  Here *)
(* their calls succeed, there is one TUN thread on each side, and nobody   *)
(* asks either to stop: whatever goes wrong goes wrong between them.       *)
(***************************************************************************)
EXTENDS UdpServer

CONSTANTS MaxTry, AuthTry, ResetTry, Timeout,
          CliSyncEvery, \* the client's SyncEvery
          ClientAddr,   \* the address the client sends from
          MaxFaults     \* bound on the faults of the network

ASSUME VpnAssumption == ClientAddr \in Client /\ MaxFaults \in Nat

VARIABLES main, timer, worker, n_on_threads, released, stop, sig, tries, idle, loop_c,
          open, field, iface, need_remove_iff, threads_wont_exit, event, signals, runs,
          csent,        \* what the client's last step sent
          c2s, s2c,     \* the datagrams on their way, oldest first
          known,        \* the server accepts the client's user and password
          faults        \* losses, duplicates and overtakings so far

(* The server is this module's own, the client an instance.                *)
Cl == INSTANCE UdpClient WITH Worker <- {}, SyncEvery <- CliSyncEvery,
                              MaxSignals <- 0, MaxRuns <- 1, sent <- csent

cl_state == <<main, tries, event, timer, worker, n_on_threads, released, idle, loop_c,
              open, field, iface, need_remove_iff, threads_wont_exit, stop, sig, signals,
              runs>>
sv_state == <<pool, info, ipv4_map, flags, online, zr>>
cl_vars  == <<cl_state, csent>>
sv_vars  == <<sv_state, sent>>
net_vars == <<c2s, s2c, known, faults>>
vpn_vars == <<cl_vars, sv_vars, net_vars>>

VpnInit == /\ Cl!Init /\ Init /\ ~flags.sig
           /\ c2s = <<>> /\ s2c = <<>>
           /\ known \in BOOLEAN
           /\ faults = 0

-----------------------------------------------------------------------------
(* The network.                                                            *)

(* Packets that are sent again and again.  One of them at a time is on its *)
(* way in each direction: the rest of a burst, or what follows too soon,   *)
(* is lost.                                                                *)
KeepAlive == {"TUN_DATA", "REQSYNC", "SYNC"}

ClientSays == ToSet(csent')
ServerSays == {p.type : p \in sent'}

(* A step's packets join the queue in the order its handler sends them.    *)
Enqueue(q, types) ==
    LET room   == ToSet(q) \cap KeepAlive = {}
        Put(t) == IF t \in types /\ (t \in KeepAlive => room) THEN <<t>> ELSE <<>>
    IN  q \o Put("HANDSHAKE") \o Put("HANDSHAKE_REJECT") \o Put("AUTH") \o Put("AUTH_OK")
          \o Put("AUTH_REJECT") \o Put("TUN_DATA") \o Put("REQSYNC") \o Put("SYNC")
          \o Put("CLOSE")

(* The queues after a step: c and s is what it left of them.               *)
Transmit(c, s) == /\ c2s' = Enqueue(c, ClientSays)
                  /\ s2c' = Enqueue(s, ServerSays)
                  /\ UNCHANGED <<known, faults>>

(* Steps that touch nothing the other process or the network could notice  *)
(* commute with theirs: whoever has begun a stretch of them goes on until  *)
(* its next step shows.                                                    *)
ClientBusy ==
    \/ main \in {"init_state", "init_socket", "init_iface", "close_stale", "init_epoll",
                "clear_stop", "spawn_timer", "spawn_worker", "wait", "leave",
                "kill_timer", "kill_workers", "wait_workers", "close_fds"}
    \/ timer \in {"spawned", "loop"}
ServerBusy == zr # NULL

Control(q) == q # <<>> /\ Head(q) \notin KeepAlive

(* What the network may make of a queue.                                   *)
Faulty(q) ==
    {Tail(q), Append(q, Head(q))}
    \cup IF Len(q) > 1 THEN {<<q[2], q[1]>> \o SubSeq(q, 3, Len(q))} ELSE {}

(* The oldest datagram is lost, arrives twice, or is overtaken.            *)
Misdeliver ==
    /\ ~ClientBusy /\ ~ServerBusy
    /\ faults < MaxFaults /\ faults' = faults + 1
    /\ \/ Control(c2s) /\ c2s' \in Faulty(c2s) /\ UNCHANGED s2c
       \/ Control(s2c) /\ s2c' \in Faulty(s2c) /\ UNCHANGED c2s
    /\ UNCHANGED <<cl_vars, sv_vars, known>>

-----------------------------------------------------------------------------
(* The client.                                                             *)

ClientOnly == ~ServerBusy /\ UNCHANGED sv_state /\ sent' = {}

Waiting == main \in {"handshake_wait", "auth_wait"}

(* A step of a thread, all of whose calls succeed.                         *)
ClientRuns ==
    /\ \/ ~Waiting /\ Cl!MainStep
       \/ Cl!TimerStep
    /\ main' # "no_state"
    /\ event' = "error" => event = "error"
    /\ main' = "kill_timer" => main \in {"leave", "kill_timer"}
    /\ main' = "out" => main \in {"close_fds", "out"}
    /\ main \in {"close_stale", "out"} /\ main' # main => csent' # <<>>
    /\ timer = "sleep" /\ timer' = "loop" /\ Cl!Burst > 0 /\ ~stop' => csent' # <<>>
    /\ ClientOnly /\ Transmit(c2s, s2c)

(* poll() gives up, whether or not an answer is on its way.                *)
ClientTimesOut ==
    /\ Waiting /\ ~ClientBusy
    /\ Cl!HandshakeResult("timeout") \/ Cl!AuthResult("timeout")
    /\ ClientOnly /\ Transmit(c2s, s2c)

Loops(m) ==
    \/ m \in {"HANDSHAKE", "AUTH_OK", "TUN_DATA"} /\ Cl!RecvData /\ main' = main
    \/ m \in {"HANDSHAKE_REJECT", "AUTH_REJECT"} /\ Cl!RecvData /\ main' # main
    \/ m = "SYNC" /\ Cl!RecvSync
    \/ m = "REQSYNC" /\ Cl!RecvReqsync /\ main' = main
    \/ m = "CLOSE" /\ Cl!RecvClose

(* The client receives the oldest datagram.                                *)
ClientReceives ==
    /\ s2c # <<>> /\ ~ClientBusy
    /\ LET m == Head(s2c)
       IN  \/ Cl!HandshakeResult(CASE m = "HANDSHAKE" -> "ok"
                                   [] m = "CLOSE" -> "reset"
                                   [] OTHER -> "bad")
           \/ Cl!AuthResult(IF m = "AUTH_OK" THEN "ok" ELSE "bad") /\ iface' # "partial"
           \/ Loops(m)
    /\ ClientOnly /\ Transmit(c2s, Tail(s2c))

(* Its socket is closed: what still arrives is discarded.                  *)
ClientGone ==
    /\ main = "exited" /\ s2c # <<>> /\ ~ServerBusy
    /\ s2c' = Tail(s2c)
    /\ UNCHANGED <<cl_vars, sv_vars, c2s, known, faults>>

(* A packet from the client's side of the tunnel.                          *)
ClientForwards ==
    /\ ~ClientBusy
    /\ Cl!ForwardTun("main") /\ main' = main /\ csent' # <<>>
    /\ ClientOnly /\ Transmit(c2s, s2c)

-----------------------------------------------------------------------------
(* The server.                                                             *)

(* No call of the server fails.                                            *)
ServerOnly == /\ ~ClientBusy
              /\ UNCHANGED cl_state /\ csent' = <<>>
              /\ flags' = flags /\ online' = online

Skipped == {"TUN_DATA", "REQSYNC", "SYNC", "CLOSE"}   \* skip_session_creation()

FromStranger(m) ==
    \/ m \in Skipped /\ IgnoreNewClient(ClientAddr)
    \/ m = "HANDSHAKE" /\ NewClient(ClientAddr)
    \/ m = "AUTH" /\ NewClientDropped(ClientAddr)
       /\ {"HANDSHAKE_REJECT", "CLOSE"} \subseteq ServerSays

FromSession(i, m) ==
    \/ \/ m = "HANDSHAKE"
       \/ m = "AUTH" /\ info[i].is_authenticated
       /\ RecvIgnored(i)
    \/ m = "AUTH" /\ known /\ \E u \in User : RecvAuthOk(i, u)
    \/ m = "AUTH" /\ ~known /\ RecvAuthReject(i)
       /\ {"AUTH_REJECT", "CLOSE"} \subseteq ServerSays
    \/ m = "TUN_DATA" /\ RecvTunData(i)
    \/ m = "REQSYNC" /\ RecvReqsync(i)
    \/ m = "SYNC" /\ RecvSync(i)
    \/ m = "CLOSE" /\ RecvClose(i) /\ info'[i].loop_c = 1 /\ sent' # {}

(* The server receives the oldest datagram.                                *)
ServerReceives ==
    /\ c2s # <<>> /\ ~ServerBusy
    /\ \/ FromStranger(Head(c2s))
       \/ \E i \in Connected(pool) : FromSession(i, Head(c2s))
    /\ ServerOnly /\ Transmit(Tail(c2s), s2c)

ServerReaps ==
    /\ ReaperStep
    /\ zr \in Slot /\ ~ZrSkip => sent' # {}
    /\ ServerOnly /\ Transmit(c2s, s2c)

(* Time passes for both.                                                   *)
BothTick ==
    /\ ~ClientBusy /\ ~ServerBusy
    /\ \/ Cl!Tick /\ Tick
       \/ Cl!Tick /\ ~ENABLED Tick /\ UNCHANGED sv_state /\ sent' = {}
       \/ Tick /\ ~ENABLED Cl!Tick /\ UNCHANGED cl_state /\ csent' = <<>>
    /\ Transmit(c2s, s2c)

-----------------------------------------------------------------------------
VpnNext == \/ ClientRuns \/ ClientTimesOut \/ ClientReceives \/ ClientGone
           \/ ClientForwards
           \/ ServerReceives \/ ServerReaps \/ BothTick
           \/ Misdeliver

VpnSpec == VpnInit /\ [][VpnNext]_vpn_vars

-----------------------------------------------------------------------------
Sessions == Connected(pool)
Established == \E i \in Sessions : info[i].is_authenticated

(* A single misdelivery never leaves the two half connected: a client in   *)
(* its loop, not told to stop, with a session that was never or is no more *)
(* authenticated.  Both would keep it alive for ever, since the server     *)
(* answers the REQSYNC of any session.  Two misdeliveries are enough.      *)
NoHalfOpen ==
    faults <= 1 /\ main = "loop" /\ Sessions # {} =>
        Established \/ stop \/ "CLOSE" \in ToSet(s2c)

(* Without misdeliveries the two sides agree: a client that went through   *)
(* the handshake and the authentication has its authenticated session, or  *)
(* its end is under way, however slow the answers were and however often   *)
(* it asked again.                                                         *)
SidesAgree ==
    faults = 0 /\ main = "loop" => Established \/ stop \/ "CLOSE" \in ToSet(s2c)

(* Without misdeliveries nothing of a client that ended, successful or     *)
(* not, remains on the server once its packets have arrived: CLOSE is the  *)
(* last of them that could open or keep a session.                         *)
CloseIsLast == faults = 0 /\ main = "exited" /\ c2s = <<>> => Sessions = {}
=============================================================================
