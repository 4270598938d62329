----------------------------- MODULE UdpServer -----------------------------
(***************************************************************************)
(* The UDP server of server/linux/udp_epoll.c: the main thread, which      *)
(* receives every datagram, the zombie reaper, which closes idle sessions, *)
(* and the TUN workers, which route packets from the interface to clients. *)
(* They share the session pool, the IPv4 route map and the flags stop and  *)
(* in_emergency.                                                           *)
(*                                                                         *)
(* One action is one packet handled by the main thread, one packet routed  *)
(* by a worker or one slot examined by the reaper, each with every call it *)
(* makes.  What threads can do to each other inside a handler is the       *)
(* subject of SessionRace; here the handlers themselves are.               *)
(***************************************************************************)
EXTENDS SessionOps

CONSTANTS Worker,      \* TUN worker threads (thread_num - 1 of them)
          User,        \* users the auth directory knows
          UserIp,      \* UserIp[u]: the interface address of user u
          IpLo,        \* lower 16 bits of the interface addresses in use
          SyncEvery,   \* a SYNC is sent every SyncEvery packets (32)
          UDP_SESS_TIMEOUT_NO_AUTH,
          UDP_SESS_TIMEOUT_AUTH,
          MaxIdle      \* bound on the time since the last activity

NoIp == <<0, 0>>

ASSUME ServerAssumption ==
    /\ UserIp \in [User -> Uint16 \X IpLo]
    /\ \A u \in User : UserIp[u] # NoIp
    /\ SyncEvery \in Nat /\ SyncEvery > 1
    /\ UDP_SESS_TIMEOUT_NO_AUTH \in Nat /\ UDP_SESS_TIMEOUT_AUTH \in Nat
    /\ MaxIdle \in Nat
    /\ MaxIdle > UDP_SESS_TIMEOUT_AUTH /\ MaxIdle > UDP_SESS_TIMEOUT_NO_AUTH

Main   == "main"
Reaper == "zombie-reaper"
Thread == {Main, Reaper} \cup Worker
TunThread == IF Worker = {} THEN {Main} ELSE Worker

VARIABLES pool,      \* sess_stk, sess_map, sess_arr, n_on_sess
          info,      \* the other fields of each slot
          ipv4_map,  \* route map: 0, or the slot index plus one
          flags,     \* stop, in_emergency, and whether sig is set
          online,    \* threads inside their loop
          zr,        \* next slot the reaper examines; NULL while it sleeps
          sent       \* packets the last step put on the wire

vars == <<pool, info, ipv4_map, flags, online, zr, sent>>

(* The interface address, the loop counter (a uint8_t used modulo 32), the *)
(* authentication flag and, in place of last_act, the time since then.     *)
InfoType == [is_authenticated : BOOLEAN, ipv4_iff : (Uint16 \X IpLo) \cup {NoIp},
             loop_c : 0..(SyncEvery - 1), idle : 0..MaxIdle]

(* reset_udp_session() zeroes last_act: the idle time becomes the largest. *)
ResetInfo == [is_authenticated |-> FALSE, ipv4_iff |-> NoIp, loop_c |-> 0,
              idle |-> MaxIdle]

(* The event loop is about to run: stop = false.  A signal that came while *)
(* the server was set up has left sig behind.                              *)
Init == /\ pool = InitPool
        /\ info = [i \in Slot |-> ResetInfo]
        /\ ipv4_map = [k \in IpLo |-> 0]
        /\ flags \in [stop : {FALSE}, in_emergency : {FALSE}, sig : BOOLEAN]
        /\ online = Thread
        /\ zr = NULL
        /\ sent = {}

Authenticated == {i \in Slot : info[i].is_authenticated}
Peer(i) == <<pool.sess[i].src_addr, pool.sess[i].src_port>>
Pkt(type, c) == [type |-> type, to |-> c]

-----------------------------------------------------------------------------
(* Writing to a descriptor.  "ok" is a success, at once or after the       *)
(* descriptor became writable again; "down" is EAGAIN followed by a failed *)
(* or given up wait; "err" is any other error and "late" such an error     *)
(* after EAGAIN and a successful wait.                                     *)

Result == {"ok", "down", "err", "late"}
Failure == Result \ {"ok"}

(* send_to_client() with emergency_wait_for_udp_fd_be_writable(): EAGAIN   *)
(* starts an emergency, a success ends it, a failed wait stops the server. *)
send_to_client(f, r) ==
    [f EXCEPT !.stop = @ \/ r = "down",
              !.in_emergency = IF r = "err" THEN @ ELSE r # "ok"]

Delivered(type, c, r) == IF r = "ok" THEN {Pkt(type, c)} ELSE {}

add_ipv4_route_map(map, addr, i) == [map EXCEPT ![addr[2]] = (i + 1) % TwoTo16]
del_ipv4_route_map(map, addr) == [map EXCEPT ![addr[2]] = 0]

(* What closing slot i leaves of the route map.                            *)
Unrouted(i) == IF info[i].ipv4_iff # NoIp
               THEN del_ipv4_route_map(ipv4_map, info[i].ipv4_iff)
               ELSE ipv4_map

-----------------------------------------------------------------------------
(* A slip: the route of the closed session stays.                          *)
close_udp_session_KeepsRoute(i, f, r, loop_c) ==
    /\ flags' = send_to_client(f, r)
    /\ pool' = delete_udp_session(pool, i)
    /\ info' = [info EXCEPT ![i] = [ResetInfo EXCEPT !.loop_c = loop_c]]
    /\ UNCHANGED ipv4_map

(* A slip: the packet count of the closed session stays.                   *)
close_udp_session_KeepsCount(i, f, r, loop_c) ==
    /\ ipv4_map' = Unrouted(i)
    /\ flags' = send_to_client(f, r)
    /\ pool' = delete_udp_session(pool, i)
    /\ info' = [info EXCEPT ![i] = [ResetInfo EXCEPT !.loop_c = info[i].loop_c]]

(* close_udp_session() and zr_close_sess(): unroute, say CLOSE, delete.    *)
(* f are the flags before the CLOSE is sent, r its result, and loop_c what *)
(* the caller leaves in the freed slot.                                    *)
close_udp_session(i, f, r, loop_c) ==
    /\ ipv4_map' = Unrouted(i)
    /\ flags' = send_to_client(f, r)
    /\ pool' = delete_udp_session(pool, i)
    /\ info' = [info EXCEPT ![i] = [ResetInfo EXCEPT !.loop_c = loop_c]]

(* The end of _handle_event_from_udp(): n is the slot after the handler.   *)
(* Every SyncEvery packets the session counts as active and a SYNC goes    *)
(* out, whose result is ignored.                                           *)
CountPacket(i, n, f, out) ==
    LET c == (n.loop_c + 1) % SyncEvery
    IN  IF c # 0
        THEN /\ info' = [info EXCEPT ![i] = [n EXCEPT !.loop_c = c]]
             /\ flags' = f
             /\ sent' = out
        ELSE \E r \in Result :
             /\ info' = [info EXCEPT ![i] = [n EXCEPT !.loop_c = 0, !.idle = 0]]
             /\ flags' = send_to_client(f, r)
             /\ sent' = out \cup Delivered("SYNC", Peer(i), r)

(* The handler's result is nonzero: the thread breaks out of its loop.     *)
Leaves(t) == online' = online \ {t}

-----------------------------------------------------------------------------
(* The main thread: one datagram from client c.                            *)

(* stop is read before epoll_wait(): packets already reported are handled  *)
(* after it was set.                                                       *)
Receiving == Main \in online

IsNew(c) == lookup_udp_sess(pool, c) = NULL

(* skip_session_creation(), or create_udp_sess() finds no slot: ignored.   *)
IgnoreNewClient(c) ==
    /\ Receiving /\ IsNew(c)
    /\ sent' = {}
    /\ UNCHANGED <<pool, info, ipv4_map, flags, online, zr>>

NewClientNoMem(c) ==
    /\ Receiving /\ IsNew(c)
    /\ ~StackEmpty(pool.stk) /\ InsertAllocates(pool.map, c[1])
    /\ pool' = create_udp_sess_nomem(pool, c)
    /\ Leaves(Main)
    /\ sent' = {}
    /\ UNCHANGED <<info, ipv4_map, flags, zr>>

(* handle_new_client() with a good HANDSHAKE that is answered.             *)
NewClient(c) ==
    /\ Receiving /\ IsNew(c)
    /\ ~StackEmpty(pool.stk)
    /\ pool' = create_udp_sess(pool, c)
    /\ info' = [info EXCEPT ![bt_stack_top(pool.stk)].idle = 0]
    /\ flags' = send_to_client(flags, "ok")
    /\ sent' = {Pkt("HANDSHAKE", c)}
    /\ UNCHANGED <<ipv4_map, online, zr>>

(* The session is created and closed again: the handshake is malformed or  *)
(* of another version, or the first packet is no handshake (a REJECT is    *)
(* sent), or the answer to a good handshake cannot be sent (the main       *)
(* thread leaves its loop).                                                *)
NewClientDropped(c) ==
    /\ Receiving /\ IsNew(c)
    /\ ~StackEmpty(pool.stk)
    /\ LET i == bt_stack_top(pool.stk)
       IN  /\ pool' = delete_udp_session(create_udp_sess(pool, c), i)
           /\ info' = [info EXCEPT ![i] = ResetInfo]
           /\ ipv4_map' = Unrouted(i)
    /\ \E good \in BOOLEAN, r, s \in Result :
        /\ good => r # "ok"
        /\ flags' = send_to_client(send_to_client(flags, r), s)
        /\ sent' = Delivered("HANDSHAKE_REJECT", c, r) \cup Delivered("CLOSE", c, s)
        /\ IF good THEN Leaves(Main) ELSE UNCHANGED online
    /\ UNCHANGED zr

(* A packet from the client of slot i.                                     *)
From(i) == /\ Receiving
           /\ \E c \in Client : lookup_udp_sess(pool, c) = i
           /\ UNCHANGED zr

(* A slip: AUTH of an authenticated session starts over.                   *)
RecvIgnored_StartsOver(i) ==
    /\ From(i)
    /\ info' = [info EXCEPT ![i].is_authenticated = FALSE, ![i].ipv4_iff = NoIp]
    /\ ipv4_map' = [k \in IpLo |-> IF ipv4_map[k] = i + 1 THEN 0 ELSE ipv4_map[k]]
    /\ sent' = {}
    /\ UNCHANGED <<pool, flags, online>>

(* HANDSHAKE again, or AUTH of an authenticated session: nothing but the   *)
(* packet count.                                                           *)
RecvIgnored(i) ==
    /\ From(i)
    /\ CountPacket(i, info[i], flags, {})
    /\ UNCHANGED <<pool, ipv4_map, online>>

(* AUTH with the right password, AUTH_OK sent: the session gets its        *)
(* address and its route.                                                  *)
RecvAuthOk(i, u) ==
    /\ From(i) /\ ~info[i].is_authenticated
    /\ ipv4_map' = add_ipv4_route_map(ipv4_map, UserIp[u], i)
    /\ CountPacket(i, [info[i] EXCEPT !.is_authenticated = TRUE,
                                      !.ipv4_iff = UserIp[u]],
                   send_to_client(flags, "ok"), {Pkt("AUTH_OK", Peer(i))})
    /\ UNCHANGED <<pool, online>>

(* AUTH with the right password, AUTH_OK cannot be sent.                   *)
RecvAuthUnsent(i) ==
    /\ From(i) /\ ~info[i].is_authenticated
    /\ \E r \in Failure, s \in Result :
        /\ close_udp_session(i, send_to_client(flags, r), s, 0)
        /\ sent' = Delivered("CLOSE", Peer(i), s)
    /\ Leaves(Main)

(* AUTH with a wrong user or password.  A successful rejection goes on to  *)
(* count the packet, in the slot that was just freed.                      *)
RecvAuthReject(i) ==
    /\ From(i) /\ ~info[i].is_authenticated
    /\ \E r, s \in Result :
        /\ close_udp_session(i, send_to_client(flags, r), s,
                             IF r = "ok" THEN 1 ELSE 0)
        /\ sent' = Delivered("AUTH_REJECT", Peer(i), r)
                   \cup Delivered("CLOSE", Peer(i), s)
        /\ IF r = "ok" THEN UNCHANGED online ELSE Leaves(Main)

(* TUN_DATA, written to the interface.  A write that had to wait leaves    *)
(* in_emergency set.                                                       *)
RecvTunData(i) ==
    /\ From(i)
    /\ \/ /\ \E e \in {flags.in_emergency, TRUE} :
                CountPacket(i, info[i], [flags EXCEPT !.in_emergency = e], {})
          /\ UNCHANGED online
       \/ /\ \E r \in Failure : flags' = send_to_client(flags, r)
          /\ Leaves(Main)
          /\ sent' = {}
          /\ UNCHANGED info
    /\ UNCHANGED <<pool, ipv4_map>>

(* REQSYNC: answered with SYNC, and a sign of life whatever the send does. *)
RecvReqsync(i) ==
    /\ From(i)
    /\ \/ /\ CountPacket(i, [info[i] EXCEPT !.idle = 0],
                         send_to_client(flags, "ok"), {Pkt("SYNC", Peer(i))})
          /\ UNCHANGED online
       \/ /\ \E r \in Failure : flags' = send_to_client(flags, r)
          /\ info' = [info EXCEPT ![i].idle = 0]
          /\ Leaves(Main)
          /\ sent' = {}
    /\ UNCHANGED <<pool, ipv4_map>>

RecvSync(i) ==
    /\ From(i)
    /\ CountPacket(i, [info[i] EXCEPT !.idle = 0], flags, {})
    /\ UNCHANGED <<pool, ipv4_map, online>>

(* CLOSE counts the packet in the freed slot; a packet of no known type    *)
(* closes the session without counting.                                    *)
RecvClose(i) ==
    /\ From(i)
    /\ \E r \in Result, loop_c \in {0, 1} :
        /\ close_udp_session(i, flags, r, loop_c)
        /\ sent' = Delivered("CLOSE", Peer(i), r)
    /\ UNCHANGED online

(* recvfrom() or epoll_wait() fails.                                       *)
RecvError ==
    /\ Receiving
    /\ Leaves(Main)
    /\ sent' = {}
    /\ UNCHANGED <<pool, info, ipv4_map, flags, zr>>

-----------------------------------------------------------------------------
(* The TUN workers: one packet for interface address <<_, k>>, or one that *)
(* is not IPv4 (k = NULL).                                                 *)

Reading(t) == t \in online

(* Slips: a broadcast that stops one slot short, or one to every session.  *)
Recipients_OneShort(k) ==
    IF k # NULL /\ ipv4_map[k] # 0 THEN {ipv4_map[k] - 1}
    ELSE Authenticated \ {MaxConn - 1}

Recipients_Everyone(k) ==
    IF k # NULL /\ ipv4_map[k] # 0 THEN {ipv4_map[k] - 1} ELSE Connected(pool)

(* _route_packet(): the session of the route, or all authenticated ones.   *)
Recipients(k) ==
    IF k # NULL /\ ipv4_map[k] # 0 THEN {ipv4_map[k] - 1} ELSE Authenticated

(* The recipients in slot order, up to the first that cannot be sent to.   *)
RoutePacket(t, k) ==
    /\ Reading(t)
    /\ LET all == Recipients(k)
       IN  \E reached \in {all} \cup {{j \in all : j < i} : i \in all}, r \in Result :
             LET f == IF reached = {} THEN flags ELSE send_to_client(flags, "ok")
             IN  /\ r = "ok" <=> reached = all
                 /\ flags' = IF r = "ok" THEN f ELSE send_to_client(f, r)
                 /\ sent' = {Pkt("TUN_DATA", Peer(i)) : i \in reached}
                 /\ IF r = "ok" THEN UNCHANGED online ELSE Leaves(t)
    /\ UNCHANGED <<pool, info, ipv4_map, zr>>

ReadError(t) ==
    /\ Reading(t)
    /\ Leaves(t)
    /\ sent' = {}
    /\ UNCHANGED <<pool, info, ipv4_map, flags, zr>>

-----------------------------------------------------------------------------
(* The zombie reaper.                                                      *)

(* A slip: the loop does not look at stop.                                 *)
ZrLoop_Forever == zr' = NULL /\ UNCHANGED online

(* The loop head: another round of sleep, or the end.                      *)
ZrLoop == /\ zr' = NULL
          /\ online' = IF flags.stop THEN online \ {Reaper} ELSE online

(* A slip: a lone session is not worth a scan.                             *)
ZrWake_OffByOne ==
    /\ Reaper \in online /\ zr = NULL
    /\ IF ~flags.in_emergency /\ pool.n_on_sess > 1
       THEN zr' = 0 /\ UNCHANGED online
       ELSE ZrLoop
    /\ sent' = {}
    /\ UNCHANGED <<pool, info, ipv4_map, flags>>

(* After sleep(5): a scan, unless there is an emergency or no session.     *)
ZrWake ==
    /\ Reaper \in online /\ zr = NULL
    /\ IF ~flags.in_emergency /\ pool.n_on_sess # 0
       THEN zr' = 0 /\ UNCHANGED online
       ELSE ZrLoop
    /\ sent' = {}
    /\ UNCHANGED <<pool, info, ipv4_map, flags>>

ZrExpired(i) ==
    info[i].idle > IF info[i].is_authenticated THEN UDP_SESS_TIMEOUT_AUTH
                                               ELSE UDP_SESS_TIMEOUT_NO_AUTH

(* zr_chk_auth(): how many REQSYNCs a session idle for d is sent.          *)
ReqsyncBurst(d) ==
    LET m == UDP_SESS_TIMEOUT_AUTH
    IN  CASE d > (m * 4) \div 5 -> 7
          [] d > (m * 3) \div 5 /\ d <= (m * 4) \div 5 -> 5
          [] d > (m * 2) \div 5 /\ d <= (m * 3) \div 5 -> 3
          [] d > m \div 5       /\ d <= (m * 2) \div 5 -> 1
          [] d <= m \div 5                              -> 0

ZrScanning == Reaper \in online /\ zr \in Slot /\ zr' = zr + 1

ZrSkip ==
    /\ ZrScanning
    /\ zr \in Connected(pool) =>
        /\ ~ZrExpired(zr)
        /\ info[zr].is_authenticated => ReqsyncBurst(info[zr].idle) = 0
    /\ sent' = {}
    /\ UNCHANGED <<pool, info, ipv4_map, flags, online>>

(* A burst of any length leaves the flags as two sends can: a send repeats *)
(* the effect of an equal one before it.                                   *)
ZrReqsync ==
    /\ ZrScanning /\ zr \in Connected(pool)
    /\ info[zr].is_authenticated /\ ~ZrExpired(zr)
    /\ ReqsyncBurst(info[zr].idle) > 0
    /\ \E r, s \in Result :
        /\ ReqsyncBurst(info[zr].idle) = 1 => s = r
        /\ flags' = send_to_client(send_to_client(flags, r), s)
        /\ sent' = Delivered("REQSYNC", Peer(zr), r)
                   \cup Delivered("REQSYNC", Peer(zr), s)
    /\ UNCHANGED <<pool, info, ipv4_map, online>>

ZrClose ==
    /\ ZrScanning /\ zr \in Connected(pool)
    /\ ZrExpired(zr)
    /\ \E r \in Result : /\ close_udp_session(zr, flags, r, 0)
                         /\ sent' = Delivered("CLOSE", Peer(zr), r)
    /\ UNCHANGED online

ZrScanDone ==
    /\ Reaper \in online /\ zr = MaxConn
    /\ ZrLoop
    /\ sent' = {}
    /\ UNCHANGED <<pool, info, ipv4_map, flags>>

-----------------------------------------------------------------------------
(* Time, signals and the end.                                              *)

Tick ==
    /\ \E i \in Connected(pool) : info[i].idle < MaxIdle
    /\ info' = [i \in Slot |->
                  IF i \in Connected(pool) /\ info[i].idle < MaxIdle
                  THEN [info[i] EXCEPT !.idle = @ + 1] ELSE info[i]]
    /\ sent' = {}
    /\ UNCHANGED <<pool, ipv4_map, flags, online, zr>>

(* The signal handler, run by a signal from outside or by the pthread_kill *)
(* with which the main thread, out of its loop, wakes the other threads:   *)
(* it stops the server unless a signal was handled before, even one whose  *)
(* stop was erased.                                                        *)
signal_intr_handler ==
    /\ ~flags.sig
    /\ flags' = [flags EXCEPT !.stop = TRUE, !.sig = TRUE]
    /\ sent' = {}
    /\ UNCHANGED <<pool, info, ipv4_map, online, zr>>

(* The loop condition of the main thread and of the workers.               *)
LoopEnds(t) ==
    /\ t \in online \ {Reaper} /\ flags.stop
    /\ Leaves(t)
    /\ sent' = {}
    /\ UNCHANGED <<pool, info, ipv4_map, flags, zr>>

(* close_client_sess(), once wait_for_threads_to_exit() saw every thread   *)
(* gone: the connected sessions in slot order.                             *)
CloseClientSess ==
    /\ online = {} /\ Connected(pool) # {}
    /\ \E r \in Result :
        \E i \in Connected(pool) :
            /\ \A j \in Connected(pool) : i <= j
            /\ close_udp_session(i, flags, r, 0)
            /\ sent' = Delivered("CLOSE", Peer(i), r)
    /\ UNCHANGED <<online, zr>>

Next ==
    \/ \E c \in Client : \/ IgnoreNewClient(c)
                         \/ NewClientNoMem(c)
                         \/ NewClient(c)
                         \/ NewClientDropped(c)
    \/ \E i \in Slot : \/ RecvIgnored(i)
                       \/ \E u \in User : RecvAuthOk(i, u)
                       \/ RecvAuthUnsent(i)
                       \/ RecvAuthReject(i)
                       \/ RecvTunData(i)
                       \/ RecvReqsync(i)
                       \/ RecvSync(i)
                       \/ RecvClose(i)
    \/ RecvError
    \/ \E t \in TunThread : \/ \E k \in IpLo \cup {NULL} : RoutePacket(t, k)
                            \/ ReadError(t)
    \/ ZrWake \/ ZrSkip \/ ZrReqsync \/ ZrClose \/ ZrScanDone
    \/ Tick
    \/ signal_intr_handler
    \/ \E t \in Thread : LoopEnds(t)
    \/ CloseClientSess

Spec == Init /\ [][Next]_vars

-----------------------------------------------------------------------------
(* Every variable has the type of the C field it stands for.               *)
TypeOK == /\ pool \in PoolType
          /\ info \in [Slot -> InfoType]
          /\ ipv4_map \in [IpLo -> 0..MaxConn]
          /\ flags \in [stop : BOOLEAN, in_emergency : BOOLEAN, sig : BOOLEAN]
          /\ online \subseteq Thread
          /\ zr \in Slot \cup {NULL, MaxConn}

(* The callers of udp_session.c keep its contract: through every sequence  *)
(* of packets, failures and reaper visits the free stack, the buckets and  *)
(* the slots agree.                                                        *)
PoolStaysExact == PoolInv(pool)

(* n_on_sess is the number of connected sessions, as its declaration says. *)
CountStaysExact == pool.n_on_sess = Cardinality(Connected(pool))

(* A free slot carries no authentication and no interface address, so that *)
(* create_udp_sess(), which does not clear them, starts an unauthenticated *)
(* session; of the packets of its last session at most the one that closed *)
(* it is counted for the next.                                             *)
FreeSlotsClean ==
    \A i \in Slot \ Connected(pool) :
        /\ ~info[i].is_authenticated /\ info[i].ipv4_iff = NoIp
        /\ info[i].loop_c <= 1

(* A session has an interface address exactly when it is authenticated.    *)
AddressIffAuthenticated ==
    \A i \in Slot : info[i].is_authenticated <=> info[i].ipv4_iff # NoIp

(* A route leads to a connected, authenticated session whose interface     *)
(* address has those low 16 bits, never to a free or reassigned slot.      *)
RouteSound ==
    \A k \in IpLo : ipv4_map[k] # 0 =>
        LET i == ipv4_map[k] - 1
        IN  /\ i \in Connected(pool)
            /\ info[i].is_authenticated
            /\ info[i].ipv4_iff[2] = k

(* The conjunction the proofs use.                                         *)
ServerInv == /\ TypeOK
             /\ PoolStaysExact
             /\ CountStaysExact
             /\ FreeSlotsClean
             /\ AddressIffAuthenticated
             /\ RouteSound

(* A packet for this address goes to an authenticated session that has it, *)
(* if to others as well.                                                   *)
Reaches(addr) == \E j \in Recipients(addr[2]) :
                    info[j].is_authenticated /\ info[j].ipv4_iff = addr

(* route_ipv4_packet() and broadcast_packet() reach every address that an  *)
(* authenticated session has, by its route or by the broadcast, also after *)
(* the route was taken over or deleted by another session, as long as no   *)
(* other address with the same low 16 bits is in use: the route map knows  *)
(* no more of an address.                                                  *)
TunPacketReachesAddress ==
    \A i \in Authenticated :
        (\A j \in Authenticated :
            info[j].ipv4_iff[2] = info[i].ipv4_iff[2] =>
                info[j].ipv4_iff = info[i].ipv4_iff)
        => Reaches(info[i].ipv4_iff)

(* route_ipv4_packet() finds the destination or says that it cannot: a     *)
(* packet for the address of any authenticated session reaches it.  Does   *)
(* not hold for users who share the low 16 bits of their addresses.        *)
RouteFindsDestination ==
    \A i \in Authenticated : Reaches(info[i].ipv4_iff)

(* A slot changes its client only by way of being free, starts             *)
(* unauthenticated, and an authenticated session keeps its address until   *)
(* it is closed.                                                           *)
SessionStep ==
    \A i \in Slot :
        /\ i \in Connected(pool) /\ i \in Connected(pool)' =>
              /\ Peer(i)' = Peer(i)
              /\ info[i].is_authenticated =>
                    info'[i].is_authenticated /\ info'[i].ipv4_iff = info[i].ipv4_iff
        /\ i \notin Connected(pool) /\ i \in Connected(pool)' =>
              ~info'[i].is_authenticated

SessionLifecycle == [][SessionStep]_vars

(* Interface packets go to clients that are authenticated at that moment,  *)
(* and to nobody else.                                                     *)
TunDataOnlyToAuthenticated ==
    [][\A m \in sent' : m.type = "TUN_DATA" =>
         \E i \in Authenticated \cap Connected(pool) : m.to = Peer(i)]_vars

-----------------------------------------------------------------------------
(* Fairness: the threads keep running.  sleep(5), the epoll_wait() timeout *)
(* and pthread_kill() bring the reaper and the loops back to their         *)
(* conditions, and the main thread that left its loop goes on through      *)
(* destroy_epoll().  Nothing is assumed of clients, signals or the clock.  *)
ReaperStep == ZrWake \/ ZrSkip \/ ZrReqsync \/ ZrClose \/ ZrScanDone

MainKills == Main \notin online /\ online # {} /\ signal_intr_handler

Fairness == /\ WF_vars(ReaperStep)
            /\ \A t \in Thread : WF_vars(LoopEnds(t))
            /\ WF_vars(MainKills)
            /\ WF_vars(CloseClientSess)

FairSpec == Spec /\ Fairness

Zombie(i) == i \in Connected(pool) /\ info[i].idle = MaxIdle

(* A session that stays silent is closed, unless an emergency keeps the    *)
(* reaper from scanning.                                                   *)
ZombieReapedOrEmergency ==
    \A i \in Slot : Zombie(i) ~> (~Zombie(i) \/ flags.in_emergency)

(* Once stopped, by a signal, by a failed wait or by the end of the main   *)
(* thread, every thread leaves its loop and every session is closed.  The  *)
(* one exception is a main thread that ends of an error after a signal     *)
(* was erased: the handler its pthread_kill() runs then sets nothing.      *)
StopClosesEverything ==
    (flags.stop \/ (Main \notin online /\ ~flags.sig))
        ~> (online = {} /\ Connected(pool) = {})
=============================================================================
