-------------------------- MODULE UdpServerProofs --------------------------
(***************************************************************************)
(* Proofs about UdpServer: ServerInv is an invariant for every number of   *)
(* slots, clients, users and workers, and with it the properties of        *)
(* packets and sessions that rest on it.                                   *)
(*                                                                         *)
(* A step changes a pool, by the operators SessionOpsProofs is about, or   *)
(* the fields of one slot and the route map.  The second part is the       *)
(* predicate RoutesOK, with one lemma for each way the handlers change it. *)
(*                                                                         *)
(* The second half is about Vpn, which has the same pool.  A step of it is *)
(* reduced to what it does to the sessions (Keeps, Opens, Auths, Closes),  *)
(* to the stage of the client (ClientMoves) and to the two queues; VpnInv  *)
(* is an invariant of these.                                               *)
(***************************************************************************)
EXTENDS Vpn, SessionOpsProofs

Flags == [stop : BOOLEAN, in_emergency : BOOLEAN, sig : BOOLEAN]

(* The part of ServerInv about the fields of the slots and the route map,  *)
(* C being the connected slots.                                            *)
RoutesOK(C, inf, map) ==
    /\ inf \in [Slot -> InfoType]
    /\ map \in [IpLo -> 0..MaxConn]
    /\ \A i \in Slot \ C : /\ ~inf[i].is_authenticated /\ inf[i].ipv4_iff = NoIp
                           /\ inf[i].loop_c <= 1
    /\ \A i \in Slot : inf[i].is_authenticated <=> inf[i].ipv4_iff # NoIp
    /\ \A k \in IpLo : map[k] # 0 =>
          /\ map[k] - 1 \in C
          /\ inf[map[k] - 1].is_authenticated
          /\ inf[map[k] - 1].ipv4_iff[2] = k

(* The part about the pool.                                                *)
PoolOK(p) == PoolInv(p) /\ p.n_on_sess = Cardinality(Connected(p))

(* The two parts and the types of the rest.                                *)
ServerParts == /\ PoolOK(pool)
               /\ RoutesOK(Connected(pool), info, ipv4_map)
               /\ flags \in Flags
               /\ online \subseteq Thread
               /\ zr \in Slot \cup {NULL, MaxConn}

(* They make up ServerInv.                                                 *)
LEMMA InvParts == ServerInv <=> ServerParts
  BY DEF ServerInv, TypeOK, PoolStaysExact, CountStaysExact, FreeSlotsClean,
         AddressIffAuthenticated, RouteSound, PoolOK, PoolInv, RoutesOK, Flags,
         ServerParts

-----------------------------------------------------------------------------
(* The pool, with its counter.                                             *)

(* create_udp_sess() counts the session it creates: below MaxConn the      *)
(* uint16_t does not wrap.                                                 *)
LEMMA CreateCounts ==
    ASSUME NEW p, PoolOK(p), NEW c \in Client,
           lookup_udp_sess(p, c) = NULL, ~StackEmpty(p.stk)
    PROVE  LET i == bt_stack_top(p.stk)
               q == create_udp_sess(p, c)
           IN  /\ PoolOK(q)
               /\ i \in Slot \ Connected(p)
               /\ Connected(q) = Connected(p) \cup {i}
               /\ \A j \in Slot : j # i => q.sess[j] = p.sess[j]
  <1> DEFINE i == bt_stack_top(p.stk)
             q == create_udp_sess(p, c)
  <1>1. /\ PoolInv(q)
        /\ i \in Slot \ Connected(p)
        /\ Connected(q) = Connected(p) \cup {i}
        /\ \A j \in Slot : j # i => q.sess[j] = p.sess[j]
    BY CreateInv DEF PoolOK
  <1>2. q.n_on_sess = (p.n_on_sess + 1) % TwoTo16
    BY DEF create_udp_sess
  <1>3. p.n_on_sess = p.stk.sp /\ p.n_on_sess \in Uint16 /\ p.stk.sp \in 0..MaxConn
    BY DEF PoolOK, PoolInv, SpExact, PoolType, StackType
  <1>4. p.n_on_sess + 1 < TwoTo16
    BY <1>3, ConstantsTyped DEF StackEmpty
  <1>5. q.n_on_sess = Cardinality(Connected(p)) + 1
    BY <1>2, <1>3, <1>4, Uint16Arithmetic DEF PoolOK
  <1>6. Cardinality(Connected(q)) = Cardinality(Connected(p)) + 1
    <2>1. IsFiniteSet(Connected(p))
      BY SlotFinite
    <2>2. i \notin Connected(p)
      BY <1>1
    <2>3. Cardinality(Connected(p) \cup {i}) = Cardinality(Connected(p)) + 1
      BY <2>1, <2>2, FS_AddElement
    <2>4. QED
      BY <2>3, <1>1
  <1>7. QED
    BY <1>1, <1>5, <1>6 DEF PoolOK

(* The whole of delete_udp_session() uncounts the session it deletes.      *)
LEMMA DeleteUncounts ==
    ASSUME NEW p, PoolOK(p), NEW i \in Connected(p)
    PROVE  LET q == delete_udp_session(p, i)
           IN  /\ PoolOK(q)
               /\ Connected(q) = Connected(p) \ {i}
               /\ \A j \in Slot : j # i => q.sess[j] = p.sess[j]
  <1> DEFINE d == delete_udp_session_locked(p, i)
             q == delete_udp_session(p, i)
  <1>1. /\ PoolInv(d)
        /\ p.stk.sp > 0
        /\ Connected(d) = Connected(p) \ {i}
        /\ \A j \in Slot : j # i => d.sess[j] = p.sess[j]
        /\ d.n_on_sess = p.n_on_sess
    BY DeleteInv DEF PoolOK
  <1>2. q = n_on_sess_sub(d)
    BY DEF delete_udp_session
  <1>3. /\ PoolInv(q)
        /\ q.sess = d.sess
        /\ Connected(q) = Connected(d)
        /\ q.n_on_sess = (d.n_on_sess + TwoTo16 - 1) % TwoTo16
    BY <1>1, <1>2, UncountInv
  <1>4. p.n_on_sess = p.stk.sp /\ p.n_on_sess \in Uint16
    BY DEF PoolOK, PoolInv, SpExact, PoolType
  <1>5. q.n_on_sess = Cardinality(Connected(p)) - 1
    BY <1>1, <1>3, <1>4, Uint16Arithmetic DEF PoolOK
  <1>6. Cardinality(Connected(p) \ {i}) = Cardinality(Connected(p)) - 1
    BY SlotFinite, FS_RemoveElement
  <1>7. QED
    BY <1>1, <1>3, <1>5, <1>6 DEF PoolOK

-----------------------------------------------------------------------------
(* The fields of the slots and the route map.                              *)

(* Idle time and the packet count of a session do not matter.              *)
LEMMA RoutesSame ==
    ASSUME NEW C, NEW inf, NEW map, RoutesOK(C, inf, map),
           NEW new \in [Slot -> InfoType],
           \A i \in Slot : /\ new[i].is_authenticated = inf[i].is_authenticated
                           /\ new[i].ipv4_iff = inf[i].ipv4_iff,
           \A i \in Slot \ C : new[i].loop_c = inf[i].loop_c \/ new[i].loop_c <= 1,
           C \subseteq Slot
    PROVE  RoutesOK(C, new, map)
  BY DEF RoutesOK

(* One slot is written, its authentication and address are kept.           *)
LEMMA RoutesCount ==
    ASSUME NEW C, NEW inf, NEW map, RoutesOK(C, inf, map), C \subseteq Slot,
           NEW i \in Slot, NEW n \in InfoType,
           n.is_authenticated = inf[i].is_authenticated,
           n.ipv4_iff = inf[i].ipv4_iff,
           i \in C \/ n.loop_c <= 1
    PROVE  RoutesOK(C, [inf EXCEPT ![i] = n], map)
  <1>1. inf \in [Slot -> InfoType]
    BY DEF RoutesOK
  <1>2. QED
    BY <1>1, RoutesSame

(* A free slot becomes a session: it is clean already.                     *)
LEMMA RoutesCreate ==
    ASSUME NEW C, NEW inf, NEW map, RoutesOK(C, inf, map), NEW i \in Slot
    PROVE  RoutesOK(C \cup {i}, inf, map)
  BY DEF RoutesOK

(* A session is closed: its fields are reset, and its route is deleted if  *)
(* it has an address.  No other route leads to it.                         *)
LEMMA RoutesClose ==
    ASSUME NEW C, NEW inf, NEW map, RoutesOK(C, inf, map), C \subseteq Slot,
           NEW i \in C, NEW n \in InfoType,
           ~n.is_authenticated, n.ipv4_iff = NoIp, n.loop_c <= 1
    PROVE  RoutesOK(C \ {i}, [inf EXCEPT ![i] = n],
                    IF inf[i].ipv4_iff # NoIp
                    THEN del_ipv4_route_map(map, inf[i].ipv4_iff) ELSE map)
  <1> DEFINE new == [inf EXCEPT ![i] = n]
             rest == IF inf[i].ipv4_iff # NoIp
                     THEN del_ipv4_route_map(map, inf[i].ipv4_iff) ELSE map
  <1>1. /\ inf \in [Slot -> InfoType] /\ map \in [IpLo -> 0..MaxConn]
        /\ i \in Slot /\ MaxConn \in Nat
    BY ConstantsTyped DEF RoutesOK
  <1>2. new \in [Slot -> InfoType]
    BY <1>1
  <1>3. rest \in [IpLo -> 0..MaxConn]
    <2>1. 0 \in 0..MaxConn
      BY <1>1
    <2>2. \A x : [map EXCEPT ![x] = 0] \in [IpLo -> 0..MaxConn]
      BY <1>1, <2>1, Zenon
    <2>3. QED
      BY <1>1, <2>2, Zenon DEF del_ipv4_route_map
  <1>4. ASSUME NEW k \in IpLo, rest[k] # 0
        PROVE  rest[k] = map[k] /\ map[k] - 1 # i
    <2>1. rest[k] = map[k]
      BY <1>1, <1>4 DEF del_ipv4_route_map
    <2>2. CASE inf[i].ipv4_iff # NoIp
      <3>1. k # inf[i].ipv4_iff[2]
        BY <1>1, <1>4, <2>2 DEF del_ipv4_route_map
      <3>2. QED
        BY <1>4, <2>1, <3>1 DEF RoutesOK
    <2>3. CASE inf[i].ipv4_iff = NoIp
      BY <1>1, <1>4, <2>1, <2>3 DEF RoutesOK
    <2>4. QED
      BY <2>1, <2>2, <2>3
  <1>5. \A j \in Slot \ (C \ {i}) : /\ ~new[j].is_authenticated /\ new[j].ipv4_iff = NoIp
                                    /\ new[j].loop_c <= 1
    BY <1>1 DEF RoutesOK
  <1>6. \A j \in Slot : new[j].is_authenticated <=> new[j].ipv4_iff # NoIp
    BY <1>1 DEF RoutesOK
  <1>7. ASSUME NEW k \in IpLo, rest[k] # 0
        PROVE  /\ rest[k] - 1 \in C \ {i}
               /\ new[rest[k] - 1].is_authenticated
               /\ new[rest[k] - 1].ipv4_iff[2] = k
    <2>1. rest[k] = map[k] /\ map[k] - 1 # i
      BY <1>4, <1>7
    <2>2. /\ map[k] - 1 \in C
          /\ inf[map[k] - 1].is_authenticated
          /\ inf[map[k] - 1].ipv4_iff[2] = k
      BY <2>1, <1>7 DEF RoutesOK
    <2>3. new[map[k] - 1] = inf[map[k] - 1]
      BY <2>1, <2>2, <1>1
    <2>4. QED
      BY <2>1, <2>2, <2>3
  <1> HIDE DEF new, rest
  <1>8. RoutesOK(C \ {i}, new, rest)
    BY <1>2, <1>3, <1>5, <1>6, <1>7 DEF RoutesOK
  <1>9. QED
    BY <1>8 DEF new, rest

(* A session is authenticated: it takes the route of its address over.     *)
LEMMA RoutesAuth ==
    ASSUME NEW C, NEW inf, NEW map, RoutesOK(C, inf, map), C \subseteq Slot,
           NEW i \in C, ~inf[i].is_authenticated, NEW u \in User,
           NEW n \in InfoType, n.is_authenticated, n.ipv4_iff = UserIp[u]
    PROVE  RoutesOK(C, [inf EXCEPT ![i] = n], add_ipv4_route_map(map, UserIp[u], i))
  <1> DEFINE new == [inf EXCEPT ![i] = n]
             routes == add_ipv4_route_map(map, UserIp[u], i)
             addr == UserIp[u]
  <1>1. /\ inf \in [Slot -> InfoType] /\ map \in [IpLo -> 0..MaxConn]
        /\ i \in Slot /\ MaxConn \in Nat
    BY ConstantsTyped DEF RoutesOK
  <1>2. addr \in Uint16 \X IpLo /\ addr # NoIp
    BY ServerAssumption
  <1>3. addr[2] \in IpLo
    BY <1>2
  <1>4. (i + 1) % TwoTo16 = i + 1 /\ i + 1 \in 1..MaxConn
    <2>1. i \in Nat /\ i < MaxConn /\ MaxConn < TwoTo16 /\ TwoTo16 \in Nat
      BY <1>1, ConstantsTyped DEF Slot
    <2>2. \A m, M \in Nat : m < M => m % M = m
      BY SMT
    <2>3. QED
      BY <2>1, <2>2, <1>1
  <1>5. routes = [map EXCEPT ![addr[2]] = i + 1]
    BY <1>4 DEF add_ipv4_route_map
  <1>6. new \in [Slot -> InfoType] /\ new[i] = n /\ \A j \in Slot : j # i => new[j] = inf[j]
    BY <1>1
  <1> HIDE DEF new, routes, addr
  <1>7. routes \in [IpLo -> 0..MaxConn]
    BY <1>1, <1>3, <1>4, <1>5
  <1>8. \A j \in Slot \ C : /\ ~new[j].is_authenticated /\ new[j].ipv4_iff = NoIp
                             /\ new[j].loop_c <= 1
    BY <1>6 DEF RoutesOK
  <1>9. \A j \in Slot : new[j].is_authenticated <=> new[j].ipv4_iff # NoIp
    BY <1>2, <1>6 DEF RoutesOK, addr
  <1>10. ASSUME NEW k \in IpLo, routes[k] # 0
         PROVE  /\ routes[k] - 1 \in C
                /\ new[routes[k] - 1].is_authenticated
                /\ new[routes[k] - 1].ipv4_iff[2] = k
    <2>1. CASE k = addr[2]
      <3>1. routes[k] = i + 1 /\ i \in Int
        BY <1>1, <1>5, <2>1, ConstantsTyped
      <3>2. routes[k] - 1 = i
        BY <3>1
      <3>3. QED
        BY <3>2, <1>6, <2>1 DEF addr
    <2>2. CASE k # addr[2]
      <3>1. routes[k] = map[k]
        BY <1>1, <1>5, <2>2
      <3>2. /\ map[k] - 1 \in C
            /\ inf[map[k] - 1].is_authenticated
            /\ inf[map[k] - 1].ipv4_iff[2] = k
        BY <3>1, <1>10 DEF RoutesOK
      <3>3. new[map[k] - 1] = inf[map[k] - 1]
        BY <3>2, <1>6
      <3>4. QED
        BY <3>1, <3>2, <3>3
    <2>3. QED
      BY <2>1, <2>2
  <1>11. RoutesOK(C, new, routes)
    BY <1>6, <1>7, <1>8, <1>9, <1>10 DEF RoutesOK
  <1>12. QED
    BY <1>11 DEF new, routes

-----------------------------------------------------------------------------
(* What the pieces of the handlers do.                                     *)

(* A freed slot has no authentication and no address, whatever loop_c the  *)
(* caller left in it.                                                      *)
LEMMA ResetTyped ==
    \A l \in {0, 1} : LET n == [ResetInfo EXCEPT !.loop_c = l]
                      IN  /\ n \in InfoType /\ ~n.is_authenticated /\ n.ipv4_iff = NoIp
                          /\ n.loop_c <= 1
  <1> TAKE l \in {0, 1}
  <1> DEFINE n == [ResetInfo EXCEPT !.loop_c = l]
  <1>1. l \in 0..(SyncEvery - 1) /\ MaxIdle \in 0..MaxIdle /\ l <= 1
    BY ServerAssumption
  <1>2. n.loop_c = l
    BY DEF ResetInfo
  <1>3. n \in InfoType /\ ~n.is_authenticated /\ n.ipv4_iff = NoIp
    BY <1>1 DEF ResetInfo, InfoType
  <1> HIDE DEF n
  <1>4. n.loop_c <= 1
    BY <1>1, <1>2
  <1>5. QED
    BY <1>3, <1>4 DEF n

(* send_to_client() leaves flags, whatever its result.                     *)
LEMMA SendTyped ==
    \A f \in Flags : \A r : send_to_client(f, r) \in Flags
  BY DEF Flags, send_to_client

(* Sessions live in slots.                                                 *)
LEMMA ConnectedSlots ==
    ASSUME NEW p
    PROVE  Connected(p) \subseteq Slot
  BY DEF Connected

(* A packet handled for slot i comes from the client of a session.         *)
LEMMA FromConnected ==
    ASSUME ServerParts, NEW i \in Slot, From(i)
    PROVE  i \in Connected(pool)
  <1>1. PICK c \in Client : lookup_udp_sess(pool, c) = i
    BY DEF From
  <1>2. PoolInv(pool)
    BY DEF ServerParts, PoolOK
  <1>3. i # NULL
    BY ConstantsTyped
  <1>4. QED
    BY <1>1, <1>2, <1>3, LookupFinds

(* The end of a handler changes idle time and packet count at most.        *)
LEMMA CountStep ==
    \A i \in Slot, n \in InfoType, f \in Flags :
        \A out : CountPacket(i, n, f, out) =>
            /\ flags' \in Flags
            /\ \E m \in InfoType : /\ info' = [info EXCEPT ![i] = m]
                                  /\ m.is_authenticated = n.is_authenticated
                                  /\ m.ipv4_iff = n.ipv4_iff
  <1> SUFFICES ASSUME NEW i \in Slot, NEW n \in InfoType, NEW f \in Flags, NEW out,
                      CountPacket(i, n, f, out)
               PROVE  /\ flags' \in Flags
                      /\ \E m \in InfoType :
                            /\ info' = [info EXCEPT ![i] = m]
                            /\ m.is_authenticated = n.is_authenticated
                            /\ m.ipv4_iff = n.ipv4_iff
    OBVIOUS
  <1> DEFINE c == (n.loop_c + 1) % SyncEvery
  <1>1. c \in 0..(SyncEvery - 1) /\ 0 \in 0..(SyncEvery - 1) /\ 0 \in 0..MaxIdle
    BY ServerAssumption DEF InfoType
  <1> HIDE DEF c
  <1>2. CASE c # 0
    <2>1. info' = [info EXCEPT ![i] = [n EXCEPT !.loop_c = c]] /\ flags' = f
      BY <1>2 DEF CountPacket, c
    <2>2. [n EXCEPT !.loop_c = c] \in InfoType
      BY <1>1 DEF InfoType
    <2>3. QED
      BY <2>1, <2>2 DEF InfoType
  <1>3. CASE c = 0
    <2>1. PICK r \in Result :
            /\ info' = [info EXCEPT ![i] = [n EXCEPT !.loop_c = 0, !.idle = 0]]
            /\ flags' = send_to_client(f, r)
      BY <1>3 DEF CountPacket, c
    <2>2. [n EXCEPT !.loop_c = 0, !.idle = 0] \in InfoType
      BY <1>1 DEF InfoType
    <2>3. QED
      BY <2>1, <2>2, SendTyped DEF InfoType
  <1>4. QED
    BY <1>2, <1>3

(* Counting a packet for a session whose other fields are kept.            *)
LEMMA CountKeeps ==
    ASSUME ServerParts, NEW i \in Connected(pool), UNCHANGED <<pool, ipv4_map>>,
           \E m \in InfoType : /\ info' = [info EXCEPT ![i] = m]
                              /\ m.is_authenticated = info[i].is_authenticated
                              /\ m.ipv4_iff = info[i].ipv4_iff
    PROVE  PoolOK(pool)' /\ RoutesOK(Connected(pool), info, ipv4_map)'
  <1>1. PICK m \in InfoType : /\ info' = [info EXCEPT ![i] = m]
                              /\ m.is_authenticated = info[i].is_authenticated
                              /\ m.ipv4_iff = info[i].ipv4_iff
    OBVIOUS
  <1>2. RoutesOK(Connected(pool), [info EXCEPT ![i] = m], ipv4_map)
    BY <1>1, RoutesCount, ConnectedSlots DEF ServerParts
  <1>3. QED
    BY <1>1, <1>2 DEF ServerParts

(* close_udp_session() of a session.                                       *)
LEMMA CloseStep ==
    ASSUME ServerParts
    PROVE  \A i \in Connected(pool), f \in Flags, l \in {0, 1} : \A r :
              close_udp_session(i, f, r, l) =>
                /\ PoolOK(pool)'
                /\ RoutesOK(Connected(pool), info, ipv4_map)'
                /\ flags' \in Flags
                /\ Connected(pool)' = Connected(pool) \ {i}
                /\ \A j \in Slot : j # i => pool'.sess[j] = pool.sess[j]
                                          /\ info'[j] = info[j]
  <1> SUFFICES ASSUME NEW i \in Connected(pool), NEW f \in Flags, NEW l \in {0, 1}, NEW r,
                      close_udp_session(i, f, r, l)
               PROVE  /\ PoolOK(pool)'
                      /\ RoutesOK(Connected(pool), info, ipv4_map)'
                      /\ flags' \in Flags
                      /\ Connected(pool)' = Connected(pool) \ {i}
                      /\ \A j \in Slot : j # i => pool'.sess[j] = pool.sess[j]
                                                /\ info'[j] = info[j]
    OBVIOUS
  <1> DEFINE n == [ResetInfo EXCEPT !.loop_c = l]
             map == IF info[i].ipv4_iff # NoIp
                    THEN del_ipv4_route_map(ipv4_map, info[i].ipv4_iff) ELSE ipv4_map
  <1>1. /\ ipv4_map' = map
        /\ flags' = send_to_client(f, r)
        /\ pool' = delete_udp_session(pool, i)
        /\ info' = [info EXCEPT ![i] = n]
    BY DEF close_udp_session, Unrouted
  <1>2. /\ PoolOK(pool')
        /\ Connected(pool') = Connected(pool) \ {i}
        /\ \A j \in Slot : j # i => pool'.sess[j] = pool.sess[j]
    BY <1>1, DeleteUncounts DEF ServerParts
  <1>3. n \in InfoType /\ ~n.is_authenticated /\ n.ipv4_iff = NoIp /\ n.loop_c <= 1
    BY ResetTyped
  <1> HIDE DEF n
  <1>4. RoutesOK(Connected(pool) \ {i}, [info EXCEPT ![i] = n], map)
    BY <1>3, RoutesClose, ConnectedSlots DEF ServerParts
  <1>5. flags' \in Flags
    BY <1>1, SendTyped
  <1>6. \A j \in Slot : j # i => info'[j] = info[j]
    BY <1>1 DEF ServerParts, RoutesOK
  <1> HIDE DEF map
  <1>7. RoutesOK(Connected(pool'), info', ipv4_map')
    BY <1>1, <1>2, <1>4
  <1>8. QED
    BY <1>2, <1>5, <1>6, <1>7

-----------------------------------------------------------------------------
(* The invariant.                                                          *)

(* The server starts with an empty pool, clean slots and no route.         *)
LEMMA InitParts == Init => ServerParts
  <1> SUFFICES ASSUME Init PROVE ServerParts
    OBVIOUS
  <1>1. PoolInv(pool) /\ Connected(pool) = {} /\ pool.n_on_sess = 0
    BY InitPoolInv DEF Init, InitPool
  <1>2. Cardinality(Connected(pool)) = 0
    BY <1>1, FS_EmptySet
  <1>3. info \in [Slot -> InfoType] /\ \A i \in Slot : info[i] = ResetInfo
    <2>1. 0 \in 0..(SyncEvery - 1) /\ MaxIdle \in 0..MaxIdle
      BY ServerAssumption
    <2>2. ResetInfo \in InfoType
      BY <2>1 DEF ResetInfo, InfoType
    <2>3. QED
      BY <2>2 DEF Init
  <1>4. ipv4_map \in [IpLo -> 0..MaxConn] /\ \A k \in IpLo : ipv4_map[k] = 0
    BY ConstantsTyped DEF Init
  <1>5. RoutesOK(Connected(pool), info, ipv4_map)
    BY <1>3, <1>4 DEF RoutesOK, ResetInfo
  <1>6. flags \in Flags /\ online \subseteq Thread /\ zr \in Slot \cup {NULL, MaxConn}
    BY DEF Init, Flags
  <1>7. QED
    BY <1>1, <1>2, <1>5, <1>6 DEF ServerParts, PoolOK

(* A new client: the pool gets a session, or none, or one that is deleted  *)
(* again at once.                                                          *)
LEMMA NewClientParts ==
    ASSUME ServerParts, NEW c \in Client,
           IgnoreNewClient(c) \/ NewClientNoMem(c) \/ NewClient(c) \/ NewClientDropped(c)
    PROVE  ServerParts'
  <1>0. /\ PoolOK(pool) /\ RoutesOK(Connected(pool), info, ipv4_map)
        /\ flags \in Flags /\ online \subseteq Thread
        /\ zr \in Slot \cup {NULL, MaxConn}
        /\ info \in [Slot -> InfoType]
    BY DEF ServerParts, RoutesOK
  <1> DEFINE i == bt_stack_top(pool.stk)
             q == create_udp_sess(pool, c)
  <1>1. CASE IgnoreNewClient(c)
    BY <1>0, <1>1 DEF IgnoreNewClient, ServerParts
  <1>2. CASE NewClientNoMem(c)
    <2>1. PoolInv(pool') /\ Connected(pool') = Connected(pool) /\ pool'.n_on_sess = pool.n_on_sess
      BY <1>0, <1>2, CreateNoMemInv DEF NewClientNoMem, PoolOK
    <2>2. PoolOK(pool')
      BY <2>1, <1>0 DEF PoolOK
    <2>3. QED
      BY <1>0, <1>2, <2>1, <2>2 DEF NewClientNoMem, ServerParts, Leaves
  <1>3. CASE NewClient(c)
    <2>1. /\ PoolOK(q)
          /\ i \in Slot \ Connected(pool)
          /\ Connected(q) = Connected(pool) \cup {i}
      BY <1>0, <1>3, CreateCounts DEF NewClient, IsNew
    <2>2. pool' = q /\ info' = [info EXCEPT ![i].idle = 0] /\ ipv4_map' = ipv4_map
      BY <1>3 DEF NewClient
    <2> HIDE DEF i, q
    <2>3. info' \in [Slot -> InfoType]
      <3>1. 0 \in 0..MaxIdle
        BY ServerAssumption
      <3>2. [info[i] EXCEPT !.idle = 0] \in InfoType
        BY <1>0, <2>1, <3>1 DEF InfoType
      <3>3. QED
        BY <1>0, <2>1, <2>2, <3>2
    <2>4. \A j \in Slot : /\ info'[j].is_authenticated = info[j].is_authenticated
                          /\ info'[j].ipv4_iff = info[j].ipv4_iff
                          /\ info'[j].loop_c = info[j].loop_c
      BY <1>0, <2>1, <2>2 DEF InfoType
    <2>5. RoutesOK(Connected(pool), info', ipv4_map)
      BY <1>0, <2>3, <2>4, RoutesSame, ConnectedSlots
    <2>6. RoutesOK(Connected(pool'), info', ipv4_map')
      BY <2>1, <2>2, <2>5, RoutesCreate
    <2>7. flags' \in Flags
      BY <1>0, <1>3, SendTyped DEF NewClient
    <2>8. QED
      BY <1>0, <1>3, <2>1, <2>2, <2>6, <2>7 DEF NewClient, ServerParts
  <1>4. CASE NewClientDropped(c)
    <2>1. /\ PoolOK(q)
          /\ i \in Slot \ Connected(pool)
          /\ Connected(q) = Connected(pool) \cup {i}
      BY <1>0, <1>4, CreateCounts DEF NewClientDropped, IsNew
    <2>2. /\ pool' = delete_udp_session(q, i)
          /\ info' = [info EXCEPT ![i] = ResetInfo]
          /\ ipv4_map' = Unrouted(i) /\ zr' = zr
      BY <1>4 DEF NewClientDropped
    <2> HIDE DEF i, q
    <2>9. ipv4_map' = ipv4_map
      BY <1>0, <2>1, <2>2 DEF RoutesOK, Unrouted
    <2>3. PoolOK(pool') /\ Connected(pool') = Connected(pool)
      <3>1. i \in Connected(q)
        BY <2>1
      <3>2. PoolOK(pool') /\ Connected(pool') = Connected(q) \ {i}
        BY <2>1, <2>2, <3>1, DeleteUncounts
      <3>3. Connected(q) \ {i} = Connected(pool)
        BY <2>1
      <3>4. QED
        BY <3>2, <3>3
    <2>4. /\ ResetInfo \in InfoType /\ ~ResetInfo.is_authenticated
          /\ ResetInfo.ipv4_iff = NoIp /\ ResetInfo.loop_c <= 1
      <3>1. 0 \in 0..(SyncEvery - 1) /\ MaxIdle \in 0..MaxIdle
        BY ServerAssumption
      <3>2. QED
        BY <3>1 DEF ResetInfo, InfoType
    <2>5. ResetInfo.is_authenticated = info[i].is_authenticated
          /\ ResetInfo.ipv4_iff = info[i].ipv4_iff
      <3>1. ~info[i].is_authenticated /\ info[i].ipv4_iff = NoIp
        BY <1>0, <2>1 DEF RoutesOK
      <3>2. info[i].is_authenticated \in BOOLEAN /\ ResetInfo.is_authenticated \in BOOLEAN
        BY <1>0, <2>1, <2>4 DEF InfoType
      <3>3. QED
        BY <2>4, <3>1, <3>2
    <2>6. RoutesOK(Connected(pool'), info', ipv4_map')
      BY <1>0, <2>1, <2>2, <2>3, <2>4, <2>5, <2>9, RoutesCount, ConnectedSlots
    <2>7. flags' \in Flags /\ online' \subseteq Thread
      BY <1>0, <1>4, SendTyped DEF NewClientDropped, Leaves
    <2>8. QED
      BY <1>0, <2>2, <2>3, <2>6, <2>7 DEF ServerParts
  <1>5. QED
    BY <1>1, <1>2, <1>3, <1>4

(* The handlers that close the session of the packet.                      *)
RecvCloses(i) == RecvAuthUnsent(i) \/ RecvAuthReject(i) \/ RecvClose(i)

(* Those that keep it as it is, but for the packet count.                  *)
RecvKeeps(i) == RecvIgnored(i) \/ RecvTunData(i) \/ RecvReqsync(i) \/ RecvSync(i)

(* Each of the first is a close_udp_session() of a session.                *)
LEMMA RecvClosing ==
    ASSUME ServerParts, NEW i \in Slot, RecvCloses(i)
    PROVE  /\ i \in Connected(pool)
           /\ \E f \in Flags, r \in Result, l \in {0, 1} : close_udp_session(i, f, r, l)
           /\ online' \subseteq online /\ zr' = zr
           /\ \A m \in sent' : m.type # "TUN_DATA"
  <1>1. From(i) /\ flags \in Flags
    BY DEF RecvCloses, RecvAuthUnsent, RecvAuthReject, RecvClose, ServerParts
  <1>2. i \in Connected(pool) /\ zr' = zr
    BY <1>1, FromConnected DEF From
  <1>3. \A r : send_to_client(flags, r) \in Flags
    BY <1>1, SendTyped
  <1>4. CASE RecvAuthUnsent(i)
    BY <1>2, <1>3, <1>4 DEF RecvAuthUnsent, Leaves, Delivered, Pkt, Failure
  <1>5. CASE RecvAuthReject(i)
    <2>1. PICK r, s \in Result :
            /\ close_udp_session(i, send_to_client(flags, r), s, IF r = "ok" THEN 1 ELSE 0)
            /\ sent' = Delivered("AUTH_REJECT", Peer(i), r) \cup Delivered("CLOSE", Peer(i), s)
            /\ IF r = "ok" THEN UNCHANGED online ELSE Leaves(Main)
      BY <1>5 DEF RecvAuthReject
    <2>2. (IF r = "ok" THEN 1 ELSE 0) \in {0, 1}
      OBVIOUS
    <2>3. QED
      BY <1>2, <1>3, <2>1, <2>2 DEF Leaves, Delivered, Pkt
  <1>6. CASE RecvClose(i)
    BY <1>1, <1>2, <1>6 DEF RecvClose, Delivered, Pkt
  <1>7. QED
    BY <1>2, <1>4, <1>5, <1>6 DEF RecvCloses

(* Each of the second writes the idle time and the packet count of slot i. *)
LEMMA RecvKeeping ==
    ASSUME ServerParts, NEW i \in Slot, RecvKeeps(i)
    PROVE  /\ i \in Connected(pool)
           /\ UNCHANGED <<pool, ipv4_map, zr>>
           /\ \E m \in InfoType : /\ info' = [info EXCEPT ![i] = m]
                                 /\ m.is_authenticated = info[i].is_authenticated
                                 /\ m.ipv4_iff = info[i].ipv4_iff
           /\ flags' \in Flags
           /\ online' \subseteq online
  <1>1. From(i) /\ flags \in Flags /\ info \in [Slot -> InfoType]
    BY DEF RecvKeeps, RecvIgnored, RecvTunData, RecvReqsync, RecvSync, ServerParts, RoutesOK
  <1>2. i \in Connected(pool) /\ zr' = zr
    BY <1>1, FromConnected DEF From
  <1>3. UNCHANGED <<pool, ipv4_map>>
    BY DEF RecvKeeps, RecvIgnored, RecvTunData, RecvReqsync, RecvSync
  <1>4. online' \subseteq online
    BY DEF RecvKeeps, RecvIgnored, RecvTunData, RecvReqsync, RecvSync, Leaves
  <1> DEFINE fresh == [info[i] EXCEPT !.idle = 0]
             Kept == \E m \in InfoType : /\ info' = [info EXCEPT ![i] = m]
                                        /\ m.is_authenticated = info[i].is_authenticated
                                        /\ m.ipv4_iff = info[i].ipv4_iff
  <1>5. /\ fresh \in InfoType
        /\ fresh.is_authenticated = info[i].is_authenticated
        /\ fresh.ipv4_iff = info[i].ipv4_iff
    <2>1. 0 \in 0..MaxIdle /\ info[i] \in InfoType
      BY <1>1, ServerAssumption
    <2>2. QED
      BY <2>1 DEF InfoType
  <1>6. info[i] \in InfoType /\ info = [info EXCEPT ![i] = info[i]]
    BY <1>1
  <1>7. \A r : send_to_client(flags, r) \in Flags
    BY <1>1, SendTyped
  <1>8. \A e \in BOOLEAN : [flags EXCEPT !.in_emergency = e] \in Flags
    BY <1>1 DEF Flags
  <1>9. flags.in_emergency \in BOOLEAN
    BY <1>1 DEF Flags
  <1> HIDE DEF fresh
  <1>10. CASE RecvIgnored(i)
    <2>1. Kept /\ flags' \in Flags
      BY <1>1, <1>6, <1>10, CountStep DEF RecvIgnored
    <2>2. QED
      BY <1>2, <1>3, <1>4, <2>1
  <1>11. CASE RecvTunData(i)
    <2>1. CASE \E e \in {flags.in_emergency, TRUE} :
                  CountPacket(i, info[i], [flags EXCEPT !.in_emergency = e], {})
      <3>1. PICK e \in {flags.in_emergency, TRUE} :
                  CountPacket(i, info[i], [flags EXCEPT !.in_emergency = e], {})
        BY <2>1
      <3>2. [flags EXCEPT !.in_emergency = e] \in Flags
        BY <1>8, <1>9
      <3>3. Kept /\ flags' \in Flags
        BY <1>6, <3>1, <3>2, CountStep
      <3>4. QED
        BY <1>2, <1>3, <1>4, <3>3
    <2>2. CASE (\E r \in Failure : flags' = send_to_client(flags, r)) /\ UNCHANGED info
      <3>1. Kept /\ flags' \in Flags
        BY <1>6, <1>7, <2>2
      <3>2. QED
        BY <1>2, <1>3, <1>4, <3>1
    <2>3. QED
      BY <1>11, <2>1, <2>2 DEF RecvTunData
  <1>12. CASE RecvReqsync(i)
    <2>1. CASE CountPacket(i, fresh, send_to_client(flags, "ok"), {Pkt("SYNC", Peer(i))})
      <3>1. Kept /\ flags' \in Flags
        BY <1>5, <1>7, <2>1, CountStep
      <3>2. QED
        BY <1>2, <1>3, <1>4, <3>1
    <2>2. CASE (\E r \in Failure : flags' = send_to_client(flags, r))
               /\ info' = [info EXCEPT ![i] = fresh]
      <3>1. Kept /\ flags' \in Flags
        BY <1>5, <1>7, <2>2
      <3>2. QED
        BY <1>2, <1>3, <1>4, <3>1
    <2>3. QED
      BY <1>12, <2>1, <2>2 DEF RecvReqsync, fresh
  <1>13. CASE RecvSync(i)
    <2>1. CountPacket(i, fresh, flags, {})
      BY <1>13 DEF RecvSync, fresh
    <2>2. Kept /\ flags' \in Flags
      BY <1>1, <1>5, <2>1, CountStep
    <2>3. QED
      BY <1>2, <1>3, <1>4, <2>2
  <1>14. QED
    BY <1>10, <1>11, <1>12, <1>13 DEF RecvKeeps

(* A right password: the session becomes authenticated and gets its route. *)
LEMMA AuthOkStep ==
    ASSUME ServerParts, NEW i \in Slot, NEW u \in User, RecvAuthOk(i, u)
    PROVE  /\ ServerParts'
           /\ pool' = pool
           /\ \A j \in Slot : j # i => info'[j] = info[j]
           /\ ~info[i].is_authenticated
  <1>1. /\ From(i) /\ ~info[i].is_authenticated
        /\ flags \in Flags /\ info \in [Slot -> InfoType]
        /\ pool' = pool /\ online' = online /\ zr' = zr
        /\ ipv4_map' = add_ipv4_route_map(ipv4_map, UserIp[u], i)
    BY DEF RecvAuthOk, From, ServerParts, RoutesOK
  <1>2. i \in Connected(pool)
    BY <1>1, FromConnected
  <1> DEFINE n == [info[i] EXCEPT !.is_authenticated = TRUE, !.ipv4_iff = UserIp[u]]
  <1>3. n \in InfoType /\ n.is_authenticated = TRUE /\ n.ipv4_iff = UserIp[u]
    <2>1. UserIp[u] \in Uint16 \X IpLo
      BY ServerAssumption
    <2>2. info[i] \in InfoType
      BY <1>1
    <2>3. QED
      BY <2>1, <2>2 DEF InfoType
  <1>4. CountPacket(i, n, send_to_client(flags, "ok"), {Pkt("AUTH_OK", Peer(i))})
    BY DEF RecvAuthOk
  <1> HIDE DEF n
  <1>5. send_to_client(flags, "ok") \in Flags
    BY <1>1, SendTyped
  <1>6. /\ flags' \in Flags
        /\ \E m \in InfoType : /\ info' = [info EXCEPT ![i] = m]
                              /\ m.is_authenticated = n.is_authenticated
                              /\ m.ipv4_iff = n.ipv4_iff
    BY <1>3, <1>4, <1>5, CountStep
  <1>7. PICK m \in InfoType : /\ info' = [info EXCEPT ![i] = m]
                              /\ m.is_authenticated = TRUE
                              /\ m.ipv4_iff = UserIp[u]
    BY <1>3, <1>6
  <1>8. RoutesOK(Connected(pool), [info EXCEPT ![i] = m],
                 add_ipv4_route_map(ipv4_map, UserIp[u], i))
    BY <1>1, <1>2, <1>7, RoutesAuth, ConnectedSlots DEF ServerParts
  <1>9. RoutesOK(Connected(pool'), info', ipv4_map')
    BY <1>1, <1>7, <1>8
  <1>10. ServerParts'
    BY <1>1, <1>6, <1>9 DEF ServerParts
  <1>11. QED
    BY <1>1, <1>7, <1>10

(* The other steps that close a session: of the reaper and at the end.     *)
LEMMA OtherClosing ==
    ASSUME ServerParts, ZrClose \/ CloseClientSess
    PROVE  /\ \E i \in Connected(pool), f \in Flags, r \in Result, l \in {0, 1} :
                  close_udp_session(i, f, r, l)
           /\ online' = online
           /\ zr' \in Slot \cup {NULL, MaxConn}
           /\ \A m \in sent' : m.type # "TUN_DATA"
  <1>1. flags \in Flags /\ zr \in Slot \cup {NULL, MaxConn}
    BY DEF ServerParts
  <1>2. CASE ZrClose
    <2>1. zr' \in Slot \cup {NULL, MaxConn}
      BY <1>2, ConstantsTyped DEF ZrClose, ZrScanning, Slot
    <2>2. QED
      BY <1>1, <1>2, <2>1 DEF ZrClose, Delivered, Pkt
  <1>3. CASE CloseClientSess
    BY <1>1, <1>3 DEF CloseClientSess, Delivered, Pkt
  <1>4. QED
    BY <1>2, <1>3

(* The steps that leave sessions and routes alone.                         *)
LEMMA QuietStep ==
    ASSUME ServerParts,
           \/ RecvError
           \/ \E t \in TunThread : \/ \E k \in IpLo \cup {NULL} : RoutePacket(t, k)
                                  \/ ReadError(t)
           \/ ZrWake \/ ZrSkip \/ ZrReqsync \/ ZrScanDone
           \/ signal_intr_handler
           \/ \E t \in Thread : LoopEnds(t)
    PROVE  /\ UNCHANGED <<pool, info, ipv4_map>>
           /\ flags' \in Flags
           /\ online' \subseteq online
           /\ zr' \in Slot \cup {NULL, MaxConn}
  <1>1. /\ flags \in Flags /\ zr \in Slot \cup {NULL, MaxConn}
        /\ \A f \in Flags : \A r : send_to_client(f, r) \in Flags
    BY SendTyped DEF ServerParts
  <1>2. 0 \in Slot /\ \A i \in Slot : i + 1 \in Slot \cup {MaxConn}
    BY ConstantsTyped DEF Slot
  <1>3. CASE RecvError
    BY <1>1, <1>3 DEF RecvError, Leaves
  <1>4. ASSUME NEW t \in TunThread, NEW k \in IpLo \cup {NULL}, RoutePacket(t, k)
        PROVE  /\ UNCHANGED <<pool, info, ipv4_map, zr>>
               /\ flags' \in Flags
               /\ online' \subseteq online
    <2>1. UNCHANGED <<pool, info, ipv4_map, zr>>
      BY <1>4 DEF RoutePacket
    <2>2. online' \subseteq online
      BY <1>4 DEF RoutePacket, Leaves
    <2>3. flags' \in Flags
      BY <1>1, <1>4 DEF RoutePacket
    <2>4. QED
      BY <2>1, <2>2, <2>3
  <1>5. ASSUME NEW t \in TunThread, ReadError(t)
        PROVE  UNCHANGED <<pool, info, ipv4_map, flags, zr>> /\ online' \subseteq online
    BY <1>5 DEF ReadError, Leaves
  <1>6. CASE ZrWake
    BY <1>1, <1>2, <1>6 DEF ZrWake, ZrLoop
  <1>7. CASE ZrSkip
    BY <1>1, <1>2, <1>7 DEF ZrSkip, ZrScanning
  <1>8. CASE ZrReqsync
    BY <1>1, <1>2, <1>8 DEF ZrReqsync, ZrScanning
  <1>9. CASE ZrScanDone
    BY <1>1, <1>9 DEF ZrScanDone, ZrLoop
  <1>10. CASE signal_intr_handler
    BY <1>1, <1>10 DEF signal_intr_handler, Flags
  <1>11. ASSUME NEW t \in Thread, LoopEnds(t)
         PROVE  UNCHANGED <<pool, info, ipv4_map, flags, zr>> /\ online' \subseteq online
    BY <1>11 DEF LoopEnds, Leaves
  <1>12. QED
    BY <1>1, <1>3, <1>4, <1>5, <1>6, <1>7, <1>8, <1>9, <1>10, <1>11

(* The clock.                                                              *)
LEMMA TickStep ==
    ASSUME ServerParts, Tick
    PROVE  /\ UNCHANGED <<pool, ipv4_map, flags, online, zr>>
           /\ info' \in [Slot -> InfoType]
           /\ \A i \in Slot : /\ info'[i].is_authenticated = info[i].is_authenticated
                              /\ info'[i].ipv4_iff = info[i].ipv4_iff
                              /\ info'[i].loop_c = info[i].loop_c
  <1>1. info \in [Slot -> InfoType] /\ MaxIdle \in Nat
    BY ServerAssumption DEF ServerParts, RoutesOK
  <1> DEFINE later(i) == IF i \in Connected(pool) /\ info[i].idle < MaxIdle
                         THEN [info[i] EXCEPT !.idle = @ + 1] ELSE info[i]
  <1>2. ASSUME NEW i \in Slot
        PROVE  /\ later(i) \in InfoType
               /\ later(i).is_authenticated = info[i].is_authenticated
               /\ later(i).ipv4_iff = info[i].ipv4_iff
               /\ later(i).loop_c = info[i].loop_c
    <2>1. info[i] \in InfoType
      BY <1>1
    <2>2. info[i].idle < MaxIdle => info[i].idle + 1 \in 0..MaxIdle
      BY <1>1, <2>1 DEF InfoType
    <2>3. QED
      BY <2>1, <2>2 DEF InfoType
  <1>3. info' = [i \in Slot |-> later(i)] /\ UNCHANGED <<pool, ipv4_map, flags, online, zr>>
    BY DEF Tick
  <1> HIDE DEF later
  <1>4. QED
    BY <1>2, <1>3

(* Every step keeps the invariant.                                         *)
LEMMA NextParts == ServerParts /\ [Next]_vars => ServerParts'
  <1> SUFFICES ASSUME ServerParts, [Next]_vars PROVE ServerParts'
    OBVIOUS
  <1>1. ASSUME NEW c \in Client,
               \/ IgnoreNewClient(c) \/ NewClientNoMem(c)
               \/ NewClient(c) \/ NewClientDropped(c)
        PROVE  ServerParts'
    BY <1>1, NewClientParts
  <1>2. ASSUME NEW i \in Slot, RecvKeeps(i) PROVE ServerParts'
    <2>1. PoolOK(pool)' /\ RoutesOK(Connected(pool), info, ipv4_map)'
      BY <1>2, RecvKeeping, CountKeeps
    <2>2. QED
      BY <1>2, <2>1, RecvKeeping DEF ServerParts
  <1>3. ASSUME NEW i \in Slot, RecvCloses(i) PROVE ServerParts'
    BY <1>3, RecvClosing, CloseStep DEF ServerParts
  <1>4. ASSUME NEW i \in Slot, NEW u \in User, RecvAuthOk(i, u) PROVE ServerParts'
    BY <1>4, AuthOkStep
  <1>5. CASE ZrClose \/ CloseClientSess
    BY <1>5, OtherClosing, CloseStep DEF ServerParts
  <1>6. CASE Tick
    <2>1. RoutesOK(Connected(pool), info', ipv4_map)
      BY <1>6, TickStep, RoutesSame, ConnectedSlots DEF ServerParts
    <2>2. QED
      BY <1>6, <2>1, TickStep DEF ServerParts
  <1>7. CASE \/ RecvError
             \/ \E t \in TunThread : \/ \E k \in IpLo \cup {NULL} : RoutePacket(t, k)
                                    \/ ReadError(t)
             \/ ZrWake \/ ZrSkip \/ ZrReqsync \/ ZrScanDone
             \/ signal_intr_handler
             \/ \E t \in Thread : LoopEnds(t)
    BY <1>7, QuietStep DEF ServerParts
  <1>8. CASE UNCHANGED vars
    BY <1>8 DEF vars, ServerParts
  <1>9. QED
    BY <1>1, <1>2, <1>3, <1>4, <1>5, <1>6, <1>7, <1>8 DEF Next, RecvKeeps, RecvCloses

(* Whatever clients send and whichever sends fail, the pool, the counter,  *)
(* the fields of the slots and the route map of the server agree.          *)
THEOREM ServerInvariant == Spec => []ServerInv
  <1>1. Init => ServerParts
    BY InitParts
  <1>2. ServerParts /\ [Next]_vars => ServerParts'
    BY NextParts
  <1>3. ServerParts => ServerInv
    BY InvParts
  <1>4. QED
    BY <1>1, <1>2, <1>3, PTL DEF Spec

(* A packet for the address of an authenticated session is sent to a       *)
(* session with just that address, by its route or by the broadcast of     *)
(* _route_packet(), while no other address in use shares its low 16 bits.  *)
THEOREM PacketsReachAddress == Spec => []TunPacketReachesAddress
  <1>1. ServerParts => TunPacketReachesAddress
    <2> SUFFICES ASSUME ServerParts, NEW i \in Authenticated,
                        \A j \in Authenticated :
                            info[j].ipv4_iff[2] = info[i].ipv4_iff[2] =>
                                info[j].ipv4_iff = info[i].ipv4_iff
                 PROVE  \E j \in Recipients(info[i].ipv4_iff[2]) :
                            /\ info[j].is_authenticated
                            /\ info[j].ipv4_iff = info[i].ipv4_iff
      BY DEF TunPacketReachesAddress, Reaches
    <2>1. i \in Slot /\ info[i].is_authenticated /\ info[i] \in InfoType
      BY DEF Authenticated, ServerParts, RoutesOK
    <2>2. info[i].ipv4_iff \in Uint16 \X IpLo
      BY <2>1 DEF InfoType, ServerParts, RoutesOK
    <2> DEFINE k == info[i].ipv4_iff[2]
    <2>3. k \in IpLo
      BY <2>2
    <2> HIDE DEF k
    <2>4. CASE k # NULL /\ ipv4_map[k] # 0
      <3>1. ipv4_map[k] - 1 \in Recipients(k)
        BY <2>4 DEF Recipients
      <3>2. /\ ipv4_map[k] - 1 \in Connected(pool)
            /\ info[ipv4_map[k] - 1].is_authenticated
            /\ info[ipv4_map[k] - 1].ipv4_iff[2] = k
        BY <2>3, <2>4 DEF ServerParts, RoutesOK
      <3>3. ipv4_map[k] - 1 \in Authenticated
        BY <3>2, ConnectedSlots DEF Authenticated, ServerParts
      <3>4. QED
        BY <3>1, <3>2, <3>3 DEF k
    <2>5. CASE ~(k # NULL /\ ipv4_map[k] # 0)
      <3>1. i \in Recipients(k)
        BY <2>5 DEF Recipients
      <3>2. QED
        BY <2>1, <3>1 DEF k
    <2>6. QED
      BY <2>4, <2>5
  <1>2. ServerInv => ServerParts
    BY InvParts
  <1>3. QED
    BY <1>1, <1>2, ServerInvariant, PTL

(* A step of the server lets sessions live as SessionStep says.            *)
LEMMA SessionSteps == ServerParts /\ [Next]_vars => [SessionStep]_vars
  <1> SUFFICES ASSUME ServerParts, Next PROVE SessionStep
    OBVIOUS
  <1>0. PoolOK(pool) /\ info \in [Slot -> InfoType] /\ PoolInv(pool)
    BY DEF ServerParts, RoutesOK, PoolOK
  <1>1. ASSUME UNCHANGED pool,
               \A i \in Slot : /\ info'[i].is_authenticated = info[i].is_authenticated
                              /\ info'[i].ipv4_iff = info[i].ipv4_iff
        PROVE  SessionStep
    BY <1>1 DEF SessionStep, Peer
  <1>2. ASSUME NEW i \in Connected(pool), NEW f \in Flags, NEW r \in Result,
               NEW l \in {0, 1}, close_udp_session(i, f, r, l)
        PROVE  SessionStep
    <2>1. /\ Connected(pool)' = Connected(pool) \ {i}
          /\ \A j \in Slot : j # i => pool'.sess[j] = pool.sess[j] /\ info'[j] = info[j]
      BY <1>2, CloseStep
    <2>2. QED
      BY <2>1 DEF SessionStep, Peer
  <1>3. ASSUME NEW c \in Client, IgnoreNewClient(c) PROVE SessionStep
    BY <1>1, <1>3 DEF IgnoreNewClient
  <1>4. ASSUME NEW c \in Client, NewClientNoMem(c) PROVE SessionStep
    <2>1. /\ Connected(pool)' = Connected(pool) /\ info' = info
          /\ \A j \in Connected(pool) : pool'.sess[j] = pool.sess[j]
      BY <1>0, <1>4, CreateNoMemInv DEF NewClientNoMem
    <2>2. QED
      BY <2>1 DEF SessionStep, Peer
  <1>5. ASSUME NEW c \in Client, NewClient(c) PROVE SessionStep
    <2> DEFINE i == bt_stack_top(pool.stk)
    <2>1. /\ i \in Slot \ Connected(pool)
          /\ Connected(pool)' = Connected(pool) \cup {i}
          /\ \A j \in Slot : j # i => pool'.sess[j] = pool.sess[j]
      BY <1>0, <1>5, CreateCounts DEF NewClient, IsNew
    <2>2. info' = [info EXCEPT ![i].idle = 0]
      BY <1>5 DEF NewClient
    <2> HIDE DEF i
    <2>3. \A j \in Slot : /\ info'[j].is_authenticated = info[j].is_authenticated
                          /\ info'[j].ipv4_iff = info[j].ipv4_iff
      BY <1>0, <2>1, <2>2 DEF InfoType
    <2>4. ~info[i].is_authenticated
      BY <2>1 DEF ServerParts, RoutesOK
    <2>5. QED
      BY <2>1, <2>3, <2>4 DEF SessionStep, Peer
  <1>6. ASSUME NEW c \in Client, NewClientDropped(c) PROVE SessionStep
    <2> DEFINE i == bt_stack_top(pool.stk)
               q == create_udp_sess(pool, c)
    <2>1. /\ PoolOK(q)
          /\ i \in Slot \ Connected(pool)
          /\ Connected(q) = Connected(pool) \cup {i}
          /\ \A j \in Slot : j # i => q.sess[j] = pool.sess[j]
      BY <1>0, <1>6, CreateCounts DEF NewClientDropped, IsNew
    <2>2. pool' = delete_udp_session(q, i) /\ info' = [info EXCEPT ![i] = ResetInfo]
      BY <1>6 DEF NewClientDropped
    <2> HIDE DEF i, q
    <2>3. i \in Connected(q)
      BY <2>1
    <2>4. /\ Connected(pool)' = Connected(q) \ {i}
          /\ \A j \in Slot : j # i => pool'.sess[j] = q.sess[j]
      BY <2>1, <2>2, <2>3, DeleteUncounts
    <2>5. \A j \in Slot : j # i => info'[j] = info[j]
      BY <1>0, <2>2
    <2>6. QED
      BY <2>1, <2>4, <2>5 DEF SessionStep, Peer
  <1>7. ASSUME NEW i \in Slot, RecvKeeps(i) PROVE SessionStep
    <2>1. PICK m \in InfoType : /\ info' = [info EXCEPT ![i] = m]
                                /\ m.is_authenticated = info[i].is_authenticated
                                /\ m.ipv4_iff = info[i].ipv4_iff
      BY <1>7, RecvKeeping
    <2>2. UNCHANGED pool
      BY <1>7, RecvKeeping
    <2>3. QED
      BY <1>0, <1>1, <2>1, <2>2
  <1>8. ASSUME NEW i \in Slot, RecvCloses(i) PROVE SessionStep
    BY <1>2, <1>8, RecvClosing
  <1>9. ASSUME NEW i \in Slot, NEW u \in User, RecvAuthOk(i, u) PROVE SessionStep
    <2>1. /\ pool' = pool
          /\ \A j \in Slot : j # i => info'[j] = info[j]
          /\ ~info[i].is_authenticated
      BY <1>9, AuthOkStep
    <2>2. QED
      BY <2>1 DEF SessionStep, Peer
  <1>10. CASE ZrClose \/ CloseClientSess
    BY <1>2, <1>10, OtherClosing
  <1>11. CASE Tick
    BY <1>1, <1>11, TickStep
  <1>12. CASE \/ RecvError
              \/ \E t \in TunThread : \/ \E k \in IpLo \cup {NULL} : RoutePacket(t, k)
                                     \/ ReadError(t)
              \/ ZrWake \/ ZrSkip \/ ZrReqsync \/ ZrScanDone
              \/ signal_intr_handler
              \/ \E t \in Thread : LoopEnds(t)
    BY <1>1, <1>12, QuietStep
  <1>13. QED
    BY <1>3, <1>4, <1>5, <1>6, <1>7, <1>8, <1>9, <1>10, <1>11, <1>12
       DEF Next, RecvKeeps, RecvCloses

(* A slot changes its client only by way of being free, a session starts   *)
(* unauthenticated, and an authenticated one keeps its address.            *)
THEOREM SessionsLiveLegally == Spec => SessionLifecycle
  <1>1. ServerInv => ServerParts
    BY InvParts
  <1>2. ServerParts /\ [Next]_vars => [SessionStep]_vars
    BY SessionSteps
  <1>3. QED
    BY <1>1, <1>2, ServerInvariant, PTL DEF Spec, SessionLifecycle

(* What RoutePacket() sends goes to authenticated sessions.                *)
LEMMA RouteStep ==
    ASSUME ServerParts, NEW t, NEW k \in IpLo \cup {NULL}, RoutePacket(t, k),
           NEW m \in sent'
    PROVE  \E i \in Authenticated \cap Connected(pool) : m.to = Peer(i)
  <1>1. Authenticated \subseteq Connected(pool)
    BY DEF Authenticated, ServerParts, RoutesOK
  <1>2. Recipients(k) \subseteq Authenticated
    <2>1. CASE k # NULL /\ ipv4_map[k] # 0
      <3>1. k \in IpLo
        BY <2>1
      <3>2. ipv4_map[k] - 1 \in Connected(pool) /\ info[ipv4_map[k] - 1].is_authenticated
        BY <2>1, <3>1 DEF ServerParts, RoutesOK
      <3>3. ipv4_map[k] - 1 \in Authenticated
        BY <3>2, ConnectedSlots DEF Authenticated
      <3>4. QED
        BY <2>1, <3>3 DEF Recipients
    <2>2. CASE ~(k # NULL /\ ipv4_map[k] # 0)
      BY <2>2 DEF Recipients
    <2>3. QED
      BY <2>1, <2>2
  <1>3. PICK reached \in SUBSET Recipients(k) :
              sent' = {Pkt("TUN_DATA", Peer(i)) : i \in reached}
    BY DEF RoutePacket
  <1>4. PICK i \in reached : m = Pkt("TUN_DATA", Peer(i))
    BY <1>3
  <1>5. m.to = Peer(i)
    BY <1>4 DEF Pkt
  <1>6. QED
    BY <1>1, <1>2, <1>3, <1>4, <1>5

(* No other step sends a packet of the interface.                          *)
LEMMA OtherSends ==
    ASSUME ServerParts, Next,
           \A t \in TunThread : \A k \in IpLo \cup {NULL} : ~RoutePacket(t, k),
           NEW m \in sent'
    PROVE  m.type # "TUN_DATA"
  <1>0. \A type, c, r : \A d \in Delivered(type, c, r) : d.type = type
    BY DEF Delivered, Pkt
  <1>1. ASSUME NEW i, NEW n, NEW f, NEW out, CountPacket(i, n, f, out),
               \A d \in out : d.type # "TUN_DATA"
        PROVE  m.type # "TUN_DATA"
    <2>1. CASE sent' = out
      BY <1>1, <2>1
    <2>2. CASE \E r \in Result : sent' = out \cup Delivered("SYNC", Peer(i), r)
      BY <1>0, <1>1, <2>2
    <2>3. QED
      BY <1>1, <2>1, <2>2 DEF CountPacket
  <1>2. ASSUME NEW c \in Client,
               \/ IgnoreNewClient(c) \/ NewClientNoMem(c)
               \/ NewClient(c) \/ NewClientDropped(c)
        PROVE  m.type # "TUN_DATA"
    BY <1>0, <1>2 DEF IgnoreNewClient, NewClientNoMem, NewClient, NewClientDropped, Pkt
  <1>3. ASSUME NEW i \in Slot, RecvIgnored(i) \/ RecvSync(i)
        PROVE  m.type # "TUN_DATA"
    BY <1>1, <1>3 DEF RecvIgnored, RecvSync
  <1>4. ASSUME NEW i \in Slot, RecvTunData(i)
        PROVE  m.type # "TUN_DATA"
    BY <1>1, <1>4 DEF RecvTunData
  <1>5. ASSUME NEW i \in Slot, RecvReqsync(i)
        PROVE  m.type # "TUN_DATA"
    <2>1. \A d \in {Pkt("SYNC", Peer(i))} : d.type # "TUN_DATA"
      BY DEF Pkt
    <2>2. QED
      BY <1>1, <1>5, <2>1 DEF RecvReqsync
  <1>6. ASSUME NEW i \in Slot, NEW u \in User, RecvAuthOk(i, u)
        PROVE  m.type # "TUN_DATA"
    <2>1. \A d \in {Pkt("AUTH_OK", Peer(i))} : d.type # "TUN_DATA"
      BY DEF Pkt
    <2>2. QED
      BY <1>1, <1>6, <2>1 DEF RecvAuthOk
  <1>7. ASSUME NEW i \in Slot, RecvCloses(i) PROVE m.type # "TUN_DATA"
    BY <1>7, RecvClosing
  <1>8. CASE ZrClose \/ CloseClientSess
    BY <1>8, OtherClosing
  <1>9. CASE ZrReqsync
    BY <1>0, <1>9 DEF ZrReqsync
  <1>10. CASE \/ RecvError \/ ZrWake \/ ZrSkip \/ ZrScanDone \/ Tick
              \/ signal_intr_handler
              \/ \E t \in TunThread : ReadError(t)
              \/ \E t \in Thread : LoopEnds(t)
    BY <1>10 DEF RecvError, ZrWake, ZrSkip, ZrScanDone, Tick, signal_intr_handler,
                 ReadError, LoopEnds
  <1>11. QED
    BY <1>2, <1>3, <1>4, <1>5, <1>6, <1>7, <1>8, <1>9, <1>10 DEF Next, RecvCloses

(* Packets of the interface go to clients that are authenticated when they *)
(* are sent, and to nobody else.                                           *)
THEOREM OnlyAuthenticatedGetPackets == Spec => TunDataOnlyToAuthenticated
  <1> DEFINE A == \A m \in sent' : m.type = "TUN_DATA" =>
                    \E i \in Authenticated \cap Connected(pool) : m.to = Peer(i)
  <1>1. ServerInv => ServerParts
    BY InvParts
  <1>2. ServerParts /\ [Next]_vars => [A]_vars
    <2> SUFFICES ASSUME ServerParts, Next, NEW m \in sent', m.type = "TUN_DATA"
                 PROVE  \E i \in Authenticated \cap Connected(pool) : m.to = Peer(i)
      OBVIOUS
    <2>1. PICK t \in TunThread, k \in IpLo \cup {NULL} : RoutePacket(t, k)
      BY OtherSends
    <2>2. QED
      BY <2>1, RouteStep
  <1> HIDE DEF A
  <1>3. Spec => [][A]_vars
    BY <1>1, <1>2, ServerInvariant, PTL DEF Spec
  <1>4. QED
    BY <1>3 DEF A, TunDataOnlyToAuthenticated

-----------------------------------------------------------------------------
(* Vpn: the server, one client and the network between them.               *)

(* The queues of datagrams.                                                *)

Wire == {"HANDSHAKE", "HANDSHAKE_REJECT", "AUTH", "AUTH_OK", "AUTH_REJECT",
         "TUN_DATA", "REQSYNC", "SYNC", "CLOSE"}

Has(q, t) == \E k \in 1..Len(q) : q[k] = t
Later(q, k, t) == \E j \in 1..Len(q) : j > k /\ q[j] = t

(* Behind every AUTH_OK there is a CLOSE.                                  *)
OkRevoked(q) == \A k \in 1..Len(q) : q[k] = "AUTH_OK" => Later(q, k, "CLOSE")

(* Behind an AUTH there is no HANDSHAKE.                                   *)
AuthFollows(q) == \A k \in 1..Len(q) : q[k] = "AUTH" => ~Later(q, k, "HANDSHAKE")

(* There is a CLOSE with no HANDSHAKE behind it.                           *)
CloseFollows(q) == \E k \in 1..Len(q) : q[k] = "CLOSE" /\ ~Later(q, k, "HANDSHAKE")

(* e is q with packets of the given types behind it.                       *)
Grown(q, e, types) == /\ q \in Seq(Wire) /\ e \in Seq(Wire) /\ Len(q) <= Len(e)
                      /\ \A k \in 1..Len(q) : e[k] = q[k]
                      /\ \A k \in 1..Len(e) : k > Len(q) => e[k] \in types

(* One more packet, if it is of one of the types.                          *)
LEMMA GrowOne ==
    ASSUME NEW q, NEW e, NEW types, Grown(q, e, types), NEW t \in Wire,
           NEW p, p = <<>> \/ (p = <<t>> /\ t \in types)
    PROVE  Grown(q, e \o p, types)
<1>1. CASE p = <<>>
    BY <1>1 DEF Grown
<1>2. CASE p = <<t>> /\ t \in types
    <2> DEFINE f == e \o <<t>>
    <2>1. /\ f \in Seq(Wire) /\ Len(f) = Len(e) + 1
          /\ \A k \in 1..Len(e) : f[k] = e[k]
          /\ f[Len(f)] = t
        BY DEF Grown
    <2> HIDE DEF f
    <2>2. Grown(q, f, types)
        BY <1>2, <2>1 DEF Grown
    <2> QED
        BY <1>2, <2>2 DEF f
<1> QED
    BY <1>1, <1>2

(* What the packets of a step add to a queue.  CLOSE comes last.           *)
LEMMA Enqueued ==
    ASSUME NEW q \in Seq(Wire), NEW types
    PROVE  LET e == Enqueue(q, types)
           IN  /\ Grown(q, e, types)
               /\ "CLOSE" \in types => Len(e) > Len(q) /\ e[Len(e)] = "CLOSE"
<1> DEFINE room == ToSet(q) \cap KeepAlive = {}
<1> DEFINE Put(t) == IF t \in types /\ (t \in KeepAlive => room) THEN <<t>> ELSE <<>>
<1> DEFINE a1 == q \o Put("HANDSHAKE")
           a2 == a1 \o Put("HANDSHAKE_REJECT")
           a3 == a2 \o Put("AUTH")
           a4 == a3 \o Put("AUTH_OK")
           a5 == a4 \o Put("AUTH_REJECT")
           a6 == a5 \o Put("TUN_DATA")
           a7 == a6 \o Put("REQSYNC")
           a8 == a7 \o Put("SYNC")
           a9 == a8 \o Put("CLOSE")
<1>1. Enqueue(q, types) = a9
    BY Zenon DEF Enqueue
<1>2. \A t : Put(t) = <<>> \/ (Put(t) = <<t>> /\ t \in types)
    OBVIOUS
<1>3. "CLOSE" \in types => Put("CLOSE") = <<"CLOSE">>
    BY DEF KeepAlive
<1>4. Grown(q, q, types)
    BY DEF Grown
<1> HIDE DEF Put
<1>5. Grown(q, a1, types)
    BY <1>2, <1>4, GrowOne DEF Wire
<1>6. Grown(q, a2, types)
    <2> HIDE DEF a1
    <2> QED  BY <1>2, <1>5, GrowOne DEF Wire
<1>7. Grown(q, a3, types)
    <2> HIDE DEF a2
    <2> QED  BY <1>2, <1>6, GrowOne DEF Wire
<1>8. Grown(q, a4, types)
    <2> HIDE DEF a3
    <2> QED  BY <1>2, <1>7, GrowOne DEF Wire
<1>9. Grown(q, a5, types)
    <2> HIDE DEF a4
    <2> QED  BY <1>2, <1>8, GrowOne DEF Wire
<1>10. Grown(q, a6, types)
    <2> HIDE DEF a5
    <2> QED  BY <1>2, <1>9, GrowOne DEF Wire
<1>11. Grown(q, a7, types)
    <2> HIDE DEF a6
    <2> QED  BY <1>2, <1>10, GrowOne DEF Wire
<1>12. Grown(q, a8, types)
    <2> HIDE DEF a7
    <2> QED  BY <1>2, <1>11, GrowOne DEF Wire
<1> HIDE DEF a8
<1>13. Grown(q, a9, types)
    BY <1>2, <1>12, GrowOne DEF Wire
<1>14. "CLOSE" \in types => Len(a9) > Len(q) /\ a9[Len(a9)] = "CLOSE"
    <2>1. a8 \in Seq(Wire) /\ Len(q) <= Len(a8) /\ Len(q) \in Nat
        BY <1>12 DEF Grown
    <2> QED
        BY <1>3, <2>1 DEF Wire
<1> QED
    BY <1>1, <1>13, <1>14

(* Nothing sent, nothing added.                                            *)
LEMMA EnqueuedNone ==
    ASSUME NEW q \in Seq(Wire)
    PROVE  Enqueue(q, {}) = q
<1>1. \A t : (IF t \in {} /\ (t \in KeepAlive => ToSet(q) \cap KeepAlive = {})
              THEN <<t>> ELSE <<>>) = <<>>
    OBVIOUS
<1>2. q \o <<>> = q
    OBVIOUS
<1> QED
    BY <1>1, <1>2 DEF Enqueue

(* Growing loses no packet.                                                *)
LEMMA GrownHas ==
    ASSUME NEW q, NEW e, NEW types, Grown(q, e, types), NEW t
    PROVE  /\ Has(q, t) => Has(e, t)
           /\ Has(e, t) => Has(q, t) \/ t \in types
    BY DEF Grown, Has

(* What is true of the order of the packets stays true of it.              *)
LEMMA GrownKeeps ==
    ASSUME NEW q, NEW e, NEW types, Grown(q, e, types)
    PROVE  /\ OkRevoked(q) /\ "AUTH_OK" \notin types => OkRevoked(e)
           /\ AuthFollows(q) /\ "HANDSHAKE" \notin types => AuthFollows(e)
           /\ ~Has(q, "AUTH") /\ "AUTH" \notin types => AuthFollows(e)
           /\ CloseFollows(q) /\ "HANDSHAKE" \notin types => CloseFollows(e)
<1>1. OkRevoked(q) /\ "AUTH_OK" \notin types => OkRevoked(e)
    BY DEF Grown, OkRevoked, Later
<1>2. AuthFollows(q) /\ "HANDSHAKE" \notin types => AuthFollows(e)
    BY DEF Grown, AuthFollows, Later
<1>3. ~Has(q, "AUTH") /\ "AUTH" \notin types => AuthFollows(e)
    BY DEF Grown, AuthFollows, Has
<1>4. CloseFollows(q) /\ "HANDSHAKE" \notin types => CloseFollows(e)
    BY DEF Grown, CloseFollows, Later
<1> QED
    BY <1>1, <1>2, <1>3, <1>4

(* A queue that ends in CLOSE.                                             *)
LEMMA EndsInClose ==
    ASSUME NEW e \in Seq(Wire), Len(e) > 0, e[Len(e)] = "CLOSE"
    PROVE  OkRevoked(e) /\ CloseFollows(e) /\ Has(e, "CLOSE")
    BY DEF OkRevoked, CloseFollows, Later, Has

(* The oldest datagram leaves the queue.                                   *)
LEMMA Dequeued ==
    ASSUME NEW q \in Seq(Wire), q # <<>>
    PROVE  /\ Tail(q) \in Seq(Wire) /\ Head(q) \in Wire
           /\ \A t : Has(q, t) <=> Head(q) = t \/ Has(Tail(q), t)
           /\ OkRevoked(q) => /\ OkRevoked(Tail(q))
                              /\ Head(q) = "AUTH_OK" => Has(Tail(q), "CLOSE")
           /\ AuthFollows(q) => /\ AuthFollows(Tail(q))
                                /\ Head(q) = "AUTH" => ~Has(Tail(q), "HANDSHAKE")
           /\ CloseFollows(q) => \/ CloseFollows(Tail(q))
                                 \/ Head(q) = "CLOSE" /\ ~Has(Tail(q), "HANDSHAKE")
<1> DEFINE r == Tail(q)
<1>1. /\ r \in Seq(Wire) /\ Len(q) \in Nat /\ Len(q) > 0 /\ Len(r) = Len(q) - 1
      /\ Head(q) = q[1] /\ q[1] \in Wire
      /\ \A k \in 1..Len(r) : r[k] = q[k + 1]
    OBVIOUS
<1>2. \A k \in 2..Len(q) : k - 1 \in 1..Len(r) /\ q[k] = r[k - 1]
    BY <1>1
<1> HIDE DEF r
<1>3. \A t : Has(q, t) <=> q[1] = t \/ Has(r, t)
    BY <1>1, <1>2 DEF Has
<1>4. \A t : \A k \in 1..Len(r) : Later(q, k + 1, t) <=> Later(r, k, t)
    <2> SUFFICES ASSUME NEW k \in 1..Len(r), NEW t
                 PROVE  Later(q, k + 1, t) <=> Later(r, k, t)
        OBVIOUS
    <2>1. ASSUME NEW j \in 1..Len(q), j > k + 1, q[j] = t
          PROVE  Later(r, k, t)
        <3>1. j - 1 \in 1..Len(r) /\ j - 1 > k /\ r[j - 1] = t
            BY <1>1, <1>2, <2>1
        <3> QED
            BY <3>1 DEF Later
    <2>2. ASSUME NEW j \in 1..Len(r), j > k, r[j] = t
          PROVE  Later(q, k + 1, t)
        <3>1. j + 1 \in 1..Len(q) /\ j + 1 > k + 1 /\ q[j + 1] = t
            BY <1>1, <2>2
        <3> QED
            BY <3>1 DEF Later
    <2> QED
        BY <2>1, <2>2 DEF Later
<1>5. \A t : Later(q, 1, t) <=> Has(r, t)
    BY <1>1, <1>2 DEF Later, Has
<1>6. OkRevoked(q) => OkRevoked(r) /\ (q[1] = "AUTH_OK" => Has(r, "CLOSE"))
    BY <1>1, <1>4, <1>5 DEF OkRevoked
<1>7. AuthFollows(q) => AuthFollows(r) /\ (q[1] = "AUTH" => ~Has(r, "HANDSHAKE"))
    BY <1>1, <1>4, <1>5 DEF AuthFollows
<1>8. CloseFollows(q) => CloseFollows(r) \/ (q[1] = "CLOSE" /\ ~Has(r, "HANDSHAKE"))
    <2> SUFFICES ASSUME CloseFollows(q), ~(q[1] = "CLOSE" /\ ~Has(r, "HANDSHAKE"))
                 PROVE  CloseFollows(r)
        OBVIOUS
    <2>1. PICK k \in 1..Len(q) : q[k] = "CLOSE" /\ ~Later(q, k, "HANDSHAKE")
        BY DEF CloseFollows
    <2>2. k # 1
        BY <2>1, <1>5
    <2>3. k - 1 \in 1..Len(r) /\ r[k - 1] = "CLOSE" /\ k = (k - 1) + 1
        BY <1>1, <1>2, <2>1, <2>2
    <2>4. ~Later(r, k - 1, "HANDSHAKE")
        BY <1>4, <2>1, <2>3
    <2> QED
        BY <2>3, <2>4 DEF CloseFollows
<1> QED
    BY <1>1, <1>3, <1>6, <1>7, <1>8 DEF r

(* The positions of two lists put together.                                *)
LEMMA Concatenated ==
    ASSUME NEW a \in Seq(Wire), NEW b \in Seq(Wire)
    PROVE  /\ a \o b \in Seq(Wire) /\ Len(a \o b) = Len(a) + Len(b)
           /\ \A k \in 1..Len(a) : (a \o b)[k] = a[k]
           /\ \A k \in 1..Len(a \o b) : k > Len(a) => (a \o b)[k] = b[k - Len(a)]
    OBVIOUS

(* The network adds no packet of a type the queue did not have.            *)
LEMMA FaultyHas ==
    ASSUME NEW q \in Seq(Wire), q # <<>>, NEW r \in Faulty(q)
    PROVE  r \in Seq(Wire) /\ \A t : Has(r, t) => Has(q, t)
<1>1. CASE r = Tail(q)
    BY <1>1, Dequeued
<1>2. CASE r = Append(q, Head(q))
    <2>1. /\ r \in Seq(Wire) /\ Len(r) = Len(q) + 1 /\ Len(q) \in Nat /\ Len(q) > 0
          /\ \A k \in 1..Len(q) : r[k] = q[k]
          /\ r[Len(r)] = q[1]
        BY <1>2
    <2> QED
        BY <2>1 DEF Has
<1>3. CASE Len(q) > 1 /\ r = <<q[2], q[1]>> \o SubSeq(q, 3, Len(q))
    <2>1. Len(q) \in Nat /\ 1 \in 1..Len(q) /\ 2 \in 1..Len(q)
        BY <1>3
    <2> DEFINE s == SubSeq(q, 3, Len(q))
    <2>2. /\ s \in Seq(Wire) /\ Len(s) = Len(q) - 2
          /\ \A k \in 1..Len(s) : s[k] = q[k + 2]
        BY <1>3, <2>1
    <2> HIDE DEF s
    <2>3. q[1] \in Wire /\ q[2] \in Wire
        BY <2>1
    <2> DEFINE h == <<q[2], q[1]>>
    <2>4. h \in Seq(Wire) /\ Len(h) = 2 /\ h[1] = q[2] /\ h[2] = q[1]
        BY <2>3
    <2> HIDE DEF h
    <2>5. r = h \o s
        BY <1>3 DEF h, s
    <2>6. /\ r \in Seq(Wire) /\ Len(r) = Len(h) + Len(s)
          /\ \A k \in 1..Len(h) : r[k] = h[k]
          /\ \A k \in 1..Len(r) : k > Len(h) => r[k] = s[k - Len(h)]
        BY <2>2, <2>4, <2>5, Concatenated
    <2>7. ASSUME NEW k \in 1..Len(r)
          PROVE  \E j \in 1..Len(q) : r[k] = q[j]
        <3>1. CASE k = 1
            BY <2>1, <2>4, <2>6, <3>1
        <3>2. CASE k = 2
            BY <2>1, <2>4, <2>6, <3>2
        <3>3. CASE k > 2
            <4>1. r[k] = s[k - 2] /\ k - 2 \in 1..Len(s)
                BY <2>2, <2>4, <2>6, <3>3
            <4>2. s[k - 2] = q[k] /\ k \in 1..Len(q)
                BY <2>1, <2>2, <4>1
            <4> QED
                BY <4>1, <4>2
        <3> QED
            BY <3>1, <3>2, <3>3, <2>6
    <2> QED
        BY <2>6, <2>7 DEF Has
<1> QED
    BY <1>1, <1>2, <1>3 DEF Faulty

-----------------------------------------------------------------------------
(* The server.                                                             *)

InfoFields == {"is_authenticated", "ipv4_iff", "loop_c", "idle"}

(* The pool is exact, its sessions all belong to the one client, and the   *)
(* slots have their fields.                                                *)
ServerSide == /\ PoolInv(pool)
              /\ DOMAIN info = Slot
              /\ \A i \in Slot : DOMAIN info[i] = InfoFields
              /\ \A i \in Connected(pool) : Owns(pool.sess[i], ClientAddr)

(* What a step of the server may do to the sessions, and what it says.     *)
Keeps == /\ Sessions' = Sessions
         /\ Established => Established'
         /\ "AUTH_OK" \notin ServerSays
Opens == /\ Sessions = {}
         /\ "AUTH_OK" \notin ServerSays
Auths == /\ Sessions' = Sessions
         /\ Established'
Closes == /\ Sessions' = {}
          /\ "CLOSE" \in ServerSays
          /\ "AUTH_OK" \notin ServerSays

(* Only the fields of one slot change.                                     *)
LEMMA FieldsStep ==
    ASSUME ServerSide, NEW i \in Slot, NEW m, DOMAIN m = InfoFields,
           info' = [info EXCEPT ![i] = m], pool' = pool
    PROVE  /\ ServerSide'
           /\ Sessions' = Sessions
           /\ (info[i].is_authenticated => m.is_authenticated)
                => (Established => Established')
           /\ i \in Sessions /\ m.is_authenticated => Established'
<1>1. /\ DOMAIN info' = Slot /\ info'[i] = m
      /\ \A j \in Slot : j # i => info'[j] = info[j]
    BY DEF ServerSide
<1>2. ServerSide'
    BY <1>1 DEF ServerSide, Connected
<1>3. Sessions' = Sessions /\ Sessions \subseteq Slot
    BY DEF Sessions, Connected
<1> QED
    BY <1>1, <1>2, <1>3 DEF Established

(* The end of a handler.                                                   *)
LEMMA CountedPacket ==
    ASSUME ServerSide, NEW i \in Slot, NEW n, DOMAIN n = InfoFields, NEW f, NEW out,
           CountPacket(i, n, f, out)
    PROVE  /\ \E m : /\ DOMAIN m = InfoFields
                     /\ m.is_authenticated = n.is_authenticated
                     /\ info' = [info EXCEPT ![i] = m]
           /\ \A p \in sent' : p \in out \/ p.type = "SYNC"
<1> DEFINE c == (n.loop_c + 1) % SyncEvery
<1>1. CASE c # 0
    <2> DEFINE m == [n EXCEPT !.loop_c = c]
    <2>1. info' = [info EXCEPT ![i] = m] /\ sent' = out
        BY <1>1 DEF CountPacket
    <2>2. DOMAIN m = InfoFields /\ m.is_authenticated = n.is_authenticated
        BY DEF InfoFields
    <2> QED
        BY <2>1, <2>2
<1>2. CASE c = 0
    <2> DEFINE m == [n EXCEPT !.loop_c = 0, !.idle = 0]
    <2>1. PICK r \in Result :
            /\ info' = [info EXCEPT ![i] = m]
            /\ sent' = out \cup Delivered("SYNC", Peer(i), r)
        BY <1>2 DEF CountPacket
    <2>2. DOMAIN m = InfoFields /\ m.is_authenticated = n.is_authenticated
        BY DEF InfoFields
    <2>3. \A p \in sent' : p \in out \/ p.type = "SYNC"
        BY <2>1 DEF Delivered, Pkt
    <2> QED
        BY <2>1, <2>2, <2>3
<1> QED
    BY <1>1, <1>2

(* delete_udp_session() of the only session.                               *)
LEMMA DeletedLast ==
    ASSUME NEW p, PoolInv(p), NEW i \in Connected(p),
           \A j \in Connected(p) : Owns(p.sess[j], ClientAddr)
    PROVE  LET q == delete_udp_session(p, i)
           IN  PoolInv(q) /\ Connected(q) = {}
<1> DEFINE l == delete_udp_session_locked(p, i)
<1>1. PoolInv(l) /\ Connected(l) = Connected(p) \ {i}
    BY DeleteInv
<1> HIDE DEF l
<1>2. PoolInv(n_on_sess_sub(l)) /\ Connected(n_on_sess_sub(l)) = Connected(l)
    BY <1>1, UncountInv
<1>3. Connected(p) \ {i} = {}
    BY DEF PoolInv, OwnersDistinct, Owns
<1>4. delete_udp_session(p, i) = n_on_sess_sub(l)
    BY DEF delete_udp_session, l
<1> QED
    BY <1>1, <1>2, <1>3, <1>4

(* close_udp_session() leaves no session.                                  *)
LEMMA ClosedSession ==
    ASSUME ServerSide, NEW i \in Sessions, NEW f, NEW r, NEW lc,
           close_udp_session(i, f, r, lc)
    PROVE  ServerSide' /\ Sessions' = {}
<1>1. i \in Connected(pool) /\ i \in Slot
    BY DEF Sessions, Connected
<1>2. /\ pool' = delete_udp_session(pool, i)
      /\ info' = [info EXCEPT ![i] = [ResetInfo EXCEPT !.loop_c = lc]]
    BY DEF close_udp_session
<1>3. PoolInv(pool') /\ Connected(pool') = {}
    BY <1>1, <1>2, DeletedLast DEF ServerSide
<1>4. DOMAIN [ResetInfo EXCEPT !.loop_c = lc] = InfoFields
    BY DEF ResetInfo, InfoFields
<1>5. DOMAIN info' = Slot /\ \A j \in Slot : DOMAIN info'[j] = InfoFields
    BY <1>1, <1>2, <1>4 DEF ServerSide
<1> QED
    BY <1>3, <1>5 DEF Sessions, ServerSide

(* A datagram of a stranger.                                               *)
LEMMA StrangerStep ==
    ASSUME ServerSide, NEW m, FromStranger(m)
    PROVE  /\ ServerSide'
           /\ Keeps \/ (Opens /\ m = "HANDSHAKE") \/ Closes
           /\ m = "CLOSE" => Sessions' = {}
<1>1. ClientAddr \in Client
    BY VpnAssumption
<1>2. ASSUME IsNew(ClientAddr)
      PROVE  lookup_udp_sess(pool, ClientAddr) = NULL /\ Sessions = {}
    <2>1. lookup_udp_sess(pool, ClientAddr) = NULL
        BY <1>2 DEF IsNew
    <2>2. \A j \in Connected(pool) : ~Owns(pool.sess[j], ClientAddr)
        BY <1>1, <2>1, LookupFinds, ConstantsTyped DEF ServerSide, Connected
    <2> QED
        BY <2>1, <2>2 DEF Sessions, ServerSide
<1>3. CASE IgnoreNewClient(ClientAddr)
    <2>1. Sessions = {} /\ pool' = pool /\ info' = info /\ sent' = {}
        BY <1>2, <1>3 DEF IgnoreNewClient
    <2>2. ServerSide' /\ Sessions' = Sessions /\ "AUTH_OK" \notin ServerSays
        BY <2>1 DEF Sessions, ServerSide, ServerSays
    <2> QED
        BY <2>1, <2>2 DEF Keeps, Established
<1> DEFINE i == bt_stack_top(pool.stk)
           q == create_udp_sess(pool, ClientAddr)
<1>4. ASSUME IsNew(ClientAddr), ~StackEmpty(pool.stk)
      PROVE  /\ PoolInv(q) /\ i \in Slot \ Connected(pool) /\ Connected(q) = {i}
             /\ Owns(q.sess[i], ClientAddr)
    <2>1. /\ PoolInv(q)
          /\ i \in Slot \ Connected(pool)
          /\ Connected(q) = Connected(pool) \cup {i}
          /\ q.sess[i] = [src_addr |-> ClientAddr[1], src_port |-> ClientAddr[2],
                          is_connected |-> TRUE]
        BY <1>1, <1>2, <1>4, CreateInv DEF ServerSide
    <2> HIDE DEF i, q
    <2> QED
        BY <1>2, <1>4, <2>1 DEF Sessions, Owns
<1>5. /\ NewClient(ClientAddr) => pool' = q /\ info' = [info EXCEPT ![i].idle = 0]
      /\ NewClientDropped(ClientAddr) => /\ pool' = delete_udp_session(q, i)
                                         /\ info' = [info EXCEPT ![i] = ResetInfo]
    BY DEF NewClient, NewClientDropped
<1> HIDE DEF i, q
<1>6. CASE m = "HANDSHAKE" /\ NewClient(ClientAddr)
    <2>1. /\ IsNew(ClientAddr) /\ ~StackEmpty(pool.stk)
          /\ pool' = q /\ info' = [info EXCEPT ![i].idle = 0]
          /\ sent' = {Pkt("HANDSHAKE", ClientAddr)}
        BY <1>5, <1>6 DEF NewClient
    <2>2. ServerSide'
        BY <1>4, <2>1 DEF ServerSide
    <2>3. "AUTH_OK" \notin ServerSays
        BY <2>1 DEF ServerSays, Pkt
    <2> QED
        BY <1>2, <1>6, <2>1, <2>2, <2>3 DEF Opens
<1>7. CASE /\ m = "AUTH" /\ NewClientDropped(ClientAddr)
           /\ {"HANDSHAKE_REJECT", "CLOSE"} \subseteq ServerSays
    <2>1. /\ IsNew(ClientAddr) /\ ~StackEmpty(pool.stk)
          /\ pool' = delete_udp_session(q, i)
          /\ info' = [info EXCEPT ![i] = ResetInfo]
          /\ \E r, s : sent' = Delivered("HANDSHAKE_REJECT", ClientAddr, r)
                                \cup Delivered("CLOSE", ClientAddr, s)
        BY <1>5, <1>7 DEF NewClientDropped
    <2>2. PoolInv(pool') /\ Connected(pool') = {}
        BY <1>4, <2>1, DeletedLast
    <2>3. DOMAIN ResetInfo = InfoFields
        BY DEF ResetInfo, InfoFields
    <2>4. ServerSide' /\ Sessions' = {}
        BY <1>4, <2>1, <2>2, <2>3 DEF Sessions, ServerSide
    <2>5. "AUTH_OK" \notin ServerSays
        BY <2>1 DEF ServerSays, Delivered, Pkt
    <2> QED
        BY <1>7, <2>4, <2>5 DEF Closes
<1> QED
    BY <1>3, <1>6, <1>7 DEF FromStranger

(* A packet that is counted, and perhaps answered.                         *)
LEMMA CountedStep ==
    ASSUME ServerSide, NEW i \in Sessions, NEW n, DOMAIN n = InfoFields,
           n.is_authenticated = info[i].is_authenticated, NEW f, NEW out,
           CountPacket(i, n, f, out), pool' = pool,
           \A p \in out : p.type = "SYNC"
    PROVE  ServerSide' /\ Keeps
<1>1. i \in Slot
    BY DEF Sessions, Connected
<1>2. PICK m : /\ DOMAIN m = InfoFields
               /\ m.is_authenticated = n.is_authenticated
               /\ info' = [info EXCEPT ![i] = m]
    BY <1>1, CountedPacket
<1>3. "AUTH_OK" \notin ServerSays
    BY <1>1, CountedPacket DEF ServerSays
<1> QED
    BY <1>1, <1>2, <1>3, FieldsStep DEF Keeps

(* A handler that gives up before it changed more than the idle time.      *)
LEMMA FailedStep ==
    ASSUME ServerSide, NEW i \in Sessions, pool' = pool, sent' = {},
           info' = info \/ info' = [info EXCEPT ![i].idle = 0]
    PROVE  ServerSide' /\ Keeps
<1>1. i \in Slot
    BY DEF Sessions, Connected
<1>2. "AUTH_OK" \notin ServerSays
    BY DEF ServerSays
<1>3. CASE info' = info
    <2>1. ServerSide' /\ Sessions' = Sessions
        BY <1>3 DEF Sessions, ServerSide
    <2> QED
        BY <1>2, <1>3, <2>1 DEF Keeps, Established
<1>4. CASE info' = [info EXCEPT ![i].idle = 0]
    <2> DEFINE m == [info[i] EXCEPT !.idle = 0]
    <2>1. info' = [info EXCEPT ![i] = m]
        BY <1>4
    <2>2. DOMAIN m = InfoFields /\ m.is_authenticated = info[i].is_authenticated
        BY <1>1 DEF ServerSide, InfoFields
    <2> HIDE DEF m
    <2> QED
        BY <1>1, <1>2, <2>1, <2>2, FieldsStep DEF Keeps
<1> QED
    BY <1>3, <1>4

(* A datagram of a session's client.                                       *)
LEMMA SessionPacketStep ==
    ASSUME ServerSide, NEW i \in Sessions, NEW t, FromSession(i, t)
    PROVE  /\ ServerSide'
           /\ Keeps \/ (Auths /\ t = "AUTH") \/ Closes
           /\ t = "CLOSE" => Sessions' = {}
<1>1. i \in Slot /\ DOMAIN info[i] = InfoFields
    BY DEF Sessions, Connected, ServerSide
<1> DEFINE seen == [info[i] EXCEPT !.idle = 0]
<1>2. DOMAIN seen = InfoFields /\ seen.is_authenticated = info[i].is_authenticated
    BY <1>1 DEF InfoFields
<1> HIDE DEF seen
<1>3. CASE t \in {"HANDSHAKE", "AUTH"} /\ RecvIgnored(i)
    <2>1. pool' = pool /\ CountPacket(i, info[i], flags, {})
        BY <1>3 DEF RecvIgnored
    <2> QED
        BY <1>1, <1>3, <2>1, CountedStep
<1>4. ASSUME t = "AUTH", NEW u \in User, RecvAuthOk(i, u)
      PROVE  ServerSide' /\ Auths
    <2> DEFINE n == [info[i] EXCEPT !.is_authenticated = TRUE, !.ipv4_iff = UserIp[u]]
    <2>1. DOMAIN n = InfoFields /\ n.is_authenticated
        BY <1>1 DEF InfoFields
    <2>2. pool' = pool
        BY <1>4 DEF RecvAuthOk
    <2>3. \E f, out : CountPacket(i, n, f, out)
        BY <1>4 DEF RecvAuthOk
    <2> HIDE DEF n
    <2>4. PICK m : /\ DOMAIN m = InfoFields
                   /\ m.is_authenticated = n.is_authenticated
                   /\ info' = [info EXCEPT ![i] = m]
        BY <1>1, <2>1, <2>3, CountedPacket
    <2> QED
        BY <1>1, <2>1, <2>2, <2>4, FieldsStep DEF Auths
<1>5. CASE /\ t = "AUTH" /\ RecvAuthReject(i)
           /\ {"AUTH_REJECT", "CLOSE"} \subseteq ServerSays
    <2>1. PICK f, r, s, lc :
            /\ close_udp_session(i, f, s, lc)
            /\ sent' = Delivered("AUTH_REJECT", Peer(i), r)
                        \cup Delivered("CLOSE", Peer(i), s)
        BY <1>5 DEF RecvAuthReject
    <2>2. ServerSide' /\ Sessions' = {}
        BY <2>1, ClosedSession
    <2>3. "AUTH_OK" \notin ServerSays
        BY <2>1 DEF ServerSays, Delivered, Pkt
    <2> QED
        BY <1>5, <2>2, <2>3 DEF Closes
<1>6. CASE t = "TUN_DATA" /\ RecvTunData(i)
    <2>1. pool' = pool
        BY <1>6 DEF RecvTunData
    <2>2. \/ \E f : CountPacket(i, info[i], f, {})
          \/ info' = info /\ sent' = {}
        BY <1>6 DEF RecvTunData
    <2> QED
        BY <1>1, <1>6, <2>1, <2>2, CountedStep, FailedStep
<1>7. CASE t = "REQSYNC" /\ RecvReqsync(i)
    <2>1. pool' = pool
        BY <1>7 DEF RecvReqsync
    <2>2. \/ \E f : CountPacket(i, seen, f, {Pkt("SYNC", Peer(i))})
          \/ info' = [info EXCEPT ![i].idle = 0] /\ sent' = {}
        BY <1>7 DEF RecvReqsync, seen
    <2>3. \A p \in {Pkt("SYNC", Peer(i))} : p.type = "SYNC"
        BY DEF Pkt
    <2>4. CASE \E f : CountPacket(i, seen, f, {Pkt("SYNC", Peer(i))})
        BY <1>2, <1>7, <2>1, <2>3, <2>4, CountedStep
    <2> QED
        BY <1>7, <2>1, <2>2, <2>4, FailedStep
<1>8. CASE t = "SYNC" /\ RecvSync(i)
    <2>1. pool' = pool /\ CountPacket(i, seen, flags, {})
        BY <1>8 DEF RecvSync, seen
    <2> QED
        BY <1>2, <1>8, <2>1, CountedStep
<1>9. CASE t = "CLOSE" /\ RecvClose(i) /\ sent' # {}
    <2>1. PICK r, lc : /\ close_udp_session(i, flags, r, lc)
                       /\ sent' = Delivered("CLOSE", Peer(i), r)
        BY <1>9 DEF RecvClose
    <2>2. ServerSide' /\ Sessions' = {}
        BY <2>1, ClosedSession
    <2>3. "AUTH_OK" \notin ServerSays /\ "CLOSE" \in ServerSays
        BY <1>9, <2>1 DEF ServerSays, Delivered, Pkt
    <2> QED
        BY <2>2, <2>3 DEF Closes
<1> QED
    BY <1>3, <1>4, <1>5, <1>6, <1>7, <1>8, <1>9 DEF FromSession

(* The server receives a datagram.                                         *)
LEMMA ServerReceivesStep ==
    ASSUME ServerSide, ServerReceives
    PROVE  /\ ServerSide'
           /\ \/ Keeps
              \/ Opens /\ Head(c2s) = "HANDSHAKE"
              \/ Auths /\ Head(c2s) = "AUTH"
              \/ Closes
           /\ Head(c2s) = "CLOSE" => Sessions' = {}
<1>1. CASE FromStranger(Head(c2s))
    BY <1>1, StrangerStep
<1>2. CASE \E i \in Sessions : FromSession(i, Head(c2s))
    BY <1>2, SessionPacketStep
<1> QED
    BY <1>1, <1>2 DEF ServerReceives, Sessions

(* The reaper.                                                             *)
LEMMA ServerReapsStep ==
    ASSUME ServerSide, ServerReaps
    PROVE  ServerSide' /\ (Keeps \/ Closes)
<1>1. ASSUME pool' = pool, info' = info, "AUTH_OK" \notin ServerSays
      PROVE  ServerSide' /\ Keeps
    <2>1. ServerSide' /\ Sessions' = Sessions
        BY <1>1 DEF Sessions, ServerSide
    <2> QED
        BY <1>1, <2>1 DEF Keeps, Established
<1>2. CASE ZrWake \/ ZrSkip \/ ZrScanDone
    <2>1. pool' = pool /\ info' = info /\ sent' = {}
        BY <1>2 DEF ZrWake, ZrSkip, ZrScanDone
    <2> QED
        BY <1>1, <2>1 DEF ServerSays
<1>3. CASE ZrReqsync
    <2>1. pool' = pool /\ info' = info
        BY <1>3 DEF ZrReqsync
    <2>2. \E r, s : sent' = Delivered("REQSYNC", Peer(zr), r)
                             \cup Delivered("REQSYNC", Peer(zr), s)
        BY <1>3 DEF ZrReqsync
    <2>3. "AUTH_OK" \notin ServerSays
        BY <2>2 DEF ServerSays, Delivered, Pkt
    <2> QED
        BY <1>1, <2>1, <2>3
<1>4. CASE ZrClose
    <2>1. PICK r : /\ close_udp_session(zr, flags, r, 0)
                   /\ sent' = Delivered("CLOSE", Peer(zr), r)
        BY <1>4 DEF ZrClose
    <2>2. zr \in Sessions /\ zr \in Slot /\ ~ZrSkip
        BY <1>4 DEF ZrClose, ZrSkip, ZrScanning, Sessions
    <2>3. ServerSide' /\ Sessions' = {}
        BY <2>1, <2>2, ClosedSession
    <2>4. sent' # {}
        BY <2>2 DEF ServerReaps
    <2>5. "AUTH_OK" \notin ServerSays /\ "CLOSE" \in ServerSays
        BY <2>1, <2>4 DEF ServerSays, Delivered, Pkt
    <2> QED
        BY <2>3, <2>5 DEF Closes
<1> QED
    BY <1>2, <1>3, <1>4 DEF ServerReaps, ReaperStep

(* The server stands still, or its clock advances.                         *)
LEMMA ServerRests ==
    ASSUME ServerSide, UNCHANGED sv_state \/ Tick, sent' = {}
    PROVE  ServerSide' /\ Keeps
<1>1. "AUTH_OK" \notin ServerSays
    BY DEF ServerSays
<1>2. pool' = pool
    BY DEF sv_state, Tick
<1>3. Sessions' = Sessions /\ Sessions \subseteq Slot
    BY <1>2 DEF Sessions, Connected
<1>4. /\ DOMAIN info' = Slot
      /\ \A i \in Slot : /\ DOMAIN info'[i] = InfoFields
                         /\ info'[i].is_authenticated = info[i].is_authenticated
    <2>1. CASE UNCHANGED sv_state
        BY <2>1 DEF sv_state, ServerSide
    <2>2. CASE Tick
        <3>1. info' = [i \in Slot |->
                         IF i \in Connected(pool) /\ info[i].idle < MaxIdle
                         THEN [info[i] EXCEPT !.idle = @ + 1] ELSE info[i]]
            BY <2>2 DEF Tick
        <3>2. ASSUME NEW i \in Slot
              PROVE  /\ DOMAIN info'[i] = InfoFields
                     /\ info'[i].is_authenticated = info[i].is_authenticated
            <4>1. DOMAIN info[i] = InfoFields
                BY DEF ServerSide
            <4>2. info'[i] = info[i] \/ info'[i] = [info[i] EXCEPT !.idle = @ + 1]
                BY <3>1
            <4> QED
                BY <4>1, <4>2 DEF InfoFields
        <3> QED
            BY <3>1, <3>2
    <2> QED
        BY <2>1, <2>2
<1>5. ServerSide'
    BY <1>2, <1>4 DEF ServerSide
<1> QED
    BY <1>1, <1>3, <1>4, <1>5 DEF Keeps, Established

-----------------------------------------------------------------------------
(* The client.                                                             *)

(* The stages of the main thread before it authenticates, and between the  *)
(* answer to that and its loop.                                            *)
Before == {"init_state", "init_socket", "init_iface", "close_stale", "handshake",
           "handshake_wait"}
Accepted == {"init_epoll", "clear_stop", "spawn_timer", "spawn_worker", "wait"}

(* What a step of the client may do that consumes a packet of type t.      *)
ClientMoves(t) ==
    /\ main' \in Before => main \in Before
    /\ "HANDSHAKE" \in ClientSays => /\ main = "handshake" /\ main' = "handshake_wait"
                                       /\ "AUTH" \notin ClientSays
    /\ "AUTH" \in ClientSays => main' \notin Before
    /\ main' = "exited" => main = "exited" \/ "CLOSE" \in ClientSays
    /\ main' \in Accepted => main \in Accepted \/ (main = "auth_wait" /\ t = "AUTH_OK")
    /\ main' = "loop" => main \in Accepted
                         \/ (main = "loop" /\ (stop \/ t = "CLOSE" => stop'))

(* What a step says that sends nothing, or one packet.                     *)
LEMMA Says ==
    /\ csent' = <<>> => ClientSays = {}
    /\ \A t : csent' = <<t>> => ClientSays = {t}
    BY DEF ClientSays, ToSet

(* A step that sends nothing.                                              *)
LEMMA QuietMoves ==
    ASSUME csent' = <<>>, NEW t,
           \/ main' = main /\ (stop \/ t = "CLOSE" => stop')
           \/ main' \in Before /\ main \in Before
           \/ main' \in {"auth", "auth_wait", "leave", "kill_timer", "wait_timer",
                         "kill_workers", "wait_workers", "close_fds", "out"}
           \/ main' \in Accepted /\ main \in Accepted
           \/ main' \in Accepted /\ main = "auth_wait" /\ t = "AUTH_OK"
           \/ main' = "loop" /\ main \in Accepted
    PROVE  ClientMoves(t)
<1>1. ClientSays = {}
    BY Says
<1> QED
    BY <1>1 DEF ClientMoves, Before, Accepted

(* The initialisation.                                                     *)
LEMMA InitMoves ==
    ASSUME Cl!InitStep, main' # "no_state"
    PROVE  ClientMoves("none")
<1>1. csent' = <<>> /\ (main' = "out" \/ (main \in Before /\ main' \in Before))
    BY DEF Cl!InitStep, Cl!NoState, Cl!Initialises, Cl!Fails, Cl!Quiet, Before
<1> QED
    BY <1>1, QuietMoves

(* The sends of the main thread.                                           *)
LEMMA SendMoves ==
    ASSUME \/ Cl!CloseStale /\ csent' # <<>>
           \/ Cl!SendHandshake
           \/ Cl!SendAuth
           \/ Cl!Out /\ csent' # <<>>
    PROVE  ClientMoves("none")
<1>1. CASE Cl!CloseStale /\ csent' # <<>>
    <2>1. main = "close_stale" /\ main' = "handshake" /\ csent' = <<"CLOSE">>
        BY <1>1 DEF Cl!CloseStale
    <2> QED
        BY <2>1, Says DEF ClientMoves, Before, Accepted
<1>2. CASE Cl!SendHandshake
    <2>1. /\ main = "handshake"
          /\ \/ main' = "handshake_wait" /\ csent' = <<"HANDSHAKE">>
             \/ main' = "out" /\ csent' = <<>>
        BY <1>2 DEF Cl!SendHandshake, Cl!Fails, Cl!Quiet
    <2> QED
        BY <2>1, Says DEF ClientMoves, Before, Accepted
<1>3. CASE Cl!SendAuth
    <2>1. /\ main = "auth"
          /\ \/ main' = "auth_wait" /\ csent' = <<"AUTH">>
             \/ main' = "out" /\ csent' = <<>>
        BY <1>3 DEF Cl!SendAuth, Cl!Fails, Cl!Quiet
    <2> QED
        BY <2>1, Says DEF ClientMoves, Before, Accepted
<1>4. CASE Cl!Out /\ csent' # <<>>
    <2>1. main = "out" /\ main' = "exited" /\ csent' = <<"CLOSE">>
        BY <1>4 DEF Cl!Out
    <2> QED
        BY <2>1, Says DEF ClientMoves, Before, Accepted
<1> QED
    BY <1>1, <1>2, <1>3, <1>4

(* The answers to HANDSHAKE and AUTH, or their absence.                    *)
LEMMA ResultMoves ==
    /\ \A res : Cl!HandshakeResult(res) => \A t : ClientMoves(t)
    /\ \A res, t : Cl!AuthResult(res) /\ (res = "ok" => t = "AUTH_OK") => ClientMoves(t)
<1>1. ASSUME NEW res, NEW t, Cl!HandshakeResult(res)
      PROVE  ClientMoves(t)
    <2>1. /\ main = "handshake_wait" /\ main' \in {"auth", "handshake", "out"}
          /\ csent' = <<>>
        BY <1>1 DEF Cl!HandshakeResult, Cl!Fails, Cl!Quiet
    <2> QED
        BY <2>1, QuietMoves DEF Before
<1>2. ASSUME NEW res, NEW t, Cl!AuthResult(res), res = "ok" => t = "AUTH_OK"
      PROVE  ClientMoves(t)
    <2>1. /\ main = "auth_wait" /\ csent' = <<>>
          /\ main' \in {"auth", "out"} \/ (main' = "init_epoll" /\ res = "ok")
        BY <1>2 DEF Cl!AuthResult, Cl!Fails, Cl!Quiet
    <2> QED
        BY <1>2, <2>1, QuietMoves DEF Accepted
<1> QED
    BY <1>1, <1>2

(* From the answer to the loop.                                            *)
LEMMA StartMoves ==
    ASSUME \/ Cl!InitEpoll \/ Cl!ClearStop \/ Cl!SpawnTimer
           \/ Cl!SpawnWorker \/ Cl!MainOnline \/ Cl!MainReleases
    PROVE  ClientMoves("none")
<1>1. csent' = <<>>
    BY DEF Cl!InitEpoll, Cl!ClearStop, Cl!SpawnTimer, Cl!SpawnWorker,
           Cl!MainOnline, Cl!MainReleases, Cl!MainOnly, Cl!Quiet
<1>2. main \in Accepted
    BY DEF Cl!InitEpoll, Cl!ClearStop, Cl!SpawnTimer, Cl!SpawnWorker,
           Cl!MainOnline, Cl!MainReleases, Accepted
<1>3. main' \in {"clear_stop", "spawn_timer", "spawn_worker", "wait", "loop", "leave",
                 "kill_timer", "out"}
    BY DEF Cl!InitEpoll, Cl!ClearStop, Cl!SpawnTimer, Cl!SpawnWorker,
           Cl!MainOnline, Cl!MainReleases, Cl!EnterLoop
<1> QED
    BY <1>1, <1>2, <1>3, QuietMoves DEF Accepted

(* From the loop to the end.                                               *)
LEMMA EndMoves ==
    ASSUME \/ Cl!LoopEnds("main") \/ Cl!MainLeaves \/ Cl!KillTimer
           \/ Cl!WaitTimer \/ Cl!KillWorkers \/ Cl!WaitWorkers \/ Cl!GiveUp
           \/ Cl!CloseFds
    PROVE  ClientMoves("none")
<1>1. csent' = <<>>
    BY DEF Cl!LoopEnds, Cl!MainLeaves, Cl!KillTimer, Cl!WaitTimer,
           Cl!KillWorkers, Cl!WaitWorkers, Cl!GiveUp, Cl!CloseFds, Cl!MainOnly,
           Cl!MainWaits, Cl!Quiet
<1>2. main' \in {"leave", "kill_timer", "wait_timer", "kill_workers", "wait_workers",
                 "close_fds", "out"}
    BY DEF Cl!LoopEnds, Cl!MainLeaves, Cl!KillTimer, Cl!WaitTimer,
           Cl!KillWorkers, Cl!WaitWorkers, Cl!GiveUp, Cl!CloseFds, Cl!Breaks
<1> QED
    BY <1>1, <1>2, QuietMoves

(* The timer thread.                                                       *)
LEMMA TimerMoves ==
    ASSUME Cl!TimerStep
    PROVE  ClientMoves("none")
<1>1. main' = main /\ (stop => stop')
    BY DEF Cl!TimerStep, Cl!TimerOnline, Cl!TimerSleeps, Cl!TimerEnds,
           Cl!TimerChecks, Cl!TimerOnly
<1>2. csent' = <<>> \/ \E k : csent' = [i \in 1..k |-> "REQSYNC"]
    BY DEF Cl!TimerStep, Cl!TimerOnline, Cl!TimerSleeps, Cl!TimerEnds,
           Cl!TimerChecks, Cl!Quiet
<1>3. \A t \in ClientSays : t = "REQSYNC"
    BY <1>2, Says DEF ClientSays, ToSet
<1> QED
    BY <1>1, <1>3 DEF ClientMoves, Before, Accepted

(* A step of a thread of the client.                                       *)
LEMMA ClientRunsStep ==
    ASSUME ClientRuns
    PROVE  ClientMoves("none")
<1>1. /\ main \in {"close_stale", "out"} /\ main' # main => csent' # <<>>
      /\ main' # "no_state"
    BY DEF ClientRuns
<1>2. CASE Cl!CloseStale \/ Cl!Out
    <2>1. main \in {"close_stale", "out"} /\ main' # main
        BY <1>2 DEF Cl!CloseStale, Cl!Out
    <2> QED
        BY <1>1, <1>2, <2>1, SendMoves
<1>3. CASE ~Waiting /\ (Cl!WaitHandshake \/ Cl!WaitAuth)
    BY <1>3 DEF Waiting, Cl!WaitHandshake, Cl!HandshakeResult, Cl!WaitAuth,
                Cl!AuthResult
<1>4. (~Waiting /\ Cl!MainStep) \/ Cl!TimerStep
    BY DEF ClientRuns
<1>5. CASE ~Waiting /\ Cl!MainStep
    BY <1>1, <1>2, <1>3, <1>5, InitMoves, SendMoves, StartMoves, EndMoves DEF Cl!MainStep
<1> QED
    BY <1>4, <1>5, TimerMoves

(* The packets of the loop.                                                *)
LEMMA LoopMoves ==
    ASSUME NEW t, Loops(t)
    PROVE  ClientMoves(t)
<1>1. CASE t # "REQSYNC" /\ t # "CLOSE" /\ (Cl!RecvData \/ Cl!RecvSync)
    <2>1. csent' = <<>>
        BY <1>1 DEF Cl!RecvData, Cl!RecvSync, Cl!Quiet
    <2>2. main' = "leave" \/ (main' = main /\ stop' = stop)
        BY <1>1 DEF Cl!RecvData, Cl!RecvSync, Cl!Handled, Cl!Breaks
    <2> QED
        BY <1>1, <2>1, <2>2, QuietMoves
<1>2. CASE t = "REQSYNC" /\ Cl!RecvReqsync /\ main' = main
    <2>1. main = "loop" /\ main' = main /\ (stop => stop')
        BY <1>2 DEF Cl!RecvReqsync, Cl!Handled, Cl!Looping
    <2>2. csent' = <<>> \/ csent' = <<"SYNC">>
        BY <1>2 DEF Cl!RecvReqsync
    <2> QED
        BY <1>2, <2>1, <2>2, Says DEF ClientMoves, Before, Accepted
<1>3. CASE t = "CLOSE" /\ Cl!RecvClose
    <2>1. csent' = <<>> /\ main' = main /\ stop'
        BY <1>3 DEF Cl!RecvClose, Cl!Quiet
    <2> QED
        BY <2>1, QuietMoves
<1> QED
    BY <1>1, <1>2, <1>3 DEF Loops

(* The client receives a datagram.  It never does between the answer to    *)
(* AUTH and its loop.                                                      *)
LEMMA ClientReceivesStep ==
    ASSUME ClientReceives
    PROVE  ClientMoves(Head(s2c)) /\ main \notin Accepted
<1> DEFINE t == Head(s2c)
<1>1. \/ \E res : Cl!HandshakeResult(res)
      \/ Cl!AuthResult(IF t = "AUTH_OK" THEN "ok" ELSE "bad")
      \/ Loops(t)
    BY DEF ClientReceives
<1>2. main \notin Accepted
    BY DEF ClientReceives, ClientBusy, Accepted
<1> QED
    BY <1>1, <1>2, ResultMoves, LoopMoves

(* An answer that does not come in time.                                   *)
LEMMA ClientTimesOutStep ==
    ASSUME ClientTimesOut
    PROVE  ClientMoves("none")
    BY ResultMoves DEF ClientTimesOut

(* A packet of the tunnel.                                                 *)
LEMMA ClientForwardsStep ==
    ASSUME ClientForwards
    PROVE  ClientMoves("none")
<1>1. main = "loop" /\ main' = main /\ (stop => stop')
    BY DEF ClientForwards, Cl!ForwardTun, Cl!Handled, Cl!Looping
<1>2. csent' = <<>> \/ csent' = <<"TUN_DATA">>
    BY DEF ClientForwards, Cl!ForwardTun
<1> QED
    BY <1>1, <1>2, Says DEF ClientMoves, Before, Accepted

(* The client stands still, or its clock advances.                         *)
LEMMA ClientRests ==
    ASSUME UNCHANGED cl_state \/ Cl!Tick, csent' = <<>>
    PROVE  ClientMoves("none") /\ ClientSays = {} /\ main' = main /\ stop' = stop
<1>1. main' = main /\ stop' = stop
    BY DEF cl_state, Cl!Tick, Cl!ctl_vars
<1> QED
    BY <1>1, QuietMoves, Says

-----------------------------------------------------------------------------
(* Both, with the network.                                                 *)

Queues == c2s \in Seq(Wire) /\ s2c \in Seq(Wire) /\ faults \in Nat

(* A client that has not authenticated yet has asked for nothing, and was  *)
(* promised nothing.                                                       *)
NotYet == main \in Before => ~Has(c2s, "AUTH") /\ ~Has(s2c, "AUTH_OK")

(* Whatever was promised to the client will be revoked: a CLOSE follows.   *)
Revoked == /\ OkRevoked(s2c)
           /\ main \in Accepted => Has(s2c, "CLOSE")
           /\ main = "loop" => Has(s2c, "CLOSE") \/ stop

(* There is no session, and none will be opened.                           *)
NoSession == Sessions = {} /\ ~Has(c2s, "HANDSHAKE")

(* Without misdeliveries: the client authenticates after its last          *)
(* handshake; from the promise on, no handshake can open a second session; *)
(* the promise is kept or revoked; a CLOSE is the last that counts.        *)
InOrder == faults = 0 => AuthFollows(c2s)
Settled == faults = 0 /\ (Has(s2c, "AUTH_OK") \/ main \in Accepted \cup {"loop"})
             => ~Has(c2s, "HANDSHAKE") /\ (Established \/ Sessions = {})
Agreed == faults = 0 => Established \/ Revoked
Closed == faults = 0 /\ main = "exited" => NoSession \/ CloseFollows(c2s)

(* With one misdelivery the promise is kept, revoked, or there is no       *)
(* session at all.                                                         *)
AgreedOrGone == faults <= 1 => Established \/ Revoked \/ NoSession

VpnInv == /\ Queues /\ ServerSide /\ NotYet
          /\ InOrder /\ Settled /\ Agreed /\ Closed
          /\ AgreedOrGone

(* A step in which the client acts, and consumes a packet of type t.       *)
ClientStep(t) ==
    /\ ClientMoves(t)
    /\ ServerSide' /\ Keeps
    /\ Grown(c2s, c2s', ClientSays)
    /\ "CLOSE" \in ClientSays => CloseFollows(c2s')
    /\ faults' = faults
    /\ \/ t = "none" /\ s2c' = s2c
       \/ s2c # <<>> /\ t = Head(s2c) /\ s2c' = Tail(s2c) /\ main \notin Accepted

(* A step in which the server acts.                                        *)
ServerStep ==
    /\ main' = main /\ stop' = stop /\ faults' = faults
    /\ ServerSide'
    /\ Grown(s2c, s2c', ServerSays)
    /\ "CLOSE" \in ServerSays => OkRevoked(s2c') /\ Has(s2c', "CLOSE")
    /\ \/ c2s' = c2s /\ (Keeps \/ Closes)
       \/ /\ c2s # <<>> /\ c2s' = Tail(c2s)
          /\ \/ Keeps
             \/ Opens /\ Head(c2s) = "HANDSHAKE"
             \/ Auths /\ Head(c2s) = "AUTH"
             \/ Closes
          /\ Head(c2s) = "CLOSE" => Sessions' = {}

(* The queues of a step in which the client acts.                          *)
LEMMA ClientQueues ==
    ASSUME Queues, NEW t, ClientStep(t)
    PROVE  /\ Queues'
           /\ \A u : Has(s2c', u) => Has(s2c, u)
           /\ \A u : Has(c2s', u) => Has(c2s, u) \/ u \in ClientSays
<1>1. s2c' \in Seq(Wire) /\ \A u : Has(s2c', u) => Has(s2c, u)
    BY Dequeued DEF ClientStep, Queues
<1>2. /\ c2s' \in Seq(Wire) /\ faults' = faults
      /\ \A u : Has(c2s', u) => Has(c2s, u) \/ u \in ClientSays
    BY GrownHas DEF ClientStep, Grown
<1> QED
    BY <1>1, <1>2 DEF Queues

(* The queues of a step in which the server acts.                          *)
LEMMA ServerQueues ==
    ASSUME Queues, ServerStep
    PROVE  /\ Queues'
           /\ \A u : Has(c2s', u) => Has(c2s, u)
           /\ \A u : Has(s2c', u) => Has(s2c, u) \/ u \in ServerSays
<1>1. c2s' \in Seq(Wire) /\ \A u : Has(c2s', u) => Has(c2s, u)
    BY Dequeued DEF ServerStep, Queues
<1>2. /\ s2c' \in Seq(Wire) /\ faults' = faults
      /\ \A u : Has(s2c', u) => Has(s2c, u) \/ u \in ServerSays
    BY GrownHas DEF ServerStep, Grown
<1> QED
    BY <1>1, <1>2 DEF Queues

(* A promise to be revoked stays one.                                      *)
LEMMA ClientRevoked ==
    ASSUME Queues, NEW t, ClientStep(t), Revoked
    PROVE  Revoked'
<1>1. ClientMoves(t)
    BY DEF ClientStep
<1>2. CASE t = "none" /\ s2c' = s2c
    BY <1>1, <1>2 DEF Revoked, ClientMoves
<1>3. CASE s2c # <<>> /\ t = Head(s2c) /\ s2c' = Tail(s2c) /\ main \notin Accepted
    <2>1. /\ OkRevoked(s2c')
          /\ t = "AUTH_OK" => Has(s2c', "CLOSE")
          /\ Has(s2c, "CLOSE") => t = "CLOSE" \/ Has(s2c', "CLOSE")
        BY <1>3, Dequeued DEF Revoked, Queues
    <2> QED
        BY <1>1, <1>3, <2>1 DEF Revoked, ClientMoves
<1> QED
    BY <1>2, <1>3 DEF ClientStep

(* The server promises nothing new, or it says CLOSE.                      *)
LEMMA ServerRevoked ==
    ASSUME Queues, ServerStep
    PROVE  /\ Revoked /\ "AUTH_OK" \notin ServerSays => Revoked'
           /\ "CLOSE" \in ServerSays => Revoked'
<1>1. main' = main /\ stop' = stop
    BY DEF ServerStep
<1>2. ASSUME Revoked, "AUTH_OK" \notin ServerSays
      PROVE  Revoked'
    <2>1. OkRevoked(s2c') /\ (Has(s2c, "CLOSE") => Has(s2c', "CLOSE"))
        BY <1>2, GrownKeeps, GrownHas DEF ServerStep, Revoked
    <2> QED
        BY <1>1, <1>2, <2>1 DEF Revoked
<1>3. ASSUME "CLOSE" \in ServerSays
      PROVE  Revoked'
    BY <1>3 DEF ServerStep, Revoked
<1> QED
    BY <1>2, <1>3

(* The invariant, when the client acts ...                                 *)
LEMMA ClientStepInv ==
    ASSUME VpnInv, NEW t, ClientStep(t)
    PROVE  VpnInv'
<1>1. /\ Queues' /\ ServerSide'
      /\ \A u : Has(s2c', u) => Has(s2c, u)
      /\ \A u : Has(c2s', u) => Has(c2s, u) \/ u \in ClientSays
    BY ClientQueues DEF VpnInv, ClientStep
<1>2. ClientMoves(t) /\ Keeps /\ faults' = faults
    BY DEF ClientStep
<1>3. NotYet'
    BY <1>1, <1>2 DEF VpnInv, NotYet, ClientMoves, Before
<1>4. InOrder'
    <2>1. CASE "HANDSHAKE" \in ClientSays
        <3>1. ~Has(c2s, "AUTH") /\ "AUTH" \notin ClientSays
            BY <1>2, <2>1 DEF VpnInv, NotYet, ClientMoves, Before
        <3> QED
            BY <3>1, GrownKeeps DEF ClientStep, InOrder
    <2>2. CASE "HANDSHAKE" \notin ClientSays
        BY <1>2, <2>2, GrownKeeps DEF VpnInv, ClientStep, InOrder
    <2> QED
        BY <2>1, <2>2
<1>5. ASSUME "HANDSHAKE" \in ClientSays
      PROVE  ~Has(s2c', "AUTH_OK") /\ main' = "handshake_wait"
    BY <1>1, <1>2, <1>5 DEF VpnInv, NotYet, ClientMoves, Before
<1>6. Settled'
    <2> SUFFICES ASSUME faults = 0,
                        Has(s2c', "AUTH_OK") \/ main' \in Accepted \cup {"loop"}
                 PROVE  /\ ~Has(c2s', "HANDSHAKE")
                        /\ Established' \/ Sessions' = {}
        BY <1>2 DEF Settled
    <2>1. "HANDSHAKE" \notin ClientSays
        BY <1>5 DEF Accepted
    <2>2. Has(s2c, "AUTH_OK") \/ main \in Accepted \cup {"loop"}
        <3>1. CASE Has(s2c', "AUTH_OK")
            BY <1>1, <3>1
        <3>2. CASE main' \in Accepted \cup {"loop"}
            <4>1. \/ main \in Accepted \cup {"loop"}
                  \/ t = "AUTH_OK"
                BY <1>2, <3>2 DEF ClientMoves
            <4>2. t = "AUTH_OK" => Has(s2c, "AUTH_OK")
                BY Dequeued DEF ClientStep, VpnInv, Queues
            <4> QED
                BY <4>1, <4>2
        <3> QED
            BY <3>1, <3>2
    <2>3. ~Has(c2s, "HANDSHAKE") /\ (Established \/ Sessions = {})
        BY <2>2 DEF VpnInv, Settled
    <2> QED
        BY <1>1, <1>2, <2>1, <2>3 DEF Keeps
<1>7. Agreed'
    BY <1>2, ClientRevoked DEF VpnInv, Agreed, Keeps
<1>8. Closed'
    <2> SUFFICES ASSUME faults = 0, main' = "exited"
                 PROVE  NoSession' \/ CloseFollows(c2s')
        BY <1>2 DEF Closed
    <2>1. main = "exited" \/ "CLOSE" \in ClientSays
        BY <1>2 DEF ClientMoves
    <2>2. "HANDSHAKE" \notin ClientSays
        BY <1>5
    <2>3. CASE "CLOSE" \in ClientSays
        BY <2>3 DEF ClientStep
    <2>4. CASE main = "exited"
        <3>1. NoSession \/ CloseFollows(c2s)
            BY <2>4 DEF VpnInv, Closed
        <3>2. NoSession => NoSession'
            BY <1>1, <1>2, <2>2 DEF NoSession, Keeps
        <3>3. CloseFollows(c2s) => CloseFollows(c2s')
            BY <2>2, GrownKeeps DEF ClientStep
        <3> QED
            BY <3>1, <3>2, <3>3
    <2> QED
        BY <2>1, <2>3, <2>4
<1>9. AgreedOrGone'
    <2>1. CASE "HANDSHAKE" \in ClientSays
        <3>1. Revoked'
            BY <1>5, <2>1 DEF Revoked, OkRevoked, Has, Accepted
        <3> QED
            BY <3>1 DEF AgreedOrGone
    <2>2. CASE "HANDSHAKE" \notin ClientSays
        <3>1. NoSession => NoSession'
            BY <1>1, <1>2, <2>2 DEF NoSession, Keeps
        <3> QED
            BY <1>2, <3>1, ClientRevoked DEF VpnInv, AgreedOrGone, Keeps
    <2> QED
        BY <2>1, <2>2
<1> QED
    BY <1>1, <1>3, <1>4, <1>6, <1>7, <1>8, <1>9 DEF VpnInv

(* ... and when the server does.                                           *)
LEMMA ServerStepInv ==
    ASSUME VpnInv, ServerStep
    PROVE  VpnInv'
<1>1. /\ Queues' /\ ServerSide'
      /\ \A u : Has(c2s', u) => Has(c2s, u)
      /\ \A u : Has(s2c', u) => Has(s2c, u) \/ u \in ServerSays
    BY ServerQueues DEF VpnInv, ServerStep
<1>2. main' = main /\ stop' = stop /\ faults' = faults
    BY DEF ServerStep
<1>3. \/ Keeps
      \/ Opens /\ Has(c2s, "HANDSHAKE")
      \/ Auths /\ Has(c2s, "AUTH")
               /\ (AuthFollows(c2s) => ~Has(c2s', "HANDSHAKE"))
      \/ Closes
    BY Dequeued DEF ServerStep, VpnInv, Queues
<1>4. NotYet'
    BY <1>1, <1>2, <1>3 DEF VpnInv, NotYet, Keeps, Opens, Closes
<1>5. InOrder'
    BY <1>2, Dequeued DEF VpnInv, Queues, InOrder, ServerStep
<1>6. ASSUME NoSession
      PROVE  NoSession'
    BY <1>1, <1>3, <1>6 DEF NoSession, Keeps, Auths, Closes
<1>7. Settled'
    <2> SUFFICES ASSUME faults = 0,
                        Has(s2c', "AUTH_OK") \/ main \in Accepted \cup {"loop"}
                 PROVE  /\ ~Has(c2s', "HANDSHAKE")
                        /\ Established' \/ Sessions' = {}
        BY <1>2 DEF Settled
    <2>1. CASE Has(s2c, "AUTH_OK") \/ main \in Accepted \cup {"loop"}
        <3>1. ~Has(c2s, "HANDSHAKE") /\ (Established \/ Sessions = {})
            BY <2>1 DEF VpnInv, Settled
        <3> QED
            BY <1>1, <1>3, <3>1 DEF Keeps, Auths, Closes
    <2>2. CASE "AUTH_OK" \in ServerSays
        <3>1. Auths /\ ~Has(c2s', "HANDSHAKE")
            BY <1>3, <2>2 DEF Keeps, Opens, Closes, VpnInv, InOrder
        <3> QED
            BY <3>1 DEF Auths
    <2> QED
        BY <1>1, <2>1, <2>2
<1>8. ASSUME Established \/ Revoked
      PROVE  Established' \/ Revoked'
    <2>1. CASE Keeps
        BY <1>8, <2>1, ServerRevoked DEF Keeps, VpnInv
    <2>2. CASE Opens
        BY <1>8, <2>2, ServerRevoked DEF Opens, Established, VpnInv
    <2>3. CASE Auths
        BY <2>3 DEF Auths
    <2>4. CASE Closes
        BY <2>4, ServerRevoked DEF Closes, VpnInv
    <2> QED
        BY <1>3, <2>1, <2>2, <2>3, <2>4
<1>9. Agreed'
    BY <1>2, <1>8 DEF VpnInv, Agreed
<1>10. AgreedOrGone'
    BY <1>2, <1>6, <1>8 DEF VpnInv, AgreedOrGone
<1>11. Closed'
    <2> SUFFICES ASSUME faults = 0, main = "exited"
                 PROVE  NoSession' \/ CloseFollows(c2s')
        BY <1>2 DEF Closed
    <2>1. CASE CloseFollows(c2s)
        <3>1. CASE c2s' = c2s
            BY <2>1, <3>1
        <3>2. CASE /\ c2s # <<>> /\ c2s' = Tail(c2s)
                   /\ Head(c2s) = "CLOSE" => Sessions' = {}
            BY <2>1, <3>2, Dequeued DEF VpnInv, Queues, NoSession
        <3> QED
            BY <3>1, <3>2 DEF ServerStep
    <2> QED
        BY <1>6, <2>1 DEF VpnInv, Closed
<1> QED
    BY <1>1, <1>4, <1>5, <1>7, <1>9, <1>10, <1>11 DEF VpnInv

(* The client's steps are such steps ...                                   *)
LEMMA ClientActs ==
    ASSUME Queues, NEW t, ClientMoves(t), ServerSide' /\ Keeps, sent' = {},
           NEW s, Transmit(c2s, s),
           \/ t = "none" /\ s = s2c
           \/ s2c # <<>> /\ t = Head(s2c) /\ s = Tail(s2c) /\ main \notin Accepted
    PROVE  ClientStep(t)
<1>1. /\ c2s' = Enqueue(c2s, ClientSays)
      /\ s2c' = Enqueue(s, ServerSays)
      /\ faults' = faults
    BY DEF Transmit
<1>2. ServerSays = {} /\ s \in Seq(Wire)
    BY Dequeued DEF ServerSays, Queues
<1>3. s2c' = s
    BY <1>1, <1>2, EnqueuedNone
<1>4. /\ Grown(c2s, c2s', ClientSays)
      /\ "CLOSE" \in ClientSays => Len(c2s') > Len(c2s) /\ c2s'[Len(c2s')] = "CLOSE"
    BY <1>1, Enqueued DEF Queues
<1>5. "CLOSE" \in ClientSays => CloseFollows(c2s')
    BY <1>4, EndsInClose DEF Grown
<1> QED
    BY <1>1, <1>3, <1>4, <1>5 DEF ClientStep

(* ... and so are the server's.                                            *)
LEMMA ServerActs ==
    ASSUME Queues, ServerOnly, ServerSide', NEW c, Transmit(c, s2c),
           \/ c = c2s /\ (Keeps \/ Closes)
           \/ /\ c2s # <<>> /\ c = Tail(c2s)
              /\ \/ Keeps
                 \/ Opens /\ Head(c2s) = "HANDSHAKE"
                 \/ Auths /\ Head(c2s) = "AUTH"
                 \/ Closes
              /\ Head(c2s) = "CLOSE" => Sessions' = {}
    PROVE  ServerStep
<1>1. /\ c2s' = Enqueue(c, ClientSays)
      /\ s2c' = Enqueue(s2c, ServerSays)
      /\ faults' = faults
    BY DEF Transmit
<1>2. ClientSays = {} /\ main' = main /\ stop' = stop
    BY ClientRests DEF ServerOnly
<1>3. c \in Seq(Wire)
    BY Dequeued DEF Queues
<1>4. c2s' = c
    BY <1>1, <1>2, <1>3, EnqueuedNone
<1>5. /\ Grown(s2c, s2c', ServerSays)
      /\ "CLOSE" \in ServerSays => Len(s2c') > Len(s2c) /\ s2c'[Len(s2c')] = "CLOSE"
    BY <1>1, Enqueued DEF Queues
<1>6. "CLOSE" \in ServerSays => OkRevoked(s2c') /\ Has(s2c', "CLOSE")
    BY <1>5, EndsInClose DEF Grown
<1> QED
    BY <1>1, <1>2, <1>4, <1>5, <1>6 DEF ServerStep

(* Time passes.                                                            *)
LEMMA TickInv ==
    ASSUME VpnInv, BothTick
    PROVE  VpnInv'
<1>1. /\ UNCHANGED cl_state \/ Cl!Tick
      /\ csent' = <<>>
      /\ UNCHANGED sv_state \/ Tick
      /\ sent' = {}
    BY DEF BothTick, Cl!Tick, Tick, Cl!Quiet
<1>2. Transmit(c2s, s2c)
    BY DEF BothTick
<1>3. ClientMoves("none")
    BY <1>1, ClientRests
<1>4. ServerSide' /\ Keeps
    BY <1>1, ServerRests DEF VpnInv
<1>5. ClientStep("none")
    BY <1>1, <1>2, <1>3, <1>4, ClientActs DEF VpnInv
<1> QED
    BY <1>5, ClientStepInv

(* The client is gone and its socket closed.                               *)
LEMMA ClientGoneInv ==
    ASSUME VpnInv, ClientGone
    PROVE  VpnInv'
<1>1. /\ main = "exited" /\ main' = main /\ stop' = stop
      /\ s2c # <<>> /\ s2c' = Tail(s2c) /\ c2s' = c2s /\ faults' = faults
      /\ pool' = pool /\ info' = info
    BY DEF ClientGone, cl_vars, cl_state, sv_vars, sv_state
<1>2. /\ s2c' \in Seq(Wire)
      /\ \A u : Has(s2c', u) => Has(s2c, u)
      /\ OkRevoked(s2c) => OkRevoked(s2c')
    BY <1>1, Dequeued DEF VpnInv, Queues
<1>3. ServerSide' /\ Sessions' = Sessions
    BY <1>1 DEF Sessions, VpnInv, ServerSide
<1>4. Established' <=> Established
    BY <1>1, <1>3 DEF Established
<1>5. Queues' /\ NotYet' /\ InOrder' /\ Closed'
    BY <1>1, <1>2, <1>3 DEF VpnInv, Queues, NotYet, InOrder, Closed, NoSession
<1>6. (NoSession => NoSession') /\ (Revoked => Revoked')
    BY <1>1, <1>2, <1>3 DEF NoSession, Revoked, Accepted
<1>7. Settled'
    BY <1>1, <1>2, <1>3, <1>4 DEF VpnInv, Settled
<1>8. Agreed' /\ AgreedOrGone'
    BY <1>1, <1>4, <1>6 DEF VpnInv, Agreed, AgreedOrGone
<1> QED
    BY <1>3, <1>5, <1>7, <1>8 DEF VpnInv

(* The network misdelivers.  Only what holds up to one fault is left to    *)
(* show, and only for the first.                                           *)
LEMMA MisdeliverInv ==
    ASSUME VpnInv, Misdeliver
    PROVE  VpnInv'
<1>1. /\ main' = main /\ stop' = stop /\ pool' = pool /\ info' = info
      /\ faults' = faults + 1
    BY DEF Misdeliver, cl_vars, cl_state, sv_vars, sv_state
<1>2. /\ faults \in Nat /\ faults' \in Nat /\ faults' # 0
      /\ faults' <= 1 => faults = 0
    BY <1>1 DEF VpnInv, Queues
<1>3. /\ c2s' \in Seq(Wire) /\ s2c' \in Seq(Wire)
      /\ \A u : (Has(c2s', u) => Has(c2s, u)) /\ (Has(s2c', u) => Has(s2c, u))
    BY FaultyHas DEF Misdeliver, Control, VpnInv, Queues
<1>4. ServerSide' /\ Sessions' = Sessions
    BY <1>1 DEF Sessions, VpnInv, ServerSide
<1>5. Established' <=> Established
    BY <1>1, <1>4 DEF Established
<1>6. Queues' /\ NotYet' /\ InOrder' /\ Settled' /\ Agreed' /\ Closed'
    BY <1>1, <1>2, <1>3 DEF VpnInv, Queues, NotYet, InOrder, Settled, Agreed, Closed
<1>7. AgreedOrGone'
    <2> SUFFICES ASSUME faults = 0
                 PROVE  Established' \/ Revoked' \/ NoSession'
        BY <1>2 DEF AgreedOrGone
    <2>1. CASE Has(s2c, "AUTH_OK") \/ main \in Accepted \cup {"loop"}
        <3>1. ~Has(c2s, "HANDSHAKE") /\ (Established \/ Sessions = {})
            BY <2>1 DEF VpnInv, Settled
        <3> QED
            BY <1>3, <1>4, <1>5, <3>1 DEF NoSession
    <2>2. CASE ~(Has(s2c, "AUTH_OK") \/ main \in Accepted \cup {"loop"})
        <3>1. ~Has(s2c', "AUTH_OK")
            BY <1>3, <2>2
        <3> QED
            BY <1>1, <2>2, <3>1 DEF Revoked, OkRevoked, Has
    <2> QED
        BY <2>1, <2>2
<1> QED
    BY <1>4, <1>6, <1>7 DEF VpnInv

(* The invariant holds at the start ...                                    *)
LEMMA VpnInitInv == VpnInit => VpnInv
<1> SUFFICES ASSUME VpnInit
             PROVE  VpnInv
    OBVIOUS
<1>1. /\ pool = InitPool /\ info = [i \in Slot |-> ResetInfo]
      /\ main = "init_state" /\ c2s = <<>> /\ s2c = <<>> /\ faults = 0
    BY DEF VpnInit, Cl!Init, Init
<1>2. PoolInv(pool) /\ Connected(pool) = {}
    BY <1>1, InitPoolInv
<1>3. DOMAIN ResetInfo = InfoFields
    BY DEF ResetInfo, InfoFields
<1>4. ServerSide
    BY <1>1, <1>2, <1>3 DEF ServerSide
<1>5. /\ c2s \in Seq(Wire) /\ s2c \in Seq(Wire)
      /\ \A u : ~Has(c2s, u) /\ ~Has(s2c, u)
      /\ OkRevoked(s2c) /\ AuthFollows(c2s)
    BY <1>1 DEF Has, OkRevoked, AuthFollows
<1>6. Revoked
    BY <1>1, <1>5 DEF Revoked, Accepted
<1> QED
    BY <1>1, <1>4, <1>5, <1>6 DEF VpnInv, Queues, NotYet, InOrder, Settled, Agreed, Closed,
                                  AgreedOrGone, Accepted

(* ... and every step keeps it.                                            *)
LEMMA VpnNextInv ==
    ASSUME VpnInv, [VpnNext]_vpn_vars
    PROVE  VpnInv'
<1>1. ASSUME NEW t, ClientMoves(t), ClientOnly, NEW s, Transmit(c2s, s),
             \/ t = "none" /\ s = s2c
             \/ s2c # <<>> /\ t = Head(s2c) /\ s = Tail(s2c) /\ main \notin Accepted
      PROVE  VpnInv'
    <2>1. UNCHANGED sv_state /\ sent' = {}
        BY <1>1 DEF ClientOnly
    <2>2. ServerSide' /\ Keeps
        BY <2>1, ServerRests DEF VpnInv
    <2>3. ClientStep(t)
        BY <1>1, <2>1, <2>2, ClientActs DEF VpnInv
    <2> QED
        BY <2>3, ClientStepInv
<1>2. CASE ClientRuns
    BY <1>1, <1>2, ClientRunsStep DEF ClientRuns
<1>3. CASE ClientTimesOut
    BY <1>1, <1>3, ClientTimesOutStep DEF ClientTimesOut
<1>4. CASE ClientReceives
    <2>1. /\ ClientOnly /\ Transmit(c2s, Tail(s2c)) /\ s2c # <<>>
        BY <1>4 DEF ClientReceives
    <2> QED
        BY <1>1, <1>4, <2>1, ClientReceivesStep
<1>5. CASE ClientGone
    BY <1>5, ClientGoneInv
<1>6. CASE ClientForwards
    BY <1>1, <1>6, ClientForwardsStep DEF ClientForwards
<1>7. CASE ServerReceives
    <2>1. ServerOnly /\ Transmit(Tail(c2s), s2c) /\ c2s # <<>>
        BY <1>7 DEF ServerReceives
    <2>2. ServerStep
        BY <1>7, <2>1, ServerReceivesStep, ServerActs DEF VpnInv
    <2> QED
        BY <2>2, ServerStepInv
<1>8. CASE ServerReaps
    <2>1. ServerOnly /\ Transmit(c2s, s2c)
        BY <1>8 DEF ServerReaps
    <2>2. ServerStep
        BY <1>8, <2>1, ServerReapsStep, ServerActs DEF VpnInv
    <2> QED
        BY <2>2, ServerStepInv
<1>9. CASE BothTick
    BY <1>9, TickInv
<1>10. CASE Misdeliver
    BY <1>10, MisdeliverInv
<1>11. CASE UNCHANGED vpn_vars
    <2>1. /\ main' = main /\ stop' = stop /\ pool' = pool /\ info' = info
          /\ c2s' = c2s /\ s2c' = s2c /\ faults' = faults
        BY <1>11 DEF vpn_vars, cl_vars, cl_state, sv_vars, sv_state, net_vars
    <2>2. ServerSide' /\ Sessions' = Sessions
        BY <2>1 DEF Sessions, VpnInv, ServerSide
    <2>3. Established' <=> Established
        BY <2>1, <2>2 DEF Established
    <2>4. (NoSession' <=> NoSession) /\ (Revoked' <=> Revoked)
        BY <2>1, <2>2 DEF NoSession, Revoked
    <2> QED
        BY <2>1, <2>2, <2>3, <2>4 DEF VpnInv, Queues, NotYet, InOrder, Settled, Agreed,
                                      Closed, AgreedOrGone
<1> QED
    BY <1>2, <1>3, <1>4, <1>5, <1>6, <1>7, <1>8, <1>9, <1>10, <1>11 DEF VpnNext

(* VpnInv is an invariant, whatever the constants are.                     *)
LEMMA VpnInvariant ==
    VpnSpec => []VpnInv
<1>1. VpnInit => VpnInv
    BY VpnInitInv
<1>2. VpnInv /\ [VpnNext]_vpn_vars => VpnInv'
    BY VpnNextInv
<1> QED
    BY <1>1, <1>2, PTL DEF VpnSpec

(* Without misdeliveries a client that do_handshake() and do_auth() let    *)
(* into its loop has its authenticated session on the server, or its end   *)
(* is under way.                                                           *)
THEOREM SidesAgreeAlways ==
    VpnSpec => []SidesAgree
<1>1. VpnInv => SidesAgree
    <2>1. Has(s2c, "CLOSE") => "CLOSE" \in ToSet(s2c)
        BY DEF Has, ToSet
    <2> QED
        BY <2>1 DEF VpnInv, Agreed, Revoked, SidesAgree
<1> QED
    BY <1>1, VpnInvariant, PTL

(* Without misdeliveries nothing stays on the server of a client that      *)
(* went through destroy_state(), once its packets have arrived.            *)
THEOREM CloseComesLast ==
    VpnSpec => []CloseIsLast
<1>1. VpnInv => CloseIsLast
    BY DEF VpnInv, Closed, NoSession, CloseFollows, CloseIsLast
<1> QED
    BY <1>1, VpnInvariant, PTL

(* One misdelivery, whichever packet it hits and whenever, does not leave  *)
(* a client in its loop with a session that is not authenticated.          *)
THEOREM OneFaultIsHarmless ==
    VpnSpec => []NoHalfOpen
<1>1. VpnInv => NoHalfOpen
    <2>1. Has(s2c, "CLOSE") => "CLOSE" \in ToSet(s2c)
        BY DEF Has, ToSet
    <2> QED
        BY <2>1 DEF VpnInv, AgreedOrGone, Revoked, NoSession, NoHalfOpen
<1> QED
    BY <1>1, VpnInvariant, PTL
=============================================================================
