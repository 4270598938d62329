---------------------------- MODULE SessionRace ----------------------------
(***************************************************************************)
(* The threads of the UDP server at the grain of their accesses to the     *)
(* session slots.  The main thread looks a session up, releases the map    *)
(* lock and goes on with the pointer; the reaper tests is_connected, reads *)
(* last_act and closes the slot; a TUN worker reads the route map or       *)
(* is_authenticated and then sends to the address in the slot.  No lock is *)
(* held from the test to the use.                                          *)
(*                                                                         *)
(* A step is one access to shared fields, or one critical section of       *)
(* sess_stk_lock (which encloses those of sess_map_lock).  Time is the     *)
(* flag stale of a slot: last_act is further back than both timeouts.      *)
(***************************************************************************)
EXTENDS SessionOps

CONSTANTS IpKey,      \* low 16 bits of the interface addresses users have
          MaxDoubles  \* bound on doubles: each may leave one entry more in a
                      \* bucket, and the lists would grow without end

ASSUME RaceAssumption == IpKey \subseteq Uint16 \ {0} /\ MaxDoubles \in Nat

Main   == "main"
Reaper == "zombie-reaper"
Closer == {Main, Reaper}      \* the threads that close sessions

NoPeer == <<<<0, 0>>, 0>>     \* sess->addr of a slot that was reset

VARIABLES pool,       \* sess_stk, sess_map, sess_arr, n_on_sess
          info,       \* the other fields of each slot
          ipv4_map,   \* 0, or the slot index plus one
          pc,         \* what each thread does next
          at,         \* the slot each thread holds a pointer to
          arg,        \* the client or the address of the packet in hand
          worker,     \* the TUN worker: "read", or the slot it sends to
          bug,        \* BUG_ON(bt_stack_push(...) == -1) came true
          doubles,    \* deletions of a slot that was free already
          overlapped  \* the closing threads have met in one slot

vars == <<pool, info, ipv4_map, pc, at, arg, worker, bug, doubles>>

(* reset_udp_session() zeroes last_act too: a reset slot looks stale.      *)
ResetInfo == [addr |-> NoPeer, is_authenticated |-> FALSE, ipv4_iff |-> 0,
              stale |-> TRUE]

(* The address of a new client, and the interface address of a user.       *)
NoArg == [client |-> NoPeer, ip |-> 0]

Init == /\ pool = InitPool
        /\ info = [i \in Slot |-> ResetInfo]
        /\ ipv4_map = [k \in IpKey \cup {0} |-> 0]
        /\ pc = [t \in Closer |-> "idle"]
        /\ at = [t \in Closer |-> 0]
        /\ arg = NoArg
        /\ worker = [pc |-> "read", i |-> 0]
        /\ bug = FALSE
        /\ doubles = 0
        /\ overlapped = FALSE

GoTo(t, l) == pc' = [pc EXCEPT ![t] = l]

-----------------------------------------------------------------------------
(* The main thread, one datagram.                                          *)

(* lookup_udp_sess() misses and create_udp_sess() takes a slot.  Only this *)
(* thread inserts, so the miss still stands when the slot is taken.        *)
MainCreate(c) ==
    /\ pc[Main] = "idle"
    /\ lookup_udp_sess(pool, c) = NULL /\ ~StackEmpty(pool.stk)
    /\ pool' = create_udp_sess(pool, c)
    /\ info' = [info EXCEPT ![bt_stack_top(pool.stk)].stale = FALSE]
    /\ at' = [at EXCEPT ![Main] = bt_stack_top(pool.stk)]
    /\ arg' = [NoArg EXCEPT !.client = c]
    /\ GoTo(Main, "set_addr")
    /\ UNCHANGED <<ipv4_map, worker, bug, doubles>>

(* No memory for the entry of the map: the index goes back, and the main   *)
(* thread leaves its loop.                                                 *)
MainNoMem(c) ==
    /\ pc[Main] = "idle"
    /\ lookup_udp_sess(pool, c) = NULL /\ ~StackEmpty(pool.stk)
    /\ InsertAllocates(pool.map, c[1])
    /\ pool' = create_udp_sess_nomem(pool, c)
    /\ GoTo(Main, "left")
    /\ UNCHANGED <<info, ipv4_map, at, arg, worker, bug, doubles>>

(* sess->addr = *saddr                                                     *)
MainSetAddr ==
    /\ pc[Main] = "set_addr"
    /\ info' = [info EXCEPT ![at[Main]].addr = arg.client]
    /\ GoTo(Main, "handshake")
    /\ UNCHANGED <<pool, ipv4_map, at, arg, worker, bug, doubles>>

(* A good handshake is answered; a bad one closes the session.             *)
MainHandshake ==
    /\ pc[Main] = "handshake"
    /\ \/ GoTo(Main, "idle")
       \/ GoTo(Main, "unroute")
    /\ arg' = NoArg
    /\ UNCHANGED <<pool, info, ipv4_map, at, worker, bug, doubles>>

(* lookup_udp_sess() hits: SYNC, REQSYNC and every 32nd packet touch       *)
(* last_act, AUTH authenticates, CLOSE or a bad type closes.               *)
MainDispatch(c) ==
    /\ pc[Main] = "idle"
    /\ lookup_udp_sess(pool, c) # NULL
    /\ at' = [at EXCEPT ![Main] = lookup_udp_sess(pool, c)]
    /\ \/ GoTo(Main, "touch") /\ arg' = NoArg
       \/ GoTo(Main, "auth") /\ \E k \in IpKey : arg' = [NoArg EXCEPT !.ip = k]
       \/ GoTo(Main, "unroute") /\ arg' = NoArg
    /\ UNCHANGED <<pool, info, ipv4_map, worker, bug, doubles>>

MainTouch ==
    /\ pc[Main] = "touch"
    /\ info' = [info EXCEPT ![at[Main]].stale = FALSE]
    /\ GoTo(Main, "idle")
    /\ UNCHANGED <<pool, ipv4_map, at, arg, worker, bug, doubles>>

(* handle_clpkt_auth(): a no-op on an authenticated session; otherwise     *)
(* either the session is closed (rejected, or AUTH_OK cannot be sent) or,  *)
(* after AUTH_OK is sent, the address, the route and the flag are written  *)
(* one after the other.                                                    *)
MainAuth ==
    /\ pc[Main] = "auth"
    /\ IF info[at[Main]].is_authenticated
       THEN GoTo(Main, "idle")
       ELSE GoTo(Main, "auth_ip") \/ GoTo(Main, "unroute")
    /\ UNCHANGED <<pool, info, ipv4_map, at, arg, worker, bug, doubles>>

MainAuthIp ==
    /\ pc[Main] = "auth_ip"
    /\ info' = [info EXCEPT ![at[Main]].ipv4_iff = arg.ip]
    /\ GoTo(Main, "auth_route")
    /\ UNCHANGED <<pool, ipv4_map, at, arg, worker, bug, doubles>>

(* The address is read from the slot again, or is still at hand.           *)
MainAuthRoute ==
    /\ pc[Main] = "auth_route"
    /\ \E k \in {arg.ip, info[at[Main]].ipv4_iff} :
          ipv4_map' = [ipv4_map EXCEPT ![k] = at[Main] + 1]
    /\ GoTo(Main, "auth_flag")
    /\ UNCHANGED <<pool, info, at, arg, worker, bug, doubles>>

MainAuthFlag ==
    /\ pc[Main] = "auth_flag"
    /\ info' = [info EXCEPT ![at[Main]].is_authenticated = TRUE]
    /\ GoTo(Main, "idle")
    /\ arg' = NoArg
    /\ UNCHANGED <<pool, ipv4_map, at, worker, bug, doubles>>

-----------------------------------------------------------------------------
(* The reaper examines the slots in turn.                                  *)

NextSlot == at' = [at EXCEPT ![Reaper] = (@ + 1) % MaxConn]

(* The scan starts when n_on_sess is not zero; the first test reads        *)
(* is_connected ...                                                        *)
ReaperTest ==
    /\ pc[Reaper] = "idle"
    /\ at[Reaper] = 0 => pool.n_on_sess # 0
    /\ IF pool.sess[at[Reaper]].is_connected
       THEN GoTo(Reaper, "age") /\ UNCHANGED at
       ELSE NextSlot /\ UNCHANGED pc
    /\ UNCHANGED <<pool, info, ipv4_map, arg, worker, bug, doubles>>

(* ... and the second one last_act.                                        *)
ReaperAge ==
    /\ pc[Reaper] = "age"
    /\ IF info[at[Reaper]].stale
       THEN GoTo(Reaper, "unroute") /\ UNCHANGED at
       ELSE NextSlot /\ GoTo(Reaper, "idle")
    /\ UNCHANGED <<pool, info, ipv4_map, arg, worker, bug, doubles>>

-----------------------------------------------------------------------------
(* close_udp_session() and zr_close_sess().                                *)

(* Slips: the route stays; the slot is freed with its fields as they were. *)
CloseUnroute_Keeps(t) ==
    /\ pc[t] = "unroute"
    /\ GoTo(t, "delete")
    /\ UNCHANGED <<pool, info, ipv4_map, at, arg, worker, bug, doubles>>

CloseUnroute(t) ==
    /\ pc[t] = "unroute"
    /\ LET k == info[at[t]].ipv4_iff
       IN  ipv4_map' = IF k # 0 THEN [ipv4_map EXCEPT ![k] = 0] ELSE ipv4_map
    /\ GoTo(t, "delete")
    /\ UNCHANGED <<pool, info, at, arg, worker, bug, doubles>>

CloseDelete_NoReset(t) ==
    /\ pc[t] = "delete"
    /\ pool' = delete_udp_session_locked(pool, at[t])
    /\ GoTo(t, "uncount")
    /\ UNCHANGED <<info, ipv4_map, at, arg, worker, bug, doubles>>

(* The critical section of delete_udp_session(), after CLOSE was sent (a   *)
(* send that may wait for the socket for half a minute).                   *)
CloseDelete(t) ==
    /\ pc[t] = "delete"
    /\ bug' = (bug \/ pool.stk.sp = 0)
    /\ IF at[t] \in Connected(pool)
       THEN UNCHANGED doubles
       ELSE doubles < MaxDoubles /\ doubles' = doubles + 1
    /\ pool' = delete_udp_session_locked(pool, at[t])
    /\ info' = [info EXCEPT ![at[t]] = ResetInfo]
    /\ GoTo(t, "uncount")
    /\ UNCHANGED <<ipv4_map, at, arg, worker>>

CloseUncount(t) ==
    /\ pc[t] = "uncount"
    /\ pool' = n_on_sess_sub(pool)
    /\ GoTo(t, "idle")
    /\ IF t = Reaper THEN NextSlot ELSE UNCHANGED at
    /\ UNCHANGED <<info, ipv4_map, arg, worker, bug, doubles>>

-----------------------------------------------------------------------------
(* A TUN worker, one packet: route_ipv4_packet() takes the slot from the   *)
(* route map, broadcast_packet() takes a slot it sees authenticated.       *)
WorkerRoute(k) ==
    /\ worker.pc = "read" /\ ipv4_map[k] # 0
    /\ worker' = [pc |-> "route", i |-> ipv4_map[k] - 1]
    /\ UNCHANGED <<pool, info, ipv4_map, pc, at, arg, bug, doubles>>

WorkerBroadcast(i) ==
    /\ worker.pc = "read" /\ info[i].is_authenticated
    /\ worker' = [pc |-> "broadcast", i |-> i]
    /\ UNCHANGED <<pool, info, ipv4_map, pc, at, arg, bug, doubles>>

(* sendto() reads the address from the slot.                               *)
WorkerSend ==
    /\ worker.pc # "read"
    /\ worker' = [pc |-> "read", i |-> 0]
    /\ UNCHANGED <<pool, info, ipv4_map, pc, at, arg, bug, doubles>>

(* A session has been idle for longer than its timeout.                    *)
Expire(i) ==
    /\ i \in Connected(pool) /\ ~info[i].stale
    /\ info' = [info EXCEPT ![i].stale = TRUE]
    /\ UNCHANGED <<pool, ipv4_map, pc, at, arg, worker, bug, doubles>>

Next == \/ \E c \in Client : MainCreate(c) \/ MainNoMem(c) \/ MainDispatch(c)
        \/ MainSetAddr \/ MainHandshake \/ MainTouch
        \/ MainAuth \/ MainAuthIp \/ MainAuthRoute \/ MainAuthFlag
        \/ ReaperTest \/ ReaperAge
        \/ \E t \in Closer : CloseUnroute(t) \/ CloseDelete(t) \/ CloseUncount(t)
        \/ \E k \in IpKey \cup {0} : WorkerRoute(k)
        \/ \E i \in Slot : WorkerBroadcast(i) \/ Expire(i)
        \/ WorkerSend

(* Both closing threads are inside a handler of the same slot.             *)
Overlap == /\ \A t \in Closer : pc[t] \notin {"idle", "left"}
           /\ at[Main] = at[Reaper]

(* The history of this: in the behaviours without an overlap no handler of *)
(* a slot is overtaken by the other closing thread, which is what a lock   *)
(* per session would leave.                                                *)
Spec == /\ Init
        /\ [][Next /\ overlapped' = (overlapped \/ Overlap')]_<<vars, overlapped>>

-----------------------------------------------------------------------------
(* WARN_ON(bkt->next != NULL) in map_insert_udp_sess() never fires: "If    *)
(* first entry is empty, there should be no next!", also after a slot was  *)
(* deleted twice or handed out twice.                                      *)
NoListBehindEmptyHead ==
    \A b \in AddrLo : pool.map[b].sess = NULL => pool.map[b].next = <<>>

(* The counter the reaper reads without a lock trails the stack pointer by *)
(* the closes between their unlock and their decrement, in every           *)
(* interleaving up to the first push on a full stack.  With 65535 slots    *)
(* all taken and a close in between, it wraps.                             *)
Uncounted == {t \in Closer : pc[t] = "uncount"}
CounterFollowsStack ==
    ~bug => pool.n_on_sess = (pool.stk.sp + Cardinality(Uncounted)) % TwoTo16

(* delete_udp_session() always finds room on the stack: its BUG_ON does    *)
(* not come true.                                                          *)
NoDoubleClose == ~bug

(* handle_new_client(): "After calling create_udp_sess(), we must have it  *)
(* on the map", the BUG_ON of which looks it up again.  Does not hold: the *)
(* reaper may go on with a slot that was freed and taken since it looked.  *)
LookupFindsCreated ==
    pc[Main] = "handshake" => lookup_udp_sess(pool, arg.client) = at[Main]

(* It does, as long as the closing threads have not met in one slot.       *)
CreatedIsOnMap == ~overlapped => LookupFindsCreated

(* handle_clpkt_auth() takes is_authenticated to say that "the client has  *)
(* already been authenticated": the session of a new client does not.      *)
(* Does not hold: AUTH may be handled in a slot that the reaper resets.    *)
NewClientUnauthenticated ==
    pc[Main] \in {"set_addr", "handshake"} => ~info[at[Main]].is_authenticated

(* broadcast_packet() is for "all authenticated clients": the client whose *)
(* address is in the slot when sendto() reads it is one.  Does not hold:   *)
(* the slot may change hands after the test.                               *)
BroadcastToAuthenticated ==
    worker.pc = "broadcast" /\ info[worker.i].addr # NoPeer =>
        info[worker.i].is_authenticated

(* The pool is exact between the critical sections, as long as the closing *)
(* threads have not met in one slot.                                       *)
PoolStaysExact == ~overlapped => PoolInv(pool)

(* create_udp_sess() clears neither the authentication nor the interface   *)
(* address of a slot: a free one must have none, and has none as long as   *)
(* the closing threads have not met in one slot.                           *)
FreeSlotsClean ==
    ~overlapped => \A i \in Slot \ Connected(pool) : info[i] = ResetInfo

(* No route leads to a free slot or to a session with another address, as  *)
(* long as the closing threads have not met in one slot.                   *)
RouteSound ==
    ~overlapped =>
        \A k \in IpKey : ipv4_map[k] # 0 =>
            /\ ipv4_map[k] - 1 \in Connected(pool)
            /\ info[ipv4_map[k] - 1].ipv4_iff = k
=============================================================================
