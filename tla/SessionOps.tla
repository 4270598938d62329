----------------------------- MODULE SessionOps -----------------------------
(***************************************************************************)
(* The session pool of the UDP server: the stack of free slots (stack.h),  *)
(* the hash table of buckets keyed by the low 16 bits of the source        *)
(* address, the slots themselves and the counter n_on_sess, with the       *)
(* functions of server/linux/udp_session.c that change them.               *)
(*                                                                         *)
(* The operators named after C functions map a pool to the pool those      *)
(* functions leave behind.  UdpSession is the pool on its own; UdpServer   *)
(* composes the same operators with the packet handlers.                   *)
(***************************************************************************)
EXTENDS Integers, FiniteSets, SequencesExt

CONSTANTS MaxConn,   \* cfg->sock.max_conn, a uint16_t
          AddrHi,    \* upper 16 bits of the IPv4 source addresses in use
          AddrLo,    \* lower 16 bits of the IPv4 source addresses in use
          Port       \* source ports in use

TwoTo16 == 65536                    \* uint16_t arithmetic is modulo 2^16
Uint16 == 0..(TwoTo16 - 1)

ASSUME PoolAssumption ==
    /\ MaxConn \in Uint16 /\ MaxConn > 0
    /\ AddrHi \subseteq Uint16 /\ 0 \in AddrHi
    /\ AddrLo \subseteq Uint16 /\ 0 \in AddrLo
    /\ Port \subseteq Uint16 /\ 0 \in Port

Slot == 0..(MaxConn - 1)
Addr == AddrHi \X AddrLo            \* an address is <<high half, low half>>

NULL   == -1
EAGAIN == -11
ENOMEM == -12
ENOENT == -2

(* No datagram comes from address 0.0.0.0 or from port 0.                  *)
Client == {c \in Addr \X Port : c[1] # <<0, 0>> /\ c[2] # 0}

-----------------------------------------------------------------------------
(* stack.h: arr[sp .. max_sp - 1] holds the free indices.                  *)

StackType == [sp : 0..MaxConn, arr : [Slot -> Slot]]

StackEmpty(stk) == stk.sp = MaxConn
bt_stack_top(stk) == stk.arr[stk.sp]
bt_stack_pop(stk) == [stk EXCEPT !.sp = @ + 1]

(* A slip: arr[sp--] = n in place of arr[--sp] = n.                        *)
bt_stack_push_PostDecrement(stk, n) ==
    IF stk.sp = 0 THEN stk
    ELSE [sp |-> stk.sp - 1,
          arr |-> IF stk.sp = MaxConn THEN stk.arr
                  ELSE [stk.arr EXCEPT ![stk.sp] = n]]

bt_stack_push(stk, n) ==
    IF stk.sp = 0 THEN stk
    ELSE [sp |-> stk.sp - 1, arr |-> [stk.arr EXCEPT ![stk.sp - 1] = n]]

(* The indices the stack offers to the next creations.                     *)
FreeList(stk) == {stk.arr[k] : k \in stk.sp..(MaxConn - 1)}

-----------------------------------------------------------------------------
(* The bucket table.  A bucket is an embedded head entry and the list of   *)
(* malloc()ed entries behind it.                                           *)

BucketType == [sess : Slot \cup {NULL}, next : Seq(Slot)]
EmptyBucket == [sess |-> NULL, next |-> <<>>]

addr_to_bkt(addr) == addr[2]

Link(bkt, i) ==
    IF bkt.sess = NULL THEN [sess |-> i, next |-> <<>>]
    ELSE [sess |-> bkt.sess, next |-> Append(bkt.next, i)]

(* A slip: the head entry is overwritten although it is occupied.          *)
map_insert_udp_sess_Overwrites(map, addr, i) ==
    [map EXCEPT ![addr_to_bkt(addr)].sess = i]

map_insert_udp_sess(map, addr, i) ==
    [map EXCEPT ![addr_to_bkt(addr)] = Link(@, i)]

(* malloc() is called, and may fail, only behind an occupied head entry.   *)
InsertAllocates(map, addr) == map[addr_to_bkt(addr)].sess # NULL

InBucket(bkt, i) == bkt.sess = i \/ Contains(bkt.next, i)

(* A slip: the first entry of the list is not moved into the head.         *)
Unlink_NoPromotion(bkt, i) ==
    IF bkt.sess # i
    THEN [sess |-> bkt.sess, next |-> RemoveFirst(bkt.next, i)]
    ELSE [sess |-> NULL, next |-> bkt.next]

Unlink(bkt, i) ==
    IF bkt.sess # i
    THEN [sess |-> bkt.sess, next |-> RemoveFirst(bkt.next, i)]
    ELSE IF bkt.next = <<>>
         THEN EmptyBucket
         ELSE [sess |-> Head(bkt.next), next |-> Tail(bkt.next)]

remove_sess_from_bkt(map, addr, i) ==
    IF InBucket(map[addr_to_bkt(addr)], i)
    THEN [map EXCEPT ![addr_to_bkt(addr)] = Unlink(@, i)]
    ELSE map

-----------------------------------------------------------------------------
(* The slots and the pool.                                                 *)

SessType == [src_addr : Addr, src_port : Port, is_connected : BOOLEAN]

reset_udp_session == [src_addr |-> <<0, 0>>, src_port |-> 0,
                      is_connected |-> FALSE]

PoolType == [stk : StackType, map : [AddrLo -> BucketType],
             sess : [Slot -> SessType], n_on_sess : Uint16]

(* Left by init_udp_session_array(), _map() and _stack(): the indices are  *)
(* pushed from max_conn - 1 down to 0.                                     *)
InitPool == [stk |-> [sp |-> 0, arr |-> [k \in Slot |-> k]],
             map |-> [b \in AddrLo |-> EmptyBucket],
             sess |-> [i \in Slot |-> reset_udp_session],
             n_on_sess |-> 0]

Owns(s, c) == s.src_addr = c[1] /\ s.src_port = c[2]

(* A slip: the list behind the head entry is not searched.                 *)
lookup_udp_sess_HeadOnly(p, c) ==
    LET i == p.map[addr_to_bkt(c[1])].sess
    IN  IF i # NULL /\ Owns(p.sess[i], c) THEN i ELSE NULL

lookup_udp_sess(p, c) ==
    LET bkt == p.map[addr_to_bkt(c[1])]
        k   == SelectInSeq(bkt.next, LAMBDA i : Owns(p.sess[i], c))
    IN  IF bkt.sess # NULL /\ Owns(p.sess[bkt.sess], c) THEN bkt.sess
        ELSE IF k # 0 THEN bkt.next[k] ELSE NULL

(* A slip: the counter is forgotten.                                       *)
create_udp_sess_Uncounted(p, c) ==
    LET i == bt_stack_top(p.stk)
    IN  [p EXCEPT !.stk = bt_stack_pop(@),
                  !.map = map_insert_udp_sess(@, c[1], i),
                  !.sess[i] = [src_addr |-> c[1], src_port |-> c[2],
                               is_connected |-> TRUE]]

(* create_udp_sess(), when the stack is not empty and no malloc() fails.   *)
create_udp_sess(p, c) ==
    LET i == bt_stack_top(p.stk)
    IN  [stk |-> bt_stack_pop(p.stk),
         map |-> map_insert_udp_sess(p.map, c[1], i),
         sess |-> [p.sess EXCEPT ![i] = [src_addr |-> c[1], src_port |-> c[2],
                                         is_connected |-> TRUE]],
         n_on_sess |-> (p.n_on_sess + 1) % TwoTo16]

(* A slip: the index does not go back to the stack.                        *)
create_udp_sess_nomem_Leaks(p, c) ==
    LET i == bt_stack_top(p.stk)
    IN  [p EXCEPT !.stk = bt_stack_pop(@),
                  !.sess[i] = [@ EXCEPT !.src_addr = c[1], !.src_port = c[2]]]

(* create_udp_sess() when malloc() fails: the index goes back to the       *)
(* stack, the source address stays in the unconnected slot.                *)
create_udp_sess_nomem(p, c) ==
    LET i == bt_stack_top(p.stk)
    IN  [p EXCEPT !.stk = bt_stack_push(bt_stack_pop(@), i),
                  !.sess[i] = [@ EXCEPT !.src_addr = c[1], !.src_port = c[2]]]

(* The part of delete_udp_session() under sess_stk_lock ...                *)
delete_udp_session_locked(p, i) ==
    [stk |-> bt_stack_push(p.stk, i),
     map |-> remove_sess_from_bkt(p.map, p.sess[i].src_addr, i),
     sess |-> [p.sess EXCEPT ![i] = reset_udp_session],
     n_on_sess |-> p.n_on_sess]

delete_ret(p, i) ==
    IF InBucket(p.map[addr_to_bkt(p.sess[i].src_addr)], i) THEN 0 ELSE ENOENT

(* ... and the decrement after the lock is released.                       *)
n_on_sess_sub(p) == [p EXCEPT !.n_on_sess = (@ + TwoTo16 - 1) % TwoTo16]

(* The whole of delete_udp_session().                                      *)
delete_udp_session(p, i) == n_on_sess_sub(delete_udp_session_locked(p, i))

Connected(p) == {i \in Slot : p.sess[i].is_connected}

-----------------------------------------------------------------------------
(* What the operations keep true of a pool.                                *)

(* No index is on the free stack twice, and exactly the unconnected slots  *)
(* are on it.                                                              *)
StackDistinct(p) ==
    \A k, l \in p.stk.sp..(MaxConn - 1) : p.stk.arr[k] = p.stk.arr[l] => k = l

FreeExact(p) == StackDistinct(p) /\ FreeList(p.stk) = Slot \ Connected(p)

(* The stack pointer equals the number of connected slots.                 *)
SpExact(p) == p.stk.sp = Cardinality(Connected(p))

(* An empty head has no list behind it and no slot is linked twice.        *)
BucketWF(bkt) ==
    /\ bkt.sess = NULL => bkt.next = <<>>
    /\ ~Contains(bkt.next, bkt.sess)
    /\ \A k, l \in 1..Len(bkt.next) : bkt.next[k] = bkt.next[l] => k = l

MapWF(p) == \A b \in AddrLo : BucketWF(p.map[b])

(* A slot is linked in a bucket exactly when it is connected and its       *)
(* source address falls in that bucket.                                    *)
EntriesExact(p) ==
    \A b \in AddrLo, i \in Slot :
        InBucket(p.map[b], i) <=> /\ i \in Connected(p)
                                  /\ addr_to_bkt(p.sess[i].src_addr) = b

(* No client owns two connected slots.                                     *)
OwnersDistinct(p) ==
    \A i, j \in Connected(p) :
        /\ p.sess[i].src_addr = p.sess[j].src_addr
        /\ p.sess[i].src_port = p.sess[j].src_port
        => i = j

(* The conjunction the proofs use.                                         *)
PoolInv(p) == /\ p \in PoolType
              /\ FreeExact(p)
              /\ SpExact(p)
              /\ MapWF(p)
              /\ EntriesExact(p)
              /\ OwnersDistinct(p)
=============================================================================
