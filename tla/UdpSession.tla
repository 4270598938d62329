----------------------------- MODULE UdpSession -----------------------------
(***************************************************************************)
(* The session pool under callers that keep its contract: a client is      *)
(* created only after a lookup missed it, and only a connected session is  *)
(* deleted.  Calls are atomic under sess_stk_lock, except that             *)
(* delete_udp_session() decrements n_on_sess after the unlock.             *)
(***************************************************************************)
EXTENDS SessionOps

CONSTANT MaxDeleters   \* threads that may be inside delete_udp_session()

ASSUME DeletersAssumption == MaxDeleters \in Nat

VARIABLES pool,      \* the pool
          pending,   \* deletions that have unlocked but not yet decremented
          ret        \* the call that returned last and its value

vars == <<pool, pending, ret>>

Init == /\ pool = InitPool
        /\ pending = 0
        /\ ret = [call |-> "none", val |-> 0]

CreateOk(c) ==
    /\ lookup_udp_sess(pool, c) = NULL
    /\ ~StackEmpty(pool.stk)
    /\ pool' = create_udp_sess(pool, c)
    /\ ret' = [call |-> "create", val |-> bt_stack_top(pool.stk)]
    /\ UNCHANGED pending

CreateFull(c) ==
    /\ lookup_udp_sess(pool, c) = NULL
    /\ StackEmpty(pool.stk)
    /\ ret' = [call |-> "create", val |-> EAGAIN]
    /\ UNCHANGED <<pool, pending>>

CreateNoMem(c) ==
    /\ lookup_udp_sess(pool, c) = NULL
    /\ ~StackEmpty(pool.stk)
    /\ InsertAllocates(pool.map, c[1])
    /\ pool' = create_udp_sess_nomem(pool, c)
    /\ ret' = [call |-> "create", val |-> ENOMEM]
    /\ UNCHANGED pending

Lookup(c) ==
    /\ ret' = [call |-> "lookup", val |-> lookup_udp_sess(pool, c)]
    /\ UNCHANGED <<pool, pending>>

DeleteLocked(i) ==
    /\ pool.sess[i].is_connected
    /\ pending < MaxDeleters
    /\ pool' = delete_udp_session_locked(pool, i)
    /\ pending' = pending + 1
    /\ ret' = [call |-> "delete", val |-> delete_ret(pool, i)]

DeleteUncount ==
    /\ pending > 0
    /\ pool' = n_on_sess_sub(pool)
    /\ pending' = pending - 1
    /\ UNCHANGED ret

Next == \/ \E c \in Client : \/ CreateOk(c)
                             \/ CreateFull(c)
                             \/ CreateNoMem(c)
                             \/ Lookup(c)
        \/ \E i \in Slot : DeleteLocked(i)
        \/ DeleteUncount

Spec == Init /\ [][Next]_vars

-----------------------------------------------------------------------------
RetType == [call : {"none", "create", "lookup", "delete"}, val : Int]

(* Every field has the type the C declarations give it.                    *)
TypeOK == /\ pool \in PoolType
          /\ pending \in 0..MaxDeleters
          /\ ret \in RetType

(* The free stack of stack.h holds every unconnected slot of               *)
(* udp_session.c exactly once and no connected one: no index is lost or    *)
(* handed out twice.                                                       *)
FreeListExact == FreeExact(pool)

(* The stack pointer equals the number of connected slots, so the push in  *)
(* delete_udp_session(), wrapped in BUG_ON(... == -1), finds room whenever *)
(* a connected session is deleted.                                         *)
PushFindsRoom == \A i \in Connected(pool) : pool.stk.sp # 0

(* An empty head entry has no list behind it (the WARN_ON of               *)
(* map_insert_udp_sess()), and no session is linked twice in a bucket,     *)
(* whatever was unlinked before.                                           *)
BucketsWellFormed == MapWF(pool)

(* lookup_udp_sess() answers with the one connected slot of the client, or *)
(* with NULL exactly when the client has none.                             *)
LookupExact ==
    \A c \in Client :
        LET i == lookup_udp_sess(pool, c)
        IN  IF i = NULL
            THEN \A j \in Connected(pool) : ~Owns(pool.sess[j], c)
            ELSE \A j \in Slot : (j \in Connected(pool) /\ Owns(pool.sess[j], c))
                                 <=> j = i

(* n_on_sess counts the connected sessions and the deletions that have     *)
(* released the lock and not decremented it yet, as a uint16_t: it wraps   *)
(* exactly when the two together reach 2^16, as they can with the 65535    *)
(* slots that max_conn may ask for.                                        *)
CountExact ==
    pool.n_on_sess = (Cardinality(Connected(pool)) + pending) % TwoTo16

IInv == TypeOK /\ PoolInv(pool) /\ CountExact

-----------------------------------------------------------------------------
(* The pool implements the slot table its callers rely on.                 *)
NOBODY == <<>>

OwnerOf(s) == IF s.is_connected THEN <<s.src_addr, s.src_port>> ELSE NOBODY

Abstract == INSTANCE SessionPool WITH
    Nobody <- NOBODY, Null <- NULL, Eagain <- EAGAIN, Enomem <- ENOMEM,
    owner <- [i \in Slot |-> OwnerOf(pool.sess[i])]

(* Each call of udp_session.c is a step of the slot table, with the same   *)
(* result, or leaves the table unchanged.                                  *)
ImplementsSessionPool == Abstract!Spec
=============================================================================
