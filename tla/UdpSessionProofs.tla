-------------------------- MODULE UdpSessionProofs --------------------------
(***************************************************************************)
(* Theorems about UdpSession: the pool invariants hold for every number of *)
(* slots and every set of client addresses, and the pool implements        *)
(* SessionPool.                                                            *)
(***************************************************************************)
EXTENDS UdpSession, SessionOpsProofs

(* IInv, the pool invariant with the counter equation, is inductive.       *)
LEMMA InitIInv == Init => IInv
<1> SUFFICES ASSUME Init PROVE IInv
    OBVIOUS
<1>1. PoolInv(pool) /\ Connected(pool) = {}
    BY InitPoolInv DEF Init
<1>2. CountExact
    <2>1. pool.n_on_sess = 0 /\ pending = 0
        BY DEF Init, InitPool
    <2>2. Cardinality(Connected(pool)) = 0
        BY <1>1, FS_EmptySet
    <2>3. (0 + 0) % TwoTo16 = 0
        BY DEF TwoTo16
    <2> QED
        BY <2>1, <2>2, <2>3 DEF CountExact
<1>3. TypeOK
    BY <1>1, DeletersAssumption DEF TypeOK, PoolInv, Init, RetType
<1> QED
    BY <1>1, <1>2, <1>3 DEF IInv

(* Every call of udp_session.c keeps IInv.                                 *)
LEMMA NextIInv == IInv /\ [Next]_vars => IInv'
<1> SUFFICES ASSUME IInv, [Next]_vars PROVE IInv'
    OBVIOUS
<1>0. /\ PoolInv(pool)
      /\ pending \in 0..MaxDeleters /\ pending \in Nat
      /\ ret \in RetType
      /\ pool.n_on_sess \in Uint16
      /\ pool.n_on_sess = (Cardinality(Connected(pool)) + pending) % TwoTo16
    BY ConstantsTyped, DeletersAssumption DEF IInv, TypeOK, CountExact, PoolType
<1>a. IsFiniteSet(Connected(pool)) /\ Cardinality(Connected(pool)) \in Nat
    <2>1. pool.stk.sp \in 0..MaxConn
        BY <1>0 DEF PoolInv, PoolType, StackType
    <2> QED
        BY <1>0, <2>1, SlotFinite, ConstantsTyped DEF PoolInv, SpExact
<1> DEFINE total == Cardinality(Connected(pool)) + pending
<1>b. total \in Nat /\ pool.n_on_sess = total % TwoTo16
    BY <1>0, <1>a
<1> HIDE DEF total
<1>1. ASSUME NEW c \in Client, CreateOk(c) PROVE IInv'
    <2> DEFINE i == bt_stack_top(pool.stk)
    <2>1. /\ PoolInv(pool')
          /\ i \in Slot \ Connected(pool)
          /\ Connected(pool') = Connected(pool) \cup {i}
        BY <1>0, <1>1, CreateInv DEF CreateOk
    <2>3. Cardinality(Connected(pool')) = Cardinality(Connected(pool)) + 1
        BY <1>a, <2>1, FS_AddElement
    <2>4. pool'.n_on_sess = (pool.n_on_sess + 1) % TwoTo16
        BY <1>1 DEF CreateOk, create_udp_sess
    <2>5. pool'.n_on_sess = (total + 1) % TwoTo16
        BY <1>b, <2>4, Wraps
    <2>6. total + 1 = Cardinality(Connected(pool')) + pending'
        BY <1>0, <1>1, <1>a, <2>3 DEF CreateOk, total
    <2>7. TypeOK'
        <3>1. i \in Int
            BY <2>1, ConstantsTyped
        <3> QED
            BY <1>0, <1>1, <2>1, <3>1 DEF CreateOk, TypeOK, PoolInv, RetType
    <2> QED
        BY <2>1, <2>5, <2>6, <2>7 DEF IInv, CountExact
<1>2. ASSUME NEW c \in Client, CreateFull(c) PROVE IInv'
    BY <1>0, <1>2 DEF CreateFull, IInv, TypeOK, CountExact, RetType, EAGAIN
<1>3. ASSUME NEW c \in Client, CreateNoMem(c) PROVE IInv'
    <2>1. /\ PoolInv(pool') /\ Connected(pool') = Connected(pool)
          /\ pool'.n_on_sess = pool.n_on_sess
        BY <1>0, <1>3, CreateNoMemInv DEF CreateNoMem
    <2> QED
        BY <1>0, <1>3, <2>1
        DEF CreateNoMem, IInv, TypeOK, PoolInv, CountExact, RetType, ENOMEM
<1>4. ASSUME NEW c \in Client, Lookup(c) PROVE IInv'
    <2>1. lookup_udp_sess(pool, c) \in Int
        <3>1. NULL \in Int /\ \A j \in Connected(pool) : j \in Int
            BY ConstantsTyped DEF Connected, NULL
        <3> QED
            BY <1>0, <3>1, LookupFinds
    <2> QED
        BY <1>0, <1>4, <2>1 DEF Lookup, IInv, TypeOK, CountExact, RetType
<1>5. ASSUME NEW i \in Slot, DeleteLocked(i) PROVE IInv'
    <2>1. i \in Connected(pool)
        BY <1>5 DEF DeleteLocked, Connected
    <2>2. /\ PoolInv(pool') /\ Connected(pool') = Connected(pool) \ {i}
          /\ pool'.n_on_sess = pool.n_on_sess
          /\ delete_ret(pool, i) = 0
        BY <1>0, <1>5, <2>1, DeleteInv DEF DeleteLocked
    <2>3. Cardinality(Connected(pool')) = Cardinality(Connected(pool)) - 1
        BY <1>a, <2>1, <2>2, FS_RemoveElement
    <2>4. TypeOK'
        BY <1>0, <1>5, <2>2, DeletersAssumption
        DEF DeleteLocked, TypeOK, PoolInv, RetType
    <2>5. Cardinality(Connected(pool')) + pending' = total
        BY <1>0, <1>5, <1>a, <2>3 DEF DeleteLocked, total
    <2> QED
        BY <1>b, <2>2, <2>4, <2>5 DEF IInv, CountExact
<1>6. ASSUME DeleteUncount PROVE IInv'
    <2>1. /\ PoolInv(pool') /\ Connected(pool') = Connected(pool)
          /\ pool'.n_on_sess = (pool.n_on_sess + TwoTo16 - 1) % TwoTo16
        BY <1>0, <1>6, UncountInv DEF DeleteUncount
    <2>2. total > 0 /\ Cardinality(Connected(pool')) + pending' = total - 1
        BY <1>0, <1>6, <1>a, <2>1 DEF DeleteUncount, total
    <2>3. pool'.n_on_sess = (total - 1) % TwoTo16
        BY <1>b, <2>1, <2>2, Wraps
    <2>4. TypeOK'
        BY <1>0, <1>6, <2>1, DeletersAssumption DEF DeleteUncount, TypeOK, PoolInv
    <2> QED
        BY <2>1, <2>2, <2>3, <2>4 DEF IInv, CountExact
<1>7. CASE UNCHANGED vars
    BY <1>7 DEF vars, IInv, TypeOK, CountExact
<1> QED
    BY <1>1, <1>2, <1>3, <1>4, <1>5, <1>6, <1>7 DEF Next

(* The inductive invariant of the session pool, for every number of slots, *)
(* of addresses and of deleting threads.                                   *)
THEOREM PoolInvariant == Spec => []IInv
BY InitIInv, NextIInv, PTL DEF Spec

(* No slot index is lost or handed out twice by create_udp_sess() and      *)
(* delete_udp_session().                                                   *)
THEOREM FreeListIsExact == Spec => []FreeListExact
<1>1. IInv => FreeListExact
    BY DEF IInv, PoolInv, FreeListExact
<1> QED
    BY <1>1, PoolInvariant, PTL

(* The BUG_ON around the push of delete_udp_session() never fires while    *)
(* callers delete connected sessions only.                                 *)
THEOREM PushAlwaysFindsRoom == Spec => []PushFindsRoom
<1>1. IInv => PushFindsRoom
    BY DeleteInv DEF IInv, PushFindsRoom
<1> QED
    BY <1>1, PoolInvariant, PTL

(* Buckets keep their shape through every unlink.                          *)
THEOREM BucketsStayWellFormed == Spec => []BucketsWellFormed
<1>1. IInv => BucketsWellFormed
    BY DEF IInv, PoolInv, BucketsWellFormed
<1> QED
    BY <1>1, PoolInvariant, PTL

(* lookup_udp_sess() is exact.                                             *)
THEOREM LookupIsExact == Spec => []LookupExact
<1>1. IInv => LookupExact
    <2> SUFFICES ASSUME IInv, NEW c \in Client
                 PROVE  LET i == lookup_udp_sess(pool, c)
                        IN  IF i = NULL
                            THEN \A j \in Connected(pool) : ~Owns(pool.sess[j], c)
                            ELSE \A j \in Slot :
                                   (j \in Connected(pool) /\ Owns(pool.sess[j], c))
                                   <=> j = i
        BY DEF LookupExact
    <2> DEFINE i == lookup_udp_sess(pool, c)
    <2>1. PoolInv(pool) /\ NULL \notin Connected(pool)
        BY ConstantsTyped DEF IInv, Connected
    <2>2. \/ i = NULL /\ \A j \in Connected(pool) : ~Owns(pool.sess[j], c)
          \/ i \in Connected(pool) /\ Owns(pool.sess[i], c)
        BY <2>1, LookupFinds
    <2> HIDE DEF i
    <2>3. CASE i = NULL
        BY <2>1, <2>2, <2>3 DEF i
    <2>4. CASE i # NULL
        <3>1. i \in Connected(pool) /\ Owns(pool.sess[i], c)
            BY <2>2, <2>4
        <3>2. \A j \in Connected(pool) : Owns(pool.sess[j], c) => j = i
            BY <3>1, <2>1 DEF PoolInv, OwnersDistinct, Owns
        <3> QED
            BY <2>4, <3>1, <3>2 DEF i
    <2> QED
        BY <2>3, <2>4
<1> QED
    BY <1>1, PoolInvariant, PTL

(* n_on_sess is the number of connected sessions and of deletions in       *)
(* flight modulo 2^16, for every max_conn the server accepts.              *)
THEOREM CountIsExact == Spec => []CountExact
<1>1. IInv => CountExact
    BY DEF IInv
<1> QED
    BY <1>1, PoolInvariant, PTL

-----------------------------------------------------------------------------
(* The refinement of SessionPool.                                          *)

(* The owner of a slot: nobody, or the client it is connected to.          *)
LEMMA OwnerFacts ==
    ASSUME NEW s
    PROVE  /\ s.is_connected = FALSE => OwnerOf(s) = NOBODY
           /\ s.is_connected = TRUE => /\ OwnerOf(s) = <<s.src_addr, s.src_port>>
                                       /\ OwnerOf(s) # NOBODY
BY DEF OwnerOf, NOBODY

(* A client is an address and a port, and it is not nobody.                *)
LEMMA ClientFacts ==
    ASSUME NEW c \in Client
    PROVE  c = <<c[1], c[2]>> /\ c # NOBODY
BY DEF Client, NOBODY

(* Every step of the pool is a step of the slot table or leaves it alone.  *)
LEMMA StepRefines == IInv /\ IInv' /\ [Next]_vars => [Abstract!Next]_(Abstract!vars)
<1> SUFFICES ASSUME IInv, IInv', [Next]_vars
             PROVE  [Abstract!Next]_(Abstract!vars)
    OBVIOUS
<1> DEFINE ow == [i \in Slot |-> OwnerOf(pool.sess[i])]
<1>0. /\ PoolInv(pool) /\ PoolInv(pool')
      /\ pool.sess \in [Slot -> SessType] /\ pool'.sess \in [Slot -> SessType]
    BY DEF IInv, PoolInv, PoolType
<1>a. /\ \A i \in Connected(pool) :
            /\ i \in Slot
            /\ ow[i] = <<pool.sess[i].src_addr, pool.sess[i].src_port>>
            /\ ow[i] # NOBODY
      /\ \A i \in Slot \ Connected(pool) : ow[i] = NOBODY
    BY <1>0, OwnerFacts DEF Connected, SessType
<1>b. ASSUME NEW c \in Client, \A j \in Connected(pool) : ~Owns(pool.sess[j], c)
      PROVE  Abstract!Unknown(c)
    <2>1. c = <<c[1], c[2]>> /\ c # NOBODY
        BY ClientFacts
    <2>2. ASSUME NEW s \in Slot PROVE ow[s] # c
        <3>1. CASE s \in Connected(pool)
            <4>1. ow[s] = <<pool.sess[s].src_addr, pool.sess[s].src_port>>
                BY <1>a, <3>1
            <4> QED
                BY <1>b, <2>1, <3>1, <4>1 DEF Owns
        <3>2. CASE s \notin Connected(pool)
            BY <1>a, <2>1, <3>2
        <3> QED
            BY <3>1, <3>2
    <2> QED
        BY <2>2 DEF Abstract!Unknown
<1>c. NULL \notin Connected(pool)
    BY ConstantsTyped DEF Connected
<1>1. ASSUME NEW c \in Client, CreateOk(c) PROVE Abstract!Open(c)
    <2> DEFINE i == bt_stack_top(pool.stk)
    <2>1. /\ i \in Slot \ Connected(pool)
          /\ \A j \in Slot : j # i => pool'.sess[j] = pool.sess[j]
          /\ pool'.sess[i] = [src_addr |-> c[1], src_port |-> c[2],
                              is_connected |-> TRUE]
        BY <1>0, <1>1, CreateInv DEF CreateOk
    <2>2. Abstract!Unknown(c)
        BY <1>0, <1>1, <1>b, <1>c, LookupFinds DEF CreateOk
    <2> HIDE DEF i
    <2>3. OwnerOf(pool'.sess[i]) = c
        BY <2>1, OwnerFacts, ClientFacts
    <2>4. [j \in Slot |-> OwnerOf(pool'.sess[j])] = [ow EXCEPT ![i] = c]
        BY <2>1, <2>3
    <2>5. ow[i] = NOBODY /\ i \in Slot
        BY <1>a, <2>1
    <2>6. ret' = [call |-> "create", val |-> i]
        BY <1>1 DEF CreateOk, i
    <2> QED
        BY <2>2, <2>4, <2>5, <2>6 DEF Abstract!Open
<1>2. ASSUME NEW c \in Client, CreateFull(c) PROVE Abstract!OpenFull
    <2>1. FreeList(pool.stk) = {}
        BY <1>2, ConstantsTyped DEF CreateFull, StackEmpty, FreeList
    <2>2. \A s \in Slot : s \in Connected(pool)
        BY <1>0, <2>1 DEF PoolInv, FreeExact
    <2> QED
        BY <1>2, <1>a, <2>2 DEF CreateFull, Abstract!OpenFull
<1>3. ASSUME NEW c \in Client, CreateNoMem(c) PROVE Abstract!OpenNoMem
    <2>1. /\ Connected(pool') = Connected(pool)
          /\ \A j \in Connected(pool) : pool'.sess[j] = pool.sess[j]
        BY <1>0, <1>3, CreateNoMemInv DEF CreateNoMem
    <2>2. \A j \in Slot \ Connected(pool) : OwnerOf(pool'.sess[j]) = NOBODY
        BY <1>0, <2>1, OwnerFacts DEF Connected, SessType
    <2>3. \A j \in Slot : OwnerOf(pool'.sess[j]) = OwnerOf(pool.sess[j])
        BY <1>a, <2>1, <2>2
    <2>4. [j \in Slot |-> OwnerOf(pool'.sess[j])] = ow
        BY <2>3
    <2>5. \E s \in Slot : ow[s] = NOBODY
        <3>1. pool.stk.sp \in 0..MaxConn /\ pool.stk.sp # MaxConn
            BY <1>0, <1>3
            DEF CreateNoMem, StackEmpty, PoolInv, PoolType, StackType
        <3>2. pool.stk.sp \in pool.stk.sp..(MaxConn - 1)
            BY <3>1, ConstantsTyped
        <3>3. pool.stk.arr[pool.stk.sp] \in Slot \ Connected(pool)
            BY <1>0, <3>2 DEF PoolInv, FreeExact, FreeList
        <3> QED
            BY <1>a, <3>3
    <2> QED
        BY <1>3, <2>4, <2>5 DEF CreateNoMem, Abstract!OpenNoMem
<1>4. ASSUME NEW c \in Client, Lookup(c) PROVE Abstract!Find(c)
    <2> DEFINE i == lookup_udp_sess(pool, c)
    <2>1. \/ i = NULL /\ \A j \in Connected(pool) : ~Owns(pool.sess[j], c)
          \/ i \in Connected(pool) /\ Owns(pool.sess[i], c)
        BY <1>0, LookupFinds
    <2>2. /\ ret' = [call |-> "lookup", val |-> i]
          /\ [j \in Slot |-> OwnerOf(pool'.sess[j])] = ow
        BY <1>4 DEF Lookup
    <2> HIDE DEF i
    <2>3. CASE i = NULL
        BY <1>b, <1>c, <2>1, <2>2, <2>3 DEF Abstract!Find
    <2>4. CASE i # NULL
        <3>1. i \in Slot /\ ow[i] = c
            BY <1>a, <2>1, <2>4, ClientFacts DEF Owns
        <3> QED
            BY <2>2, <3>1 DEF Abstract!Find
    <2> QED
        BY <2>3, <2>4
<1>5. ASSUME NEW i \in Slot, DeleteLocked(i) PROVE Abstract!Close(i)
    <2>1. i \in Connected(pool)
        BY <1>5 DEF DeleteLocked, Connected
    <2>2. /\ \A j \in Slot : j # i => pool'.sess[j] = pool.sess[j]
          /\ pool'.sess[i] = reset_udp_session
          /\ delete_ret(pool, i) = 0
        BY <1>0, <1>5, <2>1, DeleteInv DEF DeleteLocked
    <2>3. OwnerOf(pool'.sess[i]) = NOBODY
        <3>1. reset_udp_session.is_connected = FALSE
            BY DEF reset_udp_session
        <3> QED
            BY <2>2, <3>1, OwnerFacts
    <2>4. [j \in Slot |-> OwnerOf(pool'.sess[j])] = [ow EXCEPT ![i] = NOBODY]
        BY <2>2, <2>3
    <2> QED
        BY <1>5, <1>a, <2>1, <2>2, <2>4 DEF DeleteLocked, Abstract!Close
<1>6. ASSUME DeleteUncount PROVE UNCHANGED Abstract!vars
    <2>1. pool'.sess = pool.sess
        BY <1>0, <1>6, UncountInv DEF DeleteUncount
    <2> QED
        BY <1>6, <2>1 DEF DeleteUncount, Abstract!vars
<1>7. CASE UNCHANGED vars
    BY <1>7 DEF vars, Abstract!vars
<1> QED
    BY <1>1, <1>2, <1>3, <1>4, <1>5, <1>6, <1>7 DEF Next, Abstract!Next

(* udp_session.c implements the slot table, for every size of the pool.    *)
THEOREM PoolRefinesTable == Spec => ImplementsSessionPool
<1>1. Init => Abstract!Init
    <2> SUFFICES ASSUME Init PROVE Abstract!Init
        OBVIOUS
    <2>1. \A i \in Slot : OwnerOf(pool.sess[i]) = NOBODY
        BY OwnerFacts DEF Init, InitPool, reset_udp_session
    <2> QED
        BY <2>1 DEF Init, Abstract!Init
<1> QED
    BY <1>1, StepRefines, PoolInvariant, PTL
    DEF Spec, ImplementsSessionPool, Abstract!Spec
=============================================================================
