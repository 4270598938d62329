------------------------- MODULE SessionRaceProofs -------------------------
(***************************************************************************)
(* Proofs about SessionRace, for every number of slots, clients and        *)
(* interface addresses.  What the locks guarantee (Guarded) holds in every *)
(* interleaving; what the handlers rely on (Alone) holds until the main    *)
(* thread and the reaper meet in one slot.                                 *)
(***************************************************************************)
EXTENDS SessionRace, SessionOpsProofs

-----------------------------------------------------------------------------
(* Operators on pools of which only the type is known: a slot may be on    *)
(* the stack twice, and linked twice.                                      *)

(* A set of natural numbers that is not empty has a least element: among   *)
(* its finite initial parts one has no smaller one.                        *)
LEMMA LeastNumber ==
    ASSUME NEW T \in SUBSET Nat, T # {}
    PROVE  Min(T) \in T /\ \A y \in T : Min(T) =< y
<1> DEFINE upto(x) == T \cap (0..x)
           F == {upto(x) : x \in T}
<1>1. F \subseteq FiniteSubsetsOf(T) /\ F # {}
    <2> SUFFICES ASSUME NEW x \in T PROVE upto(x) \in FiniteSubsetsOf(T)
        OBVIOUS
    <2>1. IsFiniteSet(0..x)
        <3>1. 0 \in Int /\ x \in Int
            OBVIOUS
        <3> QED
            BY <3>1, FS_Interval
    <2>2. upto(x) \in SUBSET (0..x)
        OBVIOUS
    <2>3. IsFiniteSet(upto(x))
        BY <2>1, <2>2, FS_Subset
    <2> QED
        BY <2>3 DEF FiniteSubsetsOf
<1>2. \E A \in F : \A B \in F : ~(<<B, A>> \in StrictSubsetOrdering(T))
    <2>1. IsWellFoundedOn(StrictSubsetOrdering(T), FiniteSubsetsOf(T))
        BY FS_StrictSubsetOrderingWellFounded
    <2> HIDE DEF F
    <2> QED
        BY <1>1, <2>1, WFMin
<1>3. PICK x \in T : \A y \in T : ~(<<upto(y), upto(x)>> \in StrictSubsetOrdering(T))
    BY <1>2
<1>4. ASSUME NEW y \in T, y < x PROVE FALSE
    <2>1. upto(y) \subseteq upto(x) /\ x \in upto(x) /\ x \notin upto(y)
        BY <1>4
    <2>2. upto(y) \in SUBSET T /\ upto(x) \in SUBSET T
        OBVIOUS
    <2> HIDE DEF upto
    <2>3. <<upto(y), upto(x)>> \in StrictSubsetOrdering(T)
        BY <2>1, <2>2 DEF StrictSubsetOrdering
    <2> QED
        BY <1>3, <2>3
<1>5. \A y \in T : x =< y
    BY <1>4
<1> QED
    BY <1>5 DEF Min

(* The index SelectInSeq() finds is 0 or one of the list.                  *)
LEMMA SelectIndex ==
    ASSUME NEW S, NEW s \in Seq(S), NEW T \in SUBSET (1..Len(s))
    PROVE  (IF T # {} THEN Min(T) ELSE 0) \in {0} \cup (1..Len(s))
<1>1. T \in SUBSET Nat
    OBVIOUS
<1> QED
    BY <1>1, LeastNumber

(* RemoveFirst() leaves a list of the same elements.                       *)
LEMMA RemoveFirstTyped ==
    ASSUME NEW S, NEW s \in Seq(S), NEW e
    PROVE  RemoveFirst(s, e) \in Seq(S)
<1>1. CASE ~ \E k \in 1..Len(s) : s[k] = e
    BY <1>1 DEF RemoveFirst
<1>2. CASE \E k \in 1..Len(s) : s[k] = e
    <2> DEFINE T == {k \in 1..Len(s) : s[k] = e}
    <2> DEFINE m == Min(T)
    <2>1. T # {} /\ T \in SUBSET Nat /\ T \in SUBSET (1..Len(s))
        BY <1>2
    <2>2. SelectInSeq(s, LAMBDA v : v = e) = m
        BY <2>1 DEF SelectInSeq
    <2>3. m \in 1..Len(s)
        BY <2>1, LeastNumber
    <2>4. RemoveFirst(s, e) = SubSeq(s, 1, m - 1) \o SubSeq(s, m + 1, Len(s))
        BY <1>2, <2>2 DEF RemoveFirst, RemoveAt
    <2> HIDE DEF m
    <2> QED
        BY <2>3, <2>4
<1> QED
    BY <1>1, <1>2

(* An empty head entry has no list behind it.                              *)
HeadFirst(bkt) == bkt.sess = NULL => bkt.next = <<>>

(* Linking and unlinking keep the shape of a bucket, repetitions or not.   *)
LEMMA LinkShape ==
    ASSUME NEW bkt \in BucketType, HeadFirst(bkt), NEW i \in Slot
    PROVE  Link(bkt, i) \in BucketType /\ HeadFirst(Link(bkt, i))
<1>1. bkt.next \in Seq(Slot) /\ i # NULL
    BY ConstantsTyped DEF BucketType
<1>2. Append(bkt.next, i) \in Seq(Slot)
    BY <1>1
<1> QED
    BY <1>1, <1>2 DEF Link, BucketType, HeadFirst

LEMMA UnlinkShape ==
    ASSUME NEW bkt \in BucketType, HeadFirst(bkt), NEW i \in Slot, InBucket(bkt, i)
    PROVE  Unlink(bkt, i) \in BucketType /\ HeadFirst(Unlink(bkt, i))
<1>1. bkt.next \in Seq(Slot) /\ bkt.sess \in Slot \cup {NULL}
    BY DEF BucketType
<1>2. CASE bkt.sess # i
    <2>1. Unlink(bkt, i) = [sess |-> bkt.sess, next |-> RemoveFirst(bkt.next, i)]
        BY <1>2 DEF Unlink
    <2>2. RemoveFirst(bkt.next, i) \in Seq(Slot)
        BY <1>1, RemoveFirstTyped
    <2>3. bkt.sess # NULL
        BY <1>2 DEF InBucket, Contains, HeadFirst
    <2> QED
        BY <1>1, <2>1, <2>2, <2>3 DEF BucketType, HeadFirst
<1>3. CASE bkt.sess = i /\ bkt.next = <<>>
    BY <1>3 DEF Unlink, EmptyBucket, BucketType, HeadFirst
<1>4. CASE bkt.sess = i /\ bkt.next # <<>>
    <2>1. Head(bkt.next) \in Slot /\ Tail(bkt.next) \in Seq(Slot)
        BY <1>1, <1>4
    <2>2. Unlink(bkt, i) = [sess |-> Head(bkt.next), next |-> Tail(bkt.next)]
        BY <1>4 DEF Unlink
    <2>3. Head(bkt.next) # NULL
        BY <2>1, ConstantsTyped
    <2> QED
        BY <2>1, <2>2, <2>3 DEF BucketType, HeadFirst
<1> QED
    BY <1>2, <1>3, <1>4

-----------------------------------------------------------------------------
(* The pool operations on such pools.                                      *)

(* A typed pool in which no list hangs behind an empty head.               *)
Shaped(p) == p \in PoolType /\ \A b \in AddrLo : HeadFirst(p.map[b])

(* lookup_udp_sess() returns a slot or nothing.                            *)
LEMMA LookupTyped ==
    ASSUME NEW p, Shaped(p), NEW c \in Client
    PROVE  lookup_udp_sess(p, c) \in Slot \cup {NULL}
<1> DEFINE bkt == p.map[addr_to_bkt(c[1])]
           I == {k \in 1..Len(bkt.next) : Owns(p.sess[bkt.next[k]], c)}
           k0 == IF I # {} THEN Min(I) ELSE 0
<1>0. /\ p.stk.sp \in 0..MaxConn /\ p.stk.arr \in [Slot -> Slot]
      /\ p.stk = [sp |-> p.stk.sp, arr |-> p.stk.arr]
      /\ p.map \in [AddrLo -> BucketType]
      /\ p.sess \in [Slot -> SessType]
      /\ p.n_on_sess \in Uint16
      /\ p = [stk |-> p.stk, map |-> p.map, sess |-> p.sess,
              n_on_sess |-> p.n_on_sess]
      /\ \A a \in AddrLo : HeadFirst(p.map[a])
    BY DEF Shaped, PoolType, StackType
<1>1. addr_to_bkt(c[1]) \in AddrLo
    BY DEF Client, Addr, addr_to_bkt
<1>2. bkt \in BucketType
    BY <1>1, <1>0
<1>3. bkt.next \in Seq(Slot) /\ bkt.sess \in Slot \cup {NULL}
    BY <1>2 DEF BucketType
<1>4. lookup_udp_sess(p, c) = IF bkt.sess # NULL /\ Owns(p.sess[bkt.sess], c) THEN bkt.sess
                              ELSE IF k0 # 0 THEN bkt.next[k0] ELSE NULL
    BY DEF lookup_udp_sess, SelectInSeq
<1>5. k0 \in {0} \cup (1..Len(bkt.next))
    <2>1. I \in SUBSET (1..Len(bkt.next))
        OBVIOUS
    <2> HIDE DEF I, bkt
    <2> QED
        BY <1>3, <2>1, SelectIndex
<1> HIDE DEF k0, bkt
<1>6. k0 # 0 => bkt.next[k0] \in Slot
    BY <1>3, <1>5
<1> QED
    BY <1>3, <1>4, <1>6

(* create_udp_sess() on such a pool.                                       *)
LEMMA CreateShaped ==
    ASSUME NEW p, Shaped(p), NEW c \in Client, ~StackEmpty(p.stk)
    PROVE  LET q == create_udp_sess(p, c)
           IN  /\ Shaped(q)
               /\ bt_stack_top(p.stk) \in Slot
               /\ q.stk.sp = p.stk.sp + 1
               /\ q.n_on_sess = (p.n_on_sess + 1) % TwoTo16
<1> DEFINE i == bt_stack_top(p.stk)
           q == create_udp_sess(p, c)
           b == addr_to_bkt(c[1])
           new == [src_addr |-> c[1], src_port |-> c[2], is_connected |-> TRUE]
<1>0. /\ p.stk.sp \in 0..MaxConn /\ p.stk.arr \in [Slot -> Slot]
      /\ p.stk = [sp |-> p.stk.sp, arr |-> p.stk.arr]
      /\ p.map \in [AddrLo -> BucketType]
      /\ p.sess \in [Slot -> SessType]
      /\ p.n_on_sess \in Uint16
      /\ p = [stk |-> p.stk, map |-> p.map, sess |-> p.sess,
              n_on_sess |-> p.n_on_sess]
      /\ \A a \in AddrLo : HeadFirst(p.map[a])
    BY DEF Shaped, PoolType, StackType
<1>1. b \in AddrLo /\ new \in SessType
    BY DEF Client, Addr, addr_to_bkt, SessType
<1>2. p.stk.sp \in Slot /\ p.stk.sp + 1 \in 0..MaxConn /\ i \in Slot
    BY <1>0, ConstantsTyped DEF StackEmpty, bt_stack_top, Slot
<1>3. p.map[b] \in BucketType /\ HeadFirst(p.map[b])
    BY <1>1, <1>0
<1>4. Link(p.map[b], i) \in BucketType /\ HeadFirst(Link(p.map[b], i))
    BY <1>2, <1>3, LinkShape
<1>5. /\ q.stk = [sp |-> p.stk.sp + 1, arr |-> p.stk.arr]
      /\ q.map = [p.map EXCEPT ![b] = Link(p.map[b], i)]
      /\ q.sess = [p.sess EXCEPT ![i] = new]
      /\ q.n_on_sess = (p.n_on_sess + 1) % TwoTo16
      /\ q = [stk |-> q.stk, map |-> q.map, sess |-> q.sess, n_on_sess |-> q.n_on_sess]
    <2>1. bt_stack_pop(p.stk) = [sp |-> p.stk.sp + 1, arr |-> p.stk.arr]
        BY <1>0 DEF bt_stack_pop
    <2>2. map_insert_udp_sess(p.map, c[1], i) = [p.map EXCEPT ![b] = Link(p.map[b], i)]
        BY <1>1, <1>0 DEF map_insert_udp_sess
    <2> QED
        BY <2>1, <2>2 DEF create_udp_sess
<1> HIDE DEF q, b, i, new
<1>6. q.stk \in StackType
    BY <1>2, <1>5, <1>0 DEF StackType
<1>7. q.map \in [AddrLo -> BucketType] /\ \A a \in AddrLo : HeadFirst(q.map[a])
    BY <1>1, <1>4, <1>5, <1>0
<1>8. q.sess \in [Slot -> SessType]
    BY <1>1, <1>5, <1>0
<1>9. q.n_on_sess \in Uint16
    BY <1>5, <1>0, Uint16Arithmetic
<1> QED
    BY <1>2, <1>5, <1>6, <1>7, <1>8, <1>9 DEF Shaped, PoolType, q, i

(* Without memory for the entry, the index goes back where it was.         *)
LEMMA CreateNoMemShaped ==
    ASSUME NEW p, Shaped(p), NEW c \in Client, ~StackEmpty(p.stk)
    PROVE  LET q == create_udp_sess_nomem(p, c)
           IN  Shaped(q) /\ q.stk.sp = p.stk.sp /\ q.n_on_sess = p.n_on_sess
<1> DEFINE i == bt_stack_top(p.stk)
           q == create_udp_sess_nomem(p, c)
           s == p.stk.sp
<1>0. /\ s \in 0..MaxConn /\ p.stk.arr \in [Slot -> Slot]
      /\ p.stk = [sp |-> s, arr |-> p.stk.arr]
      /\ p.map \in [AddrLo -> BucketType]
      /\ p.sess \in [Slot -> SessType]
      /\ p.n_on_sess \in Uint16
      /\ p = [stk |-> p.stk, map |-> p.map, sess |-> p.sess,
              n_on_sess |-> p.n_on_sess]
      /\ \A a \in AddrLo : HeadFirst(p.map[a])
    BY DEF Shaped, PoolType, StackType
<1>1. s \in Slot /\ s + 1 # 0 /\ s + 1 - 1 = s /\ i = p.stk.arr[s] /\ i \in Slot
    BY <1>0, ConstantsTyped DEF StackEmpty, bt_stack_top, Slot
<1>2. bt_stack_push(bt_stack_pop(p.stk), i) = p.stk
    <2>1. bt_stack_pop(p.stk) = [sp |-> s + 1, arr |-> p.stk.arr]
        BY <1>0 DEF bt_stack_pop
    <2>2. [p.stk.arr EXCEPT ![s] = i] = p.stk.arr
        BY <1>0, <1>1
    <2> QED
        BY <1>0, <1>1, <2>1, <2>2 DEF bt_stack_push
<1> DEFINE new == [p.sess[i] EXCEPT !.src_addr = c[1], !.src_port = c[2]]
<1>3. new \in SessType
    <2>1. p.sess[i] \in SessType /\ c[1] \in Addr /\ c[2] \in Port
        BY <1>0, <1>1 DEF Client
    <2> QED
        BY <2>1 DEF SessType
<1>4. q = [stk |-> p.stk, map |-> p.map, sess |-> [p.sess EXCEPT ![i] = new],
           n_on_sess |-> p.n_on_sess]
    <2>1. q = [p EXCEPT !.stk = p.stk, !.sess = [p.sess EXCEPT ![i] = new]]
        BY <1>0, <1>1, <1>2 DEF create_udp_sess_nomem
    <2> HIDE DEF q, new
    <2> QED
        BY <1>0, <2>1
<1> HIDE DEF new, q, i
<1>5. q.stk \in StackType
    BY <1>0, <1>4 DEF StackType
<1>6. q.sess \in [Slot -> SessType]
    BY <1>0, <1>1, <1>3, <1>4
<1> QED
    BY <1>0, <1>4, <1>5, <1>6 DEF Shaped, PoolType, q

(* The critical section of delete_udp_session(), of any slot.              *)
LEMMA DeleteShaped ==
    ASSUME NEW p, Shaped(p), NEW i \in Slot
    PROVE  LET q == delete_udp_session_locked(p, i)
           IN  /\ Shaped(q)
               /\ p.stk.sp # 0 => q.stk.sp = p.stk.sp - 1
               /\ q.n_on_sess = p.n_on_sess
<1> DEFINE q == delete_udp_session_locked(p, i)
           b == addr_to_bkt(p.sess[i].src_addr)
<1>0. /\ p.stk.sp \in 0..MaxConn /\ p.stk.arr \in [Slot -> Slot]
      /\ p.stk = [sp |-> p.stk.sp, arr |-> p.stk.arr]
      /\ p.map \in [AddrLo -> BucketType]
      /\ p.sess \in [Slot -> SessType]
      /\ p.n_on_sess \in Uint16
      /\ p = [stk |-> p.stk, map |-> p.map, sess |-> p.sess,
              n_on_sess |-> p.n_on_sess]
      /\ \A a \in AddrLo : HeadFirst(p.map[a])
    BY DEF Shaped, PoolType, StackType
<1>1. b \in AddrLo
    BY <1>0 DEF SessType, Addr, addr_to_bkt
<1>2. p.map[b] \in BucketType /\ HeadFirst(p.map[b])
    BY <1>1, <1>0
<1>3. /\ q.stk = bt_stack_push(p.stk, i)
      /\ q.map = remove_sess_from_bkt(p.map, p.sess[i].src_addr, i)
      /\ q.sess = [p.sess EXCEPT ![i] = reset_udp_session]
      /\ q.n_on_sess = p.n_on_sess
      /\ q = [stk |-> q.stk, map |-> q.map, sess |-> q.sess, n_on_sess |-> q.n_on_sess]
    BY DEF delete_udp_session_locked
<1> HIDE DEF q
<1>4. q.stk \in StackType /\ (p.stk.sp # 0 => q.stk.sp = p.stk.sp - 1)
    <2>1. CASE p.stk.sp = 0
        BY <1>3, <2>1, <1>0 DEF bt_stack_push, StackType
    <2>2. CASE p.stk.sp # 0
        <3>1. p.stk.sp - 1 \in Slot /\ p.stk.sp - 1 \in 0..MaxConn
            BY <2>2, <1>0, ConstantsTyped DEF Slot
        <3>2. q.stk = [sp |-> p.stk.sp - 1, arr |-> [p.stk.arr EXCEPT ![p.stk.sp - 1] = i]]
            BY <1>3, <2>2 DEF bt_stack_push
        <3> QED
            BY <3>1, <3>2, <1>0 DEF StackType
    <2> QED
        BY <2>1, <2>2
<1>5. q.map \in [AddrLo -> BucketType] /\ \A a \in AddrLo : HeadFirst(q.map[a])
    <2>1. CASE InBucket(p.map[b], i)
        <3>1. Unlink(p.map[b], i) \in BucketType /\ HeadFirst(Unlink(p.map[b], i))
            BY <1>2, <2>1, UnlinkShape
        <3>2. q.map = [p.map EXCEPT ![b] = Unlink(p.map[b], i)]
            BY <1>1, <1>3, <2>1, <1>0 DEF remove_sess_from_bkt
        <3> HIDE DEF b
        <3> QED
            BY <1>1, <3>1, <3>2, <1>0
    <2>2. CASE ~InBucket(p.map[b], i)
        BY <1>3, <2>2, <1>0 DEF remove_sess_from_bkt
    <2> QED
        BY <2>1, <2>2
<1>6. q.sess \in [Slot -> SessType]
    <2>1. reset_udp_session \in SessType
        BY ConstantsTyped DEF SessType, reset_udp_session, Addr
    <2> QED
        BY <1>3, <2>1, <1>0
<1> QED
    BY <1>3, <1>4, <1>5, <1>6, <1>0 DEF Shaped, PoolType, q

(* The decrement of n_on_sess.                                             *)
LEMMA UncountShaped ==
    ASSUME NEW p, Shaped(p)
    PROVE  LET q == n_on_sess_sub(p)
           IN  /\ Shaped(q)
               /\ q.stk = p.stk /\ q.sess = p.sess
               /\ q.n_on_sess = (p.n_on_sess + TwoTo16 - 1) % TwoTo16
<1> DEFINE q == n_on_sess_sub(p)
           n == (p.n_on_sess + TwoTo16 - 1) % TwoTo16
<1>0. /\ p.stk.sp \in 0..MaxConn /\ p.stk.arr \in [Slot -> Slot]
      /\ p.stk = [sp |-> p.stk.sp, arr |-> p.stk.arr]
      /\ p.map \in [AddrLo -> BucketType]
      /\ p.sess \in [Slot -> SessType]
      /\ p.n_on_sess \in Uint16
      /\ p = [stk |-> p.stk, map |-> p.map, sess |-> p.sess,
              n_on_sess |-> p.n_on_sess]
      /\ \A a \in AddrLo : HeadFirst(p.map[a])
    BY DEF Shaped, PoolType, StackType
<1>1. n \in Uint16
    BY <1>0, Uint16Arithmetic
<1>2. q = [p EXCEPT !.n_on_sess = n]
    BY DEF n_on_sess_sub
<1> HIDE DEF q, n
<1>3. q = [stk |-> p.stk, map |-> p.map, sess |-> p.sess, n_on_sess |-> n]
    BY <1>2, <1>0
<1> QED
    BY <1>0, <1>1, <1>3 DEF Shaped, PoolType, q, n

-----------------------------------------------------------------------------
(* The invariants.                                                         *)

InfoType == [addr : Client \cup {NoPeer}, is_authenticated : BOOLEAN,
             ipv4_iff : IpKey \cup {0}, stale : BOOLEAN]

Place == {"idle", "set_addr", "handshake", "touch", "auth", "auth_ip", "auth_route",
          "auth_flag", "age", "unroute", "delete", "uncount", "left"}

Handshaking == {"set_addr", "handshake"}
Authing     == {"auth", "auth_ip", "auth_route", "auth_flag"}
Routed      == {"auth_route", "auth_flag"}

(* The fields of the slots and the places of the threads have their types, *)
(* and the packet in hand is what the handler takes it for.                *)
Typed == /\ info \in [Slot -> InfoType]
         /\ ipv4_map \in [IpKey \cup {0} -> 0..MaxConn]
         /\ pc \in [Closer -> Place]
         /\ at \in [Closer -> Slot]
         /\ arg \in [client : Client \cup {NoPeer}, ip : IpKey \cup {0}]
         /\ pc[Main] \in Handshaking => arg.client \in Client
         /\ pc[Main] \in Authing => arg.ip \in IpKey
         /\ bug \in BOOLEAN /\ overlapped \in BOOLEAN

(* In every interleaving.                                                  *)
Guarded == Shaped(pool) /\ Typed

(* Until the closing threads meet in one slot: the pool is exact, a thread *)
(* that is inside a handler is in a connected slot, an address belongs to  *)
(* an authenticated session or to the one being authenticated, and no      *)
(* route leads to a slot that is about to be deleted.                      *)
Inside(t) == pc[t] \notin {"idle", "left", "uncount"} => at[t] \in Connected(pool)
Unrouted(t) == pc[t] = "delete" => \A k \in IpKey : ipv4_map[k] # at[t] + 1

AloneParts ==
    /\ PoolInv(pool) /\ ~bug
    /\ \A i \in Slot \ Connected(pool) : info[i] = ResetInfo
    /\ \A k \in IpKey : ipv4_map[k] # 0 =>
          ipv4_map[k] - 1 \in Connected(pool) /\ info[ipv4_map[k] - 1].ipv4_iff = k
    /\ \A t \in Closer : Inside(t) /\ Unrouted(t)
    /\ \A i \in Slot : info[i].ipv4_iff # 0 =>
          info[i].is_authenticated \/ (pc[Main] \in Routed /\ at[Main] = i)
    /\ pc[Main] = "auth_ip" => info[at[Main]].ipv4_iff = 0
    /\ pc[Main] \in Routed => info[at[Main]].ipv4_iff = arg.ip
    /\ pc[Main] \in Handshaking => Owns(pool.sess[at[Main]], arg.client)

Alone == ~overlapped => AloneParts /\ ~Overlap

RaceInv == Guarded /\ CounterFollowsStack /\ Alone

Step == Next /\ overlapped' = (overlapped \/ Overlap')

-----------------------------------------------------------------------------
(* The types, in every interleaving.                                       *)

LEMMA ThreadsDiffer == Main # Reaper /\ Main \in Closer /\ Reaper \in Closer
BY DEF Main, Reaper, Closer

LEMMA ResetTyped == ResetInfo \in InfoType /\ NoPeer \notin Client
BY DEF ResetInfo, InfoType, NoPeer, Client

LEMMA NoArgTyped ==
    /\ NoArg \in [client : Client \cup {NoPeer}, ip : IpKey \cup {0}]
    /\ \A c \in Client : /\ [NoArg EXCEPT !.client = c] = [client |-> c, ip |-> 0]
                         /\ [NoArg EXCEPT !.client = c].client = c
    /\ \A k \in IpKey : /\ [NoArg EXCEPT !.ip = k] = [client |-> NoPeer, ip |-> k]
                        /\ [NoArg EXCEPT !.ip = k].ip = k
BY DEF NoArg

(* n_on_sess follows the pool; the next slot of the reaper is a slot.      *)
LEMMA NextSlotTyped ==
    ASSUME NEW i \in Slot
    PROVE  (i + 1) % MaxConn \in Slot
<1>1. \A M \in Nat, m \in Nat : M > 0 => (m + 1) % M \in 0..(M - 1)
    OBVIOUS
<1> QED
    BY <1>1, ConstantsTyped DEF Slot

(* The shape of the pool is kept by every step.                            *)
LEMMA ShapedStep == Guarded /\ [Step]_<<vars, overlapped>> => Shaped(pool')
<1> SUFFICES ASSUME Guarded, [Step]_<<vars, overlapped>> PROVE Shaped(pool')
    OBVIOUS
<1>0. Shaped(pool) /\ at \in [Closer -> Slot]
    BY DEF Guarded, Typed
<1>1. CASE pool' = pool
    BY <1>0, <1>1
<1>2. ASSUME NEW c \in Client, MainCreate(c) PROVE Shaped(pool')
    BY <1>0, <1>2, CreateShaped DEF MainCreate
<1>3. ASSUME NEW t \in Closer, CloseDelete(t) PROVE Shaped(pool')
    BY <1>0, <1>3, DeleteShaped DEF CloseDelete
<1>4. ASSUME NEW t \in Closer, CloseUncount(t) PROVE Shaped(pool')
    BY <1>0, <1>4, UncountShaped DEF CloseUncount
<1>5. ASSUME NEW c \in Client, MainNoMem(c) PROVE Shaped(pool')
    BY <1>0, <1>5, CreateNoMemShaped DEF MainNoMem
<1> QED
    BY <1>1, <1>2, <1>3, <1>4, <1>5
    DEF Step, Next, vars, MainDispatch, MainSetAddr, MainHandshake, MainTouch, MainAuth,
        MainAuthIp, MainAuthRoute, MainAuthFlag, ReaperTest, ReaperAge, CloseUnroute,
        WorkerRoute, WorkerBroadcast, Expire, WorkerSend

(* So are the types of the rest.                                           *)
LEMMA TypedStep == Guarded /\ [Step]_<<vars, overlapped>> => Typed'
<1> SUFFICES ASSUME Guarded, [Step]_<<vars, overlapped>> PROVE Typed'
    OBVIOUS
<1> USE DEF Handshaking, Authing
<1>0. /\ Shaped(pool)
      /\ info \in [Slot -> InfoType]
      /\ ipv4_map \in [IpKey \cup {0} -> 0..MaxConn]
      /\ pc \in [Closer -> Place]
      /\ at \in [Closer -> Slot]
      /\ arg \in [client : Client \cup {NoPeer}, ip : IpKey \cup {0}]
      /\ pc[Main] \in Handshaking => arg.client \in Client
      /\ pc[Main] \in Authing => arg.ip \in IpKey
      /\ bug \in BOOLEAN /\ overlapped \in BOOLEAN
    BY DEF Guarded, Typed
<1>a. MaxConn \in Nat /\ \A i \in Slot : i + 1 \in 0..MaxConn
    BY ConstantsTyped DEF Slot
<1>b. Main # Reaper /\ Main \in Closer /\ Reaper \in Closer
    BY ThreadsDiffer
<1>1. CASE Step
    <2>o. overlapped' \in BOOLEAN
        BY <1>0, <1>1 DEF Step, Overlap
    <2>1. ASSUME NEW c \in Client, MainCreate(c) PROVE Typed'
        <3>1. bt_stack_top(pool.stk) \in Slot
            BY <1>0, <2>1, CreateShaped DEF MainCreate
        <3>2. info' \in [Slot -> InfoType]
            BY <1>0, <2>1, <3>1 DEF MainCreate, InfoType
        <3>3. arg' = [client |-> c, ip |-> 0]
            BY <2>1, NoArgTyped DEF MainCreate
        <3>4. /\ pc' = [pc EXCEPT ![Main] = "set_addr"]
              /\ at' = [at EXCEPT ![Main] = bt_stack_top(pool.stk)]
              /\ ipv4_map' = ipv4_map /\ bug' = bug
            BY <2>1 DEF MainCreate, GoTo
        <3>5. arg'.client \in Client
            BY <3>3
        <3> QED
            BY <1>0, <1>b, <2>o, <3>1, <3>2, <3>3, <3>4, <3>5 DEF Typed, Place
    <2>2. ASSUME NEW c \in Client, MainDispatch(c) PROVE Typed'
        <3>1. lookup_udp_sess(pool, c) \in Slot
            BY <1>0, <2>2, LookupTyped DEF MainDispatch
        <3>2. at' \in [Closer -> Slot]
            BY <1>0, <2>2, <3>1 DEF MainDispatch
        <3>3. /\ arg' \in [client : Client \cup {NoPeer}, ip : IpKey \cup {0}]
              /\ \/ GoTo(Main, "touch") \/ GoTo(Main, "unroute")
                 \/ GoTo(Main, "auth") /\ arg'.ip \in IpKey
            BY <2>2, NoArgTyped DEF MainDispatch
        <3> QED
            BY <1>0, <1>b, <2>o, <2>2, <3>2, <3>3 DEF MainDispatch, GoTo, Typed, Place
    <2>3. CASE MainSetAddr
        <3>1. info' \in [Slot -> InfoType]
            BY <1>0, <1>b, <2>3 DEF MainSetAddr, InfoType
        <3> QED
            BY <1>0, <1>b, <2>o, <2>3, <3>1 DEF MainSetAddr, GoTo, Typed, Place
    <2>4. CASE MainHandshake
        BY <1>0, <1>b, <2>o, <2>4, NoArgTyped DEF MainHandshake, GoTo, Typed, Place
    <2>5. CASE MainTouch
        <3>1. info' \in [Slot -> InfoType]
            BY <1>0, <1>b, <2>5 DEF MainTouch, InfoType
        <3> QED
            BY <1>0, <1>b, <2>o, <2>5, <3>1 DEF MainTouch, GoTo, Typed, Place
    <2>6. CASE MainAuth
        BY <1>0, <1>b, <2>o, <2>6 DEF MainAuth, GoTo, Typed, Place
    <2>7. CASE MainAuthIp
        <3>1. info' \in [Slot -> InfoType]
            BY <1>0, <1>b, <2>7 DEF MainAuthIp, InfoType
        <3> QED
            BY <1>0, <1>b, <2>o, <2>7, <3>1 DEF MainAuthIp, GoTo, Typed, Place
    <2>8. CASE MainAuthRoute
        <3>1. PICK k \in {arg.ip, info[at[Main]].ipv4_iff} :
                  ipv4_map' = [ipv4_map EXCEPT ![k] = at[Main] + 1]
            BY <2>8 DEF MainAuthRoute
        <3>2. at[Main] + 1 \in 0..MaxConn
            BY <1>0, <1>a, <1>b
        <3>3. ipv4_map' \in [IpKey \cup {0} -> 0..MaxConn]
            BY <1>0, <3>1, <3>2
        <3> QED
            BY <1>0, <1>b, <2>o, <2>8, <3>3 DEF MainAuthRoute, GoTo, Typed, Place
    <2>9. CASE MainAuthFlag
        <3>1. info' \in [Slot -> InfoType]
            BY <1>0, <1>b, <2>9 DEF MainAuthFlag, InfoType
        <3> QED
            BY <1>0, <1>b, <2>o, <2>9, <3>1, NoArgTyped DEF MainAuthFlag, GoTo, Typed, Place
    <2>10. CASE ReaperTest
        <3>1. (at[Reaper] + 1) % MaxConn \in Slot
            BY <1>0, <1>b, NextSlotTyped
        <3>2. at' \in [Closer -> Slot]
            BY <1>0, <2>10, <3>1 DEF ReaperTest, NextSlot
        <3> QED
            BY <1>0, <1>b, <2>o, <2>10, <3>2 DEF ReaperTest, GoTo, Typed, Place
    <2>11. CASE ReaperAge
        <3>1. (at[Reaper] + 1) % MaxConn \in Slot
            BY <1>0, <1>b, NextSlotTyped
        <3>2. at' \in [Closer -> Slot]
            BY <1>0, <2>11, <3>1 DEF ReaperAge, NextSlot
        <3> QED
            BY <1>0, <1>b, <2>o, <2>11, <3>2 DEF ReaperAge, GoTo, Typed, Place
    <2>12. ASSUME NEW t \in Closer, CloseUnroute(t) PROVE Typed'
        <3>1. info[at[t]].ipv4_iff \in IpKey \cup {0}
            BY <1>0, <2>12 DEF InfoType
        <3>2. ipv4_map' \in [IpKey \cup {0} -> 0..MaxConn]
            BY <1>0, <1>a, <2>12, <3>1 DEF CloseUnroute
        <3> QED
            BY <1>0, <1>b, <2>o, <2>12, <3>2 DEF CloseUnroute, GoTo, Typed, Place
    <2>13. ASSUME NEW t \in Closer, CloseDelete(t) PROVE Typed'
        <3>1. info' \in [Slot -> InfoType] /\ bug' \in BOOLEAN
            BY <1>0, <2>13, ResetTyped DEF CloseDelete
        <3> QED
            BY <1>0, <1>b, <2>o, <2>13, <3>1 DEF CloseDelete, GoTo, Typed, Place
    <2>14. ASSUME NEW t \in Closer, CloseUncount(t) PROVE Typed'
        <3>1. (at[Reaper] + 1) % MaxConn \in Slot
            BY <1>0, <1>b, NextSlotTyped
        <3>2. at' \in [Closer -> Slot]
            BY <1>0, <2>14, <3>1 DEF CloseUncount, NextSlot
        <3> QED
            BY <1>0, <1>b, <2>o, <2>14, <3>2 DEF CloseUncount, GoTo, Typed, Place
    <2>15. ASSUME NEW i \in Slot, Expire(i) PROVE Typed'
        <3>1. info' \in [Slot -> InfoType]
            BY <1>0, <2>15 DEF Expire, InfoType
        <3> QED
            BY <1>0, <2>o, <2>15, <3>1 DEF Expire, Typed
    <2>16. CASE \/ \E k \in IpKey \cup {0} : WorkerRoute(k)
                \/ \E i \in Slot : WorkerBroadcast(i)
                \/ WorkerSend
        BY <1>0, <2>o, <2>16 DEF WorkerRoute, WorkerBroadcast, WorkerSend, Typed
    <2>17. ASSUME NEW c \in Client, MainNoMem(c) PROVE Typed'
        BY <1>0, <1>b, <2>o, <2>17 DEF MainNoMem, GoTo, Typed, Place
    <2> QED
        BY <1>1, <2>1, <2>2, <2>3, <2>4, <2>5, <2>6, <2>7, <2>8, <2>9, <2>10, <2>11, <2>12,
           <2>13, <2>14, <2>15, <2>16, <2>17 DEF Step, Next
<1>2. CASE UNCHANGED <<vars, overlapped>>
    BY <1>0, <1>2 DEF vars, Typed
<1> QED
    BY <1>1, <1>2

-----------------------------------------------------------------------------
(* The counter, in every interleaving.                                     *)

(* How many of the two threads are between unlock and decrement.           *)
Pending(f, t) == IF f[t] = "uncount" THEN 1 ELSE 0

LEMMA CountUncounted ==
    ASSUME NEW f
    PROVE  Cardinality({t \in Closer : f[t] = "uncount"}) = Pending(f, Main) + Pending(f, Reaper)
<1> DEFINE U == {t \in Closer : f[t] = "uncount"}
<1>0. Main # Reaper /\ Closer = {Main, Reaper}
    BY ThreadsDiffer DEF Closer
<1>1. CASE f[Main] = "uncount" /\ f[Reaper] = "uncount"
    <2>1. U = {Main} \cup {Reaper}
        BY <1>0, <1>1
    <2>2. IsFiniteSet({Main}) /\ Cardinality({Main}) = 1 /\ Reaper \notin {Main}
        BY <1>0, FS_Singleton
    <2>3. Cardinality({Main} \cup {Reaper}) = Cardinality({Main}) + 1
        BY <2>2, FS_AddElement
    <2> QED
        BY <1>1, <2>1, <2>2, <2>3 DEF Pending
<1>2. CASE f[Main] = "uncount" /\ f[Reaper] # "uncount"
    <2>1. U = {Main}
        BY <1>0, <1>2
    <2>2. Cardinality({Main}) = 1
        BY FS_Singleton
    <2> QED
        BY <1>2, <2>1, <2>2 DEF Pending
<1>3. CASE f[Main] # "uncount" /\ f[Reaper] = "uncount"
    <2>1. U = {Reaper}
        BY <1>0, <1>3
    <2>2. Cardinality({Reaper}) = 1
        BY FS_Singleton
    <2> QED
        BY <1>3, <2>1, <2>2 DEF Pending
<1>4. CASE f[Main] # "uncount" /\ f[Reaper] # "uncount"
    <2>1. U = {}
        BY <1>0, <1>4
    <2>2. Cardinality({}) = 0
        BY FS_EmptySet
    <2> QED
        BY <1>4, <2>1, <2>2 DEF Pending
<1> QED
    BY <1>1, <1>2, <1>3, <1>4

(* Every step keeps the counter equation.                                  *)
LEMMA CounterStep ==
    Guarded /\ CounterFollowsStack /\ [Step]_<<vars, overlapped>> => CounterFollowsStack'
<1> SUFFICES ASSUME Guarded, CounterFollowsStack, [Step]_<<vars, overlapped>>, ~bug'
             PROVE  CounterFollowsStack'
    BY DEF CounterFollowsStack
<1> SUFFICES pool'.n_on_sess =
                 (pool'.stk.sp + Pending(pc', Main) + Pending(pc', Reaper)) % TwoTo16
    <2>1. Cardinality(Uncounted)' = Pending(pc', Main) + Pending(pc', Reaper)
        BY CountUncounted DEF Uncounted
    <2>2. Guarded' /\ Pending(pc', Main) \in Nat /\ Pending(pc', Reaper) \in Nat
        BY ShapedStep, TypedStep DEF Guarded, Pending
    <2>3. pool'.stk.sp \in Nat
        BY <2>2, ConstantsTyped DEF Guarded, Shaped, PoolType, StackType
    <2>4. pool'.stk.sp + (Pending(pc', Main) + Pending(pc', Reaper)) =
              pool'.stk.sp + Pending(pc', Main) + Pending(pc', Reaper)
        BY <2>2, <2>3
    <2> QED
        BY <2>1, <2>4 DEF CounterFollowsStack
<1> DEFINE total == pool.stk.sp + Pending(pc, Main) + Pending(pc, Reaper)
<1>0. /\ Shaped(pool) /\ pc \in [Closer -> Place] /\ at \in [Closer -> Slot]
      /\ bug \in BOOLEAN
    BY DEF Guarded, Typed
<1>a. pool.stk.sp \in Nat
    BY <1>0, ConstantsTyped DEF Shaped, PoolType, StackType
<1>b. Pending(pc, Main) \in Nat /\ Pending(pc, Reaper) \in Nat /\ total \in Nat
    BY <1>a DEF Pending
<1>c. ~bug => pool.n_on_sess = total % TwoTo16
    <2>1. Cardinality(Uncounted) = Pending(pc, Main) + Pending(pc, Reaper)
        BY CountUncounted DEF Uncounted
    <2>2. pool.stk.sp + (Pending(pc, Main) + Pending(pc, Reaper)) = total
        BY <1>a, <1>b
    <2> QED
        BY <2>1, <2>2 DEF CounterFollowsStack
<1>d. Main # Reaper /\ Closer = {Main, Reaper}
    BY ThreadsDiffer DEF Closer
<1>1. ASSUME pool' = pool, bug' = bug, NEW t \in Closer, NEW l \in Place \ {"uncount"},
             pc' = [pc EXCEPT ![t] = l], pc[t] # "uncount"
      PROVE  pool'.n_on_sess =
                 (pool'.stk.sp + Pending(pc', Main) + Pending(pc', Reaper)) % TwoTo16
    <2>1. Pending(pc', Main) = Pending(pc, Main) /\ Pending(pc', Reaper) = Pending(pc, Reaper)
        BY <1>0, <1>d, <1>1 DEF Pending
    <2> QED
        BY <1>1, <1>c, <2>1
<1>2. ASSUME NEW c \in Client, MainCreate(c)
      PROVE  pool'.n_on_sess =
                 (pool'.stk.sp + Pending(pc', Main) + Pending(pc', Reaper)) % TwoTo16
    <2>1. /\ pool'.stk.sp = pool.stk.sp + 1
          /\ pool'.n_on_sess = (pool.n_on_sess + 1) % TwoTo16
        BY <1>0, <1>2, CreateShaped DEF MainCreate
    <2>2. ~bug /\ pc[Main] = "idle" /\ pc' = [pc EXCEPT ![Main] = "set_addr"]
        BY <1>2 DEF MainCreate, GoTo
    <2>3. Pending(pc', Main) = Pending(pc, Main) /\ Pending(pc', Reaper) = Pending(pc, Reaper)
        BY <1>0, <1>d, <2>2 DEF Pending
    <2>4. pool'.stk.sp + Pending(pc', Main) + Pending(pc', Reaper) = total + 1
        BY <1>a, <1>b, <2>1, <2>3
    <2>5. ((total % TwoTo16) + 1) % TwoTo16 = (total + 1) % TwoTo16
        BY <1>b, Wraps
    <2> QED
        BY <1>c, <2>1, <2>2, <2>4, <2>5
<1>3. ASSUME NEW t \in Closer, CloseDelete(t)
      PROVE  pool'.n_on_sess =
                 (pool'.stk.sp + Pending(pc', Main) + Pending(pc', Reaper)) % TwoTo16
    <2>1. ~bug /\ pool.stk.sp # 0
        BY <1>0, <1>3 DEF CloseDelete
    <2>2. pool'.stk.sp = pool.stk.sp - 1 /\ pool'.n_on_sess = pool.n_on_sess
        BY <1>0, <1>3, <2>1, DeleteShaped DEF CloseDelete
    <2>3. pc[t] = "delete" /\ pc' = [pc EXCEPT ![t] = "uncount"]
        BY <1>3 DEF CloseDelete, GoTo
    <2>4. Pending(pc', Main) + Pending(pc', Reaper) =
              Pending(pc, Main) + Pending(pc, Reaper) + 1
        BY <1>0, <1>d, <2>3 DEF Pending
    <2>5. Pending(pc', Main) \in Nat /\ Pending(pc', Reaper) \in Nat
        BY DEF Pending
    <2>6. pool'.stk.sp + Pending(pc', Main) + Pending(pc', Reaper) = total
        BY <1>a, <1>b, <2>2, <2>4, <2>5
    <2> QED
        BY <1>c, <2>1, <2>2, <2>6
<1>4. ASSUME NEW t \in Closer, CloseUncount(t)
      PROVE  pool'.n_on_sess =
                 (pool'.stk.sp + Pending(pc', Main) + Pending(pc', Reaper)) % TwoTo16
    <2>1. /\ pool'.stk.sp = pool.stk.sp
          /\ pool'.n_on_sess = (pool.n_on_sess + TwoTo16 - 1) % TwoTo16
        BY <1>0, <1>4, UncountShaped DEF CloseUncount
    <2>2. ~bug /\ pc[t] = "uncount" /\ pc' = [pc EXCEPT ![t] = "idle"]
        BY <1>4 DEF CloseUncount, GoTo
    <2>3. Pending(pc', Main) + Pending(pc', Reaper) + 1 =
              Pending(pc, Main) + Pending(pc, Reaper)
        BY <1>0, <1>d, <2>2 DEF Pending
    <2>4. Pending(pc', Main) \in Nat /\ Pending(pc', Reaper) \in Nat
        BY DEF Pending
    <2>5. pool'.stk.sp + Pending(pc', Main) + Pending(pc', Reaper) = total - 1 /\ total > 0
        BY <1>a, <1>b, <2>1, <2>3, <2>4
    <2>6. ((total % TwoTo16) + TwoTo16 - 1) % TwoTo16 = (total - 1) % TwoTo16
        BY <1>b, <2>5, Wraps
    <2> QED
        BY <1>c, <2>1, <2>2, <2>5, <2>6
<1>5. CASE pool' = pool /\ bug' = bug /\ pc' = pc
    BY <1>5, <1>c
<1>6. ASSUME NEW c \in Client, MainDispatch(c)
      PROVE  pool'.n_on_sess =
                 (pool'.stk.sp + Pending(pc', Main) + Pending(pc', Reaper)) % TwoTo16
    BY <1>1, <1>6, <1>d DEF MainDispatch, GoTo, Place
<1>7. CASE MainSetAddr \/ MainHandshake \/ MainTouch \/ MainAuth \/ MainAuthIp
           \/ MainAuthRoute \/ MainAuthFlag
    <2>1. pool' = pool /\ bug' = bug /\ pc[Main] # "uncount"
        BY <1>7 DEF MainSetAddr, MainHandshake, MainTouch, MainAuth, MainAuthIp,
                    MainAuthRoute, MainAuthFlag
    <2>2. \E l \in Place \ {"uncount"} : GoTo(Main, l)
        BY <1>7 DEF MainSetAddr, MainHandshake, MainTouch, MainAuth, MainAuthIp,
                    MainAuthRoute, MainAuthFlag, Place
    <2> QED
        BY <1>1, <1>d, <2>1, <2>2 DEF GoTo
<1>8. CASE ReaperTest \/ ReaperAge
    <2>1. pool' = pool /\ bug' = bug /\ pc[Reaper] # "uncount"
        BY <1>8 DEF ReaperTest, ReaperAge
    <2>2. pc' = pc \/ \E l \in Place \ {"uncount"} : GoTo(Reaper, l)
        BY <1>8 DEF ReaperTest, ReaperAge, Place
    <2> QED
        BY <1>1, <1>5, <1>d, <2>1, <2>2 DEF GoTo
<1>9. ASSUME NEW t \in Closer, CloseUnroute(t)
      PROVE  pool'.n_on_sess =
                 (pool'.stk.sp + Pending(pc', Main) + Pending(pc', Reaper)) % TwoTo16
    BY <1>1, <1>9 DEF CloseUnroute, GoTo, Place
<1>10. ASSUME NEW c \in Client, MainNoMem(c)
       PROVE  pool'.n_on_sess =
                  (pool'.stk.sp + Pending(pc', Main) + Pending(pc', Reaper)) % TwoTo16
    <2>1. /\ pool'.stk.sp = pool.stk.sp /\ pool'.n_on_sess = pool.n_on_sess
          /\ bug' = bug /\ pc[Main] = "idle" /\ pc' = [pc EXCEPT ![Main] = "left"]
        BY <1>0, <1>10, CreateNoMemShaped DEF MainNoMem, GoTo
    <2>2. Pending(pc', Main) = Pending(pc, Main) /\ Pending(pc', Reaper) = Pending(pc, Reaper)
        BY <1>0, <1>d, <2>1 DEF Pending
    <2> QED
        BY <1>c, <2>1, <2>2
<1> QED
    BY <1>2, <1>3, <1>4, <1>5, <1>6, <1>7, <1>8, <1>9, <1>10
    DEF Step, Next, vars, WorkerRoute, WorkerBroadcast, Expire, WorkerSend

-----------------------------------------------------------------------------
(* What the handlers rely on, until the closing threads meet in one slot.  *)

(* A step between two states in which the closing threads are not in one   *)
(* slot keeps what the handlers rely on.                                   *)
LEMMA AloneStep ==
    ASSUME Guarded, Guarded', AloneParts, ~Overlap, Next, ~Overlap'
    PROVE  AloneParts'
<1> USE DEF Handshaking, Routed
<1>0. /\ info \in [Slot -> InfoType]
      /\ ipv4_map \in [IpKey \cup {0} -> 0..MaxConn]
      /\ pc \in [Closer -> Place]
      /\ at \in [Closer -> Slot]
      /\ pc[Main] \in Handshaking => arg.client \in Client
      /\ pc[Main] \in Authing => arg.ip \in IpKey
      /\ bug \in BOOLEAN
    BY DEF Guarded, Typed
<1>1. PoolInv(pool) /\ ~bug
    BY DEF AloneParts
<1>2. \A i \in Slot \ Connected(pool) : info[i] = ResetInfo
    BY DEF AloneParts
<1>3. \A k \in IpKey : ipv4_map[k] # 0 =>
          ipv4_map[k] - 1 \in Connected(pool) /\ info[ipv4_map[k] - 1].ipv4_iff = k
    BY DEF AloneParts
<1>4. \A t \in Closer : Inside(t) /\ Unrouted(t)
    BY DEF AloneParts
<1>5. \A i \in Slot : info[i].ipv4_iff # 0 =>
          info[i].is_authenticated \/ (pc[Main] \in Routed /\ at[Main] = i)
    BY DEF AloneParts
<1>6. /\ pc[Main] = "auth_ip" => info[at[Main]].ipv4_iff = 0
      /\ pc[Main] \in Routed => info[at[Main]].ipv4_iff = arg.ip
      /\ pc[Main] \in Handshaking => Owns(pool.sess[at[Main]], arg.client)
    BY DEF AloneParts
<1>7. /\ Main # Reaper /\ Main \in Closer /\ Reaper \in Closer /\ Closer = {Main, Reaper}
      /\ \/ pc[Main] \in {"idle", "left"} \/ pc[Reaper] \in {"idle", "left"}
         \/ at[Main] # at[Reaper]
      /\ \/ pc'[Main] \in {"idle", "left"} \/ pc'[Reaper] \in {"idle", "left"}
         \/ at'[Main] # at'[Reaper]
    BY ThreadsDiffer DEF Overlap, Closer
<1>8. /\ Connected(pool) \subseteq Slot /\ 0 \notin IpKey
      /\ \A i \in Slot : i \in Int /\ i + 1 # 0 /\ i + 1 - 1 = i
      /\ \A n \in 0..MaxConn : n \in Int
    BY ConstantsTyped, RaceAssumption DEF Connected
(* Steps that touch no field of a slot and no route.                       *)
<1>9. ASSUME pool' = pool, info' = info, ipv4_map' = ipv4_map, bug' = bug,
             \A t \in Closer : Inside(t)' /\ Unrouted(t)',
             pc[Main] \in Routed => pc'[Main] \in Routed /\ at'[Main] = at[Main],
             pc'[Main] = "auth_ip" => info[at'[Main]].ipv4_iff = 0,
             pc'[Main] \in Routed => info[at'[Main]].ipv4_iff = arg'.ip,
             pc'[Main] \in Handshaking => Owns(pool.sess[at'[Main]], arg'.client)
      PROVE  AloneParts'
    BY <1>1, <1>2, <1>3, <1>5, <1>9 DEF AloneParts
<1>10. ASSUME NEW c \in Client, MainDispatch(c) PROVE AloneParts'
    <2>1. lookup_udp_sess(pool, c) \in Connected(pool)
        BY <1>1, <1>10, LookupFinds DEF MainDispatch
    <2>2. /\ pool' = pool /\ info' = info /\ ipv4_map' = ipv4_map /\ bug' = bug
          /\ at' = [at EXCEPT ![Main] = lookup_udp_sess(pool, c)]
          /\ pc[Main] = "idle"
          /\ \E l \in {"touch", "auth", "unroute"} : pc' = [pc EXCEPT ![Main] = l]
        BY <1>10 DEF MainDispatch, GoTo
    <2>3. \A t \in Closer : Inside(t)' /\ Unrouted(t)'
        BY <1>0, <1>4, <1>7, <2>1, <2>2 DEF Inside, Unrouted
    <2> QED
        BY <1>0, <1>7, <1>9, <2>2, <2>3
<1>11. CASE MainHandshake \/ MainAuth
    <2>1. /\ pool' = pool /\ info' = info /\ ipv4_map' = ipv4_map /\ bug' = bug /\ at' = at
          /\ pc[Main] \in {"handshake", "auth"}
          /\ \E l \in {"idle", "unroute", "auth_ip"} : pc' = [pc EXCEPT ![Main] = l]
        BY <1>11 DEF MainHandshake, MainAuth, GoTo
    <2>2. \A t \in Closer : Inside(t)' /\ Unrouted(t)'
        BY <1>0, <1>4, <1>7, <2>1 DEF Inside, Unrouted
    <2>3. pc'[Main] = "auth_ip" => ~info[at[Main]].is_authenticated /\ pc[Main] = "auth"
        BY <1>0, <1>7, <1>11, <2>1 DEF MainHandshake, MainAuth, GoTo
    <2>4. pc'[Main] = "auth_ip" => info[at[Main]].ipv4_iff = 0
        BY <1>0, <1>5, <1>7, <2>3
    <2> QED
        BY <1>0, <1>7, <1>9, <2>1, <2>2, <2>4
<1>12. CASE ReaperTest
    <2>1. /\ pool' = pool /\ info' = info /\ ipv4_map' = ipv4_map /\ bug' = bug /\ arg' = arg
          /\ pc[Reaper] = "idle"
        BY <1>12 DEF ReaperTest
    <2>2. \/ /\ pool.sess[at[Reaper]].is_connected
             /\ pc' = [pc EXCEPT ![Reaper] = "age"] /\ at' = at
          \/ pc' = pc /\ at' = [at EXCEPT ![Reaper] = (at[Reaper] + 1) % MaxConn]
        BY <1>0, <1>12 DEF ReaperTest, NextSlot, GoTo
    <2>3. \A t \in Closer : Inside(t)' /\ Unrouted(t)'
        BY <1>0, <1>4, <1>7, <2>1, <2>2 DEF Inside, Unrouted, Connected
    <2>4. pc'[Main] = pc[Main] /\ at'[Main] = at[Main]
        BY <1>0, <1>7, <2>2
    <2> QED
        BY <1>6, <1>9, <2>1, <2>3, <2>4
<1>13. CASE ReaperAge
    <2>1. /\ pool' = pool /\ info' = info /\ ipv4_map' = ipv4_map /\ bug' = bug /\ arg' = arg
          /\ pc[Reaper] = "age"
        BY <1>13 DEF ReaperAge
    <2>2. \/ pc' = [pc EXCEPT ![Reaper] = "unroute"] /\ at' = at
          \/ /\ pc' = [pc EXCEPT ![Reaper] = "idle"]
             /\ at' = [at EXCEPT ![Reaper] = (at[Reaper] + 1) % MaxConn]
        BY <1>0, <1>13 DEF ReaperAge, NextSlot, GoTo
    <2>3. \A t \in Closer : Inside(t)' /\ Unrouted(t)'
        BY <1>0, <1>4, <1>7, <2>1, <2>2 DEF Inside, Unrouted
    <2>4. pc'[Main] = pc[Main] /\ at'[Main] = at[Main]
        BY <1>0, <1>7, <2>2
    <2> QED
        BY <1>6, <1>9, <2>1, <2>3, <2>4
<1>14. CASE \/ \E k \in IpKey \cup {0} : WorkerRoute(k)
            \/ \E i \in Slot : WorkerBroadcast(i)
            \/ WorkerSend
    <2>1. UNCHANGED <<pool, info, ipv4_map, pc, at, arg, bug>>
        BY <1>14 DEF WorkerRoute, WorkerBroadcast, WorkerSend
    <2>2. \A t \in Closer : Inside(t)' /\ Unrouted(t)'
        BY <1>4, <2>1 DEF Inside, Unrouted
    <2> QED
        BY <1>6, <1>9, <2>1, <2>2
(* Steps that write the address or the time stamp of a slot, or its flag.  *)
<1>15. ASSUME NEW i \in Connected(pool), pool' = pool, ipv4_map' = ipv4_map, bug' = bug,
              \A j \in Slot : j # i => info'[j] = info[j],
              info'[i].ipv4_iff = info[i].ipv4_iff,
              info[i].is_authenticated => info'[i].is_authenticated,
              at' = at,
              \/ pc' = pc /\ arg' = arg
              \/ /\ i = at[Main]
                 /\ \/ /\ pc[Main] = "set_addr" /\ pc' = [pc EXCEPT ![Main] = "handshake"]
                       /\ arg' = arg
                    \/ pc[Main] = "touch" /\ pc' = [pc EXCEPT ![Main] = "idle"]
                    \/ /\ pc[Main] = "auth_flag" /\ pc' = [pc EXCEPT ![Main] = "idle"]
                       /\ info'[i].is_authenticated
       PROVE  AloneParts'
    <2>1. \A j \in Slot \ Connected(pool) : info'[j] = ResetInfo
        BY <1>2, <1>15
    <2>2. \A j \in Slot : info'[j].ipv4_iff = info[j].ipv4_iff
        BY <1>15
    <2>3. \A k \in IpKey : ipv4_map[k] # 0 =>
              ipv4_map[k] - 1 \in Connected(pool) /\ info'[ipv4_map[k] - 1].ipv4_iff = k
        BY <1>3, <1>8, <2>2
    <2>4. \A t \in Closer : Inside(t)' /\ Unrouted(t)'
        BY <1>0, <1>4, <1>7, <1>15 DEF Inside, Unrouted
    <2>5. \A j \in Slot : info'[j].ipv4_iff # 0 =>
              info'[j].is_authenticated \/ (pc'[Main] \in Routed /\ at[Main] = j)
        BY <1>0, <1>5, <1>7, <1>15, <2>2
    <2>6. /\ pc'[Main] = "auth_ip" => info'[at[Main]].ipv4_iff = 0
          /\ pc'[Main] \in Routed => info'[at[Main]].ipv4_iff = arg'.ip
          /\ pc'[Main] \in Handshaking => Owns(pool.sess[at[Main]], arg'.client)
        BY <1>0, <1>6, <1>7, <1>15, <2>2
    <2> QED
        BY <1>1, <1>15, <2>1, <2>3, <2>4, <2>5, <2>6 DEF AloneParts
<1>16. CASE MainSetAddr
    <2>1. at[Main] \in Connected(pool)
        BY <1>4, <1>7, <1>16 DEF Inside, MainSetAddr
    <2>2. /\ \A j \in Slot : j # at[Main] => info'[j] = info[j]
          /\ info'[at[Main]].ipv4_iff = info[at[Main]].ipv4_iff
          /\ info'[at[Main]].is_authenticated = info[at[Main]].is_authenticated
        BY <1>0, <1>7, <1>16 DEF MainSetAddr, InfoType
    <2>3. /\ pool' = pool /\ ipv4_map' = ipv4_map /\ bug' = bug /\ at' = at /\ arg' = arg
          /\ pc[Main] = "set_addr" /\ pc' = [pc EXCEPT ![Main] = "handshake"]
        BY <1>16 DEF MainSetAddr, GoTo
    <2> QED
        BY <1>15, <2>1, <2>2, <2>3
<1>17. CASE MainTouch
    <2>1. at[Main] \in Connected(pool)
        BY <1>4, <1>7, <1>17 DEF Inside, MainTouch
    <2>2. /\ \A j \in Slot : j # at[Main] => info'[j] = info[j]
          /\ info'[at[Main]].ipv4_iff = info[at[Main]].ipv4_iff
          /\ info'[at[Main]].is_authenticated = info[at[Main]].is_authenticated
        BY <1>0, <1>7, <1>17 DEF MainTouch, InfoType
    <2>3. /\ pool' = pool /\ ipv4_map' = ipv4_map /\ bug' = bug /\ at' = at
          /\ pc[Main] = "touch" /\ pc' = [pc EXCEPT ![Main] = "idle"]
        BY <1>17 DEF MainTouch, GoTo
    <2> QED
        BY <1>15, <2>1, <2>2, <2>3
<1>18. CASE MainAuthFlag
    <2>1. at[Main] \in Connected(pool)
        BY <1>4, <1>7, <1>18 DEF Inside, MainAuthFlag
    <2>2. /\ \A j \in Slot : j # at[Main] => info'[j] = info[j]
          /\ info'[at[Main]].ipv4_iff = info[at[Main]].ipv4_iff
          /\ info'[at[Main]].is_authenticated
        BY <1>0, <1>7, <1>18 DEF MainAuthFlag, InfoType
    <2>3. /\ pool' = pool /\ ipv4_map' = ipv4_map /\ bug' = bug /\ at' = at
          /\ pc[Main] = "auth_flag" /\ pc' = [pc EXCEPT ![Main] = "idle"]
        BY <1>18 DEF MainAuthFlag, GoTo
    <2> QED
        BY <1>15, <2>1, <2>2, <2>3
<1>19. ASSUME NEW i \in Slot, Expire(i) PROVE AloneParts'
    <2>1. i \in Connected(pool)
        BY <1>19 DEF Expire
    <2>2. /\ \A j \in Slot : j # i => info'[j] = info[j]
          /\ info'[i].ipv4_iff = info[i].ipv4_iff
          /\ info'[i].is_authenticated = info[i].is_authenticated
        BY <1>0, <1>19 DEF Expire, InfoType
    <2>3. UNCHANGED <<pool, ipv4_map, pc, at, arg, bug>>
        BY <1>19 DEF Expire
    <2> QED
        BY <1>15, <2>1, <2>2, <2>3
(* The address: no route leads to the slot yet.                            *)
<1>20. CASE MainAuthIp
    <2> DEFINE i == at[Main]
    <2>1. /\ i \in Connected(pool) /\ i \in Slot /\ info[i].ipv4_iff = 0
          /\ arg.ip \in IpKey /\ pc[Main] = "auth_ip"
        BY <1>0, <1>4, <1>6, <1>7, <1>20 DEF Inside, MainAuthIp, Authing
    <2>2. /\ \A j \in Slot : j # i => info'[j] = info[j]
          /\ info'[i].ipv4_iff = arg.ip
        BY <1>0, <1>7, <1>20 DEF MainAuthIp, InfoType
    <2>3. /\ pool' = pool /\ ipv4_map' = ipv4_map /\ bug' = bug /\ at' = at /\ arg' = arg
          /\ pc' = [pc EXCEPT ![Main] = "auth_route"]
        BY <1>20 DEF MainAuthIp, GoTo
    <2>4. pc'[Main] = "auth_route" /\ pc'[Reaper] = pc[Reaper]
        BY <1>0, <1>7, <2>3
    <2> HIDE DEF i
    <2>5. \A k \in IpKey : ipv4_map[k] # 0 =>
              ipv4_map[k] - 1 \in Connected(pool) /\ info'[ipv4_map[k] - 1].ipv4_iff = k
        BY <1>3, <1>8, <2>1, <2>2
    <2>6. \A t \in Closer : Inside(t)' /\ Unrouted(t)'
        BY <1>4, <1>7, <2>1, <2>3, <2>4 DEF Inside, Unrouted, i
    <2>7. \A j \in Slot : info'[j].ipv4_iff # 0 =>
              info'[j].is_authenticated \/ (pc'[Main] \in Routed /\ at[Main] = j)
        BY <1>5, <2>1, <2>2, <2>4 DEF i
    <2>8. \A j \in Slot \ Connected(pool) : info'[j] = ResetInfo
        BY <1>2, <2>1, <2>2
    <2> QED
        BY <1>1, <2>2, <2>3, <2>4, <2>5, <2>6, <2>7, <2>8 DEF AloneParts, i
<1>21. CASE MainAuthRoute
    <2> DEFINE i == at[Main]
    <2>1. /\ i \in Connected(pool) /\ i \in Slot /\ info[i].ipv4_iff = arg.ip
          /\ arg.ip \in IpKey /\ pc[Main] = "auth_route"
        BY <1>0, <1>4, <1>6, <1>7, <1>21 DEF Inside, MainAuthRoute, Authing
    <2>2. ipv4_map'[arg.ip] = i + 1 /\ \A k \in IpKey : k # arg.ip => ipv4_map'[k] = ipv4_map[k]
        <3>1. ipv4_map' = [ipv4_map EXCEPT ![arg.ip] = i + 1]
            BY <1>21, <2>1 DEF MainAuthRoute
        <3> HIDE DEF i
        <3> QED
            BY <1>0, <2>1, <3>1
    <2>3. /\ pool' = pool /\ info' = info /\ bug' = bug /\ at' = at /\ arg' = arg
          /\ pc' = [pc EXCEPT ![Main] = "auth_flag"]
        BY <1>21 DEF MainAuthRoute, GoTo
    <2>4. pc'[Main] = "auth_flag" /\ pc'[Reaper] = pc[Reaper]
        BY <1>0, <1>7, <2>3
    <2>5. \A k \in IpKey : ipv4_map'[k] # 0 =>
              ipv4_map'[k] - 1 \in Connected(pool) /\ info[ipv4_map'[k] - 1].ipv4_iff = k
        <3> TAKE k \in IpKey
        <3>1. CASE k = arg.ip
            BY <1>8, <2>1, <2>2, <3>1
        <3>2. CASE k # arg.ip
            BY <1>3, <2>2, <3>2
        <3> QED
            BY <3>1, <3>2
    <2>6. ASSUME NEW t \in Closer PROVE Inside(t)' /\ Unrouted(t)'
        <3>1. CASE t = Main
            BY <2>1, <2>3, <2>4, <3>1 DEF Inside, Unrouted
        <3>2. CASE t = Reaper
            <4>1. pc[Reaper] = "delete" => at[Reaper] # i
                BY <1>7, <2>1
            <4>2. pc[Reaper] = "delete" => \A k \in IpKey : ipv4_map'[k] # at[Reaper] + 1
                BY <1>0, <1>4, <1>7, <1>8, <2>1, <2>2, <4>1 DEF Unrouted
            <4> QED
                BY <1>4, <2>3, <2>4, <3>2, <4>2 DEF Inside, Unrouted
        <3> QED
            BY <1>7, <3>1, <3>2
    <2> QED
        BY <1>1, <1>2, <1>5, <2>1, <2>3, <2>4, <2>5, <2>6 DEF AloneParts
(* The close: every route to the slot is under the slot's own address.     *)
<1>22. ASSUME NEW t \in Closer, CloseUnroute(t) PROVE AloneParts'
    <2> DEFINE i == at[t]
               n == info[i].ipv4_iff
    <2>1. i \in Connected(pool) /\ i \in Slot /\ pc[t] = "unroute"
        BY <1>0, <1>4, <1>22 DEF Inside, CloseUnroute
    <2>2. /\ pool' = pool /\ info' = info /\ bug' = bug /\ at' = at /\ arg' = arg
          /\ pc' = [pc EXCEPT ![t] = "delete"]
        BY <1>22 DEF CloseUnroute, GoTo
    <2>3. n \in IpKey \cup {0}
        BY <1>0, <2>1 DEF InfoType
    <2>4. \A k \in IpKey : ipv4_map'[k] = IF k = n THEN 0 ELSE ipv4_map[k]
        BY <1>0, <1>8, <1>22, <2>3 DEF CloseUnroute
    <2>5. pc'[t] = "delete" /\ \A u \in Closer : u # t => pc'[u] = pc[u]
        BY <1>0, <2>2
    <2> HIDE DEF n
    <2>6. \A k \in IpKey : ipv4_map'[k] # 0 =>
              ipv4_map'[k] - 1 \in Connected(pool) /\ info[ipv4_map'[k] - 1].ipv4_iff = k
        BY <1>3, <2>4
    <2>7. \A k \in IpKey : ipv4_map'[k] # i + 1
        <3> SUFFICES ASSUME NEW k \in IpKey, ipv4_map[k] = i + 1 PROVE k = n
            BY <1>8, <2>1, <2>4
        <3>1. info[i].ipv4_iff = k
            BY <1>3, <1>8, <2>1
        <3> QED
            BY <3>1 DEF n
    <2>8. ASSUME NEW u \in Closer PROVE Inside(u)' /\ Unrouted(u)'
        <3>1. CASE u = t
            BY <2>1, <2>2, <2>5, <2>7, <3>1 DEF Inside, Unrouted
        <3>2. CASE u # t
            <4>1. pc[u] = "delete" => \A k \in IpKey : ipv4_map'[k] # at[u] + 1
                BY <1>0, <1>4, <1>8, <2>4 DEF Unrouted
            <4> QED
                BY <1>4, <2>2, <2>5, <3>2, <4>1 DEF Inside, Unrouted
        <3> QED
            BY <3>1, <3>2
    <2>9. pc'[Main] = pc[Main] \/ (t = Main /\ pc'[Main] = "delete")
        BY <1>7, <2>5
    <2> QED
        BY <1>1, <1>2, <1>5, <1>6, <2>1, <2>2, <2>6, <2>8, <2>9 DEF AloneParts
(* The slot is freed: no route leads to it, and the other thread is not in *)
(* it.                                                                     *)
<1>23. ASSUME NEW t \in Closer, CloseDelete(t) PROVE AloneParts'
    <2> DEFINE i == at[t]
    <2>1. i \in Connected(pool) /\ i \in Slot /\ pc[t] = "delete"
        BY <1>0, <1>4, <1>23 DEF Inside, CloseDelete
    <2>2. /\ pool' = delete_udp_session_locked(pool, i)
          /\ bug' = (bug \/ pool.stk.sp = 0)
          /\ ipv4_map' = ipv4_map /\ at' = at /\ arg' = arg
          /\ pc' = [pc EXCEPT ![t] = "uncount"]
          /\ info' = [info EXCEPT ![i] = ResetInfo]
        BY <1>23 DEF CloseDelete, GoTo
    <2>3. pc'[t] = "uncount" /\ \A u \in Closer : u # t => pc'[u] = pc[u]
        BY <1>0, <2>2
    <2>4. info'[i] = ResetInfo /\ \A j \in Slot : j # i => info'[j] = info[j]
        BY <1>0, <2>1, <2>2
    <2> HIDE DEF i
    <2>5. /\ PoolInv(pool') /\ pool.stk.sp > 0
          /\ Connected(pool') = Connected(pool) \ {i}
          /\ \A j \in Slot : j # i => pool'.sess[j] = pool.sess[j]
        BY <1>1, <2>1, <2>2, DeleteInv
    <2>6. ~bug'
        <3>1. pool.stk.sp # 0
            BY <2>5
        <3> QED
            BY <1>1, <2>2, <3>1
    <2>7. \A j \in Slot \ Connected(pool') : info'[j] = ResetInfo
        BY <1>2, <2>4, <2>5
    <2>8. \A k \in IpKey : ipv4_map[k] # i + 1
        BY <1>4, <2>1 DEF Unrouted, i
    <2>9. \A k \in IpKey : ipv4_map'[k] # 0 =>
              ipv4_map'[k] - 1 \in Connected(pool') /\ info'[ipv4_map'[k] - 1].ipv4_iff = k
        <3> SUFFICES ASSUME NEW k \in IpKey, ipv4_map[k] # 0
                     PROVE  /\ ipv4_map[k] - 1 \in Connected(pool')
                            /\ info'[ipv4_map[k] - 1].ipv4_iff = k
            BY <2>2
        <3>1. ipv4_map[k] \in Int /\ i \in Int
            BY <1>0, <1>8, <2>1
        <3>2. ipv4_map[k] - 1 # i
            BY <2>8, <3>1
        <3> QED
            BY <1>3, <1>8, <2>4, <2>5, <3>2
    <2>10. ASSUME NEW u \in Closer, u # t, pc[u] \notin {"idle", "left"} PROVE at[u] # i
        BY <1>7, <2>1, <2>10 DEF i
    <2>11. ASSUME NEW u \in Closer PROVE Inside(u)' /\ Unrouted(u)'
        <3>1. CASE u = t
            BY <2>3, <3>1 DEF Inside, Unrouted
        <3>2. CASE u # t
            BY <1>4, <2>2, <2>3, <2>5, <2>10, <3>2 DEF Inside, Unrouted
        <3> QED
            BY <3>1, <3>2
    <2>12. \A j \in Slot : info'[j].ipv4_iff # 0 =>
               info'[j].is_authenticated \/ (pc'[Main] \in Routed /\ at'[Main] = j)
        <3> SUFFICES ASSUME NEW j \in Slot, info'[j].ipv4_iff # 0
                     PROVE  info'[j].is_authenticated \/ (pc'[Main] \in Routed /\ at'[Main] = j)
            OBVIOUS
        <3>1. j # i /\ info'[j] = info[j]
            BY <2>4 DEF ResetInfo
        <3> QED
            BY <1>5, <1>7, <2>1, <2>2, <2>3, <3>1
    <2>13. pc'[Main] \in {"auth_ip"} \cup Routed \cup Handshaking =>
               pc'[Main] = pc[Main] /\ at[Main] # i /\ at[Main] \in Slot
        BY <1>0, <1>7, <2>3, <2>10
    <2>14. /\ pc'[Main] = "auth_ip" => info'[at'[Main]].ipv4_iff = 0
           /\ pc'[Main] \in Routed => info'[at'[Main]].ipv4_iff = arg'.ip
           /\ pc'[Main] \in Handshaking => Owns(pool'.sess[at'[Main]], arg'.client)
        BY <1>6, <2>2, <2>4, <2>5, <2>13
    <2> QED
        BY <2>5, <2>6, <2>7, <2>9, <2>11, <2>12, <2>14 DEF AloneParts
<1>24. ASSUME NEW t \in Closer, CloseUncount(t) PROVE AloneParts'
    <2>1. /\ pool' = n_on_sess_sub(pool) /\ pc[t] = "uncount"
          /\ pc' = [pc EXCEPT ![t] = "idle"]
          /\ UNCHANGED <<info, ipv4_map, arg, bug>>
          /\ \A u \in Closer : u # t => at'[u] = at[u]
        BY <1>0, <1>7, <1>24 DEF CloseUncount, GoTo, NextSlot
    <2>2. pc'[t] = "idle" /\ \A u \in Closer : u # t => pc'[u] = pc[u]
        BY <1>0, <2>1
    <2>3. PoolInv(pool') /\ pool'.sess = pool.sess /\ Connected(pool') = Connected(pool)
        BY <1>1, <2>1, UncountInv
    <2>4. ASSUME NEW u \in Closer PROVE Inside(u)' /\ Unrouted(u)'
        BY <1>4, <2>1, <2>2, <2>3 DEF Inside, Unrouted
    <2>5. pc'[Main] = "idle" \/ (pc'[Main] = pc[Main] /\ at'[Main] = at[Main])
        BY <1>7, <2>1, <2>2
    <2>6. \A j \in Slot : info[j].ipv4_iff # 0 =>
              info[j].is_authenticated \/ (pc'[Main] \in Routed /\ at'[Main] = j)
        BY <1>5, <1>7, <2>1, <2>2
    <2> QED
        BY <1>1, <1>2, <1>3, <1>6, <2>1, <2>3, <2>4, <2>5, <2>6 DEF AloneParts
(* A new session: the slot on top of the stack was free, hence reset.      *)
<1>25. ASSUME NEW c \in Client, MainCreate(c) PROVE AloneParts'
    <2> DEFINE i == bt_stack_top(pool.stk)
    <2>1. /\ pool' = create_udp_sess(pool, c) /\ pc[Main] = "idle"
          /\ lookup_udp_sess(pool, c) = NULL /\ ~StackEmpty(pool.stk)
          /\ ipv4_map' = ipv4_map /\ bug' = bug
          /\ at' = [at EXCEPT ![Main] = i]
          /\ pc' = [pc EXCEPT ![Main] = "set_addr"]
        BY <1>25 DEF MainCreate, GoTo
    <2>2. arg'.client = c
        BY <1>25, NoArgTyped DEF MainCreate
    <2>3. /\ PoolInv(pool') /\ i \in Slot \ Connected(pool)
          /\ Connected(pool') = Connected(pool) \cup {i}
          /\ pool'.sess[i] = [src_addr |-> c[1], src_port |-> c[2], is_connected |-> TRUE]
        BY <1>1, <2>1, CreateInv
    <2>4. /\ \A j \in Slot : j # i => info'[j] = info[j]
          /\ info'[i].ipv4_iff = info[i].ipv4_iff
        BY <1>0, <1>25, <2>3 DEF MainCreate, InfoType
    <2>5. info[i].ipv4_iff = 0
        BY <1>2, <2>3 DEF ResetInfo
    <2>6. /\ pc'[Main] = "set_addr" /\ pc'[Reaper] = pc[Reaper]
          /\ at'[Main] = i /\ at'[Reaper] = at[Reaper]
        BY <1>0, <1>7, <2>1
    <2> HIDE DEF i
    <2>7. \A j \in Slot \ Connected(pool') : info'[j] = ResetInfo
        BY <1>2, <2>3, <2>4
    <2>8. \A k \in IpKey : ipv4_map'[k] # 0 =>
              ipv4_map'[k] - 1 \in Connected(pool') /\ info'[ipv4_map'[k] - 1].ipv4_iff = k
        BY <1>3, <1>8, <2>1, <2>3, <2>4
    <2>9. ASSUME NEW u \in Closer PROVE Inside(u)' /\ Unrouted(u)'
        <3>1. CASE u = Main
            BY <2>3, <2>6, <3>1 DEF Inside, Unrouted
        <3>2. CASE u = Reaper
            BY <1>4, <2>1, <2>3, <2>6, <3>2 DEF Inside, Unrouted
        <3> QED
            BY <1>7, <3>1, <3>2
    <2>10. \A j \in Slot : info'[j].ipv4_iff # 0 => info'[j].is_authenticated
        BY <1>5, <2>1, <2>4, <2>5
    <2>11. Owns(pool'.sess[i], c)
        BY <2>3 DEF Owns
    <2> QED
        BY <1>1, <2>1, <2>2, <2>3, <2>6, <2>7, <2>8, <2>9, <2>10, <2>11 DEF AloneParts
(* No memory: the slot on top of the stack was free, and stays so.         *)
<1>26. ASSUME NEW c \in Client, MainNoMem(c) PROVE AloneParts'
    <2>1. /\ pool' = create_udp_sess_nomem(pool, c) /\ pc[Main] = "idle"
          /\ ~StackEmpty(pool.stk)
          /\ UNCHANGED <<info, ipv4_map, at, arg, bug>>
          /\ pc' = [pc EXCEPT ![Main] = "left"]
        BY <1>26 DEF MainNoMem, GoTo
    <2>2. PoolInv(pool') /\ Connected(pool') = Connected(pool)
        BY <1>1, <2>1, CreateNoMemInv
    <2>3. pc'[Main] = "left" /\ pc'[Reaper] = pc[Reaper]
        BY <1>0, <1>7, <2>1
    <2>4. ASSUME NEW u \in Closer PROVE Inside(u)' /\ Unrouted(u)'
        <3>1. CASE u = Main
            BY <2>3, <3>1 DEF Inside, Unrouted
        <3>2. CASE u = Reaper
            BY <1>4, <2>1, <2>2, <2>3, <3>2 DEF Inside, Unrouted
        <3> QED
            BY <1>7, <3>1, <3>2
    <2>5. \A j \in Slot : info[j].ipv4_iff # 0 => info[j].is_authenticated
        BY <1>5, <2>1
    <2> QED
        BY <1>1, <1>2, <1>3, <2>1, <2>2, <2>3, <2>4, <2>5 DEF AloneParts
<1> QED
    BY <1>10, <1>11, <1>12, <1>13, <1>14, <1>16, <1>17, <1>18, <1>19, <1>20, <1>21, <1>22,
       <1>23, <1>24, <1>25, <1>26 DEF Next

-----------------------------------------------------------------------------
(* The theorems.                                                           *)

LEMMA InitRace == Init => RaceInv
<1> SUFFICES ASSUME Init PROVE RaceInv
    OBVIOUS
<1>0. Main # Reaper /\ Main \in Closer /\ Reaper \in Closer
    BY ThreadsDiffer
<1>1. /\ pool = InitPool /\ info = [i \in Slot |-> ResetInfo]
      /\ ipv4_map = [k \in IpKey \cup {0} |-> 0] /\ pc = [t \in Closer |-> "idle"]
      /\ at = [t \in Closer |-> 0] /\ arg = NoArg /\ bug = FALSE /\ overlapped = FALSE
    BY DEF Init
<1>2. PoolInv(pool) /\ Connected(pool) = {}
    BY <1>1, InitPoolInv
<1>3. Shaped(pool)
    BY <1>2 DEF PoolInv, MapWF, BucketWF, HeadFirst, Shaped
<1>4. pc[Main] = "idle" /\ pc[Reaper] = "idle"
    BY <1>0, <1>1
<1>5. Typed
    <2>1. info \in [Slot -> InfoType] /\ ResetInfo \in InfoType
        BY <1>1, ResetTyped
    <2>2. ipv4_map \in [IpKey \cup {0} -> 0..MaxConn] /\ at \in [Closer -> Slot]
        BY <1>1, ConstantsTyped
    <2>3. pc \in [Closer -> Place] /\ pc[Main] \notin Handshaking /\ pc[Main] \notin Authing
        BY <1>1, <1>4 DEF Place, Handshaking, Authing
    <2>4. /\ arg \in [client : Client \cup {NoPeer}, ip : IpKey \cup {0}]
          /\ bug \in BOOLEAN /\ overlapped \in BOOLEAN
        BY <1>1, NoArgTyped
    <2> QED
        BY <2>1, <2>2, <2>3, <2>4 DEF Typed
<1>6. CounterFollowsStack
    <2>1. Cardinality(Uncounted) = Pending(pc, Main) + Pending(pc, Reaper)
        BY CountUncounted DEF Uncounted
    <2>2. Cardinality(Uncounted) = 0
        BY <1>4, <2>1 DEF Pending
    <2>3. pool.n_on_sess = 0 /\ pool.stk.sp = 0
        BY <1>1 DEF InitPool
    <2> QED
        BY <2>2, <2>3 DEF CounterFollowsStack, TwoTo16
<1>7. AloneParts
    <2>1. \A i \in Slot : info[i] = ResetInfo /\ info[i].ipv4_iff = 0
        BY <1>1 DEF ResetInfo
    <2>2. \A k \in IpKey : ipv4_map[k] = 0
        BY <1>1
    <2>3. \A t \in Closer : pc[t] = "idle"
        BY <1>1
    <2> QED
        BY <1>0, <1>1, <1>2, <2>1, <2>2, <2>3
        DEF AloneParts, Inside, Unrouted, Routed, Handshaking
<1>8. ~Overlap
    BY <1>0, <1>4 DEF Overlap
<1> QED
    BY <1>3, <1>5, <1>6, <1>7, <1>8 DEF RaceInv, Guarded, Alone

LEMMA RaceInvStep == RaceInv /\ [Step]_<<vars, overlapped>> => RaceInv'
<1> SUFFICES ASSUME RaceInv, [Step]_<<vars, overlapped>> PROVE RaceInv'
    OBVIOUS
<1>1. Guarded /\ CounterFollowsStack /\ Alone
    BY DEF RaceInv
<1>2. Guarded'
    BY <1>1, ShapedStep, TypedStep DEF Guarded
<1>3. CounterFollowsStack'
    BY <1>1, CounterStep
<1>4. Alone'
    <2>1. CASE Step
        <3> SUFFICES ASSUME ~overlapped' PROVE AloneParts' /\ ~Overlap'
            BY DEF Alone
        <3>1. ~overlapped /\ ~Overlap' /\ Next
            BY <2>1 DEF Step
        <3>2. AloneParts /\ ~Overlap
            BY <1>1, <3>1 DEF Alone
        <3> QED
            BY <1>1, <1>2, <3>1, <3>2, AloneStep
    <2>2. CASE UNCHANGED <<vars, overlapped>>
        BY <1>1, <2>2 DEF vars, Alone, AloneParts, Overlap, Inside, Unrouted
    <2> QED
        BY <2>1, <2>2
<1> QED
    BY <1>2, <1>3, <1>4 DEF RaceInv

(* RaceInv is an invariant: the types and the counter in every             *)
(* interleaving of the main thread, the reaper and the TUN workers, what   *)
(* the handlers rely on until the first overlap.                           *)
THEOREM RaceInvariant == Spec => []RaceInv
<1>1. Init => RaceInv
    BY InitRace
<1>2. RaceInv /\ [Next /\ overlapped' = (overlapped \/ Overlap')]_<<vars, overlapped>>
      => RaceInv'
    BY RaceInvStep DEF Step
<1> QED
    BY <1>1, <1>2, PTL DEF Spec

(* In every interleaving, double deletions included, map_insert_udp_sess() *)
(* finds no list behind an empty head entry: its WARN_ON() never fires.    *)
THEOREM EmptyHeadsEndLists == Spec => []NoListBehindEmptyHead
<1>1. RaceInv => NoListBehindEmptyHead
    BY DEF RaceInv, Guarded, Shaped, HeadFirst, NoListBehindEmptyHead
<1> QED
    BY <1>1, RaceInvariant, PTL

(* In every interleaving up to the first push on a full stack, n_on_sess   *)
(* is the stack pointer plus the closes that have not decremented it yet.  *)
THEOREM CounterTrailsStack == Spec => []CounterFollowsStack
<1>1. RaceInv => CounterFollowsStack
    BY DEF RaceInv
<1> QED
    BY <1>1, RaceInvariant, PTL

(* Until the closing threads meet in one slot, the pool is exact between   *)
(* the critical sections and the BUG_ON() of delete_udp_session() does not *)
(* come true.                                                              *)
THEOREM PoolExactWithoutOverlap == Spec => [](PoolStaysExact /\ (bug => overlapped))
<1>1. RaceInv => PoolStaysExact /\ (bug => overlapped)
    BY DEF RaceInv, Guarded, Typed, Alone, AloneParts, PoolStaysExact
<1> QED
    BY <1>1, RaceInvariant, PTL

(* Until then a free slot has no authentication and no address that the    *)
(* next create_udp_sess() would pass on to its client.                     *)
THEOREM FreeSlotsAreClean == Spec => []FreeSlotsClean
<1>1. RaceInv => FreeSlotsClean
    BY DEF RaceInv, Alone, AloneParts, FreeSlotsClean
<1> QED
    BY <1>1, RaceInvariant, PTL

(* Until then every route leads to a connected session with that address.  *)
THEOREM RoutesAreSound == Spec => []RouteSound
<1>1. RaceInv => RouteSound
    BY DEF RaceInv, Alone, AloneParts, RouteSound
<1> QED
    BY <1>1, RaceInvariant, PTL

(* Until then handle_new_client() finds the session it has created: it is  *)
(* on the map, and it is the only one of its client.                       *)
THEOREM CreatedSessionIsFound == Spec => []CreatedIsOnMap
<1>1. RaceInv => CreatedIsOnMap
    <2> SUFFICES ASSUME RaceInv, ~overlapped, pc[Main] = "handshake"
                 PROVE  lookup_udp_sess(pool, arg.client) = at[Main]
        BY DEF CreatedIsOnMap, LookupFindsCreated
    <2> DEFINE i == lookup_udp_sess(pool, arg.client)
    <2>1. /\ PoolInv(pool) /\ arg.client \in Client
          /\ at[Main] \in Connected(pool) /\ Owns(pool.sess[at[Main]], arg.client)
        BY ThreadsDiffer
        DEF RaceInv, Guarded, Typed, Alone, AloneParts, Inside, Handshaking
    <2>2. \/ i = NULL /\ \A j \in Connected(pool) : ~Owns(pool.sess[j], arg.client)
          \/ i \in Connected(pool) /\ Owns(pool.sess[i], arg.client)
        BY <2>1, LookupFinds
    <2> QED
        BY <2>1, <2>2 DEF PoolInv, OwnersDistinct, Owns
<1> QED
    BY <1>1, RaceInvariant, PTL
=============================================================================
