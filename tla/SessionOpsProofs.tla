-------------------------- MODULE SessionOpsProofs --------------------------
(***************************************************************************)
(* Lemmas about the operators of SessionOps: what linking and unlinking do *)
(* to a bucket, and that every pool operation preserves PoolInv.           *)
(***************************************************************************)
EXTENDS SessionOps, FiniteSetTheorems, TLAPS

(* What RemoveFirst() returns on a list without repetitions: the list      *)
(* without that element, in the same order.                                *)
LEMMA RemoveFirstInjective ==
    ASSUME NEW S, NEW s \in Seq(S), NEW e,
           \A k, l \in 1..Len(s) : s[k] = s[l] => k = l
    PROVE  LET t == RemoveFirst(s, e)
           IN  /\ t \in Seq(S)
               /\ \A k, l \in 1..Len(t) : t[k] = t[l] => k = l
               /\ \A k \in 1..Len(t) : t[k] # e
               /\ \A k \in 1..Len(t) : \E l \in 1..Len(s) : t[k] = s[l]
               /\ \A l \in 1..Len(s) : s[l] # e => \E k \in 1..Len(t) : t[k] = s[l]
<1>1. CASE ~ \E k \in 1..Len(s) : s[k] = e
    BY <1>1 DEF RemoveFirst
<1>2. CASE \E k \in 1..Len(s) : s[k] = e
    <2>1. PICK m \in 1..Len(s) : s[m] = e
        BY <1>2
    <2>2. {i \in 1..Len(s) : s[i] = e} = {m}
        BY <2>1
    <2>3. SelectInSeq(s, LAMBDA v : v = e) = m
        <3>1. Min({m}) = m
            BY DEF Min
        <3> QED
            BY <2>2, <3>1 DEF SelectInSeq
    <2> DEFINE t == RemoveFirst(s, e)
    <2>4. t = SubSeq(s, 1, m - 1) \o SubSeq(s, m + 1, Len(s))
        BY <1>2, <2>3 DEF RemoveFirst, RemoveAt
    <2> HIDE DEF t
    <2> DEFINE u == SubSeq(s, 1, m - 1)
    <2> DEFINE v == SubSeq(s, m + 1, Len(s))
    <2>a. /\ u \in Seq(S) /\ Len(u) = m - 1
          /\ \A k \in 1..(m - 1) : u[k] = s[k]
        BY <2>1
    <2>b. /\ v \in Seq(S) /\ Len(v) = Len(s) - m
          /\ \A k \in 1..(Len(s) - m) : v[k] = s[k + m]
        BY <2>1
    <2>c. t = u \o v
        BY <2>4
    <2> HIDE DEF u, v
    <2>5. /\ t \in Seq(S)
          /\ Len(t) = Len(s) - 1
          /\ \A k \in 1..Len(t) : t[k] = IF k < m THEN s[k] ELSE s[k + 1]
        <3>1. t \in Seq(S) /\ Len(t) = Len(s) - 1
            BY <2>1, <2>a, <2>b, <2>c
        <3>2. ASSUME NEW k \in 1..Len(t), k < m PROVE t[k] = s[k]
            <4>1. k \in 1..(m - 1)
                BY <2>1, <3>1, <3>2
            <4>2. t[k] = u[k]
                BY <4>1, <2>1, <2>a, <2>b, <2>c
            <4> QED
                BY <4>1, <4>2, <2>a
        <3>3. ASSUME NEW k \in 1..Len(t), ~(k < m) PROVE t[k] = s[k + 1]
            <4>1. k - (m - 1) \in 1..(Len(s) - m) /\ t[k] = v[k - (m - 1)]
                BY <2>1, <2>a, <2>b, <2>c, <3>1, <3>3
            <4>2. v[k - (m - 1)] = s[k - (m - 1) + m]
                BY <4>1, <2>b
            <4> QED
                BY <4>1, <4>2, <2>1
        <3> QED
            BY <3>1, <3>2, <3>3
    <2>6. \A k, l \in 1..Len(t) : t[k] = t[l] => k = l
        BY <2>5, <2>1
    <2>7. \A k \in 1..Len(t) : t[k] # e /\ \E l \in 1..Len(s) : t[k] = s[l]
        <3> TAKE k \in 1..Len(t)
        <3>1. CASE k < m
            BY <3>1, <2>1, <2>5
        <3>2. CASE ~(k < m)
            BY <3>2, <2>1, <2>5
        <3> QED
            BY <3>1, <3>2
    <2>8. \A l \in 1..Len(s) : s[l] # e => \E k \in 1..Len(t) : t[k] = s[l]
        <3> TAKE l \in 1..Len(s)
        <3> HAVE s[l] # e
        <3>1. CASE l < m
            BY <3>1, <2>1, <2>5
        <3>2. CASE l > m
            <4>1. l - 1 \in 1..Len(t) /\ t[l - 1] = s[l]
                BY <3>2, <2>1, <2>5
            <4> QED
                BY <4>1
        <3> QED
            BY <3>1, <3>2, <2>1
    <2> QED
        BY <2>5, <2>6, <2>7, <2>8 DEF t
<1> QED
    BY <1>1, <1>2

(* remove_sess_from_bkt() on the bucket that holds the session: the bucket *)
(* stays well formed and loses that entry only, whether the entry was the  *)
(* embedded head, the head with a successor or an entry of the list.       *)
LEMMA UnlinkBucket ==
    ASSUME NEW bkt \in BucketType, BucketWF(bkt),
           NEW i \in Slot, InBucket(bkt, i)
    PROVE  /\ Unlink(bkt, i) \in BucketType
           /\ BucketWF(Unlink(bkt, i))
           /\ \A j \in Slot : InBucket(Unlink(bkt, i), j)
                               <=> InBucket(bkt, j) /\ j # i
<1> DEFINE n == Unlink(bkt, i)
<1>1. CASE bkt.sess # i
    <2> DEFINE t == RemoveFirst(bkt.next, i)
    <2>1. n = [sess |-> bkt.sess, next |-> t]
        BY <1>1 DEF Unlink
    <2>2. /\ t \in Seq(Slot)
          /\ \A k, l \in 1..Len(t) : t[k] = t[l] => k = l
          /\ \A k \in 1..Len(t) : t[k] # i
          /\ \A k \in 1..Len(t) : \E l \in 1..Len(bkt.next) : t[k] = bkt.next[l]
          /\ \A l \in 1..Len(bkt.next) :
                bkt.next[l] # i => \E k \in 1..Len(t) : t[k] = bkt.next[l]
        BY RemoveFirstInjective DEF BucketType, BucketWF
    <2> HIDE DEF t
    <2>3. bkt.sess # NULL
        BY <1>1 DEF InBucket, BucketWF, Contains, BucketType
    <2>4. n \in BucketType
        BY <2>1, <2>2 DEF BucketType
    <2>5. BucketWF(n)
        <3>1. n.sess = bkt.sess /\ n.next = t
            BY <2>1
        <3>2. ~Contains(t, bkt.sess)
            BY <2>2 DEF BucketWF, Contains
        <3> QED
            BY <2>2, <2>3, <3>1, <3>2 DEF BucketWF
    <2>6. ASSUME NEW j \in Slot
          PROVE  InBucket(n, j) <=> InBucket(bkt, j) /\ j # i
        <3>1. Contains(t, j) => Contains(bkt.next, j) /\ j # i
            BY <2>2 DEF Contains
        <3>2. Contains(bkt.next, j) /\ j # i => Contains(t, j)
            BY <2>2 DEF Contains
        <3> QED
            BY <1>1, <2>1, <3>1, <3>2 DEF InBucket
    <2> QED
        BY <2>4, <2>5, <2>6
<1>2. CASE bkt.sess = i /\ bkt.next = <<>>
    BY <1>2 DEF Unlink, EmptyBucket, BucketType, BucketWF, InBucket, Contains,
                Slot, NULL
<1>3. CASE bkt.sess = i /\ bkt.next # <<>>
    <2> DEFINE s == bkt.next
    <2>1. n = [sess |-> Head(s), next |-> Tail(s)]
        BY <1>3 DEF Unlink
    <2>2. s \in Seq(Slot) /\ Len(s) > 0
        BY <1>3 DEF BucketType
    <2>3. /\ Head(s) = s[1] /\ Head(s) \in Slot
          /\ Tail(s) \in Seq(Slot) /\ Len(Tail(s)) = Len(s) - 1
          /\ \A k \in 1..Len(Tail(s)) : Tail(s)[k] = s[k + 1]
        BY <2>2
    <2>4. \A k, l \in 1..Len(s) : s[k] = s[l] => k = l
        BY DEF BucketWF
    <2>5. \A k \in 1..Len(s) : s[k] # i
        BY <1>3 DEF BucketWF, Contains
    <2>6. BucketWF(n) /\ n \in BucketType
        BY <2>1, <2>2, <2>3, <2>4 DEF BucketWF, Contains, BucketType, Slot, NULL
    <2>7. ASSUME NEW j \in Slot
          PROVE  InBucket(n, j) <=> InBucket(bkt, j) /\ j # i
        <3>1. InBucket(n, j) <=> j = s[1] \/ \E k \in 1..(Len(s) - 1) : s[k + 1] = j
            BY <2>1, <2>3 DEF InBucket, Contains
        <3>2. InBucket(n, j) <=> \E k \in 1..Len(s) : s[k] = j
            <4>1. ASSUME NEW k \in 1..Len(s), s[k] = j PROVE InBucket(n, j)
                <5>1. CASE k = 1
                    BY <5>1, <4>1, <3>1
                <5>2. CASE k # 1
                    <6>1. k - 1 \in 1..(Len(s) - 1) /\ s[(k - 1) + 1] = j
                        BY <5>2, <4>1, <2>2
                    <6> QED
                        BY <6>1, <3>1
                <5> QED
                    BY <5>1, <5>2
            <4>2. ASSUME InBucket(n, j) PROVE \E k \in 1..Len(s) : s[k] = j
                BY <4>2, <3>1, <2>2
            <4> QED
                BY <4>1, <4>2
        <3> QED
            BY <3>2, <2>5, <1>3 DEF InBucket, Contains
    <2> QED
        BY <2>6, <2>7
<1> QED
    BY <1>1, <1>2, <1>3

(* map_insert_udp_sess() on a bucket that does not hold the session: the   *)
(* bucket stays well formed and gains that entry only.                     *)
LEMMA InsertBucket ==
    ASSUME NEW bkt \in BucketType, BucketWF(bkt),
           NEW i \in Slot, ~InBucket(bkt, i)
    PROVE  /\ Link(bkt, i) \in BucketType
           /\ BucketWF(Link(bkt, i))
           /\ \A j \in Slot : InBucket(Link(bkt, i), j)
                               <=> InBucket(bkt, j) \/ j = i
<1>1. CASE bkt.sess = NULL
    BY <1>1 DEF Link, BucketType, BucketWF, InBucket, Contains, Slot, NULL
<1>2. CASE bkt.sess # NULL
    <2> DEFINE s == bkt.next
    <2> DEFINE t == Append(s, i)
    <2>1. s \in Seq(Slot)
        BY DEF BucketType
    <2>2. /\ t \in Seq(Slot) /\ Len(t) = Len(s) + 1
          /\ \A k \in 1..Len(s) : t[k] = s[k]
          /\ t[Len(s) + 1] = i
        BY <2>1
    <2> HIDE DEF t
    <2>3. \A k \in 1..Len(s) : s[k] # i
        BY DEF InBucket, Contains
    <2>4. \A k \in 1..Len(t) : k \in 1..Len(s) \/ k = Len(s) + 1
        BY <2>1, <2>2
    <2>5. \A k, l \in 1..Len(t) : t[k] = t[l] => k = l
        BY <2>1, <2>2, <2>3, <2>4 DEF BucketWF
    <2>6. \A j : (\E k \in 1..Len(t) : t[k] = j)
                 <=> (\E k \in 1..Len(s) : s[k] = j) \/ j = i
        BY <2>1, <2>2, <2>4
    <2>7. i # bkt.sess
        BY DEF InBucket
    <2> QED
        BY <1>2, <2>1, <2>2, <2>5, <2>6, <2>7
        DEF t, Link, BucketType, BucketWF, InBucket, Contains, NULL
<1> QED
    BY <1>1, <1>2

-----------------------------------------------------------------------------
(* The constants, free of the numeral 2^16.                                *)
LEMMA ConstantsTyped ==
    /\ MaxConn \in Nat /\ MaxConn > 0
    /\ 0 \in AddrHi /\ 0 \in AddrLo /\ 0 \in Port
    /\ AddrHi \subseteq Int /\ AddrLo \subseteq Int /\ Port \subseteq Int
    /\ TwoTo16 \in Nat /\ MaxConn < TwoTo16
    /\ 0 \in Slot /\ Slot \subseteq Nat /\ NULL \notin Slot
    /\ \A i \in Slot : i \in Int
<1>1. TwoTo16 \in Nat
    BY DEF TwoTo16
<1> QED
    BY <1>1, PoolAssumption DEF Uint16, Slot, NULL

(* The uint16_t counter: it stays in range, and does not wrap away from    *)
(* the ends of the range.                                                  *)
LEMMA Uint16Arithmetic ==
    ASSUME NEW n \in Uint16
    PROVE  /\ n \in Nat
           /\ (n + 1) % TwoTo16 \in Uint16
           /\ (n + TwoTo16 - 1) % TwoTo16 \in Uint16
           /\ n + 1 < TwoTo16 => (n + 1) % TwoTo16 = n + 1
           /\ n > 0 => (n + TwoTo16 - 1) % TwoTo16 = n - 1
<1>1. TwoTo16 \in Nat /\ TwoTo16 > 1
    BY SMT DEF TwoTo16
<1>2. /\ n \in Nat /\ n < TwoTo16
      /\ \A m \in Nat : m < TwoTo16 => m \in Uint16
    BY <1>1, SMT DEF Uint16
<1>3. \A M \in Nat, m \in Nat : M > 1 /\ m < M =>
          /\ (m + 1) % M \in Nat /\ (m + 1) % M < M
          /\ (m + M - 1) % M \in Nat /\ (m + M - 1) % M < M
    BY SMT
<1>4. \A M \in Nat, m \in Nat : M > 1 /\ m + 1 < M => (m + 1) % M = m + 1
    BY SMT
<1>5. \A M \in Nat, m \in Nat : M > 1 /\ m < M /\ m > 0
                                => (m + M - 1) % M = m - 1
    BY SMT
<1> QED
    BY <1>1, <1>2, <1>3, <1>4, <1>5, SMT

(* A uint16_t counter that is stepped stays the value modulo 2^16.         *)
LEMMA Wraps ==
    ASSUME NEW a \in Nat
    PROVE  /\ ((a % TwoTo16) + 1) % TwoTo16 = (a + 1) % TwoTo16
           /\ a > 0 => ((a % TwoTo16) + TwoTo16 - 1) % TwoTo16 = (a - 1) % TwoTo16
BY DEF TwoTo16

(* The operations on a pool that satisfies PoolInv.                        *)

(* The number of sessions is a natural number.                             *)
LEMMA SlotFinite ==
    ASSUME NEW p
    PROVE  IsFiniteSet(Connected(p)) /\ Cardinality(Connected(p)) \in Nat
<1>1. IsFiniteSet(Slot)
    <2>1. 0 \in Int /\ MaxConn - 1 \in Int
        BY ConstantsTyped
    <2> QED
        BY <2>1, FS_Interval DEF Slot
<1>2. Connected(p) \in SUBSET Slot
    BY DEF Connected
<1>3. IsFiniteSet(Connected(p))
    BY <1>1, <1>2, FS_Subset
<1> QED
    BY <1>3, FS_CardinalityType

(* lookup_udp_sess() finds the client's connected slot, or there is none.  *)
LEMMA LookupFinds ==
    ASSUME NEW p, PoolInv(p), NEW c \in Client
    PROVE  LET i == lookup_udp_sess(p, c)
           IN  \/ /\ i = NULL
                  /\ \A j \in Connected(p) : ~Owns(p.sess[j], c)
               \/ /\ i \in Connected(p)
                  /\ Owns(p.sess[i], c)
<1> DEFINE b == addr_to_bkt(c[1])
<1> DEFINE bkt == p.map[b]
<1> DEFINE I == {k \in 1..Len(bkt.next) : Owns(p.sess[bkt.next[k]], c)}
<1> DEFINE k0 == SelectInSeq(bkt.next, LAMBDA i : Owns(p.sess[i], c))
<1>1. b \in AddrLo /\ c[1] \in Addr
    BY DEF Client, Addr, addr_to_bkt
<1>2. /\ bkt \in BucketType
      /\ bkt.next \in Seq(Slot)
      /\ bkt.sess \in Slot \cup {NULL}
    <2>1. p.map \in [AddrLo -> BucketType]
        BY DEF PoolInv, PoolType
    <2>2. bkt \in BucketType
        BY <1>1, <2>1
    <2> QED
        BY <2>2 DEF BucketType
<1>3. \A j \in Slot : InBucket(bkt, j) <=> /\ j \in Connected(p)
                                           /\ addr_to_bkt(p.sess[j].src_addr) = b
    BY <1>1 DEF PoolInv, EntriesExact
<1>4. k0 = IF I # {} THEN Min(I) ELSE 0
    BY DEF SelectInSeq
<1> HIDE DEF k0
<1>5. \A k \in 1..Len(bkt.next) : bkt.next[k] \in Slot /\ InBucket(bkt, bkt.next[k])
    BY <1>2 DEF InBucket, Contains
<1>6. \A k, l \in I : k = l
    <2> SUFFICES ASSUME NEW k \in I, NEW l \in I PROVE k = l
        OBVIOUS
    <2>1. bkt.next[k] \in Connected(p) /\ bkt.next[l] \in Connected(p)
        BY <1>3, <1>5
    <2>2. bkt.next[k] = bkt.next[l]
        BY <2>1 DEF PoolInv, OwnersDistinct, Owns
    <2> QED
        BY <2>2, <1>1 DEF PoolInv, MapWF, BucketWF
<1>7. I # {} => k0 \in I /\ k0 # 0
    <2> SUFFICES ASSUME NEW k \in I PROVE k0 = k /\ k # 0
        OBVIOUS
    <2>1. I = {k}
        BY <1>6
    <2>2. Min({k}) = k
        BY DEF Min
    <2>3. k0 = Min(I) /\ k \in 1..Len(bkt.next)
        BY <1>4
    <2> HIDE DEF I, bkt
    <2>4. k # 0
        <3>1. Len(bkt.next) \in Nat
            BY <1>2
        <3>2. \A n \in Nat : 0 \notin 1..n
            OBVIOUS
        <3> QED
            BY <2>3, <3>1, <3>2
    <2> QED
        BY <2>1, <2>2, <2>3, <2>4
<1> DEFINE r == lookup_udp_sess(p, c)
<1>8. r = IF bkt.sess # NULL /\ Owns(p.sess[bkt.sess], c) THEN bkt.sess
          ELSE IF k0 # 0 THEN bkt.next[k0] ELSE NULL
    BY DEF lookup_udp_sess, k0
<1>9. CASE bkt.sess # NULL /\ Owns(p.sess[bkt.sess], c)
    BY <1>2, <1>3, <1>8, <1>9 DEF InBucket
<1>10. CASE ~(bkt.sess # NULL /\ Owns(p.sess[bkt.sess], c)) /\ I # {}
    BY <1>3, <1>5, <1>7, <1>8, <1>10
<1>11. CASE ~(bkt.sess # NULL /\ Owns(p.sess[bkt.sess], c)) /\ I = {}
    <2>1. r = NULL
        BY <1>4, <1>8, <1>11
    <2>2. ASSUME NEW j \in Connected(p), Owns(p.sess[j], c) PROVE FALSE
        <3>1. j \in Slot /\ addr_to_bkt(p.sess[j].src_addr) = b
            BY <2>2 DEF Owns, Connected
        <3>2. InBucket(bkt, j)
            BY <3>1, <1>3
        <3>3. j # NULL
            BY <3>1, ConstantsTyped
        <3> QED
            BY <3>2, <3>3, <2>2, <1>11 DEF InBucket, Contains
    <2> QED
        BY <2>1, <2>2
<1> QED
    BY <1>9, <1>10, <1>11

(* The pool set up by init_udp_session_array(), _map() and _stack().       *)
LEMMA InitPoolInv ==
    PoolInv(InitPool) /\ Connected(InitPool) = {}
<1> DEFINE p == InitPool
<1>1. Connected(p) = {}
    BY DEF Connected, InitPool, reset_udp_session
<1>2. p \in PoolType
    <2>1. 0 \in Uint16
        BY DEF Uint16, TwoTo16
    <2>2. reset_udp_session \in SessType
        BY ConstantsTyped DEF SessType, reset_udp_session, Addr
    <2>3. EmptyBucket \in BucketType
        BY DEF BucketType, EmptyBucket
    <2>4. [sp |-> 0, arr |-> [k \in Slot |-> k]] \in StackType
        BY ConstantsTyped DEF StackType
    <2> QED
        BY <2>1, <2>2, <2>3, <2>4 DEF InitPool, PoolType
<1>3. FreeExact(p)
    BY <1>1, ConstantsTyped DEF FreeExact, StackDistinct, FreeList, InitPool, Slot
<1>4. SpExact(p)
    BY <1>1, FS_EmptySet DEF SpExact, InitPool
<1>5. MapWF(p)
    BY DEF MapWF, BucketWF, InitPool, EmptyBucket, Contains
<1>6. EntriesExact(p)
    BY <1>1, ConstantsTyped DEF EntriesExact, InBucket, Contains, InitPool,
       EmptyBucket
<1>7. OwnersDistinct(p)
    BY <1>1 DEF OwnersDistinct
<1> QED
    BY <1>1, <1>2, <1>3, <1>4, <1>5, <1>6, <1>7 DEF PoolInv

(* create_udp_sess() that succeeds: it takes a free slot, links it and     *)
(* hands it to a client no connected slot belongs to.                      *)
LEMMA CreateInv ==
    ASSUME NEW p, PoolInv(p), NEW c \in Client,
           lookup_udp_sess(p, c) = NULL, ~StackEmpty(p.stk)
    PROVE  LET i == bt_stack_top(p.stk)
               q == create_udp_sess(p, c)
           IN  /\ PoolInv(q)
               /\ i \in Slot \ Connected(p)
               /\ Connected(q) = Connected(p) \cup {i}
               /\ \A j \in Slot : j # i => q.sess[j] = p.sess[j]
               /\ q.sess[i] = [src_addr |-> c[1], src_port |-> c[2],
                               is_connected |-> TRUE]
<1> DEFINE i == bt_stack_top(p.stk)
<1> DEFINE q == create_udp_sess(p, c)
<1> DEFINE b == addr_to_bkt(c[1])
<1> DEFINE new == [src_addr |-> c[1], src_port |-> c[2], is_connected |-> TRUE]
<1>1. /\ p.stk.sp \in 0..MaxConn /\ p.stk.sp # MaxConn
      /\ p.stk.arr \in [Slot -> Slot]
      /\ p.map \in [AddrLo -> BucketType]
      /\ p.sess \in [Slot -> SessType]
      /\ p.n_on_sess \in Uint16
      /\ p.stk = [sp |-> p.stk.sp, arr |-> p.stk.arr]
    BY DEF PoolInv, PoolType, StackType, StackEmpty
<1>2. /\ b \in AddrLo /\ c[1] \in Addr /\ c[2] \in Port
      /\ new \in SessType
    BY DEF Client, Addr, addr_to_bkt, SessType
<1>3. i = p.stk.arr[p.stk.sp] /\ p.stk.sp \in Slot /\ i \in Slot
    <2>1. p.stk.sp \in Slot
        BY <1>1, ConstantsTyped DEF Slot
    <2> QED
        BY <1>1, <2>1 DEF bt_stack_top
<1>4. i \in Slot \ Connected(p)
    <2>1. p.stk.sp \in p.stk.sp..(MaxConn - 1)
        BY <1>1, ConstantsTyped
    <2> QED
        BY <1>3, <2>1 DEF PoolInv, FreeExact, FreeList
<1>5. /\ q.stk = [sp |-> p.stk.sp + 1, arr |-> p.stk.arr]
      /\ q.map = map_insert_udp_sess(p.map, c[1], i)
      /\ q.sess = [p.sess EXCEPT ![i] = new]
      /\ q.n_on_sess = (p.n_on_sess + 1) % TwoTo16
      /\ q = [stk |-> q.stk, map |-> q.map, sess |-> q.sess,
              n_on_sess |-> q.n_on_sess]
    BY <1>1 DEF create_udp_sess, bt_stack_pop
<1> HIDE DEF q, i, new
<1>6. /\ q.sess[i] = new
      /\ \A j \in Slot : j # i => q.sess[j] = p.sess[j]
      /\ q.sess \in [Slot -> SessType]
    BY <1>1, <1>2, <1>3, <1>5
<1>7. Connected(q) = Connected(p) \cup {i}
    BY <1>3, <1>6 DEF Connected, new
<1>8. ~InBucket(p.map[b], i) /\ p.map[b] \in BucketType /\ BucketWF(p.map[b])
    BY <1>1, <1>2, <1>4 DEF PoolInv, EntriesExact, MapWF
<1>9. /\ q.map \in [AddrLo -> BucketType]
      /\ \A a \in AddrLo : a # b => q.map[a] = p.map[a]
      /\ BucketWF(q.map[b])
      /\ \A j \in Slot : InBucket(q.map[b], j) <=> InBucket(p.map[b], j) \/ j = i
    <2> DEFINE n == Link(p.map[b], i)
    <2>1. q.map = [p.map EXCEPT ![b] = n]
        BY <1>5 DEF map_insert_udp_sess
    <2>2. /\ n \in BucketType /\ BucketWF(n)
          /\ \A j \in Slot : InBucket(n, j) <=> InBucket(p.map[b], j) \/ j = i
        BY <1>3, <1>8, InsertBucket
    <2> HIDE DEF n
    <2>3. q.map[b] = n
        BY <1>1, <1>2, <2>1
    <2> QED
        BY <1>1, <1>2, <2>1, <2>2, <2>3
<1>10. q \in PoolType
    <2>1. q.stk \in StackType
        BY <1>1, <1>5, ConstantsTyped DEF StackType
    <2>2. q.n_on_sess \in Uint16
        BY <1>1, <1>5, Uint16Arithmetic
    <2> QED
        BY <1>5, <1>6, <1>9, <2>1, <2>2 DEF PoolType
<1>11. FreeExact(q)
    <2>1. StackDistinct(q)
        BY <1>1, <1>5, ConstantsTyped DEF PoolInv, FreeExact, StackDistinct
    <2>2. FreeList(q.stk) = FreeList(p.stk) \ {i}
        <3>1. \A k \in (p.stk.sp + 1)..(MaxConn - 1) :
                /\ k \in p.stk.sp..(MaxConn - 1)
                /\ p.stk.arr[k] # i
            BY <1>1, <1>3, ConstantsTyped
            DEF PoolInv, FreeExact, StackDistinct
        <3>2. \A k \in p.stk.sp..(MaxConn - 1) :
                k = p.stk.sp \/ k \in (p.stk.sp + 1)..(MaxConn - 1)
            BY <1>1, ConstantsTyped
        <3> QED
            BY <1>3, <1>5, <3>1, <3>2 DEF FreeList
    <2> QED
        BY <1>4, <1>7, <2>1, <2>2 DEF PoolInv, FreeExact
<1>12. SpExact(q)
    <2>1. Cardinality(Connected(p) \cup {i}) = Cardinality(Connected(p)) + 1
        BY <1>4, SlotFinite, FS_AddElement
    <2> QED
        BY <1>5, <1>7, <2>1 DEF PoolInv, SpExact
<1>13. MapWF(q)
    BY <1>9 DEF PoolInv, MapWF
<1>14. EntriesExact(q)
    <2>1. addr_to_bkt(q.sess[i].src_addr) = b
        BY <1>6 DEF new
    <2> SUFFICES ASSUME NEW a \in AddrLo, NEW j \in Slot
                 PROVE  InBucket(q.map[a], j) <=>
                          /\ j \in Connected(q)
                          /\ addr_to_bkt(q.sess[j].src_addr) = a
        BY DEF EntriesExact
    <2>2. InBucket(p.map[a], j) <=> /\ j \in Connected(p)
                                    /\ addr_to_bkt(p.sess[j].src_addr) = a
        BY DEF PoolInv, EntriesExact
    <2>3. CASE j = i
        BY <1>4, <1>7, <1>9, <2>1, <2>2, <2>3
    <2>4. CASE j # i
        BY <1>6, <1>7, <1>9, <2>2, <2>4
    <2> QED
        BY <2>3, <2>4
<1>15. OwnersDistinct(q)
    <2>1. \A j \in Connected(p) : ~Owns(p.sess[j], c)
        <3>1. NULL \notin Connected(p)
            BY ConstantsTyped DEF Connected
        <3> QED
            BY <3>1, LookupFinds
    <2>2. q.sess[i].src_addr = c[1] /\ q.sess[i].src_port = c[2]
        BY <1>6 DEF new
    <2>3. \A j \in Connected(p) : j # i /\ j \in Slot /\ q.sess[j] = p.sess[j]
        BY <1>4, <1>6 DEF Connected
    <2> QED
        BY <1>7, <2>1, <2>2, <2>3 DEF PoolInv, OwnersDistinct, Owns
<1> QED
    BY <1>4, <1>6, <1>7, <1>10, <1>11, <1>12, <1>13, <1>14, <1>15
    DEF PoolInv, q, i, new

(* create_udp_sess() whose malloc() fails gives the index back: only the   *)
(* address fields of a free slot differ afterwards.                        *)
LEMMA CreateNoMemInv ==
    ASSUME NEW p, PoolInv(p), NEW c \in Client, ~StackEmpty(p.stk)
    PROVE  LET q == create_udp_sess_nomem(p, c)
           IN  /\ PoolInv(q)
               /\ Connected(q) = Connected(p)
               /\ \A j \in Connected(p) : q.sess[j] = p.sess[j]
               /\ q.n_on_sess = p.n_on_sess
<1> DEFINE i == bt_stack_top(p.stk)
<1> DEFINE q == create_udp_sess_nomem(p, c)
<1>1. /\ p.stk.sp \in 0..MaxConn /\ p.stk.sp # MaxConn
      /\ p.stk.arr \in [Slot -> Slot]
      /\ p.map \in [AddrLo -> BucketType]
      /\ p.sess \in [Slot -> SessType]
      /\ p.stk = [sp |-> p.stk.sp, arr |-> p.stk.arr]
      /\ p = [stk |-> p.stk, map |-> p.map, sess |-> p.sess,
              n_on_sess |-> p.n_on_sess]
    BY DEF PoolInv, PoolType, StackType, StackEmpty
<1>2. c[1] \in Addr /\ c[2] \in Port
    BY DEF Client
<1>3. i = p.stk.arr[p.stk.sp] /\ p.stk.sp \in Slot /\ i \in Slot
    <2>1. p.stk.sp \in Slot
        BY <1>1, ConstantsTyped DEF Slot
    <2> QED
        BY <1>1, <2>1 DEF bt_stack_top
<1>4. i \notin Connected(p)
    <2>1. p.stk.sp \in p.stk.sp..(MaxConn - 1)
        BY <1>1, ConstantsTyped
    <2> QED
        BY <1>3, <2>1 DEF PoolInv, FreeExact, FreeList
<1>5. bt_stack_push(bt_stack_pop(p.stk), i) = p.stk
    <2>1. bt_stack_pop(p.stk) = [sp |-> p.stk.sp + 1, arr |-> p.stk.arr]
        BY <1>1 DEF bt_stack_pop
    <2>2. [p.stk.arr EXCEPT ![p.stk.sp] = i] = p.stk.arr
        BY <1>1, <1>3
    <2>3. p.stk.sp + 1 # 0 /\ (p.stk.sp + 1) - 1 = p.stk.sp
        BY <1>1
    <2> QED
        BY <1>1, <2>1, <2>2, <2>3 DEF bt_stack_push
<1>6. /\ q.stk = p.stk /\ q.map = p.map /\ q.n_on_sess = p.n_on_sess
      /\ q.sess = [p.sess EXCEPT ![i] = [p.sess[i] EXCEPT !.src_addr = c[1],
                                                         !.src_port = c[2]]]
      /\ q = [stk |-> q.stk, map |-> q.map, sess |-> q.sess,
              n_on_sess |-> q.n_on_sess]
    <2> DEFINE new == [p.sess[i] EXCEPT !.src_addr = c[1], !.src_port = c[2]]
    <2>1. q = [p EXCEPT !.stk = p.stk, !.sess = [p.sess EXCEPT ![i] = new]]
        BY <1>1, <1>3, <1>5 DEF create_udp_sess_nomem
    <2> HIDE DEF q, new
    <2>2. q = [stk |-> p.stk, map |-> p.map, sess |-> [p.sess EXCEPT ![i] = new],
               n_on_sess |-> p.n_on_sess]
        BY <1>1, <2>1
    <2> QED
        BY <2>2 DEF new
<1> HIDE DEF q, i
<1>7. /\ q.sess \in [Slot -> SessType]
      /\ \A j \in Slot : j # i => q.sess[j] = p.sess[j]
      /\ q.sess[i].is_connected = p.sess[i].is_connected
    <2> DEFINE new == [p.sess[i] EXCEPT !.src_addr = c[1], !.src_port = c[2]]
    <2>1. new \in SessType /\ new.is_connected = p.sess[i].is_connected
        BY <1>1, <1>2, <1>3 DEF SessType
    <2>2. q.sess = [p.sess EXCEPT ![i] = new]
        BY <1>6
    <2> HIDE DEF new
    <2> QED
        BY <1>1, <1>3, <2>1, <2>2
<1>8. Connected(q) = Connected(p)
    BY <1>7 DEF Connected
<1>9. \A j \in Connected(p) : q.sess[j] = p.sess[j]
    BY <1>4, <1>7 DEF Connected
<1>10. q \in PoolType
    BY <1>6, <1>7 DEF PoolInv, PoolType
<1>11. FreeExact(q) /\ SpExact(q) /\ MapWF(q)
    BY <1>6, <1>8 DEF PoolInv, FreeExact, StackDistinct, SpExact, MapWF
<1>12. EntriesExact(q)
    BY <1>6, <1>8, <1>9 DEF PoolInv, EntriesExact
<1>13. OwnersDistinct(q)
    BY <1>8, <1>9 DEF PoolInv, OwnersDistinct
<1> QED
    BY <1>6, <1>8, <1>9, <1>10, <1>11, <1>12, <1>13 DEF PoolInv, q

(* delete_udp_session() of a connected session: the push finds room, the   *)
(* bucket of its address holds it, and only that slot becomes free.        *)
LEMMA DeleteInv ==
    ASSUME NEW p, PoolInv(p), NEW i \in Connected(p)
    PROVE  LET q == delete_udp_session_locked(p, i)
           IN  /\ PoolInv(q)
               /\ p.stk.sp > 0
               /\ Connected(q) = Connected(p) \ {i}
               /\ \A j \in Slot : j # i => q.sess[j] = p.sess[j]
               /\ q.sess[i] = reset_udp_session
               /\ q.n_on_sess = p.n_on_sess
               /\ delete_ret(p, i) = 0
<1> DEFINE q == delete_udp_session_locked(p, i)
<1> DEFINE b == addr_to_bkt(p.sess[i].src_addr)
<1>1. /\ p.stk.sp \in 0..MaxConn
      /\ p.stk.arr \in [Slot -> Slot]
      /\ p.map \in [AddrLo -> BucketType]
      /\ p.sess \in [Slot -> SessType]
      /\ p = [stk |-> p.stk, map |-> p.map, sess |-> p.sess,
              n_on_sess |-> p.n_on_sess]
    BY DEF PoolInv, PoolType, StackType
<1>2. i \in Slot
    BY DEF Connected
<1>3. b \in AddrLo
    BY <1>1, <1>2 DEF SessType, Addr, addr_to_bkt
<1>4. p.stk.sp > 0 /\ p.stk.sp - 1 \in Slot
    <2>1. p.stk.sp # 0
        BY SlotFinite, FS_EmptySet DEF PoolInv, SpExact
    <2> QED
        BY <1>1, <2>1, ConstantsTyped DEF Slot
<1>5. InBucket(p.map[b], i) /\ p.map[b] \in BucketType /\ BucketWF(p.map[b])
    BY <1>1, <1>2, <1>3 DEF PoolInv, EntriesExact, MapWF
<1>6. /\ q.stk = [sp |-> p.stk.sp - 1,
                  arr |-> [p.stk.arr EXCEPT ![p.stk.sp - 1] = i]]
      /\ q.map = [p.map EXCEPT ![b] = Unlink(p.map[b], i)]
      /\ q.sess = [p.sess EXCEPT ![i] = reset_udp_session]
      /\ q.n_on_sess = p.n_on_sess
      /\ q = [stk |-> q.stk, map |-> q.map, sess |-> q.sess,
              n_on_sess |-> q.n_on_sess]
    <2>1. bt_stack_push(p.stk, i) =
            [sp |-> p.stk.sp - 1, arr |-> [p.stk.arr EXCEPT ![p.stk.sp - 1] = i]]
        BY <1>4 DEF bt_stack_push
    <2>2. remove_sess_from_bkt(p.map, p.sess[i].src_addr, i) =
            [p.map EXCEPT ![b] = Unlink(p.map[b], i)]
        BY <1>1, <1>3, <1>5 DEF remove_sess_from_bkt
    <2>3. q = [stk |-> bt_stack_push(p.stk, i),
               map |-> remove_sess_from_bkt(p.map, p.sess[i].src_addr, i),
               sess |-> [p.sess EXCEPT ![i] = reset_udp_session],
               n_on_sess |-> p.n_on_sess]
        BY <1>1 DEF delete_udp_session_locked
    <2> HIDE DEF q
    <2> QED
        BY <2>1, <2>2, <2>3
<1>7. delete_ret(p, i) = 0
    BY <1>5 DEF delete_ret
<1> HIDE DEF q
<1>8. reset_udp_session \in SessType
    BY ConstantsTyped DEF SessType, reset_udp_session, Addr
<1>9. /\ q.sess \in [Slot -> SessType]
      /\ q.sess[i] = reset_udp_session
      /\ \A j \in Slot : j # i => q.sess[j] = p.sess[j]
    BY <1>1, <1>2, <1>6, <1>8
<1>10. Connected(q) = Connected(p) \ {i}
    BY <1>9 DEF Connected, reset_udp_session
<1>11. /\ q.map \in [AddrLo -> BucketType]
       /\ \A a \in AddrLo : a # b => q.map[a] = p.map[a]
       /\ BucketWF(q.map[b])
       /\ \A j \in Slot : InBucket(q.map[b], j) <=> InBucket(p.map[b], j) /\ j # i
    <2> DEFINE n == Unlink(p.map[b], i)
    <2>1. /\ n \in BucketType /\ BucketWF(n)
          /\ \A j \in Slot : InBucket(n, j) <=> InBucket(p.map[b], j) /\ j # i
        BY <1>2, <1>5, UnlinkBucket
    <2>2. q.map = [p.map EXCEPT ![b] = n]
        BY <1>6
    <2> HIDE DEF n
    <2>3. q.map[b] = n
        BY <1>1, <1>3, <2>2
    <2> QED
        BY <1>1, <1>3, <2>1, <2>2, <2>3
<1>12. q \in PoolType
    <2>1. q.stk \in StackType
        BY <1>1, <1>2, <1>4, <1>6, ConstantsTyped DEF StackType
    <2> QED
        BY <1>6, <1>9, <1>11, <2>1 DEF PoolInv, PoolType
<1>13. FreeExact(q)
    <2>1. /\ q.stk.sp = p.stk.sp - 1
          /\ q.stk.arr[p.stk.sp - 1] = i
          /\ \A k \in p.stk.sp..(MaxConn - 1) : q.stk.arr[k] = p.stk.arr[k]
        <3>1. \A k \in p.stk.sp..(MaxConn - 1) : k \in Slot /\ k # p.stk.sp - 1
            BY <1>1, <1>4, ConstantsTyped DEF Slot
        <3> QED
            BY <1>1, <1>4, <1>6, <3>1
    <2>2. \A k \in p.stk.sp..(MaxConn - 1) : p.stk.arr[k] # i
        BY DEF PoolInv, FreeExact, FreeList
    <2>3. \A k \in (p.stk.sp - 1)..(MaxConn - 1) :
            k = p.stk.sp - 1 \/ k \in p.stk.sp..(MaxConn - 1)
        BY <1>1, <1>4, ConstantsTyped
    <2>4. StackDistinct(q)
        BY <2>1, <2>2, <2>3 DEF PoolInv, FreeExact, StackDistinct
    <2>5. p.stk.sp - 1 \in (p.stk.sp - 1)..(MaxConn - 1)
        BY <1>1, <1>4, ConstantsTyped DEF Slot
    <2>6. \A k \in p.stk.sp..(MaxConn - 1) : k \in (p.stk.sp - 1)..(MaxConn - 1)
        BY <1>1, <1>4, ConstantsTyped
    <2>7. FreeList(q.stk) = FreeList(p.stk) \cup {i}
        BY <2>1, <2>3, <2>5, <2>6 DEF FreeList
    <2> QED
        BY <1>2, <1>10, <2>4, <2>7 DEF PoolInv, FreeExact
<1>14. SpExact(q)
    <2>1. Cardinality(Connected(p) \ {i}) = Cardinality(Connected(p)) - 1
        BY SlotFinite, FS_RemoveElement
    <2> QED
        BY <1>6, <1>10, <2>1 DEF PoolInv, SpExact
<1>15. MapWF(q)
    BY <1>11 DEF PoolInv, MapWF
<1>16. EntriesExact(q)
    <2> SUFFICES ASSUME NEW a \in AddrLo, NEW j \in Slot
                 PROVE  InBucket(q.map[a], j) <=>
                          /\ j \in Connected(q)
                          /\ addr_to_bkt(q.sess[j].src_addr) = a
        BY DEF EntriesExact
    <2>1. InBucket(p.map[a], j) <=> /\ j \in Connected(p)
                                    /\ addr_to_bkt(p.sess[j].src_addr) = a
        BY DEF PoolInv, EntriesExact
    <2>2. CASE j = i
        BY <1>10, <1>11, <2>1, <2>2
    <2>3. CASE j # i
        BY <1>9, <1>10, <1>11, <2>1, <2>3
    <2> QED
        BY <2>2, <2>3
<1>17. OwnersDistinct(q)
    <2>1. \A j \in Connected(q) : j \in Connected(p) /\ q.sess[j] = p.sess[j]
        BY <1>9, <1>10 DEF Connected
    <2> QED
        BY <2>1 DEF PoolInv, OwnersDistinct
<1> QED
    BY <1>4, <1>6, <1>7, <1>9, <1>10, <1>12, <1>13, <1>14, <1>15, <1>16, <1>17
    DEF PoolInv, q

(* The decrement after the unlock touches nothing PoolInv speaks of.       *)
LEMMA UncountInv ==
    ASSUME NEW p, PoolInv(p)
    PROVE  LET q == n_on_sess_sub(p)
           IN  /\ PoolInv(q)
               /\ q.sess = p.sess
               /\ Connected(q) = Connected(p)
               /\ q.n_on_sess = (p.n_on_sess + TwoTo16 - 1) % TwoTo16
<1> DEFINE q == n_on_sess_sub(p)
<1> DEFINE n == (p.n_on_sess + TwoTo16 - 1) % TwoTo16
<1>1. p \in PoolType /\ p.n_on_sess \in Uint16
    BY DEF PoolInv, PoolType
<1>2. n \in Uint16
    BY <1>1, Uint16Arithmetic
<1>3. q = [p EXCEPT !.n_on_sess = n]
    BY <1>1 DEF n_on_sess_sub, PoolType
<1> HIDE DEF q, n
<1>4. /\ q \in PoolType /\ q.n_on_sess = n
      /\ q.stk = p.stk /\ q.map = p.map /\ q.sess = p.sess
    BY <1>1, <1>2, <1>3 DEF PoolType
<1>5. Connected(q) = Connected(p)
    BY <1>4 DEF Connected
<1> QED
    BY <1>4, <1>5 DEF PoolInv, FreeExact, StackDistinct, SpExact, MapWF,
                      EntriesExact, OwnersDistinct, q, n
=============================================================================
